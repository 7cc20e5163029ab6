------------------------------ MODULE Streams ------------------------------
(***************************************************************************)
(* The streams of the multi-thread C run-time library                      *)
(* (bld/clib/streamio): fopen, fputc, fclose and flushall, called by       *)
(* several threads.  IOBSemaphore guards the lists of open and of          *)
(* closed streams; a stream's own state is guarded by the file semaphore   *)
(* its handle hashes to, so streams share semaphores.  The semaphores are  *)
(* those of module RecLock.                                                *)
(*                                                                         *)
(* A FILE is a number; the first is stdout, open on handle 0 and shared by *)
(* all threads.  What a file receives is a sequence of the threads that    *)
(* put a character to it, and a disk file is known by the thread that      *)
(* opened it.  A critical section that only IOBSemaphore guards, and that  *)
(* calls nothing, is one step.                                             *)
(***************************************************************************)
EXTENDS Naturals, Sequences, SequencesExt

CONSTANTS
  Openers,         \* threads that open, write and close a stream of their own
  Flushers,        \* threads that call flushall
  Writers,         \* threads that write to stdout
  None,
  IOB,             \* IOBSemaphore
  NFiles,          \* _NFILES: the static FILE structures
  NHandles,        \* handles of the process
  MaxSemaphore,    \* MAX_SEMAPHORE: the file semaphores
  BufSize,         \* fp->_bufsize
  MaxPuts          \* how much is put to one disk file

ASSUME StreamsAssumption ==
  /\ NFiles \in Nat \ {0} /\ NHandles \in Nat \ {0} /\ MaxSemaphore \in Nat \ {0}
  /\ BufSize \in Nat \ {0} /\ MaxPuts \in Nat

Threads == Openers \union Flushers \union Writers
Files == 1..NFiles
Stdout == 1
Handles == 0..NHandles - 1
FileSemaphores == 0..MaxSemaphore - 1
Locks == {IOB} \union FileSemaphores
Disk == Openers \union {"console"}     \* what a handle can be open on

\* A thread plays one part, and the names are different.
ASSUME StreamsNames ==
  /\ Openers \intersect Flushers = {} /\ Openers \intersect Writers = {}
  /\ Flushers \intersect Writers = {}
  /\ None \notin Threads /\ None \notin Handles /\ None # "console"
  /\ IOB \notin FileSemaphores /\ "console" \notin Openers

VARIABLES
  holder, depth,   \* the semaphores
  ostream, cstream,\* _RWD_ostream, _RWD_cstream: the FILEs their links point at
  opened,          \* fp->_flag & (_READ|_WRITE)
  dirty,           \* fp->_flag & _DIRTY
  handle,          \* fp->_handle
  buf,             \* what is in fp's buffer
  os,              \* what each handle is open on, or None
  disk, put,       \* what has been written to a disk file, and put to its stream
  pc,              \* where each thread is
  fp,              \* the stream it is dealing with
  then,            \* where it goes after __flush
  rest             \* of flushall: the links still to look at

sems  == <<holder, depth>>
lists == <<ostream, cstream>>
file  == <<opened, dirty, handle, buf>>
world == <<os, disk, put>>
mine  == <<fp, then, rest>>
vars  == <<sems, lists, file, world, pc, mine>>

Sem == INSTANCE RecLock
SemOf(f) == handle[f] % MaxSemaphore      \* _AccessFile( fp ), _ReleaseFile( fp )
\* __ReleaseFileH: nothing happens when nobody holds the semaphore, and the
\* program ends when somebody else does
Release(t, s) ==
  IF holder[s] = t THEN Sem!Give(t, s) ELSE UNCHANGED sems
WrongOwner(t, s) == holder[s] \notin {None, t}
GoTo(t, l) == pc' = [pc EXCEPT ![t] = l]
IOBFree(t) == holder[IOB] \in {None, t}

Init ==
  /\ Sem!Init
  /\ ostream = <<Stdout>> /\ cstream = <<>>
  /\ opened = [f \in Files |-> f = Stdout]
  /\ dirty = [f \in Files |-> FALSE]
  /\ handle = [f \in Files |-> 0]
  /\ buf = [f \in Files |-> <<>>]
  /\ os = [h \in Handles |-> IF h = 0 THEN "console" ELSE None]
  /\ disk = [d \in Disk |-> <<>>] /\ put = [d \in Disk |-> <<>>]
  /\ pc = [t \in Threads |-> "out"]
  /\ fp = [t \in Threads |-> IF t \in Writers THEN Stdout ELSE 0]
  /\ then = [t \in Threads |-> "out"]
  /\ rest = [t \in Threads |-> <<>>]

(***************************************************************************)
(* fopen: __allocfp, then __doopen                                         *)
(***************************************************************************)
AllocFpKept(t) ==
  LET free == {f \in Files : ~opened[f]}
      f == IF cstream # <<>> THEN Head(cstream)
           ELSE CHOOSE g \in free : \A e \in free : g <= e
  IN  /\ pc[t] = "out" /\ t \in Openers /\ fp[t] = 0
      /\ IOBFree(t)
      /\ cstream # <<>> \/ free # {}
      /\ ostream' = <<f>> \o ostream
      /\ opened' = [opened EXCEPT ![f] = FALSE]
      /\ dirty' = [dirty EXCEPT ![f] = FALSE]
      /\ handle' = [handle EXCEPT ![f] = 0]
      /\ buf' = [buf EXCEPT ![f] = <<>>]
      /\ fp' = [fp EXCEPT ![t] = f]
      /\ GoTo(t, "open")
      /\ UNCHANGED <<sems, cstream, world, then, rest>>
\* the latest closed stream again, or a static FILE that is not open
AllocFp(t) ==
  LET free == {f \in Files : ~opened[f]}
      f == IF cstream # <<>> THEN Head(cstream)
           ELSE CHOOSE g \in free : \A e \in free : g <= e
  IN  /\ pc[t] = "out" /\ t \in Openers /\ fp[t] = 0
      /\ IOBFree(t)
      /\ cstream # <<>> \/ free # {}
      /\ cstream' = IF cstream # <<>> THEN Tail(cstream) ELSE cstream
      /\ ostream' = <<f>> \o ostream
      /\ opened' = [opened EXCEPT ![f] = FALSE]
      /\ dirty' = [dirty EXCEPT ![f] = FALSE]
      /\ handle' = [handle EXCEPT ![f] = 0]
      /\ buf' = [buf EXCEPT ![f] = <<>>]
      /\ fp' = [fp EXCEPT ![t] = f]
      /\ GoTo(t, "open")
      /\ UNCHANGED <<sems, world, then, rest>>

\* sopen: the system gives a handle that neither a stream nor the rest of the
\* program has open, and the file is empty
OpenHandle(t) ==
  \E h \in {g \in Handles : os[g] = None} :
      /\ pc[t] = "open"
      /\ os' = [os EXCEPT ![h] = t]
      /\ disk' = [disk EXCEPT ![t] = <<>>] /\ put' = [put EXCEPT ![t] = <<>>]
      /\ handle' = [handle EXCEPT ![fp[t]] = h]
      /\ GoTo(t, "opened")
      /\ UNCHANGED <<sems, lists, opened, dirty, buf, mine>>

\* no such file, or no handle left: the FILE goes to the closed streams
OpenFails(t) ==
  /\ pc[t] = "open"
  /\ handle' = [handle EXCEPT ![fp[t]] = None]
  /\ GoTo(t, "free")
  /\ UNCHANGED <<sems, lists, opened, dirty, buf, world, mine>>

SetFlags(t) ==
  /\ pc[t] = "opened"
  /\ opened' = [opened EXCEPT ![fp[t]] = TRUE]
  /\ buf' = [buf EXCEPT ![fp[t]] = <<>>]
  /\ GoTo(t, "out")
  /\ UNCHANGED <<sems, lists, dirty, handle, world, mine>>

(***************************************************************************)
(* __flush( fp ), called by fputc, fclose and flushall; it goes on to      *)
(* then[t].  _AccessFile reads the handle before it waits: nobody else     *)
(* changes it meanwhile, since only an fopen that is given the same FILE   *)
(* does, and flushall holds IOBSemaphore.                                  *)
(***************************************************************************)
FlushUnlocked(t) ==
  /\ pc[t] = "flush"
  /\ GoTo(t, "flushing")
  /\ UNCHANGED <<sems, lists, file, world, mine>>
Flush(t) ==
  /\ pc[t] = "flush"
  /\ Sem!Take(t, SemOf(fp[t]))
  /\ GoTo(t, "flushing")
  /\ UNCHANGED <<lists, file, world, mine>>

\* what is in the buffer goes to the handle, if there is still something to do
WriteOut(t) ==
  LET f == fp[t]  d == os[handle[f]]
      work == dirty[f] /\ opened[f]
  IN  /\ pc[t] = "flushing"
      /\ dirty' = [dirty EXCEPT ![f] = FALSE]
      /\ disk' = IF work /\ d # None THEN [disk EXCEPT ![d] = @ \o buf[f]] ELSE disk
      /\ GoTo(t, "flushed")
      /\ UNCHANGED <<sems, lists, opened, handle, buf, os, put, mine>>

\* fp->_cnt = 0, and _ReleaseFile( fp ): a stream's handle is read again
Flushed(t) ==
  /\ pc[t] = "flushed"
  /\ buf' = [buf EXCEPT ![fp[t]] = <<>>]
  /\ Release(t, SemOf(fp[t]))
  /\ GoTo(t, IF WrongOwner(t, SemOf(fp[t])) THEN "fatal" ELSE then[t])
  /\ UNCHANGED <<lists, opened, dirty, handle, world, mine>>

(***************************************************************************)
(* fputc                                                                   *)
(***************************************************************************)
Put(t) ==
  /\ pc[t] = "out" /\ fp[t] # 0
  /\ Len(put[IF t \in Writers THEN "console" ELSE t]) < MaxPuts
  /\ Sem!Take(t, SemOf(fp[t]))
  /\ GoTo(t, "put")
  /\ UNCHANGED <<lists, file, world, mine>>

\* the character is put in the buffer, which is flushed when it is full
PutChar(t) ==
  LET f == fp[t]  d == IF t \in Writers THEN "console" ELSE t
  IN  /\ pc[t] = "put"
      /\ IF opened[f]
         THEN /\ put' = [put EXCEPT ![d] = Append(@, t)]
              /\ buf' = [buf EXCEPT ![f] = Append(@, t)]
              /\ dirty' = [dirty EXCEPT ![f] = TRUE]
              /\ GoTo(t, IF Len(buf[f]) + 1 = BufSize THEN "flush" ELSE "putend")
         ELSE /\ GoTo(t, "putend")          \* EBADF
              /\ UNCHANGED <<put, buf, dirty>>
      /\ then' = [then EXCEPT ![t] = "putend"]
      /\ UNCHANGED <<sems, lists, opened, handle, os, disk, fp, rest>>

PutEnd(t) ==
  /\ pc[t] = "putend"
  /\ Release(t, SemOf(fp[t]))
  /\ GoTo(t, IF WrongOwner(t, SemOf(fp[t])) THEN "fatal" ELSE "out")
  /\ UNCHANGED <<lists, file, world, mine>>

(***************************************************************************)
(* fclose: __doclose, then __freefp                                        *)
(***************************************************************************)
\* the stream must be in the list of open streams
Close(t) ==
  /\ pc[t] = "out" /\ t \in Openers /\ fp[t] # 0
  /\ IOBFree(t)
  /\ IF Contains(ostream, fp[t])
     THEN GoTo(t, "close") /\ fp' = fp
     ELSE pc' = pc /\ fp' = [fp EXCEPT ![t] = 0]
  /\ UNCHANGED <<sems, lists, file, world, then, rest>>

\* the flags are looked at with no semaphore held
DoClose(t) ==
  /\ pc[t] = "close"
  /\ GoTo(t, IF ~opened[fp[t]] THEN "free"
             ELSE IF dirty[fp[t]] THEN "flush" ELSE "lock")
  /\ then' = [then EXCEPT ![t] = "lock"]
  /\ UNCHANGED <<sems, lists, file, world, fp, rest>>

LockToClose(t) ==
  /\ pc[t] = "lock"
  /\ Sem!Take(t, SemOf(fp[t]))
  /\ GoTo(t, "locked")
  /\ UNCHANGED <<lists, file, world, mine>>

CloseHandle(t) ==
  /\ pc[t] = "locked"
  /\ os' = [os EXCEPT ![handle[fp[t]]] = None]
  /\ GoTo(t, "closed")
  /\ UNCHANGED <<sems, lists, file, disk, put, mine>>

ClearFlagsAndHandle(t) ==
  /\ pc[t] = "closed"
  /\ opened' = [opened EXCEPT ![fp[t]] = FALSE]
  /\ dirty' = [dirty EXCEPT ![fp[t]] = FALSE]
  /\ handle' = [handle EXCEPT ![fp[t]] = 0]
  /\ GoTo(t, "unlock")
  /\ UNCHANGED <<sems, lists, buf, world, mine>>
ClearFlags(t) ==
  /\ pc[t] = "closed"
  /\ opened' = [opened EXCEPT ![fp[t]] = FALSE]
  /\ dirty' = [dirty EXCEPT ![fp[t]] = FALSE]
  /\ GoTo(t, "unlock")
  /\ UNCHANGED <<sems, lists, handle, buf, world, mine>>

Unlock(t) ==
  /\ pc[t] = "unlock"
  /\ Release(t, SemOf(fp[t]))
  /\ GoTo(t, IF WrongOwner(t, SemOf(fp[t])) THEN "fatal" ELSE "free")
  /\ UNCHANGED <<lists, file, world, mine>>

\* __freefp: its link goes from the open to the closed streams
FreeFp(t) ==
  LET i == SelectInSeq(ostream, LAMBDA f : f = fp[t])
  IN  /\ pc[t] = "free"
      /\ IOBFree(t)
      /\ IF i > 0
         THEN /\ ostream' = RemoveAt(ostream, i)
              /\ cstream' = <<fp[t]>> \o cstream
         ELSE UNCHANGED lists
      /\ fp' = [fp EXCEPT ![t] = 0]
      /\ GoTo(t, "out")
      /\ UNCHANGED <<sems, file, world, then, rest>>

(***************************************************************************)
(* flushall, with IOBSemaphore held from end to end                        *)
(***************************************************************************)
FlushAll(t) ==
  /\ pc[t] = "out" /\ t \in Flushers
  /\ Sem!Take(t, IOB)
  /\ rest' = [rest EXCEPT ![t] = ostream]
  /\ then' = [then EXCEPT ![t] = "walk"]
  /\ GoTo(t, "walk")
  /\ UNCHANGED <<lists, file, world, fp>>

FlushNextAgain(t) ==
  LET f == Head(rest[t])
  IN  /\ pc[t] = "walk" /\ rest[t] # <<>>
      /\ IF dirty[f]
         THEN GoTo(t, "flush") /\ fp' = [fp EXCEPT ![t] = f]
         ELSE UNCHANGED <<pc, fp>>
      /\ UNCHANGED <<sems, lists, file, world, then, rest>>
\* the flags are looked at without the stream's semaphore
FlushNext(t) ==
  LET f == Head(rest[t])
  IN  /\ pc[t] = "walk" /\ rest[t] # <<>>
      /\ rest' = [rest EXCEPT ![t] = Tail(@)]
      /\ IF dirty[f]
         THEN GoTo(t, "flush") /\ fp' = [fp EXCEPT ![t] = f]
         ELSE UNCHANGED <<pc, fp>>
      /\ UNCHANGED <<sems, lists, file, world, then>>

FlushAllEnd(t) ==
  /\ pc[t] = "walk" /\ rest[t] = <<>>
  /\ Sem!Give(t, IOB)
  /\ fp' = [fp EXCEPT ![t] = 0]
  /\ GoTo(t, "out")
  /\ UNCHANGED <<lists, file, world, then, rest>>

\* a step inside a call
Run(t) ==
  \/ OpenHandle(t) \/ OpenFails(t) \/ SetFlags(t)
  \/ Flush(t) \/ WriteOut(t) \/ Flushed(t) \/ PutChar(t) \/ PutEnd(t)
  \/ DoClose(t) \/ LockToClose(t) \/ CloseHandle(t) \/ ClearFlags(t) \/ Unlock(t)
  \/ FreeFp(t) \/ FlushNext(t) \/ FlushAllEnd(t)
Next == \E t \in Threads :
  Run(t) \/ AllocFp(t) \/ Put(t) \/ Close(t) \/ FlushAll(t)
\* a thread runs on inside a call, and no semaphore passes it over for ever
Spec == Init /\ [][Next]_vars /\ \A t \in Threads : SF_vars(Run(t))

-----------------------------------------------------------------------------
\* Every character put to a stream reaches the file that stream is open on,
\* once and in order: it is there or still in the buffer of the stream, also
\* while another thread flushes or closes streams, and when handles, FILE
\* structures and file semaphores are shared and used again.
Unwritten(d) == {f \in Files : opened[f] /\ os[handle[f]] = d}
Writing(f) == \E t \in Threads : pc[t] = "flushed" /\ fp[t] = f
EachOnceInOrder ==
  \A d \in Disk :
    \/ put[d] = disk[d]
    \/ \E f \in Unwritten(d) : ~Writing(f) /\ put[d] = disk[d] \o buf[f]

\* "For every lock, there should be an unlock": a thread outside the library
\* holds no semaphore, and none is told that it is the wrong owner.
EveryLockUnlocked ==
  /\ \A t \in Threads : pc[t] = "out" => \A l \in Locks : holder[l] # t
  /\ \A t \in Threads : pc[t] # "fatal"

\* A stream a thread has open is in the list of open streams once, and not
\* among the closed ones that the next fopen will take; no FILE is in the lists
\* twice.
OpenListed ==
  /\ IsInjective(ostream \o cstream)
  /\ \A t \in Threads : pc[t] = "out" /\ fp[t] # 0 => Contains(ostream, fp[t])

\* No two threads are given the same FILE.
OneOwner == \A t, u \in Openers : t # u /\ fp[t] = fp[u] => fp[t] = 0

\* flushall waits for streams in use and fclose for flushall, but every call
\* returns.
CallsReturn == \A t \in Threads : pc[t] # "out" ~> pc[t] = "out"
=============================================================================

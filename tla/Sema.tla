-------------------------------- MODULE Sema --------------------------------
(***************************************************************************)
(* The semaphores of the multi-thread C run-time library                   *)
(* (bld/clib/mthread/c/mthread.c): __AccessSemaphore, __ReleaseSemaphore   *)
(* and the creation of a semaphore's operating-system mutex by the first   *)
(* thread that needs it, under InitSemaphore.  A step is one access to     *)
(* what the threads share; `obj->owner` and `obj->initialized` are read    *)
(* with no lock held.                                                      *)
(*                                                                         *)
(* The mutex is one that its holder cannot enter again (a POSIX semaphore  *)
(* with value 1): recursion is the library's own.  Mutexes are numbered as *)
(* they are created; number 1 is InitSemaphore's, made before there is a   *)
(* second thread.                                                          *)
(***************************************************************************)
EXTENDS Naturals

CONSTANTS
  Threads, None,   \* the thread ids, and 0
  Locks,           \* the semaphores: IOBSemaphore, NHeapSemaphore, ...
  InitSemaphore,
  Under,           \* the pairs <<o, p>> where callers take p while they hold o
  MaxDepth,        \* how often a caller takes a semaphore again
  MaxMutex         \* how many mutexes the system has

ASSUME SemaAssumption ==
  /\ None \notin Threads /\ None \notin Locks
  /\ InitSemaphore \notin Locks
  /\ MaxDepth \in Nat
  /\ MaxMutex \in Nat \ {0}

VARIABLES
  owner, count, initialized,  \* obj->owner, ->count, ->initialized
  semaphore,                  \* obj->semaphore: the number of its mutex, or 0
  made,                       \* mutexes created so far
  mutex,                      \* who has entered each mutex
  pc,                         \* where each thread is
  obj,                        \* the argument of the call it is in
  outer,                      \* of the call that called that one, if any
  held                        \* how often each thread has taken each semaphore

shared == <<owner, count, initialized, semaphore, made, mutex>>
local  == <<pc, obj, outer, held>>
vars   == <<shared, local>>

Objects == Locks \union {InitSemaphore}
Mutexes == 1..MaxMutex

Init ==
  /\ owner = [o \in Objects |-> None]
  /\ count = [o \in Objects |-> 0]
  /\ initialized = [o \in Objects |-> o = InitSemaphore]
  /\ semaphore = [o \in Objects |-> IF o = InitSemaphore THEN 1 ELSE 0]
  /\ made = 1
  /\ mutex = [m \in Mutexes |-> None]
  /\ pc = [t \in Threads |-> "out"]
  /\ obj = [t \in Threads |-> InitSemaphore]
  /\ outer = [t \in Threads |-> None]
  /\ held = [t \in Threads |-> [o \in Locks |-> 0]]

GoTo(t, l) == pc' = [pc EXCEPT ![t] = l]
Holds(t) == {o \in Locks : held[t][o] > 0}

\* A caller takes a semaphore that it holds already, or one that functions of
\* the library take under all that it holds: flushall takes those of streams
\* under IOBSemaphore, __allocfp and __ioalloc that of the heap under either.
MayTake(t, o) == held[t][o] > 0 \/ \A p \in Holds(t) : <<p, o>> \in Under

(***************************************************************************)
(* __AccessSemaphore                                                       *)
(***************************************************************************)
Access(t, o) ==
  /\ pc[t] = "out"
  /\ MayTake(t, o) /\ held[t][o] < MaxDepth
  /\ obj' = [obj EXCEPT ![t] = o]
  /\ GoTo(t, "owner?")
  /\ UNCHANGED <<shared, outer, held>>

CheckTaken(t) ==
  /\ pc[t] = "owner?"
  /\ GoTo(t, IF count[obj[t]] > 0 THEN "count" ELSE "initialized?")
  /\ UNCHANGED <<shared, obj, outer, held>>
\* if( obj->owner != tid )
CheckOwner(t) ==
  /\ pc[t] = "owner?"
  /\ GoTo(t, IF owner[obj[t]] = t THEN "count" ELSE "initialized?")
  /\ UNCHANGED <<shared, obj, outer, held>>

\* if( obj->initialized == 0 ): call __AccessSemaphore( &InitSemaphore )
CheckInitialized(t) ==
  /\ pc[t] = "initialized?"
  /\ IF initialized[obj[t]]
     THEN GoTo(t, "enter") /\ UNCHANGED <<obj, outer>>
     ELSE /\ GoTo(t, "owner?")
          /\ outer' = [outer EXCEPT ![t] = obj[t]]
          /\ obj' = [obj EXCEPT ![t] = InitSemaphore]
  /\ UNCHANGED <<shared, held>>

CheckOnlyOnce(t) ==
  /\ pc[t] = "again?"
  /\ GoTo(t, "create")
  /\ UNCHANGED <<shared, obj, outer, held>>
\* that call has returned: look again, with InitSemaphore held
CheckAgain(t) ==
  /\ pc[t] = "again?"
  /\ GoTo(t, IF initialized[outer[t]] THEN "count?" ELSE "create")
  /\ UNCHANGED <<shared, obj, outer, held>>

Create(t) ==
  /\ pc[t] = "create" /\ made < MaxMutex
  /\ made' = made + 1
  /\ semaphore' = [semaphore EXCEPT ![outer[t]] = made + 1]
  /\ GoTo(t, "created")
  /\ UNCHANGED <<owner, count, initialized, mutex, obj, outer, held>>

SetInitializedAndGo(t) ==
  /\ pc[t] = "created"
  /\ initialized' = [initialized EXCEPT ![outer[t]] = TRUE]
  /\ GoTo(t, "enter")
  /\ obj' = [obj EXCEPT ![t] = outer[t]]
  /\ outer' = [outer EXCEPT ![t] = None]
  /\ UNCHANGED <<owner, count, semaphore, made, mutex, held>>
\* obj->initialized = 1, then __ReleaseSemaphore( &InitSemaphore )
SetInitialized(t) ==
  /\ pc[t] = "created"
  /\ initialized' = [initialized EXCEPT ![outer[t]] = TRUE]
  /\ GoTo(t, "count?")
  /\ UNCHANGED <<owner, count, semaphore, made, mutex, obj, outer, held>>

\* EnterCriticalSection, __posix_sem_wait, DosRequestMutexSem, ...
Enter(t) ==
  LET m == semaphore[obj[t]]
  IN  /\ pc[t] = "enter" /\ mutex[m] = None
      /\ mutex' = [mutex EXCEPT ![m] = t]
      /\ GoTo(t, "own")
      /\ UNCHANGED <<owner, count, initialized, semaphore, made, obj, outer, held>>

Own(t) ==
  /\ pc[t] = "own"
  /\ owner' = [owner EXCEPT ![obj[t]] = t]
  /\ GoTo(t, "count")
  /\ UNCHANGED <<count, initialized, semaphore, made, mutex, obj, outer, held>>

\* obj->count++, and back to the caller: the call for outer, or the program
Count(t) ==
  /\ pc[t] = "count"
  /\ count' = [count EXCEPT ![obj[t]] = @ + 1]
  /\ IF outer[t] = None
     THEN GoTo(t, "out") /\ held' = [held EXCEPT ![t][obj[t]] = @ + 1]
     ELSE GoTo(t, "again?") /\ held' = held
  /\ UNCHANGED <<owner, initialized, semaphore, made, mutex, obj, outer>>

(***************************************************************************)
(* __ReleaseSemaphore                                                      *)
(***************************************************************************)
Release(t, o) ==
  /\ pc[t] = "out" /\ o \in Holds(t)
  /\ held' = [held EXCEPT ![t][o] = @ - 1]
  /\ obj' = [obj EXCEPT ![t] = o]
  /\ GoTo(t, "count?")
  /\ UNCHANGED <<shared, outer>>

\* the call returns: to the call for outer, which goes on to its mutex, or to
\* the program
Leave(t) ==
  IF outer[t] = None
  THEN GoTo(t, "out") /\ UNCHANGED <<obj, outer>>
  ELSE /\ GoTo(t, "enter")
       /\ obj' = [obj EXCEPT ![t] = outer[t]]
       /\ outer' = [outer EXCEPT ![t] = None]

CountDownFirst(t) ==
  LET o == obj[t]
  IN  /\ pc[t] = "count?"
      /\ count' = [count EXCEPT ![o] = IF @ > 0 /\ owner[o] = t THEN @ - 1 ELSE @]
      /\ IF count[o] > 0 /\ owner[o] # t
         THEN GoTo(t, "wrong owner") /\ UNCHANGED <<obj, outer>>
         ELSE GoTo(t, "disown") /\ UNCHANGED <<obj, outer>>
      /\ UNCHANGED <<owner, initialized, semaphore, made, mutex, held>>
\* if( obj->count > 0 ), the owner's test, and --obj->count == 0
CountDown(t) ==
  LET o == obj[t]
  IN  /\ pc[t] = "count?"
      /\ count' = [count EXCEPT ![o] = IF @ > 0 /\ owner[o] = t THEN @ - 1 ELSE @]
      /\ IF count[o] > 0 /\ owner[o] # t      \* __fatal_runtime_error
         THEN GoTo(t, "wrong owner") /\ UNCHANGED <<obj, outer>>
         ELSE IF count[o] = 1
         THEN GoTo(t, "disown") /\ UNCHANGED <<obj, outer>>
         ELSE Leave(t)
      /\ UNCHANGED <<owner, initialized, semaphore, made, mutex, held>>

Disown(t) ==
  /\ pc[t] = "disown"
  /\ owner' = [owner EXCEPT ![obj[t]] = None]
  /\ GoTo(t, "leave")
  /\ UNCHANGED <<count, initialized, semaphore, made, mutex, obj, outer, held>>

\* LeaveCriticalSection, __posix_sem_post, DosReleaseMutexSem, ...
LeaveMutex(t) ==
  /\ pc[t] = "leave"
  /\ mutex' = [mutex EXCEPT ![semaphore[obj[t]]] = None]
  /\ Leave(t)
  /\ UNCHANGED <<owner, count, initialized, semaphore, made, held>>

Step(t) ==
  \/ CheckOwner(t) \/ CheckInitialized(t) \/ CheckAgain(t) \/ Create(t)
  \/ SetInitialized(t) \/ Own(t) \/ Count(t)
  \/ CountDown(t) \/ Disown(t) \/ LeaveMutex(t)
Next == \E t \in Threads :
  \/ Step(t) \/ Enter(t)
  \/ \E o \in Locks : Access(t, o) \/ Release(t, o)

\* A thread runs on inside a call, the system's mutex does not pass over one of
\* its waiters for ever, and a caller whose calls return gives back all that it
\* has taken, again and again.
Fairness == \A t \in Threads :
  /\ WF_vars(Step(t)) /\ SF_vars(Enter(t))
  /\ <>[](pc[t] # "out") \/ []<>(Holds(t) = {})
Spec == Init /\ [][Next]_vars /\ Fairness
-----------------------------------------------------------------------------
Places == {"out", "owner?", "initialized?", "again?", "create", "created", "enter",
           "own", "count", "count?", "disown", "leave", "wrong owner"}
TypeOK ==
  /\ owner \in [Objects -> Threads \union {None}]
  /\ count \in [Objects -> Nat]
  /\ initialized \in [Objects -> BOOLEAN]
  /\ semaphore \in [Objects -> 0..MaxMutex] /\ made \in Mutexes
  /\ mutex \in [Mutexes -> Threads \union {None}]
  /\ pc \in [Threads -> Places]
  /\ obj \in [Threads -> Objects] /\ outer \in [Threads -> Locks \union {None}]
  /\ held \in [Threads -> [Locks -> Nat]]

\* Thread t has the mutex of o: it has taken o and not given it back, or is in
\* a call between entering that mutex and leaving it.
Has(t, o) ==
  \/ o \in Locks /\ held[t][o] > 0
  \/ /\ obj[t] = o
     /\ pc[t] \in {"own", "count", "again?", "create", "created", "count?",
                   "disown", "leave"}
Depth(t, o) ==
  (IF o \in Locks THEN held[t][o] ELSE 0) +
  (IF obj[t] = o /\ pc[t] \in {"again?", "create", "created", "count?"} THEN 1 ELSE 0)

\* Where a call inside another one can be, and what it finds there.
NestedAt(t) ==
  /\ pc[t] \in {"again?", "create", "created"} => outer[t] # None
  /\ outer[t] # None => pc[t] # "out" /\ obj[t] = InitSemaphore
  /\ outer[t] = None /\ pc[t] # "out" => obj[t] \in Locks
  /\ pc[t] = "enter" => initialized[obj[t]]
  /\ pc[t] = "create" => semaphore[outer[t]] = 0
  /\ pc[t] = "created" => semaphore[outer[t]] # 0
  /\ pc[t] \in {"count?", "disown", "leave"} /\ outer[t] # None =>
       initialized[outer[t]]
  /\ pc[t] \in {"own", "disown", "leave"} => count[obj[t]] = 0
  /\ pc[t] # "wrong owner"
Nested == \A t \in Threads : NestedAt(t)

\* Who has a semaphore is who is in its mutex; owner and count, read with no
\* lock held, tell a thread the truth about itself.
MutexIsHad == \A o \in Objects, t \in Threads :
  Has(t, o) <=> semaphore[o] # 0 /\ mutex[semaphore[o]] = t
OwnerKnown == \A o \in Objects, t \in Threads :
  owner[o] = t <=> Has(t, o) /\ ~(obj[t] = o /\ pc[t] \in {"own", "leave"})
Counted == \A o \in Objects :
  /\ \A t \in Threads : Has(t, o) => count[o] = Depth(t, o)
  /\ (\A t \in Threads : ~Has(t, o)) => count[o] = 0

\* A mutex is made before its semaphore is initialized, by the thread that has
\* InitSemaphore, and belongs to that semaphore alone.
MutexesMade ==
  /\ initialized[InitSemaphore]
  /\ \A o \in Objects : semaphore[o] \in 0..made
  /\ \A o \in Objects : initialized[o] => semaphore[o] # 0
  /\ \A o \in Objects : semaphore[o] # 0 /\ ~initialized[o] =>
       \E t \in Threads : pc[t] = "created" /\ outer[t] = o
  /\ \A o, p \in Objects : o # p => semaphore[o] # semaphore[p] \/ semaphore[o] = 0
  /\ \A m \in 1..made : \E o \in Objects : semaphore[o] = m
  /\ \A m \in Mutexes : m > made => mutex[m] = None

\* The inductive invariant: a semaphore is what its holder, its mutex, its owner
\* and its count all say it is, in the middle of a call as well.
IInv == TypeOK /\ Nested /\ MutexIsHad /\ OwnerKnown /\ Counted /\ MutexesMade

\* A semaphore is never taken by two threads, although the owner and the
\* initialized flag are read with no lock: a thread that finds itself the owner
\* is the owner; and no legal caller is told that it is the wrong owner.
OneHolder ==
  /\ \A t, u \in Threads : t # u => Holds(t) \cap Holds(u) = {}
  /\ \A t \in Threads : pc[t] # "wrong owner"
  /\ \A t \in Threads, o \in Locks : held[t][o] > 0 =>
       owner[o] = t /\ mutex[semaphore[o]] = t

\* Each semaphore gets one mutex of its own, none is made and lost (two threads
\* both find the semaphore not initialized), and nobody enters a mutex that is
\* not yet there or that is replaced while it waits.
OneMutexEach ==
  /\ \A o, p \in Objects : o # p => semaphore[o] # semaphore[p] \/ semaphore[o] = 0
  /\ \A m \in 1..made : \E o \in Objects : semaphore[o] = m
  /\ \A t \in Threads : pc[t] \in {"enter", "own", "count", "disown", "leave"} =>
       semaphore[obj[t]] # 0

\* The semaphores are recursive locks, held from the step that enters the mutex
\* to the one that leaves it.
HolderOf(o) == IF semaphore[o] = 0 THEN None ELSE mutex[semaphore[o]]
DepthOf(o) == IF HolderOf(o) = None THEN 0 ELSE IF count[o] = 0 THEN 1 ELSE count[o]
Lock == INSTANCE RecLock WITH
  holder <- [o \in Locks |-> HolderOf(o)], depth <- [o \in Locks |-> DepthOf(o)]
ImplementsRecLock == Lock!Spec

\* A thread that asks for a semaphore gets it, and one that gives it back
\* returns: InitSemaphore, taken inside the call for another one, is in nobody's
\* way for ever.
CallsReturn == \A t \in Threads : pc[t] # "out" ~> pc[t] = "out"
=============================================================================

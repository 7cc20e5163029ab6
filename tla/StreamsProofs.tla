---------------------------- MODULE StreamsProofs ----------------------------
(***************************************************************************)
(* Theorems about the streams for any number of threads, streams, handles  *)
(* and file semaphores: as long as no two threads are given the same FILE, *)
(* which one thread that opens and closes streams never is, every          *)
(* character arrives once and in order, every semaphore that was taken is  *)
(* released, and the lists name the open streams.                          *)
(***************************************************************************)
EXTENDS Streams, WellFoundedInduction, TLAPS

-----------------------------------------------------------------------------
(* The invariant *)

\* In __flush, and where a stream that an opener has is open on its handle.
Flushing == {"flush", "flushing", "flushed"}
Live == {"out", "put", "putend", "flush", "flushing", "flushed", "close", "lock", "locked"}
OpenerAt == Live \union {"open", "opened", "closed", "unlock", "free"}
WriterAt == Flushing \union {"out", "put", "putend"}
FlusherAt == Flushing \union {"out", "walk"}

Typed ==
  /\ holder \in [Locks -> Threads \union {None}] /\ depth \in [Locks -> Nat]
  /\ ostream \in Seq(Files) /\ cstream \in Seq(Files)
  /\ opened \in [Files -> BOOLEAN] /\ dirty \in [Files -> BOOLEAN]
  /\ handle \in [Files -> Handles \union {None}]
  /\ buf \in [Files -> Seq(Threads)]
  /\ os \in [Handles -> Disk \union {None}]
  /\ disk \in [Disk -> Seq(Threads)] /\ put \in [Disk -> Seq(Threads)]
  /\ pc \in [Threads -> OpenerAt \union FlusherAt] /\ fp \in [Threads -> Files \union {0}]
  /\ then \in [Threads -> {"out", "putend", "lock", "walk"}]
  /\ rest \in [Threads -> Seq(Files)]

\* What each thread may be doing, and with which stream.
Roles ==
  /\ \A t \in Writers : /\ pc[t] \in WriterAt /\ fp[t] = Stdout
                        /\ pc[t] \in Flushing => then[t] = "putend"
  /\ \A t \in Openers : /\ pc[t] \in OpenerAt /\ fp[t] # Stdout
                        /\ fp[t] = 0 => pc[t] = "out"
                        /\ pc[t] \in Flushing => then[t] \in {"putend", "lock"}
  /\ \A t \in Flushers : /\ pc[t] \in FlusherAt
                         /\ pc[t] = "out" => fp[t] = 0
                         /\ pc[t] # "out" => then[t] = "walk"
                         /\ pc[t] \in Flushing => fp[t] # 0 /\ handle[fp[t]] \in Handles

\* How often a thread has taken the semaphore of its stream.
Took(t) ==
  CASE pc[t] \in {"put", "putend", "locked", "closed", "unlock"} -> 1
    [] pc[t] = "flush" -> IF then[t] = "putend" THEN 1 ELSE 0
    [] pc[t] \in {"flushing", "flushed"} -> IF then[t] = "putend" THEN 2 ELSE 1
    [] OTHER -> 0
Has(t, l) == Took(t) > 0 /\ SemOf(fp[t]) = l
Semaphores ==
  /\ \A t \in Threads : holder[IOB] = t <=> t \in Flushers /\ pc[t] # "out"
  /\ holder[IOB] # None => depth[IOB] = 1
  /\ holder[IOB] = None => depth[IOB] = 0
  /\ \A t \in Threads, l \in FileSemaphores :
       /\ holder[l] = t <=> Has(t, l)
       /\ holder[l] = t => depth[l] = Took(t)
  /\ \A l \in FileSemaphores : holder[l] = None => depth[l] = 0

\* The open streams are stdout and those that openers have.
Lists ==
  /\ \A i, j \in 1..Len(ostream) : ostream[i] = ostream[j] => i = j
  /\ \A i, j \in 1..Len(cstream) : cstream[i] = cstream[j] => i = j
  /\ \A i \in 1..Len(ostream), j \in 1..Len(cstream) : ostream[i] # cstream[j]
  /\ \A f \in Files : Contains(ostream, f) <=> f = Stdout \/ \E t \in Openers : fp[t] = f

\* A stream is open on its owner's file, and dirty only then.
Owned(t) == t \in Openers /\ fp[t] # 0
Streaming ==
  /\ opened[Stdout] /\ handle[Stdout] = 0 /\ os[0] = "console"
  /\ \A t \in Openers : Owned(t) =>
       /\ pc[t] \in Live => opened[fp[t]]
       /\ pc[t] \in Live \union {"opened"} => handle[fp[t]] \in Handles /\ os[handle[fp[t]]] = t
       /\ pc[t] \in {"closed", "unlock"} => handle[fp[t]] \in Handles
       /\ pc[t] \in {"lock", "locked"} => ~dirty[fp[t]]
  /\ \A f \in Files : dirty[f] => f = Stdout \/ \E t \in Openers : fp[t] = f /\ pc[t] \in Live
\* A stream that is being opened is nobody else's.
Fresh == \A t \in Openers, u \in Flushers :
           pc[t] \in {"open", "opened"} /\ pc[u] \in Flushing => fp[u] # fp[t]

\* What was put to a stream is in its file or in its buffer.
Delivered(f, d) ==
  IF Writing(f) THEN put[d] = disk[d] /\ ~dirty[f]
  ELSE put[d] = disk[d] \o buf[f] /\ (~dirty[f] => buf[f] = <<>>)
\* A stream that is open, and the file that it is open on.
Pair(f, d) == \/ f = Stdout /\ d = "console"
              \/ d \in Openers /\ fp[d] = f /\ f # 0 /\ pc[d] \in Live
Data ==
  /\ \A f \in Files, d \in Disk : Pair(f, d) => Delivered(f, d)
  /\ \A u \in Openers : ~(Owned(u) /\ pc[u] \in Live) => put[u] = disk[u]

Inv == Typed /\ Roles /\ Semaphores /\ Lists /\ Streaming /\ Fresh /\ Data

-----------------------------------------------------------------------------
(* Sequences, and the smallest of a set of numbers *)

LEMMA Least ==
  ASSUME NEW T \in SUBSET Nat, T # {}
  PROVE  \E x \in T : \A y \in T : x <= y
<1>1. \E x \in T : \A y \in T : ~(<<y, x>> \in OpToRel(<, Nat))
  BY NatLessThanWellFounded, WFMin, Zenon
<1>2. PICK x \in T : \A y \in T : ~(<<y, x>> \in OpToRel(<, Nat))
  BY <1>1
<1>3. \A y \in T : x <= y
  <2> SUFFICES ASSUME NEW y \in T PROVE x <= y
    OBVIOUS
  <2>1. ~(y < x)
    BY <1>2 DEF OpToRel
  <2> QED
    BY <2>1
<1> QED
  BY <1>3

LEMMA ConsIs ==
  ASSUME NEW S, NEW s \in Seq(S), NEW e \in S
  PROVE  /\ <<e>> \o s \in Seq(S) /\ Len(<<e>> \o s) = Len(s) + 1
         /\ (<<e>> \o s)[1] = e
         /\ \A i \in 1..Len(s) : (<<e>> \o s)[i + 1] = s[i]
OBVIOUS

LEMMA ConsElement ==
  ASSUME NEW S, NEW s \in Seq(S), NEW e \in S, NEW i \in 1..Len(<<e>> \o s)
  PROVE  \/ i = 1 /\ (<<e>> \o s)[i] = e
         \/ i - 1 \in 1..Len(s) /\ (<<e>> \o s)[i] = s[i - 1]
<1>1. i \in 1..(Len(s) + 1)
  BY ConsIs
<1> QED
  BY <1>1, ConsIs

LEMMA TailIs ==
  ASSUME NEW S, NEW s \in Seq(S), s # <<>>
  PROVE  /\ Tail(s) \in Seq(S) /\ Head(s) = s[1] /\ Head(s) \in S /\ Len(s) \in Nat \ {0}
         /\ Len(Tail(s)) = Len(s) - 1
         /\ \A i \in 1..Len(Tail(s)) : Tail(s)[i] = s[i + 1] /\ i + 1 \in 1..Len(s)
OBVIOUS

LEMMA RemoveAtIs ==
  ASSUME NEW S, NEW s \in Seq(S), NEW k \in 1..Len(s)
  PROVE  /\ RemoveAt(s, k) \in Seq(S) /\ Len(RemoveAt(s, k)) = Len(s) - 1
         /\ \A i \in 1..Len(s) - 1 : RemoveAt(s, k)[i] = IF i < k THEN s[i] ELSE s[i + 1]
<1> DEFINE a == SubSeq(s, 1, k - 1)
           b == SubSeq(s, k + 1, Len(s))
<1>1. a \in Seq(S) /\ Len(a) = k - 1 /\ \A i \in 1..k - 1 : a[i] = s[i]
  OBVIOUS
<1>2. b \in Seq(S) /\ Len(b) = Len(s) - k /\ \A i \in 1..Len(s) - k : b[i] = s[k + i]
  OBVIOUS
<1>3. RemoveAt(s, k) = a \o b
  BY DEF RemoveAt
<1>0. Len(s) \in Nat /\ k \in Nat
  OBVIOUS
<1> HIDE DEF a, b
<1>4. a \o b \in Seq(S) /\ Len(a \o b) = Len(s) - 1
  <2>2. a \in Seq(S) /\ b \in Seq(S)
    BY <1>1, <1>2
  <2>1. a \o b \in Seq(S) /\ Len(a \o b) = Len(a) + Len(b)
    BY <2>2
  <2> QED
    BY <2>1, <1>0, <1>1, <1>2
<1>5. ASSUME NEW i \in 1..Len(s) - 1
      PROVE  (a \o b)[i] = IF i < k THEN s[i] ELSE s[i + 1]
  <2>1. CASE i < k
    BY <2>1, <1>1, <1>2
  <2>2. CASE i >= k
    <3>1. i - (k - 1) \in 1..Len(b)
      BY <2>2, <1>2
    <3>2. (a \o b)[i] = b[i - (k - 1)]
      BY <2>2, <1>1, <1>2
    <3>3. b[i - (k - 1)] = s[k + (i - (k - 1))]
      BY <3>1, <1>2
    <3>4. k + (i - (k - 1)) = i + 1
      OBVIOUS
    <3> QED
      BY <2>2, <3>2, <3>3, <3>4
  <2>3. i < k \/ i >= k
    BY <1>0
  <2> QED
    BY <2>1, <2>2, <2>3
<1> QED
  BY <1>3, <1>4, <1>5

\* The place of a link in a list of streams.
LEMMA PlaceIs ==
  ASSUME NEW S, NEW s \in Seq(S), NEW e
  PROVE  LET I == {i \in 1..Len(s) : s[i] = e}
         IN  I # {} => Min(I) \in 1..Len(s) /\ s[Min(I)] = e
<1> DEFINE I == {i \in 1..Len(s) : s[i] = e}
<1> SUFFICES ASSUME I # {} PROVE Min(I) \in I
  OBVIOUS
<1>1. I \in SUBSET Nat
  OBVIOUS
<1>2. \E x \in I : \A y \in I : x <= y
  BY <1>1, Least
<1> HIDE DEF I
<1> QED
  BY <1>2 DEF Min

-----------------------------------------------------------------------------
(* Threads, semaphores and types *)

\* The other threads stay where they are.
Others(t) == \A u \in Threads \ {t} : pc'[u] = pc[u] /\ fp'[u] = fp[u] /\ then'[u] = then[u]

Step(t) == Run(t) \/ AllocFp(t) \/ Put(t) \/ Close(t) \/ FlushAll(t)

LEMMA Parts ==
  /\ \A t \in Threads : t \in Openers \/ t \in Flushers \/ t \in Writers
  /\ \A t \in Openers : t \in Threads /\ t \notin Flushers /\ t \notin Writers /\ t \in Disk /\ t # "console"
  /\ \A t \in Flushers : t \in Threads /\ t \notin Openers /\ t \notin Writers
  /\ \A t \in Writers : t \in Threads /\ t \notin Openers /\ t \notin Flushers
  /\ None \notin Threads /\ "console" \in Disk
  /\ \A d \in Disk : d # None /\ (d = "console" \/ d \in Openers)
BY StreamsNames DEF Threads, Disk

LEMMA Numbers ==
  /\ Stdout \in Files /\ 0 \notin Files /\ 0 \in Handles /\ None \notin Handles
  /\ Files \subseteq Nat /\ Handles \subseteq Nat
  /\ \A h \in Handles : h % MaxSemaphore \in FileSemaphores
  /\ FileSemaphores \subseteq Locks /\ IOB \in Locks /\ IOB \notin FileSemaphores
BY StreamsAssumption, StreamsNames DEF Files, Stdout, Handles, FileSemaphores, Locks

LEMMA OthersKept ==
  ASSUME Typed, NEW t \in Threads, Step(t)
  PROVE  Others(t)
<1>1. \A v, l : pc' = [pc EXCEPT ![t] = l] => \A u \in Threads \ {t} : pc'[u] = pc[u]
  BY DEF Typed
<1>2. \A v : fp' = [fp EXCEPT ![t] = v] => \A u \in Threads \ {t} : fp'[u] = fp[u]
  BY DEF Typed
<1>3. \A v : then' = [then EXCEPT ![t] = v] => \A u \in Threads \ {t} : then'[u] = then[u]
  BY DEF Typed
<1>4. pc' = pc \/ \E l : pc' = [pc EXCEPT ![t] = l]
  BY DEF Step, Run, AllocFp, Put, Close, FlushAll, OpenHandle, OpenFails, SetFlags, Flush, WriteOut,
         Flushed, PutChar, PutEnd, DoClose, LockToClose, CloseHandle, ClearFlags, Unlock, FreeFp,
         FlushNext, FlushAllEnd, GoTo
<1>5. fp' = fp \/ \E v : fp' = [fp EXCEPT ![t] = v]
  BY DEF Step, Run, AllocFp, Put, Close, FlushAll, OpenHandle, OpenFails, SetFlags, Flush, WriteOut,
         Flushed, PutChar, PutEnd, DoClose, LockToClose, CloseHandle, ClearFlags, Unlock, FreeFp,
         FlushNext, FlushAllEnd, mine
<1>6. then' = then \/ \E v : then' = [then EXCEPT ![t] = v]
  BY DEF Step, Run, AllocFp, Put, Close, FlushAll, OpenHandle, OpenFails, SetFlags, Flush, WriteOut,
         Flushed, PutChar, PutEnd, DoClose, LockToClose, CloseHandle, ClearFlags, Unlock, FreeFp,
         FlushNext, FlushAllEnd, mine
<1> QED
  BY <1>1, <1>2, <1>3, <1>4, <1>5, <1>6 DEF Others

\* A thread that is inside a call on a stream has one with a handle.
LEMMA HasHandle ==
  ASSUME Typed, Roles, Streaming, NEW t \in Threads, pc[t] \notin {"out", "walk", "open", "opened", "free"}
  PROVE  /\ fp[t] \in Files /\ handle[fp[t]] \in Handles
         /\ SemOf(fp[t]) \in FileSemaphores /\ SemOf(fp[t]) \in Locks /\ SemOf(fp[t]) # IOB
<1>1. fp[t] \in Files /\ handle[fp[t]] \in Handles
  <2>1. CASE t \in Writers
    BY <2>1, Numbers DEF Roles, Streaming
  <2>2. CASE t \in Flushers
    BY <2>2 DEF Roles, Typed, FlusherAt
  <2>3. CASE t \in Openers
    <3>1. fp[t] # 0 /\ pc[t] \in Live \union {"closed", "unlock"}
      BY <2>3 DEF Roles, OpenerAt
    <3> QED
      BY <2>3, <3>1 DEF Streaming, Owned, Typed
  <2> QED
    BY <2>1, <2>2, <2>3, Parts
<1> QED
  BY <1>1, Numbers DEF SemOf

LEMMA TookIs ==
  ASSUME NEW t \in Threads
  PROVE  /\ Took(t) \in Nat
         /\ Took(t) > 0 => pc[t] \notin {"out", "walk", "open", "opened", "free", "close", "lock"}
BY DEF Took

\* A semaphore is had by one thread.
LEMMA HadOnce ==
  ASSUME Typed, Roles, Streaming, Semaphores, NEW t \in Threads, NEW u \in Threads,
         Took(t) > 0, Took(u) > 0, handle[fp[t]] = handle[fp[u]]
  PROVE  t = u
<1>1. SemOf(fp[t]) \in FileSemaphores /\ SemOf(fp[t]) = SemOf(fp[u])
  BY HasHandle, TookIs DEF SemOf
<1>2. Has(t, SemOf(fp[t])) /\ Has(u, SemOf(fp[t]))
  BY <1>1 DEF Has
<1> QED
  BY <1>1, <1>2 DEF Semaphores

\* What a release gives back is what was taken.
LEMMA Releases ==
  ASSUME Typed, Roles, Streaming, Semaphores, NEW t \in Threads, Took(t) > 0
  PROVE  holder[SemOf(fp[t])] = t /\ ~WrongOwner(t, SemOf(fp[t]))
<1>1. SemOf(fp[t]) \in FileSemaphores
  BY HasHandle, TookIs
<1>2. Has(t, SemOf(fp[t]))
  BY DEF Has
<1> QED
  BY <1>1, <1>2 DEF Semaphores, WrongOwner

\* While an opener may take IOBSemaphore nobody walks the open streams.
LEMMA NobodyWalks ==
  ASSUME Roles, Semaphores, NEW t \in Openers, IOBFree(t)
  PROVE  \A u \in Flushers : pc[u] = "out"
<1> SUFFICES ASSUME NEW u \in Flushers, pc[u] # "out" PROVE FALSE
  OBVIOUS
<1>1. holder[IOB] = u
  BY Parts DEF Semaphores
<1> QED
  BY <1>1, Parts DEF IOBFree

\* The free FILE that __allocfp takes, and the handle that the system gives.
FreeFile == IF cstream # <<>> THEN Head(cstream)
            ELSE CHOOSE g \in {f \in Files : ~opened[f]} : \A e \in {f \in Files : ~opened[f]} : g <= e
FreeHandle(t) == handle'[fp[t]]

LEMMA FreeFileIs ==
  ASSUME Typed, Streaming, cstream # <<>> \/ {f \in Files : ~opened[f]} # {}
  PROVE  /\ FreeFile \in Files
         /\ cstream # <<>> => FreeFile = cstream[1] /\ Len(cstream) \in Nat \ {0}
         /\ cstream = <<>> => FreeFile # Stdout
<1>1. CASE cstream # <<>>
  BY <1>1, TailIs DEF FreeFile, Typed
<1>2. CASE cstream = <<>>
  <2> DEFINE T == {f \in Files : ~opened[f]}
  <2>1. T \in SUBSET Nat
    BY Numbers
  <2>2. T # {}
    BY <1>2
  <2>3. \E x \in T : \A y \in T : x <= y
    BY <2>1, <2>2, Least
  <2>4. FreeFile = CHOOSE g \in T : \A e \in T : g <= e
    BY <1>2 DEF FreeFile
  <2> HIDE DEF T
  <2>5. FreeFile \in T
    BY <2>3, <2>4
  <2> USE DEF T
  <2> QED
    BY <1>2, <2>5 DEF Streaming
<1> QED
  BY <1>1, <1>2

-----------------------------------------------------------------------------
(* What the longer steps do *)

LEMMA AllocFpIs ==
  ASSUME Typed, Streaming, NEW t \in Threads, AllocFp(t)
  PROVE  /\ t \in Openers /\ pc[t] = "out" /\ fp[t] = 0 /\ IOBFree(t)
         /\ FreeFile \in Files
         /\ cstream # <<>> => FreeFile = cstream[1] /\ Len(cstream) \in Nat \ {0}
         /\ cstream = <<>> => FreeFile # Stdout
         /\ cstream' = IF cstream # <<>> THEN Tail(cstream) ELSE cstream
         /\ ostream' = <<FreeFile>> \o ostream
         /\ opened' = [opened EXCEPT ![FreeFile] = FALSE]
         /\ dirty' = [dirty EXCEPT ![FreeFile] = FALSE]
         /\ handle' = [handle EXCEPT ![FreeFile] = 0]
         /\ buf' = [buf EXCEPT ![FreeFile] = <<>>]
         /\ fp' = [fp EXCEPT ![t] = FreeFile]
         /\ pc' = [pc EXCEPT ![t] = "open"]
         /\ UNCHANGED <<sems, world, then, rest>>
<1>1. cstream # <<>> \/ {f \in Files : ~opened[f]} # {}
  BY DEF AllocFp
<1>2. /\ t \in Openers /\ pc[t] = "out" /\ fp[t] = 0 /\ IOBFree(t)
      /\ cstream' = IF cstream # <<>> THEN Tail(cstream) ELSE cstream
      /\ ostream' = <<FreeFile>> \o ostream
      /\ opened' = [opened EXCEPT ![FreeFile] = FALSE]
      /\ dirty' = [dirty EXCEPT ![FreeFile] = FALSE]
      /\ handle' = [handle EXCEPT ![FreeFile] = 0]
      /\ buf' = [buf EXCEPT ![FreeFile] = <<>>]
      /\ fp' = [fp EXCEPT ![t] = FreeFile]
      /\ pc' = [pc EXCEPT ![t] = "open"]
      /\ UNCHANGED <<sems, world, then, rest>>
  BY DEF AllocFp, FreeFile, GoTo
<1> QED
  BY <1>1, <1>2, FreeFileIs

LEMMA OpenHandleIs ==
  ASSUME Typed, Roles, NEW t \in Threads, OpenHandle(t)
  PROVE  /\ t \in Openers /\ pc[t] = "open" /\ fp[t] \in Files /\ fp[t] # Stdout /\ fp[t] # 0
         /\ FreeHandle(t) \in Handles /\ os[FreeHandle(t)] = None
         /\ os' = [os EXCEPT ![FreeHandle(t)] = t]
         /\ disk' = [disk EXCEPT ![t] = <<>>] /\ put' = [put EXCEPT ![t] = <<>>]
         /\ handle' = [handle EXCEPT ![fp[t]] = FreeHandle(t)]
         /\ pc' = [pc EXCEPT ![t] = "opened"]
         /\ UNCHANGED <<sems, lists, opened, dirty, buf, mine>>
<1>1. PICK h \in Handles :
        /\ os[h] = None
        /\ pc[t] = "open"
        /\ os' = [os EXCEPT ![h] = t]
        /\ disk' = [disk EXCEPT ![t] = <<>>] /\ put' = [put EXCEPT ![t] = <<>>]
        /\ handle' = [handle EXCEPT ![fp[t]] = h]
        /\ pc' = [pc EXCEPT ![t] = "opened"]
        /\ UNCHANGED <<sems, lists, opened, dirty, buf, mine>>
  BY DEF OpenHandle, GoTo
<1>2. t \in Openers
  BY <1>1, Parts DEF Roles, WriterAt, FlusherAt, Flushing
<1>3. fp[t] \in Files /\ fp[t] # Stdout /\ fp[t] # 0
  BY <1>1, <1>2, Numbers DEF Roles, Typed
<1>4. FreeHandle(t) = h
  BY <1>1, <1>3 DEF FreeHandle, Typed
<1> QED
  BY <1>1, <1>2, <1>3, <1>4

\* Where only an opener can be.
LEMMA OpenerOnly ==
  ASSUME Typed, Roles, NEW t \in Threads, pc[t] \in {"open", "opened", "close", "lock", "locked", "closed", "unlock", "free"}
  PROVE  t \in Openers /\ fp[t] \in Files /\ fp[t] # Stdout /\ fp[t] # 0
<1>1. t \in Openers
  BY Parts DEF Roles, WriterAt, FlusherAt, Flushing
<1> QED
  BY <1>1, Numbers DEF Roles, Typed

LEMMA FreeFpIs ==
  ASSUME Typed, Roles, Lists, NEW t \in Threads, FreeFp(t)
  PROVE  /\ t \in Openers /\ pc[t] = "free" /\ fp[t] \in Files /\ IOBFree(t)
         /\ \E i \in 1..Len(ostream) : ostream[i] = fp[t] /\ ostream' = RemoveAt(ostream, i)
         /\ cstream' = <<fp[t]>> \o cstream
         /\ fp' = [fp EXCEPT ![t] = 0] /\ pc' = [pc EXCEPT ![t] = "out"]
         /\ UNCHANGED <<sems, file, world, then, rest>>
<1> DEFINE I == {j \in 1..Len(ostream) : ostream[j] = fp[t]}
           i == IF I # {} THEN Min(I) ELSE 0
<1>1. t \in Openers /\ pc[t] = "free" /\ fp[t] \in Files
  BY OpenerOnly DEF FreeFp
<1>2. Contains(ostream, fp[t])
  BY <1>1 DEF Lists
<1>3. I # {}
  BY <1>2 DEF Contains
<1>4. i \in 1..Len(ostream) /\ ostream[i] = fp[t]
  <2>1. ostream \in Seq(Files)
    BY DEF Typed
  <2>2. Min(I) \in 1..Len(ostream) /\ ostream[Min(I)] = fp[t]
    BY <1>3, <2>1, PlaceIs
  <2> QED
    BY <1>3, <2>2
<1>5. /\ IOBFree(t)
      /\ IF i > 0
         THEN /\ ostream' = RemoveAt(ostream, i)
              /\ cstream' = <<fp[t]>> \o cstream
         ELSE UNCHANGED lists
      /\ fp' = [fp EXCEPT ![t] = 0] /\ pc' = [pc EXCEPT ![t] = "out"]
      /\ UNCHANGED <<sems, file, world, then, rest>>
  BY DEF FreeFp, SelectInSeq, GoTo
<1> HIDE DEF i
<1> QED
  BY <1>1, <1>4, <1>5

\* A stream that is closed is always found in the list.
LEMMA CloseIs ==
  ASSUME Typed, Roles, Lists, NEW t \in Threads, Close(t)
  PROVE  /\ t \in Openers /\ pc[t] = "out" /\ fp[t] \in Files /\ fp[t] # 0
         /\ pc' = [pc EXCEPT ![t] = "close"]
         /\ UNCHANGED <<sems, lists, file, world, mine>>
<1>1. t \in Openers /\ pc[t] = "out" /\ fp[t] \in Files /\ fp[t] # 0
  BY DEF Close, Typed
<1>2. Contains(ostream, fp[t])
  BY <1>1 DEF Lists
<1> QED
  BY <1>1, <1>2 DEF Close, GoTo, mine

\* What is taken and given back.
LEMMA TakeIs ==
  ASSUME Typed, NEW t \in Threads, NEW l \in Locks, Sem!Take(t, l)
  PROVE  /\ holder[l] \in {None, t} /\ holder'[l] = t /\ depth'[l] = depth[l] + 1
         /\ \A k \in Locks \ {l} : holder'[k] = holder[k] /\ depth'[k] = depth[k]
         /\ holder' \in [Locks -> Threads \union {None}] /\ depth' \in [Locks -> Nat]
BY DEF Typed, Sem!Take

LEMMA GiveIs ==
  ASSUME Typed, NEW t \in Threads, NEW l \in Locks, Sem!Give(t, l), depth[l] >= 1
  PROVE  /\ holder[l] = t /\ holder'[l] = (IF depth[l] = 1 THEN None ELSE t) /\ depth'[l] = depth[l] - 1
         /\ \A k \in Locks \ {l} : holder'[k] = holder[k] /\ depth'[k] = depth[k]
         /\ holder' \in [Locks -> Threads \union {None}] /\ depth' \in [Locks -> Nat]
<1>1. holder' \in [Locks -> Threads \union {None}]
  BY DEF Typed, Sem!Give
<1>2. depth[l] - 1 \in Nat
  BY DEF Typed
<1>3. depth' \in [Locks -> Nat]
  BY <1>2 DEF Typed, Sem!Give
<1> QED
  BY <1>1, <1>3 DEF Typed, Sem!Give

-----------------------------------------------------------------------------
(* The semaphores *)

LEMMA SemsKept ==
  ASSUME Typed, Semaphores, NEW t \in Threads, Others(t), UNCHANGED sems,
         Took(t)' = Took(t),
         Took(t) > 0 => handle'[fp'[t]] = handle[fp[t]],
         \A u \in Threads \ {t} : Took(u) > 0 => handle'[fp[u]] = handle[fp[u]],
         t \in Flushers => (pc[t] = "out" <=> pc'[t] = "out")
  PROVE  Semaphores'
<1>1. \A u \in Threads : Took(u)' = Took(u)
  BY DEF Others, Took
<1>2. \A u \in Threads, l \in FileSemaphores : Has(u, l)' <=> Has(u, l)
  BY <1>1 DEF Has, SemOf, Others
<1>3. \A u \in Threads : u \in Flushers /\ pc'[u] # "out" <=> u \in Flushers /\ pc[u] # "out"
  BY DEF Others
<1>4. holder' = holder /\ depth' = depth
  BY DEF sems
<1> QED
  BY <1>1, <1>2, <1>3, <1>4 DEF Semaphores

LEMMA SemTaken ==
  ASSUME Typed, Semaphores, NEW t \in Threads, Others(t),
         SemOf(fp[t]) \in FileSemaphores, Sem!Take(t, SemOf(fp[t])),
         handle' = handle, fp' = fp, Took(t)' = Took(t) + 1,
         t \in Flushers => pc[t] # "out" /\ pc'[t] # "out"
  PROVE  Semaphores'
<1> DEFINE l == SemOf(fp[t])
<1>1. l \in FileSemaphores /\ l \in Locks /\ l # IOB
  BY Numbers
<1>2. /\ holder[l] \in {None, t} /\ holder'[l] = t /\ depth'[l] = depth[l] + 1
      /\ \A k \in Locks \ {l} : holder'[k] = holder[k] /\ depth'[k] = depth[k]
  <2> HIDE DEF l
  <2>1. Sem!Take(t, l)
    BY DEF l
  <2> QED
    BY <1>1, <2>1, TakeIs
<1>3. \A u \in Threads, k \in FileSemaphores : Has(u, k) <=> Took(u) > 0 /\ SemOf(fp[u]) = k
  BY DEF Has
<1>4. \A u \in Threads, k \in FileSemaphores : Has(u, k)' <=> Took(u)' > 0 /\ SemOf(fp[u]) = k
  BY DEF Has, SemOf
<1>5. \A u \in Threads \ {t} : Took(u)' = Took(u)
  BY DEF Others, Took
<1>6. Took(t) \in Nat
  BY TookIs
<1>7. None \notin Threads
  BY Parts
<1> HIDE DEF l
<1>8. SemOf(fp[t]) = l
  BY DEF l
<1>9. holder[l] # t => Took(t) = 0 /\ depth[l] = 0
  <2>1. holder[l] = t <=> Has(t, l)
    BY <1>1 DEF Semaphores
  <2> QED
    BY <2>1, <1>1, <1>2, <1>3, <1>6, <1>8 DEF Semaphores
<1>10. holder[l] = t => depth[l] = Took(t)
  BY <1>1 DEF Semaphores
<1>11. ASSUME NEW u \in Threads, NEW k \in FileSemaphores
       PROVE  /\ holder'[k] = u <=> Has(u, k)'
              /\ holder'[k] = u => depth'[k] = Took(u)'
  <2>0. (holder[k] = u <=> Has(u, k)) /\ (holder[k] = u => depth[k] = Took(u)) /\ k \in Locks
    BY Numbers DEF Semaphores
  <2>1. CASE u = t /\ k = l
    <3>1. Has(u, k)'
      BY <2>1, <1>4, <1>6, <1>8
    <3>2. depth'[k] = Took(u)'
      BY <2>1, <1>2, <1>6, <1>9, <1>10
    <3> QED
      BY <2>1, <1>2, <3>1, <3>2
  <2>2. CASE u = t /\ k # l
    <3>1. ~Has(u, k)'  /\ ~Has(u, k)
      BY <2>2, <1>3, <1>4, <1>8
    <3> QED
      BY <2>0, <2>2, <3>1, <1>2
  <2>3. CASE u # t /\ k = l
    BY <2>0, <2>3, <1>2, <1>3, <1>4, <1>5, <1>7
  <2>4. CASE u # t /\ k # l
    BY <2>0, <2>4, <1>2, <1>3, <1>4, <1>5
  <2> QED
    BY <2>1, <2>2, <2>3, <2>4
<1>12. \A k \in FileSemaphores : holder'[k] = None => depth'[k] = 0
  BY <1>1, <1>2, <1>7, Numbers DEF Semaphores
<1>13. holder'[IOB] = holder[IOB] /\ depth'[IOB] = depth[IOB]
  BY <1>1, <1>2, Numbers
<1>14. \A u \in Threads : u \in Flushers /\ pc'[u] # "out" <=> u \in Flushers /\ pc[u] # "out"
  BY DEF Others
<1> QED
  BY <1>11, <1>12, <1>13, <1>14 DEF Semaphores

LEMMA SemGiven ==
  ASSUME Typed, Semaphores, NEW t \in Threads, Others(t),
         SemOf(fp[t]) \in FileSemaphores, Took(t) > 0, Sem!Give(t, SemOf(fp[t])),
         handle' = handle, fp' = fp, Took(t)' = Took(t) - 1,
         t \in Flushers => pc[t] # "out" /\ pc'[t] # "out"
  PROVE  Semaphores'
<1> DEFINE l == SemOf(fp[t])
<1>1. l \in FileSemaphores /\ l \in Locks /\ l # IOB
  BY Numbers
<1>3. \A u \in Threads, k \in FileSemaphores : Has(u, k) <=> Took(u) > 0 /\ SemOf(fp[u]) = k
  BY DEF Has
<1>4. \A u \in Threads, k \in FileSemaphores : Has(u, k)' <=> Took(u)' > 0 /\ SemOf(fp[u]) = k
  BY DEF Has, SemOf
<1>5. \A u \in Threads \ {t} : Took(u)' = Took(u)
  BY DEF Others, Took
<1>6. Took(t) \in Nat
  BY TookIs
<1>7. None \notin Threads
  BY Parts
<1>8. SemOf(fp[t]) = l
  OBVIOUS
<1> HIDE DEF l
<1>9. holder[l] = t /\ depth[l] = Took(t)
  BY <1>1, <1>3, <1>8 DEF Semaphores
<1>2. /\ holder'[l] = (IF depth[l] = 1 THEN None ELSE t) /\ depth'[l] = depth[l] - 1
      /\ \A k \in Locks \ {l} : holder'[k] = holder[k] /\ depth'[k] = depth[k]
  <2>1. Sem!Give(t, l) /\ depth[l] >= 1
    BY <1>6, <1>8, <1>9
  <2> QED
    BY <1>1, <2>1, GiveIs
<1>11. ASSUME NEW u \in Threads, NEW k \in FileSemaphores
       PROVE  /\ holder'[k] = u <=> Has(u, k)'
              /\ holder'[k] = u => depth'[k] = Took(u)'
  <2>0. (holder[k] = u <=> Has(u, k)) /\ (holder[k] = u => depth[k] = Took(u)) /\ k \in Locks
    BY Numbers DEF Semaphores
  <2>1. CASE u = t /\ k = l
    <3>1. Has(u, k)' <=> Took(t) # 1
      BY <2>1, <1>4, <1>6, <1>8
    <3>2. depth'[k] = Took(u)'
      BY <2>1, <1>2, <1>6, <1>9
    <3>3. holder'[k] = t <=> Took(t) # 1
      BY <2>1, <1>2, <1>7, <1>9
    <3> QED
      BY <2>1, <3>1, <3>2, <3>3
  <2>2. CASE u = t /\ k # l
    <3>1. ~Has(u, k)'  /\ ~Has(u, k)
      BY <2>2, <1>3, <1>4, <1>8
    <3> QED
      BY <2>0, <2>2, <3>1, <1>2
  <2>3. CASE u # t /\ k = l
    <3>1. holder[k] # u /\ holder'[k] # u
      BY <2>3, <1>2, <1>7, <1>9
    <3> QED
      BY <2>0, <2>3, <3>1, <1>3, <1>4, <1>5
  <2>4. CASE u # t /\ k # l
    BY <2>0, <2>4, <1>2, <1>3, <1>4, <1>5
  <2> QED
    BY <2>1, <2>2, <2>3, <2>4
<1>12. ASSUME NEW k \in FileSemaphores, holder'[k] = None PROVE depth'[k] = 0
  <2>1. CASE k = l
    <3>1. depth[l] = 1
      BY <1>2, <1>7, <1>12, <2>1
    <3> QED
      BY <3>1, <2>1, <1>2
  <2>2. CASE k # l
    BY <1>2, <1>12, <2>2, Numbers DEF Semaphores
  <2> QED
    BY <2>1, <2>2
<1>13. holder'[IOB] = holder[IOB] /\ depth'[IOB] = depth[IOB]
  BY <1>1, <1>2, Numbers
<1>14. \A u \in Threads : u \in Flushers /\ pc'[u] # "out" <=> u \in Flushers /\ pc[u] # "out"
  BY DEF Others
<1> QED
  BY <1>11, <1>12, <1>13, <1>14 DEF Semaphores

\* The FILE that fopen gets is nobody's.
LEMMA AllocNew ==
  ASSUME Inv, OneOwner', NEW t \in Threads, AllocFp(t)
  PROVE  /\ FreeFile # Stdout
         /\ \A u \in Openers : fp[u] # FreeFile
         /\ \A u \in Flushers : pc[u] = "out"
<1>0. Typed /\ Streaming /\ Lists
  BY DEF Inv
<1> USE <1>0, AllocFpIs
<1>1. FreeFile # Stdout
  <2>1. CASE cstream # <<>>
    <3>1. PICK i \in 1..Len(ostream) : ostream[i] = Stdout
      BY Numbers DEF Lists, Contains
    <3>2. FreeFile = cstream[1] /\ 1 \in 1..Len(cstream)
      BY <2>1
    <3>3. ostream[i] # cstream[1]
      BY <3>2 DEF Lists
    <3> QED
      BY <3>1, <3>2, <3>3
  <2> QED
    BY <2>1
<1>2. ASSUME NEW u \in Openers, fp[u] = FreeFile PROVE FALSE
  <2>1. t \in Openers /\ fp[t] = 0 /\ fp' = [fp EXCEPT ![t] = FreeFile] /\ FreeFile \in Files
    OBVIOUS
  <2>2. u # t
    BY <1>2, <2>1, Numbers
  <2>3. fp'[u] = FreeFile /\ fp'[t] = FreeFile
    BY <1>2, <2>1, <2>2, Parts DEF Typed
  <2> QED
    BY <2>1, <2>2, <2>3, Numbers DEF OneOwner
<1>3. \A u \in Flushers : pc[u] = "out"
  BY NobodyWalks DEF Inv
<1> QED
  BY <1>1, <1>2, <1>3

LEMMA HandleKept ==
  ASSUME Inv, OneOwner, OneOwner', NEW t \in Threads, Step(t),
         NEW u \in Threads \ {t}, pc[u] \notin {"out", "walk", "open", "opened", "free"}
  PROVE  handle'[fp[u]] = handle[fp[u]]
<1>0. Typed /\ Roles /\ Streaming /\ Fresh /\ fp[u] \in Files
  BY HasHandle DEF Inv
<1>1. CASE AllocFp(t)
  <2>1. FreeFile # fp[u]
    BY <1>0, <1>1, AllocNew, Parts DEF Roles
  <2>2. handle' = [handle EXCEPT ![FreeFile] = 0]
    BY <1>0, <1>1, AllocFpIs
  <2> QED
    BY <1>0, <2>1, <2>2 DEF Typed
<1>2. CASE OpenHandle(t) \/ OpenFails(t)
  <2>1. pc[t] = "open" /\ \E h : handle' = [handle EXCEPT ![fp[t]] = h]
    BY <1>0, <1>2, OpenHandleIs DEF OpenFails
  <2>2. t \in Openers /\ fp[t] # Stdout /\ fp[t] # 0
    BY <1>0, <2>1, OpenerOnly
  <2>3. fp[t] # fp[u]
    <3>1. CASE u \in Writers
      BY <1>0, <2>2, <3>1 DEF Roles
    <3>2. CASE u \in Openers
      BY <2>2, <3>2 DEF OneOwner
    <3>3. CASE u \in Flushers
      BY <1>0, <2>1, <2>2, <3>3 DEF Fresh, Roles, FlusherAt
    <3> QED
      BY <3>1, <3>2, <3>3, Parts
  <2> QED
    BY <1>0, <2>1, <2>3 DEF Typed
<1>3. CASE ~AllocFp(t) /\ ~OpenHandle(t) /\ ~OpenFails(t)
  <2>1. handle' = handle
    BY <1>3 DEF Step, Run, Put, Close, FlushAll, SetFlags, Flush, WriteOut,
         Flushed, PutChar, PutEnd, DoClose, LockToClose, CloseHandle, ClearFlags, Unlock, FreeFp,
         FlushNext, FlushAllEnd, file
  <2> QED
    BY <2>1
<1> QED
  BY <1>1, <1>2, <1>3

\* The ends of a flush, of fputc and of fclose give back what was taken.
LEMMA ReleaseIs ==
  ASSUME Inv, NEW t \in Threads, Flushed(t) \/ PutEnd(t) \/ Unlock(t)
  PROVE  /\ Took(t) > 0 /\ Sem!Give(t, SemOf(fp[t]))
         /\ pc' = [pc EXCEPT ![t] = IF pc[t] = "flushed" THEN then[t] ELSE IF pc[t] = "putend" THEN "out" ELSE "free"]
         /\ UNCHANGED <<lists, opened, dirty, handle, world, mine>>
<1>1. pc[t] \in {"flushed", "putend", "unlock"}
  BY DEF Flushed, PutEnd, Unlock
<1>2. Took(t) > 0
  BY <1>1 DEF Took
<1>3. holder[SemOf(fp[t])] = t /\ ~WrongOwner(t, SemOf(fp[t]))
  BY <1>2, Releases DEF Inv
<1> QED
  BY <1>2, <1>3 DEF Flushed, PutEnd, Unlock, Release, GoTo, file

LEMMA TakesIs ==
  ASSUME Inv, NEW t \in Threads, Put(t) \/ Flush(t) \/ LockToClose(t)
  PROVE  SemOf(fp[t]) \in FileSemaphores /\ Sem!Take(t, SemOf(fp[t]))
<1>0. Typed /\ Roles /\ Streaming
  BY DEF Inv
<1>1. pc[t] \in {"flush", "lock"} \/ (pc[t] = "out" /\ fp[t] # 0)
  BY DEF Flush, Put, LockToClose
<1>2. SemOf(fp[t]) \in FileSemaphores
  <2>1. CASE pc[t] # "out"
    BY <1>0, <1>1, <2>1, HasHandle
  <2>2. CASE pc[t] = "out"
    <3>1. handle[fp[t]] \in Handles
      BY <1>0, <1>1, <2>2, Parts, Numbers DEF Roles, Streaming, Owned, Live
    <3> QED
      BY <3>1, Numbers DEF SemOf
  <2> QED
    BY <2>1, <2>2
<1> QED
  BY <1>2 DEF Flush, Put, LockToClose

LEMMA SemaphoresNext ==
  ASSUME Inv, OneOwner, OneOwner', NEW t \in Threads, Step(t)
  PROVE  Semaphores'
<1>0. Typed /\ Roles /\ Streaming /\ Semaphores /\ Lists /\ Others(t)
  BY OthersKept DEF Inv
<1>1. \A u \in Threads \ {t} : Took(u) > 0 => handle'[fp[u]] = handle[fp[u]]
  BY HandleKept, TookIs
<1>2. ASSUME UNCHANGED sems, Took(t)' = Took(t),
             Took(t) > 0 => handle'[fp'[t]] = handle[fp[t]],
             t \in Flushers => (pc[t] = "out" <=> pc'[t] = "out")
      PROVE  Semaphores'
  BY <1>0, <1>1, <1>2, SemsKept
<1>3. CASE AllocFp(t) \/ Close(t) \/ OpenHandle(t) \/ OpenFails(t) \/ SetFlags(t) \/ DoClose(t) \/ FreeFp(t)
  <2>1. pc[t] \in {"out", "open", "opened", "close", "free"} /\ t \in Openers /\ UNCHANGED sems
    BY <1>0, <1>3, AllocFpIs, CloseIs, OpenHandleIs, FreeFpIs, OpenerOnly DEF OpenFails, SetFlags, DoClose
  <2>2. \/ pc'[t] \in {"open", "close", "opened", "free", "out", "lock"}
        \/ pc'[t] = "flush" /\ then'[t] = "lock"
    <3>1. CASE AllocFp(t) \/ Close(t) \/ OpenHandle(t) \/ FreeFp(t)
      <4>1. \E l \in {"open", "close", "opened", "out"} : pc' = [pc EXCEPT ![t] = l]
        BY <1>0, <3>1, AllocFpIs, CloseIs, OpenHandleIs, FreeFpIs
      <4> QED
        BY <1>0, <4>1 DEF Typed
    <3>2. CASE OpenFails(t) \/ SetFlags(t) \/ DoClose(t)
      BY <1>0, <3>2 DEF Typed, OpenFails, SetFlags, DoClose, GoTo
    <3> QED
      BY <1>3, <3>1, <3>2
  <2>3. Took(t)' = 0 /\ Took(t) = 0
    BY <2>1, <2>2 DEF Took
  <2> QED
    BY <1>2, <2>1, <2>3, Parts
<1>4. CASE PutChar(t)
  <2>1. /\ pc[t] = "put" /\ UNCHANGED <<sems, handle, fp>>
        /\ pc'[t] \in {"flush", "putend"} /\ then'[t] = "putend"
    BY <1>0, <1>4 DEF PutChar, GoTo, Typed
  <2>2. Took(t) = 1 /\ Took(t)' = 1
    BY <2>1 DEF Took
  <2> QED
    BY <1>2, <2>1, <2>2
<1>5. CASE WriteOut(t)
  <2>1. pc[t] = "flushing" /\ pc'[t] = "flushed" /\ UNCHANGED <<sems, handle, fp, then>>
    BY <1>0, <1>5 DEF WriteOut, GoTo, Typed, mine
  <2>2. Took(t)' = Took(t)
    BY <2>1 DEF Took
  <2> QED
    BY <1>2, <2>1, <2>2
<1>6. CASE CloseHandle(t) \/ ClearFlags(t)
  <2>1. /\ pc[t] \in {"locked", "closed"} /\ pc'[t] \in {"closed", "unlock"}
        /\ UNCHANGED <<sems, handle, fp, then>>
    BY <1>0, <1>6 DEF CloseHandle, ClearFlags, GoTo, Typed, mine, file
  <2>2. Took(t) = 1 /\ Took(t)' = 1
    BY <2>1 DEF Took
  <2> QED
    BY <1>2, <2>1, <2>2
<1>7. CASE FlushNext(t)
  <2>1. /\ pc[t] = "walk" /\ UNCHANGED <<sems, then>>
        /\ pc'[t] \in {"walk", "flush"} /\ then[t] = "walk"
    <3>1. t \in Flushers
      BY <1>0, <1>7, Parts DEF FlushNext, Roles, OpenerAt, WriterAt, Flushing, Live
    <3> QED
      BY <1>0, <1>7, <3>1 DEF FlushNext, GoTo, Typed, Roles
  <2>2. Took(t) = 0 /\ Took(t)' = 0
    BY <2>1 DEF Took
  <2> QED
    BY <1>2, <2>1, <2>2
<1>8. CASE Flush(t) \/ Put(t) \/ LockToClose(t)
  <2>1. /\ \/ pc[t] = "flush" /\ pc'[t] = "flushing"
           \/ pc[t] = "out" /\ fp[t] # 0 /\ pc'[t] = "put"
           \/ pc[t] = "lock" /\ pc'[t] = "locked"
        /\ UNCHANGED <<handle, fp, then>> /\ Sem!Take(t, SemOf(fp[t]))
    BY <1>0, <1>8 DEF Flush, Put, LockToClose, GoTo, Typed, mine, file
  <2>2. Took(t)' = Took(t) + 1
    BY <2>1 DEF Took
  <2>3. SemOf(fp[t]) \in FileSemaphores
    BY <1>8, TakesIs
  <2>4. t \in Flushers => pc[t] # "out" /\ pc'[t] # "out"
    BY <1>0, <2>1 DEF Roles
  <2> QED
    BY <1>0, <2>1, <2>2, <2>3, <2>4, SemTaken
<1>9. CASE Flushed(t) \/ PutEnd(t) \/ Unlock(t)
  <2>1. /\ Took(t) > 0 /\ Sem!Give(t, SemOf(fp[t])) /\ UNCHANGED <<handle, fp, then>>
        /\ pc'[t] = IF pc[t] = "flushed" THEN then[t] ELSE IF pc[t] = "putend" THEN "out" ELSE "free"
    BY <1>0, <1>9, ReleaseIs DEF Typed, mine
  <2>2. /\ pc[t] \in {"flushed", "putend", "unlock"}
        /\ pc[t] = "flushed" => then[t] \in {"putend", "lock", "walk"}
        /\ t \in Flushers => pc[t] = "flushed" /\ then[t] = "walk"
    BY <1>0, <1>9, Parts DEF Flushed, PutEnd, Unlock, Roles, FlusherAt, Flushing
  <2>3. Took(t)' = Took(t) - 1
    BY <2>1, <2>2 DEF Took
  <2>4. SemOf(fp[t]) \in FileSemaphores
    BY <1>0, <2>1, HasHandle, TookIs
  <2>5. t \in Flushers => pc[t] # "out" /\ pc'[t] # "out"
    BY <2>1, <2>2
  <2> QED
    BY <1>0, <2>1, <2>3, <2>4, <2>5, SemGiven
<1>10. CASE FlushAll(t) \/ FlushAllEnd(t)
  <2>1. t \in Flushers /\ pc[t] \in {"out", "walk"} /\ handle' = handle
    BY <1>0, <1>10, Parts DEF FlushAll, FlushAllEnd, Roles, OpenerAt, WriterAt, Flushing, Live, file
  <2>2. pc'[t] = IF pc[t] = "out" THEN "walk" ELSE "out"
    BY <1>0, <1>10 DEF FlushAll, FlushAllEnd, GoTo, Typed
  <2>3. Took(t)' = 0 /\ Took(t) = 0
    BY <2>1, <2>2 DEF Took
  <2>4. holder[IOB] # None => holder[IOB] \in Flushers /\ depth[IOB] = 1
    BY <1>0, Numbers DEF Semaphores, Typed
  <2>5. holder[IOB] = t <=> pc[t] # "out"
    BY <1>0, <2>1 DEF Semaphores
  <2>6. /\ holder'[IOB] = IF pc[t] = "out" THEN t ELSE None
        /\ depth'[IOB] = IF pc[t] = "out" THEN 1 ELSE 0
        /\ \A k \in FileSemaphores : holder'[k] = holder[k] /\ depth'[k] = depth[k]
        /\ pc[t] = "out" => holder[IOB] = None
    <3>1. CASE FlushAll(t)
      <4>1. Sem!Take(t, IOB) /\ pc[t] = "out"
        BY <3>1 DEF FlushAll
      <4>2. holder[IOB] = None /\ depth[IOB] = 0
        BY <1>0, <4>1, <2>5, Numbers, TakeIs DEF Semaphores
      <4> QED
        BY <1>0, <4>1, <4>2, Numbers, TakeIs
    <3>2. CASE FlushAllEnd(t)
      <4>1. Sem!Give(t, IOB) /\ pc[t] = "walk"
        BY <3>2 DEF FlushAllEnd
      <4>2. holder[IOB] = t /\ depth[IOB] = 1
        BY <1>0, <4>1, <2>4, <2>5, Parts
      <4> QED
        BY <1>0, <4>1, <4>2, Numbers, GiveIs
    <3> QED
      BY <1>10, <3>1, <3>2
  <2>7. \A u \in Threads : Took(u)' = Took(u)
    BY <1>0, <2>3 DEF Others, Took
  <2>8. \A u \in Threads, l \in FileSemaphores : Has(u, l)' <=> Has(u, l)
    BY <1>0, <2>1, <2>3, <2>7 DEF Has, SemOf, Others
  <2>9. ASSUME NEW u \in Threads PROVE holder'[IOB] = u <=> u \in Flushers /\ pc'[u] # "out"
    <3>1. CASE u = t
      BY <3>1, <2>1, <2>2, <2>6, Parts
    <3>2. CASE u # t
      <4>1. pc'[u] = pc[u] /\ (holder[IOB] = u <=> u \in Flushers /\ pc[u] # "out")
        BY <1>0, <3>2 DEF Others, Semaphores
      <4> QED
        BY <3>2, <4>1, <2>1, <2>5, <2>6, Parts
    <3> QED
      BY <3>1, <3>2
  <2> QED
    BY <1>0, <2>6, <2>7, <2>8, <2>9 DEF Semaphores
<1> QED
  BY <1>3, <1>4, <1>5, <1>6, <1>7, <1>8, <1>9, <1>10 DEF Step, Run

-----------------------------------------------------------------------------
(* Each part of the invariant is kept: types *)

PCs == OpenerAt \union FlusherAt

LEMMA PCTyped ==
  ASSUME Inv, NEW t \in Threads, Step(t)
  PROVE  pc' \in [Threads -> PCs]
<1>0. Typed /\ Roles /\ Streaming /\ Lists /\ pc \in [Threads -> PCs]
  BY DEF Inv, Typed, PCs
<1>1. \A l \in PCs : pc' = [pc EXCEPT ![t] = l] => pc' \in [Threads -> PCs]
  BY <1>0
<1>2. \A l \in {"out", "open", "opened", "put", "putend", "flush", "flushing", "flushed", "close",
                "lock", "locked", "closed", "unlock", "free", "walk"} : l \in PCs
  BY DEF PCs, OpenerAt, FlusherAt, Live, Flushing
<1>3. \/ pc' = pc
      \/ \E l \in {"out", "open", "opened", "put", "putend", "flush", "flushing", "flushed", "close",
                   "lock", "locked", "closed", "unlock", "free", "walk"} : pc' = [pc EXCEPT ![t] = l]
  <2>1. CASE AllocFp(t) \/ Close(t) \/ OpenHandle(t) \/ FreeFp(t)
    BY <1>0, <2>1, AllocFpIs, CloseIs, OpenHandleIs, FreeFpIs
  <2>2. CASE Flushed(t) \/ PutEnd(t) \/ Unlock(t)
    <3>1. then[t] \in {"out", "putend", "lock", "walk"}
      BY <1>0 DEF Typed
    <3>2. pc' = [pc EXCEPT ![t] = IF pc[t] = "flushed" THEN then[t] ELSE IF pc[t] = "putend" THEN "out" ELSE "free"]
      BY <2>2, ReleaseIs
    <3> QED
      BY <3>1, <3>2
  <2>3. CASE \/ OpenFails(t) \/ SetFlags(t) \/ Flush(t) \/ WriteOut(t) \/ PutChar(t) \/ DoClose(t) \/ LockToClose(t)
             \/ CloseHandle(t) \/ ClearFlags(t) \/ FlushNext(t) \/ FlushAllEnd(t) \/ Put(t) \/ FlushAll(t)
    BY <2>3 DEF OpenFails, SetFlags, Flush, WriteOut, PutChar, DoClose, LockToClose, CloseHandle,
                ClearFlags, FlushNext, FlushAllEnd, Put, FlushAll, GoTo
  <2> QED
    BY <2>1, <2>2, <2>3 DEF Step, Run
<1> QED
  BY <1>0, <1>1, <1>2, <1>3

LEMMA MineTyped ==
  ASSUME Inv, NEW t \in Threads, Step(t)
  PROVE  /\ fp' \in [Threads -> Files \union {0}]
         /\ then' \in [Threads -> {"out", "putend", "lock", "walk"}]
         /\ rest' \in [Threads -> Seq(Files)]
<1>0. Typed /\ Roles /\ Streaming /\ Lists
  BY DEF Inv
<1>1. CASE AllocFp(t)
  BY <1>0, <1>1, AllocFpIs DEF Typed
<1>2. CASE Close(t) \/ OpenHandle(t) \/ FreeFp(t) \/ Flushed(t) \/ PutEnd(t) \/ Unlock(t)
  <2>1. fp' = fp \/ fp' = [fp EXCEPT ![t] = 0]
    BY <1>0, <1>2, CloseIs, OpenHandleIs, FreeFpIs, ReleaseIs DEF mine
  <2>2. then' = then /\ rest' = rest
    BY <1>0, <1>2, CloseIs, OpenHandleIs, FreeFpIs, ReleaseIs DEF mine
  <2> QED
    BY <1>0, <2>1, <2>2 DEF Typed
<1>3. CASE FlushNext(t)
  <2>1. rest[t] \in Seq(Files) /\ rest[t] # <<>>
    BY <1>0, <1>3 DEF FlushNext, Typed
  <2>2. Tail(rest[t]) \in Seq(Files) /\ Head(rest[t]) \in Files
    BY <2>1, TailIs
  <2>3. rest' = [rest EXCEPT ![t] = Tail(rest[t])] /\ then' = then
        /\ (fp' = fp \/ fp' = [fp EXCEPT ![t] = Head(rest[t])])
    BY <1>3 DEF FlushNext
  <2> QED
    BY <1>0, <2>2, <2>3 DEF Typed
<1>4. CASE FlushAll(t) \/ FlushAllEnd(t)
  <2>1. /\ fp' = fp \/ fp' = [fp EXCEPT ![t] = 0]
        /\ then' = then \/ then' = [then EXCEPT ![t] = "walk"]
        /\ rest' = rest \/ rest' = [rest EXCEPT ![t] = ostream]
    BY <1>4 DEF FlushAll, FlushAllEnd
  <2> QED
    BY <1>0, <2>1 DEF Typed
<1>5. CASE \/ OpenFails(t) \/ SetFlags(t) \/ Flush(t) \/ WriteOut(t) \/ PutChar(t) \/ DoClose(t) \/ LockToClose(t)
           \/ CloseHandle(t) \/ ClearFlags(t) \/ Put(t)
  <2>1. /\ fp' = fp /\ rest' = rest
        /\ then' = then \/ (then' = [then EXCEPT ![t] = "lock"]) \/ (then' = [then EXCEPT ![t] = "putend"])
    BY <1>5 DEF OpenFails, SetFlags, Flush, WriteOut, PutChar, DoClose, LockToClose, CloseHandle,
                ClearFlags, Put, mine
  <2> QED
    BY <1>0, <2>1 DEF Typed
<1> QED
  BY <1>1, <1>2, <1>3, <1>4, <1>5 DEF Step, Run

LEMMA SemsTyped ==
  ASSUME Inv, NEW t \in Threads, Step(t)
  PROVE  holder' \in [Locks -> Threads \union {None}] /\ depth' \in [Locks -> Nat]
<1>0. Typed /\ Roles /\ Streaming /\ Lists /\ Semaphores
  BY DEF Inv
<1>1. CASE Put(t) \/ Flush(t) \/ LockToClose(t)
  <2>1. SemOf(fp[t]) \in Locks /\ Sem!Take(t, SemOf(fp[t]))
    BY <1>1, TakesIs, Numbers
  <2> QED
    BY <1>0, <2>1, TakeIs
<1>2. CASE Flushed(t) \/ PutEnd(t) \/ Unlock(t)
  <2>1. Took(t) > 0 /\ Sem!Give(t, SemOf(fp[t]))
    BY <1>2, ReleaseIs
  <2>2. SemOf(fp[t]) \in FileSemaphores /\ SemOf(fp[t]) \in Locks
    BY <1>0, <2>1, HasHandle, TookIs
  <2>3. Has(t, SemOf(fp[t]))
    BY <2>1 DEF Has
  <2>4. depth[SemOf(fp[t])] = Took(t)
    BY <1>0, <2>2, <2>3 DEF Semaphores
  <2>5. depth[SemOf(fp[t])] >= 1
    BY <2>1, <2>4, TookIs
  <2> QED
    BY <1>0, <2>1, <2>2, <2>5, GiveIs
<1>3. CASE FlushAll(t)
  BY <1>0, <1>3, TakeIs, Numbers DEF FlushAll
<1>4. CASE FlushAllEnd(t)
  <2>1. Sem!Give(t, IOB)
    BY <1>4 DEF FlushAllEnd
  <2>2. depth[IOB] = 1
    BY <1>0, <2>1, Parts DEF Semaphores, Sem!Give
  <2> QED
    BY <1>0, <2>1, <2>2, GiveIs, Numbers
<1>5. CASE UNCHANGED sems
  BY <1>0, <1>5 DEF Typed, sems
<1>6. \/ Put(t) \/ Flush(t) \/ LockToClose(t) \/ Flushed(t) \/ PutEnd(t) \/ Unlock(t)
      \/ FlushAll(t) \/ FlushAllEnd(t) \/ UNCHANGED sems
  BY DEF Step, Run, AllocFp, Close, OpenHandle, OpenFails, SetFlags, WriteOut, PutChar, DoClose,
         CloseHandle, ClearFlags, FreeFp, FlushNext
<1> QED
  BY <1>1, <1>2, <1>3, <1>4, <1>5, <1>6

LEMMA FilesTyped ==
  ASSUME Inv, NEW t \in Threads, Step(t)
  PROVE  /\ ostream' \in Seq(Files) /\ cstream' \in Seq(Files)
         /\ opened' \in [Files -> BOOLEAN] /\ dirty' \in [Files -> BOOLEAN]
         /\ handle' \in [Files -> Handles \union {None}]
         /\ buf' \in [Files -> Seq(Threads)]
<1>0. Typed /\ Roles /\ Streaming /\ Lists
  BY DEF Inv
<1>1. <<>> \in Seq(Threads)
  OBVIOUS
<1>2. CASE AllocFp(t)
  <2>0. ostream \in Seq(Files) /\ cstream \in Seq(Files)
    BY <1>0 DEF Typed
  <2>1. ostream' \in Seq(Files)
    <3>1. FreeFile \in Files /\ ostream' = <<FreeFile>> \o ostream
      BY <1>0, <1>2, AllocFpIs
    <3> QED
      BY <2>0, <3>1, ConsIs
  <2>2. cstream' \in Seq(Files)
    <3>1. cstream' = IF cstream # <<>> THEN Tail(cstream) ELSE cstream
      BY <1>0, <1>2, AllocFpIs
    <3> QED
      BY <2>0, <3>1, TailIs
  <2>3. /\ opened' = [opened EXCEPT ![FreeFile] = FALSE] /\ dirty' = [dirty EXCEPT ![FreeFile] = FALSE]
        /\ handle' = [handle EXCEPT ![FreeFile] = 0] /\ buf' = [buf EXCEPT ![FreeFile] = <<>>]
    BY <1>0, <1>2, AllocFpIs
  <2> QED
    BY <1>0, <1>1, <2>1, <2>2, <2>3, Numbers DEF Typed
<1>3. CASE FreeFp(t)
  <2>0. ostream \in Seq(Files) /\ cstream \in Seq(Files)
    BY <1>0 DEF Typed
  <2>1. cstream' \in Seq(Files)
    <3>1. fp[t] \in Files /\ cstream' = <<fp[t]>> \o cstream
      BY <1>0, <1>3, FreeFpIs
    <3> QED
      BY <2>0, <3>1, ConsIs
  <2>2. ostream' \in Seq(Files)
    <3>1. PICK i \in 1..Len(ostream) : ostream' = RemoveAt(ostream, i)
      BY <1>0, <1>3, FreeFpIs
    <3> QED
      BY <2>0, <3>1, RemoveAtIs
  <2>3. UNCHANGED file
    BY <1>3 DEF FreeFp
  <2> QED
    BY <1>0, <2>1, <2>2, <2>3 DEF Typed, file
<1>4. CASE OpenHandle(t) \/ OpenFails(t)
  <2>1. UNCHANGED <<lists, opened, dirty, buf>> /\ \E h \in Handles \union {None} : handle' = [handle EXCEPT ![fp[t]] = h]
    BY <1>0, <1>4, OpenHandleIs DEF OpenFails
  <2> QED
    BY <1>0, <2>1 DEF Typed, lists
<1>5. CASE SetFlags(t) \/ WriteOut(t) \/ Flushed(t) \/ ClearFlags(t)
  <2>1. /\ UNCHANGED <<lists, handle>>
        /\ opened' = opened \/ \E b \in BOOLEAN : opened' = [opened EXCEPT ![fp[t]] = b]
        /\ dirty' = dirty \/ dirty' = [dirty EXCEPT ![fp[t]] = FALSE]
        /\ buf' = buf \/ buf' = [buf EXCEPT ![fp[t]] = <<>>]
    BY <1>5 DEF SetFlags, WriteOut, Flushed, ClearFlags
  <2> QED
    BY <1>0, <1>1, <2>1 DEF Typed, lists
<1>6. CASE PutChar(t)
  <2>1. fp[t] \in Files
    BY <1>0, <1>6, HasHandle DEF PutChar
  <2>2. Append(buf[fp[t]], t) \in Seq(Threads)
    BY <1>0, <2>1 DEF Typed
  <2>3. /\ UNCHANGED <<lists, opened, handle>>
        /\ dirty' = dirty \/ dirty' = [dirty EXCEPT ![fp[t]] = TRUE]
        /\ buf' = buf \/ buf' = [buf EXCEPT ![fp[t]] = Append(buf[fp[t]], t)]
    BY <1>6 DEF PutChar
  <2> QED
    BY <1>0, <2>2, <2>3 DEF Typed, lists
<1>7. CASE UNCHANGED <<lists, file>>
  BY <1>0, <1>7 DEF Typed, lists, file
<1>8. \/ AllocFp(t) \/ FreeFp(t) \/ OpenHandle(t) \/ OpenFails(t) \/ SetFlags(t) \/ WriteOut(t)
      \/ Flushed(t) \/ ClearFlags(t) \/ PutChar(t) \/ UNCHANGED <<lists, file>>
  BY DEF Step, Run, Close, DoClose, CloseHandle, FlushNext, Put, Flush, LockToClose, PutEnd, Unlock,
         FlushAll, FlushAllEnd
<1> QED
  BY <1>2, <1>3, <1>4, <1>5, <1>6, <1>7, <1>8

LEMMA WorldTyped ==
  ASSUME Inv, NEW t \in Threads, Step(t)
  PROVE  /\ os' \in [Handles -> Disk \union {None}]
         /\ disk' \in [Disk -> Seq(Threads)] /\ put' \in [Disk -> Seq(Threads)]
<1>0. Typed /\ Roles /\ Streaming /\ Lists
  BY DEF Inv
<1>1. CASE OpenHandle(t)
  <2>1. <<>> \in Seq(Threads)
    OBVIOUS
  <2>2. t \in Openers /\ os' = [os EXCEPT ![FreeHandle(t)] = t]
        /\ disk' = [disk EXCEPT ![t] = <<>>] /\ put' = [put EXCEPT ![t] = <<>>]
    BY <1>0, <1>1, OpenHandleIs
  <2> QED
    BY <1>0, <2>1, <2>2, Parts DEF Typed
<1>2. CASE CloseHandle(t)
  <2>1. os' = [os EXCEPT ![handle[fp[t]]] = None] /\ disk' = disk /\ put' = put
    BY <1>2 DEF CloseHandle
  <2> QED
    BY <1>0, <2>1 DEF Typed
<1>3. CASE WriteOut(t)
  <2> DEFINE d == os[handle[fp[t]]]
  <2>1. UNCHANGED <<os, put>> /\ (disk' = disk \/ (d # None /\ disk' = [disk EXCEPT ![d] = disk[d] \o buf[fp[t]]]))
    BY <1>3 DEF WriteOut
  <2>2. fp[t] \in Files /\ handle[fp[t]] \in Handles
    BY <1>0, <1>3, HasHandle DEF WriteOut
  <2>3. d # None => d \in Disk
    BY <1>0, <2>2 DEF Typed
  <2>4. d # None => disk[d] \o buf[fp[t]] \in Seq(Threads)
    <3>1. SUFFICES ASSUME d \in Disk PROVE disk[d] \o buf[fp[t]] \in Seq(Threads)
      BY <2>3
    <3>2. disk[d] \in Seq(Threads) /\ buf[fp[t]] \in Seq(Threads)
      BY <1>0, <2>2, <3>1 DEF Typed
    <3> QED
      BY <3>2
  <2> HIDE DEF d
  <2> QED
    BY <1>0, <2>1, <2>4 DEF Typed
<1>4. CASE PutChar(t)
  <2> DEFINE d == IF t \in Writers THEN "console" ELSE t
  <2>1. t \notin Flushers
    BY <1>0, <1>4 DEF PutChar, Roles, FlusherAt, Flushing
  <2>2. d \in Disk
    BY <2>1, Parts
  <2>3. UNCHANGED <<os, disk>> /\ (put' = put \/ put' = [put EXCEPT ![d] = Append(put[d], t)])
    BY <1>4 DEF PutChar
  <2> HIDE DEF d
  <2>4. Append(put[d], t) \in Seq(Threads)
    BY <1>0, <2>2 DEF Typed
  <2> QED
    BY <1>0, <2>3, <2>4 DEF Typed
<1>5. CASE UNCHANGED world
  BY <1>0, <1>5 DEF Typed, world
<1>6. OpenHandle(t) \/ CloseHandle(t) \/ WriteOut(t) \/ PutChar(t) \/ UNCHANGED world
  BY DEF Step, Run, Close, DoClose, FlushNext, Put, Flush, LockToClose, PutEnd, Unlock,
         FlushAll, FlushAllEnd, AllocFp, FreeFp, OpenFails, SetFlags, Flushed, ClearFlags
<1> QED
  BY <1>1, <1>2, <1>3, <1>4, <1>5, <1>6

LEMMA TypedNext ==
  ASSUME Inv, NEW t \in Threads, Step(t)
  PROVE  Typed'
BY PCTyped, MineTyped, SemsTyped, FilesTyped, WorldTyped DEF Typed, PCs

-----------------------------------------------------------------------------
(* Each part of the invariant is kept: roles and lists *)

\* A dirty stream is open, on the file of its owner.
LEMMA DirtyIs ==
  ASSUME Inv, NEW f \in Files, dirty[f]
  PROVE  /\ opened[f] /\ handle[f] \in Handles
         /\ \/ f = Stdout /\ os[handle[f]] = "console"
            \/ \E u \in Openers : fp[u] = f /\ Owned(u) /\ pc[u] \in Live /\ os[handle[f]] = u
<1>0. Streaming
  BY DEF Inv
<1>1. CASE f = Stdout
  BY <1>0, <1>1, Numbers DEF Streaming
<1>2. CASE f # Stdout
  <2>1. PICK u \in Openers : fp[u] = f /\ pc[u] \in Live
    BY <1>0, <1>2 DEF Streaming
  <2>2. Owned(u)
    BY <2>1, Numbers DEF Owned
  <2> QED
    BY <1>0, <2>1, <2>2 DEF Streaming
<1> QED
  BY <1>1, <1>2

LEMMA RolesNext ==
  ASSUME Inv, OneOwner, OneOwner', NEW t \in Threads, Step(t)
  PROVE  Roles'
<1>0. Typed /\ Roles /\ Streaming /\ Lists /\ Others(t)
  BY OthersKept DEF Inv
<1>1. \A u \in Flushers \ {t} : pc[u] \in Flushing => handle'[fp[u]] = handle[fp[u]]
  BY HandleKept, Parts DEF Flushing
<1> DEFINE WriterOK == t \in Writers => /\ pc'[t] \in WriterAt /\ fp'[t] = Stdout
                                        /\ pc'[t] \in Flushing => then'[t] = "putend"
           OpenerOK == t \in Openers => /\ pc'[t] \in OpenerAt /\ fp'[t] # Stdout
                                        /\ fp'[t] = 0 => pc'[t] = "out"
                                        /\ pc'[t] \in Flushing => then'[t] \in {"putend", "lock"}
           FlusherOK == t \in Flushers => /\ pc'[t] \in FlusherAt
                                          /\ pc'[t] = "out" => fp'[t] = 0
                                          /\ pc'[t] # "out" => then'[t] = "walk"
                                          /\ pc'[t] \in Flushing => fp'[t] # 0 /\ handle'[fp'[t]] \in Handles
           Goal == WriterOK /\ OpenerOK /\ FlusherOK
<1>2. Goal => Roles'
  <2>1. SUFFICES ASSUME Goal PROVE Roles'
    OBVIOUS
  <2>2. \A u \in Threads \ {t} : pc'[u] = pc[u] /\ fp'[u] = fp[u] /\ then'[u] = then[u]
    BY <1>0 DEF Others
  <2>3. ASSUME NEW u \in Writers
        PROVE  /\ pc'[u] \in WriterAt /\ fp'[u] = Stdout
               /\ pc'[u] \in Flushing => then'[u] = "putend"
    BY <1>0, <2>1, <2>2, Parts DEF Roles
  <2>4. ASSUME NEW u \in Openers
        PROVE  /\ pc'[u] \in OpenerAt /\ fp'[u] # Stdout
               /\ fp'[u] = 0 => pc'[u] = "out"
               /\ pc'[u] \in Flushing => then'[u] \in {"putend", "lock"}
    BY <1>0, <2>1, <2>2, Parts DEF Roles
  <2>5. ASSUME NEW u \in Flushers
        PROVE  /\ pc'[u] \in FlusherAt
               /\ pc'[u] = "out" => fp'[u] = 0
               /\ pc'[u] # "out" => then'[u] = "walk"
               /\ pc'[u] \in Flushing => fp'[u] # 0 /\ handle'[fp'[u]] \in Handles
    BY <1>0, <1>1, <2>1, <2>2, Parts DEF Roles
  <2> QED
    BY <2>3, <2>4, <2>5 DEF Roles
<1>3. ASSUME AllocFp(t) \/ Close(t) \/ OpenHandle(t) \/ FreeFp(t) PROVE Goal
  <2>1. t \in Openers
    BY <1>0, <1>3, AllocFpIs, CloseIs, OpenHandleIs, FreeFpIs
  <2>2. \/ pc'[t] = "open" /\ fp'[t] = FreeFile /\ AllocFp(t)
        \/ pc'[t] \in {"close", "opened"} /\ fp'[t] = fp[t] /\ fp[t] # 0
        \/ pc'[t] = "out" /\ fp'[t] = 0
    <3>1. CASE AllocFp(t)
      <4>1. pc' = [pc EXCEPT ![t] = "open"] /\ fp' = [fp EXCEPT ![t] = FreeFile]
        BY <1>0, <3>1, AllocFpIs
      <4> QED
        BY <1>0, <3>1, <4>1 DEF Typed
    <3>2. CASE Close(t) \/ OpenHandle(t)
      <4>1. fp' = fp /\ fp[t] # 0 /\ \E l \in {"close", "opened"} : pc' = [pc EXCEPT ![t] = l]
        BY <1>0, <3>2, CloseIs, OpenHandleIs DEF mine
      <4> QED
        BY <1>0, <4>1 DEF Typed
    <3>3. CASE FreeFp(t)
      <4>1. pc' = [pc EXCEPT ![t] = "out"] /\ fp' = [fp EXCEPT ![t] = 0]
        BY <1>0, <3>3, FreeFpIs
      <4> QED
        BY <1>0, <4>1 DEF Typed
    <3> QED
      BY <1>3, <3>1, <3>2, <3>3
  <2>3. fp'[t] # Stdout /\ (fp'[t] = 0 => pc'[t] = "out")
    <3>1. AllocFp(t) => FreeFile # Stdout /\ FreeFile # 0
      BY <1>0, AllocNew, AllocFpIs, Numbers
    <3>2. fp[t] # Stdout /\ 0 # Stdout
      BY <1>0, <2>1 DEF Roles, Stdout
    <3> QED
      BY <2>2, <3>1, <3>2
  <2> QED
    BY <2>1, <2>2, <2>3, Parts DEF OpenerAt, Live, Flushing
<1>4. ASSUME OpenFails(t) \/ SetFlags(t) \/ DoClose(t) \/ LockToClose(t) \/ CloseHandle(t) \/ ClearFlags(t) \/ Unlock(t)
      PROVE  Goal
  <2>1. t \in Openers /\ fp[t] # Stdout /\ fp[t] # 0
    BY <1>0, <1>4, OpenerOnly DEF OpenFails, SetFlags, DoClose, LockToClose, CloseHandle, ClearFlags, Unlock
  <2>2. fp' = fp
    BY <1>4 DEF OpenFails, SetFlags, DoClose, LockToClose, CloseHandle, ClearFlags, Unlock, mine
  <2>3. pc'[t] \in OpenerAt /\ (pc'[t] \in Flushing => then'[t] = "lock")
    <3>1. CASE DoClose(t)
      BY <1>0, <3>1 DEF DoClose, GoTo, Typed, OpenerAt, Live, Flushing
    <3>2. CASE OpenFails(t) \/ SetFlags(t) \/ LockToClose(t) \/ CloseHandle(t) \/ ClearFlags(t)
      BY <1>0, <3>2 DEF OpenFails, SetFlags, LockToClose, CloseHandle, ClearFlags, GoTo, Typed, OpenerAt, Live, Flushing
    <3>3. CASE Unlock(t)
      <4>1. pc[t] = "unlock" /\ pc' = [pc EXCEPT ![t] = "free"]
        BY <3>3, ReleaseIs DEF Unlock
      <4> QED
        BY <1>0, <4>1 DEF Typed, OpenerAt, Live, Flushing
    <3> QED
      BY <1>4, <3>1, <3>2, <3>3
  <2> QED
    BY <2>1, <2>2, <2>3, Parts
<1>5. ASSUME Flush(t) \/ WriteOut(t) PROVE Goal
  <2>1. /\ UNCHANGED <<fp, then, handle>>
        /\ pc[t] \in Flushing /\ pc'[t] \in {"flushing", "flushed"}
    BY <1>0, <1>5 DEF Flush, WriteOut, GoTo, Typed, mine, file, Flushing
  <2> QED
    BY <1>0, <2>1 DEF Roles, WriterAt, OpenerAt, FlusherAt, Flushing, Live
<1>6. ASSUME Flushed(t) PROVE Goal
  <2>1. UNCHANGED <<fp, then>> /\ pc[t] = "flushed" /\ pc' = [pc EXCEPT ![t] = then[t]]
    BY <1>6, ReleaseIs DEF Flushed, mine
  <2>2. pc'[t] = then[t]
    BY <1>0, <2>1 DEF Typed
  <2>3. pc[t] \in Flushing
    BY <2>1 DEF Flushing
  <2>4. WriterOK
    BY <1>0, <2>1, <2>2, <2>3 DEF Roles, WriterAt, Flushing
  <2>5. OpenerOK
    BY <1>0, <2>1, <2>2, <2>3 DEF Roles, OpenerAt, Live, Flushing
  <2>6. FlusherOK
    BY <1>0, <2>1, <2>2, <2>3 DEF Roles, FlusherAt, Flushing
  <2> QED
    BY <2>4, <2>5, <2>6
<1>7. ASSUME Put(t) PROVE Goal
  <2>1. pc[t] = "out" /\ fp[t] # 0 /\ UNCHANGED <<fp, then>> /\ pc'[t] = "put"
    BY <1>0, <1>7 DEF Put, GoTo, Typed, mine
  <2>2. t \notin Flushers
    BY <1>0, <2>1 DEF Roles
  <2> QED
    BY <1>0, <2>1, <2>2 DEF Roles, WriterAt, OpenerAt, Flushing, Live
<1>8. ASSUME PutChar(t) PROVE Goal
  <2>1. pc[t] = "put" /\ fp' = fp /\ pc'[t] \in {"flush", "putend"} /\ then'[t] = "putend"
    BY <1>0, <1>8 DEF PutChar, GoTo, Typed
  <2>2. t \notin Flushers
    BY <1>0, <2>1 DEF Roles, FlusherAt, Flushing
  <2> QED
    BY <1>0, <2>1, <2>2 DEF Roles, WriterAt, OpenerAt, Flushing, Live
<1>9. ASSUME PutEnd(t) PROVE Goal
  <2>1. pc[t] = "putend" /\ UNCHANGED <<fp, then>> /\ pc' = [pc EXCEPT ![t] = "out"]
    BY <1>9, ReleaseIs DEF PutEnd, mine
  <2>2. t \notin Flushers /\ pc'[t] = "out"
    BY <1>0, <2>1 DEF Roles, FlusherAt, Flushing, Typed
  <2> QED
    BY <1>0, <2>1, <2>2 DEF Roles, WriterAt, OpenerAt, Flushing, Live
<1>10. ASSUME FlushAll(t) \/ FlushNext(t) \/ FlushAllEnd(t) PROVE Goal
  <2>1. t \in Flushers
    BY <1>0, <1>10, Parts DEF FlushAll, FlushNext, FlushAllEnd, Roles, OpenerAt, WriterAt, Flushing, Live
  <2>2. CASE FlushAll(t)
    BY <1>0, <2>1, <2>2, Parts DEF FlushAll, GoTo, Typed, FlusherAt, Flushing
  <2>3. CASE FlushAllEnd(t)
    BY <1>0, <2>1, <2>3, Parts DEF FlushAllEnd, GoTo, Typed, FlusherAt, Flushing
  <2>4. CASE FlushNext(t)
    <3>1. pc[t] = "walk" /\ then[t] = "walk" /\ UNCHANGED <<handle, then>> /\ Head(rest[t]) \in Files
      <4>1. rest[t] \in Seq(Files) /\ rest[t] # <<>> /\ pc[t] = "walk" /\ UNCHANGED <<handle, then>>
        BY <1>0, <2>4 DEF FlushNext, Typed, file
      <4> QED
        BY <1>0, <2>1, <4>1, TailIs DEF Roles
    <3>2. CASE dirty[Head(rest[t])]
      <4>1. pc' = [pc EXCEPT ![t] = "flush"] /\ fp' = [fp EXCEPT ![t] = Head(rest[t])]
        BY <2>4, <3>2 DEF FlushNext, GoTo
      <4>2. pc'[t] = "flush" /\ fp'[t] = Head(rest[t])
        BY <1>0, <4>1 DEF Typed
      <4>3. handle[Head(rest[t])] \in Handles
        BY <3>1, <3>2, DirtyIs
      <4> QED
        BY <2>1, <3>1, <4>2, <4>3, Parts, Numbers DEF FlusherAt, Flushing
    <3>3. CASE ~dirty[Head(rest[t])]
      <4>1. UNCHANGED <<pc, fp>>
        BY <2>4, <3>3 DEF FlushNext
      <4> QED
        BY <1>0, <2>1, <3>1, <4>1, Parts DEF FlusherAt, Flushing
    <3> QED
      BY <3>2, <3>3
  <2> QED
    BY <1>10, <2>2, <2>3, <2>4
<1> QED
  BY <1>2, <1>3, <1>4, <1>5, <1>6, <1>7, <1>8, <1>9, <1>10 DEF Step, Run

LEMMA ListsKept ==
  ASSUME Lists, UNCHANGED lists, \A u \in Openers : fp'[u] = fp[u]
  PROVE  Lists'
BY DEF Lists, lists, Contains

LEMMA ListsNext ==
  ASSUME Inv, OneOwner, OneOwner', NEW t \in Threads, Step(t)
  PROVE  Lists'
<1>0. Typed /\ Roles /\ Streaming /\ Lists /\ Others(t)
  BY OthersKept DEF Inv
<1>s. ostream \in Seq(Files) /\ cstream \in Seq(Files) /\ Len(ostream) \in Nat /\ Len(cstream) \in Nat
  BY <1>0 DEF Typed
<1>1. CASE AllocFp(t)
  <2> DEFINE f == FreeFile
  <2>1. /\ t \in Openers /\ fp[t] = 0 /\ f \in Files /\ f # Stdout
        /\ \A u \in Openers : fp[u] # f
        /\ fp' = [fp EXCEPT ![t] = f] /\ ostream' = <<f>> \o ostream
        /\ cstream' = IF cstream # <<>> THEN Tail(cstream) ELSE cstream
        /\ cstream # <<>> => f = cstream[1]
    BY <1>0, <1>1, AllocFpIs, AllocNew
  <2>2. \A i \in 1..Len(ostream) : ostream[i] # f
    BY <1>0, <2>1, <1>s DEF Lists, Contains
  <2>3. \A i \in 1..Len(cstream') : \E k \in 1..Len(cstream) :
          cstream'[i] = cstream[k] /\ k = (IF cstream # <<>> THEN i + 1 ELSE i)
    <3>1. CASE cstream # <<>>
      BY <1>s, <2>1, <3>1, TailIs
    <3>2. CASE cstream = <<>>
      BY <1>s, <2>1, <3>2
    <3> QED
      BY <3>1, <3>2
  <2>4. \A i \in 1..Len(cstream') : cstream'[i] # f
    <3> SUFFICES ASSUME NEW i \in 1..Len(cstream'), cstream'[i] = f PROVE FALSE
      OBVIOUS
    <3>1. PICK k \in 1..Len(cstream) : cstream'[i] = cstream[k] /\ k = (IF cstream # <<>> THEN i + 1 ELSE i)
      BY <2>3
    <3>2. cstream # <<>> /\ 1 \in 1..Len(cstream)
      BY <1>s, <3>1
    <3>3. cstream[k] = cstream[1] /\ k = i + 1
      BY <2>1, <3>1, <3>2
    <3>4. k = 1
      BY <1>0, <3>2, <3>3 DEF Lists
    <3>5. i = 0 /\ i \in Nat \ {0}
      <4>1. Len(cstream') \in Nat
        BY <1>s, <2>1, TailIs
      <4> QED
        BY <3>3, <3>4, <4>1
    <3> QED
      BY <3>5
  <2> HIDE DEF f
  <2>5. \A i, j \in 1..Len(cstream') : cstream'[i] = cstream'[j] => i = j
    <3> SUFFICES ASSUME NEW i \in 1..Len(cstream'), NEW j \in 1..Len(cstream'), cstream'[i] = cstream'[j] PROVE i = j
      OBVIOUS
    <3>1. PICK k \in 1..Len(cstream) : cstream'[i] = cstream[k] /\ k = (IF cstream # <<>> THEN i + 1 ELSE i)
      BY <2>3
    <3>2. PICK m \in 1..Len(cstream) : cstream'[j] = cstream[m] /\ m = (IF cstream # <<>> THEN j + 1 ELSE j)
      BY <2>3
    <3>3. k = m
      BY <1>0, <3>1, <3>2 DEF Lists
    <3>4. Len(cstream') \in Nat
      BY <1>s, <2>1, TailIs
    <3> QED
      BY <3>1, <3>2, <3>3, <3>4
  <2>6. ASSUME NEW i \in 1..Len(ostream')
        PROVE  \/ i = 1 /\ ostream'[i] = f
               \/ i - 1 \in 1..Len(ostream) /\ ostream'[i] = ostream[i - 1]
    <3>1. i \in 1..Len(<<f>> \o ostream) /\ ostream' = <<f>> \o ostream
      BY <2>1
    <3> QED
      BY <1>s, <2>1, <3>1, ConsElement
  <2>7. \A i, j \in 1..Len(ostream') : ostream'[i] = ostream'[j] => i = j
    <3> SUFFICES ASSUME NEW i \in 1..Len(ostream'), NEW j \in 1..Len(ostream'), ostream'[i] = ostream'[j] PROVE i = j
      OBVIOUS
    <3>1. CASE i = 1 /\ ostream'[i] = f
      BY <2>2, <2>6, <3>1
    <3>2. CASE i - 1 \in 1..Len(ostream) /\ ostream'[i] = ostream[i - 1]
      <4>1. ostream[i - 1] # f
        BY <2>2, <3>2
      <4>2. j - 1 \in 1..Len(ostream) /\ ostream'[j] = ostream[j - 1]
        BY <2>6, <3>2, <4>1
      <4>3. i - 1 = j - 1
        BY <1>0, <3>2, <4>2 DEF Lists
      <4>4. Len(ostream') \in Nat
        BY <1>s, <2>1, ConsIs
      <4> QED
        BY <4>3, <4>4
    <3> QED
      BY <2>6, <3>1, <3>2
  <2>8. \A i \in 1..Len(ostream'), j \in 1..Len(cstream') : ostream'[i] # cstream'[j]
    <3> SUFFICES ASSUME NEW i \in 1..Len(ostream'), NEW j \in 1..Len(cstream'), ostream'[i] = cstream'[j] PROVE FALSE
      OBVIOUS
    <3>1. PICK k \in 1..Len(cstream) : cstream'[j] = cstream[k]
      BY <2>3
    <3>2. i - 1 \in 1..Len(ostream) /\ ostream'[i] = ostream[i - 1]
      BY <2>4, <2>6
    <3> QED
      BY <1>0, <3>1, <3>2 DEF Lists
  <2>9. \A g \in Files : Contains(ostream', g) <=> g = f \/ Contains(ostream, g)
    <3>1. /\ 1 \in 1..Len(ostream') /\ ostream'[1] = f
          /\ \A i \in 1..Len(ostream) : i + 1 \in 1..Len(ostream') /\ ostream'[i + 1] = ostream[i]
      BY <1>s, <2>1, ConsIs
    <3> QED
      BY <2>6, <3>1 DEF Contains
  <2>10. \A u \in Openers : fp'[u] = IF u = t THEN f ELSE fp[u]
    BY <1>0, <2>1, Parts DEF Typed, f
  <2>11. \A g \in Files : g # 0
    BY Numbers
  <2>12. ASSUME NEW g \in Files PROVE Contains(ostream', g) <=> (g = Stdout \/ \E u \in Openers : fp'[u] = g)
    <3>1. Contains(ostream, g) <=> g = Stdout \/ \E u \in Openers : fp[u] = g
      BY <1>0 DEF Lists
    <3>2. (\E u \in Openers : fp'[u] = g) <=> g = f \/ \E u \in Openers : fp[u] = g
      BY <2>1, <2>10, <2>11
    <3> QED
      BY <2>9, <3>1, <3>2
  <2> QED
    BY <2>5, <2>7, <2>8, <2>12 DEF Lists
<1>2. CASE FreeFp(t)
  <2> DEFINE f == fp[t]
  <2>1. /\ t \in Openers /\ f \in Files /\ f # Stdout
        /\ cstream' = <<f>> \o cstream /\ fp' = [fp EXCEPT ![t] = 0]
    BY <1>0, <1>2, FreeFpIs, OpenerOnly
  <2>2. PICK k \in 1..Len(ostream) : ostream[k] = f /\ ostream' = RemoveAt(ostream, k)
    BY <1>0, <1>2, FreeFpIs
  <2>o. \A u \in Openers \ {t} : fp[u] # f
    BY <2>1, Numbers DEF OneOwner
  <2>10. \A u \in Openers : fp'[u] = IF u = t THEN 0 ELSE fp[u]
    BY <1>0, <2>1, Parts DEF Typed
  <2> HIDE DEF f
  <2>3. /\ ostream' \in Seq(Files) /\ Len(ostream') = Len(ostream) - 1
        /\ \A i \in 1..Len(ostream) - 1 : ostream'[i] = IF i < k THEN ostream[i] ELSE ostream[i + 1]
    BY <1>s, <2>2, RemoveAtIs
  <2>4. ASSUME NEW i \in 1..Len(ostream')
        PROVE  \E m \in 1..Len(ostream) : m # k /\ ostream'[i] = ostream[m] /\ m = (IF i < k THEN i ELSE i + 1)
    BY <1>s, <2>3
  <2>5. ASSUME NEW m \in 1..Len(ostream), m # k
        PROVE  \E i \in 1..Len(ostream') : ostream'[i] = ostream[m]
    <3>1. CASE m < k
      <4>1. m \in 1..Len(ostream) - 1
        BY <1>s, <3>1
      <4> QED
        BY <2>3, <3>1, <4>1
    <3>2. CASE m > k
      <4>1. m - 1 \in 1..Len(ostream) - 1 /\ ~(m - 1 < k) /\ m - 1 + 1 = m
        BY <1>s, <3>2
      <4> QED
        BY <2>3, <4>1
    <3>3. m < k \/ m > k
      BY <1>s, <2>5
    <3> QED
      BY <3>1, <3>2, <3>3
  <2>6. \A i \in 1..Len(ostream') : ostream'[i] # f
    <3> SUFFICES ASSUME NEW i \in 1..Len(ostream'), ostream'[i] = f PROVE FALSE
      OBVIOUS
    <3>1. PICK m \in 1..Len(ostream) : m # k /\ ostream'[i] = ostream[m]
      BY <2>4
    <3> QED
      BY <1>0, <2>2, <3>1 DEF Lists
  <2>7. \A i, j \in 1..Len(ostream') : ostream'[i] = ostream'[j] => i = j
    <3> SUFFICES ASSUME NEW i \in 1..Len(ostream'), NEW j \in 1..Len(ostream'), ostream'[i] = ostream'[j] PROVE i = j
      OBVIOUS
    <3>1. PICK m \in 1..Len(ostream) : ostream'[i] = ostream[m] /\ m = (IF i < k THEN i ELSE i + 1)
      BY <2>4
    <3>2. PICK n \in 1..Len(ostream) : ostream'[j] = ostream[n] /\ n = (IF j < k THEN j ELSE j + 1)
      BY <2>4
    <3>3. m = n
      BY <1>0, <3>1, <3>2 DEF Lists
    <3>4. Len(ostream') \in Nat
      BY <2>3
    <3> QED
      BY <1>s, <3>1, <3>2, <3>3, <3>4
  <2>8. ASSUME NEW i \in 1..Len(cstream')
        PROVE  \/ i = 1 /\ cstream'[i] = f
               \/ i - 1 \in 1..Len(cstream) /\ cstream'[i] = cstream[i - 1]
    <3>1. i \in 1..Len(<<f>> \o cstream) /\ cstream' = <<f>> \o cstream
      BY <2>1
    <3> QED
      BY <1>s, <2>1, <3>1, ConsElement
  <2>9. \A i \in 1..Len(cstream) : cstream[i] # f
    BY <1>0, <2>2 DEF Lists
  <2>11. \A i, j \in 1..Len(cstream') : cstream'[i] = cstream'[j] => i = j
    <3> SUFFICES ASSUME NEW i \in 1..Len(cstream'), NEW j \in 1..Len(cstream'), cstream'[i] = cstream'[j] PROVE i = j
      OBVIOUS
    <3>1. CASE i = 1 /\ cstream'[i] = f
      BY <2>9, <2>8, <3>1
    <3>2. CASE i - 1 \in 1..Len(cstream) /\ cstream'[i] = cstream[i - 1]
      <4>1. cstream[i - 1] # f
        BY <2>9, <3>2
      <4>2. j - 1 \in 1..Len(cstream) /\ cstream'[j] = cstream[j - 1]
        BY <2>8, <3>2, <4>1
      <4>3. i - 1 = j - 1
        BY <1>0, <3>2, <4>2 DEF Lists
      <4>4. Len(cstream') \in Nat
        BY <1>s, <2>1, ConsIs
      <4> QED
        BY <4>3, <4>4
    <3> QED
      BY <2>8, <3>1, <3>2
  <2>12. \A i \in 1..Len(ostream'), j \in 1..Len(cstream') : ostream'[i] # cstream'[j]
    <3> SUFFICES ASSUME NEW i \in 1..Len(ostream'), NEW j \in 1..Len(cstream'), ostream'[i] = cstream'[j] PROVE FALSE
      OBVIOUS
    <3>1. PICK m \in 1..Len(ostream) : ostream'[i] = ostream[m]
      BY <2>4
    <3>2. j - 1 \in 1..Len(cstream) /\ cstream'[j] = cstream[j - 1]
      BY <2>6, <2>8
    <3> QED
      BY <1>0, <3>1, <3>2 DEF Lists
  <2>13. ASSUME NEW g \in Files PROVE Contains(ostream', g) <=> g # f /\ Contains(ostream, g)
    <3>1. Contains(ostream', g) => g # f /\ Contains(ostream, g)
      BY <2>4, <2>6 DEF Contains
    <3>2. g # f /\ Contains(ostream, g) => Contains(ostream', g)
      BY <2>2, <2>5 DEF Contains
    <3> QED
      BY <3>1, <3>2
  <2>14. ASSUME NEW g \in Files PROVE Contains(ostream', g) <=> (g = Stdout \/ \E u \in Openers : fp'[u] = g)
    <3>1. Contains(ostream, g) <=> g = Stdout \/ \E u \in Openers : fp[u] = g
      BY <1>0 DEF Lists
    <3>2. (\E u \in Openers : fp'[u] = g) <=> g # f /\ \E u \in Openers : fp[u] = g
      BY <2>1, <2>10, <2>o, Numbers DEF f
    <3> QED
      BY <2>1, <2>13, <3>1, <3>2
  <2> QED
    BY <2>7, <2>11, <2>12, <2>14 DEF Lists
<1>3. CASE ~AllocFp(t) /\ ~FreeFp(t)
  <2>1. UNCHANGED lists
    BY <1>3 DEF Step, Run, Put, Close, FlushAll, SetFlags, Flush, WriteOut, OpenHandle, OpenFails,
         Flushed, PutChar, PutEnd, DoClose, LockToClose, CloseHandle, ClearFlags, Unlock,
         FlushNext, FlushAllEnd
  <2>2. \A u \in Openers : fp'[u] = fp[u]
    <3>1. CASE FlushNext(t) \/ FlushAllEnd(t)
      <4>1. t \notin Openers
        BY <1>0, <3>1 DEF FlushNext, FlushAllEnd, Roles, OpenerAt, Live
      <4> QED
        BY <1>0, <4>1, Parts DEF Others
    <3>2. CASE Close(t)
      BY <1>0, <3>2, CloseIs DEF mine
    <3>3. CASE ~FlushNext(t) /\ ~FlushAllEnd(t) /\ ~Close(t)
      BY <1>3, <3>3 DEF Step, Run, Put, FlushAll, SetFlags, Flush, WriteOut, OpenHandle, OpenFails,
         Flushed, PutChar, PutEnd, DoClose, LockToClose, CloseHandle, ClearFlags, Unlock, mine
    <3> QED
      BY <3>1, <3>2, <3>3
  <2> QED
    BY <1>0, <2>1, <2>2, ListsKept
<1> QED
  BY <1>1, <1>2, <1>3

-----------------------------------------------------------------------------
(* Each part of the invariant is kept: streams and handles *)

\* What a step leaves alone: the files that the thread does not own ...
LEMMA FileKept ==
  ASSUME Inv, NEW t \in Threads, Step(t), NEW g \in Files,
         AllocFp(t) => g # FreeFile, t \in Openers => g # fp[t]
  PROVE  /\ opened'[g] = opened[g] /\ handle'[g] = handle[g]
         /\ dirty'[g] => dirty[g] \/ g = Stdout
<1>0. Typed /\ Roles /\ Streaming /\ Lists
  BY DEF Inv
<1>1. CASE AllocFp(t)
  <2>1. /\ opened' = [opened EXCEPT ![FreeFile] = FALSE]
        /\ dirty' = [dirty EXCEPT ![FreeFile] = FALSE]
        /\ handle' = [handle EXCEPT ![FreeFile] = 0]
    BY <1>0, <1>1, AllocFpIs
  <2> QED
    BY <1>0, <1>1, <2>1 DEF Typed
<1>2. CASE OpenHandle(t) \/ OpenFails(t) \/ SetFlags(t) \/ ClearFlags(t)
  <2>1. t \in Openers
    BY <1>0, <1>2, OpenerOnly DEF OpenHandle, OpenFails, SetFlags, ClearFlags
  <2>2. /\ opened' = opened \/ \E b \in BOOLEAN : opened' = [opened EXCEPT ![fp[t]] = b]
        /\ dirty' = dirty \/ dirty' = [dirty EXCEPT ![fp[t]] = FALSE]
        /\ handle' = handle \/ \E h : handle' = [handle EXCEPT ![fp[t]] = h]
    BY <1>2 DEF OpenHandle, OpenFails, SetFlags, ClearFlags
  <2> QED
    BY <1>0, <2>1, <2>2 DEF Typed
<1>3. CASE WriteOut(t)
  BY <1>0, <1>3 DEF WriteOut, Typed
<1>4. CASE PutChar(t)
  <2>1. t \in Writers \/ t \in Openers
    BY <1>0, <1>4, Parts DEF PutChar, Roles, FlusherAt, Flushing
  <2>2. g # Stdout => g # fp[t]
    BY <1>0, <2>1 DEF Roles
  <2>3. opened' = opened /\ handle' = handle /\ (dirty' = dirty \/ dirty' = [dirty EXCEPT ![fp[t]] = TRUE])
    BY <1>4 DEF PutChar
  <2> QED
    BY <1>0, <2>2, <2>3 DEF Typed
<1>5. CASE UNCHANGED <<opened, dirty, handle>>
  BY <1>5
<1>6. \/ AllocFp(t) \/ OpenHandle(t) \/ OpenFails(t) \/ SetFlags(t) \/ ClearFlags(t) \/ WriteOut(t) \/ PutChar(t)
      \/ UNCHANGED <<opened, dirty, handle>>
  BY DEF Step, Run, Close, DoClose, CloseHandle, FlushNext, Put, Flush, LockToClose, PutEnd, Unlock,
         FlushAll, FlushAllEnd, Flushed, FreeFp, file
<1> QED
  BY <1>1, <1>2, <1>3, <1>4, <1>5, <1>6

\* ... and the handles of the others.
LEMMA HandlesKept ==
  ASSUME Inv, NEW t \in Threads, Step(t), NEW h \in Handles, os[h] # None, os[h] # t
  PROVE  os'[h] = os[h]
<1>0. Typed /\ Roles /\ Streaming /\ Lists
  BY DEF Inv
<1>1. CASE OpenHandle(t)
  <2>1. os' = [os EXCEPT ![FreeHandle(t)] = t] /\ os[FreeHandle(t)] = None
    BY <1>0, <1>1, OpenHandleIs
  <2> QED
    BY <1>0, <2>1 DEF Typed
<1>2. CASE CloseHandle(t)
  <2>1. t \in Openers /\ fp[t] # 0 /\ pc[t] = "locked"
    BY <1>0, <1>2, OpenerOnly DEF CloseHandle
  <2>2. os[handle[fp[t]]] = t
    BY <1>0, <2>1 DEF Streaming, Owned, Live
  <2>3. os' = [os EXCEPT ![handle[fp[t]]] = None]
    BY <1>2 DEF CloseHandle
  <2> QED
    BY <1>0, <2>2, <2>3 DEF Typed
<1>3. CASE os' = os
  BY <1>3
<1>4. OpenHandle(t) \/ CloseHandle(t) \/ os' = os
  BY DEF Step, Run, Close, DoClose, FlushNext, Put, Flush, LockToClose, PutEnd, Unlock, WriteOut, PutChar,
         FlushAll, FlushAllEnd, Flushed, FreeFp, AllocFp, OpenFails, SetFlags, ClearFlags, world
<1> QED
  BY <1>1, <1>2, <1>3, <1>4

\* What an opener does to the stream it has.
LEMMA OwnStep ==
  ASSUME Inv, OneOwner, NEW t \in Openers, Step(t), fp[t] # 0
  PROVE  /\ ~AllocFp(t)
         /\ FreeFp(t) \/ fp' = fp
         /\ FreeFp(t) => pc[t] = "free" /\ pc'[t] = "out" /\ UNCHANGED <<file, world>>
         /\ dirty'[fp[t]] => pc'[t] \in Live /\ ~FreeFp(t)
         /\ ~FreeFp(t) =>
              /\ pc'[t] \in Live => opened'[fp[t]]
              /\ pc'[t] \in Live \union {"opened"} => handle'[fp[t]] \in Handles /\ os'[handle'[fp[t]]] = t
              /\ pc'[t] \in {"closed", "unlock"} => handle'[fp[t]] \in Handles
              /\ pc'[t] \in {"lock", "locked"} => ~dirty'[fp[t]]
              /\ pc'[t] # "open"
<1>0. Typed /\ Roles /\ Streaming /\ Lists /\ Data /\ t \in Threads
  BY Parts DEF Inv
<1>1. /\ fp[t] \in Files /\ fp[t] # Stdout
      /\ pc[t] \in Live => opened[fp[t]]
      /\ pc[t] \in Live \union {"opened"} => handle[fp[t]] \in Handles /\ os[handle[fp[t]]] = t
      /\ pc[t] \in {"closed", "unlock"} => handle[fp[t]] \in Handles
      /\ pc[t] \in {"lock", "locked"} => ~dirty[fp[t]]
  BY <1>0 DEF Typed, Roles, Streaming, Owned
<1>2. dirty[fp[t]] => pc[t] \in Live
  BY <1>0, <1>1 DEF Streaming, OneOwner
<1>3. ~AllocFp(t)
  BY DEF AllocFp
<1>f. CASE FreeFp(t)
  <2>1. pc[t] = "free" /\ pc' = [pc EXCEPT ![t] = "out"] /\ UNCHANGED <<file, world>>
    BY <1>f DEF FreeFp, GoTo
  <2>2. dirty' = dirty /\ pc'[t] = "out"
    BY <1>0, <2>1 DEF file, Typed
  <2> QED
    BY <1>2, <1>3, <1>f, <2>1, <2>2 DEF Live, Flushing
<1> DEFINE Goal == /\ fp' = fp
                   /\ dirty'[fp[t]] => pc'[t] \in Live
                   /\ pc'[t] \in Live => opened'[fp[t]]
                   /\ pc'[t] \in Live \union {"opened"} => handle'[fp[t]] \in Handles /\ os'[handle'[fp[t]]] = t
                   /\ pc'[t] \in {"closed", "unlock"} => handle'[fp[t]] \in Handles
                   /\ pc'[t] \in {"lock", "locked"} => ~dirty'[fp[t]]
                   /\ pc'[t] # "open"
<1>4. ASSUME pc[t] \in Live, pc'[t] \in Live \ {"lock", "locked"}, UNCHANGED <<fp, opened, handle, os>> PROVE Goal
  BY <1>1, <1>4 DEF Live, Flushing
<1>5. ASSUME pc[t] \in Live, pc'[t] \in {"lock", "locked"}, UNCHANGED <<fp, opened, dirty, handle, os>>, ~dirty[fp[t]] PROVE Goal
  BY <1>1, <1>5 DEF Live
<1>6. CASE Close(t)
  <2>1. pc[t] = "out" /\ pc' = [pc EXCEPT ![t] = "close"] /\ UNCHANGED <<file, world, mine>>
    BY <1>0, <1>6, CloseIs
  <2>2. pc'[t] = "close" /\ UNCHANGED <<fp, opened, handle, os>>
    BY <1>0, <2>1 DEF Typed, file, world, mine
  <2>3. Goal
    BY <1>4, <2>1, <2>2 DEF Live
  <2> QED
    BY <1>3, <1>6, <2>1, <2>3 DEF FreeFp
<1>7. CASE OpenHandle(t)
  <2>1. /\ pc[t] = "open" /\ FreeHandle(t) \in Handles /\ os' = [os EXCEPT ![FreeHandle(t)] = t]
        /\ handle' = [handle EXCEPT ![fp[t]] = FreeHandle(t)]
        /\ pc' = [pc EXCEPT ![t] = "opened"] /\ UNCHANGED <<dirty, mine>>
    BY <1>0, <1>7, OpenHandleIs
  <2>2. /\ pc'[t] = "opened" /\ handle'[fp[t]] = FreeHandle(t) /\ os'[FreeHandle(t)] = t /\ fp' = fp
        /\ ~dirty'[fp[t]]
    BY <1>0, <1>1, <1>2, <2>1 DEF Typed, mine, Live, Flushing
  <2>3. Goal
    BY <2>1, <2>2 DEF Live, Flushing
  <2> QED
    BY <1>3, <1>7, <2>1, <2>3 DEF FreeFp
<1>8. CASE OpenFails(t)
  <2>1. pc[t] = "open" /\ pc'[t] = "free" /\ fp' = fp /\ dirty' = dirty
    BY <1>0, <1>8 DEF OpenFails, GoTo, Typed, mine
  <2>2. Goal
    BY <1>2, <2>1 DEF Live, Flushing
  <2> QED
    BY <1>3, <2>1, <2>2 DEF FreeFp
<1>9. CASE SetFlags(t)
  <2>1. /\ pc[t] = "opened" /\ pc'[t] = "out" /\ fp' = fp /\ dirty' = dirty /\ opened'[fp[t]]
        /\ UNCHANGED <<handle, os>>
    BY <1>0, <1>1, <1>9 DEF SetFlags, GoTo, Typed, mine, world
  <2>2. Goal
    BY <1>1, <1>2, <2>1 DEF Live, Flushing
  <2> QED
    BY <1>3, <2>1, <2>2 DEF FreeFp
<1>10. CASE Flush(t) \/ WriteOut(t) \/ Put(t) \/ PutChar(t)
  <2>1. /\ pc[t] \in {"flush", "flushing", "out", "put"} /\ pc'[t] \in {"flushing", "flushed", "put", "flush", "putend"}
        /\ UNCHANGED <<fp, opened, handle, os>>
    BY <1>0, <1>10 DEF Flush, WriteOut, Put, PutChar, GoTo, Typed, mine, world, file
  <2>2. Goal
    BY <1>4, <2>1 DEF Live, Flushing
  <2> QED
    BY <1>3, <2>1, <2>2 DEF FreeFp
<1>11. CASE Flushed(t)
  <2>1. pc[t] = "flushed" /\ pc' = [pc EXCEPT ![t] = then[t]] /\ UNCHANGED <<opened, dirty, handle, world, mine>>
    BY <1>0, <1>11, ReleaseIs DEF Flushed
  <2>2. pc'[t] = then[t] /\ then[t] \in {"putend", "lock"}
    BY <1>0, <2>1 DEF Typed, Roles, Flushing
  <2>3. ~dirty[fp[t]]
    <3>1. Delivered(fp[t], t)
      BY <1>0, <1>1, <2>1, Parts, Numbers DEF Data, Pair, Live, Flushing
    <3>2. Writing(fp[t])
      BY <1>0, <2>1 DEF Writing
    <3> QED
      BY <3>1, <3>2 DEF Delivered
  <2>4. Goal
    BY <1>4, <1>5, <2>1, <2>2, <2>3 DEF Live, Flushing, world, mine
  <2> QED
    BY <1>3, <2>1, <2>4 DEF FreeFp
<1>12. CASE PutEnd(t) \/ Unlock(t)
  <2>1. /\ pc[t] \in {"putend", "unlock"}
        /\ pc' = [pc EXCEPT ![t] = IF pc[t] = "flushed" THEN then[t] ELSE IF pc[t] = "putend" THEN "out" ELSE "free"]
        /\ UNCHANGED <<opened, dirty, handle, world, mine>>
    BY <1>0, <1>12, ReleaseIs DEF PutEnd, Unlock
  <2>2. pc'[t] = IF pc[t] = "putend" THEN "out" ELSE "free"
    BY <1>0, <2>1 DEF Typed
  <2>3. Goal
    <3>1. CASE pc[t] = "putend"
      BY <1>4, <2>1, <2>2, <3>1 DEF Live, Flushing, world, mine
    <3>2. CASE pc[t] = "unlock"
      BY <1>2, <2>1, <2>2, <3>2 DEF Live, Flushing, mine
    <3> QED
      BY <2>1, <3>1, <3>2
  <2> QED
    BY <1>3, <2>1, <2>3 DEF FreeFp
<1>13. CASE DoClose(t)
  <2>1. /\ pc[t] = "close" /\ UNCHANGED <<fp, opened, dirty, handle, os>>
        /\ pc'[t] = IF ~opened[fp[t]] THEN "free" ELSE IF dirty[fp[t]] THEN "flush" ELSE "lock"
    BY <1>0, <1>13 DEF DoClose, GoTo, Typed, file, world
  <2>2. Goal
    BY <1>1, <1>4, <1>5, <2>1 DEF Live, Flushing
  <2> QED
    BY <1>3, <2>1, <2>2 DEF FreeFp
<1>14. CASE LockToClose(t)
  <2>1. /\ pc[t] = "lock" /\ UNCHANGED <<fp, opened, dirty, handle, os>> /\ pc'[t] = "locked"
    BY <1>0, <1>14 DEF LockToClose, GoTo, Typed, file, world, mine
  <2>2. Goal
    BY <1>1, <1>5, <2>1 DEF Live
  <2> QED
    BY <1>3, <2>1, <2>2 DEF FreeFp
<1>15. CASE CloseHandle(t)
  <2>1. /\ pc[t] = "locked" /\ UNCHANGED <<fp, opened, dirty, handle>> /\ pc'[t] = "closed"
    BY <1>0, <1>15 DEF CloseHandle, GoTo, Typed, file, mine
  <2>2. Goal
    BY <1>1, <2>1 DEF Live, Flushing
  <2> QED
    BY <1>3, <2>1, <2>2 DEF FreeFp
<1>16. CASE ClearFlags(t)
  <2>1. /\ pc[t] = "closed" /\ UNCHANGED <<fp, handle>> /\ pc'[t] = "unlock" /\ ~dirty'[fp[t]]
    BY <1>0, <1>1, <1>16 DEF ClearFlags, GoTo, Typed, mine
  <2>2. Goal
    BY <1>1, <2>1 DEF Live, Flushing
  <2> QED
    BY <1>3, <2>1, <2>2 DEF FreeFp
<1>17. ~FlushNext(t) /\ ~FlushAllEnd(t) /\ ~FlushAll(t)
  BY <1>0, Parts DEF FlushNext, FlushAllEnd, FlushAll, Roles, OpenerAt, Live, Flushing
<1> QED
  BY <1>3, <1>f, <1>6, <1>7, <1>8, <1>9, <1>10, <1>11, <1>12, <1>13, <1>14, <1>15, <1>16, <1>17 DEF Step, Run

LEMMA StreamingNext ==
  ASSUME Inv, OneOwner, OneOwner', NEW t \in Threads, Step(t)
  PROVE  Streaming'
<1>0. Typed /\ Roles /\ Streaming /\ Lists /\ Others(t)
  BY OthersKept DEF Inv
<1>1. opened'[Stdout] /\ handle'[Stdout] = 0 /\ os'[0] = "console" /\ fp'[t] \in Files \union {0}
  <2>1. AllocFp(t) => FreeFile # Stdout
    BY AllocNew
  <2>2. t \in Openers => fp[t] # Stdout
    BY <1>0 DEF Roles
  <2>3. opened'[Stdout] = opened[Stdout] /\ handle'[Stdout] = handle[Stdout]
    BY <2>1, <2>2, FileKept, Numbers
  <2>4. os'[0] = os[0]
    <3>1. os[0] = "console" /\ "console" # None /\ 0 \in Handles
      BY <1>0, Numbers, StreamsNames DEF Streaming
    <3>2. CASE t = "console"
      <4>1. CASE OpenHandle(t) \/ CloseHandle(t)
        BY <1>0, <3>2, <4>1, OpenerOnly, Parts DEF OpenHandle, CloseHandle
      <4>2. CASE ~OpenHandle(t) /\ ~CloseHandle(t)
        BY <4>2 DEF Step, Run, Close, DoClose, FlushNext, Put, Flush, LockToClose, PutEnd, Unlock, WriteOut, PutChar,
         FlushAll, FlushAllEnd, Flushed, FreeFp, AllocFp, OpenFails, SetFlags, ClearFlags, world
      <4> QED
        BY <4>1, <4>2
    <3>3. CASE t # "console"
      BY <3>1, <3>3, HandlesKept
    <3> QED
      BY <3>2, <3>3
  <2>5. fp'[t] \in Files \union {0}
    BY MineTyped
  <2> QED
    BY <1>0, <2>3, <2>4, <2>5 DEF Streaming
<1>2. ASSUME NEW u \in Openers, u # t, fp[u] # 0
      PROVE  /\ pc'[u] = pc[u] /\ fp'[u] = fp[u] /\ fp[u] \in Files
             /\ opened'[fp[u]] = opened[fp[u]] /\ handle'[fp[u]] = handle[fp[u]]
             /\ dirty'[fp[u]] => dirty[fp[u]]
  <2>1. pc'[u] = pc[u] /\ fp'[u] = fp[u] /\ fp[u] \in Files
    BY <1>0, <1>2, Parts DEF Others, Typed
  <2>2. AllocFp(t) => fp[u] # FreeFile
    BY AllocNew
  <2>3. t \in Openers => fp[u] # fp[t]
    BY <1>2 DEF OneOwner
  <2>4. fp[u] # Stdout
    BY <1>0 DEF Roles
  <2> QED
    BY <2>1, <2>2, <2>3, <2>4, FileKept
<1>3. ASSUME NEW u \in Openers, u # t, fp[u] # 0
      PROVE  /\ pc'[u] \in Live => opened'[fp[u]]
             /\ pc'[u] \in Live \union {"opened"} => handle'[fp[u]] \in Handles /\ os'[handle'[fp[u]]] = u
             /\ pc'[u] \in {"closed", "unlock"} => handle'[fp[u]] \in Handles
             /\ pc'[u] \in {"lock", "locked"} => ~dirty'[fp[u]]
  <2>1. \A h \in Handles : os[h] = u => os'[h] = u
    BY <1>3, HandlesKept, Parts
  <2> QED
    BY <1>0, <1>2, <1>3, <2>1 DEF Streaming, Owned
<1>4. ASSUME t \in Openers, fp[t] = 0, fp'[t] # 0
      PROVE  AllocFp(t) /\ pc'[t] = "open" /\ fp'[t] = FreeFile /\ ~dirty'[FreeFile] /\ FreeFile \in Files
  <2>1. pc[t] = "out"
    BY <1>0, <1>4 DEF Roles
  <2>2. AllocFp(t)
    <3>1. CASE Close(t) \/ Put(t) \/ FlushAll(t)
      BY <1>4, <3>1, Parts DEF Close, Put, FlushAll
    <3>2. ~Run(t)
      BY <2>1 DEF Run, OpenHandle, OpenFails, SetFlags, Flush, WriteOut, Flushed, PutChar, PutEnd, DoClose,
         LockToClose, CloseHandle, ClearFlags, Unlock, FreeFp, FlushNext, FlushAllEnd
    <3> QED
      BY <3>1, <3>2 DEF Step
  <2>3. /\ pc' = [pc EXCEPT ![t] = "open"] /\ fp' = [fp EXCEPT ![t] = FreeFile]
        /\ dirty' = [dirty EXCEPT ![FreeFile] = FALSE] /\ FreeFile \in Files
    BY <1>0, <2>2, AllocFpIs
  <2> QED
    BY <1>0, <2>2, <2>3 DEF Typed
<1>5. ASSUME t \in Openers, fp'[t] # 0
      PROVE  /\ pc'[t] \in Live => opened'[fp'[t]]
             /\ pc'[t] \in Live \union {"opened"} => handle'[fp'[t]] \in Handles /\ os'[handle'[fp'[t]]] = t
             /\ pc'[t] \in {"closed", "unlock"} => handle'[fp'[t]] \in Handles
             /\ pc'[t] \in {"lock", "locked"} => ~dirty'[fp'[t]]
  <2>1. CASE fp[t] = 0
    BY <1>4, <1>5, <2>1 DEF Live, Flushing
  <2>2. CASE fp[t] # 0
    <3>1. ~FreeFp(t)
      BY <1>0, <1>5, FreeFpIs DEF Typed
    <3>2. fp' = fp
      BY <1>5, <2>2, <3>1, OwnStep
    <3> QED
      BY <1>5, <2>2, <3>1, <3>2, OwnStep
  <2> QED
    BY <2>1, <2>2
<1>6. ASSUME NEW f \in Files, dirty'[f], f # Stdout
      PROVE  \E u \in Openers : fp'[u] = f /\ pc'[u] \in Live
  <2>1. CASE t \in Openers /\ f = fp[t]
    <3>1. fp[t] # 0
      BY <2>1, Numbers
    <3>2. pc'[t] \in Live /\ fp' = fp
      BY <1>6, <2>1, <3>1, OwnStep
    <3> QED
      BY <2>1, <3>2
  <2>2. CASE ~(t \in Openers /\ f = fp[t])
    <3>1. ~(AllocFp(t) /\ f = FreeFile)
      <4>1. AllocFp(t) => dirty' = [dirty EXCEPT ![FreeFile] = FALSE]
        BY <1>0, AllocFpIs
      <4> QED
        BY <1>0, <1>6, <4>1 DEF Typed
    <3>2. dirty[f]
      BY <1>6, <2>2, <3>1, FileKept
    <3>3. PICK u \in Openers : fp[u] = f /\ pc[u] \in Live
      BY <1>0, <1>6, <3>2 DEF Streaming
    <3>4. u # t
      BY <2>2, <3>3
    <3> QED
      BY <1>0, <3>3, <3>4, Parts DEF Others
  <2> QED
    BY <2>1, <2>2
<1>7. ASSUME NEW u \in Openers, Owned(u)'
      PROVE  /\ pc'[u] \in Live => opened'[fp'[u]]
             /\ pc'[u] \in Live \union {"opened"} => handle'[fp'[u]] \in Handles /\ os'[handle'[fp'[u]]] = u
             /\ pc'[u] \in {"closed", "unlock"} => handle'[fp'[u]] \in Handles
             /\ pc'[u] \in {"lock", "locked"} => ~dirty'[fp'[u]]
  <2>1. fp'[u] # 0
    BY <1>7 DEF Owned
  <2>2. CASE u = t
    BY <1>5, <2>1, <2>2
  <2>3. CASE u # t
    <3>1. fp'[u] = fp[u]
      BY <1>0, <2>3, Parts DEF Others
    <3> QED
      BY <1>3, <2>1, <2>3, <3>1
  <2> QED
    BY <2>2, <2>3
<1> QED
  BY <1>1, <1>6, <1>7 DEF Streaming

LEMMA FreshNext ==
  ASSUME Inv, OneOwner, OneOwner', NEW t \in Threads, Step(t)
  PROVE  Fresh'
<1>0. Typed /\ Roles /\ Streaming /\ Lists /\ Fresh /\ Others(t)
  BY OthersKept DEF Inv
<1> SUFFICES ASSUME NEW v \in Openers, NEW u \in Flushers,
                    pc'[v] \in {"open", "opened"}, pc'[u] \in Flushing, fp'[u] = fp'[v]
             PROVE  FALSE
  BY DEF Fresh
<1>1. CASE t = v
  <2>1. pc'[u] = pc[u] /\ fp'[u] = fp[u]
    BY <1>0, <1>1, Parts DEF Others
  <2>2. CASE fp[t] = 0
    <3>1. pc[t] = "out"
      BY <1>0, <1>1, <2>2 DEF Roles
    <3>2. AllocFp(t)
      <4>1. CASE Close(t) \/ Put(t) \/ FlushAll(t)
        BY <1>1, <2>2, <4>1, Parts DEF Close, Put, FlushAll
      <4>2. ~Run(t)
        BY <3>1 DEF Run, OpenHandle, OpenFails, SetFlags, Flush, WriteOut, Flushed, PutChar, PutEnd, DoClose,
           LockToClose, CloseHandle, ClearFlags, Unlock, FreeFp, FlushNext, FlushAllEnd
      <4> QED
        BY <4>1, <4>2 DEF Step
    <3>3. pc[u] = "out"
      BY <3>2, AllocNew
    <3> QED
      BY <2>1, <3>3 DEF Flushing
  <2>3. CASE fp[t] # 0
    <3>1. pc'[t] # "open" /\ ~FreeFp(t) /\ fp' = fp
      BY <1>1, <2>3, OwnStep
    <3>2. pc[t] = "open"
      <4>1. pc'[t] = "opened"
        BY <1>1, <3>1
      <4>2. OpenHandle(t)
        <5>1. CASE Close(t)
          BY <1>0, <4>1, <5>1, CloseIs DEF Typed
        <5>2. CASE Flushed(t) \/ PutEnd(t) \/ Unlock(t)
          <6>1. then[t] # "opened"
            BY <1>0 DEF Typed
          <6> QED
            BY <1>0, <4>1, <5>2, <6>1, ReleaseIs DEF Typed
        <5>3. CASE \/ OpenFails(t) \/ SetFlags(t) \/ Flush(t) \/ WriteOut(t) \/ PutChar(t) \/ DoClose(t)
                   \/ LockToClose(t) \/ CloseHandle(t) \/ ClearFlags(t) \/ FlushNext(t) \/ FlushAllEnd(t)
                   \/ Put(t) \/ FlushAll(t) \/ AllocFp(t)
          BY <1>0, <4>1, <5>3 DEF OpenFails, SetFlags, Flush, WriteOut, PutChar, DoClose, LockToClose, CloseHandle,
                ClearFlags, FlushNext, FlushAllEnd, Put, FlushAll, AllocFp, GoTo, Typed
        <5> QED
          BY <3>1, <5>1, <5>2, <5>3 DEF Step, Run
      <4> QED
        BY <4>2 DEF OpenHandle
    <3> QED
      BY <1>0, <1>1, <2>1, <3>1, <3>2 DEF Fresh
  <2> QED
    BY <2>2, <2>3
<1>2. CASE t # v /\ t # u
  BY <1>0, <1>2, Parts DEF Others, Fresh
<1>3. CASE t = u
  <2>1. pc'[v] = pc[v] /\ fp'[v] = fp[v] /\ u # v
    BY <1>0, <1>3, Parts DEF Others
  <2>2. CASE pc[u] \in Flushing /\ fp'[u] = fp[u]
    BY <1>0, <2>1, <2>2 DEF Fresh
  <2>3. CASE FlushNext(t)
    <3>1. rest[t] \in Seq(Files) /\ rest[t] # <<>>
      BY <1>0, <2>3 DEF FlushNext, Typed
    <3>2. Head(rest[t]) \in Files
      BY <3>1, TailIs
    <3>3. dirty[Head(rest[t])] /\ fp' = [fp EXCEPT ![t] = Head(rest[t])]
      <4>1. pc[t] = "walk"
        BY <2>3 DEF FlushNext
      <4>2. pc' # pc
        BY <1>3, <4>1 DEF Flushing
      <4> QED
        BY <2>3, <4>2 DEF FlushNext
    <3>4. fp'[t] = Head(rest[t])
      BY <1>0, <3>3 DEF Typed
    <3>5. dirty[fp[v]] /\ fp[v] \in Files /\ fp[v] # Stdout
      BY <1>0, <1>3, <2>1, <3>2, <3>3, <3>4 DEF Roles
    <3>6. PICK w \in Openers : fp[w] = fp[v] /\ pc[w] \in Live
      BY <1>0, <3>5 DEF Streaming
    <3>7. w = v
      BY <3>5, <3>6, Numbers DEF OneOwner
    <3> QED
      BY <2>1, <3>6, <3>7 DEF Live, Flushing
  <2>4. FlushNext(t) \/ (pc[u] \in Flushing /\ fp'[u] = fp[u])
    <3>1. CASE Flush(t) \/ WriteOut(t)
      BY <1>3, <3>1 DEF Flush, WriteOut, mine, Flushing
    <3>2. CASE Flushed(t)
      <4>1. pc[t] = "flushed" /\ UNCHANGED mine
        BY <3>2, ReleaseIs DEF Flushed
      <4> QED
        BY <1>3, <4>1 DEF Flushing, mine
    <3>3. CASE FlushAll(t) \/ FlushAllEnd(t)
      BY <1>0, <1>3, <3>3 DEF FlushAll, FlushAllEnd, GoTo, Typed, Flushing
    <3>4. ~(\/ OpenHandle(t) \/ OpenFails(t) \/ SetFlags(t) \/ PutChar(t) \/ PutEnd(t) \/ DoClose(t)
            \/ LockToClose(t) \/ CloseHandle(t) \/ ClearFlags(t) \/ Unlock(t) \/ FreeFp(t) \/ AllocFp(t) \/ Close(t))
      BY <1>0, <1>3, Parts DEF OpenHandle, OpenFails, SetFlags, PutChar, PutEnd, DoClose, LockToClose, CloseHandle,
            ClearFlags, Unlock, FreeFp, AllocFp, Close, Roles, FlusherAt, Flushing
    <3>5. ~Put(t)
      BY <1>0, <1>3, Parts DEF Put, Roles
    <3> QED
      BY <3>1, <3>2, <3>3, <3>4, <3>5 DEF Step, Run
  <2> QED
    BY <2>2, <2>3, <2>4
<1> QED
  BY <1>1, <1>2, <1>3

-----------------------------------------------------------------------------
(* Each part of the invariant is kept: what was put *)

\* One thread at a time deals with the buffer of a stream.
LEMMA FlushesAlone ==
  ASSUME Inv, NEW t \in Threads, Took(t) > 0, pc[t] # "flushed"
  PROVE  ~Writing(fp[t])
<1> SUFFICES ASSUME NEW u \in Threads, pc[u] = "flushed", fp[u] = fp[t] PROVE FALSE
  BY DEF Writing
<1>1. Took(u) > 0
  BY DEF Took
<1> QED
  BY <1>1, HadOnce DEF Inv

LEMMA WritingKept ==
  ASSUME Inv, NEW t \in Threads, Step(t), ~WriteOut(t), ~Flushed(t)
  PROVE  \A f \in Files : Writing(f)' <=> Writing(f)
<1>0. Typed /\ Roles /\ Streaming /\ Lists /\ Others(t)
  BY OthersKept DEF Inv
<1>1. pc[t] # "flushed"
  BY <1>0 DEF Step, Run, OpenHandle, OpenFails, SetFlags, Flush, PutChar, PutEnd, DoClose, LockToClose, CloseHandle,
         ClearFlags, Unlock, FreeFp, FlushNext, FlushAllEnd, AllocFp, Put, Close, FlushAll
<1>2. pc'[t] # "flushed"
  <2>1. CASE AllocFp(t) \/ Close(t) \/ OpenHandle(t) \/ FreeFp(t)
    <3>1. \E l \in {"open", "close", "opened", "out"} : pc' = [pc EXCEPT ![t] = l]
      BY <1>0, <2>1, AllocFpIs, CloseIs, OpenHandleIs, FreeFpIs
    <3> QED
      BY <1>0, <3>1 DEF Typed
  <2>2. CASE PutEnd(t) \/ Unlock(t)
    BY <1>0, <1>1, <2>2, ReleaseIs DEF Typed
  <2>3. CASE \/ OpenFails(t) \/ SetFlags(t) \/ Flush(t) \/ PutChar(t) \/ DoClose(t) \/ LockToClose(t)
             \/ CloseHandle(t) \/ ClearFlags(t) \/ FlushNext(t) \/ FlushAllEnd(t) \/ Put(t) \/ FlushAll(t)
    BY <1>0, <1>1, <2>3 DEF OpenFails, SetFlags, Flush, PutChar, DoClose, LockToClose, CloseHandle,
                ClearFlags, FlushNext, FlushAllEnd, Put, FlushAll, GoTo, Typed
  <2> QED
    BY <2>1, <2>2, <2>3 DEF Step, Run
<1> QED
  BY <1>0, <1>1, <1>2 DEF Writing, Others

\* A pair of the next state was one before, except for the stream of a fopen.
LEMMA PairBefore ==
  ASSUME Inv, OneOwner, OneOwner', NEW t \in Threads, Step(t), NEW f \in Files, NEW d \in Disk, Pair(f, d)'
  PROVE  Pair(f, d) \/ (SetFlags(t) /\ d = t /\ f = fp[t])
<1>0. Typed /\ Roles /\ Streaming /\ Lists /\ Others(t)
  BY OthersKept DEF Inv
<1>1. CASE d = t /\ d \in Openers /\ f # Stdout
  <2>1. fp'[t] = f /\ f # 0 /\ pc'[t] \in Live
    BY <1>1, Parts, Numbers DEF Pair
  <2>2. fp[t] # 0
    <3> SUFFICES ASSUME fp[t] = 0 PROVE FALSE
      OBVIOUS
    <3>1. pc[t] = "out"
      BY <1>0, <1>1 DEF Roles
    <3>2. ~Run(t)
      BY <3>1 DEF Run, OpenHandle, OpenFails, SetFlags, Flush, WriteOut, Flushed, PutChar, PutEnd, DoClose,
         LockToClose, CloseHandle, ClearFlags, Unlock, FreeFp, FlushNext, FlushAllEnd
    <3>3. AllocFp(t)
      BY <1>1, <3>2, Parts DEF Step, Close, Put, FlushAll
    <3>4. pc' = [pc EXCEPT ![t] = "open"]
      BY <1>0, <3>3, AllocFpIs
    <3>5. pc'[t] = "open"
      BY <1>0, <3>4 DEF Typed
    <3> QED
      BY <2>1, <3>5 DEF Live, Flushing
  <2>3. ~FreeFp(t)
    BY <1>0, <2>1, FreeFpIs DEF Typed
  <2>4. fp[t] = f
    BY <1>1, <2>1, <2>2, <2>3, OwnStep
  <2>5. pc[t] \in Live \/ SetFlags(t)
    <3> SUFFICES ASSUME pc[t] \notin Live PROVE SetFlags(t)
      OBVIOUS
    <3>1. pc[t] \in {"open", "opened", "closed", "unlock", "free"}
      BY <1>0, <1>1 DEF Roles, OpenerAt
    <3>2. CASE OpenHandle(t) \/ OpenFails(t) \/ ClearFlags(t)
      <4>1. \E l \in {"opened", "free", "unlock"} : pc' = [pc EXCEPT ![t] = l]
        BY <1>0, <3>2, OpenHandleIs DEF OpenFails, ClearFlags, GoTo
      <4> QED
        BY <1>0, <2>1, <4>1 DEF Typed, Live, Flushing
    <3>3. CASE Unlock(t)
      <4>1. pc' = [pc EXCEPT ![t] = IF pc[t] = "flushed" THEN then[t] ELSE IF pc[t] = "putend" THEN "out" ELSE "free"]
        BY <3>3, ReleaseIs
      <4> QED
        BY <1>0, <2>1, <3>1, <4>1 DEF Typed, Live, Flushing
    <3>4. OpenHandle(t) \/ OpenFails(t) \/ ClearFlags(t) \/ Unlock(t) \/ SetFlags(t)
      BY <2>3, <3>1 DEF Step, Run, Flush, WriteOut, Flushed, PutChar, PutEnd, DoClose, AllocFp, Put, Close,
         LockToClose, CloseHandle, FlushNext, FlushAllEnd, FlushAll
    <3> QED
      BY <3>2, <3>3, <3>4
  <2> QED
    BY <1>1, <2>1, <2>4, <2>5 DEF Pair
<1>2. CASE f = Stdout
  <2>1. d \in Openers => fp'[d] # Stdout
    BY RolesNext DEF Roles
  <2> QED
    BY <1>2, <2>1 DEF Pair
<1>3. CASE d # t \/ d \notin Openers
  BY <1>0, <1>3, Parts DEF Pair, Others
<1> QED
  BY <1>1, <1>2, <1>3

LEMMA PairOwn ==
  ASSUME Inv, OneOwner, NEW f \in Files, NEW d \in Disk, Pair(f, d)
  PROVE  /\ \A t \in Openers : f = fp[t] => d = t /\ pc[t] \in Live
         /\ \A t \in Writers : f = fp[t] => d = "console"
<1>0. Typed /\ Roles
  BY DEF Inv
<1>1. ASSUME NEW t \in Openers, f = fp[t] PROVE d = t /\ pc[t] \in Live
  BY <1>0, <1>1, Numbers DEF Pair, Roles, OneOwner
<1>2. ASSUME NEW t \in Writers, f = fp[t] PROVE d = "console"
  BY <1>0, <1>2 DEF Pair, Roles
<1> QED
  BY <1>1, <1>2

\* Where a flush writes to.
LEMMA Target ==
  ASSUME Inv, OneOwner, NEW g \in Files, dirty[g]
  PROVE  /\ Pair(g, os[handle[g]]) /\ os[handle[g]] \in Disk /\ opened[g]
         /\ \A f \in Files, d \in Disk : Pair(f, d) => (f = g <=> d = os[handle[g]])
<1>0. Typed /\ Roles
  BY DEF Inv
<1>1. Pair(g, os[handle[g]]) /\ os[handle[g]] \in Disk /\ opened[g]
  <2>1. /\ opened[g]
        /\ \/ g = Stdout /\ os[handle[g]] = "console"
           \/ \E u \in Openers : fp[u] = g /\ Owned(u) /\ pc[u] \in Live /\ os[handle[g]] = u
    BY DirtyIs
  <2> QED
    BY <2>1, Parts, Numbers DEF Pair
<1>2. ASSUME NEW f \in Files, NEW d \in Disk, Pair(f, d) PROVE f = g <=> d = os[handle[g]]
  BY <1>0, <1>1, <1>2, Parts, Numbers DEF Pair, Roles, OneOwner
<1> QED
  BY <1>1, <1>2

LEMMA ConcatEmpty ==
  ASSUME NEW S, NEW v \in Seq(S)
  PROVE  v \o <<>> = v
OBVIOUS

LEMMA DeliveredKept ==
  ASSUME NEW f \in Files, NEW d \in Disk, Delivered(f, d), Writing(f)' <=> Writing(f),
         put'[d] = put[d], disk'[d] = disk[d], dirty'[f] = dirty[f], buf'[f] = buf[f]
  PROVE  Delivered(f, d)'
BY DEF Delivered

LEMMA DataNext ==
  ASSUME Inv, OneOwner, OneOwner', NEW t \in Threads, Step(t)
  PROVE  Data'
<1>0. Typed /\ Roles /\ Streaming /\ Lists /\ Data /\ Others(t)
  BY OthersKept DEF Inv
<1> DEFINE Now(f, d) == Pair(f, d) /\ Delivered(f, d)
           Goal == \A f \in Files, d \in Disk : Pair(f, d)' => Delivered(f, d)'
           Rest == \A u \in Openers : ~(Owned(u) /\ pc[u] \in Live)' => put'[u] = disk'[u]
<1>1. ASSUME NEW f \in Files, NEW d \in Disk, Pair(f, d)', ~SetFlags(t)
      PROVE  Pair(f, d) /\ Delivered(f, d)
  BY <1>0, <1>1, PairBefore DEF Data
<1>2. ~WriteOut(t) /\ ~Flushed(t) => \A f \in Files : Writing(f)' <=> Writing(f)
  BY WritingKept
<1>3. ASSUME NEW u \in Openers, u # t, ~(Owned(u) /\ pc[u] \in Live)' PROVE put[u] = disk[u] /\ ~Pair(fp[u], u)
  BY <1>0, <1>3, Parts DEF Data, Others, Owned, Pair, Roles
\* Steps that neither put nor write, and touch no buffer in use.
<1>4. ASSUME UNCHANGED <<put, disk, buf, dirty>>, ~WriteOut(t), ~Flushed(t), ~SetFlags(t) PROVE Goal
  BY <1>1, <1>2, <1>4, DeliveredKept
<1>5. ASSUME UNCHANGED <<put, disk>>, t \in Openers => ((Owned(t) /\ pc[t] \in Live)' \/ put[t] = disk[t]) PROVE Rest
  BY <1>3, <1>5
<1>6. ASSUME t \in Openers, fp[t] = 0 \/ pc[t] \notin Live PROVE put[t] = disk[t]
  BY <1>0, <1>6 DEF Data, Owned
<1>7. CASE AllocFp(t)
  <2>1. /\ t \in Openers /\ fp[t] = 0
        /\ dirty' = [dirty EXCEPT ![FreeFile] = FALSE] /\ buf' = [buf EXCEPT ![FreeFile] = <<>>]
        /\ UNCHANGED world
    BY <1>0, <1>7, AllocFpIs
  <2>2. ~WriteOut(t) /\ ~Flushed(t) /\ ~SetFlags(t)
    BY <1>7 DEF AllocFp, WriteOut, Flushed, SetFlags
  <2>3. Goal
    <3> SUFFICES ASSUME NEW f \in Files, NEW d \in Disk, Pair(f, d)' PROVE Delivered(f, d)'
      OBVIOUS
    <3>1. Pair(f, d) /\ Delivered(f, d)
      BY <1>1, <2>2
    <3>2. f # FreeFile
      BY <1>7, <3>1, AllocNew DEF Pair
    <3> QED
      BY <1>0, <1>2, <2>1, <2>2, <3>1, <3>2, DeliveredKept DEF Typed, world
  <2>4. Rest
    BY <1>5, <1>6, <2>1 DEF world
  <2> QED
    BY <2>3, <2>4 DEF Data
<1>8. CASE OpenHandle(t)
  <2>1. /\ t \in Openers /\ pc[t] = "open"
        /\ disk' = [disk EXCEPT ![t] = <<>>] /\ put' = [put EXCEPT ![t] = <<>>]
        /\ UNCHANGED <<dirty, buf>>
    BY <1>0, <1>8, OpenHandleIs
  <2>2. ~WriteOut(t) /\ ~Flushed(t) /\ ~SetFlags(t)
    BY <2>1 DEF WriteOut, Flushed, SetFlags
  <2>3. Goal
    <3> SUFFICES ASSUME NEW f \in Files, NEW d \in Disk, Pair(f, d)' PROVE Delivered(f, d)'
      OBVIOUS
    <3>1. Pair(f, d) /\ Delivered(f, d)
      BY <1>1, <2>2
    <3>2. d # t
      BY <2>1, <3>1, Parts DEF Pair, Live, Flushing
    <3> QED
      BY <1>0, <1>2, <2>1, <2>2, <3>1, <3>2, DeliveredKept DEF Typed
  <2>4. Rest
    <3> SUFFICES ASSUME NEW u \in Openers, ~(Owned(u) /\ pc[u] \in Live)' PROVE put'[u] = disk'[u]
      OBVIOUS
    <3>1. CASE u = t
      BY <1>0, <2>1, <3>1, Parts DEF Typed
    <3>2. CASE u # t
      BY <1>0, <1>3, <2>1, <3>2, Parts DEF Typed
    <3> QED
      BY <3>1, <3>2
  <2> QED
    BY <2>3, <2>4 DEF Data
<1>9. CASE SetFlags(t)
  <2>1. /\ t \in Openers /\ pc[t] = "opened" /\ fp[t] \in Files /\ fp[t] # Stdout
        /\ buf' = [buf EXCEPT ![fp[t]] = <<>>] /\ UNCHANGED <<dirty, world>>
    BY <1>0, <1>9, OpenerOnly DEF SetFlags
  <2>2. ~WriteOut(t) /\ ~Flushed(t)
    BY <2>1 DEF WriteOut, Flushed
  <2>3. put[t] = disk[t]
    BY <1>6, <2>1 DEF Live, Flushing
  <2>4. ~dirty[fp[t]]
    <3> SUFFICES ASSUME dirty[fp[t]] PROVE FALSE
      OBVIOUS
    <3>1. PICK v \in Openers : fp[v] = fp[t] /\ pc[v] \in Live
      BY <1>0, <2>1 DEF Streaming
    <3>2. v = t
      BY <2>1, <3>1, Numbers DEF OneOwner
    <3> QED
      BY <2>1, <3>1, <3>2 DEF Live, Flushing
  <2>5. ~Writing(fp[t])
    <3> SUFFICES ASSUME NEW u \in Threads, pc[u] = "flushed", fp[u] = fp[t] PROVE FALSE
      BY DEF Writing
    <3>1. u \notin Writers
      <4>1. u \in Writers => fp[u] = Stdout
        BY <1>0 DEF Roles
      <4> QED
        BY <2>1, <4>1
    <3>2. u \notin Flushers
      BY <2>1 DEF Inv, Fresh, Flushing
    <3>3. u \notin Openers
      BY <2>1, Numbers DEF OneOwner
    <3> QED
      BY <3>1, <3>2, <3>3, Parts
  <2>6. Goal
    <3> SUFFICES ASSUME NEW f \in Files, NEW d \in Disk, Pair(f, d)' PROVE Delivered(f, d)'
      OBVIOUS
    <3>1. CASE f = fp[t]
      <4>1. d = t
        <5>1. Pair(f, d) => d = t /\ pc[t] \in Live
          BY <2>1, <3>1, PairOwn
        <5> QED
          BY <5>1, PairBefore
      <4>2. ~Writing(f)' /\ buf'[f] = <<>> /\ put'[d] = put[d] /\ disk'[d] = disk[d] /\ ~dirty'[f]
        BY <1>0, <1>2, <2>1, <2>2, <2>4, <2>5, <3>1 DEF Typed, world
      <4>3. disk[d] \o <<>> = disk[d]
        BY <1>0, ConcatEmpty DEF Typed
      <4> QED
        BY <2>3, <4>1, <4>2, <4>3 DEF Delivered
    <3>2. CASE f # fp[t]
      <4>1. Pair(f, d) /\ Delivered(f, d)
        BY <1>0, <3>2, PairBefore DEF Data
      <4> QED
        BY <1>0, <1>2, <2>1, <2>2, <3>2, <4>1, DeliveredKept DEF Typed, world
    <3> QED
      BY <3>1, <3>2
  <2>7. Rest
    BY <1>5, <2>1, <2>3 DEF world
  <2> QED
    BY <2>6, <2>7 DEF Data
<1>10. CASE ClearFlags(t)
  <2>1. /\ t \in Openers /\ pc[t] = "closed"
        /\ dirty' = [dirty EXCEPT ![fp[t]] = FALSE] /\ UNCHANGED <<buf, world>>
    BY <1>0, <1>10, OpenerOnly DEF ClearFlags
  <2>2. ~WriteOut(t) /\ ~Flushed(t) /\ ~SetFlags(t)
    BY <2>1 DEF WriteOut, Flushed, SetFlags
  <2>3. Goal
    <3> SUFFICES ASSUME NEW f \in Files, NEW d \in Disk, Pair(f, d)' PROVE Delivered(f, d)'
      OBVIOUS
    <3>1. Pair(f, d) /\ Delivered(f, d)
      BY <1>1, <2>2
    <3>2. f # fp[t]
      BY <2>1, <3>1, PairOwn DEF Live, Flushing
    <3> QED
      BY <1>0, <1>2, <2>1, <2>2, <3>1, <3>2, DeliveredKept DEF Typed, world
  <2>4. Rest
    BY <1>5, <1>6, <2>1 DEF world, Live, Flushing
  <2> QED
    BY <2>3, <2>4 DEF Data
<1>11. CASE CloseHandle(t)
  <2>1. /\ t \in Openers /\ pc[t] = "locked" /\ fp[t] \in Files /\ fp[t] # 0
        /\ UNCHANGED <<put, disk, buf, dirty>>
    BY <1>0, <1>11, OpenerOnly DEF CloseHandle, file
  <2>2. ~WriteOut(t) /\ ~Flushed(t) /\ ~SetFlags(t)
    BY <2>1 DEF WriteOut, Flushed, SetFlags
  <2>3. put[t] = disk[t]
    <3>1. Delivered(fp[t], t) /\ ~dirty[fp[t]]
      BY <1>0, <2>1, Parts DEF Data, Pair, Streaming, Owned, Live
    <3>2. disk[t] \o <<>> = disk[t]
      BY <1>0, <2>1, Parts, ConcatEmpty DEF Typed
    <3> QED
      BY <3>1, <3>2 DEF Delivered
  <2> QED
    BY <1>4, <1>5, <2>1, <2>2, <2>3 DEF Data
<1>12. CASE WriteOut(t)
  <2> DEFINE g == fp[t]
             e == os[handle[g]]
  <2>1. /\ pc[t] = "flushing" /\ pc' = [pc EXCEPT ![t] = "flushed"] /\ UNCHANGED <<buf, put, mine>>
        /\ dirty' = [dirty EXCEPT ![g] = FALSE]
        /\ disk' = IF dirty[g] /\ opened[g] /\ e # None THEN [disk EXCEPT ![e] = @ \o buf[g]] ELSE disk
    BY <1>12 DEF WriteOut, GoTo
  <2>2. g \in Files /\ Took(t) > 0
    BY <1>0, <2>1, HasHandle DEF Took
  <2>3. ~Writing(g)
    BY <2>1, <2>2, FlushesAlone
  <2>4. \A f \in Files : Writing(f)' <=> Writing(f) \/ f = g
    <3>1. pc'[t] = "flushed" /\ \A u \in Threads \ {t} : pc'[u] = pc[u]
      BY <1>0, <2>1 DEF Typed
    <3>2. fp' = fp
      BY <2>1 DEF mine
    <3> QED
      BY <2>1, <3>1, <3>2 DEF Writing
  <2>5. dirty[g] => /\ opened[g] /\ e \in Disk /\ e # None
                    /\ \A f \in Files, d \in Disk : Pair(f, d) => (f = g <=> d = e)
                    /\ Pair(g, e)
    BY <2>2, Target, Parts
  <2>6. ~SetFlags(t)
    BY <2>1 DEF SetFlags
  <2> HIDE DEF g, e
  <2>7. Goal
    <3> SUFFICES ASSUME NEW f \in Files, NEW d \in Disk, Pair(f, d)' PROVE Delivered(f, d)'
      OBVIOUS
    <3>1. Pair(f, d) /\ Delivered(f, d)
      BY <1>1, <2>6
    <3>2. CASE f = g
      <4>1. Writing(f)' /\ ~dirty'[f] /\ put'[d] = put[d]
        BY <1>0, <2>1, <2>4, <3>2 DEF Typed
      <4>2. put[d] = disk[d] \o buf[f] /\ (~dirty[f] => buf[f] = <<>>)
        BY <2>3, <3>1, <3>2 DEF Delivered
      <4>3. disk'[d] = put[d]
        <5>1. CASE dirty[f]
          BY <1>0, <2>1, <2>5, <3>1, <3>2, <4>2, <5>1 DEF Typed
        <5>2. CASE ~dirty[f]
          <6>1. disk[d] \o <<>> = disk[d]
            BY <1>0, ConcatEmpty DEF Typed
          <6> QED
            BY <2>1, <3>2, <4>2, <5>2, <6>1
        <5> QED
          BY <5>1, <5>2
      <4> QED
        BY <4>1, <4>3 DEF Delivered
    <3>3. CASE f # g
      <4>1. disk'[d] = disk[d]
        BY <1>0, <2>1, <2>5, <3>1, <3>3 DEF Typed
      <4> QED
        BY <1>0, <2>1, <2>4, <3>1, <3>3, <4>1, DeliveredKept DEF Typed
    <3> QED
      BY <3>2, <3>3
  <2>8. Rest
    <3> SUFFICES ASSUME NEW u \in Openers, ~(Owned(u) /\ pc[u] \in Live)' PROVE put'[u] = disk'[u]
      OBVIOUS
    <3>1. u # t
      <4> SUFFICES ASSUME u = t PROVE FALSE
        OBVIOUS
      <4>1. fp[t] # 0 /\ fp' = fp /\ pc'[t] = "flushed"
        BY <1>0, <2>1 DEF Roles, mine, Typed
      <4> QED
        BY <4>1 DEF Owned, Live, Flushing
    <3>2. put[u] = disk[u] /\ ~Pair(fp[u], u)
      BY <1>3, <3>1
    <3>3. dirty[g] => e # u
      <4> SUFFICES ASSUME dirty[g], e = u PROVE FALSE
        OBVIOUS
      <4>1. fp[u] = g
        BY <2>5, Parts DEF Pair
      <4> QED
        BY <2>5, <3>2, <4>1
    <3> QED
      BY <1>0, <2>1, <3>2, <3>3, Parts DEF Typed
  <2> QED
    BY <2>7, <2>8 DEF Data
<1>13. CASE Flushed(t)
  <2> DEFINE g == fp[t]
  <2>1. /\ pc[t] = "flushed" /\ pc' = [pc EXCEPT ![t] = then[t]] /\ UNCHANGED <<dirty, disk, put, mine>>
        /\ buf' = [buf EXCEPT ![g] = <<>>]
    <3>1. pc[t] = "flushed" /\ buf' = [buf EXCEPT ![g] = <<>>]
      BY <1>13 DEF Flushed
    <3>2. pc' = [pc EXCEPT ![t] = then[t]] /\ UNCHANGED <<dirty, world, mine>>
      BY <1>13, <3>1, ReleaseIs
    <3> QED
      BY <3>1, <3>2 DEF world
  <2>2. g \in Files /\ Took(t) > 0
    BY <1>0, <2>1, HasHandle DEF Took
  <2>3. \A u \in Threads : pc[u] = "flushed" /\ fp[u] = g => u = t
    <3> SUFFICES ASSUME NEW u \in Threads, pc[u] = "flushed", fp[u] = g PROVE u = t
      OBVIOUS
    <3>1. Took(u) > 0
      BY DEF Took
    <3> QED
      BY <2>2, <3>1, HadOnce DEF Inv
  <2>t. pc'[t] = then[t] /\ then[t] # "flushed" /\ fp' = fp
    BY <1>0, <2>1 DEF Typed, mine
  <2>4. \A f \in Files : Writing(f)' <=> Writing(f) /\ f # g
    <3>1. \A u \in Threads \ {t} : pc'[u] = pc[u]
      BY <1>0 DEF Others
    <3> QED
      BY <2>1, <2>3, <2>t, <3>1 DEF Writing
  <2>5. Writing(g)
    BY <2>1 DEF Writing
  <2>6. ~SetFlags(t)
    BY <2>1 DEF SetFlags
  <2> HIDE DEF g
  <2>7. Goal
    <3> SUFFICES ASSUME NEW f \in Files, NEW d \in Disk, Pair(f, d)' PROVE Delivered(f, d)'
      OBVIOUS
    <3>1. Pair(f, d) /\ Delivered(f, d)
      BY <1>1, <2>6
    <3>2. CASE f = g
      <4>1. ~Writing(f)' /\ buf'[f] = <<>> /\ put'[d] = put[d] /\ disk'[d] = disk[d]
        BY <1>0, <2>1, <2>4, <3>2 DEF Typed
      <4>2. put[d] = disk[d]
        BY <2>5, <3>1, <3>2 DEF Delivered
      <4>3. disk[d] \o <<>> = disk[d]
        BY <1>0, ConcatEmpty DEF Typed
      <4> QED
        BY <4>1, <4>2, <4>3 DEF Delivered
    <3>3. CASE f # g
      BY <1>0, <2>1, <2>4, <3>1, <3>3, DeliveredKept DEF Typed
    <3> QED
      BY <3>2, <3>3
  <2>8. t \in Openers => (Owned(t) /\ pc[t] \in Live)'
    <3> SUFFICES ASSUME t \in Openers PROVE (Owned(t) /\ pc[t] \in Live)'
      OBVIOUS
    <3>1. fp[t] # 0 /\ then[t] \in {"putend", "lock"}
      BY <1>0, <2>1 DEF Roles, Flushing
    <3> QED
      BY <2>t, <3>1 DEF Owned, Live
  <2>9. Rest
    BY <1>5, <2>1, <2>8
  <2> QED
    BY <2>7, <2>9 DEF Data
<1>14. CASE PutChar(t)
  <2> DEFINE g == fp[t]
             e == IF t \in Writers THEN "console" ELSE t
  <2>1. pc[t] = "put" /\ pc'[t] \in {"flush", "putend"} /\ UNCHANGED <<disk, fp>>
    BY <1>0, <1>14 DEF PutChar, GoTo, Typed
  <2>2. g \in Files /\ Took(t) > 0
    BY <1>0, <2>1, HasHandle DEF Took
  <2>3. t \in Writers \/ t \in Openers
    BY <1>0, <2>1, Parts DEF Roles, FlusherAt, Flushing
  <2>4. opened[g]
    BY <1>0, <2>1, <2>3 DEF Roles, Streaming, Owned, Live
  <2>5. /\ put' = [put EXCEPT ![e] = Append(@, t)]
        /\ buf' = [buf EXCEPT ![g] = Append(@, t)]
        /\ dirty' = [dirty EXCEPT ![g] = TRUE]
    BY <1>14, <2>4 DEF PutChar
  <2>6. ~Writing(g) /\ ~WriteOut(t) /\ ~Flushed(t) /\ ~SetFlags(t)
    BY <2>1, <2>2, FlushesAlone DEF WriteOut, Flushed, SetFlags
  <2>7. e \in Disk /\ (t \in Openers => e = t) /\ (t \in Writers => e = "console")
    BY <2>3, Parts
  <2>8. \A f \in Files, d \in Disk : Pair(f, d) => (f = g <=> d = e)
    <3> SUFFICES ASSUME NEW f \in Files, NEW d \in Disk, Pair(f, d) PROVE f = g <=> d = e
      OBVIOUS
    <3>1. f = g => d = e
      BY <2>3, <2>7, PairOwn
    <3>2. CASE t \in Openers
      BY <2>7, <3>1, <3>2, Parts DEF Pair
    <3>3. CASE t \in Writers
      BY <1>0, <2>7, <3>1, <3>3, Parts DEF Pair, Roles
    <3> QED
      BY <2>3, <3>2, <3>3
  <2> HIDE DEF g, e
  <2>9. Goal
    <3> SUFFICES ASSUME NEW f \in Files, NEW d \in Disk, Pair(f, d)' PROVE Delivered(f, d)'
      OBVIOUS
    <3>1. Pair(f, d) /\ Delivered(f, d) /\ (Writing(f)' <=> Writing(f))
      BY <1>1, <1>2, <2>6
    <3>2. CASE f = g
      <4>1. d = e
        BY <2>8, <3>1, <3>2
      <4>2. put[d] \in Seq(Threads) /\ disk[d] \in Seq(Threads) /\ buf[f] \in Seq(Threads)
        BY <1>0 DEF Typed
      <4>3. put'[d] = Append(put[d], t) /\ buf'[f] = Append(buf[f], t) /\ dirty'[f] /\ disk'[d] = disk[d]
        BY <1>0, <2>1, <2>5, <3>2, <4>1 DEF Typed
      <4>4. put[d] = disk[d] \o buf[f]
        BY <2>6, <3>1, <3>2 DEF Delivered
      <4>5. Append(disk[d] \o buf[f], t) = disk[d] \o Append(buf[f], t)
        <5>1. ASSUME NEW v \in Seq(Threads), NEW w \in Seq(Threads)
              PROVE  Append(v \o w, t) = v \o Append(w, t)
          OBVIOUS
        <5> QED
          BY <4>2, <5>1
      <4>6. put'[d] = disk[d] \o buf'[f]
        BY <4>3, <4>4, <4>5
      <4> QED
        BY <2>6, <3>1, <3>2, <4>3, <4>6 DEF Delivered
    <3>3. CASE f # g
      <4>1. d # e
        BY <2>8, <3>1, <3>3
      <4> QED
        BY <1>0, <2>1, <2>5, <3>1, <3>3, <4>1, DeliveredKept DEF Typed
    <3> QED
      BY <3>2, <3>3
  <2>10. Rest
    <3> SUFFICES ASSUME NEW u \in Openers, ~(Owned(u) /\ pc[u] \in Live)' PROVE put'[u] = disk'[u]
      OBVIOUS
    <3>1. u # t
      <4> SUFFICES ASSUME u = t PROVE FALSE
        OBVIOUS
      <4>1. fp[t] # 0
        BY <1>0, <2>1 DEF Roles
      <4> QED
        BY <2>1, <4>1 DEF Owned, Live, Flushing
    <3>2. put[u] = disk[u] /\ e # u
      BY <1>3, <2>3, <2>7, <3>1, Parts
    <3> QED
      BY <1>0, <2>1, <2>5, <3>2, Parts DEF Typed
  <2> QED
    BY <2>9, <2>10 DEF Data
<1>15. CASE \/ OpenFails(t) \/ Flush(t) \/ PutEnd(t) \/ DoClose(t) \/ LockToClose(t) \/ Unlock(t) \/ FreeFp(t)
            \/ FlushNext(t) \/ FlushAllEnd(t) \/ Put(t) \/ Close(t) \/ FlushAll(t)
  <2>1. UNCHANGED <<put, disk, buf, dirty>>
    BY <1>15 DEF OpenFails, Flush, PutEnd, DoClose, LockToClose, Unlock, FreeFp, FlushNext, FlushAllEnd,
                 Put, Close, FlushAll, world, file
  <2>2. ~WriteOut(t) /\ ~Flushed(t) /\ ~SetFlags(t)
    BY <1>15 DEF OpenFails, Flush, PutEnd, DoClose, LockToClose, Unlock, FreeFp, FlushNext, FlushAllEnd,
                 Put, Close, FlushAll, WriteOut, Flushed, SetFlags
  <2>3. t \in Openers => ((Owned(t) /\ pc[t] \in Live)' \/ put[t] = disk[t])
    <3> SUFFICES ASSUME t \in Openers, put[t] # disk[t] PROVE (Owned(t) /\ pc[t] \in Live)'
      OBVIOUS
    <3>1. Owned(t) /\ pc[t] \in Live
      BY <1>6 DEF Owned
    <3>2. opened[fp[t]]
      BY <1>0, <3>1 DEF Streaming
    <3>3. fp' = fp
      <4>1. ~FreeFp(t)
        BY <3>1 DEF FreeFp, Live, Flushing
      <4> QED
        BY <3>1, <4>1, OwnStep DEF Owned
    <3>4. pc'[t] \in Live
      <4>1. CASE Close(t)
        BY <1>0, <4>1, CloseIs DEF Typed, Live
      <4>2. CASE PutEnd(t)
        BY <1>0, <4>2, ReleaseIs DEF PutEnd, Typed, Live
      <4>3. CASE Flush(t) \/ DoClose(t) \/ LockToClose(t) \/ Put(t)
        BY <1>0, <3>2, <4>3 DEF Flush, DoClose, LockToClose, Put, GoTo, Typed, Live, Flushing
      <4>4. ~(OpenFails(t) \/ Unlock(t) \/ FreeFp(t) \/ FlushNext(t) \/ FlushAllEnd(t) \/ FlushAll(t))
        BY <3>1, Parts DEF OpenFails, Unlock, FreeFp, FlushNext, FlushAllEnd, FlushAll, Live, Flushing
      <4> QED
        BY <1>15, <4>1, <4>2, <4>3, <4>4
    <3> QED
      BY <3>1, <3>3, <3>4 DEF Owned
  <2> QED
    BY <1>4, <1>5, <2>1, <2>2, <2>3 DEF Data
<1> QED
  BY <1>7, <1>8, <1>9, <1>10, <1>11, <1>12, <1>13, <1>14, <1>15 DEF Step, Run

-----------------------------------------------------------------------------
(* The theorems *)

LEMMA InvInit == Init => Inv
<1> SUFFICES ASSUME Init PROVE Inv
  OBVIOUS
<1> USE DEF Init
<1>1. Typed
  <2>1. <<>> \in Seq(Threads) /\ <<>> \in Seq(Files) /\ <<Stdout>> \in Seq(Files)
    BY Numbers
  <2>2. holder \in [Locks -> Threads \union {None}] /\ depth \in [Locks -> Nat]
    BY DEF Sem!Init
  <2>3. pc \in [Threads -> OpenerAt \union FlusherAt]
    BY DEF OpenerAt, FlusherAt, Live
  <2> QED
    BY <2>1, <2>2, <2>3, Numbers, Parts DEF Typed
<1>2. Roles
  BY Parts, Numbers DEF Roles, OpenerAt, FlusherAt, WriterAt, Live, Flushing, Stdout
<1>3. \A t \in Threads : Took(t) = 0
  BY DEF Took
<1>4. Semaphores
  BY <1>3, Parts, Numbers DEF Semaphores, Has, Sem!Init
<1>5. Lists
  <2>1. Len(ostream) = 1 /\ ostream[1] = Stdout /\ Len(cstream) = 0
    OBVIOUS
  <2>2. \A t \in Openers : fp[t] = 0
    BY Parts
  <2> QED
    BY <2>1, <2>2, Numbers DEF Lists, Contains
<1>6. Streaming
  BY Parts, Numbers DEF Streaming, Owned
<1>7. Fresh
  BY Parts DEF Fresh
<1>8. Data
  <2>1. \A t \in Openers : fp[t] = 0
    BY Parts
  <2>2. \A f \in Files : ~Writing(f)
    BY DEF Writing
  <2>3. \A d \in Disk : put[d] = disk[d] \o <<>> /\ put[d] = disk[d]
    OBVIOUS
  <2> QED
    BY <2>1, <2>2, <2>3, Parts DEF Data, Pair, Delivered, Owned
<1> QED
  BY <1>1, <1>2, <1>4, <1>5, <1>6, <1>7, <1>8 DEF Inv

LEMMA InvNext == Inv /\ OneOwner /\ OneOwner' /\ [Next]_vars => Inv'
<1> SUFFICES ASSUME Inv, OneOwner, OneOwner', [Next]_vars PROVE Inv'
  OBVIOUS
<1>1. ASSUME NEW t \in Threads, Step(t) PROVE Inv'
  BY <1>1, TypedNext, RolesNext, SemaphoresNext, ListsNext, StreamingNext, FreshNext, DataNext DEF Inv
<1>2. CASE UNCHANGED vars
  <2>1. /\ UNCHANGED <<holder, depth>> /\ UNCHANGED <<ostream, cstream>>
        /\ UNCHANGED <<opened, handle, dirty, buf>> /\ UNCHANGED <<os, disk, put>>
        /\ UNCHANGED <<pc, fp, then, rest>>
    BY <1>2 DEF vars, sems, lists, file, world, mine
  <2>2. Typed'
    BY <2>1 DEF Inv, Typed
  <2>3. Roles'
    BY <2>1 DEF Inv, Roles
  <2>4. \A t \in Threads : Took(t)' = Took(t) /\ SemOf(fp[t])' = SemOf(fp[t])
    BY <2>1 DEF Took, SemOf
  <2>5. Semaphores'
    BY <2>1, <2>4 DEF Inv, Semaphores, Has
  <2>6. Lists'
    BY <2>1 DEF Inv, Lists, Contains
  <2>7. Streaming'
    BY <2>1 DEF Inv, Streaming, Owned
  <2>8. Fresh'
    BY <2>1 DEF Inv, Fresh
  <2>9. Data'
    <3>1. \A f \in Files, d \in Disk : Pair(f, d)' => Delivered(f, d)'
      <4> SUFFICES ASSUME NEW f \in Files, NEW d \in Disk, Pair(f, d)' PROVE Delivered(f, d)'
        OBVIOUS
      <4>1. Pair(f, d)
        BY <2>1 DEF Pair
      <4>2. Delivered(f, d)
        BY <4>1 DEF Inv, Data
      <4> QED
        BY <2>1, <4>2 DEF Delivered, Writing
    <3>2. \A u \in Openers : Owned(u)' <=> Owned(u)
      BY <2>1 DEF Owned
    <3>3. (\A u \in Openers : ~(Owned(u) /\ pc[u] \in Live) => put[u] = disk[u])'
      BY <2>1, <3>2 DEF Inv, Data
    <3> QED
      BY <3>1, <3>3 DEF Data
  <2> QED
    BY <2>2, <2>3, <2>5, <2>6, <2>7, <2>8, <2>9 DEF Inv
<1> QED
  BY <1>1, <1>2 DEF Next, Step

LEMMA Invariance == Spec /\ []OneOwner => []Inv
<1> QED
  BY InvInit, InvNext, PTL DEF Spec

\* What the invariant says of the properties.
LEMMA UnlockedOf == Inv => EveryLockUnlocked
<1> SUFFICES ASSUME Inv PROVE EveryLockUnlocked
  OBVIOUS
<1>1. ASSUME NEW t \in Threads, pc[t] = "out", NEW l \in Locks, holder[l] = t PROVE FALSE
  <2>1. CASE l = IOB
    BY <1>1, <2>1 DEF Inv, Semaphores
  <2>2. CASE l \in FileSemaphores
    <3>1. Has(t, l)
      BY <1>1, <2>2 DEF Inv, Semaphores
    <3> QED
      BY <1>1, <3>1, TookIs DEF Has
  <2> QED
    BY <2>1, <2>2 DEF Locks
<1>2. \A t \in Threads : pc[t] # "fatal"
  BY DEF Inv, Typed, OpenerAt, FlusherAt, Live, Flushing
<1> QED
  BY <1>1, <1>2 DEF EveryLockUnlocked

LEMMA OnceInOrderOf == Inv /\ OneOwner => EachOnceInOrder
<1> SUFFICES ASSUME Inv, OneOwner, NEW d \in Disk, put[d] # disk[d]
             PROVE  \E f \in Unwritten(d) : ~Writing(f) /\ put[d] = disk[d] \o buf[f]
  BY DEF EachOnceInOrder
<1>0. Typed /\ Roles /\ Streaming /\ Data
  BY DEF Inv
<1>1. CASE d = "console"
  <2>1. Delivered(Stdout, d)
    BY <1>0, <1>1, Numbers DEF Data, Pair
  <2>2. Stdout \in Unwritten(d)
    BY <1>0, <1>1, Numbers DEF Unwritten, Streaming
  <2> QED
    BY <2>1, <2>2 DEF Delivered
<1>2. CASE d \in Openers
  <2>1. Owned(d) /\ pc[d] \in Live
    BY <1>0, <1>2 DEF Data
  <2>2. fp[d] \in Files
    BY <1>0, <1>2, <2>1, Parts DEF Typed, Owned
  <2>3. Delivered(fp[d], d)
    BY <1>0, <1>2, <2>1, <2>2 DEF Data, Pair, Owned
  <2>4. fp[d] \in Unwritten(d)
    BY <1>0, <1>2, <2>1, <2>2 DEF Unwritten, Streaming
  <2> QED
    BY <2>3, <2>4 DEF Delivered
<1> QED
  BY <1>1, <1>2, Parts

LEMMA OpenListedOf == Inv => OpenListed
<1> SUFFICES ASSUME Inv PROVE OpenListed
  OBVIOUS
<1>0. /\ Typed /\ Roles /\ Lists
      /\ ostream \in Seq(Files) /\ cstream \in Seq(Files) /\ Len(ostream) \in Nat /\ Len(cstream) \in Nat
  BY DEF Inv, Typed
<1>1. IsInjective(ostream \o cstream)
  <2> DEFINE w == ostream \o cstream
  <2>1. DOMAIN w = 1..(Len(ostream) + Len(cstream))
    BY <1>0
  <2>2. ASSUME NEW i \in DOMAIN w
        PROVE  \/ i \in 1..Len(ostream) /\ w[i] = ostream[i]
               \/ i - Len(ostream) \in 1..Len(cstream) /\ w[i] = cstream[i - Len(ostream)]
    BY <1>0, <2>1
  <2>3. ASSUME NEW i \in DOMAIN w, NEW j \in DOMAIN w, w[i] = w[j] PROVE i = j
    <3> HIDE DEF w
    <3>1. i \in Int /\ j \in Int
      BY <1>0, <2>1
    <3>2. CASE i \in 1..Len(ostream) /\ w[i] = ostream[i]
      <4>1. j \in 1..Len(ostream) /\ w[j] = ostream[j]
        <5>1. CASE j - Len(ostream) \in 1..Len(cstream) /\ w[j] = cstream[j - Len(ostream)]
          <6>1. ostream[i] # cstream[j - Len(ostream)]
            BY <1>0, <3>2, <5>1 DEF Lists
          <6> QED
            BY <2>3, <3>2, <5>1, <6>1
        <5> QED
          BY <2>2, <2>3, <5>1
      <4> QED
        BY <1>0, <2>3, <3>2, <4>1 DEF Lists
    <3>3. CASE i - Len(ostream) \in 1..Len(cstream) /\ w[i] = cstream[i - Len(ostream)]
      <4>1. j - Len(ostream) \in 1..Len(cstream) /\ w[j] = cstream[j - Len(ostream)]
        BY <1>0, <2>2, <2>3, <3>3 DEF Lists
      <4>2. i - Len(ostream) = j - Len(ostream)
        BY <1>0, <2>3, <3>3, <4>1 DEF Lists
      <4> QED
        BY <1>0, <3>1, <4>2
    <3> QED
      BY <2>2, <3>2, <3>3
  <2> QED
    BY <2>3 DEF IsInjective
<1>2. ASSUME NEW t \in Threads, pc[t] = "out", fp[t] # 0 PROVE Contains(ostream, fp[t])
  <2>1. fp[t] \in Files /\ (fp[t] = Stdout \/ t \in Openers)
    BY <1>0, <1>2, Parts DEF Typed, Roles
  <2> QED
    BY <1>0, <2>1 DEF Lists
<1> QED
  BY <1>1, <1>2 DEF OpenListed

\* A thread that opens and closes streams alone is never given another's FILE.
LEMMA OneOpener ==
  ASSUME \A t, u \in Openers : t = u
  PROVE  OneOwner
BY DEF OneOwner

\* As long as no two threads are given the same FILE, every semaphore of the
\* library that a call takes it releases, and none is told that it is the wrong
\* owner, although streams share semaphores and flushall visits all of them.
THEOREM EveryLockUnlockedHolds == Spec /\ []OneOwner => []EveryLockUnlocked
<1> QED
  BY Invariance, UnlockedOf, PTL

\* As long as no two threads are given the same FILE, every character put to a
\* stream is in its file or in its buffer, once and in order, whatever the other
\* threads open, close and flush.
THEOREM EachOnceInOrderHolds == Spec /\ []OneOwner => []EachOnceInOrder
<1> QED
  BY Invariance, OnceInOrderOf, PTL

\* As long as no two threads are given the same FILE, the lists name every open
\* stream once, and no FILE twice.
THEOREM OpenListedHolds == Spec /\ []OneOwner => []OpenListed
<1> QED
  BY Invariance, OpenListedOf, PTL

\* With one thread that opens and closes streams, and any number that write to
\* stdout and that flush, all of this holds.
THEOREM OneOpenerSafe ==
  ASSUME \A t, u \in Openers : t = u
  PROVE  Spec => [](EveryLockUnlocked /\ EachOnceInOrder /\ OpenListed)
<1>1. OneOwner
  BY OneOpener
<1>2. []OneOwner
  BY <1>1, PTL
<1> QED
  BY <1>2, EveryLockUnlockedHolds, EachOnceInOrderHolds, OpenListedHolds, PTL
=============================================================================

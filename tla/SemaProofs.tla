----------------------------- MODULE SemaProofs -----------------------------
(***************************************************************************)
(* Theorems about the semaphores of the run-time library for any number of *)
(* threads and of semaphores.                                              *)
(***************************************************************************)
EXTENDS Sema, TLAPS

\* A step of t leaves the other threads where they are.
Others(t) == \A u \in Threads \ {t} :
  pc'[u] = pc[u] /\ obj'[u] = obj[u] /\ outer'[u] = outer[u] /\ held'[u] = held[u]

\* Nobody comes to have a semaphore by the step, and nobody loses one.
SameHas == \A u \in Threads, o \in Objects : Has(u, o)' <=> Has(u, o)
SameDepth(t) == \A o \in Objects : Depth(t, o)' = Depth(t, o)

\* So the other threads have what they had.
LEMMA OthersHas ==
  ASSUME NEW t \in Threads, Others(t)
  PROVE  /\ \A u \in Threads \ {t}, o \in Objects :
              (Has(u, o)' <=> Has(u, o)) /\ Depth(u, o)' = Depth(u, o)
         /\ (\A o \in Objects : Has(t, o)' <=> Has(t, o)) => SameHas
BY DEF Others, Has, Depth, SameHas

\* A semaphore is had by one thread only.
LEMMA HasOnce ==
  ASSUME IInv, NEW t \in Threads, NEW u \in Threads, NEW o \in Objects,
         Has(t, o), Has(u, o)
  PROVE  t = u
BY DEF IInv, MutexIsHad

\* Only one thread makes a mutex.
LEMMA MakesAlone ==
  ASSUME IInv, NEW t \in Threads, NEW u \in Threads,
         pc[t] \in {"again?", "create", "created"},
         pc[u] \in {"again?", "create", "created"}
  PROVE  t = u
<1>1. Has(t, InitSemaphore) /\ Has(u, InitSemaphore) /\ InitSemaphore \in Objects
  BY DEF IInv, Nested, NestedAt, Has, Objects
<1> QED
  BY <1>1, HasOnce

\* A step that does not touch a mutex or an owner.
LEMMA Steady ==
  ASSUME IInv, NEW t \in Threads, Others(t), SameHas,
         UNCHANGED <<owner, semaphore, mutex>>,
         pc[t] \notin {"own", "leave"}, pc'[t] \notin {"own", "leave"}
  PROVE  MutexIsHad' /\ OwnerKnown'
BY DEF IInv, MutexIsHad, OwnerKnown, SameHas, Others

\* A step that does not touch a count.
LEMMA SteadyCount ==
  ASSUME IInv, NEW t \in Threads, Others(t), SameHas, SameDepth(t), count' = count
  PROVE  Counted'
BY OthersHas DEF IInv, Counted, SameHas, SameDepth

\* A step that neither makes a mutex nor enters or leaves one.
LEMMA SteadyMutexes ==
  ASSUME IInv, NEW t \in Threads, Others(t), pc[t] # "created",
         UNCHANGED <<initialized, semaphore, made, mutex>>
  PROVE  MutexesMade'
<1>1. \A o \in Objects, u \in Threads : pc[u] = "created" /\ outer[u] = o =>
        pc'[u] = "created" /\ outer'[u] = o
  BY DEF Others
<1> QED
  BY <1>1 DEF IInv, MutexesMade

\* What the other threads rely on in a call, they still find.
LEMMA OthersNested ==
  ASSUME IInv, NEW t \in Threads, Others(t), UNCHANGED <<initialized, semaphore, count>>
  PROVE  \A u \in Threads \ {t} : NestedAt(u)'
<1> SUFFICES ASSUME NEW u \in Threads \ {t} PROVE NestedAt(u)'
  OBVIOUS
<1>1. NestedAt(u)
  BY DEF IInv, Nested
<1>2. pc'[u] = pc[u] /\ obj'[u] = obj[u] /\ outer'[u] = outer[u]
  BY DEF Others
<1> QED
  BY <1>1, <1>2 DEF NestedAt

-----------------------------------------------------------------------------
(* Every action keeps the invariant *)

\* A thread calls __AccessSemaphore.
LEMMA AccessKeeps ==
  ASSUME IInv, NEW t \in Threads, NEW o \in Locks, Access(t, o)
  PROVE  IInv'
<1>1. /\ pc[t] = "out" /\ pc'[t] = "owner?" /\ obj'[t] = o
      /\ UNCHANGED <<owner, count, initialized, semaphore, made, mutex, outer, held>>
      /\ Others(t)
  BY DEF Access, GoTo, IInv, TypeOK, shared, Others
<1>2. SameHas /\ SameDepth(t)
  <2>1. \A p \in Objects : (Has(t, p)' <=> Has(t, p)) /\ Depth(t, p)' = Depth(t, p)
    BY <1>1 DEF Has, Depth
  <2> QED
    BY <1>1, <2>1, OthersHas DEF SameDepth
<1>3. TypeOK'
  BY <1>1 DEF Access, GoTo, IInv, TypeOK, Places, Objects
<1>4. Nested'
  BY <1>1, OthersNested DEF IInv, Nested, NestedAt
<1> QED
  BY <1>1, <1>2, <1>3, <1>4, Steady, SteadyCount, SteadyMutexes DEF IInv

\* It looks who owns the semaphore: itself only if it has it.
LEMMA CheckOwnerKeeps ==
  ASSUME IInv, NEW t \in Threads, CheckOwner(t)
  PROVE  IInv'
<1>1. /\ pc[t] = "owner?"
      /\ pc'[t] = IF owner[obj[t]] = t THEN "count" ELSE "initialized?"
      /\ UNCHANGED <<owner, count, initialized, semaphore, made, mutex, obj, outer, held>>
      /\ Others(t)
  BY DEF CheckOwner, GoTo, IInv, TypeOK, shared, Others
<1>2. SameHas /\ SameDepth(t)
  <2>1. obj[t] \in Objects
    BY DEF IInv, TypeOK
  <2>2. CASE owner[obj[t]] = t
    <3>1. Has(t, obj[t])
      BY <2>1, <2>2 DEF IInv, OwnerKnown
    <3>2. \A o \in Objects : (Has(t, o)' <=> Has(t, o)) /\ Depth(t, o)' = Depth(t, o)
      BY <1>1, <2>2, <3>1 DEF Has, Depth
    <3> QED
      BY <1>1, <3>2, OthersHas DEF SameDepth
  <2>3. CASE owner[obj[t]] # t
    <3>1. \A o \in Objects : (Has(t, o)' <=> Has(t, o)) /\ Depth(t, o)' = Depth(t, o)
      BY <1>1, <2>3 DEF Has, Depth
    <3> QED
      BY <1>1, <3>1, OthersHas DEF SameDepth
  <2> QED
    BY <2>2, <2>3
<1>3. TypeOK'
  BY <1>1 DEF CheckOwner, GoTo, IInv, TypeOK, Places
<1>4. Nested'
  BY <1>1, OthersNested DEF IInv, Nested, NestedAt
<1> QED
  BY <1>1, <1>2, <1>3, <1>4, Steady, SteadyCount, SteadyMutexes DEF IInv

\* It looks whether the mutex is there, or calls for InitSemaphore.
LEMMA CheckInitializedKeeps ==
  ASSUME IInv, NEW t \in Threads, CheckInitialized(t)
  PROVE  IInv'
<1>1. /\ pc[t] = "initialized?" /\ pc'[t] \in {"enter", "owner?"}
      /\ UNCHANGED <<owner, count, initialized, semaphore, made, mutex, held>>
      /\ Others(t)
  BY DEF CheckInitialized, GoTo, IInv, TypeOK, shared, Others
<1>2. SameHas /\ SameDepth(t)
  <2>1. \A o \in Objects : (Has(t, o)' <=> Has(t, o)) /\ Depth(t, o)' = Depth(t, o)
    BY <1>1 DEF Has, Depth
  <2> QED
    BY <1>1, <2>1, OthersHas DEF SameDepth
<1>3. TypeOK' /\ Nested'
  <2>1. CASE initialized[obj[t]]
    <3>1. pc' = [pc EXCEPT ![t] = "enter"] /\ obj' = obj /\ outer' = outer
      BY <2>1 DEF CheckInitialized, GoTo
    <3>2. TypeOK'
      BY <1>1, <3>1 DEF IInv, TypeOK, Places
    <3>3. pc'[t] = "enter"
      BY <3>1 DEF IInv, TypeOK
    <3>4. NestedAt(t)'
      BY <1>1, <2>1, <3>1, <3>3 DEF IInv, Nested, NestedAt
    <3>5. Nested'
      BY <1>1, <3>4, OthersNested DEF Nested
    <3> QED
      BY <3>2, <3>5
  <2>2. CASE ~initialized[obj[t]]
    <3>1. /\ pc' = [pc EXCEPT ![t] = "owner?"]
          /\ outer' = [outer EXCEPT ![t] = obj[t]]
          /\ obj' = [obj EXCEPT ![t] = InitSemaphore]
      BY <2>2 DEF CheckInitialized, GoTo
    <3>2. obj[t] \in Locks
      BY <2>2 DEF IInv, MutexesMade, TypeOK, Objects
    <3>3. TypeOK'
      BY <1>1, <3>1, <3>2 DEF IInv, TypeOK, Places, Objects
    <3>4. pc'[t] = "owner?" /\ outer'[t] \in Locks /\ obj'[t] = InitSemaphore
      BY <3>1, <3>2 DEF IInv, TypeOK
    <3>5. NestedAt(t)'
      BY <1>1, <3>4, SemaAssumption DEF NestedAt
    <3>6. Nested'
      BY <1>1, <3>5, OthersNested DEF Nested
    <3> QED
      BY <3>3, <3>6
  <2> QED
    BY <2>1, <2>2
<1> QED
  BY <1>1, <1>2, <1>3, Steady, SteadyCount, SteadyMutexes DEF IInv

\* With InitSemaphore it looks again: if not initialized, no mutex was made.
LEMMA CheckAgainKeeps ==
  ASSUME IInv, NEW t \in Threads, CheckAgain(t)
  PROVE  IInv'
<1>1. /\ pc[t] = "again?"
      /\ pc'[t] = IF initialized[outer[t]] THEN "count?" ELSE "create"
      /\ UNCHANGED <<owner, count, initialized, semaphore, made, mutex, obj, outer, held>>
      /\ Others(t)
  BY DEF CheckAgain, GoTo, IInv, TypeOK, shared, Others
<1>2. SameHas /\ SameDepth(t)
  <2>1. \A o \in Objects : (Has(t, o)' <=> Has(t, o)) /\ Depth(t, o)' = Depth(t, o)
    BY <1>1 DEF Has, Depth
  <2> QED
    BY <1>1, <2>1, OthersHas DEF SameDepth
<1>3. TypeOK'
  BY <1>1 DEF CheckAgain, GoTo, IInv, TypeOK, Places
<1>4. ~initialized[outer[t]] => semaphore[outer[t]] = 0
  <2>1. outer[t] \in Objects
    BY <1>1 DEF IInv, Nested, NestedAt, TypeOK, Objects
  <2> SUFFICES ASSUME ~initialized[outer[t]], semaphore[outer[t]] # 0 PROVE FALSE
    OBVIOUS
  <2>2. PICK u \in Threads : pc[u] = "created" /\ outer[u] = outer[t]
    BY <2>1 DEF IInv, MutexesMade
  <2> QED
    BY <1>1, <2>2, MakesAlone
<1>5. NestedAt(t)'
  BY <1>1, <1>4 DEF IInv, Nested, NestedAt
<1>6. Nested'
  BY <1>1, <1>5, OthersNested DEF Nested
<1> QED
  BY <1>1, <1>2, <1>3, <1>6, Steady, SteadyCount, SteadyMutexes DEF IInv

\* It makes the mutex: one that nobody is in, of this semaphore alone.
LEMMA CreateKeeps ==
  ASSUME IInv, NEW t \in Threads, Create(t)
  PROVE  IInv'
<1>1. /\ pc[t] = "create" /\ pc'[t] = "created"
      /\ made' = made + 1 /\ made < MaxMutex
      /\ UNCHANGED <<owner, count, initialized, mutex, obj, outer, held>>
      /\ Others(t)
  BY DEF Create, GoTo, IInv, TypeOK, Others
<1>2. /\ outer[t] \in Locks /\ outer[t] \in Objects /\ outer[t] # InitSemaphore
      /\ semaphore[outer[t]] = 0
      /\ semaphore' = [semaphore EXCEPT ![outer[t]] = made + 1]
      /\ made \in 1..MaxMutex
  <2>1. outer[t] # None /\ semaphore[outer[t]] = 0
    BY <1>1 DEF IInv, Nested, NestedAt
  <2>2. outer[t] \in Locks /\ made \in 1..MaxMutex
    BY <2>1 DEF IInv, TypeOK, Mutexes
  <2> QED
    BY <2>1, <2>2, SemaAssumption DEF Create, Objects
<1>3. /\ semaphore'[outer[t]] = made + 1
      /\ \A o \in Objects \ {outer[t]} : semaphore'[o] = semaphore[o]
  BY <1>2 DEF IInv, TypeOK
<1>4. SameHas /\ SameDepth(t)
  <2>1. \A o \in Objects : (Has(t, o)' <=> Has(t, o)) /\ Depth(t, o)' = Depth(t, o)
    BY <1>1 DEF Has, Depth
  <2> QED
    BY <1>1, <2>1, OthersHas DEF SameDepth
<1>5. TypeOK'
  <2>1. made' \in Mutexes /\ semaphore' \in [Objects -> 0..MaxMutex]
    BY <1>1, <1>2, SemaAssumption DEF IInv, TypeOK, Mutexes
  <2>2. pc' \in [Threads -> Places]
    BY DEF Create, GoTo, IInv, TypeOK, Places
  <2> QED
    BY <1>1, <2>1, <2>2 DEF IInv, TypeOK
<1>6. Nested'
  <2>1. \A u \in Threads \ {t} : pc[u] \notin {"create", "created"}
    BY <1>1, MakesAlone
  <2>2. NestedAt(t)'
    <3>1. NestedAt(t) /\ made + 1 # 0
      BY <1>2 DEF IInv, Nested
    <3>2. outer'[t] = outer[t] /\ obj'[t] = obj[t]
      BY <1>1
    <3> QED
      BY <1>1, <1>3, <3>1, <3>2 DEF NestedAt
  <2>3. \A u \in Threads \ {t} : NestedAt(u)'
    BY <1>1, <2>1 DEF IInv, Nested, NestedAt, Others
  <2> QED
    BY <2>2, <2>3 DEF Nested
<1>7. MutexIsHad'
  <2>1. \A u \in Threads : ~Has(u, outer[t])
    BY <1>2 DEF IInv, MutexIsHad
  <2>2. mutex[made + 1] = None /\ made + 1 # 0
    BY <1>1, <1>2, SemaAssumption DEF IInv, MutexesMade, Mutexes
  <2> QED
    BY <1>1, <1>2, <1>3, <1>4, <2>1, <2>2, SemaAssumption
    DEF IInv, MutexIsHad, SameHas
<1>8. OwnerKnown'
  BY <1>1, <1>4 DEF IInv, OwnerKnown, SameHas, Others
<1>9. Counted'
  BY <1>1, <1>4, SteadyCount
<1>10. MutexesMade'
  <2>1. initialized'[InitSemaphore]
    BY <1>1 DEF IInv, MutexesMade
  <2>2. \A o \in Objects : semaphore'[o] \in 0..made'
    BY <1>1, <1>2, <1>3 DEF IInv, MutexesMade
  <2>3. \A o \in Objects : initialized'[o] => semaphore'[o] # 0
    BY <1>1, <1>2, <1>3 DEF IInv, MutexesMade
  <2>4. \A o \in Objects : semaphore'[o] # 0 /\ ~initialized'[o] =>
          \E u \in Threads : pc'[u] = "created" /\ outer'[u] = o
    <3> SUFFICES ASSUME NEW o \in Objects, semaphore'[o] # 0, ~initialized'[o]
                 PROVE  \E u \in Threads : pc'[u] = "created" /\ outer'[u] = o
      OBVIOUS
    <3>1. CASE o = outer[t]
      BY <1>1, <3>1
    <3>2. CASE o # outer[t]
      BY <1>1, <1>3, <3>2 DEF IInv, MutexesMade, Others
    <3> QED
      BY <3>1, <3>2
  <2>5. \A o, p \in Objects : o # p => semaphore'[o] # semaphore'[p] \/ semaphore'[o] = 0
    BY <1>2, <1>3 DEF IInv, MutexesMade
  <2>6. \A m \in 1..made' : \E o \in Objects : semaphore'[o] = m
    <3> SUFFICES ASSUME NEW m \in 1..made'
                 PROVE  \E o \in Objects : semaphore'[o] = m
      OBVIOUS
    <3>1. CASE m = made + 1
      BY <1>2, <1>3, <3>1
    <3>2. CASE m # made + 1
      <4>1. m \in 1..made
        BY <1>1, <1>2, <3>2
      <4>2. PICK o \in Objects : semaphore[o] = m
        BY <4>1 DEF IInv, MutexesMade
      <4> QED
        BY <1>2, <1>3, <4>1, <4>2
    <3> QED
      BY <3>1, <3>2
  <2>7. \A m \in Mutexes : m > made' => mutex'[m] = None
    BY <1>1, <1>2 DEF IInv, MutexesMade, Mutexes
  <2> QED
    BY <2>1, <2>2, <2>3, <2>4, <2>5, <2>6, <2>7 DEF MutexesMade
<1> QED
  BY <1>5, <1>6, <1>7, <1>8, <1>9, <1>10 DEF IInv

\* It sets the initialized flag when the mutex is there.
LEMMA SetInitializedKeeps ==
  ASSUME IInv, NEW t \in Threads, SetInitialized(t)
  PROVE  IInv'
<1>1. /\ pc[t] = "created" /\ pc'[t] = "count?"
      /\ initialized' = [initialized EXCEPT ![outer[t]] = TRUE]
      /\ UNCHANGED <<owner, count, semaphore, made, mutex, obj, outer, held>>
      /\ Others(t)
  BY DEF SetInitialized, GoTo, IInv, TypeOK, Others
<1>2. SameHas /\ SameDepth(t)
  <2>1. \A o \in Objects : (Has(t, o)' <=> Has(t, o)) /\ Depth(t, o)' = Depth(t, o)
    BY <1>1 DEF Has, Depth
  <2> QED
    BY <1>1, <2>1, OthersHas DEF SameDepth
<1>3. /\ outer[t] \in Objects /\ semaphore[outer[t]] # 0 /\ initialized'[outer[t]]
      /\ \A o \in Objects \ {outer[t]} : initialized'[o] = initialized[o]
  BY <1>1 DEF IInv, Nested, NestedAt, TypeOK, Objects
<1>4. TypeOK'
  BY <1>1 DEF SetInitialized, GoTo, IInv, TypeOK, Places
<1>5. Nested'
  <2>1. NestedAt(t)'
    <3>1. NestedAt(t) /\ obj'[t] = obj[t] /\ outer'[t] = outer[t]
      BY <1>1 DEF IInv, Nested
    <3> QED
      BY <1>1, <1>3, <3>1 DEF NestedAt
  <2>2. ASSUME NEW u \in Threads \ {t} PROVE NestedAt(u)'
    <3>1. NestedAt(u) /\ obj[u] \in Objects /\ outer[u] \in Objects \union {None}
      BY DEF IInv, Nested, TypeOK, Objects
    <3>2. pc'[u] = pc[u] /\ obj'[u] = obj[u] /\ outer'[u] = outer[u]
      BY <1>1 DEF Others
    <3> QED
      BY <1>1, <1>3, <3>1, <3>2 DEF NestedAt
  <2> QED
    BY <2>1, <2>2 DEF Nested
<1>6. MutexesMade'
  <2>1. \A o \in Objects : initialized[o] => initialized'[o]
    BY <1>3
  <2>2. initialized'[InitSemaphore]
    BY <2>1 DEF IInv, MutexesMade, Objects
  <2>3. \A o \in Objects : initialized'[o] => semaphore[o] # 0
    BY <1>3 DEF IInv, MutexesMade
  <2>4. \A o \in Objects : semaphore[o] # 0 /\ ~initialized'[o] =>
          \E u \in Threads : pc'[u] = "created" /\ outer'[u] = o
    BY <1>1, <1>3 DEF IInv, MutexesMade, Others
  <2> QED
    BY <1>1, <2>2, <2>3, <2>4 DEF IInv, MutexesMade
<1> QED
  BY <1>1, <1>2, <1>4, <1>5, <1>6, Steady, SteadyCount DEF IInv

\* It enters the mutex, and nobody else has the semaphore.
LEMMA EnterKeeps ==
  ASSUME IInv, NEW t \in Threads, Enter(t)
  PROVE  IInv'
<1>1. /\ pc[t] = "enter" /\ pc'[t] = "own" /\ mutex[semaphore[obj[t]]] = None
      /\ UNCHANGED <<owner, count, initialized, semaphore, made, obj, outer, held>>
      /\ Others(t)
  BY DEF Enter, GoTo, IInv, TypeOK, Others
<1>2. /\ obj[t] \in Objects /\ semaphore[obj[t]] # 0
      /\ semaphore[obj[t]] \in Mutexes /\ semaphore[obj[t]] <= made
  <2>1. obj[t] \in Objects /\ initialized[obj[t]]
    BY <1>1 DEF IInv, Nested, NestedAt, TypeOK
  <2> QED
    BY <2>1 DEF IInv, MutexesMade, TypeOK, Mutexes
<1>3. /\ mutex'[semaphore[obj[t]]] = t
      /\ \A m \in Mutexes \ {semaphore[obj[t]]} : mutex'[m] = mutex[m]
  BY <1>2 DEF Enter, IInv, TypeOK
<1>4. \A u \in Threads : ~Has(u, obj[t])
  BY <1>1, <1>2, SemaAssumption DEF IInv, MutexIsHad
<1>5. /\ Has(t, obj[t])'
      /\ \A o \in Objects \ {obj[t]} : Has(t, o)' <=> Has(t, o)
      /\ \A u \in Threads \ {t}, o \in Objects : Has(u, o)' <=> Has(u, o)
  BY <1>1, OthersHas DEF Has
<1>6. \A o \in Objects : Depth(t, o)' = Depth(t, o)
  BY <1>1 DEF Depth
<1>7. TypeOK'
  BY <1>1, <1>2 DEF Enter, GoTo, IInv, TypeOK, Places
<1>8. Nested'
  <2>1. NestedAt(t)'
    <3>1. NestedAt(t) /\ count[obj[t]] = 0
      BY <1>2, <1>4 DEF IInv, Nested, Counted
    <3> QED
      BY <1>1, <3>1 DEF NestedAt
  <2> QED
    BY <1>1, <2>1, OthersNested DEF Nested
<1>9. MutexIsHad'
  <2> SUFFICES ASSUME NEW o \in Objects, NEW u \in Threads
               PROVE  Has(u, o)' <=> semaphore[o] # 0 /\ mutex'[semaphore[o]] = u
    BY <1>1 DEF MutexIsHad
  <2>1. CASE o = obj[t]
    <3>1. CASE u = t
      BY <1>1, <1>2, <1>3, <1>5, <2>1, <3>1
    <3>2. CASE u # t
      BY <1>3, <1>4, <1>5, <2>1, <3>2
    <3> QED
      BY <3>1, <3>2
  <2>2. CASE o # obj[t]
    <3>1. semaphore[o] = 0 \/ semaphore[o] \in Mutexes \ {semaphore[obj[t]]}
      BY <1>2, <2>2 DEF IInv, MutexesMade, TypeOK, Mutexes
    <3>2. Has(u, o)' <=> Has(u, o)
      BY <1>5, <2>2
    <3> QED
      BY <1>3, <3>1, <3>2 DEF IInv, MutexIsHad
  <2> QED
    BY <2>1, <2>2
<1>10. OwnerKnown'
  <2> SUFFICES ASSUME NEW o \in Objects, NEW u \in Threads
               PROVE  owner[o] = u <=>
                        Has(u, o)' /\ ~(obj'[u] = o /\ pc'[u] \in {"own", "leave"})
    BY <1>1 DEF OwnerKnown
  <2>1. owner[o] = u <=> Has(u, o) /\ ~(obj[u] = o /\ pc[u] \in {"own", "leave"})
    BY DEF IInv, OwnerKnown
  <2>2. CASE u = t
    BY <1>1, <1>4, <1>5, <2>1, <2>2
  <2>3. CASE u # t
    BY <1>1, <1>5, <2>1, <2>3 DEF Others
  <2> QED
    BY <2>2, <2>3
<1>11. Counted'
  <2> SUFFICES ASSUME NEW o \in Objects
               PROVE  /\ \A u \in Threads : Has(u, o)' => count[o] = Depth(u, o)'
                      /\ (\A u \in Threads : ~Has(u, o)') => count[o] = 0
    BY <1>1 DEF Counted
  <2>1. CASE o = obj[t]
    <3>1. count[o] = 0
      BY <1>2, <1>4, <2>1 DEF IInv, Counted
    <3>2. Depth(t, o) = 0
      <4>1. o \in Locks => held[t][o] \in Nat /\ ~(held[t][o] > 0)
        BY <1>4, <2>1 DEF Has, IInv, TypeOK
      <4> QED
        BY <1>1, <4>1 DEF Depth
    <3> QED
      BY <1>4, <1>5, <1>6, <2>1, <3>1, <3>2
  <2>2. CASE o # obj[t]
    <3>1. \A u \in Threads : (Has(u, o)' <=> Has(u, o)) /\ Depth(u, o)' = Depth(u, o)
      BY <1>1, <1>5, <1>6, <2>2, OthersHas
    <3> QED
      BY <3>1 DEF IInv, Counted
  <2> QED
    BY <2>1, <2>2
<1>12. MutexesMade'
  <2>1. \A m \in Mutexes : m > made => m # semaphore[obj[t]]
    BY <1>2 DEF IInv, TypeOK, Mutexes
  <2>2. \A m \in Mutexes : m > made' => mutex'[m] = None
    BY <1>1, <1>3, <2>1 DEF IInv, MutexesMade
  <2>3. \A o \in Objects, u \in Threads : pc[u] = "created" /\ outer[u] = o =>
          pc'[u] = "created" /\ outer'[u] = o
    BY <1>1 DEF Others
  <2> QED
    BY <1>1, <2>2, <2>3 DEF IInv, MutexesMade
<1> QED
  BY <1>7, <1>8, <1>9, <1>10, <1>11, <1>12 DEF IInv

\* It makes itself the owner.
LEMMA OwnKeeps ==
  ASSUME IInv, NEW t \in Threads, Own(t)
  PROVE  IInv'
<1>1. /\ pc[t] = "own" /\ pc'[t] = "count" /\ obj[t] \in Objects
      /\ owner'[obj[t]] = t /\ \A o \in Objects \ {obj[t]} : owner'[o] = owner[o]
      /\ UNCHANGED <<count, initialized, semaphore, made, mutex, obj, outer, held>>
      /\ Others(t)
  BY DEF Own, GoTo, IInv, TypeOK, Others
<1>2. SameHas /\ SameDepth(t)
  <2>1. \A o \in Objects : (Has(t, o)' <=> Has(t, o)) /\ Depth(t, o)' = Depth(t, o)
    BY <1>1 DEF Has, Depth
  <2> QED
    BY <1>1, <2>1, OthersHas DEF SameDepth
<1>3. TypeOK'
  BY <1>1 DEF Own, GoTo, IInv, TypeOK, Places
<1>4. Nested'
  <2>1. NestedAt(t)'
    BY <1>1 DEF IInv, Nested, NestedAt
  <2> QED
    BY <1>1, <2>1, OthersNested DEF Nested
<1>5. MutexIsHad'
  BY <1>1, <1>2 DEF IInv, MutexIsHad, SameHas
<1>6. OwnerKnown'
  <2> SUFFICES ASSUME NEW o \in Objects, NEW u \in Threads
               PROVE  owner'[o] = u <=>
                        Has(u, o)' /\ ~(obj'[u] = o /\ pc'[u] \in {"own", "leave"})
    BY DEF OwnerKnown
  <2>1. owner[o] = u <=> Has(u, o) /\ ~(obj[u] = o /\ pc[u] \in {"own", "leave"})
    BY DEF IInv, OwnerKnown
  <2>2. Has(t, obj[t]) /\ (Has(u, o)' <=> Has(u, o))
    BY <1>1, <1>2 DEF Has, SameHas
  <2>3. CASE u = t
    BY <1>1, <2>1, <2>2, <2>3
  <2>4. CASE u # t /\ o = obj[t]
    BY <1>1, <2>2, <2>4, HasOnce
  <2>5. CASE u # t /\ o # obj[t]
    BY <1>1, <2>1, <2>2, <2>5 DEF Others
  <2> QED
    BY <2>3, <2>4, <2>5
<1> QED
  BY <1>1, <1>2, <1>3, <1>4, <1>5, <1>6, SteadyCount, SteadyMutexes DEF IInv

\* A step of t that changes how often t has taken a semaphore it has.
LEMMA Recounted ==
  ASSUME IInv, NEW t \in Threads, Others(t), SameHas,
         NEW p \in Objects, Has(t, p), count'[p] = Depth(t, p)',
         \A o \in Objects \ {p} : count'[o] = count[o] /\ Depth(t, o)' = Depth(t, o)
  PROVE  Counted'
<1> SUFFICES ASSUME NEW o \in Objects
             PROVE  /\ \A u \in Threads : Has(u, o)' => count'[o] = Depth(u, o)'
                    /\ (\A u \in Threads : ~Has(u, o)') => count'[o] = 0
  BY DEF Counted
<1>1. CASE o = p
  <2>1. \A u \in Threads : Has(u, o)' => u = t
    BY <1>1, HasOnce DEF SameHas
  <2> QED
    BY <1>1, <2>1 DEF SameHas
<1>2. CASE o # p
  <2>1. \A u \in Threads : (Has(u, o)' <=> Has(u, o)) /\ Depth(u, o)' = Depth(u, o)
    BY <1>2, OthersHas DEF SameHas
  <2> QED
    BY <1>2, <2>1 DEF IInv, Counted
<1> QED
  BY <1>1, <1>2

\* What other threads find in a call does not depend on the count of a
\* semaphore that t has.
LEMMA RecountNested ==
  ASSUME IInv, NEW t \in Threads, Others(t), UNCHANGED <<initialized, semaphore>>,
         NEW p \in Objects, Has(t, p), \A o \in Objects \ {p} : count'[o] = count[o]
  PROVE  \A u \in Threads \ {t} : NestedAt(u)'
<1> SUFFICES ASSUME NEW u \in Threads \ {t} PROVE NestedAt(u)'
  OBVIOUS
<1>1. NestedAt(u) /\ obj[u] \in Objects
  BY DEF IInv, Nested, TypeOK
<1>2. pc'[u] = pc[u] /\ obj'[u] = obj[u] /\ outer'[u] = outer[u]
  BY DEF Others
<1>3. pc[u] \in {"own", "disown", "leave"} => count'[obj[u]] = count[obj[u]]
  <2>1. pc[u] \in {"own", "disown", "leave"} => Has(u, obj[u])
    BY DEF Has
  <2> QED
    BY <1>1, <2>1, HasOnce
<1> QED
  BY <1>1, <1>2, <1>3 DEF NestedAt

\* It counts up what only it has.
LEMMA CountKeeps ==
  ASSUME IInv, NEW t \in Threads, Count(t)
  PROVE  IInv'
<1> DEFINE o == obj[t]
<1>1. /\ pc[t] = "count" /\ o \in Objects /\ count[o] \in Nat
      /\ count'[o] = count[o] + 1 /\ \A p \in Objects \ {o} : count'[p] = count[p]
      /\ UNCHANGED <<owner, initialized, semaphore, made, mutex, obj, outer>>
      /\ Others(t)
  BY DEF Count, GoTo, IInv, TypeOK, Others
<1>2. Has(t, o) /\ count[o] = Depth(t, o)
  <2>1. Has(t, o)
    BY <1>1 DEF Has
  <2> QED
    BY <1>1, <2>1 DEF IInv, Counted
<1>3. CASE outer[t] = None
  <2>1. o \in Locks /\ held[t][o] \in Nat
    <3>1. o \in Locks
      BY <1>1, <1>3 DEF IInv, Nested, NestedAt
    <3> QED
      BY <3>1 DEF IInv, TypeOK
  <2>2. /\ pc' = [pc EXCEPT ![t] = "out"] /\ pc'[t] = "out"
        /\ held' = [held EXCEPT ![t][o] = @ + 1]
        /\ held'[t][o] = held[t][o] + 1
        /\ \A p \in Locks \ {o} : held'[t][p] = held[t][p]
    BY <1>3, <2>1 DEF Count, GoTo, IInv, TypeOK
  <2>3. \A p \in Objects : Has(t, p)' <=> Has(t, p)
    BY <1>1, <2>1, <2>2 DEF Has
  <2>4. /\ Depth(t, o)' = Depth(t, o) + 1
        /\ \A p \in Objects \ {o} : Depth(t, p)' = Depth(t, p)
    BY <1>1, <2>1, <2>2 DEF Depth
  <2>5. SameHas
    BY <1>1, <2>3, OthersHas
  <2>6. Counted'
    BY <1>1, <1>2, <2>4, <2>5, Recounted
  <2>7. TypeOK'
    <3>1. count' \in [Objects -> Nat]
      BY <1>1 DEF Count, IInv, TypeOK
    <3>2. pc' \in [Threads -> Places]
      BY <2>2 DEF IInv, TypeOK, Places
    <3>3. held' \in [Threads -> [Locks -> Nat]]
      BY <2>1, <2>2 DEF IInv, TypeOK
    <3> QED
      BY <1>1, <3>1, <3>2, <3>3 DEF IInv, TypeOK
  <2>8. NestedAt(t)'
    BY <1>1, <1>3, <2>2 DEF IInv, Nested, NestedAt
  <2>9. Nested'
    BY <1>1, <1>2, <2>8, RecountNested DEF Nested
  <2> QED
    BY <1>1, <2>2, <2>5, <2>6, <2>7, <2>9, Steady, SteadyMutexes DEF IInv
<1>4. CASE outer[t] # None
  <2>1. o = InitSemaphore
    BY <1>1, <1>4 DEF IInv, Nested, NestedAt
  <2>2. pc' = [pc EXCEPT ![t] = "again?"] /\ pc'[t] = "again?" /\ held' = held
    BY <1>4 DEF Count, GoTo, IInv, TypeOK
  <2>3. \A p \in Objects : Has(t, p)' <=> Has(t, p)
    BY <1>1, <2>2 DEF Has
  <2>4. /\ Depth(t, o)' = Depth(t, o) + 1
        /\ \A p \in Objects \ {o} : Depth(t, p)' = Depth(t, p)
    BY <1>1, <2>1, <2>2, SemaAssumption DEF Depth
  <2>5. SameHas
    BY <1>1, <2>3, OthersHas
  <2>6. Counted'
    BY <1>1, <1>2, <2>4, <2>5, Recounted
  <2>7. TypeOK'
    <3>1. count' \in [Objects -> Nat]
      BY <1>1 DEF Count, IInv, TypeOK
    <3>2. pc' \in [Threads -> Places] /\ held' \in [Threads -> [Locks -> Nat]]
      BY <2>2 DEF IInv, TypeOK, Places
    <3> QED
      BY <1>1, <3>1, <3>2 DEF IInv, TypeOK
  <2>8. NestedAt(t)'
    BY <1>1, <1>4, <2>2 DEF IInv, Nested, NestedAt
  <2>9. Nested'
    BY <1>1, <1>2, <2>8, RecountNested DEF Nested
  <2> QED
    BY <1>1, <2>2, <2>5, <2>6, <2>7, <2>9, Steady, SteadyMutexes DEF IInv
<1> QED
  BY <1>3, <1>4

\* A thread calls __ReleaseSemaphore for one it has taken.
LEMMA ReleaseKeeps ==
  ASSUME IInv, NEW t \in Threads, NEW o \in Locks, Release(t, o)
  PROVE  IInv'
<1>1. /\ pc[t] = "out" /\ pc'[t] = "count?" /\ obj'[t] = o
      /\ held[t][o] \in Nat /\ held[t][o] > 0
      /\ held' = [held EXCEPT ![t][o] = @ - 1]
      /\ held'[t][o] = held[t][o] - 1
      /\ \A p \in Locks \ {o} : held'[t][p] = held[t][p]
      /\ UNCHANGED <<owner, count, initialized, semaphore, made, mutex, outer>>
      /\ Others(t)
  BY DEF Release, Holds, GoTo, IInv, TypeOK, shared, Others
<1>2. SameHas /\ SameDepth(t)
  <2>1. \A p \in Objects : Has(t, p)' <=> Has(t, p)
    BY <1>1 DEF Has
  <2>2. \A p \in Objects : Depth(t, p)' = Depth(t, p)
    BY <1>1 DEF Depth
  <2> QED
    BY <1>1, <2>1, <2>2, OthersHas DEF SameDepth
<1>3. TypeOK'
  <2>1. held' \in [Threads -> [Locks -> Nat]]
    BY <1>1 DEF IInv, TypeOK
  <2> QED
    BY <1>1, <2>1 DEF Release, GoTo, IInv, TypeOK, Places, Objects
<1>4. Nested'
  <2>1. NestedAt(t)'
    BY <1>1 DEF IInv, Nested, NestedAt
  <2> QED
    BY <1>1, <2>1, OthersNested DEF Nested
<1> QED
  BY <1>1, <1>2, <1>3, <1>4, Steady, SteadyCount, SteadyMutexes DEF IInv

\* It counts down what only it has, and is never the wrong owner.
LEMMA CountDownKeeps ==
  ASSUME IInv, NEW t \in Threads, CountDown(t)
  PROVE  IInv'
<1> DEFINE o == obj[t]
<1>1. /\ pc[t] = "count?" /\ o \in Objects /\ count[o] \in Nat
      /\ UNCHANGED <<owner, initialized, semaphore, made, mutex, held>>
  BY DEF CountDown, IInv, TypeOK
<1>2. Has(t, o) /\ count[o] = Depth(t, o) /\ owner[o] = t
  <2>1. Has(t, o)
    BY <1>1 DEF Has
  <2> QED
    BY <1>1, <2>1 DEF IInv, Counted, OwnerKnown
<1>3. Depth(t, o) = (IF o \in Locks THEN held[t][o] ELSE 0) + 1
  BY <1>1 DEF Depth
<1>4. /\ count[o] > 0 /\ count' = [count EXCEPT ![o] = @ - 1]
      /\ count'[o] = count[o] - 1 /\ \A p \in Objects \ {o} : count'[p] = count[p]
      /\ count' \in [Objects -> Nat]
  <2>1. o \in Locks => held[t][o] \in Nat
    BY DEF IInv, TypeOK
  <2>2. count[o] > 0
    BY <1>2, <1>3, <2>1
  <2>3. count' = [count EXCEPT ![o] = @ - 1]
    BY <1>2, <2>2 DEF CountDown
  <2> QED
    BY <1>1, <2>2, <2>3 DEF IInv, TypeOK
<1>5. CASE count[o] = 1
  <2>1. /\ pc' = [pc EXCEPT ![t] = "disown"] /\ pc'[t] = "disown"
        /\ obj' = obj /\ outer' = outer /\ Others(t)
    BY <1>1, <1>2, <1>5 DEF CountDown, GoTo, IInv, TypeOK, Others
  <2>2. SameHas
    <3>1. \A p \in Objects : Has(t, p)' <=> Has(t, p)
      BY <1>1, <2>1 DEF Has
    <3> QED
      BY <2>1, <3>1, OthersHas
  <2>3. /\ Depth(t, o)' = Depth(t, o) - 1
        /\ \A p \in Objects \ {o} : Depth(t, p)' = Depth(t, p)
    <3>1. o \in Locks => held[t][o] \in Nat
      BY DEF IInv, TypeOK
    <3>2. \A p \in Objects \ {o} : Depth(t, p)' = Depth(t, p)
      BY <1>1, <2>1 DEF Depth
    <3>3. Depth(t, o)' = IF o \in Locks THEN held[t][o] ELSE 0
      <4>1. Depth(t, o)' = (IF o \in Locks THEN held[t][o] ELSE 0) + 0
        BY <1>1, <2>1 DEF Depth
      <4> QED
        BY <3>1, <4>1
    <3> QED
      BY <1>3, <3>1, <3>2, <3>3
  <2>4. Counted'
    BY <1>1, <1>2, <1>4, <2>1, <2>2, <2>3, Recounted
  <2>5. TypeOK'
    BY <1>1, <1>4, <2>1 DEF IInv, TypeOK, Places
  <2>6. NestedAt(t)'
    <3>1. NestedAt(t) /\ count'[obj'[t]] = 0
      BY <1>4, <1>5, <2>1 DEF IInv, Nested
    <3> QED
      BY <1>1, <2>1, <3>1 DEF NestedAt
  <2>7. Nested'
    BY <1>1, <1>2, <1>4, <2>1, <2>6, RecountNested DEF Nested
  <2> QED
    BY <1>1, <2>1, <2>2, <2>4, <2>5, <2>7, Steady, SteadyMutexes DEF IInv
<1>6. CASE count[o] # 1
  <2>1. o \in Locks /\ held[t][o] \in Nat /\ held[t][o] > 0
    <3>1. o \in Locks
      BY <1>2, <1>3, <1>6
    <3>2. held[t][o] \in Nat
      BY <3>1 DEF IInv, TypeOK
    <3> QED
      BY <1>2, <1>3, <1>6, <3>1, <3>2
  <2>2. outer[t] = None
    BY <2>1, SemaAssumption DEF IInv, Nested, NestedAt
  <2>3. /\ pc' = [pc EXCEPT ![t] = "out"] /\ pc'[t] = "out"
        /\ obj' = obj /\ outer' = outer /\ Others(t)
    BY <1>1, <1>2, <1>6, <2>2 DEF CountDown, Leave, GoTo, IInv, TypeOK, Others
  <2>4. SameHas
    <3>1. \A p \in Objects : Has(t, p)' <=> Has(t, p)
      BY <1>1, <2>1, <2>3 DEF Has
    <3> QED
      BY <2>3, <3>1, OthersHas
  <2>5. /\ Depth(t, o)' = Depth(t, o) - 1
        /\ \A p \in Objects \ {o} : Depth(t, p)' = Depth(t, p)
    BY <1>1, <1>3, <2>1, <2>3 DEF Depth
  <2>6. Counted'
    BY <1>1, <1>2, <1>4, <2>3, <2>4, <2>5, Recounted
  <2>7. TypeOK'
    BY <1>1, <1>4, <2>3 DEF IInv, TypeOK, Places
  <2>8. NestedAt(t)'
    BY <2>2, <2>3 DEF NestedAt
  <2>9. Nested'
    BY <1>1, <1>2, <1>4, <2>3, <2>8, RecountNested DEF Nested
  <2> QED
    BY <1>1, <2>3, <2>4, <2>6, <2>7, <2>9, Steady, SteadyMutexes DEF IInv
<1> QED
  BY <1>5, <1>6

\* It clears the owner while it is still in the mutex.
LEMMA DisownKeeps ==
  ASSUME IInv, NEW t \in Threads, Disown(t)
  PROVE  IInv'
<1>1. /\ pc[t] = "disown" /\ pc'[t] = "leave" /\ obj[t] \in Objects
      /\ owner'[obj[t]] = None /\ \A o \in Objects \ {obj[t]} : owner'[o] = owner[o]
      /\ UNCHANGED <<count, initialized, semaphore, made, mutex, obj, outer, held>>
      /\ Others(t)
  BY DEF Disown, GoTo, IInv, TypeOK, Others
<1>2. SameHas /\ SameDepth(t)
  <2>1. \A o \in Objects : (Has(t, o)' <=> Has(t, o)) /\ Depth(t, o)' = Depth(t, o)
    BY <1>1 DEF Has, Depth
  <2> QED
    BY <1>1, <2>1, OthersHas DEF SameDepth
<1>3. TypeOK'
  BY <1>1 DEF Disown, GoTo, IInv, TypeOK, Places
<1>4. Nested'
  <2>1. NestedAt(t)'
    BY <1>1 DEF IInv, Nested, NestedAt
  <2> QED
    BY <1>1, <2>1, OthersNested DEF Nested
<1>5. MutexIsHad'
  BY <1>1, <1>2 DEF IInv, MutexIsHad, SameHas
<1>6. OwnerKnown'
  <2> SUFFICES ASSUME NEW o \in Objects, NEW u \in Threads
               PROVE  owner'[o] = u <=>
                        Has(u, o)' /\ ~(obj'[u] = o /\ pc'[u] \in {"own", "leave"})
    BY DEF OwnerKnown
  <2>1. owner[o] = u <=> Has(u, o) /\ ~(obj[u] = o /\ pc[u] \in {"own", "leave"})
    BY DEF IInv, OwnerKnown
  <2>2. Has(t, obj[t]) /\ (Has(u, o)' <=> Has(u, o)) /\ u # None
    BY <1>1, <1>2, SemaAssumption DEF Has, SameHas
  <2>3. CASE u = t
    BY <1>1, <2>1, <2>2, <2>3
  <2>4. CASE u # t /\ o = obj[t]
    BY <1>1, <2>2, <2>4, HasOnce
  <2>5. CASE u # t /\ o # obj[t]
    BY <1>1, <2>1, <2>2, <2>5 DEF Others
  <2> QED
    BY <2>3, <2>4, <2>5
<1> QED
  BY <1>1, <1>2, <1>3, <1>4, <1>5, <1>6, SteadyCount, SteadyMutexes DEF IInv

\* It leaves the mutex, and nobody has the semaphore.
LEMMA LeaveMutexKeeps ==
  ASSUME IInv, NEW t \in Threads, LeaveMutex(t)
  PROVE  IInv'
<1> DEFINE o == obj[t]
<1>1. /\ pc[t] = "leave" /\ o \in Objects /\ Has(t, o)
      /\ UNCHANGED <<owner, count, initialized, semaphore, made, held>>
  BY DEF LeaveMutex, IInv, TypeOK, Has
<1>2. /\ semaphore[o] # 0 /\ semaphore[o] \in Mutexes /\ semaphore[o] <= made
      /\ mutex[semaphore[o]] = t
  BY <1>1 DEF IInv, MutexIsHad, MutexesMade, TypeOK, Mutexes
<1>3. /\ mutex' = [mutex EXCEPT ![semaphore[o]] = None]
      /\ mutex'[semaphore[o]] = None
      /\ \A m \in Mutexes \ {semaphore[o]} : mutex'[m] = mutex[m]
  BY <1>2 DEF LeaveMutex, IInv, TypeOK
<1>4. count[o] = 0 /\ (o \in Locks => held[t][o] = 0)
  <2>1. count[o] = 0 /\ count[o] = Depth(t, o)
    BY <1>1 DEF IInv, Nested, NestedAt, Counted
  <2> QED
    BY <1>1, <2>1 DEF Depth, IInv, TypeOK
<1>5. /\ TypeOK' /\ Others(t) /\ NestedAt(t)'
      /\ pc'[t] \in {"out", "enter"}
  <2>1. CASE outer[t] = None
    <3>1. /\ pc' = [pc EXCEPT ![t] = "out"] /\ obj' = obj /\ outer' = outer
          /\ pc'[t] = "out"
      BY <2>1 DEF LeaveMutex, Leave, GoTo, IInv, TypeOK
    <3>2. TypeOK'
      BY <1>1, <1>3, <3>1 DEF IInv, TypeOK, Places
    <3>3. Others(t)
      BY <1>1, <3>1 DEF Others, IInv, TypeOK
    <3>4. NestedAt(t)'
      BY <2>1, <3>1 DEF NestedAt
    <3> QED
      BY <3>1, <3>2, <3>3, <3>4
  <2>2. CASE outer[t] # None
    <3>1. /\ pc' = [pc EXCEPT ![t] = "enter"]
          /\ obj' = [obj EXCEPT ![t] = outer[t]]
          /\ outer' = [outer EXCEPT ![t] = None]
      BY <2>2 DEF LeaveMutex, Leave, GoTo
    <3>2. outer[t] \in Locks /\ initialized[outer[t]]
      BY <1>1, <2>2 DEF IInv, Nested, NestedAt, TypeOK
    <3>3. pc'[t] = "enter" /\ obj'[t] = outer[t] /\ outer'[t] = None
      BY <3>1 DEF IInv, TypeOK
    <3>4. TypeOK'
      BY <1>1, <1>3, <3>1, <3>2 DEF IInv, TypeOK, Places, Objects
    <3>5. Others(t)
      BY <1>1, <3>1 DEF Others, IInv, TypeOK
    <3>6. NestedAt(t)'
      BY <1>1, <3>2, <3>3 DEF NestedAt
    <3> QED
      BY <3>3, <3>4, <3>5, <3>6
  <2> QED
    BY <2>1, <2>2
<1>6. Nested'
  BY <1>1, <1>5, OthersNested DEF Nested
<1>7. /\ \A p \in Objects : Has(t, p)' <=> Has(t, p) /\ p # o
      /\ \A u \in Threads \ {t}, p \in Objects : Has(u, p)' <=> Has(u, p)
  BY <1>1, <1>4, <1>5, OthersHas DEF Has
<1>8. \A p \in Objects : Depth(t, p)' = Depth(t, p)
  BY <1>1, <1>5 DEF Depth
<1>9. \A u \in Threads \ {t} : ~Has(u, o)
  BY <1>1, HasOnce
<1> HIDE DEF o
<1>10. MutexIsHad'
  <2> SUFFICES ASSUME NEW p \in Objects, NEW u \in Threads
               PROVE  Has(u, p)' <=> semaphore[p] # 0 /\ mutex'[semaphore[p]] = u
    BY <1>1 DEF MutexIsHad
  <2>1. CASE p = o
    BY <1>3, <1>7, <1>9, <2>1, SemaAssumption
  <2>2. CASE p # o
    <3>1. semaphore[p] = 0 \/ semaphore[p] \in Mutexes \ {semaphore[o]}
      BY <1>1, <1>2, <2>2 DEF IInv, MutexesMade, TypeOK, Mutexes
    <3>2. Has(u, p)' <=> Has(u, p)
      BY <1>7, <2>2
    <3> QED
      BY <1>3, <3>1, <3>2 DEF IInv, MutexIsHad
  <2> QED
    BY <2>1, <2>2
<1>11. OwnerKnown'
  <2> SUFFICES ASSUME NEW p \in Objects, NEW u \in Threads
               PROVE  owner[p] = u <=>
                        Has(u, p)' /\ ~(obj'[u] = p /\ pc'[u] \in {"own", "leave"})
    BY <1>1 DEF OwnerKnown
  <2>1. owner[p] = u <=> Has(u, p) /\ ~(obj[u] = p /\ pc[u] \in {"own", "leave"})
    BY DEF IInv, OwnerKnown
  <2>2. CASE u = t
    BY <1>1, <1>5, <1>7, <2>1, <2>2 DEF o
  <2>3. CASE u # t
    BY <1>5, <1>7, <2>1, <2>3 DEF Others
  <2> QED
    BY <2>2, <2>3
<1>12. Counted'
  <2> SUFFICES ASSUME NEW p \in Objects
               PROVE  /\ \A u \in Threads : Has(u, p)' => count[p] = Depth(u, p)'
                      /\ (\A u \in Threads : ~Has(u, p)') => count[p] = 0
    BY <1>1 DEF Counted
  <2>1. CASE p = o
    BY <1>4, <1>7, <1>9, <2>1
  <2>2. CASE p # o
    <3>1. \A u \in Threads : (Has(u, p)' <=> Has(u, p)) /\ Depth(u, p)' = Depth(u, p)
      BY <1>5, <1>7, <1>8, <2>2, OthersHas
    <3> QED
      BY <3>1 DEF IInv, Counted
  <2> QED
    BY <2>1, <2>2
<1>13. MutexesMade'
  <2>1. \A m \in Mutexes : m > made => mutex'[m] = None
    BY <1>3 DEF IInv, MutexesMade
  <2>2. \A p \in Objects, u \in Threads : pc[u] = "created" /\ outer[u] = p =>
          pc'[u] = "created" /\ outer'[u] = p
    BY <1>1, <1>5 DEF Others
  <2> QED
    BY <1>1, <2>1, <2>2 DEF IInv, MutexesMade
<1> QED
  BY <1>5, <1>6, <1>10, <1>11, <1>12, <1>13 DEF IInv

-----------------------------------------------------------------------------
(* The theorems *)

\* At first nobody has a semaphore, and only InitSemaphore has a mutex.
LEMMA InitKeeps == Init => IInv
<1> SUFFICES ASSUME Init PROVE IInv
  OBVIOUS
<1>1. TypeOK
  BY SemaAssumption DEF Init, TypeOK, Places, Objects, Mutexes
<1>2. Nested
  BY DEF Init, Nested, NestedAt
<1>3. \A o \in Objects, t \in Threads : ~Has(t, o)
  <2>1. \A t \in Threads : pc[t] = "out"
    BY DEF Init
  <2>2. \A t \in Threads, o \in Locks : ~(held[t][o] > 0)
    BY DEF Init
  <2> QED
    BY <2>1, <2>2 DEF Has
<1>4. MutexIsHad /\ OwnerKnown
  BY <1>3, SemaAssumption DEF Init, MutexIsHad, OwnerKnown, Mutexes
<1>5. Counted
  BY <1>3 DEF Init, Counted
<1>6. MutexesMade
  <2>1. InitSemaphore \in Objects /\ made = 1 /\ semaphore[InitSemaphore] = 1
    BY DEF Init, Objects
  <2>2. \A m \in 1..made : \E o \in Objects : semaphore[o] = m
    BY <2>1
  <2>3. \A o \in Objects : /\ initialized[o] <=> o = InitSemaphore
                          /\ semaphore[o] = IF o = InitSemaphore THEN 1 ELSE 0
    BY DEF Init
  <2>4. \A m \in Mutexes : mutex[m] = None
    BY DEF Init
  <2> QED
    BY <2>1, <2>2, <2>3, <2>4 DEF MutexesMade
<1> QED
  BY <1>1, <1>2, <1>4, <1>5, <1>6 DEF IInv

\* Every step keeps the invariant.
LEMMA StepKeeps == IInv /\ [Next]_vars => IInv'
<1> SUFFICES ASSUME IInv, [Next]_vars PROVE IInv'
  OBVIOUS
<1>1. CASE UNCHANGED vars
  <2>1. /\ UNCHANGED <<owner, count, initialized, semaphore, made, mutex>>
        /\ UNCHANGED <<pc, obj, outer, held>>
    BY <1>1 DEF vars, shared, local
  <2>2. \A t \in Threads, o \in Objects : (Has(t, o)' <=> Has(t, o)) /\ Depth(t, o)' = Depth(t, o)
    BY <2>1 DEF Has, Depth
  <2>3. TypeOK'
    BY <2>1 DEF IInv, TypeOK
  <2>4. Nested'
    BY <2>1 DEF IInv, Nested, NestedAt
  <2>5. MutexIsHad' /\ OwnerKnown' /\ Counted'
    BY <2>1, <2>2 DEF IInv, MutexIsHad, OwnerKnown, Counted
  <2>6. MutexesMade'
    BY <2>1 DEF IInv, MutexesMade
  <2> QED
    BY <2>3, <2>4, <2>5, <2>6 DEF IInv
<1>2. ASSUME NEW t \in Threads, Step(t) PROVE IInv'
  BY <1>2, CheckOwnerKeeps, CheckInitializedKeeps, CheckAgainKeeps, CreateKeeps,
     SetInitializedKeeps, OwnKeeps, CountKeeps, CountDownKeeps, DisownKeeps,
     LeaveMutexKeeps DEF Step
<1>3. ASSUME NEW t \in Threads, Enter(t) PROVE IInv'
  BY <1>3, EnterKeeps
<1>4. ASSUME NEW t \in Threads, NEW o \in Locks, Access(t, o) \/ Release(t, o)
      PROVE  IInv'
  BY <1>4, AccessKeeps, ReleaseKeeps
<1> QED
  BY <1>1, <1>2, <1>3, <1>4 DEF Next

\* The invariant of the semaphores holds for any number of threads and of
\* semaphores: in every reachable state holder, mutex, owner and count agree.
THEOREM InvariantHolds == Spec => []IInv
<1> QED
  BY InitKeeps, StepKeeps, PTL DEF Spec

\* __AccessSemaphore is a mutual exclusion, although it reads the owner and the
\* initialized flag with no lock held, and no caller that releases what it has
\* taken ends in the fatal error.
THEOREM OneHolderHolds == Spec => []OneHolder
<1>1. IInv => OneHolder
  <2> SUFFICES ASSUME IInv PROVE OneHolder
    OBVIOUS
  <2>1. ASSUME NEW t \in Threads, NEW o \in Locks, held[t][o] > 0
        PROVE  Has(t, o) /\ o \in Objects
    BY <2>1 DEF Has, Objects
  <2>2. \A t, u \in Threads : t # u => Holds(t) \cap Holds(u) = {}
    BY <2>1, HasOnce DEF Holds
  <2>3. \A t \in Threads : pc[t] # "wrong owner"
    BY DEF IInv, Nested, NestedAt
  <2>4. ASSUME NEW t \in Threads, NEW o \in Locks, held[t][o] > 0
        PROVE  owner[o] = t /\ mutex[semaphore[o]] = t
    <3>1. Has(t, o) /\ o \in Objects
      BY <2>1, <2>4
    <3>2. ~(obj[t] = o /\ pc[t] \in {"own", "leave"})
      <4>1. held[t][o] \in Nat /\ count[o] = Depth(t, o)
        BY <3>1 DEF IInv, TypeOK, Counted
      <4>2. obj[t] = o /\ pc[t] \in {"own", "leave"} => Depth(t, o) = held[t][o]
        BY <4>1 DEF Depth
      <4>3. obj[t] = o /\ pc[t] \in {"own", "leave"} => count[o] = 0
        BY DEF IInv, Nested, NestedAt
      <4> QED
        BY <2>4, <4>1, <4>2, <4>3
    <3> QED
      BY <3>1, <3>2 DEF IInv, OwnerKnown, MutexIsHad
  <2> QED
    BY <2>2, <2>3, <2>4 DEF OneHolder
<1> QED
  BY <1>1, InvariantHolds, PTL

\* Every semaphore gets one mutex, made once, however many threads find it not
\* initialized at the same time.
THEOREM OneMutexEachHolds == Spec => []OneMutexEach
<1>1. IInv => OneMutexEach
  <2> SUFFICES ASSUME IInv PROVE OneMutexEach
    OBVIOUS
  <2>1. ASSUME NEW t \in Threads, pc[t] \in {"enter", "own", "count", "disown", "leave"}
        PROVE  semaphore[obj[t]] # 0
    <3>1. obj[t] \in Objects
      BY DEF IInv, TypeOK
    <3>2. CASE pc[t] = "enter"
      BY <3>1, <3>2 DEF IInv, Nested, NestedAt, MutexesMade
    <3>3. CASE pc[t] # "enter"
      BY <2>1, <3>1, <3>3 DEF IInv, MutexIsHad, Has
    <3> QED
      BY <3>2, <3>3
  <2> QED
    BY <2>1 DEF IInv, MutexesMade, OneMutexEach
<1> QED
  BY <1>1, InvariantHolds, PTL

-----------------------------------------------------------------------------
(* The semaphores are recursive locks *)

\* What a step does to the recursive locks is what it does to each of them.
LEMMA Stutters ==
  ASSUME \A o \in Locks : HolderOf(o)' = HolderOf(o) /\ DepthOf(o)' = DepthOf(o)
  PROVE  UNCHANGED Lock!vars
<1>1. [o \in Locks |-> HolderOf(o)]' = [o \in Locks |-> HolderOf(o)]
  OBVIOUS
<1>2. [o \in Locks |-> DepthOf(o)]' = [o \in Locks |-> DepthOf(o)]
  OBVIOUS
<1> QED
  BY <1>1, <1>2 DEF Lock!vars

\* A lock that is free or t's own, and is taken once more.
LEMMA Takes ==
  ASSUME NEW t \in Threads, NEW l \in Locks,
         HolderOf(l) \in {None, t}, HolderOf(l)' = t, DepthOf(l)' = DepthOf(l) + 1,
         \A o \in Locks \ {l} : HolderOf(o)' = HolderOf(o) /\ DepthOf(o)' = DepthOf(o)
  PROVE  Lock!Next
<1>1. [o \in Locks |-> HolderOf(o)]' = [[o \in Locks |-> HolderOf(o)] EXCEPT ![l] = t]
  OBVIOUS
<1>2. [o \in Locks |-> DepthOf(o)]' = [[o \in Locks |-> DepthOf(o)] EXCEPT ![l] = @ + 1]
  OBVIOUS
<1>3. Lock!Take(t, l)
  BY <1>1, <1>2 DEF Lock!Take
<1> QED
  BY <1>3 DEF Lock!Next

\* A lock that is t's, and is given back once.
LEMMA Gives ==
  ASSUME NEW t \in Threads, NEW l \in Locks,
         HolderOf(l) = t, DepthOf(l)' = DepthOf(l) - 1,
         HolderOf(l)' = IF DepthOf(l) = 1 THEN None ELSE t,
         \A o \in Locks \ {l} : HolderOf(o)' = HolderOf(o) /\ DepthOf(o)' = DepthOf(o)
  PROVE  Lock!Next
<1>1. [o \in Locks |-> HolderOf(o)]'
        = [[o \in Locks |-> HolderOf(o)] EXCEPT ![l] = IF DepthOf(l) = 1 THEN None ELSE t]
  OBVIOUS
<1>2. [o \in Locks |-> DepthOf(o)]' = [[o \in Locks |-> DepthOf(o)] EXCEPT ![l] = @ - 1]
  OBVIOUS
<1>3. Lock!Give(t, l)
  BY <1>1, <1>2 DEF Lock!Give
<1> QED
  BY <1>3 DEF Lock!Next

\* Entering the mutex is the first Take, unless it is InitSemaphore's.
LEMMA EnterTakes ==
  ASSUME IInv, NEW t \in Threads, Enter(t)
  PROVE  [Lock!Next]_Lock!vars
<1>1. /\ pc[t] = "enter" /\ mutex[semaphore[obj[t]]] = None
      /\ UNCHANGED <<count, semaphore>>
      /\ mutex' = [mutex EXCEPT ![semaphore[obj[t]]] = t]
  BY DEF Enter
<1>2. /\ obj[t] \in Objects /\ semaphore[obj[t]] # 0
      /\ semaphore[obj[t]] \in Mutexes
  <2>1. obj[t] \in Objects /\ initialized[obj[t]]
    BY <1>1 DEF IInv, Nested, NestedAt, TypeOK
  <2> QED
    BY <2>1 DEF IInv, MutexesMade, TypeOK, Mutexes
<1>3. count[obj[t]] = 0
  <2>1. \A u \in Threads : ~Has(u, obj[t])
    BY <1>1, <1>2, SemaAssumption DEF IInv, MutexIsHad
  <2> QED
    BY <1>2, <2>1 DEF IInv, Counted
<1>4. /\ mutex'[semaphore[obj[t]]] = t
      /\ \A m \in Mutexes \ {semaphore[obj[t]]} : mutex'[m] = mutex[m]
  BY <1>1, <1>2 DEF IInv, TypeOK
<1>5. \A o \in Locks \ {obj[t]} : HolderOf(o)' = HolderOf(o) /\ DepthOf(o)' = DepthOf(o)
  <2> SUFFICES ASSUME NEW o \in Locks \ {obj[t]}
               PROVE  HolderOf(o)' = HolderOf(o) /\ DepthOf(o)' = DepthOf(o)
    OBVIOUS
  <2>1. semaphore[o] = 0 \/ semaphore[o] \in Mutexes \ {semaphore[obj[t]]}
    BY <1>2 DEF IInv, MutexesMade, TypeOK, Mutexes, Objects
  <2>2. HolderOf(o)' = HolderOf(o)
    BY <1>1, <1>4, <2>1 DEF HolderOf
  <2> QED
    BY <1>1, <2>2 DEF DepthOf
<1>6. CASE obj[t] \in Locks
  <2>1. PICK l \in Locks : l = obj[t]
    BY <1>6
  <2>2. HolderOf(l) = None /\ DepthOf(l) = 0
    BY <1>1, <2>1 DEF HolderOf, DepthOf
  <2>3. HolderOf(l)' = t /\ DepthOf(l)' = 1
    BY <1>1, <1>2, <1>3, <1>4, <2>1, SemaAssumption DEF HolderOf, DepthOf
  <2>4. \A o \in Locks \ {l} : HolderOf(o)' = HolderOf(o) /\ DepthOf(o)' = DepthOf(o)
    BY <1>5, <2>1
  <2>5. HolderOf(l) \in {None, t} /\ DepthOf(l)' = DepthOf(l) + 1
    BY <2>2, <2>3
  <2> QED
    BY <2>3, <2>4, <2>5, Takes
<1>7. CASE obj[t] \notin Locks
  BY <1>5, <1>7, Stutters
<1> QED
  BY <1>6, <1>7

\* A count that goes up is a Take, unless it is the first or InitSemaphore's.
LEMMA CountTakes ==
  ASSUME IInv, NEW t \in Threads, Count(t)
  PROVE  [Lock!Next]_Lock!vars
<1>1. /\ obj[t] \in Objects /\ count[obj[t]] \in Nat /\ Has(t, obj[t])
      /\ count'[obj[t]] = count[obj[t]] + 1
      /\ \A o \in Objects \ {obj[t]} : count'[o] = count[o]
      /\ UNCHANGED <<semaphore, mutex>>
  BY DEF Count, IInv, TypeOK, Has
<1>2. semaphore[obj[t]] # 0 /\ mutex[semaphore[obj[t]]] = t
  BY <1>1 DEF IInv, MutexIsHad
<1>3. /\ \A o \in Locks : HolderOf(o)' = HolderOf(o)
      /\ \A o \in Locks \ {obj[t]} : DepthOf(o)' = DepthOf(o)
  <2>1. \A o \in Locks : HolderOf(o)' = HolderOf(o)
    BY <1>1 DEF HolderOf
  <2> QED
    BY <1>1, <2>1 DEF DepthOf, Objects
<1>4. CASE obj[t] \in Locks
  <2>1. PICK l \in Locks : l = obj[t]
    BY <1>4
  <2>2. HolderOf(l) = t /\ HolderOf(l)' = t /\ t # None
    BY <1>2, <1>3, <2>1, SemaAssumption DEF HolderOf
  <2>3. CASE count[l] = 0
    <3>1. DepthOf(l) = 1 /\ DepthOf(l)' = 1
      BY <1>1, <2>1, <2>2, <2>3 DEF DepthOf
    <3> QED
      BY <1>3, <2>1, <3>1, Stutters
  <2>4. CASE count[l] # 0
    <3>1. DepthOf(l)' = DepthOf(l) + 1
      BY <1>1, <2>1, <2>2, <2>4 DEF DepthOf
    <3>2. \A o \in Locks \ {l} : HolderOf(o)' = HolderOf(o) /\ DepthOf(o)' = DepthOf(o)
      BY <1>3, <2>1
    <3> QED
      BY <2>2, <3>1, <3>2, Takes
  <2> QED
    BY <2>3, <2>4
<1>5. CASE obj[t] \notin Locks
  BY <1>3, <1>5, Stutters
<1> QED
  BY <1>4, <1>5

\* A count that goes down is a Give, unless it is the last or InitSemaphore's.
LEMMA CountDownGives ==
  ASSUME IInv, NEW t \in Threads, CountDown(t)
  PROVE  [Lock!Next]_Lock!vars
<1>1. /\ obj[t] \in Objects /\ count[obj[t]] \in Nat /\ Has(t, obj[t])
      /\ pc[t] = "count?"
      /\ \A o \in Objects \ {obj[t]} : count'[o] = count[o]
      /\ UNCHANGED <<semaphore, mutex>>
  BY DEF CountDown, IInv, TypeOK, Has
<1>2. /\ semaphore[obj[t]] # 0 /\ mutex[semaphore[obj[t]]] = t
      /\ count[obj[t]] > 0 /\ count'[obj[t]] = count[obj[t]] - 1
  <2>1. semaphore[obj[t]] # 0 /\ mutex[semaphore[obj[t]]] = t /\ owner[obj[t]] = t
    BY <1>1 DEF IInv, MutexIsHad, OwnerKnown
  <2>2. count[obj[t]] > 0
    <3>1. count[obj[t]] = Depth(t, obj[t]) /\ (obj[t] \in Locks => held[t][obj[t]] \in Nat)
      BY <1>1 DEF IInv, Counted, TypeOK
    <3>2. Depth(t, obj[t]) = (IF obj[t] \in Locks THEN held[t][obj[t]] ELSE 0) + 1
      BY DEF CountDown, Depth
    <3> QED
      BY <3>1, <3>2
  <2> QED
    BY <1>1, <2>1, <2>2 DEF CountDown, IInv, TypeOK
<1>3. /\ \A o \in Locks : HolderOf(o)' = HolderOf(o)
      /\ \A o \in Locks \ {obj[t]} : DepthOf(o)' = DepthOf(o)
  <2>1. \A o \in Locks : HolderOf(o)' = HolderOf(o)
    BY <1>1 DEF HolderOf
  <2> QED
    BY <1>1, <2>1 DEF DepthOf, Objects
<1>4. CASE obj[t] \in Locks
  <2>1. PICK l \in Locks : l = obj[t]
    BY <1>4
  <2>2. HolderOf(l) = t /\ HolderOf(l)' = t /\ t # None
    BY <1>2, <1>3, <2>1, SemaAssumption DEF HolderOf
  <2>3. CASE count[l] = 1
    <3>1. DepthOf(l) = 1 /\ DepthOf(l)' = 1
      BY <1>2, <2>1, <2>2, <2>3 DEF DepthOf
    <3> QED
      BY <1>3, <2>1, <3>1, Stutters
  <2>4. CASE count[l] # 1
    <3>1. DepthOf(l) = count[l] /\ DepthOf(l)' = count[l] - 1
      BY <1>1, <1>2, <2>1, <2>2, <2>4 DEF DepthOf
    <3>2. \A o \in Locks \ {l} : HolderOf(o)' = HolderOf(o) /\ DepthOf(o)' = DepthOf(o)
      BY <1>3, <2>1
    <3>3. HolderOf(l)' = IF DepthOf(l) = 1 THEN None ELSE t
      BY <2>2, <2>4, <3>1
    <3> QED
      BY <2>2, <3>1, <3>2, <3>3, Gives
  <2> QED
    BY <2>3, <2>4
<1>5. CASE obj[t] \notin Locks
  BY <1>3, <1>5, Stutters
<1> QED
  BY <1>4, <1>5

\* Leaving the mutex is the last Give, unless it is InitSemaphore's.
LEMMA LeaveGives ==
  ASSUME IInv, NEW t \in Threads, LeaveMutex(t)
  PROVE  [Lock!Next]_Lock!vars
<1>1. /\ pc[t] = "leave" /\ obj[t] \in Objects /\ Has(t, obj[t]) /\ count[obj[t]] = 0
      /\ UNCHANGED <<count, semaphore>>
      /\ mutex' = [mutex EXCEPT ![semaphore[obj[t]]] = None]
  BY DEF LeaveMutex, IInv, TypeOK, Has, Nested, NestedAt
<1>2. /\ semaphore[obj[t]] # 0 /\ semaphore[obj[t]] \in Mutexes
      /\ mutex[semaphore[obj[t]]] = t
  BY <1>1 DEF IInv, MutexIsHad, MutexesMade, TypeOK, Mutexes
<1>3. /\ mutex'[semaphore[obj[t]]] = None
      /\ \A m \in Mutexes \ {semaphore[obj[t]]} : mutex'[m] = mutex[m]
  BY <1>1, <1>2 DEF IInv, TypeOK
<1>4. \A o \in Locks \ {obj[t]} : HolderOf(o)' = HolderOf(o) /\ DepthOf(o)' = DepthOf(o)
  <2> SUFFICES ASSUME NEW o \in Locks \ {obj[t]}
               PROVE  HolderOf(o)' = HolderOf(o) /\ DepthOf(o)' = DepthOf(o)
    OBVIOUS
  <2>1. semaphore[o] = 0 \/ semaphore[o] \in Mutexes \ {semaphore[obj[t]]}
    BY <1>1, <1>2 DEF IInv, MutexesMade, TypeOK, Mutexes, Objects
  <2>2. HolderOf(o)' = HolderOf(o)
    BY <1>1, <1>3, <2>1 DEF HolderOf
  <2> QED
    BY <1>1, <2>2 DEF DepthOf
<1>5. CASE obj[t] \in Locks
  <2>1. PICK l \in Locks : l = obj[t]
    BY <1>5
  <2>2. HolderOf(l) = t /\ DepthOf(l) = 1
    BY <1>1, <1>2, <2>1, SemaAssumption DEF HolderOf, DepthOf
  <2>3. HolderOf(l)' = None /\ DepthOf(l)' = 0
    BY <1>1, <1>3, <2>1 DEF HolderOf, DepthOf
  <2>4. \A o \in Locks \ {l} : HolderOf(o)' = HolderOf(o) /\ DepthOf(o)' = DepthOf(o)
    BY <1>4, <2>1
  <2>5. DepthOf(l)' = DepthOf(l) - 1 /\ HolderOf(l)' = IF DepthOf(l) = 1 THEN None ELSE t
    BY <2>2, <2>3
  <2> QED
    BY <2>2, <2>4, <2>5, Gives
<1>6. CASE obj[t] \notin Locks
  BY <1>4, <1>6, Stutters
<1> QED
  BY <1>5, <1>6

\* A mutex that is made is nobody's yet.
LEMMA CreateStutters ==
  ASSUME IInv, NEW t \in Threads, Create(t)
  PROVE  UNCHANGED Lock!vars
<1>1. /\ UNCHANGED <<count, mutex>> /\ outer[t] \in Locks /\ semaphore[outer[t]] = 0
      /\ semaphore' = [semaphore EXCEPT ![outer[t]] = made + 1]
      /\ made \in Nat /\ made + 1 \in Mutexes
  <2>1. outer[t] # None /\ semaphore[outer[t]] = 0
    BY DEF Create, IInv, Nested, NestedAt
  <2>2. outer[t] \in Locks /\ made \in 1..MaxMutex /\ made < MaxMutex
    BY <2>1 DEF Create, IInv, TypeOK, Mutexes
  <2> QED
    BY <2>1, <2>2, SemaAssumption DEF Create, Mutexes
<1>2. mutex[made + 1] = None
  BY <1>1 DEF IInv, MutexesMade
<1>3. /\ semaphore'[outer[t]] = made + 1
      /\ \A o \in Locks \ {outer[t]} : semaphore'[o] = semaphore[o]
  BY <1>1 DEF IInv, TypeOK, Objects
<1>4. \A o \in Locks : HolderOf(o)' = HolderOf(o)
  BY <1>1, <1>2, <1>3 DEF HolderOf
<1>5. \A o \in Locks : DepthOf(o)' = DepthOf(o)
  BY <1>1, <1>4 DEF DepthOf
<1> QED
  BY <1>4, <1>5, Stutters

\* For any number of threads and semaphores the semaphores are recursive locks:
\* each is held from the step that enters its mutex to the one that leaves it,
\* and every other step of the two functions is invisible to their callers.
THEOREM RecLockImplemented == Spec => ImplementsRecLock
<1>1. Init => Lock!Init
  <2> SUFFICES ASSUME Init PROVE Lock!Init
    OBVIOUS
  <2>1. \A o \in Locks : semaphore[o] = 0
    BY SemaAssumption DEF Init, Objects
  <2>2. \A o \in Locks : HolderOf(o) = None /\ DepthOf(o) = 0
    BY <2>1 DEF HolderOf, DepthOf
  <2> QED
    BY <2>2 DEF Lock!Init
<1>2. IInv /\ [Next]_vars => [Lock!Next]_Lock!vars
  <2> SUFFICES ASSUME IInv, [Next]_vars PROVE [Lock!Next]_Lock!vars
    OBVIOUS
  <2>1. CASE UNCHANGED <<count, semaphore, mutex>>
    <3>1. \A o \in Locks : HolderOf(o)' = HolderOf(o)
      BY <2>1 DEF HolderOf
    <3>2. \A o \in Locks : DepthOf(o)' = DepthOf(o)
      BY <2>1, <3>1 DEF DepthOf
    <3> QED
      BY <3>1, <3>2, Stutters
  <2>2. CASE UNCHANGED vars
    BY <2>1, <2>2 DEF vars, shared
  <2>3. ASSUME NEW t \in Threads, NEW o \in Locks, Access(t, o) \/ Release(t, o)
        PROVE  [Lock!Next]_Lock!vars
    BY <2>1, <2>3 DEF Access, Release, shared
  <2>4. ASSUME NEW t \in Threads, Step(t)
        PROVE  [Lock!Next]_Lock!vars
    <3>1. CASE CheckOwner(t) \/ CheckInitialized(t) \/ CheckAgain(t)
      BY <2>1, <3>1 DEF CheckOwner, CheckInitialized, CheckAgain, shared
    <3>2. CASE SetInitialized(t) \/ Own(t) \/ Disown(t)
      BY <2>1, <3>2 DEF SetInitialized, Own, Disown
    <3>3. CASE Create(t)
      BY <3>3, CreateStutters
    <3> QED
      BY <2>4, <3>1, <3>2, <3>3, CountTakes, CountDownGives, LeaveGives DEF Step
  <2>5. ASSUME NEW t \in Threads, Enter(t)
        PROVE  [Lock!Next]_Lock!vars
    BY <2>5, EnterTakes
  <2> QED
    BY <2>2, <2>3, <2>4, <2>5 DEF Next
<1>3. Spec => []IInv
  BY InvariantHolds
<1> QED
  BY <1>1, <1>2, <1>3, PTL DEF Spec, ImplementsRecLock, Lock!Spec
=============================================================================

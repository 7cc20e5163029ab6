------------------------------ MODULE RecLock ------------------------------
(***************************************************************************)
(* What a semaphore of the run-time library promises its callers: it is    *)
(* held by one thread at a time, which may take it again and gives it up   *)
(* when it has released it as often as it has taken it.                    *)
(***************************************************************************)
EXTENDS Naturals

CONSTANTS Threads, Locks, None
VARIABLES holder, depth
vars == <<holder, depth>>

Init == /\ holder = [l \in Locks |-> None]
        /\ depth = [l \in Locks |-> 0]

Take(t, l) ==
  /\ holder[l] \in {None, t}
  /\ holder' = [holder EXCEPT ![l] = t]
  /\ depth' = [depth EXCEPT ![l] = @ + 1]

Give(t, l) ==
  /\ holder[l] = t
  /\ depth' = [depth EXCEPT ![l] = @ - 1]
  /\ holder' = [holder EXCEPT ![l] = IF depth[l] = 1 THEN None ELSE t]

Next == \E t \in Threads, l \in Locks : Take(t, l) \/ Give(t, l)
Spec == Init /\ [][Next]_vars
=============================================================================

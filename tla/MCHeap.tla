------------------------------- MODULE MCHeap -------------------------------
(***************************************************************************)
(* The bounds of the run of Heap.  A heap of seven small blocks, which the *)
(* searches of __MemFree need, and one in which blocks are resized or the  *)
(* break is moved by others, are explored one after the other, not at the  *)
(* same time: a state out of Bounded is checked, but not left.             *)
(***************************************************************************)
EXTENDS Heap

CONSTANTS
  ResizeUsed,     \* while a block is resized: how many blocks are in use,
  ResizeBrk,      \* and how high the break may be
  MovedBrk,       \* how high it may be once other code has moved it
  SmallAmount     \* what is asked of a heap that is bigger than that

Resizing == \E t \in Resizers : th[t].at # "idle"
Bounded ==
  /\ Resizing => /\ Cardinality(used) <= ResizeUsed
                 /\ moved \/ curbrk <= ResizeBrk
  /\ moved => curbrk <= MovedBrk
  /\ curbrk > MovedBrk => \A a \in used : need[a] <= SmallAmount
=============================================================================

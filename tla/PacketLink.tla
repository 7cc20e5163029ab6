----------------------------- MODULE PacketLink -----------------------------
(***************************************************************************)
(* What a remote-debugging link promises the two programs that use it      *)
(* (RemoteGet and RemotePut in bld/wv/doc/link.doc): packets arrive in the *)
(* order they were sent, each at most once, and, unless the link is Lossy, *)
(* each before its sender sends the next.  Packets are numbered; a sender  *)
(* uses its numbers in increasing order.                                   *)
(***************************************************************************)
EXTENDS Integers, Sequences

CONSTANTS Nodes, Peer(_), Lossy

VARIABLES
  sent,   \* sent[n]: the packet n last gave to RemotePut, 0 before the first
  got     \* got[n]: the packets RemoteGet has returned to n

vars == <<sent, got>>

Newest(n) == IF got[n] = <<>> THEN 0 ELSE got[n][Len(got[n])]

Init == sent = [n \in Nodes |-> 0] /\ got = [n \in Nodes |-> <<>>]

\* n gives the link a packet; a link that is not Lossy has delivered the one
\* before.
Put(n) ==
  /\ Lossy \/ Newest(Peer(n)) = sent[n]
  /\ sent' \in [Nodes -> Nat]
  /\ sent'[n] > sent[n]
  /\ \A m \in Nodes \ {n} : sent'[m] = sent[m]
  /\ UNCHANGED got

\* n receives a packet newer than any it has had.
Get(n) ==
  /\ \E id \in (Newest(n) + 1)..sent[Peer(n)] :
       got' = [got EXCEPT ![n] = Append(@, id)]
  /\ UNCHANGED sent

Next == \E n \in Nodes : Put(n) \/ Get(n)

Spec == Init /\ [][Next]_vars
=============================================================================

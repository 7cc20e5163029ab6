---------------------------- MODULE SerLinkProofs ----------------------------
(***************************************************************************)
(* Theorems about the serial link for every value of its constants: what   *)
(* holds with any number of faults, any time-outs and any Adverse          *)
(* conditions, and, from OneFault on, what the link promises besides when  *)
(* the line does at most one harm and the hosts are prompt.                *)
(***************************************************************************)
EXTENDS SerLink, TLAPS

\* What a session of fewer requests than there are block numbers has.
NoWrap == MaxPuts + 1 < BlkMod

-----------------------------------------------------------------------------
(* Sequences *)

\* What a remainder is, and when it changes nothing.
LEMMA ModRange ==
  ASSUME NEW m \in Nat \ {0}, NEW x \in Nat
  PROVE  /\ x % m \in 0..(m - 1)
         /\ x < m => x % m = x
OBVIOUS

\* The elements of Append, Tail, \o and SubSeq.
LEMMA AppendRange ==
  ASSUME NEW S, NEW w \in Seq(S), NEW x \in S
  PROVE  Append(w, x) \in Seq(S) /\ Range(Append(w, x)) = Range(w) \cup {x}
<1>1. /\ Append(w, x) \in Seq(S) /\ Len(w) \in Nat
      /\ DOMAIN Append(w, x) = 1..(Len(w) + 1) /\ DOMAIN w = 1..Len(w)
  OBVIOUS
<1>2. \A i \in 1..Len(w) : Append(w, x)[i] = w[i]
  OBVIOUS
<1>3. Append(w, x)[Len(w) + 1] = x
  OBVIOUS
<1> QED
  BY <1>1, <1>2, <1>3 DEF Range

\* The places of a sequence after an Append.
LEMMA AppendElements ==
  ASSUME NEW S, NEW w \in Seq(S), NEW x \in S
  PROVE  /\ DOMAIN Append(w, x) = 1..(Len(w) + 1) /\ DOMAIN w = 1..Len(w)
         /\ Len(w) \in Nat /\ Len(Append(w, x)) = Len(w) + 1
         /\ \A i \in DOMAIN w : Append(w, x)[i] = w[i]
         /\ Append(w, x)[Len(w) + 1] = x
OBVIOUS

\* A sequence holds only elements of its set.
LEMMA SeqElement ==
  ASSUME NEW S, NEW w \in Seq(S), NEW i \in DOMAIN w
  PROVE  w[i] \in S
OBVIOUS

\* Tail takes the head away and adds nothing.
LEMMA TailRange ==
  ASSUME NEW S, NEW w \in Seq(S), w # <<>>
  PROVE  /\ Tail(w) \in Seq(S) /\ Range(Tail(w)) \subseteq Range(w)
         /\ Head(w) \in S /\ Head(w) \in Range(w)
BY DEF Range

\* A part of a sequence holds nothing else.
LEMMA SubSeqRange ==
  ASSUME NEW S, NEW w \in Seq(S), NEW i \in 1..(Len(w) + 1), NEW j \in 0..Len(w)
  PROVE  SubSeq(w, i, j) \in Seq(S) /\ Range(SubSeq(w, i, j)) \subseteq Range(w)
BY DEF Range

\* \o holds what its two arguments hold.
LEMMA ConcatRange ==
  ASSUME NEW S, NEW w \in Seq(S), NEW v \in Seq(S)
  PROVE  w \o v \in Seq(S) /\ Range(w \o v) = Range(w) \cup Range(v)
<1>1. /\ w \o v \in Seq(S) /\ Len(w) \in Nat /\ Len(v) \in Nat
      /\ DOMAIN (w \o v) = 1..(Len(w) + Len(v))
      /\ DOMAIN w = 1..Len(w) /\ DOMAIN v = 1..Len(v)
  OBVIOUS
<1>2. \A i \in 1..Len(w) : (w \o v)[i] = w[i]
  OBVIOUS
<1>3. \A i \in 1..Len(v) :
        Len(w) + i \in DOMAIN (w \o v) /\ (w \o v)[Len(w) + i] = v[i]
  BY <1>1
<1>4. \A i \in (Len(w) + 1)..(Len(w) + Len(v)) :
        (w \o v)[i] = v[i - Len(w)] /\ i - Len(w) \in 1..Len(v)
  BY <1>1
<1>5. Range(w \o v) \subseteq Range(w) \cup Range(v)
  BY <1>1, <1>2, <1>4 DEF Range
<1>6. Range(w) \subseteq Range(w \o v)
  BY <1>1, <1>2 DEF Range
<1>7. Range(v) \subseteq Range(w \o v)
  BY <1>1, <1>3 DEF Range
<1> QED
  BY <1>1, <1>5, <1>6, <1>7

-----------------------------------------------------------------------------
(* The wires *)

\* There are two sides, each the other's peer.
LEMMA PeerFacts ==
  ASSUME NEW n \in Nodes
  PROVE  Peer(n) \in Nodes /\ Peer(n) # n /\ Peer(Peer(n)) = n
         /\ \A m \in Nodes : m = n \/ m = Peer(n)
BY DEF Nodes, Peer

\* Bytes and blocks are items.
LEMMA ItemFacts ==
  ASSUME TypeOK
  PROVE  /\ \A k \in Kinds : Byte(k) \in Item /\ Byte(k).kind = k
         /\ Junk \in Item /\ Bad \in Item /\ Junk.kind # "BLK" /\ Bad.kind # "BLK"
         /\ \A n \in Nodes, e \in 0..ErrCap, id \in Nat, w \in BOOLEAN :
              /\ BlockOf(n, e, id, w) \in Item
              /\ BlockOf(n, e, id, w).kind = "BLK"
              /\ BlockOf(n, e, id, w).no = SendBlkNo[n] % BlkMod
              /\ BlockOf(n, e, id, w).id = id
<1>1. \A k \in Kinds : Byte(k) \in Item /\ Byte(k).kind = k
  BY DEF Byte, Item, ErrCap, MAX_ERRORS
<1>2. Junk \in Item /\ Bad \in Item /\ Junk.kind # "BLK" /\ Bad.kind # "BLK"
  BY <1>1 DEF Junk, Bad, Kinds, Byte
<1>3. \A n \in Nodes : SendBlkNo[n] % BlkMod \in Nat
  BY SerConstants, ModRange DEF TypeOK
<1>4. ASSUME NEW n \in Nodes, NEW e \in 0..ErrCap, NEW id \in Nat, NEW w \in BOOLEAN
      PROVE  /\ BlockOf(n, e, id, w) \in Item
             /\ BlockOf(n, e, id, w).kind = "BLK"
             /\ BlockOf(n, e, id, w).no = SendBlkNo[n] % BlkMod
             /\ BlockOf(n, e, id, w).id = id
  BY <1>3 DEF BlockOf, Item, Kinds
<1> QED
  BY <1>1, <1>2, <1>4

\* ClearCom leaves nothing that was not there, except stray bytes.
LEMMA ClearComFacts ==
  ASSUME TypeOK, NEW w \in Seq(Item), NEW v \in ClearCom(w)
  PROVE  v \in Seq(Item) /\ Range(v) \subseteq Range(w) \cup {Junk}
<1>1. ASSUME NEW k \in 0..Len(w)
      PROVE  /\ SubSeq(w, k + 1, Len(w)) \in Seq(Item)
             /\ Range(SubSeq(w, k + 1, Len(w))) \subseteq Range(w)
  <2>1. k + 1 \in 1..(Len(w) + 1) /\ Len(w) \in 0..Len(w)
    OBVIOUS
  <2> QED
    BY <2>1, SubSeqRange
<1>2. <<Junk>> \in Seq(Item) /\ Range(<<Junk>>) = {Junk}
  BY ItemFacts DEF Range
<1>3. CASE \E k \in 0..Len(w) : v = SubSeq(w, k + 1, Len(w))
  BY <1>1, <1>3
<1>4. CASE \E k \in 1..Len(w) : v = <<Junk>> \o SubSeq(w, k + 1, Len(w))
  <2>1. PICK k \in 1..Len(w) : v = <<Junk>> \o SubSeq(w, k + 1, Len(w))
    BY <1>4
  <2>2. k \in 0..Len(w)
    OBVIOUS
  <2>3. /\ v \in Seq(Item)
        /\ Range(v) = Range(<<Junk>>) \cup Range(SubSeq(w, k + 1, Len(w)))
    <3> DEFINE u == SubSeq(w, k + 1, Len(w))
    <3>1. u \in Seq(Item) /\ <<Junk>> \in Seq(Item)
      BY <1>1, <1>2, <2>2
    <3> HIDE DEF u
    <3>2. <<Junk>> \o u \in Seq(Item) /\ Range(<<Junk>> \o u) = Range(<<Junk>>) \cup Range(u)
      BY ZenonT(40), <3>1, ConcatRange
    <3> QED
      BY <2>1, <3>2 DEF u
  <2> QED
    BY <1>1, <1>2, <2>2, <2>3
<1> QED
  BY <1>3, <1>4 DEF ClearCom

\* ReadAndSend removes from one wire and adds s to the other.
LEMMA ReadAndSendFacts ==
  ASSUME TypeOK, NEW n \in Nodes, NEW s \in Seq(Item), wire[n] # <<>>,
         ReadAndSend(n, s)
  PROVE  /\ wire' \in [Nodes -> Seq(Item)]
         /\ Range(wire'[n]) \subseteq Range(wire[n])
         /\ Range(wire'[Peer(n)]) = Range(wire[Peer(n)]) \cup Range(s)
<1>1. wire[n] \in Seq(Item) /\ wire[Peer(n)] \in Seq(Item)
  BY PeerFacts DEF TypeOK
<1>2. wire' = [wire EXCEPT ![n] = Tail(wire[n]), ![Peer(n)] = wire[Peer(n)] \o s]
  BY PeerFacts DEF ReadAndSend, TypeOK
<1>3. wire'[n] = Tail(wire[n]) /\ wire'[Peer(n)] = wire[Peer(n)] \o s
  BY <1>2, PeerFacts DEF TypeOK
<1>4. wire' \in [Nodes -> Seq(Item)]
  BY <1>1, <1>2, TailRange, ConcatRange, PeerFacts DEF TypeOK
<1> QED
  BY <1>1, <1>3, <1>4, TailRange, ConcatRange

\* What a step that starts no BlockSend may put on a wire.
Harmless(n) == { Byte(k) : k \in Kinds \ {"BLK"} } \cup
               (IF Busy(n) THEN {Block(n)} ELSE {})
WireStep ==
  /\ wire' \in [Nodes -> Seq(Item)]
  /\ \A m \in Nodes :
       Range(wire'[m]) \subseteq Range(wire[m]) \cup Harmless(Peer(m))

\* Reading one item and sending harmless ones is a WireStep.
LEMMA ReadAndSendStep ==
  ASSUME TypeOK, NEW n \in Nodes, NEW s \in Seq(Item), wire[n] # <<>>,
         ReadAndSend(n, s), Range(s) \subseteq Harmless(n)
  PROVE  WireStep
<1>1. /\ wire' \in [Nodes -> Seq(Item)]
      /\ Range(wire'[n]) \subseteq Range(wire[n])
      /\ Range(wire'[Peer(n)]) = Range(wire[Peer(n)]) \cup Range(s)
  BY ReadAndSendFacts
<1> QED
  BY <1>1, PeerFacts DEF WireStep

\* So is discarding part of a wire and sending one harmless item, or none.
LEMMA AppendStep ==
  ASSUME TypeOK, NEW n \in Nodes, NEW left \in Seq(Item),
         Range(left) \subseteq Range(wire[n]) \cup {Junk},
         NEW x \in Item, x \in Harmless(n),
         wire' \in { [wire EXCEPT ![n] = left,
                                  ![Peer(n)] = Append(wire[Peer(n)], x)],
                     [wire EXCEPT ![n] = left] }
  PROVE  WireStep
<1>1. Junk \in Harmless(Peer(n))
  BY DEF Harmless, Junk, Kinds
<1>2. /\ Append(wire[Peer(n)], x) \in Seq(Item)
      /\ Range(Append(wire[Peer(n)], x)) = Range(wire[Peer(n)]) \cup {x}
  BY SMTT(40), AppendRange, PeerFacts DEF TypeOK
<1>3. wire' \in [Nodes -> Seq(Item)]
  BY <1>2 DEF TypeOK
<1>4. wire'[n] = left /\ wire'[Peer(n)] \in {Append(wire[Peer(n)], x), wire[Peer(n)]}
  BY PeerFacts DEF TypeOK
<1>5. /\ Range(wire'[n]) \subseteq Range(wire[n]) \cup Harmless(Peer(n))
      /\ Range(wire'[Peer(n)]) \subseteq Range(wire[Peer(n)]) \cup Harmless(n)
  BY <1>1, <1>2, <1>4
<1> QED
  BY <1>3, <1>5, PeerFacts DEF WireStep

-----------------------------------------------------------------------------
(* What the invariant says of one side *)

\* What is on a wire is typed.
LEMMA BlockFacts ==
  ASSUME TypeOK, NEW n \in Nodes, NEW x \in Blocks(n)
  PROVE  x \in Item /\ x.no \in Nat /\ x.id \in Nat /\ x.kind = "BLK"
<1>1. wire[Peer(n)] \in Seq(Item)
  BY PeerFacts DEF TypeOK
<1>2. x \in Item /\ x.kind = "BLK"
  BY <1>1 DEF Blocks, Range
<1> QED
  BY <1>2 DEF Item

\* Neither side numbers a packet beyond the last request.
LEMMA PutBound ==
  ASSUME IInv, NEW n \in Nodes
  PROVE  put[n] \in Nat /\ put[n] <= MaxPuts
<1>1. put["client"] \in Nat /\ put["client"] <= MaxPuts /\ put["server"] \in Nat
  BY DEF IInv, TypeOK, ServerAgrees, Nodes
<1>2. ASSUME put["server"] # 0
      PROVE  put["server"] <= put["client"]
  <2>1. /\ got["server"] \in Seq([id : Nat, full : BOOLEAN])
        /\ got["server"] # <<>>
        /\ put["server"] <= Last(got["server"]).id
    BY <1>2 DEF IInv, TypeOK, ServerAgrees, Nodes
  <2>2. Len(got["server"]) \in DOMAIN got["server"]
    BY <2>1
  <2>3. Last(got["server"]).id <= put["client"]
    <3>1. "server" \in Nodes /\ Peer("server") = "client"
      BY DEF Nodes, Peer
    <3> QED
      BY <2>2, <3>1 DEF IInv, InOrderOnce, Last
  <2>4. Last(got["server"]).id \in Nat
    <3>1. Last(got["server"]) \in [id : Nat, full : BOOLEAN]
      BY <2>1, <2>2, SeqElement DEF Last
    <3> QED
      BY <3>1
  <2> QED
    BY <1>1, <2>1, <2>3, <2>4
<1> QED
  BY <1>1, <1>2, SerConstants DEF Nodes

\* No counter in use reaches the size of a block number.
LEMMA NoNumberWraps ==
  ASSUME IInv, NoWrap, NEW n \in Nodes
  PROVE  /\ SendBlkNo[n] \in Nat /\ ReceiveBlkNo[n] \in Nat
         /\ Busy(n) => SendBlkNo[n] < BlkMod /\ SendBlkNo[n] + 1 < IntMod
         /\ SendBlkNo[n] < BlkMod /\ ReceiveBlkNo[n] < BlkMod
<1>1. put[n] \in Nat /\ put[n] <= MaxPuts /\ put[Peer(n)] \in Nat
      /\ put[Peer(n)] <= MaxPuts
  BY PutBound, PeerFacts
<1>2. /\ SendBlkNo[n] \in Nat /\ ReceiveBlkNo[n] \in Nat
      /\ SendBlkNo[n] <= put[n] + 1 /\ ReceiveBlkNo[n] <= put[Peer(n)] + 1
      /\ Busy(n) => SendBlkNo[n] <= put[n]
  BY PeerFacts, SerConstants DEF IInv, TypeOK, CountersAgree
<1> QED
  BY <1>1, <1>2, SerConstants DEF NoWrap

-----------------------------------------------------------------------------
(* Steps that neither start a BlockSend nor move a block number *)

QuietStep ==
  /\ UNCHANGED <<SendBlkNo, ReceiveBlkNo, put, got>>
  /\ \A n \in Nodes : Busy(n)' => Busy(n)
  /\ WireStep
  /\ pc'["client"] # "exec" /\ pc'["server"] \notin {"app", "stopped"}
  /\ pc'["server"] \in {"exec", "resyncGet"} =>
       pc["server"] \in {"exec", "resyncGet"}

\* Such a step keeps the invariant.
LEMMA QuietKeeps ==
  ASSUME IInv, NoWrap, TypeOK', QuietStep
  PROVE  IInv'
<1>1. \A n \in Nodes : \A x \in Blocks(n)' :
        \/ x \in Blocks(n)
        \/ Busy(n) /\ x.no = SendBlkNo[n] /\ x.id = put[n]
  <2> SUFFICES ASSUME NEW n \in Nodes, NEW x \in Blocks(n)', x \notin Blocks(n)
               PROVE  Busy(n) /\ x.no = SendBlkNo[n] /\ x.id = put[n]
    OBVIOUS
  <2>1. x \in Harmless(n) /\ x.kind = "BLK"
    BY PeerFacts DEF Blocks, QuietStep, WireStep
  <2>2. \A k \in Kinds : Byte(k).kind = k
    BY DEF Byte
  <2>3. Busy(n) /\ x = Block(n)
    BY <2>1, <2>2 DEF Harmless
  <2>4. SendBlkNo[n] \in Nat /\ SendBlkNo[n] < BlkMod
    BY NoNumberWraps
  <2>5. SendBlkNo[n] % BlkMod = SendBlkNo[n]
    BY <2>4, ModRange, SerConstants
  <2> QED
    BY <2>3, <2>5 DEF Block, BlockOf
<1> DEFINE Same == UNCHANGED <<SendBlkNo, ReceiveBlkNo, put, got>>
<1>2. Same /\ \A n \in Nodes : Busy(n)' => Busy(n)
  BY DEF QuietStep
<1>3. InOrderOnce'
  BY <1>2 DEF IInv, InOrderOnce
<1>4. CountersAgree'
  BY <1>2 DEF IInv, CountersAgree
<1>5. SendingAgrees'
  BY <1>2 DEF IInv, SendingAgrees
<1>6. ServerAgrees'
  BY <1>2 DEF IInv, ServerAgrees, QuietStep
<1>7. BlocksAgree'
  <2> SUFFICES ASSUME NEW n \in Nodes, NEW x \in Blocks(n)'
      PROVE  /\ x.no <= SendBlkNo[n] /\ x.no <= put[n] /\ x.id \in 1..put[n]
             /\ Busy(n) /\ x.no < SendBlkNo[n] => x.id < put[n]
             /\ \A y \in Blocks(n)' : x.no < y.no => x.id < y.id
             /\ ReceiveBlkNo[Peer(n)] <= x.no =>
                  \A i \in DOMAIN got[Peer(n)] : got[Peer(n)][i].id < x.id
    BY <1>2 DEF BlocksAgree
  <2>1. /\ SendBlkNo[n] \in Nat /\ put[n] \in Nat
        /\ Busy(n) => SendBlkNo[n] <= put[n] /\ 0 < put[n]
    BY SerConstants DEF IInv, TypeOK, CountersAgree
  <2>2. CASE x \in Blocks(n)
    <3>1. /\ x.no <= SendBlkNo[n] /\ x.no <= put[n] /\ x.id \in 1..put[n]
          /\ Busy(n) /\ x.no < SendBlkNo[n] => x.id < put[n]
          /\ \A y \in Blocks(n) : x.no < y.no => x.id < y.id
          /\ ReceiveBlkNo[Peer(n)] <= x.no =>
               \A i \in DOMAIN got[Peer(n)] : got[Peer(n)][i].id < x.id
      BY <2>2 DEF IInv, BlocksAgree
    <3>2. \A y \in Blocks(n)' : x.no < y.no => x.id < y.id
      BY <1>1, <3>1
    <3> QED
      BY <3>1, <3>2
  <2>3. CASE Busy(n) /\ x.no = SendBlkNo[n] /\ x.id = put[n]
    <3>1. \A y \in Blocks(n)' : ~ x.no < y.no
      <4> SUFFICES ASSUME NEW y \in Blocks(n)' PROVE ~ x.no < y.no
        OBVIOUS
      <4>1. CASE y \in Blocks(n)
        BY <2>1, <2>3, <4>1, BlockFacts DEF IInv, BlocksAgree
      <4>2. CASE y.no = SendBlkNo[n]
        BY <2>1, <2>3, <4>2
      <4> QED
        BY <1>1, <4>1, <4>2
    <3>2. ReceiveBlkNo[Peer(n)] <= x.no =>
            \A i \in DOMAIN got[Peer(n)] : got[Peer(n)][i].id < x.id
      BY <2>3 DEF IInv, SendingAgrees
    <3> QED
      BY <2>1, <2>3, <3>1, <3>2
  <2> QED
    BY <1>1, <2>2, <2>3
<1> QED
  BY <1>3, <1>4, <1>5, <1>6, <1>7 DEF IInv

\* Control bytes and a block being sent are harmless.
LEMMA HarmlessFacts ==
  ASSUME TypeOK, NEW n \in Nodes
  PROVE  /\ \A k \in Kinds \ {"BLK"} : /\ Byte(k) \in Harmless(n)
                                     /\ <<Byte(k)>> \in Seq(Item)
                                     /\ Range(<<Byte(k)>>) = {Byte(k)}
         /\ <<>> \in Seq(Item) /\ Range(<<>>) = {}
         /\ Block(n) \in Item /\ (Busy(n) => Block(n) \in Harmless(n))
         /\ LastResponse[n] \in Kinds \ {"BLK"}
<1>1. \A k \in Kinds : Byte(k) \in Item
  BY ItemFacts
<1>2. \A k \in Kinds \ {"BLK"} : Byte(k) \in Harmless(n)
  BY DEF Harmless
<1>3. \A x \in Item : <<x>> \in Seq(Item) /\ Range(<<x>>) = {x}
  BY DEF Range
<1>4. <<>> \in Seq(Item) /\ Range(<<>>) = {}
  BY DEF Range
<1>5. Block(n) \in Item /\ (Busy(n) => Block(n) \in Harmless(n))
  BY SMTT(40), ItemFacts DEF Block, TypeOK, Harmless
<1>6. LastResponse[n] \in Kinds \ {"BLK"}
  BY DEF TypeOK, Kinds, Replies
<1> QED
  BY <1>1, <1>2, <1>3, <1>4, <1>5, <1>6

\* The steps of BlockSend's loop, except the one that ends it well.
LEMMA SendingIsQuiet ==
  ASSUME TypeOK, ServerAgrees, NEW n \in Nodes, Sending(n), ~AckRead(n)
  PROVE  TypeOK' /\ QuietStep
<1>1. Worse(Errors[n]) \in 0..ErrCap
  <2>1. Errors[n] \in 0..3 /\ ErrCap = 3
    BY DEF TypeOK, ErrCap, MAX_ERRORS
  <2> QED
    BY <2>1 DEF Worse
<1>2. CASE NakRead(n)
  <2>1. wire[n] # <<>> /\ ReadAndSend(n, <<Block(n)>>) /\ Busy(n)
    BY <1>2 DEF NakRead, NextIs, Busy
  <2>2. <<Block(n)>> \in Seq(Item) /\ Range(<<Block(n)>>) \subseteq Harmless(n)
    BY <2>1, HarmlessFacts DEF Range
  <2>3. WireStep
    BY <2>1, <2>2, ReadAndSendStep
  <2>4. TypeOK'
    <3>1. Errors' \in [Nodes -> 0..ErrCap] /\ waits' \in [Nodes -> 0..MaxWaits]
      BY <1>1, <1>2, SerConstants DEF NakRead, TypeOK
    <3> QED
      BY <1>2, <2>3, <3>1 DEF NakRead, TypeOK, WireStep, host
  <2> QED
    BY <1>2, <2>3, <2>4 DEF NakRead, QuietStep, host, Busy, ServerAgrees
<1>3. CASE RlrRead(n)
  <2> DEFINE s == <<Byte(LastResponse[n]), Block(n)>>
  <2>1. wire[n] # <<>> /\ ReadAndSend(n, s) /\ Busy(n)
    BY <1>3 DEF RlrRead, NextIs, Busy
  <2>2. Byte(LastResponse[n]) \in Item \cap Harmless(n) /\ Block(n) \in Item \cap Harmless(n)
    BY <2>1, HarmlessFacts, ItemFacts
  <2>3. s \in Seq(Item) /\ Range(s) \subseteq Harmless(n)
    BY <2>2 DEF Range
  <2>4. WireStep
    BY <2>1, <2>3, ReadAndSendStep
  <2>5. TypeOK'
    <3>1. waits' \in [Nodes -> 0..MaxWaits]
      BY <1>3, SerConstants DEF RlrRead, TypeOK
    <3> QED
      BY <1>3, <2>4, <3>1 DEF RlrRead, TypeOK, WireStep, host
  <2> QED
    BY <1>3, <2>4, <2>5 DEF RlrRead, QuietStep, host, Busy, ServerAgrees
<1>4. CASE MessRead(n) \/ DrainRead(n)
  <2>1. wire[n] # <<>> /\ ReadAndSend(n, <<>>) /\ Busy(n)
    BY <1>4 DEF MessRead, DrainRead, Busy
  <2>2. WireStep
    BY <2>1, HarmlessFacts, ReadAndSendStep
  <2>3. TypeOK'
    BY <1>4, <2>2 DEF MessRead, DrainRead, TypeOK, WireStep, host, link
  <2> QED
    BY <1>4, <2>2, <2>3
    DEF MessRead, DrainRead, QuietStep, host, link, Busy, ServerAgrees, Nodes, TypeOK
<1>5. CASE AckTimeOut(n) \/ DrainQuiet(n)
  <2>1. RequestLastResponse(n) /\ Busy(n)
    BY <1>5 DEF AckTimeOut, DrainQuiet, Busy
  <2>2. wire' = [wire EXCEPT ![n] = wire[n],
                             ![Peer(n)] = Append(wire[Peer(n)], Byte("RLR"))]
    BY <2>1, PeerFacts DEF RequestLastResponse, TypeOK
  <2>3. Byte("RLR") \in Item /\ Byte("RLR") \in Harmless(n)
    BY HarmlessFacts, ItemFacts DEF Kinds, Replies
  <2>4. WireStep
    BY <2>2, <2>3, AppendStep DEF TypeOK
  <2>5. TypeOK'
    <3>1. Errors' \in [Nodes -> 0..ErrCap] /\ waits' \in [Nodes -> 0..MaxWaits]
      BY <1>1, <2>1, SerConstants DEF RequestLastResponse, TypeOK
    <3>2. CASE AckTimeOut(n)
      BY <3>1, <3>2, <2>4 DEF AckTimeOut, TypeOK, WireStep, host
    <3>3. CASE DrainQuiet(n)
      BY <3>1, <3>3, <2>4 DEF DrainQuiet, TypeOK, WireStep, host
    <3> QED
      BY <1>5, <3>2, <3>3
  <2> QED
    BY <1>5, <2>1, <2>4, <2>5
    DEF AckTimeOut, DrainQuiet, QuietStep, host, Busy, ServerAgrees, Nodes, TypeOK
<1>6. CASE GiveUp(n)
  <2>1. WireStep
    BY <1>6 DEF GiveUp, WireStep, TypeOK
  <2>2. TypeOK'
    BY <1>6 DEF GiveUp, TypeOK, host, link
  <2> QED
    BY <1>6, <2>1, <2>2
    DEF GiveUp, QuietStep, host, link, Busy, ServerAgrees, Nodes, TypeOK
<1> QED
  BY <1>2, <1>3, <1>4, <1>5, <1>6 DEF Sending

\* The steps of WaitReceive, except the one that accepts a block.
LEMMA ReceivingIsQuiet ==
  ASSUME TypeOK, ServerAgrees, NEW n \in Nodes, Receiving(n), ~RecvBlock(n)
  PROVE  TypeOK' /\ QuietStep
<1>1. /\ Byte("ACK") \in Item \cap Harmless(n)
      /\ Byte("NAK") \in Item \cap Harmless(n)
      /\ <<Byte("NAK")>> \in Seq(Item) /\ Range(<<Byte("NAK")>>) \subseteq Harmless(n)
  <2>1. {"ACK", "NAK"} \subseteq Kinds /\ {"ACK", "NAK"} \subseteq Kinds \ {"BLK"}
    BY DEF Kinds, Replies
  <2>2. Byte("ACK") \in Item /\ Byte("NAK") \in Item
    BY <2>1, ItemFacts
  <2>3. /\ Byte("ACK") \in Harmless(n) /\ Byte("NAK") \in Harmless(n)
        /\ <<Byte("NAK")>> \in Seq(Item) /\ Range(<<Byte("NAK")>>) = {Byte("NAK")}
    BY <2>1, HarmlessFacts
  <2> QED
    BY <2>2, <2>3
<1>2. ASSUME wire[n] # <<>>
      PROVE  /\ Tail(wire[n]) \in Seq(Item)
             /\ Range(Tail(wire[n])) \subseteq Range(wire[n])
             /\ \A left \in ClearCom(Tail(wire[n])) :
                  left \in Seq(Item) /\ Range(left) \subseteq Range(wire[n]) \cup {Junk}
  <2>1. wire[n] \in Seq(Item)
    BY DEF TypeOK
  <2>2. Tail(wire[n]) \in Seq(Item) /\ Range(Tail(wire[n])) \subseteq Range(wire[n])
    BY <1>2, <2>1, TailRange
  <2>3. ASSUME NEW left \in ClearCom(Tail(wire[n]))
        PROVE  left \in Seq(Item) /\ Range(left) \subseteq Range(wire[n]) \cup {Junk}
    BY <2>2, ClearComFacts
  <2> QED
    BY <2>2, <2>3
<1>3. CASE RecvOther(n)
  <2>1. PICK left \in ClearCom(Tail(wire[n])) :
          wire' = [wire EXCEPT ![n] = left,
                               ![Peer(n)] = Append(wire[Peer(n)], Byte("ACK"))]
    BY <1>3, PeerFacts DEF RecvOther, TypeOK
  <2>2. wire[n] # <<>>
    BY <1>3 DEF RecvOther, NextIs
  <2>3. WireStep
    BY <1>1, <1>2, <2>1, <2>2, AppendStep
  <2>4. TypeOK'
    BY <1>3, <2>3 DEF RecvOther, TypeOK, WireStep, host
  <2> QED
    BY <1>3, <2>3, <2>4 DEF RecvOther, QuietStep, host, Busy, ServerAgrees
<1>4. CASE RecvDamaged(n)
  <2>1. PICK left \in ClearCom(Tail(wire[n])), nak \in BOOLEAN :
          /\ LastResponse' = IF nak THEN [LastResponse EXCEPT ![n] = "NAK"]
                                    ELSE LastResponse
          /\ wire' = [wire EXCEPT ![n] = left,
                        ![Peer(n)] = IF nak THEN Append(@, Byte("NAK")) ELSE @]
    BY <1>4 DEF RecvDamaged
  <2>2. wire[n] # <<>>
    BY <1>4 DEF RecvDamaged
  <2>3. wire' \in { [wire EXCEPT ![n] = left,
                        ![Peer(n)] = Append(wire[Peer(n)], Byte("NAK"))],
                    [wire EXCEPT ![n] = left] }
    <3>1. wire \in [Nodes -> Seq(Item)] /\ Peer(n) \in Nodes /\ Peer(n) # n
      BY PeerFacts DEF TypeOK
    <3>2. CASE nak
      <4>1. wire' = [wire EXCEPT ![n] = left,
                       ![Peer(n)] = Append(wire[Peer(n)], Byte("NAK"))]
        BY <2>1, <3>1, <3>2
      <4> QED
        BY <4>1
    <3>3. CASE ~nak
      <4>1. wire' = [wire EXCEPT ![n] = left]
        BY <2>1, <3>1, <3>3
      <4> QED
        BY <4>1
    <3> QED
      BY <3>2, <3>3
  <2>4. WireStep
    BY <1>1, <1>2, <2>2, <2>3, AppendStep
  <2>5. LastResponse' \in [Nodes -> {"ACK", "NAK"}]
    BY <2>1 DEF TypeOK
  <2>6. TypeOK'
    BY <1>4, <2>4, <2>5 DEF RecvDamaged, TypeOK, WireStep, host
  <2> QED
    BY <1>4, <2>4, <2>6 DEF RecvDamaged, QuietStep, host, Busy, ServerAgrees
<1>5. CASE RecvRlr(n) \/ RecvSkip(n)
  <2>1. wire[n] # <<>> /\ (ReadAndSend(n, <<Byte("NAK")>>) \/ ReadAndSend(n, <<>>))
    BY <1>5 DEF RecvRlr, RecvSkip, NextIs
  <2>2. WireStep
    BY <1>1, <2>1, HarmlessFacts, ReadAndSendStep
  <2>3. TypeOK'
    BY <1>5, <2>2 DEF RecvRlr, RecvSkip, TypeOK, WireStep, host, link
  <2> QED
    BY <1>5, <2>2, <2>3
    DEF RecvRlr, RecvSkip, QuietStep, host, link, Busy, ServerAgrees
<1> QED
  BY <1>3, <1>4, <1>5 DEF Receiving

\* Resynchronising, performing a request without a response, and line noise.
LEMMA OthersAreQuiet ==
  ASSUME TypeOK, ServerAgrees,
         \/ \E n \in Nodes : ReSyncRead(n) \/ Noise(n)
         \/ ReSyncHi \/ ReSyncDone \/ Performed
  PROVE  TypeOK' /\ QuietStep
<1>1. \A n \in Nodes : Junk \in Harmless(n) \cap Item /\ Bad \in Harmless(n) \cap Item
  BY HarmlessFacts, ItemFacts DEF Junk, Bad, Kinds
<1>2. ASSUME NEW n \in Nodes, ReSyncRead(n) PROVE TypeOK' /\ QuietStep
  <2>1. WireStep
    BY <1>2, HarmlessFacts, ReadAndSendStep DEF ReSyncRead
  <2>2. TypeOK'
    BY <1>2, <2>1 DEF ReSyncRead, TypeOK, WireStep, host, link
  <2> QED
    BY <1>2, <2>1, <2>2 DEF ReSyncRead, QuietStep, host, link, Busy, ServerAgrees
<1>3. ASSUME NEW n \in Nodes, Noise(n) PROVE TypeOK' /\ QuietStep
  <2>1. wire[n] \in Seq(Item)
    BY DEF TypeOK
  <2>2. ASSUME wire' = [wire EXCEPT ![n] = Append(@, Junk)]
        PROVE  WireStep
    <3>1. /\ Append(wire[n], Junk) \in Seq(Item)
          /\ Range(Append(wire[n], Junk)) = Range(wire[n]) \cup {Junk}
      BY <1>1, <2>1, AppendRange
    <3> QED
      BY <1>1, <2>2, <3>1, PeerFacts DEF WireStep, TypeOK
  <2>3. ASSUME NEW i \in 1..Len(wire[n]), NEW r \in Damaged(wire[n][i]),
               wire' = [wire EXCEPT ![n] = SubSeq(@, 1, i - 1) \o r
                                            \o SubSeq(@, i + 1, Len(@))]
        PROVE  WireStep
    <3> DEFINE a == SubSeq(wire[n], 1, i - 1)
               b == SubSeq(wire[n], i + 1, Len(wire[n]))
               c == a \o r
    <3>1. a \in Seq(Item) /\ Range(a) \subseteq Range(wire[n])
      <4>1. 1 \in 1..(Len(wire[n]) + 1) /\ i - 1 \in 0..Len(wire[n])
        BY <2>1
      <4> QED
        BY <2>1, <4>1, SubSeqRange
    <3>2. b \in Seq(Item) /\ Range(b) \subseteq Range(wire[n])
      <4>1. i + 1 \in 1..(Len(wire[n]) + 1) /\ Len(wire[n]) \in 0..Len(wire[n])
        BY <2>1
      <4> QED
        BY <2>1, <4>1, SubSeqRange
    <3>3. r \in Seq(Item) /\ Range(r) \subseteq {Junk, Bad}
      <4>1. r \in {<<>>, <<Junk>>, <<Bad>>}
        BY <2>3 DEF Damaged
      <4>2. {"JUNK", "BAD"} \subseteq Kinds \ {"BLK"}
        BY DEF Kinds
      <4> QED
        BY <4>1, <4>2, HarmlessFacts DEF Junk, Bad
    <3>4. wire' = [wire EXCEPT ![n] = c \o b]
      BY <2>3
    <3> HIDE DEF a, b
    <3>5. c \in Seq(Item) /\ Range(c) = Range(a) \cup Range(r)
      BY <3>1, <3>3, ConcatRange
    <3> HIDE DEF c
    <3>6. c \o b \in Seq(Item) /\ Range(c \o b) = Range(c) \cup Range(b)
      BY <3>2, <3>5, ConcatRange
    <3>7. Range(c \o b) \subseteq Range(wire[n]) \cup Harmless(Peer(n))
      BY <1>1, <3>1, <3>2, <3>3, <3>5, <3>6, PeerFacts
    <3> QED
      BY <3>4, <3>6, <3>7 DEF WireStep, TypeOK
  <2>4. WireStep
    BY <1>3, <2>2, <2>3 DEF Noise
  <2>5. TypeOK'
    BY SMTT(40), <1>3, <2>4 DEF Noise, TypeOK, WireStep, host, link
  <2> QED
    BY <1>3, <2>4, <2>5 DEF Noise, QuietStep, host, link, Busy, ServerAgrees
<1>4. CASE ReSyncHi
  <2>1. /\ wire' = [wire EXCEPT !["server"] = <<Junk>>]
        /\ <<Junk>> \in Seq(Item) /\ Range(<<Junk>>) = {Junk}
    BY <1>1, <1>4 DEF ReSyncHi, Range, Nodes
  <2>2. WireStep
    <3>1. "server" \in Nodes
      BY DEF Nodes
    <3>2. wire' \in [Nodes -> Seq(Item)]
      BY <2>1 DEF TypeOK
    <3>3. ASSUME NEW m \in Nodes
          PROVE  Range(wire'[m]) \subseteq Range(wire[m]) \cup Harmless(Peer(m))
      <4>1. CASE m = "server"
        <5>1. wire'[m] = <<Junk>>
          BY <2>1, <3>1, <4>1 DEF TypeOK
        <5>2. Junk \in Harmless(Peer(m))
          BY <1>1, PeerFacts
        <5> QED
          BY <2>1, <5>1, <5>2
      <4>2. CASE m # "server"
        BY <2>1, <4>2 DEF TypeOK
      <4> QED
        BY <4>1, <4>2
    <3> QED
      BY <3>2, <3>3 DEF WireStep
  <2>3. TypeOK'
    BY <1>4, <2>2 DEF ReSyncHi, TypeOK, WireStep, host, link
  <2> QED
    BY <1>4, <2>2, <2>3 DEF ReSyncHi, QuietStep, host, link, Busy, ServerAgrees
<1>5. CASE ReSyncDone
  <2>1. WireStep
    BY <1>5 DEF ReSyncDone, WireStep, Range
  <2>2. TypeOK'
    BY <1>5, <2>1 DEF ReSyncDone, TypeOK, WireStep, host, link, AfterPut, AfterGet
  <2> QED
    BY <1>5, <2>1, <2>2 DEF ReSyncDone, InReSync, AfterPut, AfterGet, QuietStep,
       host, link, Busy, ServerAgrees, Nodes
<1>6. CASE Performed
  <2>1. WireStep
    BY <1>6 DEF Performed, WireStep, TypeOK
  <2>2. TypeOK'
    BY <1>6 DEF Performed, TypeOK, host, link
  <2> QED
    BY <1>6, <2>1, <2>2
    DEF Performed, QuietStep, host, link, Busy, ServerAgrees, Nodes, TypeOK
<1> QED
  BY <1>2, <1>3, <1>4, <1>5, <1>6

-----------------------------------------------------------------------------
(* The three steps that move a number: a block is acknowledged, started,    *)
(* accepted                                                                *)

\* An acknowledgement ends BlockSend and keeps the invariant.
LEMMA AckReadKeeps ==
  ASSUME IInv, NoWrap, NEW n \in Nodes, AckRead(n)
  PROVE  IInv'
<1>0. TypeOK /\ pc[n] = "ack" /\ wire[n] # <<>> /\ ReadAndSend(n, <<>>)
  BY DEF IInv, AckRead, NextIs
<1>1. /\ wire' \in [Nodes -> Seq(Item)]
      /\ \A m \in Nodes : Range(wire'[m]) \subseteq Range(wire[m])
  <2>1. /\ wire' \in [Nodes -> Seq(Item)]
        /\ Range(wire'[n]) \subseteq Range(wire[n])
        /\ Range(wire'[Peer(n)]) = Range(wire[Peer(n)])
    BY <1>0, HarmlessFacts, ReadAndSendFacts
  <2> QED
    BY <2>1, PeerFacts
<1>2. /\ \A m \in Nodes : Blocks(m)' \subseteq Blocks(m)
      /\ \A m \in Nodes : \A x \in Blocks(m) : x.no \in Nat /\ x.id \in Nat
  BY <1>0, <1>1, PeerFacts, BlockFacts DEF Blocks
<1>3. /\ SendBlkNo[n] \in Nat /\ SendBlkNo[n] <= put[n]
      /\ (SendBlkNo[n] + 1) % IntMod = SendBlkNo[n] + 1
      /\ SendBlkNo[n] + 1 \in 0..(IntMod - 1)
  <2>1. Busy(n) /\ SendBlkNo[n] \in Nat /\ SendBlkNo[n] + 1 < IntMod
    BY <1>0, NoNumberWraps DEF Busy
  <2>2. (SendBlkNo[n] + 1) % IntMod = SendBlkNo[n] + 1
    BY <2>1, ModRange, SerConstants
  <2> QED
    BY <2>1, <2>2, SerConstants DEF IInv, CountersAgree
<1>4. SendBlkNo' = [SendBlkNo EXCEPT ![n] = SendBlkNo[n] + 1]
  BY <1>3 DEF AckRead, NextNo
<1>5. UNCHANGED <<ReceiveBlkNo, LastResponse, Errors, PrevErrors, waits,
                  put, want, got, faults>>
  BY DEF AckRead, host
<1>6. pc' \in { [pc EXCEPT ![n] = "resyncPut"], [pc EXCEPT ![n] = "app"],
                [pc EXCEPT ![n] = "recv"] }
  BY DEF AckRead, AfterPut
<1>7. TypeOK'
  BY <1>0, <1>1, <1>3, <1>4, <1>5, <1>6 DEF TypeOK
<1>8. ~Busy(n)' /\ \A m \in Nodes : Busy(m)' => Busy(m)
  BY <1>0, <1>6 DEF Busy, TypeOK
<1>9. InOrderOnce'
  BY <1>5 DEF IInv, InOrderOnce
<1>10. CountersAgree'
  <2> SUFFICES ASSUME NEW m \in Nodes
      PROVE  /\ SendBlkNo'[m] <= put[m] + 1
             /\ Busy(m)' => SendBlkNo'[m] <= put[m] /\ 0 < put[m]
             /\ ReceiveBlkNo[Peer(m)] <= SendBlkNo'[m] + 1
             /\ ReceiveBlkNo[Peer(m)] <= put[m] + 1
    BY <1>5 DEF CountersAgree
  <2>1. /\ SendBlkNo[m] \in Nat /\ put[m] \in Nat /\ ReceiveBlkNo[Peer(m)] \in Nat
        /\ SendBlkNo'[m] = IF m = n THEN SendBlkNo[m] + 1 ELSE SendBlkNo[m]
    BY SMTT(40), <1>0, <1>4, PeerFacts, SerConstants DEF TypeOK
  <2>2. /\ SendBlkNo[m] <= put[m] + 1
        /\ Busy(m) => SendBlkNo[m] <= put[m] /\ 0 < put[m]
        /\ ReceiveBlkNo[Peer(m)] <= SendBlkNo[m] + 1
        /\ ReceiveBlkNo[Peer(m)] <= put[m] + 1
    BY DEF IInv, CountersAgree
  <2>3. CASE m = n
    BY <1>3, <1>8, <2>1, <2>2, <2>3
  <2>4. CASE m # n
    BY <1>8, <2>1, <2>2, <2>4
  <2> QED
    BY <2>3, <2>4
<1>11. BlocksAgree'
  <2> SUFFICES ASSUME NEW m \in Nodes, NEW x \in Blocks(m)'
      PROVE  /\ x.no <= SendBlkNo'[m] /\ x.no <= put[m] /\ x.id \in 1..put[m]
             /\ Busy(m)' /\ x.no < SendBlkNo'[m] => x.id < put[m]
             /\ \A y \in Blocks(m)' : x.no < y.no => x.id < y.id
             /\ ReceiveBlkNo[Peer(m)] <= x.no =>
                  \A i \in DOMAIN got[Peer(m)] : got[Peer(m)][i].id < x.id
    BY <1>5 DEF BlocksAgree
  <2>1. /\ x.no <= SendBlkNo[m] /\ x.no <= put[m] /\ x.id \in 1..put[m]
        /\ Busy(m) /\ x.no < SendBlkNo[m] => x.id < put[m]
        /\ \A y \in Blocks(m) : x.no < y.no => x.id < y.id
        /\ ReceiveBlkNo[Peer(m)] <= x.no =>
             \A i \in DOMAIN got[Peer(m)] : got[Peer(m)][i].id < x.id
        /\ x.no \in Nat
    BY <1>2 DEF IInv, BlocksAgree
  <2>2. CASE m = n
    <3>1. SendBlkNo'[m] = SendBlkNo[m] + 1 /\ SendBlkNo[m] \in Nat /\ ~Busy(m)'
      BY <1>0, <1>3, <1>4, <1>8, <2>2 DEF TypeOK
    <3> QED
      BY <1>2, <2>1, <3>1
  <2>3. CASE m # n
    <3>1. SendBlkNo'[m] = SendBlkNo[m] /\ (Busy(m)' => Busy(m))
      BY <1>0, <1>4, <1>8, <2>3 DEF TypeOK
    <3> QED
      BY <1>2, <2>1, <3>1
  <2> QED
    BY <2>2, <2>3
<1>12. SendingAgrees'
  BY <1>0, <1>4, <1>5, <1>8 DEF IInv, SendingAgrees, TypeOK
<1>13. ServerAgrees'
  BY <1>0, <1>5, <1>6 DEF IInv, ServerAgrees, TypeOK, Nodes, AckRead, AfterPut
<1> QED
  BY <1>7, <1>9, <1>10, <1>11, <1>12, <1>13 DEF IInv

\* Starting a BlockSend with a packet newer than the last keeps it.
LEMMA BlockSendKeeps ==
  ASSUME IInv, NoWrap, NEW n \in Nodes, NEW id \in Nat, NEW w \in BOOLEAN,
         BlockSend(n, id, w), pc[n] \in {"app", "exec"}, put[n] < id,
         id <= MaxPuts,
         n = "server" => got["server"] # <<>> /\ id = Last(got["server"]).id
  PROVE  IInv'
<1>0. TypeOK /\ ~Busy(n)
  BY DEF IInv, Busy
<1> DEFINE b == BlockOf(n, Errors[n], id, w)
<1>1. b \in Item /\ b.kind = "BLK" /\ b.no = SendBlkNo[n] /\ b.id = id
  <2>1. Errors[n] \in 0..ErrCap
    BY <1>0 DEF TypeOK
  <2>2. b \in Item /\ b.kind = "BLK" /\ b.no = SendBlkNo[n] % BlkMod /\ b.id = id
    BY <1>0, <2>1, ItemFacts
  <2>3. SendBlkNo[n] % BlkMod = SendBlkNo[n]
    BY NoNumberWraps, ModRange, SerConstants
  <2> QED
    BY <2>2, <2>3
<1> HIDE DEF b
<1>2. PICK left \in ClearCom(wire[n]) :
        wire' = [wire EXCEPT ![n] = left, ![Peer(n)] = Append(wire[Peer(n)], b)]
  BY <1>0, PeerFacts DEF BlockSend, TypeOK, b
<1>3. left \in Seq(Item) /\ Range(left) \subseteq Range(wire[n]) \cup {Junk}
  BY <1>0, ClearComFacts DEF TypeOK
<1>4. /\ Append(wire[Peer(n)], b) \in Seq(Item)
      /\ Range(Append(wire[Peer(n)], b)) = Range(wire[Peer(n)]) \cup {b}
  BY SMTT(40), <1>0, <1>1, AppendRange, PeerFacts DEF TypeOK
<1>5. wire' \in [Nodes -> Seq(Item)]
  BY <1>0, <1>2, <1>3, <1>4 DEF TypeOK
<1>6. /\ wire'[n] = left
      /\ wire'[Peer(n)] = Append(wire[Peer(n)], b)
  BY <1>0, <1>2, PeerFacts DEF TypeOK
<1>7. /\ Blocks(n)' = Blocks(n) \cup {b}
      /\ Blocks(Peer(n))' \subseteq Blocks(Peer(n))
  BY <1>0, <1>1, <1>3, <1>4, <1>6, ItemFacts, PeerFacts DEF Blocks
<1>8. /\ UNCHANGED <<SendBlkNo, ReceiveBlkNo, LastResponse, got, faults>>
      /\ pc' = [pc EXCEPT ![n] = "ack"]
      /\ PrevErrors' = [PrevErrors EXCEPT ![n] = Errors[n]]
      /\ Errors' = [Errors EXCEPT ![n] = 0]
      /\ waits' = [waits EXCEPT ![n] = 0]
      /\ put' = [put EXCEPT ![n] = id]
      /\ want' = [want EXCEPT ![n] = w]
  BY DEF BlockSend
<1>9. /\ put'[n] = id /\ put'[Peer(n)] = put[Peer(n)]
      /\ Busy(n)' /\ (Busy(Peer(n))' <=> Busy(Peer(n)))
  BY <1>0, <1>8, PeerFacts DEF TypeOK, Busy
<1>10. TypeOK'
  <2>1. Errors' \in [Nodes -> 0..ErrCap] /\ PrevErrors' \in [Nodes -> 0..ErrCap]
    <3>1. ErrCap = 3
      BY DEF ErrCap, MAX_ERRORS
    <3> QED
      BY <1>0, <1>8, <3>1 DEF TypeOK
  <2>2. waits' \in [Nodes -> 0..MaxWaits]
    BY <1>0, <1>8, SerConstants DEF TypeOK
  <2> QED
    BY <1>0, <1>5, <1>8, <2>1, <2>2 DEF TypeOK
<1>11. /\ SendBlkNo[n] \in Nat /\ put[n] \in Nat /\ SendBlkNo[n] <= put[n] + 1
       /\ \A i \in DOMAIN got[Peer(n)] : got[Peer(n)][i].id \in Nat
                                       /\ got[Peer(n)][i].id <= put[n]
       /\ \A x \in Blocks(n) : /\ x.no \in Nat /\ x.id \in Nat
                              /\ x.no <= SendBlkNo[n] /\ x.id <= put[n]
                              /\ x.no <= put[n]
  <2>1. \A i \in DOMAIN got[Peer(n)] : got[Peer(n)][i] \in [id : Nat, full : BOOLEAN]
    BY ZenonT(40), <1>0, PeerFacts, SeqElement DEF TypeOK
  <2>2. \A x \in Blocks(n) : x.no \in Nat /\ x.id \in Nat
    BY <1>0, BlockFacts
  <2>3. \A i \in DOMAIN got[Peer(n)] : got[Peer(n)][i].id <= put[n]
    BY PeerFacts DEF IInv, InOrderOnce
  <2>4. \A x \in Blocks(n) :
          x.no <= SendBlkNo[n] /\ x.id \in 1..put[n] /\ x.no <= put[n]
    BY DEF IInv, BlocksAgree
  <2>5. SendBlkNo[n] \in Nat /\ put[n] \in Nat /\ SendBlkNo[n] <= put[n] + 1
    BY <1>0, SerConstants DEF IInv, TypeOK, CountersAgree
  <2> QED
    BY <2>1, <2>2, <2>3, <2>4, <2>5
<1>12. InOrderOnce'
  <2>1. \A i \in DOMAIN got[Peer(n)] : got[Peer(n)][i].id <= id
    BY <1>11
  <2> QED
    BY <1>8, <1>9, <2>1, PeerFacts DEF IInv, InOrderOnce
<1>13. CountersAgree'
  <2>1. ReceiveBlkNo[Peer(n)] <= put[n] + 1 /\ ReceiveBlkNo[Peer(n)] \in Nat
    BY <1>0, PeerFacts, SerConstants DEF IInv, CountersAgree, TypeOK
  <2> QED
    BY <1>8, <1>9, <1>11, <2>1, PeerFacts DEF IInv, CountersAgree
<1>14. BlocksAgree'
  <2> SUFFICES ASSUME NEW m \in Nodes, NEW x \in Blocks(m)'
      PROVE  /\ x.no <= SendBlkNo[m] /\ x.no <= put'[m] /\ x.id \in 1..put'[m]
             /\ Busy(m)' /\ x.no < SendBlkNo[m] => x.id < put'[m]
             /\ \A y \in Blocks(m)' : x.no < y.no => x.id < y.id
             /\ ReceiveBlkNo[Peer(m)] <= x.no =>
                  \A i \in DOMAIN got[Peer(m)] : got[Peer(m)][i].id < x.id
    BY <1>8 DEF BlocksAgree
  <2>1. CASE m # n
    BY <1>7, <1>9, <2>1, PeerFacts DEF IInv, BlocksAgree
  <2>2. CASE m = n /\ x \in Blocks(n)
    <3>1. \A y \in Blocks(n)' : x.no < y.no => x.id < y.id
      BY <1>1, <1>7, <1>11, <2>2 DEF IInv, BlocksAgree
    <3> QED
      BY <1>9, <1>11, <2>2, <3>1 DEF IInv, BlocksAgree
  <2>3. CASE m = n /\ x = b
    <3>1. \A y \in Blocks(n)' : ~ x.no < y.no
      BY <1>1, <1>7, <1>11, <2>3
    <3> QED
      BY <1>1, <1>9, <1>11, <2>3, <3>1
  <2> QED
    BY <1>7, <2>1, <2>2, <2>3
<1>15. SendingAgrees'
  <2>1. \A i \in DOMAIN got[Peer(n)] : got[Peer(n)][i].id < id
    BY <1>11
  <2> QED
    BY <1>8, <1>9, <2>1, PeerFacts DEF IInv, SendingAgrees
<1>16. ServerAgrees'
  <2>1. CASE n = "client"
    BY <1>0, <1>8, <2>1 DEF IInv, ServerAgrees, TypeOK, Nodes
  <2>2. CASE n = "server"
    BY SMTT(40), <1>0, <1>8, <2>2 DEF IInv, ServerAgrees, TypeOK, Nodes
  <2> QED
    BY <2>1, <2>2 DEF Nodes
<1> QED
  BY <1>10, <1>12, <1>13, <1>14, <1>15, <1>16 DEF IInv

\* Accepting a block keeps it.
LEMMA RecvBlockKeeps ==
  ASSUME IInv, NoWrap, NEW p \in Nodes, RecvBlock(p)
  PROVE  IInv'
<1> DEFINE n == Peer(p)
           x == Head(wire[p])
           g == [id |-> x.id, full |-> ~(x.err > MAX_ERRORS)]
<1>0. /\ TypeOK /\ pc[p] = "recv" /\ wire[p] # <<>> /\ x.kind = "BLK"
      /\ ReadAndSend(p, <<Byte("ACK")>>)
      /\ n \in Nodes /\ n # p /\ Peer(n) = p /\ \A m \in Nodes : m = n \/ m = p
  BY PeerFacts DEF IInv, RecvBlock, Accepts, NextIs, Respond, Rubbish, Replies
<1>1. /\ wire' \in [Nodes -> Seq(Item)]
      /\ Range(wire'[p]) \subseteq Range(wire[p])
      /\ Range(wire'[n]) = Range(wire[n]) \cup {Byte("ACK")}
  <2>1. "ACK" \in Kinds \ {"BLK"}
    BY DEF Kinds, Replies
  <2> QED
    BY <1>0, <2>1, HarmlessFacts, ReadAndSendFacts
<1>2. \A m \in Nodes : Blocks(m)' \subseteq Blocks(m)
  <2>1. Byte("ACK").kind # "BLK"
    BY DEF Byte
  <2> QED
    BY <1>0, <1>1, <2>1, PeerFacts DEF Blocks
<1>3. x \in Blocks(n) /\ x \in Item /\ x.no \in Nat /\ x.id \in Nat /\ x.want \in BOOLEAN
  <2>1. x \in Item /\ x \in Range(wire[p])
    BY <1>0, TailRange DEF TypeOK
  <2> QED
    BY <1>0, <2>1 DEF Blocks, Item
<1>4. /\ x.no = ReceiveBlkNo[p]
      /\ ReceiveBlkNo' = [ReceiveBlkNo EXCEPT ![p] = (ReceiveBlkNo[p] + 1) % IntMod]
      /\ got' = [got EXCEPT ![p] = Append(got[p], g)]
      /\ want' = (IF p = "server" THEN [want EXCEPT ![p] = x.want] ELSE want)
      /\ pc' \in { [pc EXCEPT ![p] = "resyncGet"], [pc EXCEPT ![p] = AfterGet(p)] }
      /\ LastResponse' = [LastResponse EXCEPT ![p] = "ACK"]
      /\ UNCHANGED <<SendBlkNo, Errors, PrevErrors, waits, put, faults>>
  BY <1>0 DEF RecvBlock, Accepts, NextNo, Respond, TypeOK
<1>5. g \in [id : Nat, full : BOOLEAN] /\ g.id = x.id
  BY <1>3
<1> HIDE DEF g, x
<1>6. /\ x.no <= SendBlkNo[n] /\ x.no <= put[n] /\ x.id \in 1..put[n]
      /\ Busy(n) /\ x.no < SendBlkNo[n] => x.id < put[n]
      /\ \A y \in Blocks(n) : x.no < y.no => x.id < y.id
      /\ \A i \in DOMAIN got[p] : got[p][i].id < x.id
      /\ \A y \in Blocks(n) : y.no \in Nat /\ y.id \in Nat
      /\ SendBlkNo[n] \in Nat /\ put[n] \in Nat
  <2>1. /\ x.no <= SendBlkNo[n] /\ x.no <= put[n] /\ x.id \in 1..put[n]
        /\ Busy(n) /\ x.no < SendBlkNo[n] => x.id < put[n]
        /\ \A y \in Blocks(n) : x.no < y.no => x.id < y.id
        /\ ReceiveBlkNo[p] <= x.no => \A i \in DOMAIN got[p] : got[p][i].id < x.id
    BY <1>0, <1>3 DEF IInv, BlocksAgree
  <2>2. \A y \in Blocks(n) : y.no \in Nat /\ y.id \in Nat
    BY <1>0, BlockFacts
  <2>3. ReceiveBlkNo[p] <= x.no
    BY <1>3, <1>4
  <2>4. SendBlkNo[n] \in Nat /\ put[n] \in Nat
    BY <1>0, SerConstants DEF TypeOK
  <2> QED
    BY <2>1, <2>2, <2>3, <2>4
<1>7. /\ (ReceiveBlkNo[p] + 1) % IntMod = x.no + 1
      /\ x.no + 1 \in 0..(IntMod - 1)
  <2>1. x.no + 1 < IntMod
    <3>1. put[n] <= MaxPuts
      BY <1>0, PutBound
    <3> QED
      BY <1>3, <1>6, <3>1, SerConstants DEF NoWrap
  <2>2. (x.no + 1) % IntMod = x.no + 1
    BY <1>3, <2>1, ModRange, SerConstants
  <2> QED
    BY <1>3, <1>4, <2>1, <2>2, SerConstants
<1>8. /\ ReceiveBlkNo'[p] = x.no + 1 /\ ReceiveBlkNo'[n] = ReceiveBlkNo[n]
      /\ got'[p] = Append(got[p], g) /\ got'[n] = got[n]
  BY <1>0, <1>4, <1>7 DEF TypeOK
<1>9. TypeOK'
  <2>1. Append(got[p], g) \in Seq([id : Nat, full : BOOLEAN])
    BY <1>0, <1>5, AppendRange DEF TypeOK
  <2>2. got' \in [Nodes -> Seq([id : Nat, full : BOOLEAN])]
    BY <1>0, <1>4, <2>1 DEF TypeOK
  <2>3. ReceiveBlkNo' \in [Nodes -> 0..(IntMod - 1)]
    BY <1>0, <1>4, <1>7 DEF TypeOK
  <2>4. want' \in [Nodes -> BOOLEAN]
    BY <1>0, <1>3, <1>4 DEF TypeOK
  <2> QED
    BY <1>0, <1>1, <1>4, <2>2, <2>3, <2>4 DEF TypeOK, AfterGet
<1>10. \A m \in Nodes : Busy(m)' <=> Busy(m)
  BY <1>0, <1>4 DEF TypeOK, Busy, AfterGet
<1>11. /\ DOMAIN got'[p] = 1..(Len(got[p]) + 1) /\ DOMAIN got[p] = 1..Len(got[p])
       /\ Len(got[p]) \in Nat
       /\ \A i \in DOMAIN got[p] : got'[p][i] = got[p][i]
       /\ got'[p][Len(got[p]) + 1] = g /\ Len(got'[p]) = Len(got[p]) + 1
  <2>1. got[p] \in Seq([id : Nat, full : BOOLEAN])
    BY <1>0 DEF TypeOK
  <2> QED
    BY <1>5, <1>8, <2>1, AppendElements
<1>12. InOrderOnce'
  <2>1. \A i, j \in DOMAIN got[p] : i < j => got[p][i].id < got[p][j].id
    BY DEF IInv, InOrderOnce
  <2>2. \A i, j \in DOMAIN got'[p] : i < j => got'[p][i].id < got'[p][j].id
    <3> SUFFICES ASSUME NEW i \in DOMAIN got'[p], NEW j \in DOMAIN got'[p], i < j
                 PROVE  got'[p][i].id < got'[p][j].id
      OBVIOUS
    <3>1. i \in DOMAIN got[p]
      BY <1>11
    <3>2. CASE j \in DOMAIN got[p]
      BY <1>11, <2>1, <3>1, <3>2
    <3>3. CASE j = Len(got[p]) + 1
      BY <1>5, <1>6, <1>11, <3>1, <3>3
    <3> QED
      BY <1>11, <3>2, <3>3
  <2>3. \A i \in DOMAIN got'[p] : got'[p][i].id <= put[n]
    <3>1. \A i \in DOMAIN got[p] : got[p][i].id <= put[n]
      BY <1>0 DEF IInv, InOrderOnce
    <3> QED
      BY <1>5, <1>6, <1>11, <3>1
  <2>4. /\ \A i, j \in DOMAIN got[n] : i < j => got[n][i].id < got[n][j].id
        /\ \A i \in DOMAIN got[n] : got[n][i].id <= put[p]
    BY <1>0 DEF IInv, InOrderOnce
  <2> QED
    BY <1>0, <1>4, <1>8, <2>2, <2>3, <2>4 DEF InOrderOnce
<1>13. CountersAgree'
  BY SMTT(40), <1>0, <1>3, <1>4, <1>6, <1>8, <1>10 DEF IInv, CountersAgree
<1>14. BlocksAgree'
  <2> SUFFICES ASSUME NEW m \in Nodes, NEW y \in Blocks(m)'
      PROVE  /\ y.no <= SendBlkNo[m] /\ y.no <= put[m] /\ y.id \in 1..put[m]
             /\ Busy(m) /\ y.no < SendBlkNo[m] => y.id < put[m]
             /\ \A z \in Blocks(m)' : y.no < z.no => y.id < z.id
             /\ ReceiveBlkNo'[Peer(m)] <= y.no =>
                  \A i \in DOMAIN got'[Peer(m)] : got'[Peer(m)][i].id < y.id
    BY <1>4, <1>10 DEF BlocksAgree
  <2>1. /\ y \in Blocks(m)
        /\ y.no <= SendBlkNo[m] /\ y.no <= put[m] /\ y.id \in 1..put[m]
        /\ Busy(m) /\ y.no < SendBlkNo[m] => y.id < put[m]
        /\ \A z \in Blocks(m)' : y.no < z.no => y.id < z.id
        /\ ReceiveBlkNo[Peer(m)] <= y.no =>
             \A i \in DOMAIN got[Peer(m)] : got[Peer(m)][i].id < y.id
    BY <1>2 DEF IInv, BlocksAgree
  <2>2. CASE m = n
    <3>1. ASSUME x.no + 1 <= y.no, NEW i \in DOMAIN got'[p]
          PROVE  got'[p][i].id < y.id
      <4>1. y.no \in Nat /\ y.id \in Nat /\ x.id < y.id
        BY <1>3, <1>6, <2>1, <2>2, <3>1
      <4>2. CASE i \in DOMAIN got[p]
        <5>1. x.no <= y.no
          BY <1>3, <3>1, <4>1
        <5> QED
          BY <1>0, <1>4, <1>11, <2>1, <2>2, <4>2, <5>1
      <4>3. CASE i = Len(got[p]) + 1
        BY <1>5, <1>11, <4>1, <4>3
      <4> QED
        BY <1>11, <4>2, <4>3
    <3> QED
      BY <1>0, <1>8, <2>1, <2>2, <3>1
  <2>3. CASE m = p
    BY <1>0, <1>8, <2>1, <2>3
  <2> QED
    BY <1>0, <2>2, <2>3
<1>15. SendingAgrees'
  <2>1. ASSUME Busy(n), x.no + 1 <= SendBlkNo[n], NEW i \in DOMAIN got'[p]
        PROVE  got'[p][i].id < put[n]
    <3>1. x.id < put[n]
      BY <1>3, <1>6, <2>1
    <3>2. CASE i \in DOMAIN got[p]
      <4>1. ReceiveBlkNo[p] <= SendBlkNo[n]
        BY <1>4, <1>6
      <4> QED
        BY <1>0, <1>11, <2>1, <3>2, <4>1 DEF IInv, SendingAgrees
    <3>3. CASE i = Len(got[p]) + 1
      BY <1>5, <1>11, <3>1, <3>3
    <3> QED
      BY <1>11, <3>2, <3>3
  <2> QED
    BY <1>0, <1>4, <1>8, <1>10, <2>1 DEF IInv, SendingAgrees
<1>16. ServerAgrees'
  <2>1. CASE p = "client"
    BY <1>0, <1>4, <1>8, <2>1 DEF IInv, ServerAgrees, TypeOK, Nodes, AfterGet
  <2>2. CASE p = "server"
    <3>1. got'[p] # <<>> /\ Last(got'[p]) = g
      <4>1. got'[p] # <<>>
        BY <1>11
      <4> QED
        BY <1>11, <4>1 DEF Last
    <3>2. put["server"] < x.id
      <4>1. put["server"] \in Nat
        BY <1>0 DEF TypeOK, Nodes
      <4>2. CASE got["server"] = <<>>
        <5>1. put["server"] = 0
          BY <4>2 DEF IInv, ServerAgrees
        <5>2. 0 < x.id
          BY <1>6
        <5> QED
          BY <5>1, <5>2
      <4>3. CASE got["server"] # <<>>
        <5>1. Len(got[p]) \in DOMAIN got[p]
          BY <1>11, <2>2, <4>3, <1>0 DEF TypeOK
        <5>2. put["server"] <= Last(got["server"]).id
          BY <4>3 DEF IInv, ServerAgrees
        <5>3. Last(got["server"]).id \in Nat /\ Last(got["server"]).id < x.id
          <6>1. got[p][Len(got[p])] \in [id : Nat, full : BOOLEAN]
            BY <1>0, <5>1, SeqElement DEF TypeOK
          <6> QED
            BY <1>6, <2>2, <5>1, <6>1 DEF Last
        <5> QED
          BY <1>3, <4>1, <5>2, <5>3
      <4> QED
        BY <4>2, <4>3
    <3> QED
      <4>1. /\ pc'["server"] \in {"resyncGet", "exec"}
            /\ pc'["client"] = pc["client"]
        BY <1>0, <1>4, <2>2 DEF TypeOK, Nodes, AfterGet
      <4>2. put["server"] <= x.id
        BY <1>3, <3>2, PutBound DEF Nodes
      <4> QED
        BY <1>4, <1>5, <2>2, <3>1, <3>2, <4>1, <4>2 DEF IInv, ServerAgrees
  <2> QED
    BY <2>1, <2>2 DEF Nodes
<1> QED
  BY <1>9, <1>12, <1>13, <1>14, <1>15, <1>16 DEF IInv

-----------------------------------------------------------------------------
(* The theorems *)

\* The invariant holds once RemoteConnect has succeeded.
LEMMA InitHolds == ASSUME Init PROVE IInv
<1>1. TypeOK
  <2>1. 1 % IntMod \in 0..(IntMod - 1)
    BY SerConstants, ModRange
  <2>2. ErrCap = 3
    BY DEF ErrCap, MAX_ERRORS
  <2> QED
    BY <2>1, <2>2, SerConstants DEF Init, TypeOK, Nodes
<1>2. 1 % IntMod \in 0..1
  <2>1. CASE IntMod = 1
    BY <2>1, SerConstants, ModRange
  <2>2. CASE IntMod > 1
    BY <2>2, SerConstants, ModRange
  <2> QED
    BY <2>1, <2>2, SerConstants
<1>3. InOrderOnce /\ SendingAgrees
  BY DEF Init, InOrderOnce, SendingAgrees, Nodes, Peer
<1>4. CountersAgree
  <2>1. \A n \in Nodes : /\ SendBlkNo[n] = 1 % IntMod /\ put[n] = 0 /\ ~Busy(n)
                         /\ ReceiveBlkNo[Peer(n)] = 1 % IntMod
    BY PeerFacts DEF Init, Busy
  <2> QED
    BY <1>2, <2>1 DEF CountersAgree
<1>5. BlocksAgree
  <2>1. \A n \in Nodes : Blocks(n) = {}
    BY PeerFacts DEF Init, Blocks, Range
  <2> QED
    BY <2>1 DEF BlocksAgree
<1>6. ServerAgrees
  BY SerConstants DEF Init, ServerAgrees, Nodes
<1> QED
  BY <1>1, <1>3, <1>4, <1>5, <1>6 DEF IInv

\* Request and Answer call BlockSend with a packet newer than the last.
LEMMA HostSends ==
  ASSUME IInv, Request \/ Answer
  PROVE  \E n \in Nodes, id \in Nat, w \in BOOLEAN :
           /\ BlockSend(n, id, w) /\ pc[n] \in {"app", "exec"}
           /\ put[n] < id /\ id <= MaxPuts
           /\ n = "server" => got["server"] # <<>> /\ id = Last(got["server"]).id
<1>1. CASE Request
  <2>1. put["client"] \in Nat
    BY PutBound DEF Nodes
  <2>2. PICK w \in BOOLEAN : BlockSend("client", put["client"] + 1, w)
    BY <1>1 DEF Request
  <2>3. put["client"] + 1 \in Nat /\ put["client"] + 1 <= MaxPuts
    BY <1>1, <2>1, SerConstants DEF Request
  <2> QED
    BY <1>1, <2>1, <2>2, <2>3 DEF Request, Nodes
<1>2. CASE Answer
  <2> DEFINE id == Last(got["server"]).id
  <2>1. got["server"] # <<>> /\ put["server"] < id
    BY <1>2 DEF IInv, ServerAgrees, Answer
  <2>2. got["server"] \in Seq([id : Nat, full : BOOLEAN])
    BY DEF IInv, TypeOK, Nodes
  <2>3. Len(got["server"]) \in DOMAIN got["server"]
    BY <2>1, <2>2
  <2>4. Last(got["server"]) \in [id : Nat, full : BOOLEAN]
    BY <2>2, <2>3, SeqElement DEF Last
  <2>5. id <= put["client"]
    <3>1. "server" \in Nodes /\ Peer("server") = "client"
      BY DEF Nodes, Peer
    <3> QED
      BY <2>3, <3>1 DEF IInv, InOrderOnce, Last
  <2>6. id <= MaxPuts
    <3>1. put["client"] \in Nat /\ put["client"] <= MaxPuts
      BY PutBound DEF Nodes
    <3> QED
      BY <2>4, <2>5, <3>1, SerConstants
  <2> QED
    BY <1>2, <2>1, <2>4, <2>6 DEF Answer, Nodes
<1> QED
  BY <1>1, <1>2

\* The steps that leave put and got alone.
LinkOnly ==
  \/ \E n \in Nodes : \/ Sending(n) /\ ~AckRead(n)
                      \/ Receiving(n) /\ ~RecvBlock(n)
                      \/ ReSyncRead(n) \/ Noise(n)
  \/ ReSyncHi \/ ReSyncDone \/ Performed

\* The steps, grouped as the lemmas above treat them.
LEMMA NextCases ==
  ASSUME Next
  PROVE  \/ LinkOnly \/ Request \/ Answer
         \/ \E n \in Nodes : AckRead(n) \/ RecvBlock(n)
BY DEF Next, LinkStep, Sending, Receiving, LinkOnly

\* Steps that leave put and got alone keep the invariant.
LEMMA LinkOnlyKeeps ==
  ASSUME IInv, NoWrap, LinkOnly
  PROVE  IInv' /\ UNCHANGED <<put, got>>
<1>1. TypeOK /\ ServerAgrees
  BY DEF IInv
<1>2. TypeOK' /\ QuietStep
  BY <1>1, SendingIsQuiet, ReceivingIsQuiet, OthersAreQuiet DEF LinkOnly
<1> QED
  BY <1>2, QuietKeeps DEF QuietStep

\* Every step keeps the invariant.
LEMMA NextKeeps == ASSUME IInv, NoWrap, [Next]_vars PROVE IInv'
<1>1. CASE LinkOnly
  BY <1>1, LinkOnlyKeeps
<1>2. CASE Request \/ Answer
  BY <1>2, HostSends, BlockSendKeeps
<1>3. CASE \E n \in Nodes : AckRead(n) \/ RecvBlock(n)
  BY <1>3, AckReadKeeps, RecvBlockKeeps
<1>4. CASE UNCHANGED vars
  BY <1>4 DEF vars, link, host, IInv, TypeOK, InOrderOnce, CountersAgree,
     BlocksAgree, SendingAgrees, ServerAgrees, Blocks, Busy
<1> QED
  BY <1>1, <1>2, <1>3, <1>4, NextCases

\* The inductive invariant holds throughout every session that makes fewer
\* requests than there are block numbers (BlkMod is 65536 in the code).
THEOREM InvariantHolds == ASSUME NoWrap PROVE Spec => []IInv
<1>1. Init => IInv
  BY InitHolds
<1>2. IInv /\ [Next]_vars => IInv'
  BY NextKeeps
<1> QED
  BY <1>1, <1>2, PTL DEF Spec

\* The variables of the serial link keep their types.
THEOREM TypesHold == ASSUME NoWrap PROVE Spec => []TypeOK
<1>1. IInv => TypeOK
  BY DEF IInv
<1> QED
  BY <1>1, InvariantHolds, PTL

\* BlockReceive's block numbers do what they are for: whatever is lost,
\* damaged, delayed or repeated, no request or response is handed up twice or
\* out of order.
THEOREM InOrderOnceHolds == ASSUME NoWrap PROVE Spec => []InOrderOnce
<1>1. IInv => InOrderOnce
  BY DEF IInv
<1> QED
  BY <1>1, InvariantHolds, PTL

-----------------------------------------------------------------------------
(* The link implements the lossy packet link of PacketLink *)

Packet == [id : Nat, full : BOOLEAN]
IdsOf(s) == [i \in DOMAIN s |-> s[i].id]

\* What Received makes of got, and how it grows.
LEMMA IdsFacts ==
  ASSUME NEW s \in Seq(Packet)
  PROVE  /\ IdsOf(s) \in Seq(Nat)
         /\ DOMAIN IdsOf(s) = DOMAIN s /\ Len(IdsOf(s)) = Len(s)
         /\ \A i \in DOMAIN s : IdsOf(s)[i] = s[i].id /\ IdsOf(s)[i] \in Nat
<1>1. DOMAIN s = 1..Len(s) /\ Len(s) \in Nat
  OBVIOUS
<1>2. \A i \in DOMAIN s : s[i].id \in Nat
  <2>1. \A i \in DOMAIN s : s[i] \in Packet
    BY SeqElement
  <2> QED
    BY <2>1 DEF Packet
<1>3. IdsOf(s) \in [1..Len(s) -> Nat]
  BY <1>1, <1>2 DEF IdsOf
<1>4. IdsOf(s) \in Seq(Nat) /\ Len(IdsOf(s)) = Len(s)
  BY <1>1, <1>3
<1> QED
  BY <1>1, <1>2, <1>4 DEF IdsOf

\* The packet numbers of a longer sequence.
LEMMA IdsAppend ==
  ASSUME NEW s \in Seq(Packet), NEW g \in Packet
  PROVE  IdsOf(Append(s, g)) = Append(IdsOf(s), g.id)
<1>1. /\ Append(s, g) \in Seq(Packet) /\ g.id \in Nat
      /\ DOMAIN Append(s, g) = 1..(Len(s) + 1) /\ DOMAIN s = 1..Len(s)
      /\ Len(s) \in Nat
      /\ \A i \in DOMAIN s : Append(s, g)[i] = s[i]
      /\ Append(s, g)[Len(s) + 1] = g
  BY AppendElements, AppendRange DEF Packet
<1>2. /\ IdsOf(Append(s, g)) \in Seq(Nat)
      /\ DOMAIN IdsOf(Append(s, g)) = 1..(Len(s) + 1)
      /\ \A i \in DOMAIN Append(s, g) : IdsOf(Append(s, g))[i] = Append(s, g)[i].id
  BY <1>1, IdsFacts
<1>3. /\ IdsOf(s) \in Seq(Nat) /\ Len(IdsOf(s)) = Len(s) /\ DOMAIN IdsOf(s) = DOMAIN s
      /\ \A i \in DOMAIN s : IdsOf(s)[i] = s[i].id
  BY IdsFacts
<1> DEFINE t == IdsOf(s)
<1> HIDE DEF t
<1>4. /\ Append(t, g.id) \in Seq(Nat)
      /\ DOMAIN Append(t, g.id) = 1..(Len(t) + 1)
      /\ \A i \in DOMAIN t : Append(t, g.id)[i] = t[i]
      /\ Append(t, g.id)[Len(t) + 1] = g.id
  <2>1. t \in Seq(Nat) /\ g.id \in Nat
    BY <1>1, <1>3 DEF t
  <2> QED
    BY <2>1, AppendElements, AppendRange
<1>5. \A i \in 1..(Len(s) + 1) : IdsOf(Append(s, g))[i] = Append(t, g.id)[i]
  BY <1>1, <1>2, <1>3, <1>4 DEF t
<1>6. DOMAIN Append(t, g.id) = 1..(Len(s) + 1)
  BY <1>3, <1>4 DEF t
<1>7. IdsOf(Append(s, g)) = Append(t, g.id)
  BY <1>2, <1>4, <1>5, <1>6
<1> QED
  BY <1>7 DEF t

\* Accepting a block is the packet link's Get.
LEMMA RecvBlockIsGet ==
  ASSUME IInv, NoWrap, NEW p \in Nodes, RecvBlock(p)
  PROVE  LossyLink!Get(p)
<1> DEFINE n == Peer(p)
           x == Head(wire[p])
           g == [id |-> x.id, full |-> ~(x.err > MAX_ERRORS)]
           R == [m \in Nodes |-> Received(m)]
<1>1. /\ TypeOK /\ wire[p] # <<>> /\ x.kind = "BLK" /\ x.no = ReceiveBlkNo[p]
      /\ n \in Nodes /\ Peer(n) = p
      /\ got' = [got EXCEPT ![p] = Append(got[p], g)] /\ put' = put
  BY PeerFacts DEF IInv, RecvBlock, Accepts, NextIs, Rubbish, Replies, TypeOK
<1>2. x \in Blocks(n) /\ x.id \in Nat /\ x.no \in Nat
  <2>1. x \in Item /\ x \in Range(wire[p])
    BY <1>1, TailRange DEF TypeOK
  <2> QED
    BY <1>1, <2>1 DEF Blocks, Item
<1>3. g \in [id : Nat, full : BOOLEAN] /\ g.id = x.id
  BY <1>2
<1> HIDE DEF g, x
<1>4. /\ x.id \in 1..put[n]
      /\ \A i \in DOMAIN got[p] : got[p][i].id < x.id
  <2>1. ReceiveBlkNo[p] <= x.no
    BY <1>1, <1>2
  <2> QED
    BY <1>1, <1>2, <2>1 DEF IInv, BlocksAgree
<1>5. got[p] \in Seq(Packet) /\ Received(p) = IdsOf(got[p])
  BY <1>1 DEF TypeOK, Packet, Received, IdsOf
<1>6. Received(p)' = Append(Received(p), x.id)
  <2>1. Received(p)' = IdsOf(got'[p]) /\ got'[p] = Append(got[p], g)
    BY <1>1 DEF Received, IdsOf, TypeOK
  <2> QED
    BY <1>3, <1>5, <2>1, IdsAppend DEF Packet
<1>7. \A m \in Nodes : m # p => Received(m)' = Received(m)
  BY <1>1 DEF Received, TypeOK
<1>8. R' = [R EXCEPT ![p] = Append(R[p], x.id)]
  BY <1>6, <1>7
<1>9. LossyLink!Newest(p) \in Nat /\ LossyLink!Newest(p) < x.id
  <2>1. /\ Received(p) \in Seq(Nat) /\ DOMAIN Received(p) = DOMAIN got[p]
        /\ \A i \in DOMAIN got[p] : /\ Received(p)[i] = got[p][i].id
                                   /\ Received(p)[i] \in Nat
    BY <1>5, IdsFacts
  <2>2. CASE Received(p) = <<>>
    BY <1>4, <2>2 DEF LossyLink!Newest
  <2>3. CASE Received(p) # <<>>
    <3>1. Len(Received(p)) \in DOMAIN Received(p)
      BY <2>1, <2>3
    <3> QED
      BY <1>4, <2>1, <2>3, <3>1 DEF LossyLink!Newest
  <2> QED
    BY <2>2, <2>3
<1>10. x.id \in (LossyLink!Newest(p) + 1)..put[n]
  <2>1. put[n] \in Nat
    BY <1>1 DEF TypeOK
  <2> QED
    BY <1>2, <1>4, <1>9, <2>1
<1> HIDE DEF R
<1> QED
  BY <1>1, <1>8, <1>10 DEF LossyLink!Get, R

\* For every session of fewer requests than there are block numbers, the
\* protocol of serlink.c implements the packet link that may lose packets but
\* never reorders or repeats one.
THEOREM LossyLinkImplemented == ASSUME NoWrap PROVE Spec => ImplementsLossyLink
<1>1. Init => LossyLink!Init
  BY PeerFacts DEF Init, LossyLink!Init, Received
<1>2. IInv /\ [Next]_vars => [LossyLink!Next]_LossyLink!vars
  <2> SUFFICES ASSUME IInv, [Next]_vars
               PROVE  [LossyLink!Next]_LossyLink!vars
    OBVIOUS
  <2>1. CASE UNCHANGED <<put, got>>
    BY <2>1 DEF LossyLink!vars, Received
  <2>2. CASE LinkOnly
    BY <2>1, <2>2, LinkOnlyKeeps
  <2>3. CASE Request \/ Answer
    <3>1. PICK n \in Nodes, id \in Nat, w \in BOOLEAN :
            BlockSend(n, id, w) /\ put[n] < id
      BY <2>3, HostSends
    <3>2. put' = [put EXCEPT ![n] = id] /\ got' = got
      BY <3>1 DEF BlockSend
    <3>3. LossyLink!Put(n)
      BY <3>1, <3>2 DEF LossyLink!Put, IInv, TypeOK, Received
    <3> QED
      BY <3>3 DEF LossyLink!Next
  <2>4. CASE \E n \in Nodes : AckRead(n)
    <3>1. UNCHANGED <<put, got>>
      BY <2>4 DEF AckRead, host
    <3> QED
      BY <2>1, <3>1
  <2>5. CASE \E n \in Nodes : RecvBlock(n)
    BY <2>5, RecvBlockIsGet DEF LossyLink!Next
  <2>6. CASE UNCHANGED vars
    BY <2>1, <2>6 DEF vars, host
  <2> QED
    BY <2>2, <2>3, <2>4, <2>5, <2>6, NextCases
<1>3. Spec => []IInv
  BY InvariantHolds
<1> QED
  BY <1>1, <1>2, <1>3, PTL DEF Spec, ImplementsLossyLink, LossyLink!Spec
-----------------------------------------------------------------------------
(* A response answers the request the debugger is waiting on *)

\* The debugger waits for the response to its last request; it has had it; the
\* server has accepted that request; the server has to answer its last one.
CallOver == pc["client"] \in {"app", "resyncGet"}
Waiting == want["client"] /\ ~CallOver
Accepted(id) == got["server"] # <<>> /\ id <= Last(got["server"]).id
Answering == pc["server"] \in {"exec", "resyncGet"} /\ want["server"]

\* A request that wants a response is accepted before the next is made; and a
\* response that the debugger would still accept, on the wire or about to be
\* sent (again), is that to its last request.
RequestsAgree ==
  /\ \A x \in Blocks("client") :
       /\ x.id = put["client"] => x.want = want["client"]
       /\ x.want /\ x.id < put["client"] => Accepted(x.id)
  /\ CallOver /\ want["client"] => Accepted(put["client"])
ResponsesAgree ==
  /\ Answering => Waiting /\ Last(got["server"]).id = put["client"]
  /\ \A x \in Blocks("server") :
       ReceiveBlkNo["client"] <= x.no => Waiting /\ x.id = put["client"]
  /\ Busy("server") /\ ReceiveBlkNo["client"] <= SendBlkNo["server"] =>
       Waiting /\ put["server"] = put["client"]

\* The new blocks on a wire, of a step that starts no BlockSend.
LEMMA BlocksRepeated ==
  ASSUME IInv, NoWrap, WireStep, NEW n \in Nodes, NEW x \in Blocks(n)', x \notin Blocks(n)
  PROVE  Busy(n) /\ x.no = SendBlkNo[n] /\ x.id = put[n] /\ x.want = want[n]
<1>1. x \in Harmless(n) /\ x.kind = "BLK"
  BY PeerFacts DEF Blocks, WireStep
<1>2. \A k \in Kinds : Byte(k).kind = k
  BY DEF Byte
<1>3. Busy(n) /\ x = Block(n)
  BY <1>1, <1>2 DEF Harmless
<1>4. SendBlkNo[n] % BlkMod = SendBlkNo[n]
  <2>1. SendBlkNo[n] \in Nat /\ SendBlkNo[n] < BlkMod
    BY NoNumberWraps
  <2> QED
    BY <2>1, ModRange, SerConstants
<1> QED
  BY <1>3, <1>4 DEF Block, BlockOf

\* Such a step does not end the debugger's call before its response is there.
LEMMA LinkOnlyCalls ==
  ASSUME IInv, LinkOnly
  PROVE  QuietStep /\ want' = want /\ (want["client"] /\ CallOver' => CallOver)
<1>1. TypeOK /\ ServerAgrees
  BY DEF IInv
<1>2. QuietStep
  BY <1>1, SendingIsQuiet, ReceivingIsQuiet, OthersAreQuiet DEF LinkOnly
<1>3. ASSUME NEW n \in Nodes, Sending(n), ~AckRead(n)
      PROVE  want' = want /\ (want["client"] /\ CallOver' => CallOver)
  <2>1. want' = want
    BY <1>3 DEF Sending, NakRead, RlrRead, MessRead, DrainRead, DrainQuiet, AckTimeOut, GiveUp, host
  <2>2. pc[n] \in {"ack", "drain"} /\ \E s \in {"ack", "drain", "recv", "stopped"} :
          /\ pc' = [pc EXCEPT ![n] = s]
          /\ n = "client" => s # "recv"
    <3>1. ASSUME RlrRead(n) \/ NakRead(n) \/ DrainRead(n) \/ AckTimeOut(n)
          PROVE  pc' = pc /\ pc[n] \in {"ack", "drain"}
      BY <3>1 DEF RlrRead, NakRead, DrainRead, AckTimeOut
    <3>2. pc \in [Nodes -> {"app", "ack", "drain", "recv", "exec", "resyncPut", "resyncGet", "stopped"}]
      BY <1>1 DEF TypeOK
    <3>3. pc = [pc EXCEPT ![n] = pc[n]]
      BY <3>2
    <3>4. CASE RlrRead(n) \/ NakRead(n) \/ DrainRead(n) \/ AckTimeOut(n)
      BY <3>1, <3>3, <3>4
    <3>5. CASE MessRead(n)
      BY <3>5 DEF MessRead
    <3>6. CASE DrainQuiet(n)
      BY <3>6 DEF DrainQuiet
    <3>7. CASE GiveUp(n)
      BY <3>7 DEF GiveUp
    <3> QED
      BY <1>3, <3>4, <3>5, <3>6, <3>7 DEF Sending
  <2>3. pc \in [Nodes -> {"app", "ack", "drain", "recv", "exec", "resyncPut", "resyncGet", "stopped"}]
        /\ "client" \in Nodes
    BY <1>1 DEF TypeOK, Nodes
  <2>4. CallOver' => CallOver
    BY <2>2, <2>3 DEF CallOver
  <2> QED
    BY <2>1, <2>4
<1>4. ASSUME NEW n \in Nodes, Receiving(n), ~RecvBlock(n)
      PROVE  want' = want /\ (want["client"] /\ CallOver' => CallOver)
  BY <1>4 DEF Receiving, RecvOther, RecvDamaged, RecvRlr, RecvSkip, host, CallOver
<1>5. ASSUME NEW n \in Nodes, ReSyncRead(n) \/ Noise(n) \/ ReSyncHi
      PROVE  want' = want /\ (want["client"] /\ CallOver' => CallOver)
  BY <1>5 DEF ReSyncRead, Noise, ReSyncHi, host, CallOver
<1>6. CASE ReSyncDone
  <2>1. "client" \in Nodes /\ want' = want
    BY <1>6 DEF ReSyncDone, host, Nodes
  <2>2. /\ pc["client"] \in {"resyncPut", "resyncGet"}
        /\ pc'["client"] = IF pc["client"] = "resyncPut" THEN AfterPut("client") ELSE AfterGet("client")
    BY <1>6, <2>1 DEF ReSyncDone, InReSync
  <2> QED
    BY <1>2, <2>1, <2>2 DEF AfterPut, CallOver
<1>7. CASE Performed
  <2>1. want' = want /\ "client" \in Nodes /\ pc' = [pc EXCEPT !["server"] = "recv"]
    BY <1>7 DEF Performed, host, Nodes
  <2>2. pc'["client"] = pc["client"]
    BY <1>1, <2>1 DEF TypeOK
  <2> QED
    BY <1>2, <2>1, <2>2 DEF CallOver
<1> QED
  BY <1>2, <1>3, <1>4, <1>5, <1>6, <1>7 DEF LinkOnly, Nodes

LEMMA LinkOnlyMatches ==
  ASSUME IInv, NoWrap, RequestsAgree, ResponsesAgree, LinkOnly
  PROVE  RequestsAgree' /\ ResponsesAgree'
<1>1. /\ QuietStep /\ want' = want /\ (want["client"] /\ CallOver' => CallOver)
      /\ UNCHANGED <<SendBlkNo, ReceiveBlkNo, put, got>>
      /\ "client" \in Nodes /\ "server" \in Nodes
  BY LinkOnlyCalls DEF QuietStep, Nodes
<1>2. /\ \A n \in Nodes : Busy(n)' => Busy(n)
      /\ Answering' => Answering
      /\ Waiting => Waiting'
      /\ \A id : Accepted(id)' <=> Accepted(id)
  BY <1>1 DEF QuietStep, Answering, Waiting, Accepted
<1>3. ASSUME NEW n \in Nodes, NEW x \in Blocks(n)', x \notin Blocks(n)
      PROVE  Busy(n) /\ x.no = SendBlkNo[n] /\ x.id = put[n] /\ x.want = want[n]
  BY <1>1, <1>3, BlocksRepeated DEF QuietStep
<1>4. put["client"] \in Nat
  BY PutBound, <1>1
<1>5. RequestsAgree'
  <2>1. ASSUME NEW x \in Blocks("client")'
        PROVE  /\ x.id = put["client"] => x.want = want["client"]
               /\ x.want /\ x.id < put["client"] => Accepted(x.id)
    <3>1. CASE x \in Blocks("client")
      BY <3>1 DEF RequestsAgree
    <3>2. CASE x \notin Blocks("client")
      BY <1>1, <1>3, <1>4, <3>2
    <3> QED
      BY <3>1, <3>2
  <2> QED
    BY <1>1, <1>2, <2>1 DEF RequestsAgree
<1>6. ResponsesAgree'
  <2>1. ASSUME NEW x \in Blocks("server")', ReceiveBlkNo["client"] <= x.no
        PROVE  Waiting /\ x.id = put["client"]
    <3>1. CASE x \in Blocks("server")
      BY <2>1, <3>1 DEF ResponsesAgree
    <3>2. CASE x \notin Blocks("server")
      BY <1>1, <1>3, <2>1, <3>2 DEF ResponsesAgree
    <3> QED
      BY <3>1, <3>2
  <2> QED
    BY <1>1, <1>2, <2>1 DEF ResponsesAgree
<1> QED
  BY <1>5, <1>6

LEMMA AckReadMatches ==
  ASSUME IInv, NoWrap, RequestsAgree, ResponsesAgree, NEW n \in Nodes, AckRead(n)
  PROVE  RequestsAgree' /\ ResponsesAgree'
<1>0. TypeOK /\ pc[n] = "ack" /\ wire[n] # <<>> /\ ReadAndSend(n, <<>>)
  BY DEF IInv, AckRead, NextIs
<1>4. /\ UNCHANGED <<ReceiveBlkNo, put, got, want>>
      /\ "client" \in Nodes /\ "server" \in Nodes
  BY DEF AckRead, Nodes, host
<1>1. \A m \in Nodes : Blocks(m)' \subseteq Blocks(m)
  <2>1. /\ wire' \in [Nodes -> Seq(Item)]
        /\ Range(wire'[n]) \subseteq Range(wire[n])
        /\ Range(wire'[Peer(n)]) = Range(wire[Peer(n)])
    BY <1>0, HarmlessFacts, ReadAndSendFacts
  <2> QED
    BY <2>1, PeerFacts DEF Blocks
<1>2. /\ pc' = [pc EXCEPT ![n] = IF PrevErrors[n] > MAX_ERRORS THEN "resyncPut" ELSE AfterPut(n)]
      /\ SendBlkNo' = [SendBlkNo EXCEPT ![n] = NextNo(SendBlkNo[n])]
  BY <1>0 DEF AckRead, TypeOK
<1>3. /\ ~Busy(n)' /\ \A m \in Nodes : Busy(m)' => Busy(m) /\ SendBlkNo'[m] = SendBlkNo[m]
      /\ Answering' => Answering
      /\ Waiting => Waiting'
      /\ want["client"] /\ CallOver' => CallOver
      /\ \A id : Accepted(id)' <=> Accepted(id)
  BY <1>0, <1>2, <1>4 DEF Busy, AfterPut, Answering, Waiting, CallOver, Accepted, TypeOK
<1> QED
  BY <1>1, <1>3, <1>4 DEF RequestsAgree, ResponsesAgree

LEMMA BlockSendBlocks ==
  ASSUME IInv, NoWrap, NEW n \in Nodes, NEW id \in Nat, NEW w \in BOOLEAN, BlockSend(n, id, w)
  PROVE  /\ \A x \in Blocks(n)' : x \in Blocks(n) \/ (x.id = id /\ x.want = w)
         /\ Blocks(Peer(n))' \subseteq Blocks(Peer(n))
<1>1. TypeOK /\ Peer(n) \in Nodes /\ Peer(n) # n /\ Peer(Peer(n)) = n
  BY PeerFacts DEF IInv
<1>2. PICK left \in ClearCom(wire[n]) :
        wire' = [wire EXCEPT ![n] = left, ![Peer(n)] = Append(wire[Peer(n)], BlockOf(n, Errors[n], id, w))]
  BY <1>1 DEF BlockSend, TypeOK
<1>3. wire[n] \in Seq(Item) /\ wire[Peer(n)] \in Seq(Item) /\ BlockOf(n, Errors[n], id, w) \in Item
  BY <1>1, ItemFacts DEF TypeOK
<1>4. wire'[n] = left /\ wire'[Peer(n)] = Append(wire[Peer(n)], BlockOf(n, Errors[n], id, w))
  BY <1>1, <1>2 DEF TypeOK
<1>5. Range(left) \subseteq Range(wire[n]) \cup {Junk} /\ Junk.kind # "BLK"
  BY <1>1, <1>3, ClearComFacts, ItemFacts
<1>6. Range(wire'[Peer(n)]) = Range(wire[Peer(n)]) \cup {BlockOf(n, Errors[n], id, w)}
  BY <1>3, <1>4, AppendRange
<1>7. BlockOf(n, Errors[n], id, w).id = id /\ BlockOf(n, Errors[n], id, w).want = w
  BY DEF BlockOf
<1> QED
  BY <1>1, <1>4, <1>5, <1>6, <1>7 DEF Blocks

LEMMA RequestMatches ==
  ASSUME IInv, NoWrap, RequestsAgree, ResponsesAgree, Request
  PROVE  RequestsAgree' /\ ResponsesAgree'
<1>1. put["client"] \in Nat /\ "client" \in Nodes /\ "server" \in Nodes /\ Peer("client") = "server" /\ TypeOK
  BY PutBound DEF Nodes, Peer, IInv
<1>2. PICK w \in BOOLEAN : BlockSend("client", put["client"] + 1, w)
  BY DEF Request
<1>3. /\ pc["client"] = "app" /\ CallOver /\ ~Waiting
      /\ pc' = [pc EXCEPT !["client"] = "ack"]
      /\ put' = [put EXCEPT !["client"] = put["client"] + 1] /\ want' = [want EXCEPT !["client"] = w]
      /\ UNCHANGED <<SendBlkNo, ReceiveBlkNo, got>>
  BY <1>2 DEF Request, CallOver, Waiting, BlockSend
<1>4. /\ \A x \in Blocks("client")' : x \in Blocks("client") \/ (x.id = put["client"] + 1 /\ x.want = w)
      /\ Blocks("server")' \subseteq Blocks("server")
  BY <1>1, <1>2, BlockSendBlocks
<1>5. /\ ~CallOver' /\ put'["client"] = put["client"] + 1 /\ want'["client"] = w
      /\ (Answering' => Answering) /\ (Busy("server")' => Busy("server"))
      /\ \A id : Accepted(id)' <=> Accepted(id)
  BY <1>1, <1>3 DEF CallOver, Answering, Busy, Accepted, TypeOK
<1>6. \A x \in Blocks("client") : x.id \in 1..put["client"] /\ x.want \in BOOLEAN
  <2>1. \A x \in Blocks("client") : x \in Item
    BY <1>1, BlockFacts DEF IInv
  <2> QED
    BY <1>1, <2>1 DEF IInv, BlocksAgree, Item
<1>7. RequestsAgree'
  <2>1. ASSUME NEW x \in Blocks("client")'
        PROVE  /\ x.id = put["client"] + 1 => x.want = w
               /\ x.want /\ x.id < put["client"] + 1 => Accepted(x.id)
    <3>1. CASE x \in Blocks("client")
      <4>1. x.id \in 1..put["client"]
        BY <1>6, <3>1
      <4>2. x.id # put["client"] + 1 /\ (x.id = put["client"] \/ x.id < put["client"])
        BY <1>1, <4>1
      <4>3. x.want /\ x.id = put["client"] => Accepted(x.id)
        BY <1>3, <3>1 DEF RequestsAgree
      <4>4. x.want /\ x.id < put["client"] => Accepted(x.id)
        BY <3>1 DEF RequestsAgree
      <4> QED
        BY <4>2, <4>3, <4>4
    <3>2. CASE x.id = put["client"] + 1 /\ x.want = w
      BY <1>1, <3>2
    <3> QED
      BY <1>4, <3>1, <3>2
  <2> QED
    BY <1>5, <2>1 DEF RequestsAgree
<1>8. ResponsesAgree'
  BY <1>3, <1>4, <1>5 DEF ResponsesAgree
<1> QED
  BY <1>7, <1>8

LEMMA AnswerMatches ==
  ASSUME IInv, NoWrap, RequestsAgree, ResponsesAgree, Answer
  PROVE  RequestsAgree' /\ ResponsesAgree'
<1>1. /\ "client" \in Nodes /\ "server" \in Nodes /\ Peer("server") = "client" /\ TypeOK
      /\ put["client"] \in Nat
  BY PutBound DEF Nodes, Peer, IInv
<1>2. Waiting /\ Last(got["server"]).id = put["client"]
  BY DEF Answer, Answering, ResponsesAgree
<1>3. BlockSend("server", put["client"], TRUE) /\ want["server"]
  BY <1>2 DEF Answer
<1>4. /\ pc' = [pc EXCEPT !["server"] = "ack"]
      /\ put' = [put EXCEPT !["server"] = put["client"]] /\ want' = [want EXCEPT !["server"] = TRUE]
      /\ UNCHANGED <<SendBlkNo, ReceiveBlkNo, got>>
  BY <1>3 DEF BlockSend
<1>5. /\ \A x \in Blocks("server")' : x \in Blocks("server") \/ x.id = put["client"]
      /\ Blocks("client")' \subseteq Blocks("client")
  BY <1>1, <1>3, BlockSendBlocks
<1>6. /\ put'["client"] = put["client"] /\ put'["server"] = put["client"] /\ want'["client"] = want["client"]
      /\ Waiting' /\ ~Answering' /\ (CallOver' <=> CallOver)
      /\ \A id : Accepted(id)' <=> Accepted(id)
  BY <1>1, <1>2, <1>4 DEF Waiting, CallOver, Answering, Accepted, TypeOK
<1>7. RequestsAgree'
  BY <1>5, <1>6 DEF RequestsAgree
<1>8. ResponsesAgree'
  BY <1>2, <1>4, <1>5, <1>6 DEF ResponsesAgree
<1> QED
  BY <1>7, <1>8

\* What accepting a block does.
LEMMA RecvBlockIs ==
  ASSUME IInv, NoWrap, NEW p \in Nodes, NEW x, x = Head(wire[p]), RecvBlock(p)
  PROVE  /\ x \in Blocks(Peer(p)) /\ x.no = ReceiveBlkNo[p] /\ x.no \in Nat /\ x.id \in Nat /\ x.want \in BOOLEAN
         /\ \A i \in DOMAIN got[p] : got[p][i].id < x.id
         /\ \A m \in Nodes : Blocks(m)' \subseteq Blocks(m)
         /\ ReceiveBlkNo'[p] = x.no + 1 /\ ReceiveBlkNo'[Peer(p)] = ReceiveBlkNo[Peer(p)]
         /\ got'[Peer(p)] = got[Peer(p)] /\ got'[p] # <<>> /\ Last(got'[p]).id = x.id
         /\ want' = IF p = "server" THEN [want EXCEPT ![p] = x.want] ELSE want
         /\ pc[p] = "recv" /\ pc' \in { [pc EXCEPT ![p] = "resyncGet"], [pc EXCEPT ![p] = AfterGet(p)] }
         /\ UNCHANGED <<SendBlkNo, put>>
<1> DEFINE g == [id |-> x.id, full |-> ~(x.err > MAX_ERRORS)]
<1>0. /\ TypeOK /\ pc[p] = "recv" /\ wire[p] # <<>> /\ x.kind = "BLK" /\ x.no = ReceiveBlkNo[p]
      /\ ReadAndSend(p, <<Byte("ACK")>>)
      /\ got' = [got EXCEPT ![p] = Append(got[p], g)]
      /\ ReceiveBlkNo' = [ReceiveBlkNo EXCEPT ![p] = NextNo(ReceiveBlkNo[p])]
      /\ want' = (IF p = "server" THEN [want EXCEPT ![p] = x.want] ELSE want)
      /\ pc' \in { [pc EXCEPT ![p] = "resyncGet"], [pc EXCEPT ![p] = AfterGet(p)] }
      /\ UNCHANGED <<SendBlkNo, put>>
      /\ Peer(p) \in Nodes /\ Peer(p) # p /\ Peer(Peer(p)) = p /\ \A m \in Nodes : m = p \/ m = Peer(p)
  BY PeerFacts DEF IInv, RecvBlock, Accepts, NextIs, Respond, Rubbish, Replies, TypeOK
<1>1. x \in Blocks(Peer(p)) /\ x.no \in Nat /\ x.id \in Nat /\ x.want \in BOOLEAN
  <2>1. x \in Item /\ x \in Range(wire[p])
    BY <1>0, TailRange DEF TypeOK
  <2> QED
    BY <1>0, <2>1 DEF Blocks, Item
<1>2. /\ \A i \in DOMAIN got[p] : got[p][i].id < x.id
      /\ ReceiveBlkNo[p] <= x.no
  <2>1. ReceiveBlkNo[p] <= x.no
    BY <1>0, <1>1
  <2> QED
    BY <1>0, <1>1, <2>1 DEF IInv, BlocksAgree
<1>3. \A m \in Nodes : Blocks(m)' \subseteq Blocks(m)
  <2>1. "ACK" \in Kinds \ {"BLK"} /\ Byte("ACK").kind # "BLK"
    BY DEF Kinds, Replies, Byte
  <2>2. /\ wire' \in [Nodes -> Seq(Item)]
        /\ Range(wire'[p]) \subseteq Range(wire[p])
        /\ Range(wire'[Peer(p)]) = Range(wire[Peer(p)]) \cup {Byte("ACK")}
    <3>1. TypeOK /\ wire[p] # <<>> /\ ReadAndSend(p, <<Byte("ACK")>>)
      BY <1>0
    <3>2. <<Byte("ACK")>> \in Seq(Item) /\ Range(<<Byte("ACK")>>) = {Byte("ACK")}
      BY <2>1, <3>1, HarmlessFacts
    <3> QED
      BY <3>1, <3>2, ReadAndSendFacts
  <2> QED
    BY <1>0, <2>1, <2>2 DEF Blocks
<1>4. ReceiveBlkNo'[p] = x.no + 1 /\ ReceiveBlkNo'[Peer(p)] = ReceiveBlkNo[Peer(p)]
  <2>1. ReceiveBlkNo[p] \in Nat /\ ReceiveBlkNo[p] + 1 < IntMod
    <3>1. ReceiveBlkNo[p] \in Nat /\ ReceiveBlkNo[p] <= put[Peer(p)]
      <4>1. x.no <= put[Peer(p)]
        BY <1>0, <1>1 DEF IInv, BlocksAgree
      <4> QED
        BY <1>0, <1>1, <4>1
    <3>2. put[Peer(p)] \in Nat /\ put[Peer(p)] <= MaxPuts
      BY <1>0, PutBound
    <3> QED
      BY <3>1, <3>2, SerConstants DEF NoWrap
  <2>2. (ReceiveBlkNo[p] + 1) % IntMod = ReceiveBlkNo[p] + 1
    BY <2>1, ModRange, SerConstants
  <2> QED
    BY <1>0, <2>2 DEF NextNo, TypeOK
<1>5. got'[Peer(p)] = got[Peer(p)] /\ got'[p] # <<>> /\ Last(got'[p]).id = x.id
  <2>1. g \in [id : Nat, full : BOOLEAN] /\ g.id = x.id
    BY <1>1
  <2>2. got[p] \in Seq([id : Nat, full : BOOLEAN]) /\ got'[p] = Append(got[p], g) /\ got'[Peer(p)] = got[Peer(p)]
    BY <1>0 DEF TypeOK
  <2> HIDE DEF g
  <2>3. /\ Len(Append(got[p], g)) = Len(got[p]) + 1 /\ Append(got[p], g)[Len(got[p]) + 1] = g
        /\ Len(got[p]) \in Nat
    BY <2>1, <2>2, AppendElements
  <2>4. Append(got[p], g) # <<>>
    <3>1. Len(Append(got[p], g)) # 0
      BY <2>3
    <3> QED
      BY <3>1
  <2> QED
    BY <2>1, <2>2, <2>3, <2>4 DEF Last
<1> QED
  BY <1>0, <1>1, <1>2, <1>3, <1>4, <1>5

\* The number of the last packet a side received is one of those it received.
LEMMA LastIsGot ==
  ASSUME TypeOK, NEW n \in Nodes, got[n] # <<>>
  PROVE  /\ Last(got[n]).id \in Nat
         /\ \A k \in Nat : (\A i \in DOMAIN got[n] : got[n][i].id < k) => Last(got[n]).id < k
<1>1. got[n] \in Seq([id : Nat, full : BOOLEAN]) /\ Len(got[n]) \in DOMAIN got[n]
  BY DEF TypeOK
<1>2. got[n][Len(got[n])] \in [id : Nat, full : BOOLEAN]
  BY <1>1, SeqElement
<1> QED
  BY <1>1, <1>2 DEF Last

LEMMA ServerAccepts ==
  ASSUME IInv, NoWrap, RequestsAgree, ResponsesAgree, RecvBlock("server")
  PROVE  RequestsAgree' /\ ResponsesAgree'
<1>1. PICK x : x = Head(wire["server"])
  OBVIOUS
<1>2. "client" \in Nodes /\ "server" \in Nodes /\ Peer("server") = "client" /\ TypeOK
  BY DEF Nodes, Peer, IInv
<1>3. /\ x \in Blocks("client") /\ x.id \in Nat /\ x.want \in BOOLEAN
      /\ \A i \in DOMAIN got["server"] : got["server"][i].id < x.id
      /\ \A m \in Nodes : Blocks(m)' \subseteq Blocks(m)
      /\ ReceiveBlkNo'["client"] = ReceiveBlkNo["client"]
      /\ got'["server"] # <<>> /\ Last(got'["server"]).id = x.id
      /\ want' = [want EXCEPT !["server"] = x.want]
      /\ pc["server"] = "recv" /\ pc' \in { [pc EXCEPT !["server"] = "resyncGet"], [pc EXCEPT !["server"] = "exec"] }
      /\ UNCHANGED <<SendBlkNo, put>>
  BY <1>1, <1>2, RecvBlockIs DEF AfterGet
<1>4. put["client"] \in Nat /\ x.id <= put["client"]
  BY <1>2, <1>3, PutBound DEF IInv, BlocksAgree
<1>5. \A k \in Nat : Accepted(k) => k < x.id
  BY <1>2, <1>3, LastIsGot DEF Accepted
<1>6. \A k \in Nat : k <= x.id => Accepted(k)'
  BY <1>3 DEF Accepted
<1>7. /\ want'["client"] = want["client"] /\ want'["server"] = x.want
      /\ (CallOver' <=> CallOver) /\ (Waiting' <=> Waiting) /\ ~Busy("server")'
  BY <1>2, <1>3 DEF CallOver, Waiting, Busy, TypeOK
<1>8. x.want => x.id = put["client"] /\ Waiting
  <2>1. SUFFICES ASSUME x.want PROVE x.id = put["client"] /\ Waiting
    OBVIOUS
  <2>2. ~Accepted(x.id)
    BY <1>3, <1>5
  <2>3. x.id = put["client"]
    BY <1>3, <1>4, <2>1, <2>2 DEF RequestsAgree
  <2>4. want["client"]
    BY <1>3, <2>1, <2>3 DEF RequestsAgree
  <2>5. ~CallOver
    BY <2>2, <2>3, <2>4 DEF RequestsAgree
  <2> QED
    BY <2>3, <2>4, <2>5 DEF Waiting
<1>9. RequestsAgree'
  <2>1. \A y \in Blocks("client") : y.id \in Nat
    BY <1>2, BlockFacts
  <2>2. \A k \in Nat : Accepted(k) => Accepted(k)'
    BY <1>3, <1>5, <1>6
  <2> QED
    BY <1>2, <1>3, <1>4, <1>7, <2>1, <2>2 DEF RequestsAgree
<1>10. ResponsesAgree'
  BY <1>2, <1>3, <1>7, <1>8 DEF ResponsesAgree, Answering
<1> QED
  BY <1>9, <1>10

\* What the debugger accepts is the response it waits for.
LEMMA ClientAccepts ==
  ASSUME IInv, NoWrap, RequestsAgree, ResponsesAgree, RecvBlock("client")
  PROVE  Last(got'["client"]).id = put["client"] /\ RequestsAgree' /\ ResponsesAgree'
<1>1. PICK x : x = Head(wire["client"])
  OBVIOUS
<1>2. "client" \in Nodes /\ "server" \in Nodes /\ Peer("client") = "server" /\ Peer("server") = "client" /\ TypeOK
  BY DEF Nodes, Peer, IInv
<1>3. /\ x \in Blocks("server") /\ x.no = ReceiveBlkNo["client"] /\ x.no \in Nat /\ x.id \in Nat
      /\ \A m \in Nodes : Blocks(m)' \subseteq Blocks(m)
      /\ ReceiveBlkNo'["client"] = x.no + 1
      /\ got'["server"] = got["server"] /\ Last(got'["client"]).id = x.id /\ want' = want
      /\ pc' \in { [pc EXCEPT !["client"] = "resyncGet"], [pc EXCEPT !["client"] = "app"] }
      /\ UNCHANGED <<SendBlkNo, put>>
  BY <1>1, <1>2, RecvBlockIs DEF AfterGet
<1>4. Waiting /\ x.id = put["client"]
  BY <1>3 DEF ResponsesAgree
<1>5. put["server"] \in Nat /\ x.id \in 1..put["server"] /\ SendBlkNo["server"] \in Nat
  BY <1>2, <1>3, PutBound, NoNumberWraps DEF IInv, BlocksAgree
<1>6. got["server"] # <<>> /\ put["server"] <= Last(got["server"]).id /\ Last(got["server"]).id \in Nat
  <2>1. got["server"] # <<>> /\ put["server"] <= Last(got["server"]).id
    BY <1>5 DEF IInv, ServerAgrees
  <2> QED
    BY <1>2, <2>1, LastIsGot
<1>7. Accepted(put["client"])
  BY <1>3, <1>4, <1>5, <1>6 DEF Accepted
<1>8. ~Answering
  <2>1. Answering => put["server"] < Last(got["server"]).id /\ Last(got["server"]).id = put["client"]
    BY DEF IInv, ServerAgrees, Answering, ResponsesAgree
  <2> QED
    BY <1>4, <1>5, <1>6, <2>1
<1>9. \A y \in Blocks("server") : ~(x.no + 1 <= y.no)
  <2>1. ASSUME NEW y \in Blocks("server"), x.no + 1 <= y.no PROVE FALSE
    <3>1. y.no \in Nat /\ y.id \in Nat
      BY <1>2, BlockFacts
    <3>2. ReceiveBlkNo["client"] <= y.no /\ x.no < y.no
      BY <1>3, <2>1, <3>1
    <3>3. y.id = put["client"] /\ x.id < y.id
      BY <1>2, <1>3, <3>2 DEF ResponsesAgree, IInv, BlocksAgree
    <3> QED
      BY <1>3, <1>4, <3>3
  <2> QED
    BY <2>1
<1>10. ~(Busy("server") /\ x.no + 1 <= SendBlkNo["server"])
  <2>1. ASSUME Busy("server"), x.no + 1 <= SendBlkNo["server"] PROVE FALSE
    <3>1. ReceiveBlkNo["client"] <= SendBlkNo["server"] /\ x.no < SendBlkNo["server"]
      BY <1>3, <1>5, <2>1
    <3>2. put["server"] = put["client"] /\ x.id < put["server"]
      BY <1>2, <1>3, <2>1, <3>1 DEF ResponsesAgree, IInv, BlocksAgree
    <3> QED
      BY <1>3, <1>4, <3>2
  <2> QED
    BY <2>1
<1>11. /\ (Busy("server")' <=> Busy("server")) /\ (Answering' <=> Answering)
       /\ \A id : Accepted(id)' <=> Accepted(id)
  BY <1>2, <1>3 DEF Busy, Answering, Accepted, TypeOK
<1>12. RequestsAgree'
  BY <1>2, <1>3, <1>7, <1>11 DEF RequestsAgree
<1>13. ResponsesAgree'
  BY <1>2, <1>3, <1>8, <1>9, <1>10, <1>11 DEF ResponsesAgree
<1> QED
  BY <1>3, <1>4, <1>12, <1>13

LEMMA MatchNext ==
  ASSUME IInv, NoWrap, RequestsAgree, ResponsesAgree, [Next]_vars
  PROVE  RequestsAgree' /\ ResponsesAgree'
<1>1. CASE \E n \in Nodes : RecvBlock(n)
  BY <1>1, ServerAccepts, ClientAccepts DEF Nodes
<1>2. CASE UNCHANGED vars
  BY <1>2 DEF vars, link, host, RequestsAgree, ResponsesAgree, Blocks, Busy, Waiting, CallOver, Accepted, Answering
<1> QED
  BY <1>1, <1>2, NextCases, LinkOnlyMatches, RequestMatches, AnswerMatches, AckReadMatches

LEMMA MatchInit == ASSUME Init PROVE RequestsAgree /\ ResponsesAgree
<1>1. /\ \A n \in Nodes : Blocks(n) = {} /\ ~Busy(n)
      /\ ~want["client"] /\ ~Answering /\ "client" \in Nodes /\ "server" \in Nodes
  BY PeerFacts DEF Init, Blocks, Range, Busy, Answering, Nodes
<1> QED
  BY <1>1 DEF RequestsAgree, ResponsesAgree

\* Only an accepted response changes what the debugger has received.
GotMatches == got'["client"] # got["client"] => Last(got'["client"]).id = put["client"]
LEMMA MatchStep ==
  ASSUME IInv, NoWrap, RequestsAgree, ResponsesAgree, [Next]_vars
  PROVE  GotMatches
<1>1. CASE RecvBlock("client")
  BY <1>1, ClientAccepts DEF GotMatches
<1>2. CASE RecvBlock("server")
  BY <1>2 DEF RecvBlock, GotMatches, IInv, TypeOK
<1>3. CASE LinkOnly
  BY <1>3, LinkOnlyKeeps DEF GotMatches
<1>4. CASE \/ Request \/ Answer \/ \E n \in Nodes : AckRead(n)
           \/ UNCHANGED vars
  BY <1>4 DEF Request, Answer, BlockSend, AckRead, vars, host, GotMatches
<1> QED
  BY <1>1, <1>2, <1>3, <1>4, NextCases DEF Nodes

\* What the debugger's RemoteGet returns answers the request it is waiting on,
\* however the line and the hosts behave, in every session of fewer requests
\* than there are block numbers.
THEOREM ResponseMatchesHolds == ASSUME NoWrap PROVE Spec => ResponseMatches
<1>1. Init => IInv /\ RequestsAgree /\ ResponsesAgree
  BY InitHolds, MatchInit
<1>2. IInv /\ RequestsAgree /\ ResponsesAgree /\ [Next]_vars => IInv' /\ RequestsAgree' /\ ResponsesAgree'
  BY NextKeeps, MatchNext
<1>3. IInv /\ RequestsAgree /\ ResponsesAgree /\ [Next]_vars => [GotMatches]_vars
  BY MatchStep
<1> QED
  BY <1>1, <1>2, <1>3, PTL DEF Spec, ResponseMatches, GotMatches

-----------------------------------------------------------------------------
(* One fault: the situations a session can be in *)

\* What NoMutualWait, PutDelivered and the exact link need, all of it: the line
\* does at most one harm; both hosts are prompt, so no time-out of BlockSend
\* comes while the peer is in its program (a user who is idle over 10 s makes
\* the server give its response up, serlink.c:437-439, and after a lost ACK the
\* two sides then wait for each other); and RemotePut has time to ask twice.
AtMostOneFault == MaxFaults <= 1
PromptHosts == Adverse = {}
TimeForTwo == MaxWaits >= 2
OneFault == AtMostOneFault /\ PromptHosts /\ TimeForTwo

\* The number of the block being sent fits in the block and differs from the
\* next.
Fits == \A n \in Nodes : /\ SendBlkNo[n] % BlkMod = SendBlkNo[n]
                         /\ NextNo(SendBlkNo[n]) # SendBlkNo[n]

Ack == Byte("ACK")
Nak == Byte("NAK")
Rlr == Byte("RLR")

\* The number of the last packet n received.
Newest(n) == IF got[n] = <<>> THEN 0 ELSE Last(got[n]).id

\* The last packet of n is on its way to the peer; the peer has it, and n
\* does not know; n knows.
Underway(n) == SendBlkNo[n] = ReceiveBlkNo[Peer(n)] /\ Newest(Peer(n)) < put[n]
Arrived(n) ==
  /\ ReceiveBlkNo[Peer(n)] = NextNo(SendBlkNo[n])
  /\ Newest(Peer(n)) = put[n] /\ 0 < put[n]
Settled(n) == SendBlkNo[n] = ReceiveBlkNo[Peer(n)] /\ Newest(Peer(n)) = put[n]

Acking(n) == pc[n] = "ack"
Draining(n) == pc[n] = "drain"
Ready(n) == pc[n] = "recv" \/ (pc[n] = "exec" /\ ~want[n])
Replying == pc["server"] = "exec" /\ want["server"]

\* What n and its peer have yet to read.
Wires(n, u, v) == wire[n] = u /\ wire[Peer(n)] = v

\* The line has done its harm, and neither side has done anything about it; n
\* has asked for a repetition, or has been asked for one.
Hurt == faults # 0 /\ \A k \in Nodes : Errors[k] = 0 /\ waits[k] = 0
Mending(n) == faults # 0 /\ pc[n] = "ack" /\ Errors[n] <= 1

\* Neither side is sending.
IdleHosts ==
  \/ pc["client"] = "app" /\ Ready("server")
  \/ pc["client"] = "recv" /\ want["client"] /\ Replying
IdleWires ==
  \/ \A n \in Nodes : wire[n] = <<>>
  \/ Hurt /\ \E n \in Nodes : Wires(n, <<Junk>>, <<>>)
Idle == IdleHosts /\ Settled("client") /\ Settled("server") /\ IdleWires

\* n is sending a block that its peer has not received.
SentHosts(n) == IF n = "client" THEN Ready("server") ELSE pc["client"] = "recv"
SentWires(n) ==
  \/ Acking(n) /\ Wires(n, <<>>, <<Block(n)>>)
  \/ Draining(n) /\ Hurt /\ Wires(n, <<>>, <<Block(n)>>)
  \/ Acking(n) /\ Hurt /\ \/ Wires(n, <<Junk>>, <<Block(n)>>)
                          \/ Wires(n, <<>>, <<Block(n), Junk>>)
                          \/ Wires(n, <<>>, <<Junk, Block(n)>>)
                          \/ Wires(n, <<>>, <<Bad>>)
                          \/ Wires(n, <<>>, <<Junk>>)
                          \/ Wires(n, <<>>, <<>>)
  \/ Mending(n) /\ (Wires(n, <<>>, <<Rlr>>) \/ Wires(n, <<Nak>>, <<>>))
Sent(n) == SentHosts(n) /\ Underway(n) /\ Settled(Peer(n)) /\ SentWires(n)

\* n is sending a block that its peer has received and not yet replied to.
TakenHosts(n) ==
  IF n = "client" THEN IF want["client"] THEN Replying ELSE Ready("server")
                  ELSE pc["client"] = "app"
TakenWires(n) ==
  \/ Acking(n) /\ Wires(n, <<Ack>>, <<>>)
  \/ Draining(n) /\ Hurt /\ (Wires(n, <<Ack>>, <<>>) \/ Wires(n, <<>>, <<>>))
  \/ Acking(n) /\ Hurt /\ \/ Wires(n, <<Ack, Junk>>, <<>>)
                          \/ Wires(n, <<Junk, Ack>>, <<>>)
                          \/ Wires(n, <<Ack>>, <<Junk>>)
                          \/ Wires(n, <<Junk>>, <<>>)
                          \/ Wires(n, <<>>, <<>>)
  \/ Ready(Peer(n)) /\ Acking(n) /\ faults # 0 /\ Wires(n, <<>>, <<Block(n)>>)
  \/ Ready(Peer(n)) /\ Mending(n)
       /\ (Wires(n, <<>>, <<Rlr>>) \/ Wires(n, <<Nak>>, <<>>))
Taken(n) == /\ TakenHosts(n) /\ Arrived(n) /\ Settled(Peer(n))
            /\ LastResponse[Peer(n)] = "ACK" /\ TakenWires(n)

\* So it is, and the peer already sends its next block, b.
CrossedWires(n, b) ==
  \/ Acking(n) /\ Acking(Peer(n)) /\ Wires(n, <<Ack, b>>, <<>>)
  \/ Hurt /\ Acking(n) /\ Draining(Peer(n)) /\ Wires(n, <<Ack, b>>, <<>>)
  \/ Hurt /\ Draining(n) /\ Acking(Peer(n)) /\ \/ Wires(n, <<Ack, b>>, <<>>)
                                               \/ Wires(n, <<b>>, <<>>)
                                               \/ Wires(n, <<>>, <<>>)
  \/ Hurt /\ Acking(n) /\ Acking(Peer(n)) /\ \/ Wires(n, <<Ack, b, Junk>>, <<>>)
                                             \/ Wires(n, <<Ack, Junk, b>>, <<>>)
                                             \/ Wires(n, <<Junk, Ack, b>>, <<>>)
                                             \/ Wires(n, <<Ack, b>>, <<Junk>>)
                                             \/ Wires(n, <<Ack, Bad>>, <<>>)
                                             \/ Wires(n, <<Ack, Junk>>, <<>>)
                                             \/ Wires(n, <<Junk, b>>, <<>>)
                                             \/ Wires(n, <<Ack>>, <<>>)
                                             \/ Wires(n, <<b>>, <<>>)
  \/ faults # 0 /\ Acking(n) /\ Acking(Peer(n)) /\ Wires(n, <<>>, <<Rlr>>)
Crossed(n) == /\ n = "client" => want["client"]
              /\ Arrived(n) /\ Underway(Peer(n))
              /\ LastResponse[Peer(n)] = "ACK"
              /\ CrossedWires(n, Block(Peer(n)))

\* Repetitions are few, and there is none without a fault.
Bounded ==
  /\ faults <= 1
  /\ faults = 0 => \A n \in Nodes : Errors[n] = 0 /\ waits[n] = 0
  /\ \A n \in Nodes :
       Errors[n] <= MAX_ERRORS /\ PrevErrors[n] <= MAX_ERRORS /\ waits[n] <= 1

\* The server answers only what it has received, and once; the debugger
\* makes no more requests than it may.
InTurn ==
  /\ put["client"] <= MaxPuts
  /\ put["server"] <= Newest("server")
  /\ pc["server"] = "exec" => put["server"] < Newest("server")

Situation == Idle \/ \E n \in Nodes : Sent(n) \/ Taken(n) \/ Crossed(n)
OneFaultInv == Bounded /\ InTurn /\ Situation

\* Short sequences.
LEMMA AppendTwo == ASSUME NEW a, NEW b PROVE Append(<<a>>, b) = <<a, b>>
<1> DEFINE u == Append(<<a>>, b)
           S == {a, b}
<1>1. u \in Seq(S) /\ Len(u) = 2
  OBVIOUS
<1>2. u[1] = a /\ u[2] = b
  OBVIOUS
<1> HIDE DEF u
<1>3. DOMAIN u = 1..2
  BY <1>1
<1>4. u = <<a, b>>
  BY <1>1, <1>2, <1>3
<1> QED
  BY <1>4 DEF u

\* Two items, the second joined on as a sequence.
LEMMA ConcatTwo == ASSUME NEW a, NEW b PROVE <<a>> \o <<b>> = <<a, b>>
<1> DEFINE u == <<a>> \o <<b>>
           S == {a, b}
<1>1. u \in Seq(S) /\ Len(u) = 2
  OBVIOUS
<1>2. u[1] = a /\ u[2] = b
  OBVIOUS
<1> HIDE DEF u
<1>3. DOMAIN u = 1..2
  BY <1>1
<1>4. u = <<a, b>>
  BY <1>1, <1>2, <1>3
<1> QED
  BY <1>4 DEF u

\* Three items.
LEMMA AppendThree ==
  ASSUME NEW a, NEW b, NEW c PROVE Append(<<a, b>>, c) = <<a, b, c>>
<1> DEFINE u == Append(<<a, b>>, c)
           S == {a, b, c}
<1>1. u \in Seq(S) /\ Len(u) = 3
  OBVIOUS
<1>2. u[1] = a /\ u[2] = b /\ u[3] = c
  OBVIOUS
<1> HIDE DEF u
<1>3. DOMAIN u = 1..3
  BY <1>1
<1>4. u = <<a, b, c>>
  BY <1>1, <1>2, <1>3
<1> QED
  BY <1>4 DEF u

\* What the protocol does to wires of up to three items.
LEMMA Short0 ==
  ASSUME NEW a, NEW b
  PROVE  /\ Append(<<>>, a) = <<a>> /\ <<>> \o <<>> = <<>>
         /\ <<>> \o <<a>> = <<a>> /\ <<>> \o <<a, b>> = <<a, b>>
OBVIOUS

\* ... beginning with one item,
LEMMA Short1 ==
  ASSUME NEW a, NEW b
  PROVE  /\ <<a>> # <<>> /\ Head(<<a>>) = a /\ Tail(<<a>>) = <<>>
         /\ Append(<<a>>, b) = <<a, b>> /\ <<a>> \o <<b>> = <<a, b>>
         /\ <<a>> \o <<>> = <<a>>
BY AppendTwo, ConcatTwo

\* ... with two,
LEMMA Short2 ==
  ASSUME NEW a, NEW b, NEW c
  PROVE  /\ <<a, b>> # <<>> /\ Head(<<a, b>>) = a /\ Tail(<<a, b>>) = <<b>>
         /\ Append(<<a, b>>, c) = <<a, b, c>> /\ <<a, b>> \o <<>> = <<a, b>>
BY AppendThree

\* ... and with three.
LEMMA Short3 ==
  ASSUME NEW a, NEW b, NEW c
  PROVE  /\ <<a, b, c>> # <<>> /\ Head(<<a, b, c>>) = a
         /\ Tail(<<a, b, c>>) = <<b, c>>
OBVIOUS

\* What ClearCom leaves of nothing and of one control byte.
LEMMA ClearComShort ==
  ASSUME NEW x
  PROVE  /\ \A v \in ClearCom(<<>>) : v = <<>>
         /\ x.kind # "BLK" => \A v \in ClearCom(<<x>>) : v = <<x>> \/ v = <<>>
<1>1. /\ Len(<<>>) = 0 /\ SubSeq(<<>>, 1, 0) = <<>>
      /\ Len(<<x>>) = 1 /\ <<x>>[1] = x
  OBVIOUS
<1>2. SubSeq(<<x>>, 1, 1) = <<x>> /\ SubSeq(<<x>>, 2, 1) = <<>>
  <2> DEFINE u == SubSeq(<<x>>, 1, 1)
             S == {x}
  <2>1. u \in Seq(S) /\ Len(u) = 1 /\ u[1] = x
    OBVIOUS
  <2>2. SubSeq(<<x>>, 2, 1) = <<>>
    OBVIOUS
  <2> HIDE DEF u
  <2>3. DOMAIN u = 1..1
    BY <2>1
  <2>4. u = <<x>>
    BY <2>1, <2>3
  <2> QED
    BY <2>2, <2>4 DEF u
<1>3. \A v \in ClearCom(<<>>) : v = <<>>
  BY <1>1 DEF ClearCom
<1>4. ASSUME x.kind # "BLK", NEW v \in ClearCom(<<x>>)
      PROVE  v = <<x>> \/ v = <<>>
  <2>1. \A k \in 1..1 : k = 1
    OBVIOUS
  <2>2. { j \in 1..Len(<<x>>) : <<x>>[j].kind = "BLK" } = {}
    BY <1>1, <1>4, <2>1
  <2>3. PICK k \in 0..1 : v = SubSeq(<<x>>, k + 1, 1)
    BY <1>1, <1>4, <2>2 DEF ClearCom
  <2> QED
    BY <1>2, <2>3
<1> QED
  BY <1>3, <1>4

\* The kinds of items.
LEMMA KindFacts ==
  /\ Ack.kind = "ACK" /\ Nak.kind = "NAK" /\ Rlr.kind = "RLR"
  /\ Junk.kind = "JUNK" /\ Bad.kind = "BAD"
  /\ \A n \in Nodes : /\ Block(n).kind = "BLK"
                      /\ Block(n).no = SendBlkNo[n] % BlkMod
                      /\ Block(n).err = PrevErrors[n]
                      /\ Block(n).id = put[n] /\ Block(n).want = want[n]
BY DEF Ack, Nak, Rlr, Junk, Bad, Byte, Block, BlockOf

-----------------------------------------------------------------------------
(* What each side can read in each situation *)

\* What the sender of a block that has not arrived can find on its wire.
LEMMA SentReads ==
  ASSUME NEW n \in Nodes, SentWires(n), wire[n] # <<>>
  PROVE  \/ Mending(n) /\ Wires(n, <<Nak>>, <<>>)
         \/ Acking(n) /\ Hurt /\ Wires(n, <<Junk>>, <<Block(n)>>)
BY DEF SentWires, Wires

\* What its peer can find.
LEMMA SentPeerReads ==
  ASSUME NEW n \in Nodes, SentWires(n), wire[Peer(n)] # <<>>
  PROVE  \/ Acking(n) /\ Wires(n, <<>>, <<Block(n)>>)
         \/ Draining(n) /\ Hurt /\ Wires(n, <<>>, <<Block(n)>>)
         \/ Acking(n) /\ Hurt /\ \/ Wires(n, <<Junk>>, <<Block(n)>>)
                                 \/ Wires(n, <<>>, <<Block(n), Junk>>)
                                 \/ Wires(n, <<>>, <<Junk, Block(n)>>)
                                 \/ Wires(n, <<>>, <<Bad>>)
                                 \/ Wires(n, <<>>, <<Junk>>)
         \/ Mending(n) /\ Wires(n, <<>>, <<Rlr>>)
BY DEF SentWires, Wires

\* What the sender of a block that has arrived can find.
LEMMA TakenReads ==
  ASSUME NEW n \in Nodes, TakenWires(n), wire[n] # <<>>
  PROVE  \/ Acking(n) /\ Wires(n, <<Ack>>, <<>>)
         \/ Draining(n) /\ Hurt /\ Wires(n, <<Ack>>, <<>>)
         \/ Acking(n) /\ Hurt /\ \/ Wires(n, <<Ack, Junk>>, <<>>)
                                 \/ Wires(n, <<Junk, Ack>>, <<>>)
                                 \/ Wires(n, <<Ack>>, <<Junk>>)
                                 \/ Wires(n, <<Junk>>, <<>>)
         \/ Ready(Peer(n)) /\ Mending(n) /\ Wires(n, <<Nak>>, <<>>)
BY DEF TakenWires, Wires

\* What its peer can find, while it has sent nothing more.
LEMMA TakenPeerReads ==
  ASSUME NEW n \in Nodes, TakenWires(n), wire[Peer(n)] # <<>>
  PROVE  \/ Acking(n) /\ Hurt /\ Wires(n, <<Ack>>, <<Junk>>)
         \/ /\ Ready(Peer(n)) /\ Acking(n) /\ faults # 0
            /\ Wires(n, <<>>, <<Block(n)>>)
         \/ Ready(Peer(n)) /\ Mending(n) /\ Wires(n, <<>>, <<Rlr>>)
BY DEF TakenWires, Wires

\* What it can find once its peer sends a block of its own.
LEMMA CrossedReads ==
  ASSUME NEW n \in Nodes, NEW b, CrossedWires(n, b), wire[n] # <<>>
  PROVE  \/ Acking(n) /\ Acking(Peer(n)) /\ Wires(n, <<Ack, b>>, <<>>)
         \/ Hurt /\ Acking(n) /\ Draining(Peer(n)) /\ Wires(n, <<Ack, b>>, <<>>)
         \/ Hurt /\ Draining(n) /\ Acking(Peer(n)) /\ \/ Wires(n, <<Ack, b>>, <<>>)
                                                      \/ Wires(n, <<b>>, <<>>)
         \/ Hurt /\ Acking(n) /\ Acking(Peer(n)) /\
              \/ Wires(n, <<Ack, b, Junk>>, <<>>)
              \/ Wires(n, <<Ack, Junk, b>>, <<>>)
              \/ Wires(n, <<Junk, Ack, b>>, <<>>)
              \/ Wires(n, <<Ack, b>>, <<Junk>>)
              \/ Wires(n, <<Ack, Bad>>, <<>>)
              \/ Wires(n, <<Ack, Junk>>, <<>>)
              \/ Wires(n, <<Junk, b>>, <<>>)
              \/ Wires(n, <<Ack>>, <<>>)
              \/ Wires(n, <<b>>, <<>>)
BY DEF CrossedWires, Wires

\* What that peer can find.
LEMMA CrossedPeerReads ==
  ASSUME NEW n \in Nodes, NEW b, CrossedWires(n, b), wire[Peer(n)] # <<>>
  PROVE  /\ Acking(n) /\ Acking(Peer(n)) /\ faults # 0
         /\ \/ Hurt /\ Wires(n, <<Ack, b>>, <<Junk>>)
            \/ Wires(n, <<>>, <<Rlr>>)
BY DEF CrossedWires, Wires, Hurt

\* Who is sending, and who is waiting for a block.
LEMMA Senders ==
  ASSUME Situation, NEW n \in Nodes, pc[n] \in {"ack", "drain"}
  PROVE  Sent(n) \/ Taken(n) \/ Crossed(n) \/ Crossed(Peer(n))
<1>1. ~Idle
  BY DEF Idle, IdleHosts, Ready, Replying, Nodes
<1>2. ~Sent(Peer(n))
  BY DEF Sent, SentHosts, Ready, Nodes, Peer
<1>3. ~Taken(Peer(n))
  BY DEF Taken, TakenHosts, Ready, Replying, Nodes, Peer
<1> QED
  BY <1>1, <1>2, <1>3, PeerFacts DEF Situation

\* A side that is not sending waits for nothing, or for what its peer sends.
LEMMA Receivers ==
  ASSUME Situation, NEW n \in Nodes, pc[n] \notin {"ack", "drain"}
  PROVE  Idle \/ Sent(Peer(n)) \/ Taken(Peer(n))
<1>1. ~Sent(n)
  BY DEF Sent, SentWires, Acking, Draining, Mending
<1>2. ~Taken(n)
  BY DEF Taken, TakenWires, Acking, Draining, Mending
<1>3. ~Crossed(n) /\ ~Crossed(Peer(n))
  BY PeerFacts DEF Crossed, CrossedWires, Acking, Draining, Mending
<1> QED
  BY <1>1, <1>2, <1>3, PeerFacts DEF Situation

-----------------------------------------------------------------------------
(* What a step that is no BlockSend and accepts nothing leaves alone *)

\* Reading an item and sending others.
LEMMA ReadSend ==
  ASSUME TypeOK, NEW n \in Nodes, NEW s, ReadAndSend(n, s)
  PROVE  wire'[n] = Tail(wire[n]) /\ wire'[Peer(n)] = wire[Peer(n)] \o s
BY PeerFacts DEF ReadAndSend, TypeOK

\* Without Adverse conditions only a reply is taken for one.
LEMMA NextKind ==
  ASSUME OneFault, NEW n \in Nodes, NEW k, NextIs(n, k)
  PROVE  wire[n] # <<>> /\ Head(wire[n]).kind = k
BY DEF OneFault, AtMostOneFault, PromptHosts, TimeForTwo, NextIs, Rubbish

\* What depends only on the block numbers and the packets.
LEMMA SameNumbers ==
  ASSUME UNCHANGED <<SendBlkNo, ReceiveBlkNo, put, got>>
  PROVE  \A n \in Nodes : /\ Settled(n)' = Settled(n)
                          /\ Underway(n)' = Underway(n)
                          /\ Arrived(n)' = Arrived(n)
                          /\ Newest(n)' = Newest(n)
BY DEF Settled, Underway, Arrived, Newest

\* What a repetition would send depends only on these.
LEMMA SameBlock ==
  ASSUME UNCHANGED <<SendBlkNo, PrevErrors, put, want>>
  PROVE  \A n \in Nodes : Block(n)' = Block(n)
BY DEF Block, BlockOf

\* Nothing changes but wires, and the counts of n.
Still(n) ==
  /\ UNCHANGED <<SendBlkNo, ReceiveBlkNo, PrevErrors, put, want, got, faults>>
  /\ \A m \in Nodes \ {n} : pc'[m] = pc[m]
  /\ LastResponse'[Peer(n)] = LastResponse[Peer(n)]
  /\ \A m \in Nodes \ {n} : Errors'[m] = Errors[m] /\ waits'[m] = waits[m]

\* n reads without repairing anything.
Quiet(n) == Still(n) /\ Errors'[n] = Errors[n] /\ waits'[n] = waits[n]

\* Such reading repairs nothing and uses up none of the repetitions.
LEMMA QuietFacts ==
  ASSUME NEW n \in Nodes, Quiet(n), Bounded
  PROVE  Bounded' /\ (Hurt => Hurt')
<1>1. UNCHANGED <<faults, PrevErrors>>
  BY DEF Quiet, Still
<1>2. \A m \in Nodes : Errors'[m] = Errors[m] /\ waits'[m] = waits[m]
  BY DEF Quiet, Still
<1> QED
  BY <1>1, <1>2 DEF Bounded, Hurt

\* A sender that goes on sending.
LEMMA SenderStays ==
  ASSUME NEW n \in Nodes, Still(n), InTurn,
         pc[n] \in {"ack", "drain"}, pc'[n] \in {"ack", "drain"}
  PROVE  /\ InTurn' /\ SentHosts(n)' = SentHosts(n) /\ TakenHosts(n)' = TakenHosts(n)
         /\ Ready(Peer(n))' = Ready(Peer(n)) /\ pc'[Peer(n)] = pc[Peer(n)]
<1>1. pc'[Peer(n)] = pc[Peer(n)]
  BY PeerFacts DEF Still
<1>2. UNCHANGED <<put, want, got>>
  BY DEF Still
<1>3. InTurn'
  BY <1>1, <1>2 DEF InTurn, Newest, Nodes, Peer
<1> QED
  BY <1>1, <1>2, <1>3 DEF SentHosts, TakenHosts, Ready, Replying, Nodes, Peer

\* From one situation to the next of the same kind.
LEMMA SentStays ==
  ASSUME NEW n \in Nodes, Sent(n), Still(n), InTurn, Bounded',
         pc[n] \in {"ack", "drain"}, pc'[n] \in {"ack", "drain"}, SentWires(n)'
  PROVE  OneFaultInv'
<1>1. InTurn' /\ SentHosts(n)'
  BY SenderStays DEF Sent
<1>2. Underway(n)' /\ Settled(Peer(n))'
  BY SameNumbers, PeerFacts DEF Sent, Still
<1> QED
  BY <1>1, <1>2 DEF Sent, Situation, OneFaultInv

\* The same for a block that has arrived.
LEMMA TakenStays ==
  ASSUME NEW n \in Nodes, Taken(n), Still(n), InTurn, Bounded',
         pc[n] \in {"ack", "drain"}, pc'[n] \in {"ack", "drain"}, TakenWires(n)'
  PROVE  OneFaultInv'
<1>1. InTurn' /\ TakenHosts(n)'
  BY SenderStays DEF Taken
<1>2. Arrived(n)' /\ Settled(Peer(n))' /\ (LastResponse[Peer(n)] = "ACK")'
  BY SameNumbers, PeerFacts DEF Taken, Still
<1> QED
  BY <1>1, <1>2 DEF Taken, Situation, OneFaultInv

\* The same when the peer already sends its next block.
LEMMA CrossedStays ==
  ASSUME NEW n \in Nodes, Crossed(n), NEW k \in Nodes, Still(k), InTurn, Bounded',
         LastResponse' = LastResponse,
         pc[k] \in {"ack", "drain"}, pc'[k] \in {"ack", "drain"},
         CrossedWires(n, Block(Peer(n)))'
  PROVE  OneFaultInv'
<1>1. InTurn'
  BY SenderStays
<1>2. Arrived(n)' /\ Underway(Peer(n))' /\ (LastResponse[Peer(n)] = "ACK")'
  BY SameNumbers, PeerFacts DEF Crossed, Still
<1>3. (n = "client" => want["client"])'
  BY DEF Crossed, Still
<1>4. Crossed(n)'
  BY <1>2, <1>3 DEF Crossed
<1> QED
  BY <1>1, <1>4 DEF Situation, OneFaultInv

-----------------------------------------------------------------------------
(* Replies and time-outs *)

\* One more error, of at most one, is not too many.
LEMMA WorseFacts ==
  ASSUME NEW e \in 0..ErrCap
  PROVE  e <= 1 => Worse(e) <= MAX_ERRORS /\ (e = 0 => Worse(e) <= 1)
BY DEF Worse, ErrCap, MAX_ERRORS

\* NAK: the block is sent again.
LEMMA NakReadKeeps ==
  ASSUME TypeOK, OneFault, OneFaultInv, NEW n \in Nodes, NakRead(n)
  PROVE  OneFaultInv'
<1>1. /\ wire[n] # <<>> /\ Head(wire[n]).kind = "NAK" /\ pc[n] = "ack"
      /\ wire'[n] = Tail(wire[n]) /\ wire'[Peer(n)] = wire[Peer(n)] \o <<Block(n)>>
  BY NextKind, ReadSend DEF NakRead
<1>2. /\ Still(n) /\ pc' = pc /\ LastResponse' = LastResponse
      /\ Errors'[n] = Worse(Errors[n]) /\ waits'[n] = 0 /\ Block(n)' = Block(n)
  <2>1. UNCHANGED <<pc, SendBlkNo, ReceiveBlkNo, LastResponse, PrevErrors, put, want,
                    got, faults>>
    BY DEF NakRead, host
  <2>2. /\ Errors' = [Errors EXCEPT ![n] = Worse(Errors[n])]
        /\ waits' = [waits EXCEPT ![n] = 0]
    BY DEF NakRead
  <2> QED
    BY <2>1, <2>2, SameBlock DEF Still, TypeOK
<1>3. ASSUME Mending(n) PROVE Bounded'
  <2>1. Worse(Errors[n]) <= MAX_ERRORS /\ faults # 0
    BY <1>3, WorseFacts DEF Mending, TypeOK
  <2>2. UNCHANGED <<faults, PrevErrors>>
    BY <1>2 DEF Still
  <2>3. \A m \in Nodes : Errors'[m] <= MAX_ERRORS /\ waits'[m] <= 1
    BY <1>2, <2>1 DEF Still, OneFaultInv, Bounded
  <2> QED
    BY <2>1, <2>2, <2>3 DEF OneFaultInv, Bounded
<1>4. InTurn /\ Situation
  BY DEF OneFaultInv
<1>5. CASE Sent(n)
  <2>1. Mending(n) /\ Wires(n, <<Nak>>, <<>>)
    BY <1>1, <1>5, SentReads, Short1, KindFacts DEF Sent, Wires
  <2>2. SentWires(n)'
    BY <1>1, <1>2, <2>1, Short0, Short1 DEF SentWires, Wires, Acking
  <2> QED
    BY <1>1, <1>2, <1>3, <1>4, <1>5, <2>1, <2>2, SentStays
<1>6. CASE Taken(n)
  <2>1. Mending(n) /\ Wires(n, <<Nak>>, <<>>) /\ Ready(Peer(n))
    BY <1>1, <1>6, TakenReads, Short1, Short2, KindFacts DEF Taken, Wires
  <2>2. wire'[n] = <<>> /\ wire'[Peer(n)] = <<Block(n)>> /\ Ready(Peer(n))'
    BY <1>1, <1>2, <1>4, <2>1, Short0, Short1, SenderStays DEF Wires
  <2>3. TakenWires(n)'
    BY <1>1, <1>2, <2>1, <2>2 DEF TakenWires, Wires, Acking, Mending, Still
  <2> QED
    BY <1>1, <1>2, <1>3, <1>4, <1>6, <2>1, <2>3, TakenStays
<1>7. ~Crossed(n)
  <2>1. SUFFICES ASSUME Crossed(n) PROVE FALSE
    OBVIOUS
  <2>2. Block(Peer(n)).kind = "BLK"
    BY KindFacts, PeerFacts
  <2> QED
    BY <1>1, <2>1, <2>2, CrossedReads, Short1, Short2, Short3, KindFacts DEF Crossed, Wires
<1>8. ~Crossed(Peer(n))
  BY <1>1, CrossedPeerReads, PeerFacts, Short1, KindFacts DEF Crossed, Wires
<1> QED
  BY <1>1, <1>4, <1>5, <1>6, <1>7, <1>8, Senders

\* Counts that only a fault makes grow.
LEMMA StillBounded ==
  ASSUME NEW n \in Nodes, Still(n), Bounded, faults # 0,
         Errors'[n] <= MAX_ERRORS, waits'[n] <= 1
  PROVE  Bounded'
<1>1. UNCHANGED <<faults, PrevErrors>>
  BY DEF Still
<1>2. \A m \in Nodes : Errors'[m] <= MAX_ERRORS /\ waits'[m] <= 1
  BY DEF Still, Bounded
<1> QED
  BY <1>1, <1>2 DEF Bounded

\* RLR while sending: the last response and the block are sent again.
LEMMA RlrReadKeeps ==
  ASSUME TypeOK, OneFault, OneFaultInv, NEW n \in Nodes, RlrRead(n)
  PROVE  OneFaultInv'
<1> DEFINE q == Peer(n)
<1>1. /\ wire[n] # <<>> /\ Head(wire[n]).kind = "RLR" /\ pc[n] = "ack"
      /\ wire'[n] = Tail(wire[n])
      /\ wire'[q] = wire[q] \o <<Byte(LastResponse[n]), Block(n)>>
  BY NextKind, ReadSend DEF RlrRead
<1>2. /\ Still(n) /\ pc' = pc /\ LastResponse' = LastResponse
      /\ Errors' = Errors /\ waits'[n] = 0 /\ Block(n)' = Block(n)
  <2>1. UNCHANGED <<pc, SendBlkNo, ReceiveBlkNo, LastResponse, Errors, PrevErrors, put,
                    want, got, faults>>
    BY DEF RlrRead, host
  <2>2. waits' = [waits EXCEPT ![n] = 0]
    BY DEF RlrRead
  <2> QED
    BY <2>1, <2>2, SameBlock DEF Still, TypeOK
<1>3. ~Sent(n)
  BY <1>1, SentReads, Short1, KindFacts DEF Sent, Wires
<1>4. ~Taken(n)
  BY <1>1, TakenReads, Short1, Short2, KindFacts DEF Taken, Wires
<1>5. ~Crossed(n)
  <2>1. SUFFICES ASSUME Crossed(n) PROVE FALSE
    OBVIOUS
  <2>2. Block(q).kind = "BLK"
    BY KindFacts, PeerFacts
  <2> QED
    BY <1>1, <2>1, <2>2, CrossedReads, Short1, Short2, Short3, KindFacts DEF Crossed, Wires
<1>6. CASE Crossed(q)
  <2>1. q \in Nodes /\ Peer(q) = n
    BY PeerFacts
  <2>2. CrossedWires(q, Block(n)) /\ LastResponse[n] = "ACK"
    BY <1>6, <2>1 DEF Crossed
  <2>3. Acking(q) /\ Acking(n) /\ faults # 0 /\ Wires(q, <<>>, <<Rlr>>)
    <3>1. Junk.kind # "RLR" /\ Head(<<Junk>>) = Junk
      BY KindFacts, Short1
    <3> QED
      BY <1>1, <2>1, <2>2, <3>1, CrossedPeerReads DEF Wires
  <2>4. wire'[n] = <<>> /\ wire'[q] = <<Ack, Block(n)>>
    BY <1>1, <2>1, <2>2, <2>3, Short0, Short1 DEF Wires, Ack
  <2>5. CrossedWires(q, Block(n))'
    BY <1>2, <2>1, <2>3, <2>4 DEF CrossedWires, Wires, Acking
  <2>6. Bounded'
    BY <1>2, <2>3, StillBounded DEF OneFaultInv, Bounded
  <2> QED
    BY <1>1, <1>2, <1>6, <2>1, <2>5, <2>6, CrossedStays DEF OneFaultInv
<1> QED
  BY <1>1, <1>3, <1>4, <1>5, <1>6, Senders DEF OneFaultInv

\* Reading on while the line settles: MessRead and DrainRead.
LEMMA ReadsOn ==
  ASSUME TypeOK, NEW n \in Nodes, pc[n] \in {"ack", "drain"}, pc'[n] = "drain",
         pc' = [pc EXCEPT ![n] = "drain"], wire[n] # <<>>,
         ReadAndSend(n, <<>>), UNCHANGED <<link, host, faults>>,
         Bounded
  PROVE  /\ Quiet(n) /\ Bounded' /\ (Hurt => Hurt') /\ LastResponse' = LastResponse
         /\ Draining(n)' /\ pc'[Peer(n)] = pc[Peer(n)]
         /\ \A m \in Nodes : Block(m)' = Block(m)
         /\ wire'[n] = Tail(wire[n]) /\ wire'[Peer(n)] = wire[Peer(n)] \o <<>>
<1>1. UNCHANGED <<SendBlkNo, ReceiveBlkNo, LastResponse, Errors, PrevErrors, waits, put,
                  want, got, faults>>
  BY DEF link, host
<1>2. Quiet(n) /\ pc'[Peer(n)] = pc[Peer(n)]
  BY <1>1, PeerFacts DEF Quiet, Still, TypeOK
<1> QED
  BY <1>1, <1>2, QuietFacts, SameBlock, ReadSend DEF Draining

\* Anything else while sending: start to drain the line.
LEMMA MessReadKeeps ==
  ASSUME TypeOK, OneFaultInv, NEW n \in Nodes, MessRead(n)
  PROVE  OneFaultInv'
<1> DEFINE q == Peer(n)
           k == Head(wire[n]).kind
<1>1. /\ wire[n] # <<>> /\ k \notin Replies /\ pc[n] = "ack"
      /\ Bounded /\ InTurn /\ Situation /\ q \in Nodes /\ Peer(q) = n /\ q # n
  BY PeerFacts DEF MessRead, OneFaultInv
<1>2. /\ Quiet(n) /\ Bounded' /\ (Hurt => Hurt') /\ LastResponse' = LastResponse
      /\ Draining(n)' /\ pc'[q] = pc[q] /\ \A m \in Nodes : Block(m)' = Block(m)
      /\ wire'[n] = Tail(wire[n]) /\ wire'[q] = wire[q] \o <<>>
  <2>1. pc' = [pc EXCEPT ![n] = "drain"] /\ pc'[n] = "drain"
    BY DEF MessRead, TypeOK
  <2> QED
    BY <1>1, <2>1, ReadsOn DEF MessRead
<1>3. Still(n) /\ pc'[n] \in {"ack", "drain"}
  BY <1>2 DEF Quiet, Draining
<1>4. CASE Sent(n)
  <2>1. Hurt /\ Wires(n, <<Junk>>, <<Block(n)>>)
    BY <1>1, <1>4, SentReads, Short1, KindFacts DEF Sent, Wires, Replies
  <2>2. SentWires(n)'
    BY <1>2, <2>1, Short1 DEF SentWires, Wires
  <2> QED
    BY <1>1, <1>2, <1>3, <1>4, <2>2, SentStays
<1>5. CASE Taken(n)
  <2>1. Hurt /\ (Wires(n, <<Junk, Ack>>, <<>>) \/ Wires(n, <<Junk>>, <<>>))
    BY <1>1, <1>5, TakenReads, Short1, Short2, KindFacts DEF Taken, Wires, Replies
  <2>2. TakenWires(n)'
    <3>1. wire'[q] = <<>> /\ (wire'[n] = <<Ack>> \/ wire'[n] = <<>>)
      <4>1. CASE Wires(n, <<Junk, Ack>>, <<>>)
        BY <1>2, <4>1, Short0, Short2 DEF Wires
      <4>2. CASE Wires(n, <<Junk>>, <<>>)
        BY <1>2, <4>2, Short0, Short1 DEF Wires
      <4> QED
        BY <2>1, <4>1, <4>2
    <3> QED
      BY <1>2, <2>1, <3>1 DEF TakenWires, Wires
  <2> QED
    BY <1>1, <1>2, <1>3, <1>5, <2>2, TakenStays
<1>6. CASE Crossed(n)
  <2> DEFINE b == Block(q)
  <2>1. CrossedWires(n, b) /\ b.kind = "BLK"
    BY <1>1, <1>6, KindFacts DEF Crossed
  <2>2. b' = b
    BY <1>1, <1>2
  <2> HIDE DEF b
  <2>3. /\ Hurt /\ Acking(q)
        /\ \/ Wires(n, <<Junk, Ack, b>>, <<>>) \/ Wires(n, <<Junk, b>>, <<>>)
           \/ Wires(n, <<b>>, <<>>)
    <3>1. ~Draining(n)
      BY <1>1 DEF Draining
    <3>2. Ack.kind \in Replies
      BY KindFacts DEF Replies
    <3> QED
      BY <1>1, <2>1, <3>1, <3>2, CrossedReads, Short1, Short2, Short3 DEF Wires
  <2>4. CrossedWires(n, b)'
    <3>1. /\ wire'[q] = <<>>
          /\ \/ wire'[n] = <<Ack, b>> \/ wire'[n] = <<b>> \/ wire'[n] = <<>>
      <4>1. CASE Wires(n, <<Junk, Ack, b>>, <<>>)
        BY <1>2, <4>1, Short0, Short3 DEF Wires
      <4>2. CASE Wires(n, <<Junk, b>>, <<>>)
        BY <1>2, <4>2, Short0, Short2 DEF Wires
      <4>3. CASE Wires(n, <<b>>, <<>>)
        BY <1>2, <4>3, Short0, Short1 DEF Wires
      <4> QED
        BY <2>3, <4>1, <4>2, <4>3
    <3>2. Acking(q)' /\ Hurt'
      BY <1>2, <2>3 DEF Acking
    <3> QED
      BY <1>2, <2>2, <3>1, <3>2 DEF CrossedWires, Wires
  <2> QED
    BY <1>1, <1>2, <1>3, <1>6, <2>4, CrossedStays DEF b
<1>7. CASE Crossed(q)
  <2> DEFINE b == Block(n)
  <2>1. CrossedWires(q, b) /\ b' = b
    BY <1>1, <1>2, <1>7 DEF Crossed
  <2> HIDE DEF b
  <2>2. Acking(q) /\ Hurt /\ Wires(q, <<Ack, b>>, <<Junk>>)
    <3>1. Rlr.kind \in Replies /\ Head(<<Rlr>>) = Rlr
      BY KindFacts, Short1 DEF Replies
    <3> QED
      BY <1>1, <2>1, <3>1, CrossedPeerReads DEF Wires
  <2>3. CrossedWires(q, b)'
    BY <1>1, <1>2, <2>1, <2>2, Short1, Short2 DEF CrossedWires, Wires, Acking
  <2> QED
    BY <1>1, <1>2, <1>3, <1>7, <2>3, CrossedStays DEF b
<1> QED
  BY <1>1, <1>4, <1>5, <1>6, <1>7, Senders

\* An item discarded while draining.
LEMMA DrainReadKeeps ==
  ASSUME TypeOK, OneFaultInv, NEW n \in Nodes, DrainRead(n)
  PROVE  OneFaultInv'
<1> DEFINE q == Peer(n)
<1>1. /\ wire[n] # <<>> /\ pc[n] = "drain" /\ ~Acking(n)
      /\ Bounded /\ InTurn /\ Situation /\ q \in Nodes /\ Peer(q) = n /\ q # n
  BY PeerFacts DEF DrainRead, OneFaultInv, Acking
<1>2. /\ Quiet(n) /\ Bounded' /\ (Hurt => Hurt') /\ LastResponse' = LastResponse
      /\ Draining(n)' /\ pc'[q] = pc[q] /\ \A m \in Nodes : Block(m)' = Block(m)
      /\ wire'[n] = Tail(wire[n]) /\ wire'[q] = wire[q] \o <<>>
  <2>1. pc' = [pc EXCEPT ![n] = "drain"] /\ pc'[n] = "drain"
    BY <1>1 DEF DrainRead, TypeOK
  <2> QED
    BY <1>1, <2>1, ReadsOn DEF DrainRead
<1>3. Still(n) /\ pc'[n] \in {"ack", "drain"}
  BY <1>2 DEF Quiet, Draining
<1>4. ~Sent(n)
  BY <1>1, SentReads DEF Sent, Mending
<1>5. CASE Taken(n)
  <2>1. Hurt /\ Wires(n, <<Ack>>, <<>>)
    BY <1>1, <1>5, TakenReads DEF Taken, Mending, Acking
  <2>2. wire'[n] = <<>> /\ wire'[q] = <<>>
    BY <1>2, <2>1, Short0, Short1 DEF Wires
  <2>3. TakenWires(n)'
    BY <1>2, <2>1, <2>2 DEF TakenWires, Wires
  <2> QED
    BY <1>1, <1>2, <1>3, <1>5, <2>3, TakenStays
<1>6. CASE Crossed(n)
  <2> DEFINE b == Block(q)
  <2>1. CrossedWires(n, b) /\ b' = b
    BY <1>1, <1>2, <1>6 DEF Crossed
  <2> HIDE DEF b
  <2>2. /\ Hurt /\ Acking(q)
        /\ Wires(n, <<Ack, b>>, <<>>) \/ Wires(n, <<b>>, <<>>)
    BY <1>1, <2>1, CrossedReads
  <2>3. wire'[q] = <<>> /\ (wire'[n] = <<b>> \/ wire'[n] = <<>>)
    <3>1. CASE Wires(n, <<Ack, b>>, <<>>)
      BY <1>2, <3>1, Short0, Short2 DEF Wires
    <3>2. CASE Wires(n, <<b>>, <<>>)
      BY <1>2, <3>2, Short0, Short1 DEF Wires
    <3> QED
      BY <2>2, <3>1, <3>2
  <2>4. Acking(q)' /\ Hurt'
    BY <1>2, <2>2 DEF Acking
  <2>5. CrossedWires(n, b)'
    BY <1>2, <2>1, <2>3, <2>4 DEF CrossedWires, Wires
  <2> QED
    BY <1>1, <1>2, <1>3, <1>6, <2>5, CrossedStays DEF b
<1>7. ~Crossed(q)
  BY <1>1, CrossedPeerReads DEF Crossed
<1> QED
  BY <1>1, <1>4, <1>5, <1>6, <1>7, Senders

\* When a wait can time out.
LEMMA TimeOutFacts ==
  ASSUME OneFault, NEW n \in Nodes, CanTimeOut(n)
  PROVE  /\ Wires(n, <<>>, <<>>) /\ pc[Peer(n)] \notin {"app", "exec"}
         /\ pc[Peer(n)] = "drain" => pc[n] = "drain"
BY DEF OneFault, AtMostOneFault, PromptHosts, TimeForTwo, CanTimeOut, Wires

\* Asking for the last response.
LEMMA AskingKeeps ==
  ASSUME TypeOK, OneFault, OneFaultInv, NEW n \in Nodes,
         pc[n] \in {"ack", "drain"}, CanTimeOut(n), RequestLastResponse(n),
         pc' = [pc EXCEPT ![n] = "ack"],
         UNCHANGED <<SendBlkNo, ReceiveBlkNo, LastResponse, PrevErrors, host, faults>>
  PROVE  OneFaultInv'
<1> DEFINE q == Peer(n)
<1>1. /\ Bounded /\ InTurn /\ Situation /\ q \in Nodes /\ Peer(q) = n /\ q # n
      /\ wire[n] = <<>> /\ wire[q] = <<>> /\ pc[q] \notin {"app", "exec"}
      /\ pc[q] = "drain" => pc[n] = "drain"
  BY PeerFacts, TimeOutFacts DEF OneFaultInv, Wires
<1>2. wire'[n] = <<>> /\ wire'[q] = <<Rlr>>
  <2>1. wire'[n] = wire[n] /\ wire'[q] = Append(wire[q], Rlr)
    BY <1>1 DEF RequestLastResponse, TypeOK, Rlr
  <2> QED
    BY <1>1, <2>1, Short0
<1>3. /\ Still(n) /\ Acking(n)' /\ pc'[n] \in {"ack", "drain"} /\ pc'[q] = pc[q]
      /\ LastResponse' = LastResponse
  <2>1. /\ Errors' = [Errors EXCEPT ![n] = Worse(Errors[n])]
        /\ \A m \in Nodes \ {n} : waits'[m] = waits[m]
    BY DEF RequestLastResponse, TypeOK
  <2> QED
    BY <1>1, <2>1 DEF Still, host, TypeOK, Acking
<1>4. ASSUME Hurt PROVE Bounded' /\ Mending(n)' /\ faults' # 0
  <2>1. /\ Errors'[n] = Worse(Errors[n]) /\ Errors[n] = 0
        /\ waits'[n] \in {waits[n], waits[n] + 1} /\ waits[n] = 0 /\ faults # 0
        /\ faults' = faults
    BY <1>4 DEF RequestLastResponse, TypeOK, Hurt
  <2>2. Errors'[n] <= 1 /\ Errors'[n] <= MAX_ERRORS
    BY <2>1 DEF Worse, ErrCap, MAX_ERRORS
  <2>3. waits'[n] <= 1
    BY <2>1
  <2>4. Bounded'
    BY <1>1, <1>3, <2>1, <2>2, <2>3, StillBounded
  <2> QED
    BY <1>3, <2>1, <2>2, <2>4 DEF Mending, Acking
<1>5. CASE Sent(n)
  <2>1. Hurt
    <3>1. <<Block(n)>> # <<>> /\ <<Rlr>> # <<>> /\ <<Nak>> # <<>>
      BY Short1
    <3> QED
      BY <1>1, <1>5, <3>1 DEF Sent, SentWires, Wires
  <2>2. SentWires(n)'
    BY <1>2, <1>4, <2>1 DEF SentWires, Wires
  <2> QED
    BY <1>1, <1>3, <1>4, <1>5, <2>1, <2>2, SentStays
<1>6. CASE Taken(n)
  <2>1. Hurt
    <3>1. <<Block(n)>> # <<>> /\ <<Rlr>> # <<>> /\ <<Nak>> # <<>> /\ <<Ack>> # <<>>
      BY Short1
    <3> QED
      BY <1>1, <1>6, <3>1 DEF Taken, TakenWires, Wires
  <2>2. Ready(q)
    BY <1>1, <1>6 DEF Taken, TakenHosts, Ready, Replying, Nodes, Peer
  <2>3. Ready(q)'
    BY <1>1, <1>3, <2>2, SenderStays
  <2>4. TakenWires(n)'
    BY <1>2, <1>4, <2>1, <2>3 DEF TakenWires, Wires
  <2> QED
    BY <1>1, <1>3, <1>4, <1>6, <2>1, <2>4, TakenStays
<1>7. CASE Crossed(n)
  <2> DEFINE b == Block(q)
  <2>1. CrossedWires(n, b)
    BY <1>7 DEF Crossed
  <2> HIDE DEF b
  <2>2. Hurt /\ Acking(q)
    <3>1. <<Rlr>> # <<>> /\ <<Ack>> # <<>> /\ <<b>> # <<>>
      BY Short1
    <3> QED
      BY <1>1, <2>1, <3>1 DEF CrossedWires, Wires
  <2>3. \A c : CrossedWires(n, c)'
    BY <1>2, <1>3, <1>4, <2>2 DEF CrossedWires, Wires, Acking
  <2> QED
    BY <1>1, <1>3, <1>4, <1>7, <2>2, <2>3, CrossedStays
<1>8. ~Crossed(q)
  <2> DEFINE b == Block(n)
  <2> SUFFICES ASSUME CrossedWires(q, b) PROVE FALSE
    BY <1>1 DEF Crossed
  <2> HIDE DEF b
  <2>1. <<Rlr>> # <<>> /\ <<Ack>> # <<>> /\ <<b>> # <<>>
    BY Short1
  <2>2. Draining(q) /\ Acking(n)
    BY <1>1, <2>1 DEF CrossedWires, Wires
  <2> QED
    BY <1>1, <2>2 DEF Draining, Acking
<1> QED
  BY <1>1, <1>5, <1>6, <1>7, <1>8, Senders

\* Both time-outs of BlockSend ask for the last response again.
LEMMA TimeOutKeeps ==
  ASSUME TypeOK, OneFault, OneFaultInv, NEW n \in Nodes,
         AckTimeOut(n) \/ DrainQuiet(n)
  PROVE  OneFaultInv'
<1>1. CASE AckTimeOut(n)
  <2>1. pc' = [pc EXCEPT ![n] = "ack"]
    BY <1>1 DEF AckTimeOut, TypeOK
  <2> QED
    BY <1>1, <2>1, AskingKeeps DEF AckTimeOut
<1>2. CASE DrainQuiet(n)
  BY <1>2, AskingKeeps DEF DrainQuiet
<1> QED
  BY <1>1, <1>2

\* BlockSend does not give up.
LEMMA NoGiveUp ==
  ASSUME OneFault, OneFaultInv, NEW n \in Nodes
  PROVE  ~GiveUp(n)
<1>1. waits[n] <= 1 /\ MaxWaits >= 2 /\ MaxWaits \in Nat
  BY SerConstants DEF OneFault, AtMostOneFault, PromptHosts, TimeForTwo, OneFaultInv, Bounded
<1> QED
  BY <1>1 DEF GiveUp

\* An ACK ends BlockSend, and the caller goes on as AfterPut says.
LEMMA AckReadSettles ==
  ASSUME TypeOK, OneFault, OneFaultInv, NEW n \in Nodes, AckRead(n)
  PROVE  OneFaultInv' /\ Arrived(n)
<1> DEFINE q == Peer(n)
<1>1. /\ wire[n] # <<>> /\ Head(wire[n]).kind = "ACK" /\ pc[n] = "ack"
      /\ Bounded /\ InTurn /\ Situation /\ q \in Nodes /\ Peer(q) = n /\ q # n
      /\ wire'[n] = Tail(wire[n]) /\ wire'[q] = wire[q] \o <<>>
  BY NextKind, ReadSend, PeerFacts DEF AckRead, OneFaultInv
<1>2. /\ UNCHANGED <<ReceiveBlkNo, LastResponse, Errors, PrevErrors, waits, put, want,
                     got, faults>>
      /\ SendBlkNo'[n] = NextNo(SendBlkNo[n]) /\ SendBlkNo'[q] = SendBlkNo[q]
      /\ pc'[n] = AfterPut(n) /\ pc'[q] = pc[q]
  <2>1. PrevErrors[n] \in 0..ErrCap /\ PrevErrors[n] <= MAX_ERRORS
    BY <1>1 DEF TypeOK, Bounded
  <2>2. pc' = [pc EXCEPT ![n] = AfterPut(n)]
    <3>1. ~(PrevErrors[n] > MAX_ERRORS)
      BY <2>1 DEF ErrCap, MAX_ERRORS
    <3> QED
      BY <3>1 DEF AckRead
  <2> QED
    BY <1>1, <2>2 DEF AckRead, host, TypeOK
<1>3. Bounded' /\ (Hurt => Hurt') /\ \A m \in Nodes : Newest(m)' = Newest(m)
  <2>1. \A m \in Nodes : Newest(m)' = Newest(m)
    BY <1>2 DEF Newest
  <2>2. Bounded'
    BY <1>1, <1>2 DEF Bounded
  <2>3. Hurt => Hurt'
    BY <1>2 DEF Hurt
  <2> QED
    BY <2>1, <2>2, <2>3
<1>4. InTurn'
  <2>1. pc'["server"] = "exec" => pc["server"] = "exec"
    BY <1>1, <1>2 DEF AfterPut, Nodes
  <2> QED
    BY <1>1, <1>2, <1>3, <2>1 DEF InTurn, Nodes
<1>5. /\ Arrived(n) => Settled(n)'
      /\ Settled(q) => Settled(q)'
      /\ Underway(q) => Underway(q)'
      /\ Block(q)' = Block(q)
  BY <1>1, <1>2, <1>3 DEF Arrived, Settled, Underway, Block, BlockOf
<1>6. CASE Taken(n)
  <2>1. \/ Wires(n, <<Ack>>, <<>>)
        \/ Hurt /\ (Wires(n, <<Ack, Junk>>, <<>>) \/ Wires(n, <<Ack>>, <<Junk>>))
    BY <1>1, <1>6, TakenReads, Short1, Short2, KindFacts DEF Taken, Wires, Acking, Draining
  <2>2. IdleWires'
    <3>1. CASE Wires(n, <<Ack>>, <<>>)
      <4>1. wire'[n] = <<>> /\ wire'[q] = <<>>
        BY <1>1, <3>1, Short0, Short1 DEF Wires
      <4> QED
        BY <1>1, <4>1, PeerFacts DEF IdleWires
    <3>2. CASE Hurt /\ Wires(n, <<Ack, Junk>>, <<>>)
      <4>1. wire'[n] = <<Junk>> /\ wire'[q] = <<>>
        BY <1>1, <3>2, Short0, Short2 DEF Wires
      <4> QED
        BY <1>1, <1>3, <3>2, <4>1 DEF IdleWires, Wires
    <3>3. CASE Hurt /\ Wires(n, <<Ack>>, <<Junk>>)
      <4>1. wire'[n] = <<>> /\ wire'[q] = <<Junk>>
        BY <1>1, <3>3, Short0, Short1 DEF Wires
      <4> QED
        BY <1>1, <1>3, <3>3, <4>1 DEF IdleWires, Wires
    <3> QED
      BY <2>1, <3>1, <3>2, <3>3
  <2>3. IdleHosts'
    BY <1>1, <1>2, <1>6 DEF Taken, TakenHosts, IdleHosts, AfterPut, Ready, Replying, Nodes, Peer
  <2>4. Settled("client")' /\ Settled("server")' /\ Arrived(n)
    <3>1. Settled(n)' /\ Settled(q)' /\ Arrived(n)
      BY <1>5, <1>6 DEF Taken
    <3> QED
      BY <1>1, <3>1 DEF Nodes, Peer
  <2> QED
    BY <1>3, <1>4, <2>2, <2>3, <2>4 DEF Idle, Situation, OneFaultInv
<1>7. CASE Crossed(n)
  <2> DEFINE b == Block(q)
  <2>1. CrossedWires(n, b) /\ b.kind = "BLK" /\ b' = b
    BY <1>1, <1>5, <1>7, KindFacts DEF Crossed
  <2> HIDE DEF b
  <2>2. \/ Acking(q) /\ Wires(n, <<Ack, b>>, <<>>)
        \/ Hurt /\ Draining(q) /\ Wires(n, <<Ack, b>>, <<>>)
        \/ Hurt /\ Acking(q) /\ \/ Wires(n, <<Ack, b, Junk>>, <<>>)
                                \/ Wires(n, <<Ack, Junk, b>>, <<>>)
                                \/ Wires(n, <<Ack, b>>, <<Junk>>)
                                \/ Wires(n, <<Ack, Bad>>, <<>>)
                                \/ Wires(n, <<Ack, Junk>>, <<>>)
                                \/ Wires(n, <<Ack>>, <<>>)
    <3>1. Junk.kind # "ACK" /\ ~Draining(n)
      BY <1>1, KindFacts DEF Draining
    <3> QED
      BY <1>1, <2>1, <3>1, CrossedReads, Short1, Short2, Short3 DEF Wires
  <2>3. (Acking(q) => Acking(q)') /\ (Draining(q) => Draining(q)')
    BY <1>2 DEF Acking, Draining
  <2>4. /\ Tail(<<Ack, b>>) = <<b>> /\ Tail(<<Ack, b, Junk>>) = <<b, Junk>>
        /\ Tail(<<Ack, Junk, b>>) = <<Junk, b>> /\ Tail(<<Ack, Bad>>) = <<Bad>>
        /\ Tail(<<Ack, Junk>>) = <<Junk>> /\ Tail(<<Ack>>) = <<>>
        /\ <<>> \o <<>> = <<>> /\ <<Junk>> \o <<>> = <<Junk>>
    BY Short0, Short1, Short2, Short3
  <2>5. \A u, v : Wires(n, u, v) => Wires(q, v \o <<>>, Tail(u))'
    BY <1>1 DEF Wires
  <2>6. SentWires(q)'
    BY <1>3, <2>1, <2>2, <2>3, <2>4, <2>5 DEF SentWires, b
  <2>7. SentHosts(q)'
    BY <1>1, <1>2, <1>7 DEF Crossed, SentHosts, AfterPut, Ready, Nodes, Peer
  <2>8. Underway(q)' /\ Settled(n)' /\ Arrived(n)
    BY <1>5, <1>7 DEF Crossed
  <2> QED
    BY <1>1, <1>3, <1>4, <2>6, <2>7, <2>8 DEF Sent, Situation, OneFaultInv
<1>8. ~Sent(n)
  BY <1>1, SentReads, Short1, KindFacts DEF Sent, Wires
<1>9. ~Crossed(q)
  BY <1>1, CrossedPeerReads, Short1, KindFacts DEF Crossed, Wires
<1> QED
  BY <1>1, <1>6, <1>7, <1>8, <1>9, Senders

-----------------------------------------------------------------------------
(* RemoteGet *)

\* The newest packet received has a number.
LEMMA NewestNat == ASSUME TypeOK, NEW n \in Nodes PROVE Newest(n) \in Nat
<1>1. got[n] \in Seq([id : Nat, full : BOOLEAN])
  BY DEF TypeOK
<1>2. ASSUME got[n] # <<>> PROVE Last(got[n]) \in [id : Nat, full : BOOLEAN]
  <2>1. Len(got[n]) \in DOMAIN got[n]
    BY <1>1, <1>2
  <2> QED
    BY <1>1, <2>1, SeqElement DEF Last
<1> QED
  BY <1>2 DEF Newest

\* A block is handed up only while its sender does not know of it.
LEMMA RecvBlockArrives ==
  ASSUME TypeOK, Fits, OneFault, OneFaultInv, NEW q \in Nodes, RecvBlock(q)
  PROVE  /\ OneFaultInv'
         /\ Underway(Peer(q)) /\ Head(wire[q]).id = put[Peer(q)]
<1> DEFINE n == Peer(q)
           x == Head(wire[q])
           b == Block(n)
           g == [id |-> x.id, full |-> ~(x.err > MAX_ERRORS)]
<1>1. /\ wire[q] # <<>> /\ x.kind = "BLK" /\ pc[q] = "recv"
      /\ x.no = ReceiveBlkNo[q]
      /\ Bounded /\ InTurn /\ Situation /\ n \in Nodes /\ Peer(n) = q /\ q # n
      /\ wire'[q] = Tail(wire[q]) /\ wire'[n] = wire[n] \o <<Ack>>
  BY NextKind, ReadSend, PeerFacts DEF RecvBlock, OneFaultInv, Accepts, Respond, Ack
<1>2. /\ b.kind = "BLK" /\ b.no = SendBlkNo[n] /\ b.err = PrevErrors[n]
      /\ b.id = put[n] /\ b.want = want[n]
  BY <1>1, KindFacts DEF Fits
<1>3. ~Taken(n)
  <2>1. SUFFICES ASSUME Taken(n) PROVE FALSE
    OBVIOUS
  <2>2. x = b
    BY <1>1, <2>1, TakenPeerReads, Short1, KindFacts DEF Taken, Wires
  <2> QED
    BY <1>1, <1>2, <2>1, <2>2 DEF Taken, Arrived, Fits
<1>4. ~Idle
  <2>1. Junk.kind # "BLK" /\ Head(<<Junk>>) = Junk
    BY KindFacts, Short1
  <2> QED
    BY <1>1, <2>1, PeerFacts DEF Idle, IdleWires, Wires
<1>5. Sent(n)
  BY <1>1, <1>3, <1>4, Receivers
<1> HIDE DEF b
<1>6. /\ x = b
      /\ \/ Acking(n) /\ Wires(n, <<>>, <<b>>)
         \/ Draining(n) /\ Hurt /\ Wires(n, <<>>, <<b>>)
         \/ Acking(n) /\ Hurt /\ (Wires(n, <<Junk>>, <<b>>) \/ Wires(n, <<>>, <<b, Junk>>))
  <2>1. SentWires(n)
    BY <1>5 DEF Sent
  <2>2. \/ Acking(n) /\ Wires(n, <<>>, <<b>>)
        \/ Draining(n) /\ Hurt /\ Wires(n, <<>>, <<b>>)
        \/ Acking(n) /\ Hurt /\ \/ Wires(n, <<Junk>>, <<b>>)
                                \/ Wires(n, <<>>, <<b, Junk>>)
                                \/ Wires(n, <<>>, <<Junk, b>>)
                                \/ Wires(n, <<>>, <<Bad>>)
                                \/ Wires(n, <<>>, <<Junk>>)
        \/ Mending(n) /\ Wires(n, <<>>, <<Rlr>>)
    BY <1>1, <2>1, SentPeerReads DEF b
  <2> QED
    BY <1>1, <2>2, Short1, Short2, KindFacts DEF Wires
<1>7. b.err <= MAX_ERRORS /\ ~(b.err > MAX_ERRORS)
  <2>1. PrevErrors[n] \in 0..ErrCap /\ PrevErrors[n] <= MAX_ERRORS
    BY <1>1 DEF Bounded, TypeOK
  <2> QED
    BY <1>2, <2>1 DEF ErrCap, MAX_ERRORS
<1>8. /\ got' = [got EXCEPT ![q] = Append(got[q], g)]
      /\ want' = IF q = "server" THEN [want EXCEPT ![q] = x.want] ELSE want
      /\ pc' = [pc EXCEPT ![q] = IF x.err > MAX_ERRORS THEN "resyncGet" ELSE AfterGet(q)]
  BY DEF RecvBlock
<1>9. pc' = [pc EXCEPT ![q] = AfterGet(q)]
  BY <1>6, <1>7, <1>8
<1>10. /\ UNCHANGED <<SendBlkNo, Errors, PrevErrors, waits, put, faults>>
       /\ ReceiveBlkNo'[q] = NextNo(ReceiveBlkNo[q]) /\ ReceiveBlkNo'[n] = ReceiveBlkNo[n]
       /\ LastResponse'[q] = "ACK"
       /\ pc'[q] = AfterGet(q) /\ pc'[n] = pc[n] /\ got'[n] = got[n]
       /\ want'[n] = want[n] /\ (q = "server" => want'[q] = want[n])
  BY <1>1, <1>2, <1>6, <1>8, <1>9 DEF RecvBlock, Respond, TypeOK, Nodes, Peer
<1>11. Newest(q)' = put[n] /\ Newest(n)' = Newest(n)
  <2>1. g.id = put[n] /\ put[n] \in Nat
    BY <1>1, <1>2, <1>6 DEF TypeOK
  <2>2. got[q] \in Seq([id : Nat, full : BOOLEAN]) /\ g \in [id : Nat, full : BOOLEAN]
    BY <2>1 DEF TypeOK
  <2> HIDE DEF g
  <2>3. got'[q] = Append(got[q], g)
    BY <1>1, <1>8 DEF TypeOK
  <2>4. Append(got[q], g) # <<>> /\ Last(Append(got[q], g)) = g
    BY <2>2, AppendElements DEF Last
  <2> QED
    BY <1>1, <1>10, <2>1, <2>3, <2>4 DEF Newest
<1>12. Bounded' /\ (Hurt => Hurt')
  <2>1. Bounded'
    BY <1>1, <1>10 DEF Bounded
  <2>2. Hurt => Hurt'
    BY <1>10 DEF Hurt
  <2> QED
    BY <2>1, <2>2
<1>13. InTurn'
  <2>1. CASE q = "server"
    <3>1. Underway(n) /\ put["server"] <= Newest("server") /\ Newest("server") < put[n]
      BY <1>1, <1>5, <2>1 DEF Sent, Underway, InTurn
    <3>2. put["server"] \in Nat /\ Newest("server") \in Nat /\ put[n] \in Nat
      BY <1>1, <2>1, NewestNat DEF TypeOK
    <3>3. put["server"] < put[n]
      BY <3>1, <3>2
    <3> QED
      BY <1>1, <1>10, <1>11, <2>1, <3>2, <3>3 DEF InTurn
  <2>2. CASE n = "server"
    BY <1>1, <1>10, <1>11, <2>2 DEF InTurn
  <2> QED
    BY <1>1, <2>1, <2>2 DEF Nodes
<1>14. /\ Arrived(n)' /\ Settled(q)' /\ b' = b
  <2>1. Newest(q) < put[n] /\ put[n] \in Nat
    BY <1>1, <1>5 DEF Sent, Underway, TypeOK
  <2>2. Newest(q) \in Nat
    BY <1>1, NewestNat
  <2>3. 0 < put[n]
    BY <2>1, <2>2
  <2> QED
    BY <1>1, <1>5, <1>10, <1>11, <2>3 DEF Sent, Underway, Arrived, Settled, b, Block, BlockOf
<1>15. TakenHosts(n)'
  BY <1>1, <1>10 DEF TakenHosts, Ready, Replying, AfterGet, Nodes, Peer
<1>16. TakenWires(n)'
  <2>1. /\ Tail(<<b>>) = <<>> /\ Tail(<<b, Junk>>) = <<Junk>>
        /\ <<>> \o <<Ack>> = <<Ack>> /\ <<Junk>> \o <<Ack>> = <<Junk, Ack>>
    BY Short0, Short1, Short2
  <2>2. \A u, v : Wires(n, u, v) => Wires(n, u \o <<Ack>>, Tail(v))'
    BY <1>1 DEF Wires
  <2>3. (Acking(n) => Acking(n)') /\ (Draining(n) => Draining(n)')
    BY <1>10 DEF Acking, Draining
  <2> QED
    BY <1>6, <1>12, <2>1, <2>2, <2>3 DEF TakenWires
<1>17. Taken(n)'
  BY <1>1, <1>10, <1>14, <1>15, <1>16 DEF Taken
<1>18. OneFaultInv'
  BY <1>1, <1>12, <1>13, <1>17 DEF Situation, OneFaultInv
<1> QED
  BY <1>2, <1>5, <1>6, <1>18 DEF Sent

\* Other reading of a waiting side: pc and the counters stay.
LEMMA ListenerStays ==
  ASSUME NEW q \in Nodes, Still(q), pc' = pc, InTurn
  PROVE  /\ InTurn' /\ SentHosts(Peer(q))' = SentHosts(Peer(q))
         /\ TakenHosts(Peer(q))' = TakenHosts(Peer(q))
         /\ IdleHosts' = IdleHosts /\ Ready(q)' = Ready(q)
         /\ \A m \in Nodes : Acking(m)' = Acking(m) /\ Draining(m)' = Draining(m)
<1>1. UNCHANGED <<pc, put, want, got>>
  BY DEF Still
<1> QED
  BY <1>1 DEF InTurn, Newest, SentHosts, TakenHosts, IdleHosts, Ready, Replying,
     Acking, Draining

\* Such reading while the peer sends a block that has not arrived.
LEMMA ListensInSent ==
  ASSUME NEW q \in Nodes, Sent(Peer(q)), Still(q), pc' = pc, InTurn, Bounded',
         SentWires(Peer(q))'
  PROVE  OneFaultInv'
<1>1. Underway(Peer(q))' /\ Settled(Peer(Peer(q)))'
  BY SameNumbers, PeerFacts DEF Sent, Still
<1> QED
  BY <1>1, ListenerStays, PeerFacts DEF Sent, Situation, OneFaultInv

\* Such reading while the peer sends a block that has arrived.
LEMMA ListensInTaken ==
  ASSUME NEW q \in Nodes, Taken(Peer(q)), Still(q), pc' = pc, InTurn, Bounded',
         LastResponse'[q] = "ACK", TakenWires(Peer(q))'
  PROVE  OneFaultInv'
<1>1. Arrived(Peer(q))' /\ Settled(Peer(Peer(q)))' /\ Peer(Peer(q)) = q
  BY SameNumbers, PeerFacts DEF Taken, Still
<1> QED
  BY <1>1, ListenerStays, PeerFacts DEF Taken, Situation, OneFaultInv

\* An RLR answered with a NAK.
LEMMA RecvRlrKeeps ==
  ASSUME TypeOK, OneFault, OneFaultInv, NEW q \in Nodes, RecvRlr(q)
  PROVE  OneFaultInv'
<1> DEFINE n == Peer(q)
           b == Block(n)
<1>1. /\ wire[q] # <<>> /\ Head(wire[q]).kind = "RLR" /\ pc[q] = "recv"
      /\ Bounded /\ InTurn /\ Situation /\ n \in Nodes /\ Peer(n) = q /\ q # n
      /\ wire'[q] = Tail(wire[q]) /\ wire'[n] = wire[n] \o <<Nak>>
  BY NextKind, ReadSend, PeerFacts DEF RecvRlr, OneFaultInv, Nak
<1>2. /\ Quiet(q) /\ pc' = pc /\ LastResponse' = LastResponse /\ Errors' = Errors
      /\ faults' = faults
  BY DEF RecvRlr, link, host, Quiet, Still
<1>3. Bounded' /\ Still(q)
  BY <1>1, <1>2, QuietFacts DEF Quiet
<1>4. b.kind = "BLK"
  BY <1>1, KindFacts
<1> HIDE DEF b
<1>5. CASE Sent(n)
  <2>1. Mending(n) /\ Wires(n, <<>>, <<Rlr>>)
    BY <1>1, <1>4, <1>5, SentPeerReads, Short1, Short2, KindFacts DEF Sent, Wires, b
  <2>2. wire'[q] = <<>> /\ wire'[n] = <<Nak>>
    BY <1>1, <2>1, Short0, Short1 DEF Wires
  <2>3. SentWires(n)'
    BY <1>1, <1>2, <2>1, <2>2 DEF SentWires, Wires, Mending
  <2> QED
    BY <1>1, <1>2, <1>3, <1>5, <2>3, ListensInSent
<1>6. CASE Taken(n)
  <2>1. Ready(q) /\ Mending(n) /\ Wires(n, <<>>, <<Rlr>>)
    BY <1>1, <1>4, <1>6, TakenPeerReads, Short1, KindFacts DEF Taken, Wires, b
  <2>2. wire'[q] = <<>> /\ wire'[n] = <<Nak>>
    BY <1>1, <2>1, Short0, Short1 DEF Wires
  <2>3. Ready(q)'
    BY <1>1, <1>2, <1>3, <2>1, ListenerStays
  <2>4. TakenWires(n)'
    BY <1>1, <1>2, <2>1, <2>2, <2>3 DEF TakenWires, Wires, Mending
  <2>5. LastResponse'[q] = "ACK"
    BY <1>1, <1>2, <1>6 DEF Taken
  <2> QED
    BY <1>1, <1>2, <1>3, <1>6, <2>4, <2>5, ListensInTaken
<1>7. ~Idle
  <2>1. Junk.kind # "RLR" /\ Head(<<Junk>>) = Junk
    BY KindFacts, Short1
  <2> QED
    BY <1>1, <2>1, PeerFacts DEF Idle, IdleWires, Wires
<1> QED
  BY <1>1, <1>5, <1>6, <1>7, Receivers

\* A damaged block: a NAK, or silence.
LEMMA RecvDamagedKeeps ==
  ASSUME TypeOK, OneFault, OneFaultInv, NEW q \in Nodes, RecvDamaged(q)
  PROVE  OneFaultInv'
<1> DEFINE n == Peer(q)
           b == Block(n)
<1>1. /\ wire[q] # <<>> /\ Head(wire[q]).kind = "BAD" /\ pc[q] = "recv"
      /\ Bounded /\ InTurn /\ Situation /\ n \in Nodes /\ Peer(n) = q /\ q # n
  BY PeerFacts DEF RecvDamaged, OneFault, AtMostOneFault, PromptHosts, TimeForTwo, Rubbish, OneFaultInv
<1>2. /\ UNCHANGED <<pc, SendBlkNo, ReceiveBlkNo, Errors, PrevErrors, waits, put, want,
                     got, faults>>
      /\ LastResponse'[n] = LastResponse[n]
  BY <1>1 DEF RecvDamaged, host, TypeOK
<1>3. Quiet(q) /\ Bounded' /\ (Hurt => Hurt') /\ b' = b
  <2>1. Quiet(q)
    BY <1>2 DEF Quiet, Still
  <2> QED
    BY <1>1, <1>2, <2>1, QuietFacts, SameBlock
<1>4. b.kind = "BLK"
  BY <1>1, KindFacts
<1> HIDE DEF b
<1>5. ~Taken(n)
  BY <1>1, <1>4, TakenPeerReads, Short1, KindFacts DEF Taken, Wires, b
<1>6. ~Idle
  <2>1. Junk.kind # "BAD" /\ Head(<<Junk>>) = Junk
    BY KindFacts, Short1
  <2> QED
    BY <1>1, <2>1, PeerFacts DEF Idle, IdleWires, Wires
<1>7. Sent(n)
  BY <1>1, <1>5, <1>6, Receivers
<1>8. Acking(n) /\ Hurt /\ Wires(n, <<>>, <<Bad>>)
  BY <1>1, <1>4, <1>7, SentPeerReads, Short1, Short2, KindFacts DEF Sent, Wires, b
<1>9. wire'[q] = <<>> /\ wire'[n] \in {<<>>, <<Nak>>}
  <2>1. Tail(wire[q]) = <<>> /\ wire[n] = <<>> /\ Append(wire[n], Nak) = <<Nak>>
    BY <1>1, <1>8, Short0, Short1 DEF Wires
  <2>2. \A left \in ClearCom(Tail(wire[q])) : left = <<>>
    BY <2>1, ClearComShort
  <2>3. \E left \in ClearCom(Tail(wire[q])), nak \in BOOLEAN :
          wire' = [wire EXCEPT ![q] = left,
                               ![n] = IF nak THEN Append(wire[n], Nak) ELSE wire[n]]
    BY <1>1 DEF RecvDamaged, Nak, TypeOK
  <2> QED
    BY <1>1, <2>1, <2>2, <2>3 DEF TypeOK
<1>10. SentWires(n)'
  <2>1. Acking(n)' /\ Mending(n)' /\ Hurt'
    BY <1>1, <1>2, <1>3, <1>8 DEF Acking, Mending, Hurt
  <2> QED
    BY <1>1, <1>9, <2>1 DEF SentWires, Wires
<1> QED
  BY <1>1, <1>2, <1>3, <1>7, <1>10, ListensInSent DEF Quiet

\* A block sent again for want of an ACK: acknowledged, not handed up.
LEMMA RecvOtherKeeps ==
  ASSUME TypeOK, Fits, OneFault, OneFaultInv, NEW q \in Nodes, RecvOther(q)
  PROVE  OneFaultInv'
<1> DEFINE n == Peer(q)
           b == Block(n)
<1>1. /\ wire[q] # <<>> /\ Head(wire[q]).kind = "BLK" /\ pc[q] = "recv"
      /\ Head(wire[q]).no # ReceiveBlkNo[q]
      /\ Bounded /\ InTurn /\ Situation /\ n \in Nodes /\ Peer(n) = q /\ q # n
  BY NextKind, PeerFacts DEF RecvOther, Accepts, OneFaultInv
<1>2. /\ UNCHANGED <<pc, SendBlkNo, ReceiveBlkNo, Errors, PrevErrors, waits, put, want,
                     got, faults>>
      /\ LastResponse'[n] = LastResponse[n] /\ LastResponse'[q] = "ACK"
  BY <1>1 DEF RecvOther, host, TypeOK
<1>3. Quiet(q) /\ Bounded' /\ b' = b
  <2>1. Quiet(q)
    BY <1>2 DEF Quiet, Still
  <2> QED
    BY <1>1, <1>2, <2>1, QuietFacts, SameBlock
<1>4. b.kind = "BLK" /\ b.no = SendBlkNo[n]
  BY <1>1, KindFacts DEF Fits
<1> HIDE DEF b
<1>5. ~Sent(n)
  <2>1. SUFFICES ASSUME Sent(n) PROVE FALSE
    OBVIOUS
  <2>2. Head(wire[q]) = b
    <3>1. Junk.kind # "BLK" /\ Bad.kind # "BLK" /\ Rlr.kind # "BLK"
      BY KindFacts
    <3> QED
      BY <1>1, <2>1, <3>1, SentPeerReads, Short1, Short2 DEF Sent, Wires, b
  <2> QED
    BY <1>1, <1>4, <2>1, <2>2 DEF Sent, Underway
<1>6. ~Idle
  <2>1. Junk.kind # "BLK" /\ Head(<<Junk>>) = Junk
    BY KindFacts, Short1
  <2> QED
    BY <1>1, <2>1, PeerFacts DEF Idle, IdleWires, Wires
<1>7. Taken(n)
  BY <1>1, <1>5, <1>6, Receivers
<1>8. Acking(n) /\ Wires(n, <<>>, <<b>>)
  BY <1>1, <1>7, TakenPeerReads, Short1, KindFacts DEF Taken, Wires, b
<1>9. wire'[q] = <<>> /\ wire'[n] = <<Ack>>
  <2>1. Tail(wire[q]) = <<>> /\ wire[n] = <<>> /\ Append(wire[n], Ack) = <<Ack>>
    BY <1>1, <1>8, Short0, Short1 DEF Wires
  <2>2. \A left \in ClearCom(Tail(wire[q])) : left = <<>>
    BY <2>1, ClearComShort
  <2>3. \E left \in ClearCom(Tail(wire[q])) :
          wire' = [wire EXCEPT ![q] = left, ![n] = Append(wire[n], Ack)]
    BY <1>1 DEF RecvOther, Ack, TypeOK
  <2> QED
    BY <1>1, <2>1, <2>2, <2>3 DEF TypeOK
<1>10. TakenWires(n)'
  BY <1>1, <1>2, <1>8, <1>9 DEF TakenWires, Wires, Acking
<1> QED
  BY <1>1, <1>2, <1>3, <1>7, <1>10, ListensInTaken DEF Quiet

\* A stray byte passed over.
LEMMA RecvSkipKeeps ==
  ASSUME TypeOK, OneFaultInv, NEW q \in Nodes, RecvSkip(q)
  PROVE  OneFaultInv'
<1> DEFINE n == Peer(q)
           b == Block(n)
<1>1. /\ wire[q] # <<>> /\ Head(wire[q]).kind \in {"ACK", "NAK", "JUNK"} /\ pc[q] = "recv"
      /\ Bounded /\ InTurn /\ Situation /\ n \in Nodes /\ Peer(n) = q /\ q # n
      /\ wire'[q] = Tail(wire[q]) /\ wire'[n] = wire[n] \o <<>>
  BY ReadSend, PeerFacts DEF RecvSkip, OneFaultInv
<1>2. /\ UNCHANGED <<pc, SendBlkNo, ReceiveBlkNo, LastResponse, Errors, PrevErrors,
                     waits, put, want, got, faults>>
  BY DEF RecvSkip, link, host
<1>3. Quiet(q) /\ Bounded' /\ (Hurt => Hurt') /\ b' = b
  <2>1. Quiet(q)
    BY <1>2 DEF Quiet, Still
  <2> QED
    BY <1>1, <1>2, <2>1, QuietFacts, SameBlock
<1>4. b.kind = "BLK"
  BY <1>1, KindFacts
<1> HIDE DEF b
<1>5. CASE Sent(n)
  <2>1. Acking(n) /\ Hurt /\ (Wires(n, <<>>, <<Junk, b>>) \/ Wires(n, <<>>, <<Junk>>))
    BY <1>1, <1>4, <1>5, SentPeerReads, Short1, Short2, KindFacts DEF Sent, Wires, b
  <2>2. wire'[n] = <<>> /\ (wire'[q] = <<b>> \/ wire'[q] = <<>>)
    <3>1. CASE Wires(n, <<>>, <<Junk, b>>)
      BY <1>1, <3>1, Short0, Short2 DEF Wires
    <3>2. CASE Wires(n, <<>>, <<Junk>>)
      BY <1>1, <3>2, Short0, Short1 DEF Wires
    <3> QED
      BY <2>1, <3>1, <3>2
  <2>3. Acking(n)' /\ Hurt'
    BY <1>2, <1>3, <2>1 DEF Acking
  <2>4. SentWires(n)'
    BY <1>1, <1>3, <2>2, <2>3 DEF SentWires, Wires, b
  <2> QED
    BY <1>1, <1>2, <1>3, <1>5, <2>4, ListensInSent DEF Quiet
<1>6. CASE Taken(n)
  <2>1. Acking(n) /\ Hurt /\ Wires(n, <<Ack>>, <<Junk>>)
    BY <1>1, <1>4, <1>6, TakenPeerReads, Short1, KindFacts DEF Taken, Wires, b
  <2>2. wire'[n] = <<Ack>> /\ wire'[q] = <<>>
    BY <1>1, <2>1, Short1 DEF Wires
  <2>3. TakenWires(n)'
    BY <1>1, <1>2, <2>1, <2>2 DEF TakenWires, Wires, Acking
  <2>4. LastResponse'[q] = "ACK"
    BY <1>1, <1>2, <1>6 DEF Taken
  <2> QED
    BY <1>1, <1>2, <1>3, <1>6, <2>3, <2>4, ListensInTaken DEF Quiet
<1>7. CASE Idle
  <2>1. Wires(q, <<Junk>>, <<>>)
    BY <1>1, <1>7, PeerFacts DEF Idle, IdleWires, Wires
  <2>2. wire'[n] = <<>> /\ wire'[q] = <<>>
    BY <1>1, <2>1, Short0, Short1 DEF Wires
  <2>3. IdleWires'
    BY <2>2, PeerFacts DEF IdleWires
  <2>4. Settled("client")' /\ Settled("server")'
    BY <1>2, <1>7, SameNumbers DEF Idle, Nodes
  <2>5. InTurn' /\ IdleHosts'
    BY <1>1, <1>2, <1>3, <1>7, ListenerStays DEF Idle, Quiet
  <2> QED
    BY <1>3, <2>3, <2>4, <2>5 DEF Idle, Situation, OneFaultInv
<1> QED
  BY <1>1, <1>5, <1>6, <1>7, Receivers

\* Neither side resynchronises.
LEMMA NoReSync ==
  ASSUME Situation, NEW n \in Nodes
  PROVE  ~InReSync(n) /\ pc[n] # "stopped"
<1>1. CASE Idle
  BY <1>1 DEF Idle, IdleHosts, Ready, Replying, InReSync, Nodes
<1>2. ASSUME NEW m \in Nodes, Sent(m) PROVE ~InReSync(n) /\ pc[n] # "stopped"
  <2>1. pc[m] \in {"ack", "drain"}
    BY <1>2 DEF Sent, SentWires, Acking, Draining, Mending
  <2>2. pc[Peer(m)] \in {"recv", "exec"}
    BY <1>2 DEF Sent, SentHosts, Ready, Nodes, Peer
  <2> QED
    BY <2>1, <2>2, PeerFacts DEF InReSync
<1>3. ASSUME NEW m \in Nodes, Taken(m) PROVE ~InReSync(n) /\ pc[n] # "stopped"
  <2>1. pc[m] \in {"ack", "drain"}
    BY <1>3 DEF Taken, TakenWires, Acking, Draining, Mending
  <2>2. pc[Peer(m)] \in {"recv", "exec", "app"}
    BY <1>3 DEF Taken, TakenHosts, Ready, Replying, Nodes, Peer
  <2> QED
    BY <2>1, <2>2, PeerFacts DEF InReSync
<1>4. ASSUME NEW m \in Nodes, Crossed(m) PROVE ~InReSync(n) /\ pc[n] # "stopped"
  <2>1. pc[m] \in {"ack", "drain"} /\ pc[Peer(m)] \in {"ack", "drain"}
    BY <1>4 DEF Crossed, CrossedWires, Acking, Draining
  <2> QED
    BY <2>1, PeerFacts DEF InReSync
<1> QED
  BY <1>1, <1>2, <1>3, <1>4 DEF Situation

-----------------------------------------------------------------------------
(* The hosts *)

\* What BlockSend's entry does.
LEMMA StartFacts ==
  ASSUME TypeOK, Bounded, NEW m \in Nodes, NEW id \in Nat, NEW w \in BOOLEAN,
         BlockSend(m, id, w)
  PROVE  /\ UNCHANGED <<SendBlkNo, ReceiveBlkNo, LastResponse, got, faults>>
         /\ pc'[m] = "ack" /\ put'[m] = id
         /\ pc'[Peer(m)] = pc[Peer(m)] /\ put'[Peer(m)] = put[Peer(m)]
         /\ want'[Peer(m)] = want[Peer(m)]
         /\ Bounded' /\ (Hurt => Hurt')
         /\ wire'[m] \in ClearCom(wire[m])
         /\ wire'[Peer(m)] = Append(wire[Peer(m)], Block(m)')
<1> DEFINE n == Peer(m)
           b == BlockOf(m, Errors[m], id, w)
<1>1. n \in Nodes /\ n # m /\ \A k \in Nodes : k = m \/ k = n
  BY PeerFacts
<1>2. /\ UNCHANGED <<SendBlkNo, ReceiveBlkNo, LastResponse, got, faults>>
      /\ pc'[m] = "ack" /\ put'[m] = id /\ want'[m] = w
      /\ pc'[n] = pc[n] /\ put'[n] = put[n] /\ want'[n] = want[n]
      /\ PrevErrors'[m] = Errors[m] /\ PrevErrors'[n] = PrevErrors[n]
      /\ Errors'[m] = 0 /\ Errors'[n] = Errors[n]
      /\ waits'[m] = 0 /\ waits'[n] = waits[n]
  BY <1>1 DEF BlockSend, TypeOK
<1>3. Block(m)' = b
  BY <1>2 DEF Block, BlockOf
<1>4. Bounded'
  <2>1. \A k \in Nodes : /\ Errors'[k] <= MAX_ERRORS /\ PrevErrors'[k] <= MAX_ERRORS
                         /\ waits'[k] <= 1
    BY <1>1, <1>2 DEF Bounded, MAX_ERRORS
  <2>2. faults = 0 => \A k \in Nodes : Errors'[k] = 0 /\ waits'[k] = 0
    BY <1>1, <1>2 DEF Bounded
  <2> QED
    BY <1>2, <2>1, <2>2 DEF Bounded
<1>5. Hurt => Hurt'
  BY <1>1, <1>2 DEF Hurt
<1>6. wire'[m] \in ClearCom(wire[m]) /\ wire'[n] = Append(wire[n], b)
  <2>1. \E left \in ClearCom(wire[m]) :
          wire' = [wire EXCEPT ![m] = left, ![n] = Append(wire[n], b)]
    BY <1>1 DEF BlockSend, TypeOK
  <2> QED
    BY <1>1, <2>1 DEF TypeOK
<1> QED
  BY <1>2, <1>3, <1>4, <1>5, <1>6

\* A block sent when nobody was sending.
LEMMA IdleStarts ==
  ASSUME TypeOK, Bounded, Idle, NEW m \in Nodes, NEW id \in Nat, NEW w \in BOOLEAN,
         BlockSend(m, id, w), put[m] < id, SentHosts(m)
  PROVE  Sent(m)'
<1> DEFINE n == Peer(m)
           b == Block(m)'
<1>1. n \in Nodes /\ Peer(n) = m /\ n # m /\ \A k \in Nodes : k = m \/ k = n
  BY PeerFacts
<1>2. /\ UNCHANGED <<SendBlkNo, ReceiveBlkNo, LastResponse, got, faults>>
      /\ pc'[m] = "ack" /\ put'[m] = id
      /\ pc'[n] = pc[n] /\ put'[n] = put[n] /\ want'[n] = want[n]
      /\ Hurt => Hurt'
      /\ wire'[m] \in ClearCom(wire[m]) /\ wire'[n] = Append(wire[n], b)
  BY StartFacts
<1> HIDE DEF b
<1>3. SentHosts(m)'
  BY <1>2 DEF SentHosts, Ready, Nodes, Peer
<1>4. Settled(m) /\ Settled(n) /\ put[m] \in Nat
  BY DEF Idle, Nodes, Peer, TypeOK
<1>5. \A k \in Nodes : Newest(k)' = Newest(k)
  BY <1>2 DEF Newest
<1>6. Underway(m)' /\ Settled(n)'
  BY <1>1, <1>2, <1>4, <1>5 DEF Underway, Settled
<1>7. /\ Junk.kind # "BLK"
      /\ Append(<<>>, b) = <<b>> /\ Append(<<Junk>>, b) = <<Junk, b>>
      /\ \A v \in ClearCom(<<>>) : v = <<>>
      /\ \A v \in ClearCom(<<Junk>>) : v = <<Junk>> \/ v = <<>>
  BY KindFacts, Short0, Short1, ClearComShort
<1>8. \/ wire[m] = <<>> /\ wire[n] = <<>>
      \/ Hurt /\ wire[m] = <<Junk>> /\ wire[n] = <<>>
      \/ Hurt /\ wire[m] = <<>> /\ wire[n] = <<Junk>>
  BY <1>1 DEF Idle, IdleWires, Wires
<1>9. SentWires(m)'
  BY <1>2, <1>7, <1>8 DEF SentWires, Wires, Acking, b
<1> QED
  BY <1>3, <1>6, <1>9 DEF Sent

\* A block sent before the peer knows that its own has arrived.
LEMMA TakenStarts ==
  ASSUME TypeOK, Bounded, NEW n \in Nodes, Taken(n), ~Ready(Peer(n)),
         n = "client" => want["client"],
         NEW id \in Nat, NEW w \in BOOLEAN,
         BlockSend(Peer(n), id, w), put[Peer(n)] < id
  PROVE  Crossed(n)'
<1> DEFINE m == Peer(n)
           b == Block(m)'
<1>1. m \in Nodes /\ Peer(m) = n /\ n # m
  BY PeerFacts
<1>2. /\ UNCHANGED <<SendBlkNo, ReceiveBlkNo, LastResponse, got, faults>>
      /\ pc'[m] = "ack" /\ put'[m] = id
      /\ pc'[n] = pc[n] /\ put'[n] = put[n] /\ want'[n] = want[n]
      /\ Hurt => Hurt'
      /\ wire'[m] \in ClearCom(wire[m]) /\ wire'[n] = Append(wire[n], b)
  BY <1>1, StartFacts
<1> HIDE DEF b
<1>3. \A k \in Nodes : Newest(k)' = Newest(k)
  BY <1>2 DEF Newest
<1>4. Underway(m)' /\ Arrived(n)'
  BY <1>1, <1>2, <1>3 DEF Taken, Underway, Settled, Arrived
<1>5. (n = "client" => want["client"])' /\ (LastResponse[m] = "ACK")'
  BY <1>2 DEF Taken
<1>6. /\ Append(<<>>, b) = <<b>> /\ Append(<<Ack>>, b) = <<Ack, b>>
      /\ Append(<<Ack, Junk>>, b) = <<Ack, Junk, b>>
      /\ Append(<<Junk, Ack>>, b) = <<Junk, Ack, b>>
      /\ Append(<<Junk>>, b) = <<Junk, b>>
  <2>1. /\ Append(<<>>, b) = <<b>> /\ Append(<<Ack>>, b) = <<Ack, b>>
        /\ Append(<<Junk>>, b) = <<Junk, b>>
    BY Short0, Short1
  <2>2. /\ Append(<<Ack, Junk>>, b) = <<Ack, Junk, b>>
        /\ Append(<<Junk, Ack>>, b) = <<Junk, Ack, b>>
    BY Short2
  <2> QED
    BY <2>1, <2>2
<1>7. /\ \A v \in ClearCom(<<>>) : v = <<>>
      /\ \A v \in ClearCom(<<Junk>>) : v = <<Junk>> \/ v = <<>>
  BY KindFacts, ClearComShort
<1>8. \/ Acking(n) /\ Wires(n, <<Ack>>, <<>>)
      \/ Draining(n) /\ Hurt /\ (Wires(n, <<Ack>>, <<>>) \/ Wires(n, <<>>, <<>>))
      \/ Acking(n) /\ Hurt /\ \/ Wires(n, <<Ack, Junk>>, <<>>)
                              \/ Wires(n, <<Junk, Ack>>, <<>>)
                              \/ Wires(n, <<Ack>>, <<Junk>>)
                              \/ Wires(n, <<Junk>>, <<>>)
                              \/ Wires(n, <<>>, <<>>)
  BY DEF Taken, TakenWires
<1>9. (Acking(n) => Acking(n)') /\ (Draining(n) => Draining(n)') /\ Acking(m)'
  BY <1>2 DEF Acking, Draining
<1>10. /\ \A u : Wires(n, u, <<>>) => wire'[n] = Append(u, b) /\ wire'[m] = <<>>
       /\ Wires(n, <<Ack>>, <<Junk>>) =>
            wire'[n] = <<Ack, b>> /\ (wire'[m] = <<Junk>> \/ wire'[m] = <<>>)
  BY <1>2, <1>6, <1>7 DEF Wires
<1>11. CrossedWires(n, Block(m))'
  BY <1>1, <1>2, <1>6, <1>8, <1>9, <1>10 DEF CrossedWires, Wires, b
<1> QED
  BY <1>1, <1>4, <1>5, <1>11 DEF Crossed

\* The debugger makes a request: the last one has arrived by then.
LEMMA RequestStarts ==
  ASSUME TypeOK, OneFaultInv, Request
  PROVE  OneFaultInv' /\ Newest("server") = put["client"]
<1> DEFINE id == put["client"] + 1
<1>1. /\ pc["client"] = "app" /\ put["client"] < MaxPuts
      /\ Bounded /\ InTurn /\ Situation
      /\ "client" \in Nodes /\ "server" \in Nodes
      /\ Peer("client") = "server" /\ Peer("server") = "client"
      /\ id \in Nat /\ put["client"] < id
  BY DEF Request, OneFaultInv, Nodes, Peer, TypeOK
<1>2. PICK w \in BOOLEAN : BlockSend("client", id, w)
  BY DEF Request
<1>3. /\ got' = got /\ pc'["server"] = pc["server"] /\ put'["server"] = put["server"]
      /\ put'["client"] = id /\ Bounded'
  BY <1>1, <1>2, StartFacts
<1>4. InTurn'
  <2>1. put["client"] \in Nat /\ MaxPuts \in Nat
    BY <1>1, SerConstants DEF TypeOK
  <2>2. put'["client"] <= MaxPuts
    BY <1>1, <1>3, <2>1
  <2> QED
    BY <1>1, <1>3, <2>2 DEF InTurn, Newest
<1>5. Idle \/ Sent("server") \/ Taken("server")
  <2>1. pc["client"] \notin {"ack", "drain"}
    BY <1>1
  <2> QED
    BY <1>1, <2>1, Receivers
<1>6. CASE Idle
  <2>1. SentHosts("client") /\ Settled("client")
    BY <1>1, <1>6 DEF Idle, IdleHosts, SentHosts
  <2>2. Sent("client")'
    BY <1>1, <1>2, <1>6, <2>1, IdleStarts
  <2> QED
    BY <1>1, <1>3, <1>4, <2>1, <2>2 DEF Situation, OneFaultInv, Settled
<1>7. CASE Taken("server")
  <2>1. ~Ready("client") /\ Settled("client")
    BY <1>1, <1>7 DEF Ready, Taken
  <2>2. BlockSend(Peer("server"), id, w) /\ put[Peer("server")] < id /\ ~Ready(Peer("server"))
    BY <1>1, <1>2, <2>1
  <2>3. Crossed("server")'
    BY <1>1, <1>7, <2>2, TakenStarts
  <2> QED
    BY <1>1, <1>3, <1>4, <2>1, <2>3 DEF Situation, OneFaultInv, Settled
<1>8. ~Sent("server")
  BY <1>1 DEF Sent, SentHosts
<1> QED
  BY <1>5, <1>6, <1>7, <1>8

\* The server answers: its last response has arrived by then.
LEMMA AnswerStarts ==
  ASSUME TypeOK, OneFaultInv, Answer
  PROVE  OneFaultInv' /\ Newest("client") = put["server"]
<1> DEFINE id == Last(got["server"]).id
<1>1. /\ pc["server"] = "exec" /\ want["server"] /\ Bounded /\ InTurn /\ Situation
      /\ "client" \in Nodes /\ "server" \in Nodes
      /\ Peer("client") = "server" /\ Peer("server") = "client"
      /\ BlockSend("server", id, TRUE)
  BY DEF Answer, OneFaultInv, Nodes, Peer
<1>2. /\ put["server"] \in Nat /\ put["server"] < Newest("server")
      /\ got["server"] \in Seq([id : Nat, full : BOOLEAN])
  BY <1>1 DEF InTurn, TypeOK
<1>3. got["server"] # <<>> /\ Newest("server") = id
  BY <1>2 DEF Newest
<1>4. id \in Nat /\ put["server"] < id
  <2>1. Len(got["server"]) \in DOMAIN got["server"]
    BY <1>2, <1>3
  <2>2. Last(got["server"]) \in [id : Nat, full : BOOLEAN]
    BY <1>2, <2>1, SeqElement DEF Last
  <2> QED
    BY <1>2, <1>3, <2>2
<1>5. /\ got' = got /\ pc'["server"] = "ack" /\ put'["server"] = id
      /\ put'["client"] = put["client"] /\ Bounded'
  BY <1>1, <1>4, StartFacts
<1>6. InTurn'
  BY <1>1, <1>3, <1>4, <1>5 DEF InTurn, Newest
<1>7. ~Ready("server")
  BY <1>1 DEF Ready
<1>8. Idle \/ Sent("client") \/ Taken("client")
  <2>1. pc["server"] \notin {"ack", "drain"}
    BY <1>1
  <2> QED
    BY <1>1, <2>1, Receivers
<1>9. CASE Idle
  <2>1. SentHosts("server") /\ Settled("server")
    BY <1>1, <1>7, <1>9 DEF Idle, IdleHosts, SentHosts
  <2>2. Sent("server")'
    BY <1>1, <1>4, <1>9, <2>1, IdleStarts
  <2> QED
    BY <1>1, <1>5, <1>6, <2>1, <2>2 DEF Situation, OneFaultInv, Settled
<1>10. CASE Taken("client")
  <2>1. want["client"] /\ Settled("server")
    BY <1>1, <1>7, <1>10 DEF Taken, TakenHosts
  <2>2. /\ BlockSend(Peer("client"), id, TRUE) /\ put[Peer("client")] < id
        /\ ~Ready(Peer("client"))
    BY <1>1, <1>4, <1>7
  <2>3. Crossed("client")'
    BY <1>1, <1>4, <1>10, <2>1, <2>2, TakenStarts
  <2> QED
    BY <1>1, <1>5, <1>6, <2>1, <2>3 DEF Situation, OneFaultInv, Settled
<1>11. ~Sent("client")
  BY <1>7 DEF Sent, SentHosts
<1> QED
  BY <1>8, <1>9, <1>10, <1>11

\* A request that wants no response has been performed.
LEMMA PerformedKeeps ==
  ASSUME TypeOK, OneFaultInv, Performed
  PROVE  OneFaultInv'
<1>1. /\ pc["server"] = "exec" /\ ~want["server"] /\ Bounded /\ InTurn /\ Situation
      /\ "client" \in Nodes /\ "server" \in Nodes
      /\ Peer("client") = "server" /\ Peer("server") = "client"
  BY DEF Performed, OneFaultInv, Nodes, Peer
<1>2. /\ UNCHANGED <<SendBlkNo, ReceiveBlkNo, LastResponse, Errors, PrevErrors, waits,
                     wire, put, want, got, faults>>
      /\ pc'["server"] = "recv" /\ pc'["client"] = pc["client"]
  BY <1>1 DEF Performed, link, host, TypeOK
<1>3. InTurn' /\ Bounded' /\ (Hurt => Hurt')
  BY <1>1, <1>2 DEF InTurn, Newest, Bounded, Hurt
<1>4. Ready("server")' /\ Ready("server") /\ ~Replying
  BY <1>1, <1>2 DEF Ready, Replying
<1>5. /\ (Acking("client") => Acking("client")')
      /\ (Draining("client") => Draining("client")')
      /\ (Mending("client") => Mending("client")')
      /\ Block("client")' = Block("client")
      /\ \A u, v : Wires("client", u, v)' = Wires("client", u, v)
  BY <1>2 DEF Acking, Draining, Mending, Block, BlockOf, Wires
<1>6. \A n \in Nodes : /\ Settled(n)' = Settled(n) /\ Underway(n)' = Underway(n)
                       /\ Arrived(n)' = Arrived(n)
  BY <1>2, SameNumbers
<1>7. Idle \/ Sent("client") \/ Taken("client")
  <2>1. pc["server"] \notin {"ack", "drain"}
    BY <1>1
  <2> QED
    BY <1>1, <2>1, Receivers
<1>8. CASE Idle
  <2>1. IdleHosts'
    BY <1>2, <1>4, <1>8 DEF Idle, IdleHosts
  <2>2. IdleWires'
    BY <1>2, <1>3, <1>8 DEF Idle, IdleWires, Wires
  <2> QED
    BY <1>1, <1>3, <1>6, <1>8, <2>1, <2>2 DEF Idle, Situation, OneFaultInv
<1>9. CASE Sent("client")
  <2>1. SentHosts("client")'
    BY <1>4 DEF SentHosts
  <2>2. SentWires("client")'
    BY <1>3, <1>5, <1>9 DEF Sent, SentWires
  <2>3. Sent("client")'
    BY <1>1, <1>6, <1>9, <2>1, <2>2 DEF Sent
  <2> QED
    BY <1>1, <1>3, <2>3 DEF Situation, OneFaultInv
<1>10. CASE Taken("client")
  <2>1. TakenHosts("client")'
    BY <1>2, <1>4, <1>10 DEF Taken, TakenHosts
  <2>2. TakenWires("client")'
    BY <1>1, <1>2, <1>3, <1>4, <1>5, <1>10 DEF Taken, TakenWires
  <2>3. Taken("client")'
    BY <1>1, <1>2, <1>6, <1>10, <2>1, <2>2 DEF Taken
  <2> QED
    BY <1>1, <1>3, <2>3 DEF Situation, OneFaultInv
<1> QED
  BY <1>7, <1>8, <1>9, <1>10

-----------------------------------------------------------------------------
(* The line *)

\* What noise does to a wire of at most two items.
LEMMA NoiseShort ==
  ASSUME TypeOK, NEW n \in Nodes, Noise(n)
  PROVE  /\ wire'[Peer(n)] = wire[Peer(n)]
         /\ wire[n] = <<>> => wire'[n] = <<Junk>>
         /\ \A x : wire[n] = <<x>> =>
              \/ wire'[n] \in {<<x, Junk>>, <<>>, <<Junk>>}
              \/ x.kind = "BLK" /\ wire'[n] = <<Bad>>
         /\ \A x, y : wire[n] = <<x, y>> =>
              \/ wire'[n] \in {<<x, y, Junk>>, <<y>>, <<Junk, y>>, <<x>>, <<x, Junk>>}
              \/ x.kind = "BLK" /\ wire'[n] = <<Bad, y>>
              \/ y.kind = "BLK" /\ wire'[n] = <<x, Bad>>
<1>1. wire'[Peer(n)] = wire[Peer(n)]
  BY PeerFacts DEF Noise, TypeOK
<1>2. \/ wire'[n] = Append(wire[n], Junk)
      \/ \E i \in 1..Len(wire[n]) : \E r \in Damaged(wire[n][i]) :
           wire'[n] = SubSeq(wire[n], 1, i - 1) \o r \o SubSeq(wire[n], i + 1, Len(wire[n]))
  BY DEF Noise, TypeOK
<1>3. \A x : \A r \in Damaged(x) : r \in {<<>>, <<Junk>>} \/ (x.kind = "BLK" /\ r = <<Bad>>)
  BY DEF Damaged
<1>4. ASSUME wire[n] = <<>> PROVE wire'[n] = <<Junk>>
  <2>1. Len(<<>>) = 0 /\ Append(<<>>, Junk) = <<Junk>>
    BY Short0
  <2> QED
    BY <1>2, <1>4, <2>1
<1>5. ASSUME NEW x, wire[n] = <<x>>
      PROVE  \/ wire'[n] \in {<<x, Junk>>, <<>>, <<Junk>>}
             \/ x.kind = "BLK" /\ wire'[n] = <<Bad>>
  <2>1. Append(<<x>>, Junk) = <<x, Junk>>
    BY Short1
  <2>2. Len(<<x>>) = 1 /\ <<x>>[1] = x
    OBVIOUS
  <2>3. SubSeq(<<x>>, 1, 0) = <<>> /\ SubSeq(<<x>>, 2, 1) = <<>>
    OBVIOUS
  <2>4. \A r : r \in {<<>>, <<Junk>>, <<Bad>>} => <<>> \o r \o <<>> = r
    BY Short0, Short1
  <2>5. CASE wire'[n] = Append(wire[n], Junk)
    BY <1>5, <2>1, <2>5
  <2>6. CASE \E i \in 1..Len(wire[n]) : \E r \in Damaged(wire[n][i]) :
           wire'[n] = SubSeq(wire[n], 1, i - 1) \o r \o SubSeq(wire[n], i + 1, Len(wire[n]))
    <3>1. \A i \in 1..1 : i = 1 /\ i - 1 = 0 /\ i + 1 = 2
      OBVIOUS
    <3>2. \E r \in Damaged(x) : wire'[n] = <<>> \o r \o <<>>
      BY <1>5, <2>2, <2>3, <2>6, <3>1
    <3> QED
      BY <1>3, <2>4, <3>2
  <2> QED
    BY <1>2, <2>5, <2>6
<1>6. ASSUME NEW x, NEW y, wire[n] = <<x, y>>
      PROVE  \/ wire'[n] \in {<<x, y, Junk>>, <<y>>, <<Junk, y>>, <<x>>, <<x, Junk>>}
             \/ x.kind = "BLK" /\ wire'[n] = <<Bad, y>>
             \/ y.kind = "BLK" /\ wire'[n] = <<x, Bad>>
  <2>1. Append(<<x, y>>, Junk) = <<x, y, Junk>>
    BY Short2
  <2>2. Len(<<x, y>>) = 2 /\ <<x, y>>[1] = x /\ <<x, y>>[2] = y
    OBVIOUS
  <2>3. SubSeq(<<x, y>>, 1, 0) = <<>> /\ SubSeq(<<x, y>>, 3, 2) = <<>>
    OBVIOUS
  <2>4. SubSeq(<<x, y>>, 1, 1) = <<x>> /\ SubSeq(<<x, y>>, 2, 2) = <<y>>
    <3> DEFINE u == SubSeq(<<x, y>>, 1, 1)
               v == SubSeq(<<x, y>>, 2, 2)
               S == {x, y}
    <3>1. u \in Seq(S) /\ Len(u) = 1 /\ u[1] = x
      OBVIOUS
    <3>2. v \in Seq(S) /\ Len(v) = 1 /\ v[1] = y
      OBVIOUS
    <3> HIDE DEF u, v
    <3>3. DOMAIN u = 1..1 /\ DOMAIN v = 1..1
      BY <3>1, <3>2
    <3>4. u = <<x>> /\ v = <<y>>
      BY <3>1, <3>2, <3>3
    <3> QED
      BY <3>4 DEF u, v
  <2>5. /\ <<>> \o <<>> \o <<y>> = <<y>> /\ <<x>> \o <<>> \o <<>> = <<x>>
        /\ \A j : <<>> \o <<j>> \o <<y>> = <<j, y>> /\ <<x>> \o <<j>> \o <<>> = <<x, j>>
    <3>1. <<>> \o <<>> = <<>> /\ <<>> \o <<y>> = <<y>> /\ <<x>> \o <<>> = <<x>>
      BY Short0, Short1
    <3>2. ASSUME NEW j
          PROVE  <<>> \o <<j>> \o <<y>> = <<j, y>> /\ <<x>> \o <<j>> \o <<>> = <<x, j>>
      <4>1. <<>> \o <<j>> = <<j>> /\ <<j>> \o <<y>> = <<j, y>> /\ <<x>> \o <<j>> = <<x, j>>
        BY Short0, Short1
      <4>2. <<x, j>> \o <<>> = <<x, j>>
        BY Short2
      <4> QED
        BY <4>1, <4>2
    <3> QED
      BY <3>1, <3>2
  <2>6. CASE wire'[n] = Append(wire[n], Junk)
    BY <1>6, <2>1, <2>6
  <2>7. CASE \E i \in 1..Len(wire[n]) : \E r \in Damaged(wire[n][i]) :
           wire'[n] = SubSeq(wire[n], 1, i - 1) \o r \o SubSeq(wire[n], i + 1, Len(wire[n]))
    <3>1. \A i \in 1..2 : \/ i = 1 /\ i - 1 = 0 /\ i + 1 = 2
                          \/ i = 2 /\ i - 1 = 1 /\ i + 1 = 3
      OBVIOUS
    <3>2. \/ \E r \in Damaged(x) : wire'[n] = <<>> \o r \o <<y>>
          \/ \E r \in Damaged(y) : wire'[n] = <<x>> \o r \o <<>>
      BY <1>6, <2>2, <2>3, <2>4, <2>7, <3>1
    <3> QED
      BY <1>3, <2>5, <3>2
  <2> QED
    BY <1>2, <2>6, <2>7
<1> QED
  BY <1>1, <1>4, <1>5, <1>6

\* The one fault, wherever it strikes.
LEMMA NoiseKeeps ==
  ASSUME TypeOK, OneFault, OneFaultInv, NEW k \in Nodes, Noise(k)
  PROVE  OneFaultInv'
<1>1. /\ UNCHANGED <<pc, SendBlkNo, ReceiveBlkNo, LastResponse, Errors, PrevErrors,
                     waits, put, want, got>>
      /\ faults' = faults + 1 /\ faults < MaxFaults
  BY DEF Noise, link, host
<1>2. faults = 0 /\ faults' = 1
  BY <1>1, SerConstants DEF TypeOK, OneFault, AtMostOneFault, PromptHosts, TimeForTwo
<1>3. Bounded /\ InTurn /\ Situation /\ ~Hurt
  BY <1>2 DEF OneFaultInv, Hurt
<1>4. Bounded' /\ Hurt' /\ InTurn'
  BY <1>1, <1>2, <1>3 DEF Bounded, Hurt, InTurn, Newest
<1>5. \A n \in Nodes : /\ Settled(n)' = Settled(n) /\ Underway(n)' = Underway(n)
                       /\ Arrived(n)' = Arrived(n) /\ Block(n)' = Block(n)
                       /\ Acking(n)' = Acking(n)
  BY <1>1, SameNumbers, SameBlock DEF Acking
<1>6. /\ IdleHosts' = IdleHosts
      /\ \A n \in Nodes : SentHosts(n)' = SentHosts(n) /\ TakenHosts(n)' = TakenHosts(n)
  BY <1>1 DEF IdleHosts, SentHosts, TakenHosts, Ready, Replying
<1>7. CASE Idle
  <2>1. \A n \in Nodes : wire[n] = <<>>
    BY <1>3, <1>7 DEF Idle, IdleWires
  <2>2. wire'[k] = <<Junk>> /\ wire'[Peer(k)] = <<>>
    BY <2>1, NoiseShort, PeerFacts
  <2>3. IdleWires'
    BY <1>4, <2>2 DEF IdleWires, Wires
  <2> QED
    BY <1>4, <1>5, <1>6, <1>7, <2>3 DEF Idle, Situation, OneFaultInv, Nodes
<1>8. ASSUME NEW n \in Nodes, Sent(n) PROVE OneFaultInv'
  <2> DEFINE q == Peer(n)
             b == Block(n)
  <2>1. q \in Nodes /\ Peer(q) = n /\ (k = n \/ k = q) /\ b.kind = "BLK" /\ b' = b
    BY <1>5, <1>8, PeerFacts, KindFacts
  <2>2. Acking(n) /\ Wires(n, <<>>, <<b>>)
    BY <1>2, <1>3, <1>8 DEF Sent, SentWires, Mending
  <2> HIDE DEF b
  <2>3. \/ wire'[n] = <<Junk>> /\ wire'[q] = <<b>>
        \/ /\ wire'[n] = <<>>
           /\ wire'[q] \in {<<b, Junk>>, <<>>, <<Junk>>, <<Bad>>}
    <3>1. CASE k = n
      BY <2>2, <3>1, NoiseShort DEF Wires
    <3>2. CASE k = q
      BY <2>1, <2>2, <3>2, NoiseShort DEF Wires
    <3> QED
      BY <2>1, <3>1, <3>2
  <2>4. SentWires(n)'
    BY <1>4, <1>5, <1>8, <2>1, <2>2, <2>3 DEF SentWires, Wires, b
  <2>5. Sent(n)'
    BY <1>5, <1>6, <1>8, <2>1, <2>4 DEF Sent
  <2> QED
    BY <1>4, <1>8, <2>5 DEF Situation, OneFaultInv
<1>9. ASSUME NEW n \in Nodes, Taken(n) PROVE OneFaultInv'
  <2> DEFINE q == Peer(n)
  <2>1. q \in Nodes /\ Peer(q) = n /\ (k = n \/ k = q) /\ Ack.kind # "BLK"
    BY <1>9, PeerFacts, KindFacts
  <2>2. Acking(n) /\ Wires(n, <<Ack>>, <<>>)
    BY <1>2, <1>3, <1>9 DEF Taken, TakenWires, Mending
  <2>3. \/ wire'[n] = <<Ack>> /\ wire'[q] = <<Junk>>
        \/ wire'[q] = <<>> /\ wire'[n] \in {<<Ack, Junk>>, <<>>, <<Junk>>}
    <3>1. CASE k = n
      BY <2>1, <2>2, <3>1, NoiseShort DEF Wires
    <3>2. CASE k = q
      BY <2>1, <2>2, <3>2, NoiseShort DEF Wires
    <3> QED
      BY <2>1, <3>1, <3>2
  <2>4. TakenWires(n)'
    BY <1>4, <1>5, <1>9, <2>1, <2>2, <2>3 DEF TakenWires, Wires
  <2>5. Taken(n)'
    BY <1>1, <1>5, <1>6, <1>9, <2>1, <2>4 DEF Taken
  <2> QED
    BY <1>4, <1>9, <2>5 DEF Situation, OneFaultInv
<1>10. ASSUME NEW n \in Nodes, Crossed(n) PROVE OneFaultInv'
  <2> DEFINE q == Peer(n)
             b == Block(q)
  <2>1. /\ q \in Nodes /\ Peer(q) = n /\ (k = n \/ k = q) /\ Ack.kind # "BLK"
        /\ b.kind = "BLK" /\ b' = b
    BY <1>5, <1>10, PeerFacts, KindFacts
  <2>2. Acking(n) /\ Acking(q) /\ Wires(n, <<Ack, b>>, <<>>)
    BY <1>2, <1>3, <1>10 DEF Crossed, CrossedWires
  <2> HIDE DEF b
  <2>3. \/ wire'[n] = <<Ack, b>> /\ wire'[q] = <<Junk>>
        \/ /\ wire'[q] = <<>>
           /\ wire'[n] \in {<<Ack, b, Junk>>, <<b>>, <<Junk, b>>, <<Ack>>, <<Ack, Junk>>,
              <<Ack, Bad>>}
    <3>1. CASE k = n
      BY <2>1, <2>2, <3>1, NoiseShort DEF Wires
    <3>2. CASE k = q
      BY <2>1, <2>2, <3>2, NoiseShort DEF Wires
    <3> QED
      BY <2>1, <3>1, <3>2
  <2>4. CrossedWires(n, b)'
    BY <1>4, <1>5, <1>10, <2>1, <2>2, <2>3 DEF CrossedWires, Wires
  <2>5. Crossed(n)'
    BY <1>1, <1>5, <1>10, <2>1, <2>4 DEF Crossed, b
  <2> QED
    BY <1>4, <1>10, <2>5 DEF Situation, OneFaultInv
<1> QED
  BY <1>3, <1>7, <1>8, <1>9, <1>10 DEF Situation

-----------------------------------------------------------------------------
(* Types, however long the session *)

\* The end of a BlockSend keeps the types.
LEMMA AckReadTypes ==
  ASSUME TypeOK, NEW n \in Nodes, AckRead(n)
  PROVE  TypeOK'
<1>1. wire' \in [Nodes -> Seq(Item)]
  <2>1. wire[n] # <<>> /\ ReadAndSend(n, <<>>)
    BY DEF AckRead, NextIs
  <2> QED
    BY <2>1, HarmlessFacts, ReadAndSendFacts
<1>2. NextNo(SendBlkNo[n]) \in 0..(IntMod - 1)
  <2>1. SendBlkNo[n] + 1 \in Nat
    BY SerConstants DEF TypeOK
  <2> QED
    BY <2>1, ModRange, SerConstants DEF NextNo
<1>3. SendBlkNo' = [SendBlkNo EXCEPT ![n] = NextNo(SendBlkNo[n])]
  BY DEF AckRead
<1>4. pc' \in { [pc EXCEPT ![n] = "resyncPut"], [pc EXCEPT ![n] = "app"],
                [pc EXCEPT ![n] = "recv"] }
  BY DEF AckRead, AfterPut
<1>5. UNCHANGED <<ReceiveBlkNo, LastResponse, Errors, PrevErrors, waits, put, want, got,
                  faults>>
  BY DEF AckRead, host
<1> QED
  BY <1>1, <1>2, <1>3, <1>4, <1>5 DEF TypeOK

\* So does the acceptance of a block,
LEMMA RecvBlockTypes ==
  ASSUME TypeOK, NEW q \in Nodes, RecvBlock(q), wire[q] # <<>>
  PROVE  TypeOK'
<1> DEFINE x == Head(wire[q])
           g == [id |-> x.id, full |-> ~(x.err > MAX_ERRORS)]
<1>1. wire' \in [Nodes -> Seq(Item)]
  <2>1. ReadAndSend(q, <<Byte("ACK")>>) /\ "ACK" \in Kinds \ {"BLK"}
    BY DEF RecvBlock, Respond, Kinds, Replies
  <2> QED
    BY <2>1, HarmlessFacts, ReadAndSendFacts
<1>2. x \in Item
  BY TailRange DEF TypeOK
<1>3. x.want \in BOOLEAN /\ g \in [id : Nat, full : BOOLEAN]
  BY <1>2 DEF Item
<1>4. /\ ReceiveBlkNo' = [ReceiveBlkNo EXCEPT ![q] = NextNo(ReceiveBlkNo[q])]
      /\ got' = [got EXCEPT ![q] = Append(got[q], g)]
      /\ want' = (IF q = "server" THEN [want EXCEPT ![q] = x.want] ELSE want)
      /\ pc' \in { [pc EXCEPT ![q] = "resyncGet"], [pc EXCEPT ![q] = "app"],
                   [pc EXCEPT ![q] = "exec"] }
      /\ LastResponse' = [LastResponse EXCEPT ![q] = "ACK"]
      /\ UNCHANGED <<SendBlkNo, Errors, PrevErrors, waits, put, faults>>
  BY DEF RecvBlock, Respond, AfterGet, TypeOK
<1> HIDE DEF x, g
<1>5. NextNo(ReceiveBlkNo[q]) \in 0..(IntMod - 1)
  <2>1. ReceiveBlkNo[q] + 1 \in Nat
    BY SerConstants DEF TypeOK
  <2> QED
    BY <2>1, ModRange, SerConstants DEF NextNo
<1>6. Append(got[q], g) \in Seq([id : Nat, full : BOOLEAN])
  BY <1>3, AppendRange DEF TypeOK
<1>7. got' \in [Nodes -> Seq([id : Nat, full : BOOLEAN])]
  BY <1>4, <1>6 DEF TypeOK
<1>8. want' \in [Nodes -> BOOLEAN] /\ LastResponse' \in [Nodes -> {"ACK", "NAK"}]
  BY <1>3, <1>4 DEF TypeOK
<1>9. ReceiveBlkNo' \in [Nodes -> 0..(IntMod - 1)]
  BY <1>4, <1>5 DEF TypeOK
<1> QED
  BY <1>1, <1>4, <1>7, <1>8, <1>9 DEF TypeOK

\* and the start of a BlockSend.
LEMMA BlockSendTypes ==
  ASSUME TypeOK, NEW n \in Nodes, NEW id \in Nat, NEW w \in BOOLEAN,
         BlockSend(n, id, w)
  PROVE  TypeOK'
<1> DEFINE b == BlockOf(n, Errors[n], id, w)
<1>1. b \in Item
  <2>1. Errors[n] \in 0..ErrCap
    BY DEF TypeOK
  <2> QED
    BY <2>1, ItemFacts
<1> HIDE DEF b
<1>2. PICK left \in ClearCom(wire[n]) :
        wire' = [wire EXCEPT ![n] = left, ![Peer(n)] = Append(wire[Peer(n)], b)]
  BY PeerFacts DEF BlockSend, TypeOK, b
<1>3. left \in Seq(Item)
  BY ClearComFacts DEF TypeOK
<1>4. Append(wire[Peer(n)], b) \in Seq(Item)
  BY SMTT(40), <1>1, AppendRange, PeerFacts DEF TypeOK
<1>5. wire' \in [Nodes -> Seq(Item)]
  BY <1>2, <1>3, <1>4 DEF TypeOK
<1>6. /\ UNCHANGED <<SendBlkNo, ReceiveBlkNo, LastResponse, got, faults>>
      /\ pc' = [pc EXCEPT ![n] = "ack"]
      /\ PrevErrors' = [PrevErrors EXCEPT ![n] = Errors[n]]
      /\ Errors' = [Errors EXCEPT ![n] = 0]
      /\ waits' = [waits EXCEPT ![n] = 0]
      /\ put' = [put EXCEPT ![n] = id]
      /\ want' = [want EXCEPT ![n] = w]
  BY DEF BlockSend
<1>7. Errors' \in [Nodes -> 0..ErrCap] /\ PrevErrors' \in [Nodes -> 0..ErrCap]
  <2>1. ErrCap = 3
    BY DEF ErrCap, MAX_ERRORS
  <2> QED
    BY <1>6, <2>1 DEF TypeOK
<1>8. waits' \in [Nodes -> 0..MaxWaits]
  BY <1>6, SerConstants DEF TypeOK
<1> QED
  BY <1>5, <1>6, <1>7, <1>8 DEF TypeOK

\* ServerAgrees, which the lemmas on types use, follows.
LEMMA OneFaultServer ==
  ASSUME TypeOK, OneFaultInv
  PROVE  ServerAgrees
<1>1. /\ InTurn /\ Situation /\ put["server"] \in Nat
      /\ got["server"] \in Seq([id : Nat, full : BOOLEAN])
      /\ "client" \in Nodes /\ "server" \in Nodes
      /\ Peer("client") = "server" /\ Peer("server") = "client"
  BY DEF OneFaultInv, TypeOK, Nodes, Peer
<1>2. pc["client"] # "exec" /\ pc["server"] \notin {"app", "stopped", "resyncGet"}
  <2>1. CASE Idle
    BY <2>1 DEF Idle, IdleHosts, Ready, Replying
  <2>2. CASE Sent("client")
    BY <2>2 DEF Sent, SentHosts, SentWires, Ready, Acking, Draining, Mending
  <2>3. CASE Sent("server")
    BY <2>3 DEF Sent, SentHosts, SentWires, Ready, Acking, Draining, Mending
  <2>4. CASE Taken("client")
    BY <2>4 DEF Taken, TakenHosts, TakenWires, Ready, Replying, Acking, Draining, Mending
  <2>5. CASE Taken("server")
    BY <2>5 DEF Taken, TakenHosts, TakenWires, Acking, Draining, Mending
  <2>6. CASE Crossed("client") \/ Crossed("server")
    BY <1>1, <2>6 DEF Crossed, CrossedWires, Acking, Draining
  <2> QED
    BY <1>1, <2>1, <2>2, <2>3, <2>4, <2>5, <2>6 DEF Situation, Nodes
<1>3. /\ put["client"] <= MaxPuts
      /\ put["server"] <= Newest("server")
      /\ pc["server"] = "exec" => put["server"] < Newest("server")
  BY <1>1 DEF InTurn
<1>4. CASE got["server"] = <<>>
  BY <1>1, <1>2, <1>3, <1>4 DEF ServerAgrees, Newest
<1>5. CASE got["server"] # <<>>
  BY <1>1, <1>2, <1>3, <1>5 DEF ServerAgrees, Newest
<1> QED
  BY <1>4, <1>5

\* Every step keeps the types.
LEMMA OneFaultTypes ==
  ASSUME TypeOK, OneFault, OneFaultInv, [Next]_vars
  PROVE  TypeOK'
<1>1. ServerAgrees
  BY OneFaultServer
<1>2. CASE LinkOnly
  BY <1>1, <1>2, SendingIsQuiet, ReceivingIsQuiet, OthersAreQuiet DEF LinkOnly
<1>3. ASSUME NEW n \in Nodes, AckRead(n) PROVE TypeOK'
  BY <1>3, AckReadTypes
<1>4. ASSUME NEW n \in Nodes, RecvBlock(n) PROVE TypeOK'
  BY <1>4, RecvBlockTypes DEF RecvBlock, NextIs
<1>5. CASE Request
  <2>1. put["client"] + 1 \in Nat /\ "client" \in Nodes
    BY DEF TypeOK, Nodes
  <2>2. \E w \in BOOLEAN : BlockSend("client", put["client"] + 1, w)
    BY <1>5 DEF Request
  <2> QED
    BY <2>1, <2>2, BlockSendTypes
<1>6. CASE Answer
  <2>1. /\ got["server"] \in Seq([id : Nat, full : BOOLEAN]) /\ got["server"] # <<>>
        /\ "server" \in Nodes
    BY <1>1, <1>6 DEF TypeOK, ServerAgrees, Answer, Nodes
  <2>2. Len(got["server"]) \in DOMAIN got["server"]
    BY <2>1
  <2>3. Last(got["server"]) \in [id : Nat, full : BOOLEAN]
    BY <2>1, <2>2, SeqElement DEF Last
  <2> QED
    BY <1>6, <2>1, <2>3, BlockSendTypes DEF Answer
<1>7. CASE UNCHANGED vars
  BY <1>7 DEF vars, link, host, TypeOK
<1> QED
  BY <1>2, <1>3, <1>4, <1>5, <1>6, <1>7, NextCases

-----------------------------------------------------------------------------
(* One fault *)

\* Block numbers do not repeat while they matter: there are fewer requests
\* than numbers, or the counters wrap when the numbers do (`unsigned` is two
\* bytes in the 16-bit programs).
Numbering == NoWrap \/ (BlkMod = IntMod /\ IntMod > 1)

\* A counter of more than one value changes when it counts.
LEMMA NextDiffers ==
  ASSUME NEW k \in 0..(IntMod - 1), IntMod > 1
  PROVE  NextNo(k) # k
<1>1. IntMod \in Nat \ {0} /\ k \in Nat
  BY SerConstants
<1>2. CASE k + 1 < IntMod
  <2>1. k + 1 \in Nat
    BY <1>1
  <2>2. (k + 1) % IntMod = k + 1
    BY <1>1, <1>2, <2>1, ModRange
  <2> QED
    BY <1>1, <2>2 DEF NextNo
<1>3. CASE k + 1 = IntMod
  <2>1. NextNo(k) = 0
    BY <1>1, <1>3 DEF NextNo
  <2> QED
    BY <1>1, <1>3, <2>1
<1> QED
  BY <1>1, <1>2, <1>3

\* Why the numbers fit in the blocks.
LEMMA NumbersFit ==
  ASSUME Numbering, TypeOK, NoWrap => IInv
  PROVE  Fits
<1>1. CASE NoWrap
  <2>1. IntMod > 1
    BY <1>1, SerConstants DEF NoWrap
  <2> QED
    BY <1>1, <2>1, NoNumberWraps, NextDiffers, ModRange, SerConstants DEF Fits, TypeOK
<1>2. CASE BlkMod = IntMod /\ IntMod > 1
  <2>1. \A n \in Nodes : /\ SendBlkNo[n] \in 0..(IntMod - 1) /\ SendBlkNo[n] \in Nat
                         /\ SendBlkNo[n] < BlkMod
    BY <1>2, SerConstants DEF TypeOK
  <2> QED
    BY <1>2, <2>1, NextDiffers, ModRange, SerConstants DEF Fits
<1> QED
  BY <1>1, <1>2 DEF Numbering

\* A session starts idle.
LEMMA OneFaultInit == ASSUME Init PROVE TypeOK /\ OneFaultInv
<1>1. TypeOK
  BY InitHolds DEF IInv
<1>2. Bounded
  BY DEF Init, Bounded, MAX_ERRORS
<1>3. \A n \in Nodes : Newest(n) = 0
  BY DEF Init, Newest
<1>4. InTurn
  BY <1>3, SerConstants DEF Init, InTurn, Nodes
<1>5. IdleHosts /\ IdleWires
  BY DEF Init, IdleHosts, IdleWires, Ready, Nodes
<1>6. Settled("client") /\ Settled("server")
  BY <1>3 DEF Init, Settled, Nodes, Peer
<1> QED
  BY <1>1, <1>2, <1>4, <1>5, <1>6 DEF Idle, Situation, OneFaultInv

\* Every step leads from one of the situations to another.
LEMMA OneFaultStep ==
  ASSUME TypeOK, Fits, OneFault, OneFaultInv, [Next]_vars
  PROVE  OneFaultInv'
<1>1. ASSUME NEW n \in Nodes, Sending(n) PROVE OneFaultInv'
  BY <1>1, AckReadSettles, NakReadKeeps, RlrReadKeeps, MessReadKeeps, DrainReadKeeps,
     TimeOutKeeps, NoGiveUp DEF Sending
<1>2. ASSUME NEW n \in Nodes, Receiving(n) PROVE OneFaultInv'
  BY <1>2, RecvBlockArrives, RecvOtherKeeps, RecvDamagedKeeps, RecvRlrKeeps, RecvSkipKeeps
     DEF Receiving
<1>3. \A n \in Nodes : ~InReSync(n)
  BY NoReSync DEF OneFaultInv
<1>4. ~(\E n \in Nodes : ReSyncRead(n)) /\ ~ReSyncHi /\ ~ReSyncDone
  BY <1>3 DEF ReSyncRead, ReSyncHi, ReSyncDone, Nodes
<1>5. CASE UNCHANGED vars
  <2>1. UNCHANGED <<pc, SendBlkNo, ReceiveBlkNo, LastResponse, Errors, PrevErrors, waits,
                    wire, put, want, got, faults>>
    BY <1>5 DEF vars, link, host
  <2>2. \A n \in Nodes : Block(n)' = Block(n)
    BY <2>1, SameBlock
  <2>3. Bounded' /\ InTurn'
    BY <2>1 DEF OneFaultInv, Bounded, InTurn, Newest
  <2>4. Idle' = Idle
    BY <2>1 DEF Idle, IdleHosts, IdleWires, Settled, Newest, Ready, Replying, Hurt, Wires
  <2>5. \A n \in Nodes : Sent(n)' = Sent(n)
    BY <2>1, <2>2 DEF Sent, SentHosts, SentWires, Underway, Settled, Newest, Ready,
       Acking, Draining, Mending, Hurt, Wires
  <2>6. \A n \in Nodes : Taken(n)' = Taken(n)
    BY <2>1, <2>2 DEF Taken, TakenHosts, TakenWires, Arrived, Settled, Newest, Ready,
       Replying, Acking, Draining, Mending, Hurt, Wires
  <2>7. \A n \in Nodes : Crossed(n)' = Crossed(n)
    BY <2>1, <2>2, PeerFacts DEF Crossed, CrossedWires, Underway, Arrived, Newest, Acking,
       Draining, Hurt, Wires
  <2> QED
    BY <2>3, <2>4, <2>5, <2>6, <2>7 DEF Situation, OneFaultInv
<1> QED
  BY <1>1, <1>2, <1>4, <1>5, RequestStarts, AnswerStarts, PerformedKeeps, NoiseKeeps
     DEF Next, LinkStep

\* With at most one fault and prompt hosts, the situations of the one-fault
\* invariant are all there are.
THEOREM OneFaultHolds ==
  ASSUME AtMostOneFault, PromptHosts, TimeForTwo, Numbering
  PROVE  Spec => [](TypeOK /\ Fits /\ OneFaultInv)
<1>0. OneFault
  BY DEF OneFault
<1>1. Init => TypeOK /\ OneFaultInv /\ (NoWrap => IInv)
  BY OneFaultInit, InitHolds
<1>2. TypeOK /\ OneFaultInv /\ (NoWrap => IInv) => Fits
  BY NumbersFit
<1>3. TypeOK /\ OneFaultInv /\ (NoWrap => IInv) /\ [Next]_vars
        => TypeOK' /\ OneFaultInv' /\ (NoWrap => IInv')
  <2> SUFFICES ASSUME TypeOK, OneFaultInv, NoWrap => IInv, [Next]_vars
               PROVE  TypeOK' /\ OneFaultInv' /\ (NoWrap => IInv')
    OBVIOUS
  <2>1. Fits
    BY NumbersFit
  <2>2. TypeOK' /\ OneFaultInv'
    BY <1>0, <2>1, OneFaultTypes, OneFaultStep
  <2>3. NoWrap => IInv'
    BY NextKeeps
  <2> QED
    BY <2>2, <2>3
<1> DEFINE J == TypeOK /\ OneFaultInv /\ (NoWrap => IInv)
<1>4. Init => J
  BY <1>1
<1>5. J /\ [Next]_vars => J'
  BY <1>3
<1>6. J => TypeOK /\ Fits /\ OneFaultInv
  BY <1>2
<1> QED
  BY <1>4, <1>5, <1>6, PTL DEF Spec

\* With at most one fault and prompt hosts, the two sides never wait for each
\* other.
THEOREM NoMutualWaitHolds ==
  ASSUME AtMostOneFault, PromptHosts, TimeForTwo, Numbering
  PROVE  Spec => []NoMutualWait
<1>1. TypeOK /\ Fits /\ OneFaultInv => NoMutualWait
  <2> SUFFICES ASSUME OneFaultInv PROVE \E n \in Nodes : pc[n] # "recv"
    BY DEF NoMutualWait
  <2>1. CASE Idle
    BY <2>1 DEF Idle, IdleHosts, Replying, Nodes
  <2>2. CASE \E n \in Nodes : Sent(n)
    BY <2>2 DEF Sent, SentWires, Acking, Draining, Mending
  <2>3. CASE \E n \in Nodes : Taken(n)
    BY <2>3 DEF Taken, TakenWires, Acking, Draining, Mending
  <2>4. CASE \E n \in Nodes : Crossed(n)
    BY <2>4 DEF Crossed, CrossedWires, Acking, Draining
  <2> QED
    BY <2>1, <2>2, <2>3, <2>4 DEF Situation, OneFaultInv
<1> QED
  BY <1>1, OneFaultHolds, PTL

\* What PutDelivered says of a step.
Delivers ==
  \A n \in Nodes :
    SendBlkNo'[n] # SendBlkNo[n] => put[n] \in Range(Received(Peer(n)))

\* The newest packet received is among those received.
LEMMA NewestReceived ==
  ASSUME TypeOK, NEW n \in Nodes
  PROVE  /\ Newest(n) \in Nat
         /\ Newest(n) # 0 => Newest(n) \in Range(Received(n))
         /\ ExactLink!Newest(n) = Newest(n)
<1>1. got[n] \in Seq(Packet) /\ Received(n) = IdsOf(got[n])
  BY DEF TypeOK, Packet, Received, IdsOf
<1>2. /\ Received(n) \in Seq(Nat) /\ DOMAIN Received(n) = DOMAIN got[n]
      /\ Len(Received(n)) = Len(got[n])
      /\ \A i \in DOMAIN got[n] : /\ Received(n)[i] = got[n][i].id
                                 /\ Received(n)[i] \in Nat
  BY <1>1, IdsFacts
<1>3. CASE got[n] = <<>>
  <2>1. Received(n) = <<>>
    BY <1>1, <1>2, <1>3
  <2> QED
    BY <1>3, <2>1 DEF Newest, ExactLink!Newest
<1>4. CASE got[n] # <<>>
  <2>1. Len(got[n]) \in DOMAIN got[n] /\ Received(n) # <<>>
    BY <1>1, <1>2, <1>4
  <2>2. Newest(n) = Received(n)[Len(got[n])]
    BY <1>2, <1>4, <2>1 DEF Newest, Last
  <2> QED
    BY <1>2, <2>1, <2>2 DEF ExactLink!Newest, Range
<1> QED
  BY <1>3, <1>4

\* The steps of LinkOnly move no block number.
LEMMA LinkOnlyIsQuiet ==
  ASSUME TypeOK, OneFaultInv, LinkOnly
  PROVE  UNCHANGED <<SendBlkNo, ReceiveBlkNo, put, got>>
<1>1. ServerAgrees
  BY OneFaultServer
<1>2. QuietStep
  BY <1>1, SendingIsQuiet, ReceivingIsQuiet, OthersAreQuiet DEF LinkOnly
<1> QED
  BY <1>2 DEF QuietStep

\* RemotePut reports success only for what the other side has received, when
\* the line does at most one harm and both hosts are prompt.
THEOREM PutDeliveredHolds ==
  ASSUME AtMostOneFault, PromptHosts, TimeForTwo, Numbering
  PROVE  Spec => PutDelivered
<1>0. OneFault
  BY DEF OneFault
<1>1. TypeOK /\ Fits /\ OneFaultInv /\ [Next]_vars => [Delivers]_vars
  <2> SUFFICES ASSUME TypeOK, Fits, OneFaultInv, Next PROVE Delivers
    OBVIOUS
  <2>1. ASSUME NEW k \in Nodes, AckRead(k) PROVE Delivers
    <3>1. Arrived(k)
      BY <1>0, <2>1, AckReadSettles
    <3>2. Newest(Peer(k)) = put[k]
      BY <3>1 DEF Arrived
    <3>3. put[k] # 0
      BY <2>1, <3>1 DEF Arrived, TypeOK
    <3>4. put[k] \in Range(Received(Peer(k)))
      BY <2>1, <3>2, <3>3, NewestReceived, PeerFacts
    <3>5. \A n \in Nodes : n # k => SendBlkNo'[n] = SendBlkNo[n]
      BY <2>1 DEF AckRead, TypeOK
    <3> QED
      BY <3>4, <3>5 DEF Delivers
  <2>2. CASE \A n \in Nodes : ~AckRead(n)
    <3>1. LinkOnly => SendBlkNo' = SendBlkNo
      BY LinkOnlyIsQuiet
    <3>2. Request \/ Answer => SendBlkNo' = SendBlkNo
      BY DEF Request, Answer, BlockSend
    <3>3. (\E n \in Nodes : RecvBlock(n)) => SendBlkNo' = SendBlkNo
      BY DEF RecvBlock
    <3>4. SendBlkNo' = SendBlkNo
      BY <2>2, <3>1, <3>2, <3>3, NextCases
    <3> QED
      BY <3>4 DEF Delivers
  <2> QED
    BY <2>1, <2>2
<1> QED
  BY <1>1, OneFaultHolds, PTL DEF PutDelivered, Delivers, Spec

-----------------------------------------------------------------------------
(* With at most one fault the link implements the exact packet link *)

\* A BlockSend after the last packet has arrived is the exact link's Put.
LEMMA BlockSendIsPut ==
  ASSUME TypeOK, NEW n \in Nodes, NEW id \in Nat, NEW w \in BOOLEAN,
         BlockSend(n, id, w), put[n] < id, Newest(Peer(n)) = put[n]
  PROVE  ExactLink!Put(n)
<1>1. put' = [put EXCEPT ![n] = id] /\ got' = got
  BY DEF BlockSend
<1>2. ExactLink!Newest(Peer(n)) = put[n]
  BY NewestReceived, PeerFacts
<1>3. put' \in [Nodes -> Nat] /\ put'[n] > put[n] /\ \A m \in Nodes \ {n} : put'[m] = put[m]
  BY <1>1 DEF TypeOK
<1>4. [m \in Nodes |-> Received(m)]' = [m \in Nodes |-> Received(m)]
  BY <1>1 DEF Received
<1> QED
  BY <1>2, <1>3, <1>4 DEF ExactLink!Put

\* A packet that is handed up is new, and that is the exact link's Get.
LEMMA RecvBlockIsExactGet ==
  ASSUME TypeOK, Fits, OneFault, OneFaultInv, NEW p \in Nodes, RecvBlock(p)
  PROVE  ExactLink!Get(p)
<1> DEFINE n == Peer(p)
           x == Head(wire[p])
           g == [id |-> x.id, full |-> ~(x.err > MAX_ERRORS)]
           R == [m \in Nodes |-> Received(m)]
<1>1. /\ n \in Nodes /\ Peer(n) = p
      /\ got' = [got EXCEPT ![p] = Append(got[p], g)] /\ put' = put
  BY PeerFacts DEF RecvBlock
<1>2. Underway(n) /\ x.id = put[n] /\ put[n] \in Nat
  BY <1>1, RecvBlockArrives DEF TypeOK
<1>3. g \in [id : Nat, full : BOOLEAN] /\ g.id = x.id
  BY <1>2
<1> HIDE DEF g, x
<1>4. got[p] \in Seq(Packet) /\ Received(p) = IdsOf(got[p])
  BY <1>1 DEF TypeOK, Packet, Received, IdsOf
<1>5. Received(p)' = Append(Received(p), x.id)
  <2>1. Received(p)' = IdsOf(got'[p]) /\ got'[p] = Append(got[p], g)
    BY <1>1 DEF Received, IdsOf, TypeOK
  <2> QED
    BY <1>3, <1>4, <2>1, IdsAppend DEF Packet
<1>6. \A m \in Nodes : m # p => Received(m)' = Received(m)
  BY <1>1 DEF Received, TypeOK
<1>7. R' = [R EXCEPT ![p] = Append(R[p], x.id)]
  BY <1>5, <1>6
<1>8. x.id \in (ExactLink!Newest(p) + 1)..put[n]
  <2>1. Newest(p) \in Nat /\ ExactLink!Newest(p) = Newest(p) /\ Newest(p) < put[n]
    BY <1>1, <1>2, NewestReceived DEF Underway
  <2> QED
    BY <1>2, <2>1
<1> HIDE DEF R
<1> QED
  BY <1>1, <1>7, <1>8 DEF ExactLink!Get, R

\* When the line does at most one harm and both hosts are prompt, serlink.c
\* implements the packet link that delivers every packet, before its sender
\* sends the next.
THEOREM ExactLinkImplemented ==
  ASSUME AtMostOneFault, PromptHosts, TimeForTwo, Numbering
  PROVE  Spec => ImplementsExactLink
<1>0. OneFault
  BY DEF OneFault
<1>1. Init => ExactLink!Init
  BY PeerFacts DEF Init, ExactLink!Init, Received
<1>2. TypeOK /\ Fits /\ OneFaultInv /\ [Next]_vars => [ExactLink!Next]_ExactLink!vars
  <2> SUFFICES ASSUME TypeOK, Fits, OneFaultInv, [Next]_vars
               PROVE  [ExactLink!Next]_ExactLink!vars
    OBVIOUS
  <2>1. CASE UNCHANGED <<put, got>>
    BY <2>1 DEF ExactLink!vars, Received
  <2>2. CASE LinkOnly
    BY <1>0, <2>1, <2>2, LinkOnlyIsQuiet
  <2>3. CASE Request
    <3>1. /\ "client" \in Nodes /\ Peer("client") = "server"
          /\ put["client"] + 1 \in Nat /\ put["client"] < put["client"] + 1
      BY DEF Nodes, Peer, TypeOK
    <3>2. Newest(Peer("client")) = put["client"]
      BY <1>0, <2>3, <3>1, RequestStarts
    <3>3. ExactLink!Put("client")
      BY <2>3, <3>1, <3>2, BlockSendIsPut DEF Request
    <3> QED
      BY <3>1, <3>3 DEF ExactLink!Next
  <2>4. CASE Answer
    <3> DEFINE id == Last(got["server"]).id
    <3>1. /\ "server" \in Nodes /\ Peer("server") = "client"
          /\ put["server"] \in Nat /\ put["server"] < Newest("server")
      BY <2>4 DEF Nodes, Peer, TypeOK, Answer, OneFaultInv, InTurn
    <3>2. Newest("server") \in Nat /\ id = Newest("server")
      <4>1. Newest("server") \in Nat
        BY <3>1, NewestNat
      <4> QED
        BY <3>1, <4>1 DEF Newest
    <3>3. Newest(Peer("server")) = put["server"]
      BY <1>0, <2>4, <3>1, AnswerStarts
    <3>4. ExactLink!Put("server")
      <4>1. BlockSend("server", id, TRUE) /\ id \in Nat /\ put["server"] < id
        BY <2>4, <3>1, <3>2 DEF Answer
      <4> QED
        BY <3>1, <3>3, <4>1, BlockSendIsPut
    <3> QED
      BY <3>1, <3>4 DEF ExactLink!Next
  <2>5. CASE \E n \in Nodes : AckRead(n)
    <3>1. UNCHANGED <<put, got>>
      BY <2>5 DEF AckRead, host
    <3> QED
      BY <2>1, <3>1
  <2>6. CASE \E n \in Nodes : RecvBlock(n)
    BY <1>0, <2>6, RecvBlockIsExactGet DEF ExactLink!Next
  <2>7. CASE UNCHANGED vars
    BY <2>1, <2>7 DEF vars, host
  <2> QED
    BY <2>2, <2>3, <2>4, <2>5, <2>6, <2>7, NextCases
<1> QED
  BY <1>1, <1>2, OneFaultHolds, PTL DEF Spec, ImplementsExactLink, ExactLink!Spec
=============================================================================

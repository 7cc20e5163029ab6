---------------------------- MODULE ParLinkProofs ----------------------------
(***************************************************************************)
(* Theorems about the parallel link for every size of half a byte and any  *)
(* requests and responses: what the handshake and the framing of packets   *)
(* together promise.                                                       *)
(***************************************************************************)
EXTENDS ParLink, SequenceTheorems, TLAPS

-----------------------------------------------------------------------------
(* Numbers *)

\* Quotient and remainder.
LEMMA DivMod ==
  ASSUME NEW a \in Nat, NEW m \in Nat, m > 0
  PROVE  /\ a \div m \in Nat /\ a % m \in 0..(m - 1)
         /\ a = m * (a \div m) + (a % m)
OBVIOUS

\* A number is put together from its remainder and its quotient.
LEMMA Rejoined ==
  ASSUME NEW a \in Nat, NEW m \in Nat, m > 0
  PROVE  (a % m) + m * (a \div m) = a
<1> DEFINE q == a \div m
           r == a % m
<1>1. q \in Nat /\ r \in Nat /\ a = m * q + r
  BY DivMod
<1>2. m * q \in Nat
  BY <1>1
<1> HIDE DEF q, r
<1>3. r + m * q = a
  BY <1>1, <1>2
<1> QED
  BY <1>3 DEF q, r

\* A quotient is less than what the number divided is less than times as much.
LEMMA DivBound ==
  ASSUME NEW a \in Nat, NEW m \in Nat, NEW k \in Nat, m > 0, a < k * m
  PROVE  a \div m < k
<1> DEFINE q == a \div m
<1>1. q \in Nat /\ a >= m * q
  BY DivMod
<1>2. ASSUME q >= k PROVE FALSE
  <2>1. PICK d \in Nat : q = k + d
    BY <1>1, <1>2
  <2>2. m * q = k * m + m * d
    BY <2>1
  <2>3. m * d \in Nat
    BY <2>1
  <2> QED
    BY <1>1, <2>2, <2>3
<1> QED
  BY <1>1, <1>2

\* Half a byte, a byte, 0x80 and the Ctl2 bit, in the order of their sizes.
LEMMA Sizes ==
  /\ Nib \in Nat /\ Nib > 1
  /\ Base \in Nat /\ Half \in Nat /\ CTL2 \in Nat
  /\ Nib <= Base /\ 0 < Half /\ 2 * Half <= Base
  /\ 0 < CTL2 /\ CTL2 < Nib /\ Base = Nib * Nib
<1>1. Nib \in Nat /\ Nib > 1
  BY ParConstants
<1>2. PICK k \in Nat : Nib = k + 2
  BY <1>1
<1>3. Nib * Nib = (k * k) + 4 * k + 4 /\ k * k \in Nat
  BY <1>2
<1>4. Base \in Nat /\ Base >= 4 /\ Nib <= Base
  BY <1>2, <1>3 DEF Base
<1>5. Half \in Nat /\ 0 < Half /\ 2 * Half <= Base
  BY <1>4 DEF Half
<1>6. CTL2 \in Nat /\ 0 < CTL2 /\ CTL2 < Nib
  BY <1>1 DEF CTL2
<1> QED
  BY <1>1, <1>4, <1>5, <1>6 DEF Base

\* A number below m is its own remainder.
LEMMA ModSame ==
  ASSUME NEW m \in Nat, NEW a \in 0..(m - 1)
  PROVE  a % m = a
OBVIOUS

\* Quotient and remainder of a sum whose last part is below m.
LEMMA DivModUnique ==
  ASSUME NEW m \in Nat, NEW q \in Nat, NEW r \in 0..(m - 1)
  PROVE  (m * q + r) \div m = q /\ (m * q + r) % m = r
OBVIOUS

\* A sequence of one element has an empty tail, a longer one has not.
LEMMA TailEmpty ==
  ASSUME NEW S, NEW t \in Seq(S), t # <<>>
  PROVE  Tail(t) = <<>> <=> ~(Len(t) > 1)
<1>1. Tail(t) \in Seq(S) /\ Len(Tail(t)) = Len(t) - 1 /\ Len(t) \in Nat \ {0}
  OBVIOUS
<1> DEFINE u == Tail(t)
<1> HIDE DEF u
<1>2. u \in Seq(S) /\ Len(u) = Len(t) - 1
  BY <1>1 DEF u
<1>3. u = <<>> <=> Len(u) = 0
  BY <1>2, EmptySeq
<1>4. u = <<>> <=> ~(Len(t) > 1)
  BY <1>1, <1>2, <1>3
<1> QED
  BY <1>4 DEF u

\* The head of one sequence moves to the end of another.
LEMMA MoveHead ==
  ASSUME NEW S, NEW s \in Seq(S), NEW t \in Seq(S), t # <<>>
  PROVE  Append(s, Head(t)) \o Tail(t) = s \o t
<1>1. Head(t) \in S /\ Tail(t) \in Seq(S) /\ Len(Tail(t)) = Len(t) - 1 /\ t[1] = Head(t)
  OBVIOUS
<1>2. \A i \in 1..Len(Tail(t)) : Tail(t)[i] = t[i + 1]
  OBVIOUS
<1>3. /\ Append(s, Head(t)) \in Seq(S) /\ Len(Append(s, Head(t))) = Len(s) + 1
      /\ Append(s, Head(t))[Len(s) + 1] = t[1]
      /\ \A i \in 1..Len(s) : Append(s, Head(t))[i] = s[i]
  BY <1>1
<1> DEFINE a == Append(s, Head(t)) \o Tail(t)
           b == s \o t
<1>4. a \in Seq(S) /\ b \in Seq(S) /\ Len(a) = Len(b)
  BY <1>1, <1>3, ConcatProperties
<1>5. ASSUME NEW i \in 1..Len(a) PROVE a[i] = b[i]
  BY <1>1, <1>2, <1>3, <1>4, ConcatProperties
<1> HIDE DEF a, b
<1>6. a = b
  BY <1>4, <1>5, SeqEqual
<1> QED
  BY <1>6 DEF a, b

-----------------------------------------------------------------------------
(* Packets as bytes and units *)

LEMMA FrameTypes ==
  ASSUME NEW p \in Seq(Byte), Len(p) < Half * Base
  PROVE  /\ Header(Len(p)) \in Seq(Byte) /\ Frame(p) \in Seq(Byte)
         /\ Frame(p) # <<>> /\ Len(Frame(p)) = Len(Header(Len(p))) + Len(p)
<1>1. CASE Len(p) >= Half
  <2>1. /\ Len(p) \div Base \in Nat /\ Len(p) \div Base < Half
        /\ Len(p) % Base \in Byte
    <3>1. Len(p) \in Nat /\ Base \in Nat /\ Half \in Nat /\ Base > 0
      BY Sizes
    <3>2. Len(p) \div Base \in Nat /\ Len(p) % Base \in 0..(Base - 1)
      BY <3>1, DivMod
    <3>3. Len(p) \div Base < Half
      BY <3>1, DivBound
    <3> QED
      BY <3>2, <3>3 DEF Byte
  <2>2. (Len(p) \div Base) + Half \in Byte
    BY <2>1, Sizes DEF Byte
  <2>3. Header(Len(p)) = <<(Len(p) \div Base) + Half, Len(p) % Base>>
    BY <1>1 DEF Header
  <2> QED
    BY <2>1, <2>2, <2>3 DEF Frame
<1>2. CASE ~(Len(p) >= Half)
  <2>1. Header(Len(p)) = <<Len(p)>> /\ Len(p) \in Byte
    BY <1>2, Sizes DEF Header, Byte
  <2> QED
    BY <2>1 DEF Frame
<1> QED
  BY <1>1, <1>2

\* How many units there are, and which.
LEMMA UnitsTypes ==
  ASSUME NEW b \in Seq(Byte)
  PROVE  /\ Units(b) \in Seq(Unit)
         /\ Len(Units(b)) = IF Wide THEN Len(b) ELSE 2 * Len(b)
         /\ ~Wide => \A k \in 1..Len(b) : /\ Units(b)[2 * k - 1] = b[k] % Nib
                                          /\ Units(b)[2 * k] = b[k] \div Nib
<1>1. CASE Wide
  BY <1>1 DEF Units, Unit
<1>2. CASE ~Wide
  <2> DEFINE U == [i \in 1..(2 * Len(b)) |->
                     IF i % 2 = 1 THEN b[(i + 1) \div 2] % Nib ELSE b[i \div 2] \div Nib]
  <2>1. Units(b) = U
    BY <1>2 DEF Units
  <2>2. ASSUME NEW k \in 1..Len(b)
        PROVE  /\ b[k] % Nib \in 0..(Nib - 1) /\ b[k] \div Nib \in 0..(Nib - 1)
               /\ U[2 * k - 1] = b[k] % Nib /\ U[2 * k] = b[k] \div Nib
    <3>1. b[k] \in Nat /\ b[k] < Nib * Nib /\ Nib \in Nat /\ Nib > 0
      BY Sizes DEF Byte
    <3>2. b[k] % Nib \in 0..(Nib - 1) /\ b[k] \div Nib \in Nat /\ b[k] \div Nib < Nib
      BY <3>1, DivMod, DivBound
    <3>3. /\ 2 * k - 1 \in 1..(2 * Len(b)) /\ 2 * k \in 1..(2 * Len(b))
          /\ (2 * k - 1) % 2 = 1 /\ (2 * k) % 2 = 0
          /\ (2 * k - 1 + 1) \div 2 = k /\ (2 * k) \div 2 = k
      OBVIOUS
    <3> QED
      BY <3>1, <3>2, <3>3
  <2>3. ASSUME NEW i \in 1..(2 * Len(b)) PROVE U[i] \in 0..(Nib - 1)
    <3>1. PICK k \in 1..Len(b) : i = 2 * k - 1 \/ i = 2 * k
      <4>1. CASE i % 2 = 1
        BY <4>1, (i + 1) \div 2 \in 1..Len(b), i = 2 * ((i + 1) \div 2) - 1
      <4>2. CASE i % 2 = 0
        BY <4>2, i \div 2 \in 1..Len(b), i = 2 * (i \div 2)
      <4> QED
        BY <4>1, <4>2
    <3> QED
      BY <3>1, <2>2
  <2>4. U \in Seq(0..(Nib - 1)) /\ Len(U) = 2 * Len(b)
    BY <2>3
  <2> QED
    BY <1>2, <2>1, <2>2, <2>4 DEF Unit
<1> QED
  BY <1>1, <1>2

\* The bytes that the first units of a sequence of bytes stand for are its first
\* bytes.
LEMMA BytesOfUnits ==
  ASSUME NEW b \in Seq(Byte), NEW h \in Seq(Unit), NEW t \in Seq(Unit),
         h \o t = Units(b)
  PROVE  /\ BytesOf(h) \in Seq(Byte)
         /\ Len(BytesOf(h)) = IF Wide THEN Len(h) ELSE Len(h) \div 2
         /\ Len(BytesOf(h)) <= Len(b)
         /\ \A k \in 1..Len(BytesOf(h)) : BytesOf(h)[k] = b[k]
<1>1. CASE Wide
  BY <1>1 DEF BytesOf, Units, Unit
<1>2. CASE ~Wide
  <2> DEFINE n == Len(h) \div 2
             B == [i \in 1..n |-> h[2 * i - 1] + Nib * h[2 * i]]
  <2>1. BytesOf(h) = B /\ n \in Nat /\ 2 * n <= Len(h)
    BY <1>2 DEF BytesOf
  <2>2. /\ Len(h) <= 2 * Len(b)
        /\ \A i \in 1..Len(h) : h[i] = Units(b)[i]
    <3>1. Len(h \o t) = Len(h) + Len(t) /\ \A i \in 1..Len(h) : (h \o t)[i] = h[i]
      OBVIOUS
    <3> QED
      BY <1>2, <3>1, UnitsTypes
  <2>3. ASSUME NEW k \in 1..n PROVE B[k] = b[k] /\ b[k] \in Byte
    <3>1. k \in 1..Len(b) /\ 2 * k - 1 \in 1..Len(h) /\ 2 * k \in 1..Len(h)
      BY <2>1, <2>2
    <3>2. h[2 * k - 1] = b[k] % Nib /\ h[2 * k] = b[k] \div Nib
      BY <1>2, <2>2, <3>1, UnitsTypes
    <3>3. b[k] \in Nat /\ b[k] \in Byte /\ Nib \in Nat /\ Nib > 0
      BY <3>1, Sizes DEF Byte
    <3>4. (b[k] % Nib) + Nib * (b[k] \div Nib) = b[k]
      BY ONLY <3>3, Rejoined
    <3>5. B[k] = (b[k] % Nib) + Nib * (b[k] \div Nib)
      BY <3>2
    <3> QED
      BY <3>3, <3>4, <3>5
  <2>4. B \in Seq(Byte) /\ Len(B) = n
    BY <2>1, <2>3
  <2> QED
    BY <1>2, <2>1, <2>2, <2>3, <2>4
<1> QED
  BY <1>1, <1>2

\* The header of a packet tells where its data starts and how long it is.
LEMMA FrameHead ==
  ASSUME NEW p \in Seq(Byte), Len(p) < Half * Base
  PROVE  /\ Frame(p)[1] >= Half => /\ Len(Frame(p)) >= 2
                                   /\ (Frame(p)[1] - Half) * Base + Frame(p)[2] = Len(p)
                                   /\ Len(Frame(p)) = 2 + Len(p)
                                   /\ SubSeq(Frame(p), 3, Len(Frame(p))) = p
         /\ ~(Frame(p)[1] >= Half) => /\ Frame(p)[1] = Len(p)
                                      /\ Len(Frame(p)) = 1 + Len(p)
                                      /\ SubSeq(Frame(p), 2, Len(Frame(p))) = p
<1>1. CASE Len(p) >= Half
  <2> DEFINE q == Len(p) \div Base
             r == Len(p) % Base
  <2>1. Len(p) \in Nat /\ Base \in Nat /\ Base > 0 /\ Half \in Nat
    BY Sizes
  <2>2. q \in Nat /\ r \in Nat
    BY <2>1, DivMod
  <2>3. q * Base + r = Len(p)
    <3>1. r + Base * q = Len(p)
      BY <2>1, Rejoined
    <3> HIDE DEF q, r
    <3>2. Base * q = q * Base /\ q * Base \in Nat
      BY <2>1, <2>2
    <3> QED
      BY <2>2, <3>1, <3>2
  <2>4. Frame(p) = <<q + Half, r>> \o p
    BY <1>1 DEF Frame, Header
  <2> HIDE DEF q, r
  <2>5. Frame(p)[1] = q + Half /\ Frame(p)[2] = r /\ Len(Frame(p)) = 2 + Len(p)
    BY <2>2, <2>4
  <2>6. SubSeq(Frame(p), 3, Len(Frame(p))) = p
    BY <2>2, <2>4, <2>5
  <2>7. Frame(p)[1] >= Half /\ Frame(p)[1] - Half = q
    BY <2>1, <2>2, <2>5
  <2> QED
    BY <2>1, <2>3, <2>5, <2>6, <2>7
<1>2. CASE ~(Len(p) >= Half)
  <2>1. Frame(p) = <<Len(p)>> \o p
    BY <1>2 DEF Frame, Header
  <2>2. Frame(p)[1] = Len(p) /\ Len(Frame(p)) = 1 + Len(p)
    BY <2>1
  <2>3. SubSeq(Frame(p), 2, Len(Frame(p))) = p
    BY <2>1, <2>2
  <2> QED
    BY <1>2, <2>2, <2>3
<1> QED
  BY <1>1, <1>2

\* RemoteGet sees the end of a packet when it has read all of its units, and
\* never before, and what it returns then is the packet.
LEMMA FrameEnd ==
  ASSUME NEW p \in Seq(Byte), Len(p) < Half * Base,
         NEW h \in Seq(Unit), NEW t \in Seq(Unit), h \o t = Units(Frame(p))
  PROVE  /\ IsPacket(h) <=> t = <<>>
         /\ t = <<>> => Packet(h) = p
<1> DEFINE F == Frame(p)
           B == BytesOf(h)
<1>1. F \in Seq(Byte) /\ Len(F) >= 1
  BY FrameTypes
<1>2. /\ B \in Seq(Byte)
      /\ Len(B) = IF Wide THEN Len(h) ELSE Len(h) \div 2
      /\ Len(B) <= Len(F) /\ \A k \in 1..Len(B) : B[k] = F[k]
  BY <1>1, BytesOfUnits
<1>3. /\ Len(h) + Len(t) = Len(Units(F))
      /\ Len(Units(F)) = IF Wide THEN Len(F) ELSE 2 * Len(F)
      /\ Len(Units(B)) = IF Wide THEN Len(B) ELSE 2 * Len(B)
  <2>1. Len(h \o t) = Len(h) + Len(t)
    OBVIOUS
  <2> QED
    BY <1>1, <1>2, <2>1, UnitsTypes
<1> HIDE DEF B, F
<1>4. ASSUME t = <<>> PROVE IsPacket(h) /\ Packet(h) = p
  <2>1. Len(B) = Len(F)
    BY <1>1, <1>2, <1>3, <1>4
  <2>2. B = F
    BY <1>1, <1>2, <2>1, SeqEqual
  <2>3. Len(h) = Len(Units(B)) /\ B # <<>>
    BY <1>1, <1>3, <1>4, <2>2
  <2>4. CASE F[1] >= Half
    <3>1. /\ Len(F) >= 2 /\ (F[1] - Half) * Base + F[2] = Len(p)
          /\ Len(F) = 2 + Len(p) /\ SubSeq(F, 3, Len(F)) = p
      BY <2>4, FrameHead DEF F
    <3>2. DataStart(F) = 3 /\ DataLen(F) = Len(p)
      BY <2>4, <3>1 DEF DataStart, DataLen
    <3> QED
      BY <2>2, <2>3, <3>1, <3>2 DEF IsPacket, Packet, B
  <2>5. CASE ~(F[1] >= Half)
    <3>1. F[1] = Len(p) /\ Len(F) = 1 + Len(p) /\ SubSeq(F, 2, Len(F)) = p
      BY <2>5, FrameHead DEF F
    <3>2. DataStart(F) = 2 /\ DataLen(F) = Len(p)
      BY <2>5, <3>1 DEF DataStart, DataLen
    <3> QED
      BY <2>2, <2>3, <2>5, <3>1, <3>2 DEF IsPacket, Packet, B
  <2> QED
    BY <2>4, <2>5
<1>5. ASSUME IsPacket(h) PROVE t = <<>>
  <2>1. /\ B # <<>> /\ Len(h) = Len(Units(B))
        /\ B[1] >= Half => Len(B) > 1
        /\ Len(B) = DataStart(B) - 1 + DataLen(B)
    BY <1>5 DEF IsPacket, B
  <2>2. B[1] = F[1] /\ Len(B) > 1 => B[2] = F[2]
    BY <1>2, <2>1
  <2>3. B[1] = F[1]
    BY <1>2, <2>1
  <2>4. Len(B) = Len(F)
    <3>1. CASE F[1] >= Half
      <4>1. (F[1] - Half) * Base + F[2] = Len(p) /\ Len(F) = 2 + Len(p)
        BY <3>1, FrameHead DEF F
      <4>2. DataStart(B) = 3 /\ DataLen(B) = Len(p)
        BY <2>1, <2>2, <2>3, <3>1, <4>1 DEF DataStart, DataLen
      <4> QED
        BY <2>1, <4>1, <4>2
    <3>2. CASE ~(F[1] >= Half)
      <4>1. F[1] = Len(p) /\ Len(F) = 1 + Len(p)
        BY <3>2, FrameHead DEF F
      <4>2. DataStart(B) = 2 /\ DataLen(B) = Len(p)
        BY <2>3, <3>2, <4>1 DEF DataStart, DataLen
      <4> QED
        BY <2>1, <4>1, <4>2
    <3> QED
      BY <3>1, <3>2
  <2>5. Len(h) = Len(Units(F))
    BY <1>3, <2>1, <2>4
  <2>6. Len(t) = 0
    BY <1>3, <2>5
  <2> QED
    BY <2>6
<1> QED
  BY <1>4, <1>5

-----------------------------------------------------------------------------
(* Where the two sides are *)

LEMMA Peers ==
  /\ Peer("client") = "server" /\ Peer("server") = "client"
  /\ "client" \in Nodes /\ "server" \in Nodes
  /\ \A n \in Nodes : Peer(n) \in Nodes /\ Peer(n) # n /\ Peer(Peer(n)) = n
                      /\ \A m \in Nodes : m = n \/ m = Peer(n)
BY DEF Peer, Nodes

\* A data port that is cleared does not raise Ctl2, one that shows the Ctl2 bit
\* does.
LEMMA Ctl2Bit ==
  ASSUME NEW n \in Nodes
  PROVE  /\ data[Peer(n)] = 0 => ~Ctl2Hi(n)
         /\ data[Peer(n)] = CTL2 => Ctl2Hi(n)
         /\ data'[Peer(n)] = CTL2 => Ctl2Hi(n)'
<1>1. 0 % Nib = 0 /\ CTL2 % Nib = CTL2
  BY Sizes, ModSame
<1> QED
  BY <1>1, Sizes DEF Ctl2Hi

\* A side that writes a unit does so with a peer that reads it.
LEMMA WriterWhere ==
  ASSUME IInv, NEW w \in Nodes,
         \/ pc[w] \in {"write", "raise1", "wait2lo", "lower1"}
         \/ pc[w] = "wait2" /\ Ctl2Hi(w)
  PROVE  Moving(w)
<1>1. w = "client" \/ w = "server"
  BY DEF Nodes
<1>2. ASSUME pc[w] = "wait2" PROVE ~(pc[Peer(w)] \in {"exec", "wait1lo"})
  BY <1>2, Ctl2Bit, Peers DEF IInv, Outputs
<1> QED
  BY <1>1, <1>2, Peers DEF IInv, Situation, Moving, Handshake, Idle, Asking, Awaiting,
       Answered, Over, Ahead, Performing, Ready

\* A side that reads a unit does so from a peer that writes it.
LEMMA ReaderWhere ==
  ASSUME IInv, NEW r \in Nodes,
         \/ pc[r] \in {"read", "lower2"}
         \/ pc[r] = "wait1" /\ Ctl1Hi(r)
  PROVE  Moving(Peer(r)) /\ pc[Peer(r)] = "wait2lo"
<1>1. r = "client" \/ r = "server"
  BY DEF Nodes
<1>2. ASSUME pc[r] = "wait1" PROVE pc[Peer(r)] \in {"wait2lo", "lower1"}
  BY <1>2, Peers DEF IInv, Outputs, Ctl1Hi
<1> QED
  BY <1>1, <1>2, Peers DEF IInv, Situation, Moving, Handshake, Idle, Asking, Awaiting,
       Answered, Over, Ahead, Performing, Ready

\* A packet sent is one whose length the header can say.
LEMMA SentFits ==
  ASSUME IInv, NEW w \in Nodes, NEW i \in 1..Len(sent[w])
  PROVE  sent[w][i] \in Seq(Byte) /\ Len(sent[w][i]) < Half * Base
<1> DEFINE limit == Half * Base
<1>1. \A k \in 1..Len(sent[w]) : Len(sent[w][k]) < limit
  BY DEF IInv, Delivered
<1> HIDE DEF limit
<1>2. sent[w][i] \in Seq(Byte)
  BY ElementOfSeq DEF IInv, TypeOK
<1>3. Len(sent[w][i]) < limit
  BY <1>1
<1> QED
  BY <1>2, <1>3 DEF limit

\* What a step that touches no packet and no unit keeps.
LEMMA Kept ==
  ASSUME UNCHANGED <<CableType, todo, have, sent, got>>, NEW w \in Nodes
  PROVE  /\ Left(w)' = Left(w) /\ Current(w)' = Current(w)
         /\ Quiet(w)' <=> Quiet(w)
         /\ WantsIt' <=> WantsIt
         /\ (Taken(w)' <=> Taken(w)) => (Under(w)' <=> Under(w))
         /\ Over(w) /\ pc'[Peer(w)] = "wait1lo" => Over(w)'
         /\ Ahead(w) /\ pc'[Peer(w)] = "wait1lo" /\ pc'[w] = "wait2" => Ahead(w)'
         /\ Delivered => Delivered'
<1>1. Left(w)' = Left(w) /\ Current(w)' = Current(w) /\ (Quiet(w)' <=> Quiet(w))
  BY DEF Left, Current, Quiet
<1>2. WantsIt' <=> WantsIt
  BY DEF WantsIt
<1>3. (Taken(w)' <=> Taken(w)) => (Under(w)' <=> Under(w))
  BY DEF Under, Current, Left, Rest, Units, Wide
<1>4. Over(w) /\ pc'[Peer(w)] = "wait1lo" => Over(w)'
  BY DEF Over, Current, Left, Units, Wide
<1>5. Ahead(w) /\ pc'[Peer(w)] = "wait1lo" /\ pc'[w] = "wait2" => Ahead(w)'
  BY DEF Ahead, Current, Left, Units, Wide
<1>6. Delivered => Delivered'
  BY DEF Delivered
<1> QED
  BY <1>1, <1>2, <1>3, <1>4, <1>5, <1>6

-----------------------------------------------------------------------------
(* The invariant *)

\* A step of a unit's handshake.
LEMMA MovingKept ==
  ASSUME UNCHANGED <<CableType, todo, have, sent, got>>, NEW w \in Nodes,
         Moving(w), Taken(w)' <=> Taken(w), Handshake(w)'
  PROVE  Moving(w)'
<1>1. Under(w)'
  BY Kept DEF Moving
<1>2. Quiet(Peer(w))'
  BY Kept, Peers DEF Moving
<1> QED
  BY <1>1, <1>2 DEF Moving

LEMMA RaiseCtl2Keeps ==
  ASSUME IInv, NEW r \in Nodes, RaiseCtl2(r)
  PROVE  IInv'
<1> DEFINE w == Peer(r)
<1>1. UNCHANGED <<CableType, todo, have, sent, got>> /\ pc[r] = "raise2"
  BY DEF RaiseCtl2
<1>2. /\ pc' = [pc EXCEPT ![r] = "wait1"] /\ data' = [data EXCEPT ![r] = CTL2]
      /\ ctl1' = ctl1 \/ ctl1' = [ctl1 EXCEPT ![r] = FALSE]
  BY DEF RaiseCtl2, Goto, OutData
<1>3. TypeOK'
  <2>1. CTL2 \in Unit
    BY Sizes DEF Unit, Byte
  <2> QED
    BY <1>1, <1>2, <2>1 DEF IInv, TypeOK, Reading, Unit, Wide
<1>4. Outputs'
  BY <1>1, <1>2 DEF IInv, TypeOK, Outputs
<1>5. Delivered'
  BY <1>1, Kept DEF IInv
<1>6. Situation'
  <2>1. CASE Moving(w)
    <3>1. Taken(w)' <=> Taken(w)
      BY <1>1, <1>2, Peers DEF Taken, IInv, TypeOK
    <3>2. Ctl2Hi(w)'
      BY <1>2, Ctl2Bit, Peers DEF IInv, TypeOK
    <3>3. pc[w] \in {"wait2", "write", "raise1", "wait2lo"}
      BY <1>1, <2>1, Peers DEF Moving, Handshake
    <3>4. Handshake(w)'
      BY <1>2, <3>2, <3>3, Peers DEF Handshake, IInv, TypeOK, Ready
    <3>5. Moving(w)'
      BY <1>1, <2>1, <3>1, <3>4, Peers, MovingKept
    <3> QED
      BY <3>5, Peers DEF Situation, Nodes
  <2>2. CASE ~Moving(w)
    <3>1. ~Moving(r)
      BY <1>1, Peers DEF Moving, Handshake
    <3>2. CASE r = "client"
      <4>1. Awaiting
        BY <1>1, <2>2, <3>1, <3>2, Peers DEF IInv, Situation, Idle, Asking, Answered, Over
      <4>2. Awaiting'
        BY <1>1, <1>2, <3>2, <4>1, Kept, Peers DEF IInv, TypeOK, Awaiting, Over, Ready, Performing
      <4> QED
        BY <4>2 DEF Situation
    <3>3. CASE r = "server"
      <4>1. Idle \/ Answered
        BY <1>1, <2>2, <3>1, <3>3, Peers DEF IInv, Situation, Asking, Awaiting, Ahead, Over, Performing
      <4>2. Idle' \/ Answered'
        BY <1>1, <1>2, <3>3, <4>1, Kept, Peers
           DEF IInv, TypeOK, Idle, Answered, Over, Ready, Performing
      <4> QED
        BY <4>2 DEF Situation
    <3> QED
      BY <3>2, <3>3 DEF Nodes
  <2> QED
    BY <2>1, <2>2
<1> QED
  BY <1>3, <1>4, <1>5, <1>6 DEF IInv

LEMMA SeeCtl1HiKeeps ==
  ASSUME IInv, NEW r \in Nodes, SeeCtl1Hi(r)
  PROVE  IInv'
<1> DEFINE w == Peer(r)
<1>1. UNCHANGED <<CableType, data, ctl1, todo, have, sent, got>> /\ pc[r] = "wait1"
  BY DEF SeeCtl1Hi
<1>2. pc' = [pc EXCEPT ![r] = "read"]
  BY DEF SeeCtl1Hi, Goto
<1>3. TypeOK'
  BY <1>1, <1>2 DEF IInv, TypeOK, Reading, Unit, Wide
<1>4. Outputs'
  BY <1>1, <1>2 DEF IInv, TypeOK, Outputs
<1>5. Delivered'
  BY <1>1, Kept DEF IInv
<1>6. Moving(w) /\ pc[w] = "wait2lo"
  BY <1>1, ReaderWhere DEF SeeCtl1Hi
<1>7. (Taken(w)' <=> Taken(w)) /\ Handshake(w)'
  BY <1>1, <1>2, <1>6, Peers DEF Taken, Handshake, IInv, TypeOK
<1>8. Moving(w)'
  BY <1>1, <1>6, <1>7, Peers, MovingKept
<1> QED
  BY <1>3, <1>4, <1>5, <1>8, Peers DEF IInv, Situation, Nodes

\* What the reader takes from the port is the unit the writer is at.
LEMMA ReadIsHead ==
  ASSUME IInv, NEW r \in Nodes, pc[r] = "read"
  PROVE  /\ pc[Peer(r)] = "wait2lo" /\ Moving(Peer(r))
         /\ ReadData(r) = Head(todo[Peer(r)]) /\ ReadData(r) \in Unit
<1> DEFINE w == Peer(r)
<1>1. Moving(w) /\ pc[w] = "wait2lo"
  BY ReaderWhere
<1>2. data[w] = Head(todo[w]) /\ data[w] \in Unit
  BY <1>1, Peers DEF IInv, Outputs, TypeOK
<1>3. ~Wide => data[w] % Nib = data[w]
  BY <1>2, Sizes, ModSame DEF Unit
<1> QED
  BY <1>1, <1>2, <1>3 DEF ReadData

LEMMA ReadKeeps ==
  ASSUME IInv, NEW r \in Nodes, Read(r)
  PROVE  IInv'
<1> DEFINE w == Peer(r)
           u == Head(todo[w])
<1>1. UNCHANGED <<CableType, data, ctl1, todo, sent, got>> /\ pc[r] = "read"
  BY DEF Read
<1>2. /\ Moving(w) /\ pc[w] = "wait2lo" /\ u \in Unit /\ w \in Nodes /\ w # r /\ Peer(w) = r
  BY <1>1, ReadIsHead, Peers
<1>3. pc' = [pc EXCEPT ![r] = "lower2"] /\ have' = [have EXCEPT ![r] = Append(have[r], u)]
  BY <1>1, ReadIsHead DEF Read, Goto
<1>4. TypeOK'
  <2>1. Append(have[r], u) \in Seq(Unit)
    BY <1>2 DEF IInv, TypeOK
  <2>2. have' \in [Nodes -> Seq(Unit)]
    BY <1>3, <2>1 DEF IInv, TypeOK
  <2> QED
    BY <1>1, <1>3, <2>2 DEF IInv, TypeOK, Reading, Unit, Wide
<1>5. Outputs'
  BY <1>1, <1>3 DEF IInv, TypeOK, Outputs
<1>6. Delivered'
  BY <1>1 DEF IInv, Delivered
<1>7. Handshake(w)'
  BY <1>2, <1>1, <1>3 DEF Handshake, IInv, TypeOK
<1>8. Under(w)'
  <2>1. ~Taken(w) /\ Taken(w)'
    BY <1>1, <1>2, <1>3 DEF Taken, IInv, TypeOK
  <2>2. Rest(w) = todo[w] /\ Rest(w)' = Tail(todo[w])
    BY <1>1, <2>1 DEF Rest
  <2>3. Left(w) = 1 /\ todo[w] # <<>> /\ have[r] \o todo[w] = Units(Frame(Current(w)))
    BY <1>2, <2>2 DEF Moving, Under
  <2>4. Append(have[r], u) \o Tail(todo[w]) = have[r] \o todo[w]
    <3>1. have[r] \in Seq(Unit) /\ todo[w] \in Seq(Unit)
      BY <1>2 DEF IInv, TypeOK
    <3> QED
      BY <2>3, <3>1, MoveHead
  <2>5. have'[r] \o Rest(w)' = Units(Frame(Current(w)))
    BY <1>3, <2>2, <2>3, <2>4 DEF IInv, TypeOK
  <2>6. Left(w)' = 1 /\ todo'[w] # <<>>
    BY <1>1, <2>3 DEF Left
  <2>7. Units(Frame(Current(w)))' = Units(Frame(Current(w)))
    BY <1>1 DEF Current, Units, Wide
  <2> QED
    BY <1>2, <2>5, <2>6, <2>7 DEF Under
<1>9. Quiet(r)'
  BY <1>1, <1>2, <1>3 DEF Moving, Quiet, Left, IInv, TypeOK
<1> QED
  BY <1>2, <1>4, <1>5, <1>6, <1>7, <1>8, <1>9 DEF IInv, Situation, Moving, Nodes

LEMMA LowerCtl2Keeps ==
  ASSUME IInv, NEW r \in Nodes, LowerCtl2(r)
  PROVE  IInv'
<1> DEFINE w == Peer(r)
<1>1. UNCHANGED <<CableType, todo, have, sent, got>> /\ pc[r] = "lower2"
  BY DEF LowerCtl2
<1>2. /\ pc' = [pc EXCEPT ![r] = "wait1lo"] /\ data' = [data EXCEPT ![r] = 0]
      /\ ctl1' = ctl1 \/ ctl1' = [ctl1 EXCEPT ![r] = FALSE]
  BY DEF LowerCtl2, Goto, OutData
<1>3. TypeOK'
  <2>1. 0 \in Unit
    BY Sizes DEF Unit, Byte
  <2> QED
    BY <1>1, <1>2, <2>1 DEF IInv, TypeOK, Reading, Unit, Wide
<1>4. Outputs'
  BY <1>1, <1>2 DEF IInv, TypeOK, Outputs
<1>5. Delivered'
  BY <1>1, Kept DEF IInv
<1>6. Moving(w) /\ pc[w] = "wait2lo"
  BY <1>1, ReaderWhere
<1>7. (Taken(w)' <=> Taken(w)) /\ Handshake(w)'
  BY <1>1, <1>2, <1>6, Peers DEF Taken, Handshake, IInv, TypeOK
<1>8. Moving(w)'
  BY <1>1, <1>6, <1>7, Peers, MovingKept
<1> QED
  BY <1>3, <1>4, <1>5, <1>8, Peers DEF IInv, Situation, Nodes

LEMMA SeeCtl2HiKeeps ==
  ASSUME IInv, NEW w \in Nodes, SeeCtl2Hi(w)
  PROVE  IInv'
<1>1. UNCHANGED <<CableType, data, ctl1, todo, have, sent, got>> /\ pc[w] = "wait2"
  BY DEF SeeCtl2Hi
<1>2. pc' = [pc EXCEPT ![w] = "write"]
  BY DEF SeeCtl2Hi, Goto
<1>3. TypeOK'
  BY <1>1, <1>2 DEF IInv, TypeOK, Writing, Unit, Wide
<1>4. Outputs'
  BY <1>1, <1>2 DEF IInv, TypeOK, Outputs
<1>5. Delivered'
  BY <1>1, Kept DEF IInv
<1>6. Moving(w) /\ Ctl2Hi(w) /\ Ctl2Hi(w)'
  BY <1>1, WriterWhere DEF SeeCtl2Hi, Ctl2Hi
<1>7. pc[Peer(w)] # "wait1lo"
  BY <1>6, Ctl2Bit, Peers DEF IInv, Outputs
<1>8. (Taken(w)' <=> Taken(w)) /\ Handshake(w)'
  BY <1>1, <1>2, <1>6, <1>7, Peers DEF Taken, Moving, Handshake, IInv, TypeOK
<1>9. Moving(w)'
  BY <1>1, <1>6, <1>8, MovingKept
<1> QED
  BY <1>3, <1>4, <1>5, <1>9 DEF IInv, Situation, Nodes

\* A writer past the first look at Ctl2 still sees it high.
LEMMA WriteKeeps ==
  ASSUME IInv, NEW w \in Nodes, Write(w)
  PROVE  IInv'
<1>1. UNCHANGED <<CableType, todo, have, sent, got>> /\ pc[w] = "write"
  BY DEF Write
<1>2. /\ pc' = [pc EXCEPT ![w] = IF CableType = "LAPLINK" THEN "wait2lo" ELSE "raise1"]
      /\ data' = [data EXCEPT ![w] = Head(todo[w])]
      /\ ctl1' = IF CableType = "LAPLINK" THEN [ctl1 EXCEPT ![w] = TRUE] ELSE ctl1
  BY DEF Write, Goto, OutData
<1>3. Moving(w) /\ todo[w] # <<>> /\ Head(todo[w]) \in Unit
  <2>1. Moving(w) /\ todo[w] # <<>>
    BY <1>1, WriterWhere DEF Moving, Under
  <2> QED
    BY <2>1 DEF IInv, TypeOK
<1>4. TypeOK'
  BY <1>1, <1>2, <1>3 DEF IInv, TypeOK, Writing, Unit, Wide
<1>5. Outputs'
  BY <1>1, <1>2 DEF IInv, TypeOK, Outputs
<1>6. Delivered'
  BY <1>1, Kept DEF IInv
<1>7. pc[Peer(w)] \in Ready /\ Ctl2Hi(w) /\ Ctl2Hi(w)'
  <2>1. pc[Peer(w)] \in Ready /\ Ctl2Hi(w)
    BY <1>1, <1>3 DEF Moving, Handshake
  <2> QED
    BY <1>2, <2>1, Peers DEF Ctl2Hi, IInv, TypeOK
<1>8. (Taken(w)' <=> Taken(w)) /\ Handshake(w)'
  BY <1>1, <1>2, <1>7, Peers DEF Taken, Ready, Handshake, IInv, TypeOK
<1>9. Moving(w)'
  BY <1>1, <1>3, <1>8, MovingKept
<1> QED
  BY <1>4, <1>5, <1>6, <1>9 DEF IInv, Situation, Nodes

LEMMA RaiseCtl1Keeps ==
  ASSUME IInv, NEW w \in Nodes, RaiseCtl1(w)
  PROVE  IInv'
<1>1. UNCHANGED <<CableType, data, todo, have, sent, got>> /\ pc[w] = "raise1"
  BY DEF RaiseCtl1
<1>2. pc' = [pc EXCEPT ![w] = "wait2lo"] /\ ctl1' = [ctl1 EXCEPT ![w] = TRUE]
  BY DEF RaiseCtl1, Goto
<1>3. Moving(w)
  BY <1>1, WriterWhere
<1>4. TypeOK'
  BY <1>1, <1>2 DEF IInv, TypeOK, Writing, Unit, Wide
<1>5. Outputs'
  BY <1>1, <1>2 DEF IInv, TypeOK, Outputs
<1>6. Delivered'
  BY <1>1, Kept DEF IInv
<1>7. pc[Peer(w)] \in Ready /\ Ctl2Hi(w)'
  BY <1>1, <1>3 DEF Moving, Handshake, Ctl2Hi
<1>8. (Taken(w)' <=> Taken(w)) /\ Handshake(w)'
  BY <1>1, <1>2, <1>7, Peers DEF Taken, Ready, Handshake, IInv, TypeOK
<1>9. Moving(w)'
  BY <1>1, <1>3, <1>8, MovingKept
<1> QED
  BY <1>4, <1>5, <1>6, <1>9 DEF IInv, Situation, Nodes

\* Ctl2 is low only when the reader has the unit.
LEMMA SeeCtl2LoKeeps ==
  ASSUME IInv, NEW w \in Nodes, SeeCtl2Lo(w)
  PROVE  IInv'
<1>1. UNCHANGED <<CableType, data, ctl1, todo, have, sent, got>> /\ pc[w] = "wait2lo"
  BY DEF SeeCtl2Lo
<1>2. pc' = [pc EXCEPT ![w] = "lower1"] /\ ~Ctl2Hi(w)
  BY DEF SeeCtl2Lo, Goto
<1>3. Moving(w)
  BY <1>1, WriterWhere
<1>4. TypeOK'
  BY <1>1, <1>2 DEF IInv, TypeOK, Writing, Unit, Wide
<1>5. Outputs'
  BY <1>1, <1>2 DEF IInv, TypeOK, Outputs
<1>6. Delivered'
  BY <1>1, Kept DEF IInv
<1>7. pc[Peer(w)] = "wait1lo"
  <2>1. pc[Peer(w)] \notin {"read", "lower2"}
    BY <1>2, Ctl2Bit, Peers DEF IInv, Outputs
  <2> QED
    BY <1>1, <1>2, <1>3, <2>1 DEF Moving, Handshake
<1>8. (Taken(w)' <=> Taken(w)) /\ Handshake(w)'
  BY <1>1, <1>2, <1>7, Peers DEF Taken, Handshake, IInv, TypeOK
<1>9. Moving(w)'
  BY <1>1, <1>3, <1>8, MovingKept
<1> QED
  BY <1>4, <1>5, <1>6, <1>9 DEF IInv, Situation, Nodes

\* The writer has been heard; after the last unit it returns to its caller.
LEMMA LowerCtl1Keeps ==
  ASSUME IInv, NEW w \in Nodes, LowerCtl1(w)
  PROVE  IInv'
<1> DEFINE r == Peer(w)
           next == IF Len(todo[w]) > 1 THEN "wait2" ELSE AfterPut(w)
<1>1. UNCHANGED <<CableType, have, sent, got>> /\ pc[w] = "lower1"
  BY DEF LowerCtl1
<1>2. /\ pc' = [pc EXCEPT ![w] = next] /\ ctl1' = [ctl1 EXCEPT ![w] = FALSE]
      /\ data' = data \/ data' = [data EXCEPT ![w] = 0]
      /\ todo' = [todo EXCEPT ![w] = Tail(todo[w])]
  BY DEF LowerCtl1, Goto
<1>3. next \in {"wait2", "app", "raise2"} /\ (next = "app" => w = "client")
  BY DEF AfterPut
<1>4. Moving(w) /\ r \in Nodes /\ r # w /\ Peer(r) = w
  BY <1>1, WriterWhere, Peers
<1>5. pc[r] = "wait1lo"
  BY <1>1, <1>4 DEF Moving, Handshake
<1> HIDE DEF next
<1>6. /\ Left(w) = 1 /\ todo[w] # <<>> /\ todo[w] \in Seq(Unit)
      /\ have[r] \o Tail(todo[w]) = Units(Frame(Current(w)))
  BY <1>1, <1>4, <1>5 DEF Moving, Under, Rest, Taken, IInv, TypeOK
<1>7. TypeOK'
  <2>1. 0 \in Unit
    BY Sizes DEF Unit, Byte
  <2>2. Tail(todo[w]) \in Seq(Unit)
    BY <1>6
  <2> QED
    BY <1>1, <1>2, <1>3, <2>1, <2>2 DEF IInv, TypeOK, Writing, Reading, Unit, Wide
<1>8. Outputs'
  BY <1>1, <1>2, <1>3 DEF IInv, TypeOK, Outputs
<1>9. Delivered'
  BY <1>1 DEF IInv, Delivered
<1>10. /\ Left(w)' = 1 /\ todo'[w] = Tail(todo[w]) /\ pc'[w] = next /\ pc'[r] = "wait1lo"
       /\ have'[r] \o todo'[w] = Units(Frame(Current(w)))'
       /\ Current(w)' = Current(w)
  <2>1. Units(Frame(Current(w)))' = Units(Frame(Current(w))) /\ Current(w)' = Current(w)
    BY <1>1 DEF Current, Units, Wide
  <2> QED
    BY <1>1, <1>2, <1>4, <1>5, <1>6, <2>1 DEF Left, IInv, TypeOK
<1>11. Quiet(r)'
  BY <1>1, <1>2, <1>4 DEF Moving, Quiet, Left, IInv, TypeOK
<1>12. CASE Len(todo[w]) > 1
  <2>1. next = "wait2"
    BY <1>12 DEF next
  <2>2. todo'[w] # <<>>
    <3>1. Tail(todo[w]) # <<>>
      BY <1>6, <1>12, TailEmpty
    <3> QED
      BY <1>10, <3>1
  <2>3. ~Taken(w)'
    BY <1>10, <2>1 DEF Taken
  <2>4. Under(w)'
    BY <1>10, <2>2, <2>3 DEF Under, Rest
  <2>5. Handshake(w)'
    BY <1>10, <2>1 DEF Handshake
  <2> QED
    BY <1>7, <1>8, <1>9, <1>11, <2>4, <2>5 DEF IInv, Situation, Moving, Nodes
<1>13. CASE ~(Len(todo[w]) > 1)
  <2>1. todo'[w] = <<>>
    BY <1>6, <1>10, <1>13
  <2>2. have'[r] = Units(Frame(Current(w)))'
    <3>1. have'[r] \in Seq(Unit')
      BY <1>4, <1>7 DEF TypeOK
    <3> QED
      BY <1>10, <2>1, <3>1, ConcatEmptySeq
  <2>3. Over(w)'
    BY <1>10, <2>1, <2>2 DEF Over
  <2>4. next = AfterPut(w)
    BY <1>13 DEF next
  <2>5. CASE w = "client"
    <3>1. Last(sent[w]) = Current(w)
      BY <1>6, <1>4 DEF Left, Current, Last, IInv, TypeOK
    <3>2. CASE Wants(Current(w))
      <4>1. Awaiting'
        BY <1>10, <1>11, <2>3, <2>4, <2>5, <3>1, <3>2, Peers DEF AfterPut, Awaiting, Ready, Wants
      <4> QED
        BY <1>7, <1>8, <1>9, <4>1 DEF IInv, Situation
    <3>3. CASE ~Wants(Current(w))
      <4>1. Idle'
        BY <1>10, <1>11, <2>3, <2>4, <2>5, <3>1, <3>3, Peers DEF AfterPut, Idle, Wants
      <4> QED
        BY <1>7, <1>8, <1>9, <4>1 DEF IInv, Situation
    <3> QED
      BY <3>2, <3>3
  <2>6. CASE w = "server"
    <3>1. Answered'
      BY <1>10, <1>11, <2>3, <2>4, <2>6, Peers DEF AfterPut, Answered, Ready
    <3> QED
      BY <1>7, <1>8, <1>9, <3>1 DEF IInv, Situation
  <2> QED
    BY <2>5, <2>6 DEF Nodes
<1> QED
  BY <1>12, <1>13

\* Giving the link a packet: types, what has been delivered, and, when nothing
\* is under way from this side, a packet under way afterwards.
LEMMA RemotePutKeeps ==
  ASSUME IInv, NEW n \in Nodes, NEW p \in Seq(Byte), Len(p) < Half * Base,
         RemotePut(n, p), Left(n) >= 0
  PROVE  /\ TypeOK' /\ Delivered'
         /\ Left(n)' = Left(n) + 1
         /\ pc'[n] = "wait2" /\ pc'[Peer(n)] = pc[Peer(n)]
         /\ todo'[n] = Units(Frame(p)) /\ Last(sent'[n]) = p
         /\ Units(Frame(Last(sent[n])))' = Units(Frame(p))
         /\ Quiet(Peer(n)) => Quiet(Peer(n))'
         /\ Quiet(n) => Under(n)'
         /\ Left(n) = 1 => Current(n)' = Current(n)
<1> DEFINE m == Peer(n)
           S == sent[n]
           g == Len(got[m])
<1>1. m \in Nodes /\ m # n /\ Peer(m) = n /\ \A k \in Nodes : k = n \/ k = m
  BY Peers
<1>2. /\ UNCHANGED <<CableType, data, ctl1, have, got>>
      /\ sent' = [sent EXCEPT ![n] = Append(S, p)]
      /\ todo' = [todo EXCEPT ![n] = Units(Frame(p))]
      /\ pc' = [pc EXCEPT ![n] = "wait2"]
  BY DEF RemotePut, Goto
<1>3. Units(Frame(p)) \in Seq(Unit) /\ Units(Frame(p)) # <<>>
  <2>1. Frame(p) \in Seq(Byte) /\ Len(Frame(p)) >= 1
    BY FrameTypes
  <2>2. Units(Frame(p)) \in Seq(Unit) /\ Len(Units(Frame(p))) >= 1
    BY <2>1, UnitsTypes
  <2> QED
    BY <2>2, EmptySeq
<1>4. TypeOK'
  <2>1. sent' \in [Nodes -> Seq(Seq(Byte))]
    BY <1>2 DEF IInv, TypeOK
  <2> QED
    BY <1>2, <1>3, <2>1 DEF IInv, TypeOK, Writing, Unit, Wide
<1>5. /\ S \in Seq(Seq(Byte)) /\ g \in Nat /\ got[m] \in Seq(Seq(Byte))
      /\ sent'[n] = Append(S, p) /\ sent'[m] = sent[m]
      /\ todo'[n] = Units(Frame(p)) /\ todo'[m] = todo[m]
      /\ pc'[n] = "wait2" /\ pc'[m] = pc[m]
  BY <1>1, <1>2 DEF IInv, TypeOK
<1>6. /\ Len(sent'[n]) = Len(S) + 1 /\ Last(sent'[n]) = p
      /\ sent'[n][Len(S) + 1] = p
      /\ \A i \in 1..Len(S) : sent'[n][i] = S[i]
  BY <1>5 DEF Last
<1>7. Len(S) >= g
  BY <1>5 DEF Left
<1>8. Delivered'
  <2> DEFINE limit == Half * Base
  <2>1. /\ \A i \in 1..Len(S) : Len(S[i]) < limit
        /\ \A i \in 1..g : got[m][i] = S[i]
        /\ Len(p) < limit
    BY DEF IInv, Delivered
  <2> HIDE DEF limit
  <2>2. ASSUME NEW i \in 1..Len(sent'[n]) PROVE Len(sent'[n][i]) < limit
    <3>1. i \in 1..Len(S) \/ i = Len(S) + 1
      BY <1>5, <1>6
    <3> QED
      BY <1>6, <2>1, <3>1
  <2>3. ASSUME NEW i \in 1..g PROVE got[m][i] = sent'[n][i]
    <3>1. i \in 1..Len(S)
      BY <1>5, <1>7
    <3> QED
      BY <1>6, <2>1, <3>1
  <2>4. got' = got
    BY <1>2
  <2> QED
    BY <1>1, <1>5, <2>2, <2>3, <2>4 DEF IInv, Delivered, limit
<1>9. Left(n)' = Left(n) + 1
  BY <1>2, <1>5, <1>6 DEF Left
<1>10. Quiet(m) => Quiet(m)'
  BY <1>1, <1>2, <1>5 DEF Quiet, Left
<1>11. Units(Frame(p))' = Units(Frame(p))
  BY <1>2 DEF Units, Wide
<1>12. ~Taken(n)' /\ Rest(n)' = Units(Frame(p))
  BY <1>5 DEF Taken, Rest
<1>13. ASSUME Quiet(n) PROVE Under(n)'
  <2>1. Left(n) = 0 /\ have[m] = <<>>
    BY <1>13 DEF Quiet
  <2>2. Len(S) = g
    BY <1>5, <2>1 DEF Left
  <2>3. Current(n)' = p
    BY <1>2, <1>6, <2>2 DEF Current
  <2>4. have'[m] \o Rest(n)' = Units(Frame(p))
    BY <1>2, <1>3, <1>12, <2>1, ConcatEmptySeq
  <2>5. Units(Frame(Current(n)))' = Units(Frame(p))
    BY <1>11, <2>3
  <2> QED
    BY <1>3, <1>5, <1>9, <2>1, <2>4, <2>5 DEF Under
<1>14. Left(n) = 1 => Current(n)' = Current(n)
  BY <1>2, <1>5, <1>6 DEF Current, Left
<1>15. Units(Frame(Last(sent[n])))' = Units(Frame(p))
  BY <1>6, <1>11
<1> QED
  BY <1>4, <1>5, <1>6, <1>8, <1>9, <1>10, <1>13, <1>14, <1>15

LEMMA RequestKeeps ==
  ASSUME IInv, Request
  PROVE  IInv'
<1> DEFINE c == "client"
           s == "server"
<1>1. PICK p \in Requests : RemotePut(c, p)
  BY DEF Request
<1>2. pc[c] = "app" /\ p \in Seq(Byte) /\ Len(p) < Half * Base
  BY ParConstants DEF Request
<1>3. UNCHANGED <<CableType, have, got, data, ctl1>> /\ pc' = [pc EXCEPT ![c] = "wait2"]
      /\ todo' = [todo EXCEPT ![c] = Units(Frame(p))]
  BY <1>1 DEF RemotePut, Goto
<1>4. Idle
  BY <1>2, Peers DEF IInv, Situation, Moving, Handshake, Asking, Awaiting, Answered, Ready, Over
<1>5. Left(c) >= 0
  BY <1>4 DEF Idle, Quiet, Over
<1>6. /\ TypeOK' /\ Delivered' /\ Left(c)' = Left(c) + 1 /\ Quiet(s)'
      /\ pc'[c] = "wait2" /\ pc'[s] = pc[s] /\ todo'[c] = Units(Frame(p))
      /\ Units(Frame(Last(sent[c])))' = Units(Frame(p))
      /\ Quiet(c) => Under(c)'
      /\ Left(c) = 1 => Current(c)' = Current(c)
  BY <1>1, <1>2, <1>4, <1>5, Peers, RemotePutKeeps DEF Idle
<1>7. Outputs'
  BY <1>2, <1>3 DEF IInv, TypeOK, Outputs
<1>8. Situation'
  <2>1. CASE Quiet(c) /\ pc[s] \in Ready
    <3>1. Handshake(c)'
      BY <1>6, <2>1, Peers DEF Handshake, Ready
    <3>2. Moving(c)'
      BY <1>6, <2>1, <3>1, Peers DEF Moving
    <3> QED
      BY <3>2 DEF Situation
  <2>2. CASE Quiet(c) /\ Performing /\ ~WantsIt
    <3>1. Performing' /\ ~WantsIt'
      BY <1>3, <1>6, <2>2 DEF Performing, WantsIt
    <3>2. Asking'
      BY <1>6, <2>2, <3>1 DEF Asking
    <3> QED
      BY <3>2 DEF Situation
  <2>3. CASE Over(c) /\ ~Wants(Current(c))
    <3>1. Left(c) = 1 /\ pc[s] = "wait1lo" /\ have[s] = Units(Frame(Current(c)))
      BY <2>3, Peers DEF Over
    <3>2. Current(c)' = Current(c)
      BY <1>6, <3>1
    <3>3. Units(Frame(Current(c)))' = Units(Frame(Current(c)))
      BY <1>3, <3>2 DEF Units, Wide
    <3>4. Ahead(c)'
      BY <1>3, <1>6, <3>1, <3>3, Peers DEF Ahead
    <3>5. ~Wants(Current(c))'
      BY <2>3, <3>2 DEF Wants
    <3>6. Asking'
      BY <1>6, <3>4, <3>5 DEF Asking
    <3> QED
      BY <3>6 DEF Situation
  <2> QED
    BY <1>4, <2>1, <2>2, <2>3 DEF Idle
<1> QED
  BY <1>6, <1>7, <1>8 DEF IInv

LEMMA AnswerKeeps ==
  ASSUME IInv, Answer
  PROVE  IInv'
<1> DEFINE c == "client"
           s == "server"
<1>1. PICK p \in Responses : RemotePut(s, p)
  BY DEF Answer
<1>2. /\ pc[s] = "exec" /\ Wants(Last(got[s]))
      /\ p \in Seq(Byte) /\ Len(p) < Half * Base
  BY ParConstants DEF Answer
<1>3. UNCHANGED <<CableType, have, got, data, ctl1>> /\ pc' = [pc EXCEPT ![s] = "wait2"]
      /\ todo' = [todo EXCEPT ![s] = Units(Frame(p))]
  BY <1>1 DEF RemotePut, Goto
<1>4. pc[c] \in Ready /\ Quiet(s) /\ Quiet(c)
  BY <1>2, Peers DEF IInv, Situation, Moving, Handshake, Idle, Asking, Awaiting, Answered,
                     Ready, Over, Ahead, WantsIt
<1>5. /\ TypeOK' /\ Delivered' /\ Quiet(c)' /\ Under(s)'
      /\ pc'[s] = "wait2" /\ pc'[c] = pc[c]
  BY <1>1, <1>2, <1>4, Peers, RemotePutKeeps DEF Quiet
<1>6. Outputs'
  BY <1>2, <1>3 DEF IInv, TypeOK, Outputs
<1>7. Handshake(s)'
  BY <1>4, <1>5, Peers DEF Handshake, Ready
<1>8. Moving(s)'
  BY <1>5, <1>7, Peers DEF Moving
<1> QED
  BY <1>5, <1>6, <1>8 DEF IInv, Situation

LEMMA PerformedKeeps ==
  ASSUME IInv, Performed
  PROVE  IInv'
<1> DEFINE c == "client"
           s == "server"
<1>1. UNCHANGED <<CableType, data, ctl1, todo, have, sent, got>> /\ pc[s] = "exec"
  BY DEF Performed
<1>2. pc' = [pc EXCEPT ![s] = "raise2"] /\ ~WantsIt
  BY DEF Performed, Goto, WantsIt
<1>3. TypeOK'
  BY <1>1, <1>2 DEF IInv, TypeOK, Reading, Unit, Wide
<1>4. Outputs'
  BY <1>1, <1>2 DEF IInv, TypeOK, Outputs
<1>5. Delivered'
  BY <1>1, Kept, Peers DEF IInv
<1>6. /\ pc[c] \in {"app", "wait2"} /\ Quiet(s)
      /\ pc[c] = "app" => Quiet(c)
      /\ pc[c] = "wait2" => Under(c)
  BY <1>1, <1>2, Peers DEF IInv, Situation, Moving, Handshake, Idle, Asking, Awaiting, Answered,
                           Ready, Over, Ahead
<1>7. pc'[c] = pc[c] /\ pc'[s] = "raise2" /\ Quiet(s)' /\ (Quiet(c)' <=> Quiet(c))
  BY <1>1, <1>2, <1>6, Peers, Kept DEF IInv, TypeOK
<1>8. CASE pc[c] = "app"
  <2>1. Idle'
    BY <1>6, <1>7, <1>8 DEF Idle, Ready
  <2> QED
    BY <1>3, <1>4, <1>5, <2>1 DEF IInv, Situation
<1>9. CASE pc[c] = "wait2"
  <2>1. (Taken(c)' <=> Taken(c)) /\ Handshake(c)'
    BY <1>7, <1>9, Peers DEF Taken, Handshake, Ready
  <2>2. Under(c)'
    BY <1>1, <1>6, <1>9, <2>1, Peers, Kept
  <2>3. Moving(c)'
    BY <1>7, <2>1, <2>2, Peers DEF Moving
  <2> QED
    BY <1>3, <1>4, <1>5, <2>3 DEF IInv, Situation
<1> QED
  BY <1>6, <1>8, <1>9

\* The reader has been heard too.  RemoteGet returns exactly when the writer has
\* nothing more to write of the packet, and returns what was sent.
LEMMA SeeCtl1LoKeeps ==
  ASSUME IInv, NEW r \in Nodes, SeeCtl1Lo(r)
  PROVE  IInv'
<1> DEFINE w == Peer(r)
           G == got[r]
           g == Len(G)
<1>1. w \in Nodes /\ w # r /\ Peer(w) = r /\ \A k \in Nodes : k = r \/ k = w
  BY Peers
<1>2. /\ UNCHANGED <<CableType, data, ctl1, todo, sent>>
      /\ pc[r] = "wait1lo" /\ pc[w] \notin {"wait2lo", "lower1"}
  BY <1>1 DEF SeeCtl1Lo, ReadOver, Ctl1Hi, IInv, Outputs
<1>3. /\ G \in Seq(Seq(Byte)) /\ g \in Nat /\ have[r] \in Seq(Unit) /\ todo[w] \in Seq(Unit)
      /\ sent[w] \in Seq(Seq(Byte)) /\ sent[r] \in Seq(Seq(Byte))
  BY <1>1 DEF IInv, TypeOK
<1>4. CASE Moving(w)
  <2>1. ~Taken(w) /\ Rest(w) = todo[w] /\ pc[w] = "wait2"
    BY <1>1, <1>2, <1>4 DEF Taken, Rest, Moving, Handshake, Ready
  <2>2. /\ Left(w) = 1 /\ todo[w] # <<>>
        /\ have[r] \o todo[w] = Units(Frame(Current(w)))
    BY <1>1, <1>4, <2>1 DEF Moving, Under
  <2>3. Current(w) \in Seq(Byte) /\ Len(Current(w)) < Half * Base
    <3>1. g + 1 \in 1..Len(sent[w])
      BY <1>1, <1>3, <2>2 DEF Left
    <3> QED
      BY <1>1, <3>1, SentFits DEF Current
  <2>4. ~IsPacket(have[r])
    BY <1>3, <2>2, <2>3, FrameEnd
  <2>5. pc' = [pc EXCEPT ![r] = "raise2"] /\ UNCHANGED <<have, got>>
    BY <2>4 DEF SeeCtl1Lo, ReadOver, Goto
  <2>6. TypeOK'
    BY <1>2, <2>5 DEF IInv, TypeOK, Reading, Unit, Wide
  <2>7. Outputs'
    BY <1>2, <2>5 DEF IInv, TypeOK, Outputs
  <2>8. Delivered'
    BY <1>2, <2>5, Kept DEF IInv
  <2>9. (Taken(w)' <=> Taken(w)) /\ Handshake(w)'
    BY <1>1, <2>1, <2>5 DEF Taken, Handshake, Ready, IInv, TypeOK
  <2>10. Moving(w)'
    BY <1>1, <1>2, <1>4, <2>5, <2>9, MovingKept
  <2> QED
    BY <1>1, <2>6, <2>7, <2>8, <2>10 DEF IInv, Situation, Nodes
<1>5. CASE ~Moving(w)
  <2>1. ~Moving(r)
    BY <1>1, <1>2 DEF Moving, Handshake
  <2>2. Over(w) \/ Ahead(w)
    BY <1>1, <1>2, <1>5, <2>1, Peers
       DEF IInv, Situation, Idle, Asking, Awaiting, Answered, Performing, Ready, Nodes
  <2>3. have[r] = Units(Frame(Current(w))) /\ Left(w) \in {1, 2}
    BY <1>1, <2>2 DEF Over, Ahead
  <2>4. Current(w) \in Seq(Byte) /\ Len(Current(w)) < Half * Base /\ g + 1 \in 1..Len(sent[w])
    <3>1. g + 1 \in 1..Len(sent[w])
      BY <1>1, <1>3, <2>3 DEF Left
    <3> QED
      BY <1>1, <3>1, SentFits DEF Current
  <2>5. IsPacket(have[r]) /\ Packet(have[r]) = Current(w)
    <3>1. have[r] \o <<>> = Units(Frame(Current(w))) /\ <<>> \in Seq(Unit)
      BY <1>3, <2>3, ConcatEmptySeq, EmptySeq
    <3> QED
      BY <1>3, <2>4, <3>1, FrameEnd
  <2>6. /\ got' = [got EXCEPT ![r] = Append(G, Current(w))]
        /\ have' = [have EXCEPT ![r] = <<>>]
        /\ pc' = [pc EXCEPT ![r] = AfterGet(r)]
    BY <2>5 DEF SeeCtl1Lo, ReadOver, Goto
  <2>7. AfterGet(r) \in {"app", "exec"}
    BY DEF AfterGet
  <2>8. TypeOK'
    <3>1. got' \in [Nodes -> Seq(Seq(Byte))]
      BY <2>4, <2>6 DEF IInv, TypeOK
    <3>2. have' \in [Nodes -> Seq(Unit)]
      BY <2>6, EmptySeq DEF IInv, TypeOK
    <3> QED
      BY <1>2, <2>6, <2>7, <3>1, <3>2 DEF IInv, TypeOK, Unit, Wide
  <2>9. Outputs'
    BY <1>2, <2>6, <2>7 DEF IInv, TypeOK, Outputs
  <2>10. /\ got'[r] = Append(G, Current(w)) /\ got'[w] = got[w]
         /\ have'[r] = <<>> /\ have'[w] = have[w]
         /\ pc'[r] = AfterGet(r) /\ pc'[w] = pc[w]
    BY <1>1, <2>6 DEF IInv, TypeOK
  <2>11. /\ Len(got'[r]) = g + 1 /\ got'[r][g + 1] = Current(w)
         /\ Last(got'[r]) = Current(w) /\ got'[r] # <<>>
         /\ \A i \in 1..g : got'[r][i] = G[i]
    <3>1. /\ Append(G, Current(w)) \in Seq(Seq(Byte)) /\ Len(Append(G, Current(w))) = g + 1
          /\ Append(G, Current(w))[g + 1] = Current(w)
          /\ \A i \in 1..g : Append(G, Current(w))[i] = G[i]
          /\ Append(G, Current(w)) # <<>>
      <4>1. G \in Seq(Seq(Byte)) /\ Current(w) \in Seq(Byte)
        BY <1>3, <2>4
      <4> HIDE DEF w, G
      <4> QED
        BY <4>1, AppendProperties
    <3> QED
      BY <2>10, <3>1 DEF Last
  <2>12. Delivered'
    <3>1. ASSUME NEW i \in 1..Len(got'[r]) PROVE got'[r][i] = sent[w][i]
      <4>1. i \in 1..g \/ i = g + 1
        BY <1>3, <2>11
      <4> QED
        BY <1>1, <2>11, <4>1 DEF IInv, Delivered, Current
    <3> DEFINE limit == Half * Base
    <3>2. \A n \in Nodes : /\ \A i \in 1..Len(sent[n]) : Len(sent[n][i]) < limit
                           /\ \A i \in 1..Len(got[Peer(n)]) : got[Peer(n)][i] = sent[n][i]
      BY DEF IInv, Delivered
    <3> HIDE DEF limit
    <3>3. \A n \in Nodes :
            /\ \A i \in 1..Len(sent'[n]) : Len(sent'[n][i]) < limit
            /\ \A i \in 1..Len(got'[Peer(n)]) : got'[Peer(n)][i] = sent'[n][i]
      <4>1. \A i \in 1..Len(got'[w]) : got'[w][i] = sent'[r][i]
        BY <1>1, <1>2, <2>10, <3>2
      <4>2. \A i \in 1..Len(got'[r]) : got'[r][i] = sent'[w][i]
        BY <1>2, <3>1
      <4>3. \A n \in Nodes : \A i \in 1..Len(sent'[n]) : Len(sent'[n][i]) < limit
        BY <1>2, <3>2
      <4> QED
        BY <1>1, <4>1, <4>2, <4>3
    <3> QED
      BY <3>3 DEF Delivered, limit
  <2>13. Left(w)' = Left(w) - 1 /\ Quiet(r)' = Quiet(r)
    BY <1>1, <1>2, <1>3, <2>10, <2>11 DEF Left, Quiet
  <2>14. CASE Over(w)
    <3>1. Quiet(w)'
      BY <1>1, <1>2, <2>10, <2>13, <2>14 DEF Over, Quiet
    <3>2. CASE r = "client"
      <4>1. Answered
        BY <1>2, <1>5, <2>1, <3>2, Peers
           DEF IInv, Situation, Idle, Asking, Awaiting, Ready
      <4>2. Idle'
        BY <2>10, <2>13, <3>1, <3>2, <4>1, Peers DEF Answered, Idle, AfterGet
      <4> QED
        BY <2>8, <2>9, <2>12, <4>2 DEF IInv, Situation
    <3>3. CASE r = "server"
      <4>1. Performing' /\ (WantsIt' <=> Wants(Current(w)))
        BY <2>10, <2>11, <3>3 DEF Performing, WantsIt, AfterGet, Wants
      <4>2. \/ Idle /\ ~Wants(Current(w))
            \/ Awaiting /\ Wants(Current(w))
        BY <1>2, <1>5, <2>1, <2>14, <3>3, Peers
           DEF IInv, Situation, Idle, Asking, Awaiting, Answered, Performing, Ready, Over, Ahead
      <4>3. Idle' \/ Awaiting'
        BY <2>10, <2>13, <3>1, <3>3, <4>1, <4>2, Peers DEF Idle, Awaiting
      <4> QED
        BY <2>8, <2>9, <2>12, <4>3 DEF IInv, Situation
    <3> QED
      BY <3>2, <3>3 DEF Nodes
  <2>15. CASE Ahead(w) /\ ~Over(w)
    <3>1. Asking /\ r = "server" /\ w = "client" /\ ~Wants(Current(w)) /\ Quiet(r)
      BY <1>1, <1>2, <1>5, <2>1, <2>15, Peers
         DEF IInv, Situation, Idle, Asking, Awaiting, Answered, Performing, Ready, Nodes
    <3>2. /\ Left(w) = 2 /\ pc[w] = "wait2" /\ todo[w] = Units(Frame(Last(sent[w])))
      BY <2>15 DEF Ahead
    <3>3. Performing' /\ ~WantsIt'
      BY <2>10, <2>11, <3>1 DEF Performing, WantsIt, AfterGet, Wants
    <3>4. Current(w)' = Last(sent[w])
      BY <1>1, <1>2, <1>3, <2>11, <3>2 DEF Current, Left, Last
    <3>5. Units(Frame(Current(w)))' = todo[w]
      BY <1>2, <3>2, <3>4 DEF Units, Wide
    <3>6. ~Taken(w)' /\ Rest(w)' = todo[w]
      BY <1>2, <2>10, <3>2 DEF Taken, Rest
    <3>7. have'[r] \o Rest(w)' = todo[w]
      BY <1>3, <2>10, <3>6, ConcatEmptySeq
    <3>8. todo[w] # <<>>
      <4>1. Last(sent[w]) \in Seq(Byte) /\ Len(Last(sent[w])) < Half * Base
        <5>1. Last(sent[w]) = sent[w][Len(sent[w])] /\ Len(sent[w]) \in 1..Len(sent[w])
          BY <1>3, <2>4 DEF Last
        <5> QED
          BY <1>1, <5>1, SentFits
      <4>2. Frame(Last(sent[w])) \in Seq(Byte) /\ Len(Frame(Last(sent[w]))) >= 1
        BY <4>1, FrameTypes
      <4>3. Len(todo[w]) >= 1
        BY <3>2, <4>2, UnitsTypes
      <4> QED
        BY <4>3, EmptySeq
    <3>9. Under(w)'
      BY <1>1, <1>2, <2>13, <3>2, <3>5, <3>7, <3>8 DEF Under
    <3>10. Asking'
      BY <2>10, <2>13, <3>1, <3>2, <3>3, <3>9, Peers DEF Asking
    <3> QED
      BY <2>8, <2>9, <2>12, <3>10 DEF IInv, Situation
  <2> QED
    BY <2>2, <2>14, <2>15
<1> QED
  BY <1>4, <1>5

LEMMA InitHolds == Init => IInv
<1> SUFFICES ASSUME Init PROVE IInv
  OBVIOUS
<1>1. CableType \in Cables /\ \A n \in Nodes : data[n] \in Unit
  BY Sizes DEF Init, Unit, Byte
<1>2. /\ ctl1 = [n \in Nodes |-> FALSE] /\ have = [n \in Nodes |-> <<>>]
      /\ pc = [n \in Nodes |-> IF n = "client" THEN "app" ELSE "raise2"]
      /\ todo = [n \in Nodes |-> <<>>]
      /\ sent = [n \in Nodes |-> <<>>] /\ got = [n \in Nodes |-> <<>>]
  BY DEF Init
<1>3. TypeOK
  <2>1. data \in [Nodes -> Unit]
    <3>1. data = [n \in Nodes |-> data[n]]
      BY DEF Init
    <3> QED
      BY <1>1, <3>1
  <2>2. <<>> \in Seq(Unit) /\ <<>> \in Seq(Seq(Byte))
    BY EmptySeq
  <2> QED
    BY <1>1, <1>2, <2>1, <2>2 DEF TypeOK, Reading
<1>4. Outputs
  BY <1>2 DEF Outputs
<1>5. Delivered
  <2>1. \A n \in Nodes : Len(sent[n]) = 0 /\ Len(got[Peer(n)]) = 0
    BY <1>2, Peers
  <2> QED
    BY <2>1 DEF Delivered
<1>6. Idle
  <2>1. \A n \in Nodes : Quiet(n)
    BY <1>2, Peers DEF Quiet, Left
  <2> QED
    BY <1>2, <2>1, Peers DEF Idle, Ready
<1> QED
  BY <1>3, <1>4, <1>5, <1>6 DEF IInv, Situation

LEMMA StepKeeps == IInv /\ [Next]_vars => IInv'
<1> SUFFICES ASSUME IInv, [Next]_vars PROVE IInv'
  OBVIOUS
<1>1. ASSUME NEW n \in Nodes, DataGet(n) PROVE IInv'
  BY <1>1, RaiseCtl2Keeps, SeeCtl1HiKeeps, ReadKeeps, LowerCtl2Keeps, SeeCtl1LoKeeps DEF DataGet
<1>2. ASSUME NEW n \in Nodes, DataPut(n) PROVE IInv'
  BY <1>2, SeeCtl2HiKeeps, WriteKeeps, RaiseCtl1Keeps, SeeCtl2LoKeeps, LowerCtl1Keeps DEF DataPut
<1>3. ASSUME UNCHANGED vars PROVE IInv'
  <2>1. UNCHANGED <<CableType, data, ctl1, pc, todo, have, sent, got>>
    BY <1>3 DEF vars
  <2>2. TypeOK' /\ Outputs'
    BY <2>1 DEF IInv, TypeOK, Outputs, Unit, Wide
  <2>3. Delivered'
    BY <2>1, Kept, Peers DEF IInv
  <2>4. \A w \in Nodes : (Taken(w)' <=> Taken(w)) /\ (Handshake(w)' <=> Handshake(w))
    BY <2>1 DEF Taken, Handshake, Ctl2Hi
  <2>5. ASSUME NEW w \in Nodes, Moving(w) PROVE Moving(w)'
    <3>1. (Taken(w)' <=> Taken(w)) /\ Handshake(w)'
      BY <2>4, <2>5 DEF Moving
    <3> QED
      BY <2>1, <2>5, <3>1, MovingKept
  <2>6. (Idle => Idle') /\ (Awaiting => Awaiting') /\ (Answered => Answered')
    <3>1. \A w \in Nodes : (Quiet(w) => Quiet(w)') /\ (Over(w) => Over(w)') /\ Current(w)' = Current(w)
      BY <2>1, Kept DEF Over
    <3>2. (WantsIt' <=> WantsIt) /\ (Performing' <=> Performing)
      BY <2>1 DEF WantsIt, Performing
    <3> QED
      BY <2>1, <3>1, <3>2, Peers DEF Idle, Awaiting, Answered, Wants
  <2>7. Asking => Asking'
    <3>1. \A w \in Nodes : /\ Quiet(w) => Quiet(w)'
                           /\ Under(w) => Under(w)'
                           /\ Ahead(w) => Ahead(w)'
                           /\ Current(w)' = Current(w)
      BY <2>1, <2>4, Kept DEF Ahead
    <3>2. (WantsIt' <=> WantsIt) /\ (Performing' <=> Performing)
      BY <2>1 DEF WantsIt, Performing
    <3> QED
      BY <2>1, <3>1, <3>2, Peers DEF Asking, Wants
  <2> QED
    BY <2>2, <2>3, <2>5, <2>6, <2>7, Peers DEF IInv, Situation
<1> QED
  BY <1>1, <1>2, <1>3, RequestKeeps, AnswerKeeps, PerformedKeeps DEF Next

\* At every port access of DataGet and DataPut, the packets, the roles and the
\* wires of the two sides agree.
THEOREM InvariantHolds == Spec => []IInv
BY InitHolds, StepKeeps, PTL DEF Spec

\* Whatever the packets, no wire is driven by both sides at once and no two
\* sides write: DataGet and DataPut alternate.
THEOREM WiresHold == Spec => []WiresOK
<1>1. IInv => WiresOK
  <2> SUFFICES ASSUME IInv PROVE WiresOK
    OBVIOUS
  <2>1. OneWriter
    <3>1. SUFFICES ASSUME NEW w \in Nodes, pc[w] \in Writing, pc[Peer(w)] \in Writing PROVE FALSE
      BY Peers DEF OneWriter
    <3> QED
      BY <3>1, Peers DEF IInv, Situation, Moving, Handshake, Idle, Asking, Awaiting, Answered,
           Over, Ahead, Performing, Ready, Writing, Nodes
  <2>2. OneDriver
    BY <2>1, Peers DEF IInv, Outputs, OneDriver, OneWriter, Writing
  <2> QED
    BY <2>1, <2>2 DEF IInv, WiresOK
<1> QED
  BY <1>1, InvariantHolds, PTL

\* DataGet takes from the port the unit that DataPut is holding there, and never
\* the bits of anything else.
THEOREM BitsAreHeld == Spec => []BitsHold
<1>1. IInv => BitsHold
  BY ReadIsHead DEF BitsHold
<1> QED
  BY <1>1, InvariantHolds, PTL

\* RemoteGet returns the packets that the other side gave to RemotePut: whole,
\* in order, none twice.
THEOREM PacketsAsSent == Spec => []AsSent
<1>1. IInv => AsSent
  <2> SUFFICES ASSUME IInv, NEW n \in Nodes PROVE IsPrefix(got[n], sent[Peer(n)])
    BY DEF AsSent
  <2> DEFINE w == Peer(n)
             g == got[n]
             q == sent[w]
  <2>1. w \in Nodes /\ Peer(w) = n /\ g \in Seq(Seq(Byte)) /\ q \in Seq(Seq(Byte))
    BY Peers DEF IInv, TypeOK
  <2>2. Left(w) >= 0
    BY <2>1, Peers DEF IInv, Situation, Moving, Idle, Asking, Awaiting, Answered, Quiet, Under,
         Over, Ahead, Nodes
  <2>3. Len(g) <= Len(q)
    BY <2>1, <2>2 DEF Left
  <2>4. \A i \in 1..Len(g) : g[i] = q[i]
    BY <2>1 DEF IInv, Delivered
  <2> QED
    BY <2>1, <2>3, <2>4 DEF IsPrefix
<1> QED
  BY <1>1, InvariantHolds, PTL

-----------------------------------------------------------------------------
(* The link implements the exact packet link of PacketLink *)

\* n has read all of a packet that RemoteGet has not returned; and how many
\* packets it has received.
Complete(n) == pc[n] \in {"lower2", "wait1lo"} /\ IsPacket(have[n])
Num(n) == Len(got[n]) + (IF Complete(n) THEN 1 ELSE 0)
Ids(k) == [i \in 1..k |-> i]

LEMMA IdsGrow ==
  ASSUME NEW k \in Nat
  PROVE  /\ Append(Ids(k), k + 1) = Ids(k + 1)
         /\ (IF Ids(k) = <<>> THEN 0 ELSE Ids(k)[Len(Ids(k))]) = k
<1>1. Ids(k) \in Seq(Nat) /\ Len(Ids(k)) = k /\ \A i \in 1..k : Ids(k)[i] = i
  BY DEF Ids
<1>2. Ids(k + 1) \in Seq(Nat) /\ Len(Ids(k + 1)) = k + 1 /\ \A i \in 1..(k + 1) : Ids(k + 1)[i] = i
  BY DEF Ids
<1>3. /\ Append(Ids(k), k + 1) \in Seq(Nat) /\ Len(Append(Ids(k), k + 1)) = k + 1
      /\ Append(Ids(k), k + 1)[k + 1] = k + 1
      /\ \A i \in 1..k : Append(Ids(k), k + 1)[i] = Ids(k)[i]
  BY <1>1, AppendProperties
<1>4. \A i \in 1..(k + 1) : Append(Ids(k), k + 1)[i] = Ids(k + 1)[i]
  BY <1>1, <1>2, <1>3
<1>5. Append(Ids(k), k + 1) = Ids(k + 1)
  BY <1>2, <1>3, <1>4, SeqEqual
<1>6. Ids(k) = <<>> <=> k = 0
  BY <1>1, EmptySeq
<1> QED
  BY <1>1, <1>5, <1>6

\* A packet read completely is the one its sender is at.
LEMMA CompleteIsCurrent ==
  ASSUME IInv, NEW n \in Nodes, Complete(n)
  PROVE  /\ Packet(have[n]) = Current(Peer(n)) /\ Len(got[n]) + 1 <= Len(sent[Peer(n)])
         /\ ~Quiet(Peer(n))
<1> DEFINE w == Peer(n)
<1>1. /\ w \in Nodes /\ Peer(w) = n /\ have[n] \in Seq(Unit) /\ todo[w] \in Seq(Unit)
      /\ Len(got[n]) \in Nat /\ Len(sent[w]) \in Nat
  BY Peers DEF IInv, TypeOK
<1>2. /\ Left(w) \in {1, 2}
      /\ \/ todo[w] # <<>> /\ have[n] \o Rest(w) = Units(Frame(Current(w)))
         \/ have[n] = Units(Frame(Current(w)))
  <2>1. CASE Moving(w)
    BY <1>1, <2>1 DEF Moving, Under
  <2>2. CASE ~Moving(w)
    <3>1. pc[n] = "wait1lo"
      BY <2>2, ReaderWhere DEF Complete
    <3>2. ~Moving(n)
      BY <1>1, <3>1 DEF Moving, Handshake
    <3>3. Over(w) \/ Ahead(w)
      BY <2>2, <3>1, <3>2, Peers
         DEF IInv, Situation, Idle, Asking, Awaiting, Answered, Performing, Ready, Nodes
    <3> QED
      BY <1>1, <3>3 DEF Over, Ahead
  <2> QED
    BY <2>1, <2>2
<1>3. Len(got[n]) + 1 \in 1..Len(sent[w]) /\ ~Quiet(w)
  BY <1>1, <1>2 DEF Left, Quiet
<1>4. Current(w) \in Seq(Byte) /\ Len(Current(w)) < Half * Base
  BY <1>1, <1>3, SentFits DEF Current
<1>5. PICK t \in Seq(Unit) : have[n] \o t = Units(Frame(Current(w)))
  <2>1. CASE todo[w] # <<>> /\ have[n] \o Rest(w) = Units(Frame(Current(w)))
    <3>1. Rest(w) \in Seq(Unit)
      <4>1. Tail(todo[w]) \in Seq(Unit)
        BY <1>1, <2>1
      <4> QED
        BY <1>1, <4>1 DEF Rest
    <3> QED
      BY <2>1, <3>1
  <2>2. CASE have[n] = Units(Frame(Current(w)))
    BY <1>1, <2>2, ConcatEmptySeq, EmptySeq
  <2> QED
    BY <1>2, <2>1, <2>2
<1>6. IsPacket(have[n])
  BY DEF Complete
<1>7. Packet(have[n]) = Current(w)
  BY <1>1, <1>4, <1>5, <1>6, FrameEnd
<1> QED
  BY <1>1, <1>3, <1>7

\* What a side has received are the packets numbered 1, 2, and so on.
LEMMA ReceivedIds ==
  IInv => \A n \in Nodes : /\ Num(n) \in Nat /\ Len(sent[n]) \in Nat
                           /\ Num(n) <= Len(sent[Peer(n)])
                           /\ Received(n) = Ids(Num(n))
<1> SUFFICES ASSUME IInv, NEW n \in Nodes
             PROVE  /\ Num(n) \in Nat /\ Len(sent[n]) \in Nat
                    /\ Num(n) <= Len(sent[Peer(n)])
                    /\ Received(n) = Ids(Num(n))
  OBVIOUS
<1> DEFINE w == Peer(n)
           q == sent[w]
           g == got[n]
           all == IF Complete(n) THEN Append(g, Packet(have[n])) ELSE g
<1>1. /\ w \in Nodes /\ Peer(w) = n /\ q \in Seq(Seq(Byte)) /\ g \in Seq(Seq(Byte))
      /\ Len(sent[n]) \in Nat
  BY Peers DEF IInv, TypeOK
<1>2. Len(g) <= Len(q) /\ \A i \in 1..Len(g) : g[i] = q[i]
  <2>1. Left(w) >= 0
    BY <1>1, Peers DEF IInv, Situation, Moving, Idle, Asking, Awaiting, Answered, Quiet, Under,
         Over, Ahead, Nodes
  <2> QED
    BY <1>1, <2>1 DEF Left, IInv, Delivered
<1>3. /\ Num(n) \in Nat /\ Num(n) <= Len(q) /\ DOMAIN all = 1..Num(n)
      /\ \A i \in 1..Num(n) : all[i] = q[i]
  <2>1. CASE Complete(n)
    <3>1. Packet(have[n]) = q[Len(g) + 1] /\ Len(g) + 1 <= Len(q)
      BY <1>1, <2>1, CompleteIsCurrent DEF Current
    <3>2. q[Len(g) + 1] \in Seq(Byte)
      BY <1>1, <3>1, ElementOfSeq
    <3>3. all = Append(g, q[Len(g) + 1]) /\ Num(n) = Len(g) + 1
      BY <2>1, <3>1 DEF Num
    <3> HIDE DEF all, g, q
    <3>4. /\ all \in Seq(Seq(Byte)) /\ Len(all) = Len(g) + 1 /\ all[Len(g) + 1] = q[Len(g) + 1]
          /\ \A i \in 1..Len(g) : all[i] = g[i]
      BY <1>1, <3>2, <3>3, AppendProperties
    <3> QED
      BY <1>1, <1>2, <3>1, <3>3, <3>4
  <2>2. CASE ~Complete(n)
    BY <1>1, <1>2, <2>2 DEF Num
  <2> QED
    BY <2>1, <2>2
<1>4. Received(n) = [i \in DOMAIN all |-> IF i \in DOMAIN q /\ all[i] = q[i] THEN i ELSE 0]
  BY DEF Received, Complete
<1>5. \A i \in 1..Num(n) : i \in DOMAIN q
  BY <1>1, <1>3
<1> HIDE DEF all, q
<1>6. Received(n) = [i \in 1..Num(n) |-> i]
  BY <1>3, <1>4, <1>5
<1> QED
  BY <1>1, <1>3, <1>6 DEF q, Ids

LEMMA ReceivedIdsNext ==
  IInv' => \A n \in Nodes : /\ Num(n)' \in Nat /\ Len(sent'[n]) \in Nat
                            /\ Num(n)' <= Len(sent'[Peer(n)])
                            /\ Received(n)' = Ids(Num(n)')
<1>1. (IInv => \A n \in Nodes : /\ Num(n) \in Nat /\ Len(sent[n]) \in Nat
                                /\ Num(n) <= Len(sent[Peer(n)])
                                /\ Received(n) = Ids(Num(n)))'
  BY ReceivedIds, PTL
<1> QED
  BY <1>1

\* The steps of the exact link, by what has been sent and received.
LEMMA StutterStep ==
  ASSUME IInv, IInv', sent' = sent, \A n \in Nodes : Num(n)' = Num(n)
  PROVE  UNCHANGED ExactLink!vars
<1>1. \A n \in Nodes : Received(n)' = Received(n)
  BY ReceivedIds, ReceivedIdsNext
<1> QED
  BY <1>1 DEF ExactLink!vars

LEMMA PutStep ==
  ASSUME IInv, IInv', NEW n \in Nodes, Num(Peer(n)) = Len(sent[n]),
         Len(sent'[n]) = Len(sent[n]) + 1, sent'[Peer(n)] = sent[Peer(n)],
         \A m \in Nodes : Num(m)' = Num(m)
  PROVE  ExactLink!Put(n)
<1>1. Peer(n) \in Nodes /\ \A m \in Nodes : m = n \/ m = Peer(n)
  BY Peers
<1>2. \A m \in Nodes : Received(m)' = Received(m)
  BY ReceivedIds, ReceivedIdsNext
<1>3. ExactLink!Newest(Peer(n)) = Len(sent[n])
  BY <1>1, ReceivedIds, IdsGrow DEF ExactLink!Newest
<1>4. \A m \in Nodes : Len(sent[m]) \in Nat /\ Len(sent'[m]) \in Nat
  BY ReceivedIds, ReceivedIdsNext
<1> QED
  BY <1>1, <1>2, <1>3, <1>4 DEF ExactLink!Put

LEMMA GetStep ==
  ASSUME IInv, IInv', NEW n \in Nodes, sent' = sent, Num(n)' = Num(n) + 1,
         Num(Peer(n))' = Num(Peer(n))
  PROVE  ExactLink!Get(n)
<1> DEFINE k == Num(n)
<1>1. Peer(n) \in Nodes /\ Peer(n) # n /\ \A m \in Nodes : m = n \/ m = Peer(n)
  BY Peers
<1>2. k \in Nat /\ k + 1 <= Len(sent[Peer(n)]) /\ Len(sent[Peer(n)]) \in Nat
  BY <1>1, ReceivedIds, ReceivedIdsNext
<1>3. /\ Received(n) = Ids(k) /\ Received(n)' = Ids(k + 1)
      /\ Received(Peer(n))' = Received(Peer(n))
  BY <1>1, ReceivedIds, ReceivedIdsNext
<1> HIDE DEF k
<1>4. ExactLink!Newest(n) = k /\ Received(n)' = Append(Received(n), k + 1)
  BY <1>2, <1>3, IdsGrow DEF ExactLink!Newest
<1>5. k + 1 \in (ExactLink!Newest(n) + 1)..Len(sent[Peer(n)])
  BY <1>2, <1>4
<1>6. [m \in Nodes |-> Received(m)'] =
        [[m \in Nodes |-> Received(m)] EXCEPT ![n] = Append(Received(n), k + 1)]
  BY <1>1, <1>3, <1>4
<1> QED
  BY <1>1, <1>5, <1>6 DEF ExactLink!Get

\* Whether a packet is complete depends on the cable, which stays, and on what
\* has been read.
LEMMA IsPacketKept ==
  ASSUME CableType' = CableType, NEW h
  PROVE  IsPacket(h)' <=> IsPacket(h)
BY DEF IsPacket, BytesOf, Units, Wide

LEMMA NumKept ==
  ASSUME UNCHANGED <<CableType, have, got>>, NEW n \in Nodes,
         pc'[n] \in {"lower2", "wait1lo"} <=> pc[n] \in {"lower2", "wait1lo"}
  PROVE  Num(n)' = Num(n)
<1>1. IsPacket(have[n])' <=> IsPacket(have[n])
  BY DEF IsPacket, BytesOf, Units, Wide
<1> QED
  BY <1>1 DEF Num, Complete

\* A request or a response is made when the one before has arrived.
LEMMA RequestIsPut ==
  ASSUME IInv, IInv', Request
  PROVE  ExactLink!Put("client")
<1>1. PICK p \in Requests : RemotePut("client", p)
  BY DEF Request
<1>2. /\ UNCHANGED <<CableType, have, got>> /\ pc["client"] = "app"
      /\ pc' = [pc EXCEPT !["client"] = "wait2"]
      /\ sent' = [sent EXCEPT !["client"] = Append(sent["client"], p)]
  BY <1>1 DEF RemotePut, Goto, Request
<1>3. \A m \in Nodes : Num(m)' = Num(m)
  BY <1>2, NumKept DEF IInv, TypeOK
<1>4. /\ p \in Seq(Byte) /\ Len(sent'["client"]) = Len(sent["client"]) + 1
      /\ sent'["server"] = sent["server"]
  BY <1>2, Peers, ParConstants DEF IInv, TypeOK
<1>5. Idle
  BY <1>2, Peers DEF IInv, Situation, Moving, Handshake, Asking, Awaiting, Answered, Ready, Over
<1>6. Num("server") = Len(sent["client"])
  <2>1. Len(sent["client"]) \in Nat /\ Len(got["server"]) \in Nat
    BY Peers DEF IInv, TypeOK
  <2>2. CASE Quiet("client")
    <3>1. ~Complete("server")
      BY <2>2, CompleteIsCurrent, Peers
    <3> QED
      BY <2>1, <2>2, <3>1, Peers DEF Quiet, Left, Num
  <2>3. CASE Over("client")
    <3>1. /\ Left("client") = 1 /\ pc["server"] = "wait1lo"
          /\ have["server"] = Units(Frame(Current("client")))
      BY <2>3, Peers DEF Over
    <3>2. Len(got["server"]) + 1 \in 1..Len(sent["client"])
      BY <2>1, <3>1, Peers DEF Left
    <3>3. Current("client") \in Seq(Byte) /\ Len(Current("client")) < Half * Base
      BY <3>2, SentFits, Peers DEF Current
    <3>4. have["server"] \in Seq(Unit)
      BY Peers DEF IInv, TypeOK
    <3>5. have["server"] \o <<>> = Units(Frame(Current("client"))) /\ <<>> \in Seq(Unit)
      BY <3>1, <3>4, ConcatEmptySeq, EmptySeq
    <3>6. Complete("server")
      BY <3>1, <3>3, <3>4, <3>5, FrameEnd DEF Complete
    <3> QED
      BY <2>1, <3>1, <3>6, Peers DEF Left, Num
  <2> QED
    BY <1>5, <2>2, <2>3 DEF Idle
<1> QED
  BY <1>3, <1>4, <1>6, Peers, PutStep

LEMMA AnswerIsPut ==
  ASSUME IInv, IInv', Answer
  PROVE  ExactLink!Put("server")
<1>1. PICK p \in Responses : RemotePut("server", p)
  BY DEF Answer
<1>2. /\ UNCHANGED <<CableType, have, got>> /\ pc["server"] = "exec"
      /\ Wants(Last(got["server"]))
      /\ pc' = [pc EXCEPT !["server"] = "wait2"]
      /\ sent' = [sent EXCEPT !["server"] = Append(sent["server"], p)]
  BY <1>1 DEF RemotePut, Goto, Answer
<1>3. \A m \in Nodes : Num(m)' = Num(m)
  BY <1>2, NumKept DEF IInv, TypeOK
<1>4. /\ p \in Seq(Byte) /\ Len(sent'["server"]) = Len(sent["server"]) + 1
      /\ sent'["client"] = sent["client"]
  BY <1>2, Peers, ParConstants DEF IInv, TypeOK
<1>5. Quiet("server")
  BY <1>2, Peers DEF IInv, Situation, Moving, Handshake, Idle, Asking, Awaiting, Answered,
                     Ready, Over, Ahead, WantsIt
<1>6. Num("client") = Len(sent["server"])
  <2>1. Len(sent["server"]) \in Nat /\ Len(got["client"]) \in Nat
    BY Peers DEF IInv, TypeOK
  <2>2. ~Complete("client")
    BY <1>5, CompleteIsCurrent, Peers
  <2> QED
    BY <1>5, <2>1, <2>2, Peers DEF Quiet, Left, Num
<1> QED
  BY <1>3, <1>4, <1>6, Peers, PutStep

\* The last unit of a packet is the packet's arrival.
LEMMA ReadIsGet ==
  ASSUME IInv, IInv', NEW r \in Nodes, Read(r)
  PROVE  ExactLink!Get(r) \/ UNCHANGED ExactLink!vars
<1>1. /\ UNCHANGED <<CableType, sent, got>> /\ pc[r] = "read"
      /\ pc' = [pc EXCEPT ![r] = "lower2"] /\ \A m \in Nodes \ {r} : have'[m] = have[m]
  BY DEF Read, Goto, IInv, TypeOK
<1>2. Peer(r) \in Nodes /\ Peer(r) # r /\ \A m \in Nodes : m = r \/ m = Peer(r)
  BY Peers
<1>3. Num(Peer(r))' = Num(Peer(r))
  <2>1. IsPacket(have[Peer(r)])' <=> IsPacket(have[Peer(r)])
    <3>1. PICK h : have[Peer(r)] = h /\ have'[Peer(r)] = h
      BY <1>1, <1>2
    <3>2. IsPacket(h)' <=> IsPacket(h)
      BY <1>1, IsPacketKept
    <3> QED
      BY <3>1, <3>2
  <2> QED
    BY <1>1, <1>2, <2>1 DEF Num, Complete, IInv, TypeOK
<1>4. Num(r) = Len(got[r]) /\ Len(got[r]) \in Nat
  BY <1>1 DEF Num, Complete, IInv, TypeOK
<1>5. CASE Complete(r)'
  <2>1. Num(r)' = Num(r) + 1
    BY <1>1, <1>4, <1>5 DEF Num
  <2> QED
    BY <1>1, <1>3, <2>1, GetStep
<1>6. CASE ~Complete(r)'
  <2>1. Num(r)' = Num(r)
    <3>1. Num(r)' = Len(got'[r]) + 0
      BY <1>6 DEF Num
    <3> QED
      BY <1>1, <1>4, <3>1
  <2> QED
    BY <1>1, <1>2, <1>3, <2>1, StutterStep
<1> QED
  BY <1>5, <1>6

LEMMA SeeCtl1LoIsSilent ==
  ASSUME IInv, IInv', NEW r \in Nodes, SeeCtl1Lo(r)
  PROVE  UNCHANGED ExactLink!vars
<1>1. /\ UNCHANGED <<CableType, sent>> /\ pc[r] = "wait1lo"
      /\ \A m \in Nodes \ {r} : have'[m] = have[m] /\ got'[m] = got[m] /\ pc'[m] = pc[m]
  BY DEF SeeCtl1Lo, ReadOver, Goto, IInv, TypeOK
<1>2. \A m \in Nodes \ {r} : Num(m)' = Num(m)
  <2>1. ASSUME NEW m \in Nodes \ {r} PROVE IsPacket(have[m])' <=> IsPacket(have[m])
    <3>1. PICK h : have[m] = h /\ have'[m] = h
      BY <1>1
    <3>2. IsPacket(h)' <=> IsPacket(h)
      BY <1>1, IsPacketKept
    <3> QED
      BY <3>1, <3>2
  <2> QED
    BY <1>1, <2>1 DEF Num, Complete
<1>3. pc'[r] \notin {"lower2", "wait1lo"}
  BY DEF SeeCtl1Lo, ReadOver, Goto, AfterGet, IInv, TypeOK
<1>4. Num(r)' = Num(r)
  <2>1. CASE IsPacket(have[r])
    <3>1. got'[r] = Append(got[r], Packet(have[r]))
      BY <2>1 DEF SeeCtl1Lo, ReadOver, IInv, TypeOK
    <3>2. Packet(have[r]) \in Seq(Byte) /\ got[r] \in Seq(Seq(Byte))
      <4>1. Complete(r)
        BY <1>1, <2>1 DEF Complete
      <4>2. /\ Packet(have[r]) = Current(Peer(r)) /\ Peer(r) \in Nodes
            /\ Len(got[r]) + 1 <= Len(sent[Peer(r)]) /\ Peer(Peer(r)) = r
        BY <4>1, CompleteIsCurrent, Peers
      <4>3. Len(got[r]) + 1 \in 1..Len(sent[Peer(r)]) /\ got[r] \in Seq(Seq(Byte))
        BY <4>2 DEF IInv, TypeOK
      <4> QED
        BY <4>2, <4>3, SentFits DEF Current
    <3>3. Len(got'[r]) = Len(got[r]) + 1
      BY <3>1, <3>2, AppendProperties
    <3> QED
      BY <1>1, <1>3, <2>1, <3>3, <3>2 DEF Num, Complete
  <2>2. CASE ~IsPacket(have[r])
    <3>1. got' = got
      BY <2>2 DEF SeeCtl1Lo, ReadOver
    <3> QED
      BY <1>3, <2>2, <3>1 DEF Num, Complete
  <2> QED
    BY <2>1, <2>2
<1> QED
  BY <1>1, <1>2, <1>4, StutterStep

\* The parallel link keeps the promise of an exact link: each packet reaches the
\* other side before its sender sends the next.
THEOREM ExactLinkImplemented == Spec => ImplementsExactLink
<1>1. Init => ExactLink!Init
  <2> SUFFICES ASSUME Init PROVE ExactLink!Init
    OBVIOUS
  <2>1. \A n \in Nodes : Num(n) = 0 /\ Len(sent[n]) = 0
    BY DEF Init, Num, Complete
  <2>2. IInv
    BY InitHolds
  <2>3. \A n \in Nodes : Received(n) = <<>>
    <3>1. Ids(0) = <<>>
      BY EmptySeq DEF Ids
    <3> QED
      BY <2>1, <2>2, <3>1, ReceivedIds
  <2> QED
    BY <2>1, <2>3 DEF ExactLink!Init
<1>2. IInv /\ IInv' /\ [Next]_vars => [ExactLink!Next]_ExactLink!vars
  <2> SUFFICES ASSUME IInv, IInv', [Next]_vars
               PROVE  [ExactLink!Next]_ExactLink!vars
    OBVIOUS
  <2>1. ASSUME UNCHANGED <<CableType, have, got, sent>>,
               \A n \in Nodes : pc'[n] \in {"lower2", "wait1lo"} <=> pc[n] \in {"lower2", "wait1lo"}
        PROVE  UNCHANGED ExactLink!vars
    BY <2>1, NumKept, StutterStep
  <2>2. CASE \E n \in Nodes : \/ RaiseCtl2(n) \/ SeeCtl1Hi(n) \/ LowerCtl2(n)
                              \/ SeeCtl2Hi(n) \/ Write(n) \/ RaiseCtl1(n) \/ SeeCtl2Lo(n)
    <3>1. PICK n \in Nodes : \/ RaiseCtl2(n) \/ SeeCtl1Hi(n) \/ LowerCtl2(n)
                             \/ SeeCtl2Hi(n) \/ Write(n) \/ RaiseCtl1(n) \/ SeeCtl2Lo(n)
      BY <2>2
    <3>2. UNCHANGED <<CableType, have, got, sent>>
      BY <3>1 DEF RaiseCtl2, SeeCtl1Hi, LowerCtl2, SeeCtl2Hi, Write, RaiseCtl1, SeeCtl2Lo
    <3>3. \A m \in Nodes \ {n} : pc'[m] = pc[m]
      BY <3>1 DEF RaiseCtl2, SeeCtl1Hi, LowerCtl2, SeeCtl2Hi, Write, RaiseCtl1, SeeCtl2Lo, Goto,
                  IInv, TypeOK
    <3>4. pc'[n] \in {"lower2", "wait1lo"} <=> pc[n] \in {"lower2", "wait1lo"}
      BY <3>1 DEF RaiseCtl2, SeeCtl1Hi, LowerCtl2, SeeCtl2Hi, Write, RaiseCtl1, SeeCtl2Lo, Goto,
                  IInv, TypeOK
    <3> QED
      BY <2>1, <3>2, <3>3, <3>4
  <2>3. CASE \E n \in Nodes : LowerCtl1(n)
    <3>1. PICK n \in Nodes : LowerCtl1(n)
      BY <2>3
    <3>2. UNCHANGED <<CableType, have, got, sent>>
      BY <3>1 DEF LowerCtl1
    <3>3. pc[n] = "lower1" /\ pc'[n] \notin {"lower2", "wait1lo"} /\ \A m \in Nodes \ {n} : pc'[m] = pc[m]
      BY <3>1 DEF LowerCtl1, Goto, AfterPut, IInv, TypeOK
    <3> QED
      BY <2>1, <3>2, <3>3
  <2>4. CASE \E n \in Nodes : Read(n)
    BY <2>4, ReadIsGet DEF ExactLink!Next
  <2>5. CASE \E n \in Nodes : SeeCtl1Lo(n)
    BY <2>5, SeeCtl1LoIsSilent
  <2>6. CASE Request
    BY <2>6, RequestIsPut, Peers DEF ExactLink!Next
  <2>7. CASE Answer
    BY <2>7, AnswerIsPut, Peers DEF ExactLink!Next
  <2>8. CASE Performed
    <3>1. UNCHANGED <<CableType, have, got, sent>> /\ pc["server"] = "exec"
          /\ pc' = [pc EXCEPT !["server"] = "raise2"]
      BY <2>8 DEF Performed, Goto
    <3> QED
      BY <2>1, <3>1 DEF IInv, TypeOK
  <2>9. CASE UNCHANGED vars
    BY <2>1, <2>9 DEF vars
  <2> QED
    BY <2>2, <2>3, <2>4, <2>5, <2>6, <2>7, <2>8, <2>9 DEF Next, DataGet, DataPut
<1> QED
  BY <1>1, <1>2, InvariantHolds, PTL DEF Spec, ImplementsExactLink, ExactLink!Spec
=============================================================================

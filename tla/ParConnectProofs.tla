------------------------- MODULE ParConnectProofs -------------------------
(***************************************************************************)
(* Theorems about how the two ends of a parallel-port cable find each      *)
(* other, for every cable, dead line, number of pulses and of attempts:    *)
(* the types, and that the line test finds every line that is dead.        *)
(*                                                                         *)
(* A dead data line's bit is missing from all that comes over it, so the   *)
(* server does not get past the byte that consists of that bit.  Without a *)
(* line that the pulses or the handshake need, it does not get past the    *)
(* first: it sees control line 1 never change.                             *)
(***************************************************************************)
EXTENDS ParConnect, TLAPS

\* Where DataGet and DataPut are; the pulses; everywhere.
Gets == {"raise2", "wait1", "read", "lower2", "wait1lo"}
Puts == {"wait2", "write", "raise1", "wait2lo", "lower1"}
Testing == Gets \cup Puts
Begins == {"twidle", "on", "off"}
Places == Begins \cup Testing \cup {"poll", "lower", "synch", "failed", "connected"}
Powers == {1, 2, 4, 8, 16, 32, 64, 128}

\* What goes with where n is.
Typed(n) ==
  /\ TwidleOn[n] => CableType[n] \in Vals
  /\ pc[n] \notin Begins \cup {"poll", "failed"} => CableType[n] \in Vals
  /\ pc[n] \in Testing /\ high[n] => ~Is(n, "WATCOM")
  /\ pc[n] \in {"raise2", "wait1", "read"} => byte[n] < (IF high[n] THEN 16 ELSE 1)
  /\ pc[n] \in {"lower2", "wait1lo"} /\ SecondHalf(n) => byte[n] < 16

\* The byte of the line test.
Sent ==
  /\ send \in Powers \cup {0}
  /\ pc["server"] \in Testing => send \in Powers
  /\ pc["server"] \in Puts => byte["server"] \in {send, DONE_LINE_TEST}
  /\ pc["server"] \in Begins => CableType["server"] \in Vals

Types == TypeOK /\ pc \in [Nodes -> Places] /\ (\A n \in Nodes : Typed(n)) /\ Sent

\* The bytes the pulses and the line test bring about on a WATCOM cable, and
\* the halves of bytes on the others.
Wide == {0, 2, 8, 10, 16, 18, 24, 26} \cup Powers
Nibbles == {0, 1, 2, 4, 8, 10}
GoodType(c, t) == IF c = "WATCOM" THEN t \in {0, 26} ELSE t \in {0, 82, 210}
GoodData(c, d) == IF c = "WATCOM" THEN d \in Wide ELSE d \in 0..31 /\ d % 16 \in Nibbles
GoodByte(c, b) ==
  IF c = "WATCOM" THEN b \in Wide
  ELSE b \in 0..255 /\ b % 16 \in Nibbles /\ b \div 16 \in Nibbles
Values(n) ==
  GoodType(cable, CableType[n]) /\ GoodData(cable, data[n]) /\ GoodByte(cable, byte[n])

\* The dead line carries data; without it a side does not see the pulses; the
\* line test finds it.
DataLine == dead[2] \in IF cable = "WATCOM" THEN 0..7 ELSE 0..3
Tells == dead[2] \in IF cable = "WATCOM" THEN {1, 3, 4} ELSE {1, 3}
Found == DataLine /\ ~(dead[1] = "server" /\ Tells)

\* The line test does not come past the byte whose bit is missing.
Lacks(b, k) == Bit(b, k) = 0
Missing(k) ==
  /\ send <= 2^k
  /\ pc["server"] \in Gets => Lacks(byte["server"], k)
  /\ dead[1] = "server" =>
       /\ Lacks(data["client"], k) /\ Lacks(byte["client"], k)
       /\ cable # "WATCOM" => Lacks(byte["client"], k + 4)

\* The type a side takes the cable for when control line 1 does not change for
\* it, and the right one.
Mistaken(c) == CASE c = "WATCOM" -> 26 [] c = "LAPLINK" -> 82 [] OTHER -> 210
Right(c) == CASE c = "WATCOM" -> 26 [] c = "LAPLINK" -> 210 [] OTHER -> 82

\* Where the client stays.
Waits ==
  IF DataLine THEN pc["client"] \in Begins \cup {"failed"} /\ CableType["client"] = NULL_VAL
  ELSE /\ pc["client"] \in Begins \cup {"failed", "lower", "synch"}
                             \cup IF cable = "WATCOM" THEN {"raise2", "wait1"} ELSE {}
       /\ CableType["client"] \in {0, Mistaken(cable)}

\* The server never sees its first byte come back.
Stuck ==
  /\ send \in {0, 1}
  /\ CableType["server"] \in {0, IF dead[1] = "client" THEN Mistaken(cable) ELSE Right(cable)}
  /\ cable = "WATCOM" => /\ pc["server"] \notin {"read", "lower2", "wait1lo"}
                         /\ pc["server"] \in Gets => ctl["server"] = 4
  /\ dead[1] = "server" =>
       /\ Waits
       /\ CASE cable = "LAPLINK" -> data["client"] \in {24, 26}
            [] cable = "DUTCHMAN" -> ctl["client"] = 1
            [] OTHER -> /\ ctl["client"] \in {1, 4}
                        /\ pc["client"] \in {"synch", "raise2", "wait1"} => ctl["client"] = 4

\* The inductive invariant.
Flawed ==
  dead # NoLine =>
    /\ \A n \in Nodes : Values(n) /\ pc[n] # "connected"
    /\ pc["server"] \in Puts => byte["server"] = send
    /\ IF Found THEN Missing(dead[2]) ELSE Stuck

-----------------------------------------------------------------------------
(* Bytes *)

\* The powers of two a byte is made of.
LEMMA Pow ==
  /\ 2^0 = 1 /\ 2^1 = 2 /\ 2^2 = 4 /\ 2^3 = 8 /\ 2^4 = 16
  /\ 2^5 = 32 /\ 2^6 = 64 /\ 2^7 = 128
  BY SMT

\* The bits of a number, by quotient and remainder.
LEMMA Bits ==
  ASSUME NEW b \in Nat
  PROVE  /\ Bit(b, 0) = b % 2 /\ Bit(b, 1) = (b \div 2) % 2 /\ Bit(b, 2) = (b \div 4) % 2
         /\ Bit(b, 3) = (b \div 8) % 2 /\ Bit(b, 4) = (b \div 16) % 2 /\ Bit(b, 5) = (b \div 32) % 2
         /\ Bit(b, 6) = (b \div 64) % 2 /\ Bit(b, 7) = (b \div 128) % 2
<1> HIDE DEF Bit
<1>1. Bit(b, 0) = b % 2 BY Pow, SMT DEF Bit
<1>2. Bit(b, 1) = (b \div 2) % 2 BY Pow DEF Bit
<1>3. Bit(b, 2) = (b \div 4) % 2 BY Pow DEF Bit
<1>4. Bit(b, 3) = (b \div 8) % 2 BY Pow DEF Bit
<1>5. Bit(b, 4) = (b \div 16) % 2 BY Pow DEF Bit
<1>6. Bit(b, 5) = (b \div 32) % 2 BY Pow DEF Bit
<1>7. Bit(b, 6) = (b \div 64) % 2 BY Pow DEF Bit
<1>8. Bit(b, 7) = (b \div 128) % 2 BY Pow DEF Bit
<1>9. QED BY <1>1, <1>2, <1>3, <1>4, <1>5, <1>6, <1>7, <1>8

\* A line that is dead clears its bit and no other.
Cleared(b, k) == b - Bit(b, k) * 2^k
\* A dead line of the WATCOM cable leaves a byte the line test can send.
LEMMA ClearWide ==
  ASSUME NEW b \in Wide, NEW k \in 0..7
  PROVE  Cleared(b, k) \in Wide /\ Bit(Cleared(b, k), k) = 0
<1>1. b \in Nat BY DEF Wide, Powers
<1>2. CASE k = 0 BY <1>1, <1>2, Pow, Bits DEF Wide, Powers, Cleared, Bit
<1>3. CASE k = 1 BY <1>1, <1>3, Pow, Bits DEF Wide, Powers, Cleared, Bit
<1>4. CASE k = 2 BY <1>1, <1>4, Pow, Bits DEF Wide, Powers, Cleared, Bit
<1>5. CASE k = 3 BY <1>1, <1>5, Pow, Bits DEF Wide, Powers, Cleared, Bit
<1>6. CASE k = 4 BY <1>1, <1>6, Pow, Bits DEF Wide, Powers, Cleared, Bit
<1>7. CASE k = 5 BY <1>1, <1>7, Pow, Bits DEF Wide, Powers, Cleared, Bit
<1>8. CASE k = 6 BY <1>1, <1>8, Pow, Bits DEF Wide, Powers, Cleared, Bit
<1>9. CASE k = 7 BY <1>1, <1>9, Pow, Bits DEF Wide, Powers, Cleared, Bit
<1>10. QED BY <1>2, <1>3, <1>4, <1>5, <1>6, <1>7, <1>8, <1>9

\* So does one of the narrow cables.
LEMMA ClearNibble ==
  ASSUME NEW b \in 0..31, b % 16 \in Nibbles, NEW k \in 0..4
  PROVE  /\ Cleared(b, k) \in 0..31 /\ Cleared(b, k) % 16 \in Nibbles
         /\ Bit(Cleared(b, k), k) = 0
<1>1. b \in Nat /\ b \in {0, 1, 2, 4, 8, 10, 16, 17, 18, 20, 24, 26}
  BY DEF Nibbles
<1>2. CASE k = 0 BY <1>1, <1>2, Pow DEF Nibbles, Cleared, Bit
<1>3. CASE k = 1 BY <1>1, <1>3, Pow DEF Nibbles, Cleared, Bit
<1>4. CASE k = 2 BY <1>1, <1>4, Pow DEF Nibbles, Cleared, Bit
<1>5. CASE k = 3 BY <1>1, <1>5, Pow DEF Nibbles, Cleared, Bit
<1>6. CASE k = 4 BY <1>1, <1>6, Pow DEF Nibbles, Cleared, Bit
<1>7. QED BY <1>2, <1>3, <1>4, <1>5, <1>6
-----------------------------------------------------------------------------
(* What is read *)

\* The other side is a side.
LEMMA Peers == \A n \in Nodes : Peer(n) \in Nodes /\ Peer(n) # n
BY DEF Nodes, Peer

\* A dead line clears its bit of any byte.
LEMMA Clear ==
  ASSUME NEW b \in 0..255, NEW k \in 0..7
  PROVE  Cleared(b, k) \in 0..255 /\ Bit(Cleared(b, k), k) = 0
<1>1. CASE k = 0 BY <1>1, Pow DEF Cleared, Bit
<1>2. CASE k = 1 BY <1>2, Pow DEF Cleared, Bit
<1>3. CASE k = 2 BY <1>3, Pow DEF Cleared, Bit
<1>4. CASE k = 3 BY <1>4, Pow DEF Cleared, Bit
<1>5. CASE k = 4 BY <1>5, Pow DEF Cleared, Bit
<1>6. CASE k = 5 BY <1>6, Pow DEF Cleared, Bit
<1>7. CASE k = 6 BY <1>7, Pow DEF Cleared, Bit
<1>8. CASE k = 7 BY <1>8, Pow DEF Cleared, Bit
<1>9. QED BY <1>1, <1>2, <1>3, <1>4, <1>5, <1>6, <1>7, <1>8

\* The dead line is one of the cable.
LEMMA DeadLine ==
  ASSUME TypeOK, dead # NoLine
  PROVE  /\ dead[1] \in Nodes /\ dead[2] \in 0..8
         /\ dead[2] \in LinesOf(cable) /\ dead = <<dead[1], dead[2]>>
BY ParConnectConstants DEF TypeOK, Dead, LinesOf, CTL1

\* What comes through the cable is the byte, less the bit of a dead line.
LEMMA Through ==
  ASSUME TypeOK, NEW n \in Nodes
  PROVE  Arriving(n) = IF dead[1] = Peer(n) /\ dead[2] # CTL1 THEN Cleared(data[Peer(n)], dead[2])
                       ELSE data[Peer(n)]
BY DEF Arriving, Cleared

\* What comes through the cable is a byte.
LEMMA ArrivingByte ==
  ASSUME TypeOK, NEW n \in Nodes
  PROVE  Arriving(n) \in 0..255
<1>1. data[Peer(n)] \in 0..255 BY Peers DEF TypeOK
<1>2. CASE dead[1] = Peer(n) /\ dead[2] # CTL1
  <2>1. dead # NoLine BY <1>2 DEF NoLine, Peer
  <2>2. dead[2] \in 0..7 BY <2>1, <1>2, DeadLine DEF CTL1
  <2>3. QED BY <1>1, <1>2, <2>2, Clear, Through
<1>3. CASE ~(dead[1] = Peer(n) /\ dead[2] # CTL1) BY <1>1, <1>3, Through
<1>4. QED BY <1>2, <1>3

\* The bytes of the status and control ports.
LEMMA StatusRange ==
  ASSUME TypeOK, NEW n \in Nodes
  PROVE  Status(n) \in 0..248 /\ Status(n) % 8 = 0
<1>1. PICK a \in 0..255 : a = Arriving(n) BY ArrivingByte
<1>2. CASE cable = "WATCOM" BY <1>1, <1>2 DEF Status
<1>3. CASE cable = "LAPLINK" BY <1>1, <1>3 DEF Status
<1>4. CASE cable \notin {"WATCOM", "LAPLINK"} BY <1>1, <1>4 DEF Status
<1>5. QED BY <1>2, <1>3, <1>4

\* The bits read from the control port are below eight.
LEMMA ControlRange ==
  ASSUME TypeOK, NEW n \in Nodes
  PROVE  Control(n) \in 0..7
<1> DEFINE low == IF cable = "WATCOM" THEN Arriving(n) % 8 ELSE 7
<1>1. low \in 0..7 BY ArrivingByte
<1>2. Bit(low, 1) \in {0, 1} /\ Bit(low, 2) \in {0, 1} /\ low % 2 \in {0, 1}
  BY <1>1, Pow DEF Bit
<1>3. Control(n) = Bit(low, 1) * 2 + (IF Bit(ctl[n], 0) = 1 THEN 0 ELSE low % 2)
                   + (IF Bit(ctl[n], 2) = 0 THEN 0 ELSE Bit(low, 2) * 4)
  BY DEF Control
<1> HIDE DEF low
<1>4. QED BY <1>2, <1>3

\* ReadData reads a byte, and a narrow cable half a byte at a time.
LEMMA ReadRange ==
  ASSUME TypeOK, NEW n \in Nodes
  PROVE  ReadData(n) \in 0..255 /\ (~Is(n, "WATCOM") => ReadUnit(n) \in 0..15)
<1>1. ReadData(n) \in 0..255 BY StatusRange, ControlRange DEF ReadData
<1>2. (Status(n) \div 8) % 16 \in 0..15 BY StatusRange
<1>3. QED BY <1>1, <1>2 DEF ReadUnit

\* DataPut sends a byte, or half of one.
LEMMA UnitRange ==
  ASSUME TypeOK, NEW n \in Nodes
  PROVE  Unit(n) \in 0..255 /\ (~Is(n, "WATCOM") => Unit(n) \in 0..15)
<1>1. PICK b \in 0..255 : b = byte[n] BY DEF TypeOK
<1>2. b \div 16 \in 0..15 /\ b % 16 \in 0..15 BY SMT
<1>3. QED BY <1>1, <1>2 DEF Unit

-----------------------------------------------------------------------------
(* Types *)

\* The types hold when both sides have run RemoteLink.
LEMMA InitTypes == Init => Types
<1> SUFFICES ASSUME Init PROVE Types OBVIOUS
<1>1. TypeOK
  <2>1. pulses \in [Nodes -> 0..Pulses] BY ParConnectConstants DEF Init
  <2>2. data \in [Nodes -> 0..255] BY DEF Init, TWIDLE_OFF
  <2>3. pc["server"] # "failed" /\ pc["client"] # "poll" BY DEF Init, Nodes
  <2>4. TwidleCount \in [Nodes -> 0..255] /\ byte \in [Nodes -> 0..255] BY DEF Init
  <2>5. send \in 0..128 /\ ticked \in Nodes BY DEF Init, Nodes
  <2>6. CableType \in [Nodes -> Vals \cup {NULL_VAL}] BY DEF Init
  <2>7. TwidleOn \in [Nodes -> BOOLEAN] /\ high \in [Nodes -> BOOLEAN] /\ got_twidles \in BOOLEAN
    BY DEF Init
  <2>8. ctl \in [Nodes -> {0, 1, 4, 12}] BY DEF Init
  <2>9. cable \in CablesUsed /\ dead \in Dead(cable) /\ slow \in Slow BY DEF Init
  <2>10. QED BY <2>1, <2>2, <2>3, <2>4, <2>5, <2>6, <2>7, <2>8, <2>9 DEF TypeOK
<1>2. pc \in [Nodes -> Places] BY DEF Init, Nodes, Places, Begins
<1>3. ASSUME NEW m \in Nodes PROVE Typed(m)
  BY <1>3 DEF Init, Typed, Nodes, Begins, Testing, Gets, Puts, Is, SecondHalf
<1>4. Sent
  <2>1. pc["server"] = "poll" /\ send = 0 BY DEF Init, Nodes
  <2>2. QED BY <2>1 DEF Sent, Testing, Gets, Puts, Begins
<1>5. QED BY <1>1, <1>2, <1>3, <1>4 DEF Types

\* CountTwidle: the counts stay a char, the cable type one of the values.
LEMMA TypeCounts ==
  ASSUME Types, NEW n \in Nodes,
         NEW from \in {{"poll"}, {"on", "off"}}, NEW to \in {"twidle", "lower"},
         n = "server" => from = {"poll"} /\ to = "twidle",
         n = "client" => from = {"on", "off"} /\ to = "lower",
         CountTwidle(n, from, to)
  PROVE  TypeOK'
<1>1. ReadData(n) \in 0..255 BY ReadRange DEF Types
<1>2. ~TwidleOn[n] => ReadData(n) \in Vals BY DEF CountTwidle, Counts, Sees
<1>4. TwidleOn' \in [Nodes -> BOOLEAN] BY DEF CountTwidle, Counts, Types, TypeOK
<1>5. TwidleCount' \in [Nodes -> 0..255] BY DEF CountTwidle, Counts, Types, TypeOK
<1>6. CableType' \in [Nodes -> Vals \cup {NULL_VAL}]
  BY <1>2 DEF CountTwidle, Counts, Types, TypeOK
<1>7. pc' = pc \/ pc' = [pc EXCEPT ![n] = to] BY DEF CountTwidle, Goto
<1>8. pc'["server"] # "failed" /\ pc'["client"] # "poll"
   BY <1>7 DEF Types, TypeOK, Nodes
<1>3. QED BY <1>4, <1>5, <1>6, <1>8 DEF CountTwidle, Types, TypeOK, world, testVars

\* CountTwidle keeps all of the types.
LEMMA TypesCounts ==
  ASSUME Types, NEW n \in Nodes,
         NEW from \in {{"poll"}, {"on", "off"}}, NEW to \in {"twidle", "lower"},
         n = "server" => from = {"poll"} /\ to = "twidle",
         n = "client" => from = {"on", "off"} /\ to = "lower",
         CountTwidle(n, from, to)
  PROVE  Types'
<1>2. ~TwidleOn[n] => ReadData(n) \in Vals BY DEF CountTwidle, Counts, Sees
<1>3. TypeOK' BY TypeCounts
<1>4. pc' \in [Nodes -> Places] BY DEF CountTwidle, Types, Goto, Places, Begins
<1>5. ASSUME NEW m \in Nodes PROVE Typed(m)'
  BY <1>5, <1>2, <1>3, <1>4 DEF CountTwidle, Counts, Types, Typed, TypeOK, Goto, testVars,
       Testing, Gets, Puts, Begins, Is, SecondHalf, Nodes
<1>6. Sent'
  BY <1>2 DEF CountTwidle, Counts, Types, Typed, TypeOK, Goto, testVars, Testing, Gets, Puts,
       Begins, Nodes, Sent
<1>7. QED BY <1>3, <1>4, <1>5, <1>6 DEF Types

\* Twidle raises the lines: no more pulses than it may send.
LEMMA TypePulseOn ==
  ASSUME Types, NEW n \in Nodes, PulseOn(n)
  PROVE  TypeOK'
<1>1. data' \in [Nodes -> 0..255] BY DEF PulseOn, Types, TypeOK, TWIDLE_ON
<1>2. pulses' \in [Nodes -> 0..Pulses]
  <2>1. pc[n] = "off" => pulses[n] < Pulses BY DEF PulseOn
  <2>2. QED BY <2>1, ParConnectConstants DEF PulseOn, Types, TypeOK
<1>3. ticked' \in Nodes BY DEF PulseOn, TickOver, Types, TypeOK
<1>4. pc'["server"] # "failed" /\ pc'["client"] # "poll"
  BY DEF PulseOn, Types, TypeOK, Goto, Nodes
<1>5. QED BY <1>1, <1>2, <1>3, <1>4 DEF PulseOn, Types, TypeOK, world, testVars

\* Twidle lowers them, ends, or meets the client's lines low.
LEMMA TypePulseOff ==
  ASSUME Types, NEW n \in Nodes, PulseOff(n) \/ TwidleEnds(n) \/ (n = "server" /\ ServerSynch)
  PROVE  TypeOK'
<1>1. data' \in [Nodes -> 0..255]
  <2>1. CASE PulseOff(n) BY <2>1 DEF PulseOff, Types, TypeOK, TWIDLE_OFF
  <2>2. CASE TwidleEnds(n) BY <2>2 DEF TwidleEnds, Types, TypeOK
  <2>3. CASE ServerSynch BY <2>3 DEF ServerSynch, Types, TypeOK
  <2>4. QED BY <2>1, <2>2, <2>3
<1>3. ticked' \in Nodes BY DEF PulseOff, TwidleEnds, ServerSynch, TickOver, Types, TypeOK
<1>4. pc'["server"] # "failed" /\ pc'["client"] # "poll"
  <2>1. CASE PulseOff(n) BY <2>1 DEF PulseOff, Goto, Types, TypeOK, Nodes
  <2>2. CASE TwidleEnds(n) BY <2>2 DEF TwidleEnds, Goto, Types, TypeOK, Nodes
  <2>3. CASE ServerSynch BY <2>3 DEF ServerSynch, Goto, Types, TypeOK, Nodes
  <2>4. QED BY <2>1, <2>2, <2>3
<1>5. UNCHANGED <<cable, dead, slow, ctl, CableType, TwidleOn, TwidleCount, pulses, byte,
                  high, send>> /\ got_twidles' \in BOOLEAN
  BY DEF PulseOff, TwidleEnds, ServerSynch, Types, TypeOK, world, testVars, twidles
<1>6. QED BY <1>1, <1>3, <1>4, <1>5 DEF Types, TypeOK

\* Whoever twidles as the server has found the cable type.
LEMMA TypedPulse ==
  ASSUME Types, NEW n \in Nodes,
         PulseOn(n) \/ PulseOff(n) \/ TwidleEnds(n) \/ (n = "server" /\ ServerSynch)
  PROVE  /\ \A m \in Nodes : Typed(m)'
         /\ Sent'
<1>1. UNCHANGED <<CableType, TwidleOn, byte, high, send>>
  BY DEF PulseOn, PulseOff, TwidleEnds, ServerSynch, testVars, twidles
<1>2. PICK to \in {"on", "off", "lower", "failed"} : pc' = [pc EXCEPT ![n] = to]
        /\ (n = "server" => to # "failed")
  BY DEF PulseOn, PulseOff, TwidleEnds, ServerSynch, Goto
<1>3. pc[n] \in Begins BY DEF PulseOn, PulseOff, TwidleEnds, ServerSynch, Begins
<1>4. n = "server" => CableType[n] \in Vals BY <1>3 DEF Types, Sent
<1>5. to = "lower" => n = "server"
  <2>1. pc[n] \in Places /\ n \in DOMAIN pc /\ pc'[n] = to BY <1>2 DEF Types
  <2>2. CASE PulseOn(n) BY <2>1, <2>2 DEF PulseOn, Goto
  <2>3. CASE PulseOff(n) BY <2>1, <2>3 DEF PulseOff, Goto
  <2>4. CASE TwidleEnds(n)
    <3>1. pc'[n] = IF n = "client" THEN "failed" ELSE "lower" BY <2>1, <2>4 DEF TwidleEnds, Goto
    <3>2. QED BY <2>1, <3>1 DEF Nodes
  <2>5. QED BY <2>2, <2>3, <2>4
<1>6. ASSUME NEW m \in Nodes PROVE Typed(m)'
  BY <1>6, <1>1, <1>2, <1>3, <1>4, <1>5 DEF Types, Typed, TypeOK, Testing, Gets, Puts, Begins,
       Is, SecondHalf
<1>7. Sent'
  BY <1>1, <1>2, <1>3, <1>4, <1>5 DEF Types, TypeOK, Testing, Gets, Puts, Begins, Sent
<1>8. QED BY <1>6, <1>7

\* Twidle keeps all of the types.
LEMMA TypesPulse ==
  ASSUME Types, NEW n \in Nodes,
         PulseOn(n) \/ PulseOff(n) \/ TwidleEnds(n) \/ (n = "server" /\ ServerSynch)
  PROVE  Types'
<1>1. TypeOK' BY TypePulseOn, TypePulseOff
<1>2. pc' \in [Nodes -> Places]
  BY DEF PulseOn, PulseOff, TwidleEnds, ServerSynch, Types, Goto, Places, Begins
<1>3. QED BY <1>1, <1>2, TypedPulse DEF Types

\* The lines go low, the line test begins, or a wait runs out.
LEMMA TypeLower ==
  ASSUME Types, NEW n \in Nodes, LowerLines(n) \/ SynchOver(n) \/ TimeOut(n)
  PROVE  TypeOK'
<1>1. data' \in [Nodes -> 0..255] /\ ctl' \in [Nodes -> {0, 1, 4, 12}]
  BY DEF LowerLines, SynchOver, TimeOut, Types, TypeOK
<1>2. byte' \in [Nodes -> 0..255] /\ high' \in [Nodes -> BOOLEAN] /\ send' \in 0..128
  <2>1. LineTest(n) \/ UNCHANGED testVars BY DEF LowerLines, SynchOver, TimeOut
  <2>2. CASE LineTest(n)
    <3>1. \/ byte' = [byte EXCEPT ![n] = 1] /\ send' = 1
          \/ byte' = [byte EXCEPT ![n] = 0] /\ send' = send
      BY <2>2 DEF LineTest, PutByte, GetByte
    <3>2. high' = [high EXCEPT ![n] = FALSE] BY <2>2 DEF LineTest, PutByte, GetByte
    <3>3. QED BY <3>1, <3>2 DEF Types, TypeOK
  <2>3. CASE UNCHANGED testVars BY <2>3 DEF testVars, Types, TypeOK
  <2>4. QED BY <2>1, <2>2, <2>3
<1>3. pc'["server"] # "failed" /\ pc'["client"] # "poll"
  BY DEF LowerLines, SynchOver, TimeOut, Fail, LineTest, PutByte, GetByte, Types, TypeOK, Goto,
       Nodes
<1>4. QED
  BY <1>1, <1>2, <1>3 DEF LowerLines, SynchOver, TimeOut, Types, TypeOK, world, twidles

\* These keep all of the types.
LEMMA TypesLower ==
  ASSUME Types, NEW n \in Nodes, LowerLines(n) \/ SynchOver(n) \/ TimeOut(n)
  PROVE  Types'
<1>1. TypeOK' BY TypeLower
<1>2. pc' \in [Nodes -> Places]
  BY DEF LowerLines, SynchOver, TimeOut, Fail, LineTest, PutByte, GetByte, Types, Goto, Places,
       Begins, Testing, Puts, Gets
<1>3. ASSUME NEW m \in Nodes PROVE Typed(m)'
  BY <1>3 DEF LowerLines, SynchOver, TimeOut, Fail, LineTest, PutByte, GetByte, twidles, Types,
       Typed, TypeOK, Goto, testVars, Testing, Gets, Puts, Begins, Is, SecondHalf, Nodes, Sent
<1>4. Sent'
  BY DEF LowerLines, SynchOver, TimeOut, Fail, LineTest, PutByte, GetByte, twidles, Types,
       Typed, TypeOK, Goto, testVars, Testing, Gets, Puts, Begins, Nodes, Sent, Powers
<1>5. QED BY <1>1, <1>2, <1>3, <1>4 DEF Types

\* The accesses of DataGet and DataPut to the ports.
LEMMA TypesAccess ==
  ASSUME Types, NEW n \in Nodes, RaiseCtl2(n) \/ SeeCtl1Hi(n) \/ LowerCtl2(n) \/ SeeCtl2Hi(n)
           \/ Write(n) \/ RaiseCtl1(n) \/ SeeCtl2Lo(n)
  PROVE  Types'
<1> DEFINE u == Unit(n) + (IF Is(n, "LAPLINK") THEN 16 ELSE 0)
<1>0. u \in 0..255 BY UnitRange DEF Types, Is, Val
<1>1. TypeOK'
  <2>1. data' \in [Nodes -> 0..255]
    <3> HIDE DEF u
    <3>1. CASE Write(n)
      <4>1. data' = [data EXCEPT ![n] = u] BY <3>1 DEF Write, u
      <4>2. QED BY <4>1, <1>0 DEF Types, TypeOK
    <3>2. CASE ~Write(n)
      BY <3>2 DEF RaiseCtl2, SeeCtl1Hi, LowerCtl2, SeeCtl2Hi, RaiseCtl1, SeeCtl2Lo, Types,
           TypeOK
    <3>3. QED BY <3>1, <3>2
  <2>2. QED
    BY <2>1 DEF RaiseCtl2, SeeCtl1Hi, LowerCtl2, SeeCtl2Hi, Write, RaiseCtl1, SeeCtl2Lo,
         Access, Types, TypeOK, Goto, world, testVars, twidles, Nodes
<1>2. pc' \in [Nodes -> Places]
  BY DEF RaiseCtl2, SeeCtl1Hi, LowerCtl2, SeeCtl2Hi, Write, RaiseCtl1, SeeCtl2Lo, Access,
       Types, Goto, Places, Testing, Puts, Gets
<1>3. ASSUME NEW m \in Nodes PROVE Typed(m)'
  BY <1>3 DEF RaiseCtl2, SeeCtl1Hi, LowerCtl2, SeeCtl2Hi, Write, RaiseCtl1, SeeCtl2Lo, Access,
       twidles, Types, Typed, TypeOK, Goto, testVars, Testing, Gets, Puts, Begins, Is,
       SecondHalf, Nodes, Sent
<1>4. Sent'
  BY DEF RaiseCtl2, SeeCtl1Hi, LowerCtl2, SeeCtl2Hi, Write, RaiseCtl1, SeeCtl2Lo, Access,
       twidles, Types, Typed, TypeOK, Goto, testVars, Testing, Gets, Puts, Begins, Nodes, Sent
<1>5. QED BY <1>1, <1>2, <1>3, <1>4 DEF Types

\* A byte, or its first half, is read into nothing; the second half goes above the first.
LEMMA ReadByte ==
  ASSUME Types, NEW n \in Nodes, Read(n)
  PROVE  /\ ReadUnit(n) \in 0..255 /\ (~Is(n, "WATCOM") => ReadUnit(n) \in 0..15)
         /\ ~high[n] => byte[n] = 0 /\ byte' = [byte EXCEPT ![n] = ReadUnit(n)]
         /\ high[n] => /\ ~Is(n, "WATCOM") /\ byte[n] \in 0..15
                       /\ byte' = [byte EXCEPT ![n] = byte[n] + ReadUnit(n) * 16]
<1>1. ReadUnit(n) \in 0..255 /\ (~Is(n, "WATCOM") => ReadUnit(n) \in 0..15)
  BY ReadRange DEF Types, ReadUnit
<1>2. pc[n] = "read" /\ high[n] \in BOOLEAN /\ byte[n] \in 0..255 BY DEF Read, Types, TypeOK
<1>3. CASE ~high[n]
  <2>1. byte[n] < 1 BY <1>2, <1>3 DEF Types, Typed
  <2>2. byte[n] = 0 BY <2>1, <1>2
  <2>3. byte' = [byte EXCEPT ![n] = 0 + ReadUnit(n) * 1] BY <1>3, <2>2 DEF Read
  <2>4. 0 + ReadUnit(n) * 1 = ReadUnit(n) BY <1>1
  <2>5. QED BY <1>1, <1>3, <2>2, <2>3, <2>4
<1>4. CASE high[n]
  <2>1. byte[n] < 16 /\ ~Is(n, "WATCOM") BY <1>2, <1>4 DEF Types, Typed, Testing, Gets
  <2>2. byte[n] \in 0..15 BY <1>2, <2>1
  <2>3. byte' = [byte EXCEPT ![n] = byte[n] + ReadUnit(n) * 16] BY <1>4 DEF Read
  <2>4. QED BY <1>1, <1>4, <2>1, <2>2, <2>3
<1>5. QED BY <1>2, <1>3, <1>4

\* Reading keeps all of the types: the byte put together is a byte.
LEMMA TypesRead ==
  ASSUME Types, NEW n \in Nodes, Read(n)
  PROVE  Types'
<1>1. PICK v \in 0..255 : byte' = [byte EXCEPT ![n] = v] /\ (~high[n] /\ ~Is(n, "WATCOM") => v < 16)
  <2>1. CASE ~high[n] BY <2>1, ReadByte
  <2>2. CASE high[n]
    <3>1. byte[n] + ReadUnit(n) * 16 \in 0..255 BY <2>2, ReadByte
    <3>2. QED BY <2>2, <3>1, ReadByte
  <2>3. QED BY <2>1, <2>2
<1>2. TypeOK' BY <1>1 DEF Read, Types, TypeOK, Goto, world, twidles, Nodes
<1>3. pc' \in [Nodes -> Places] BY DEF Read, Types, Goto, Places, Testing, Puts, Gets
<1>4. ASSUME NEW m \in Nodes PROVE Typed(m)'
  BY <1>4, <1>1 DEF Read, twidles, Types, Typed, TypeOK, Goto, Testing, Gets, Puts, Begins, Is,
       SecondHalf, Nodes, Sent
<1>5. Sent'
  BY <1>1 DEF Read, twidles, Types, Typed, TypeOK, Goto, Testing, Gets, Puts, Begins, Nodes,
       Sent
<1>6. QED BY <1>2, <1>3, <1>4, <1>5 DEF Types

\* A byte has been read or sent: the next one of the line test is a byte.
LEMMA TypeLo ==
  ASSUME Types, NEW n \in Nodes, SeeCtl1Lo(n) \/ LowerCtl1(n)
  PROVE  TypeOK'
<1>1. data' \in [Nodes -> 0..255] /\ ctl' \in [Nodes -> {0, 1, 4, 12}]
  BY DEF SeeCtl1Lo, LowerCtl1, ByteRead, Types, TypeOK
<1>0. pc["server"] \in Testing => send \in Powers /\ (send # 128 => send * 2 \in Powers)
  BY DEF Types, Sent, Powers
<1>2. byte' \in [Nodes -> 0..255] /\ high' \in [Nodes -> BOOLEAN] /\ send' \in 0..128
  <2>1. \/ byte' = byte \/ byte' = [byte EXCEPT ![n] = 0] \/ byte' = [byte EXCEPT ![n] = 255]
        \/ byte' = [byte EXCEPT ![n] = byte["client"]]
        \/ pc["server"] = "wait1lo" /\ send # 128 /\ byte' = [byte EXCEPT ![n] = send * 2]
    <3>1. CASE LowerCtl1(n) BY <3>1 DEF LowerCtl1, GetByte
    <3>2. CASE SeeCtl1Lo(n) /\ n = "server"
        BY <3>2 DEF SeeCtl1Lo, ByteRead, Tested, TestedAll, PutByte, testVars, DONE_LINE_TEST
    <3>3. CASE SeeCtl1Lo(n) /\ n = "client"
        BY <3>3 DEF SeeCtl1Lo, ByteRead, Echo, PutByte
    <3>4. QED BY <3>1, <3>2, <3>3 DEF Nodes
  <2>5. high' = high \/ high' = [high EXCEPT ![n] = FALSE] \/ high' = [high EXCEPT ![n] = TRUE]
    <3>1. CASE LowerCtl1(n) BY <3>1 DEF LowerCtl1, GetByte
    <3>2. CASE SeeCtl1Lo(n) /\ n = "server"
        BY <3>2 DEF SeeCtl1Lo, ByteRead, Tested, TestedAll, PutByte, testVars
    <3>3. CASE SeeCtl1Lo(n) /\ n = "client"
        BY <3>3 DEF SeeCtl1Lo, ByteRead, Echo, PutByte
    <3>4. QED BY <3>1, <3>2, <3>3 DEF Nodes
  <2>2. send' = send \/ (pc["server"] = "wait1lo" /\ send # 128 /\ send' = send * 2)
    BY DEF SeeCtl1Lo, LowerCtl1, ByteRead, Tested, TestedAll, Echo, testVars
  <2>3. send' \in 0..128
    BY <1>0, <2>2 DEF Types, TypeOK, Testing, Gets, Powers
  <2>4. byte["client"] \in 0..255 BY DEF Types, TypeOK, Nodes
  <2>6. pc["server"] = "wait1lo" /\ send # 128 => send * 2 \in 0..255
    BY <1>0 DEF Testing, Gets, Powers
  <2>7. byte' \in [Nodes -> 0..255] BY <2>1, <2>4, <2>6 DEF Types, TypeOK
  <2>8. high' \in [Nodes -> BOOLEAN] BY <2>5 DEF Types, TypeOK
  <2>9. QED BY <2>3, <2>7, <2>8
<1>3. pc'["server"] # "failed" /\ pc'["client"] # "poll"
  BY DEF SeeCtl1Lo, LowerCtl1, ByteRead, Tested, TestedAll, Echo, Fail, PutByte, GetByte,
       Types, TypeOK, Goto, Nodes
<1>4. QED
  BY <1>1, <1>2, <1>3 DEF SeeCtl1Lo, LowerCtl1, ByteRead, Types, TypeOK, world, twidles

\* The end of DataGet and of DataPut keeps all of the types.
LEMMA TypesLo ==
  ASSUME Types, NEW n \in Nodes, SeeCtl1Lo(n) \/ LowerCtl1(n)
  PROVE  Types'
<1>0. pc["server"] \in Testing => send \in Powers /\ (send # 128 => send * 2 \in Powers)
  BY DEF Types, Sent, Powers
<1>1. TypeOK' BY TypeLo
<1>2. pc' \in [Nodes -> Places]
  BY DEF SeeCtl1Lo, LowerCtl1, ByteRead, Tested, TestedAll, Echo, Fail, PutByte, GetByte,
       Types, Goto, Places, Testing, Puts, Gets
<1>3. ASSUME NEW m \in Nodes PROVE Typed(m)'
  BY <1>3 DEF SeeCtl1Lo, LowerCtl1, ByteRead, Tested, TestedAll, Echo, Fail, PutByte, GetByte,
       twidles, Types, Typed, TypeOK, Goto, testVars, Testing, Gets, Puts, Begins, Is,
       SecondHalf, Nodes
<1>4. Sent'
  BY <1>0 DEF SeeCtl1Lo, LowerCtl1, ByteRead, Tested, TestedAll, Echo, Fail, PutByte, GetByte,
       twidles, Types, Typed, TypeOK, Goto, testVars, Testing, Gets, Puts, Begins, Nodes, Sent,
       Powers
<1>5. QED BY <1>1, <1>2, <1>3, <1>4 DEF Types

\* A debugger that is started again.
LEMMA TypesLink ==
  ASSUME Types, RemoteLink
  PROVE  Types'
<1>1. TypeOK'
  BY DEF RemoteLink, Types, TypeOK, Goto, world, testVars, Nodes, TWIDLE_OFF, NULL_VAL
<1>2. pc' \in [Nodes -> Places] BY DEF RemoteLink, Types, Goto, Places, Begins
<1>3. ASSUME NEW m \in Nodes PROVE Typed(m)'
  BY <1>3 DEF RemoteLink, Types, Typed, TypeOK, Goto, testVars, Testing, Gets, Puts, Begins,
       Is, SecondHalf, Nodes
<1>4. Sent'
  BY DEF RemoteLink, Types, TypeOK, Goto, testVars, Testing, Gets, Puts, Begins, Nodes, Sent
<1>5. QED BY <1>1, <1>2, <1>3, <1>4 DEF Types

\* A step of one side.
Step(n) ==
  \/ n = "server" /\ (ServerCounts \/ ServerSynch)
  \/ n = "client" /\ (ClientCounts \/ RemoteLink)
  \/ PulseOn(n) \/ PulseOff(n) \/ TwidleEnds(n)
  \/ LowerLines(n) \/ SynchOver(n) \/ TimeOut(n)
  \/ RaiseCtl2(n) \/ SeeCtl1Hi(n) \/ LowerCtl2(n) \/ SeeCtl2Hi(n) \/ Write(n) \/ RaiseCtl1(n)
       \/ SeeCtl2Lo(n)
  \/ Read(n) \/ SeeCtl1Lo(n) \/ LowerCtl1(n)

\* Every step is one of the client or of the server.
LEMMA Steps ==
  ASSUME Next
  PROVE  \E n \in Nodes : Step(n)
<1>1. CASE Server BY <1>1 DEF Step, Server, RemoteConnect, DataGet, DataPut, Nodes
<1>2. CASE Client \/ RemoteLink BY <1>2 DEF Step, Client, RemoteConnect, DataGet, DataPut, Nodes
<1>3. QED BY <1>1, <1>2 DEF Next

\* Nothing changes.
LEMMA TypesStay ==
  ASSUME Types, UNCHANGED vars
  PROVE  Types'
<1>1. TypeOK' BY DEF vars, world, twidles, testVars, Types, TypeOK
<1>2. Sent' BY DEF vars, world, twidles, testVars, Types, Sent
<1>3. ASSUME NEW m \in Nodes PROVE Typed(m)'
  BY <1>3 DEF vars, world, twidles, testVars, Types, Typed, Is, SecondHalf
<1>4. QED BY <1>1, <1>2, <1>3 DEF vars, Types

\* Every step keeps the types.
LEMMA NextTypes == Types /\ [Next]_vars => Types'
<1> SUFFICES ASSUME Types, [Next]_vars PROVE Types' OBVIOUS
<1>1. CASE UNCHANGED vars BY <1>1, TypesStay
<1>2. CASE Next
  <2>1. PICK n \in Nodes : Step(n)
    BY <1>2, Steps
  <2>2. CASE n = "server" /\ ServerCounts
    BY <2>2, TypesCounts DEF ServerCounts, Nodes
  <2>3. CASE n = "client" /\ ClientCounts
    BY <2>3, TypesCounts DEF ClientCounts, Nodes
  <2>4. CASE PulseOn(n) \/ PulseOff(n) \/ TwidleEnds(n) \/ (n = "server" /\ ServerSynch)
    BY <2>4, TypesPulse
  <2>5. CASE LowerLines(n) \/ SynchOver(n) \/ TimeOut(n) BY <2>5, TypesLower
  <2>6. CASE RaiseCtl2(n) \/ SeeCtl1Hi(n) \/ LowerCtl2(n) \/ SeeCtl2Hi(n) \/ Write(n)
               \/ RaiseCtl1(n) \/ SeeCtl2Lo(n)
    BY <2>6, TypesAccess
  <2>7. CASE Read(n) BY <2>7, TypesRead
  <2>8. CASE SeeCtl1Lo(n) \/ LowerCtl1(n) BY <2>8, TypesLo
  <2>9. CASE RemoteLink BY <2>9, TypesLink
  <2>10. QED BY <2>1, <2>2, <2>3, <2>4, <2>5, <2>6, <2>7, <2>8, <2>9 DEF Step
<1>3. QED BY <1>1, <1>2

\* Type correctness of both RemoteConnects (parlink.c): ports and bytes hold
\* bytes, TwidleCount a char, no more pulses are sent than Twidle may send, a
\* side past its pulses has a cable type, and the byte of the line test is a
\* power of two.  A byte is put together from halves without overflow.
THEOREM TypesHold == Spec => []Types
BY InitTypes, NextTypes, PTL DEF Spec

-----------------------------------------------------------------------------
(* What the values can be over a cable with a dead line *)

\* The values the code writes itself can occur in a line test.
LEMMA GoodConstants ==
  ASSUME NEW c
  PROVE  /\ GoodType(c, 0) /\ GoodByte(c, 0)
         /\ GoodData(c, 0) /\ GoodData(c, 8) /\ GoodData(c, 24) /\ GoodData(c, 26)
         /\ \A b \in Powers : GoodByte(c, b)
BY DEF GoodType, GoodByte, GoodData, Wide, Nibbles, Powers

\* What crosses the cable, and what a program takes it for.
LEMMA ArrivingGood ==
  ASSUME Types, dead # NoLine, NEW n \in Nodes, GoodData(cable, data[Peer(n)])
  PROVE  GoodData(cable, Arriving(n))
<1>1. CASE dead[1] = Peer(n) /\ dead[2] # CTL1
  <2>1. dead[2] \in LinesOf(cable) \ {CTL1} /\ dead[2] \in 0..8 BY <1>1, DeadLine DEF Types
  <2>2. Arriving(n) = Cleared(data[Peer(n)], dead[2]) BY <1>1, Through DEF Types
  <2>3. CASE cable = "WATCOM"
    <3>1. dead[2] \in 0..7 BY <2>1 DEF CTL1
    <3>2. QED BY <2>2, <2>3, <3>1, ClearWide DEF GoodData
  <2>4. CASE cable # "WATCOM"
    <3>1. dead[2] \in 0..4 BY <2>1, <2>4 DEF CTL1, LinesOf
    <3>2. QED BY <2>2, <2>4, <3>1, ClearNibble DEF GoodData
  <2>5. QED BY <2>3, <2>4
<1>2. CASE ~(dead[1] = Peer(n) /\ dead[2] # CTL1) BY <1>2, Through DEF Types
<1>3. QED BY <1>1, <1>2

\* What ReadData makes of a byte on the WATCOM cable: it adds no bit.
LEMMA ReadWide ==
  ASSUME cable = "WATCOM", NEW n \in Nodes, Arriving(n) \in Wide
  PROVE  /\ ReadData(n) \in Wide
         /\ ReadData(n) \in Vals => ReadData(n) = 26 /\ Arriving(n) = 26
         /\ \A k \in 0..7 : Bit(Arriving(n), k) = 0 => Bit(ReadData(n), k) = 0
<1>1. PICK a \in Wide : a = Arriving(n) OBVIOUS
<1>2. PICK p \in BOOLEAN, q \in BOOLEAN : p = (Bit(ctl[n], 0) = 1)
        /\ q = (Bit(ctl[n], 2) = 0) OBVIOUS
<1>3. ReadData(n) = (a \div 8) * 8 + (Bit(a % 8, 1) * 2 + (IF p THEN 0 ELSE (a % 8) % 2)
                      + (IF q THEN 0 ELSE Bit(a % 8, 2) * 4))
  BY <1>1, <1>2 DEF ReadData, Status, Control
<1>4. a % 8 \in 0..7 /\ (a \div 8) \in 0..31 /\ a \in 0..255 BY DEF Wide, Powers
<1>5. Bit(a % 8, 1) = ((a % 8) \div 2) % 2 /\ Bit(a % 8, 2) = ((a % 8) \div 4) % 2
  <2>1. a % 8 \in Nat BY <1>4
  <2>2. QED BY <2>1, Bits
<1>6. PICK r \in 0..255 : r = ReadData(n) /\ r =
        (a \div 8) * 8 + ((((a % 8) \div 2) % 2) * 2 + (IF p THEN 0 ELSE (a % 8) % 2)
                      + (IF q THEN 0 ELSE (((a % 8) \div 4) % 2) * 4))
  BY <1>3, <1>4, <1>5
<1>7. r \in Wide /\ (r \in Vals => r = 26 /\ a = 26)
  BY <1>6 DEF Wide, Powers, Vals, Val
<1>8. ASSUME NEW k \in 0..7, Bit(a, k) = 0 PROVE Bit(r, k) = 0
  <2>0. a \in Nat /\ r \in Nat BY <1>4
  <2>1. CASE k = 0
    <3>1. a % 2 = 0 BY <2>0, <2>1, <1>8, Bits
    <3>2. r % 2 = 0 BY <3>1, <1>4, <1>6 DEF Wide, Powers
    <3>3. QED BY <2>0, <2>1, <3>2, Bits
  <2>2. CASE k = 1
    <3>1. (a \div 2) % 2 = 0 BY <2>0, <2>2, <1>8, Bits
    <3>2. (r \div 2) % 2 = 0 BY <3>1, <1>4, <1>6 DEF Wide, Powers
    <3>3. QED BY <2>0, <2>2, <3>2, Bits
  <2>3. CASE k = 2
    <3>1. (a \div 4) % 2 = 0 BY <2>0, <2>3, <1>8, Bits
    <3>2. (r \div 4) % 2 = 0 BY <3>1, <1>4, <1>6 DEF Wide, Powers
    <3>3. QED BY <2>0, <2>3, <3>2, Bits
  <2>4. CASE k = 3
    <3>1. (a \div 8) % 2 = 0 BY <2>0, <2>4, <1>8, Bits
    <3>2. (r \div 8) % 2 = 0 BY <3>1, <1>4, <1>6 DEF Wide, Powers
    <3>3. QED BY <2>0, <2>4, <3>2, Bits
  <2>5. CASE k = 4
    <3>1. (a \div 16) % 2 = 0 BY <2>0, <2>5, <1>8, Bits
    <3>2. (r \div 16) % 2 = 0 BY <3>1, <1>4, <1>6 DEF Wide, Powers
    <3>3. QED BY <2>0, <2>5, <3>2, Bits
  <2>6. CASE k = 5
    <3>1. (a \div 32) % 2 = 0 BY <2>0, <2>6, <1>8, Bits
    <3>2. (r \div 32) % 2 = 0 BY <3>1, <1>4, <1>6 DEF Wide, Powers
    <3>3. QED BY <2>0, <2>6, <3>2, Bits
  <2>7. CASE k = 6
    <3>1. (a \div 64) % 2 = 0 BY <2>0, <2>7, <1>8, Bits
    <3>2. (r \div 64) % 2 = 0 BY <3>1, <1>4, <1>6 DEF Wide, Powers
    <3>3. QED BY <2>0, <2>7, <3>2, Bits
  <2>8. CASE k = 7
    <3>1. (a \div 128) % 2 = 0 BY <2>0, <2>8, <1>8, Bits
    <3>2. (r \div 128) % 2 = 0 BY <3>1, <1>4, <1>6 DEF Wide, Powers
    <3>3. QED BY <2>0, <2>8, <3>2, Bits
  <2>9. QED BY <2>1, <2>2, <2>3, <2>4, <2>5, <2>6, <2>7, <2>8
<1>9. QED BY <1>1, <1>6, <1>7, <1>8

\* What it makes of a byte on the other two: they differ in bit 7.
LEMMA ReadNarrow ==
  ASSUME cable \in {"LAPLINK", "DUTCHMAN"}, NEW n \in Nodes, Arriving(n) \in 0..31,
         Arriving(n) % 16 \in Nibbles
  PROVE  /\ (Status(n) \div 8) % 16 = Arriving(n) % 16
         /\ ReadData(n) \in Vals =>
              /\ ReadData(n) \in {82, 210} /\ Arriving(n) % 16 = 10
              /\ ReadData(n) = 210 <=> IF cable = "LAPLINK" THEN Arriving(n) = 26
                   ELSE ~Drives(n, Peer(n), 0)
<1>1. PICK a \in 0..31 : a = Arriving(n) OBVIOUS
<1>2. PICK v \in {0, 128} :
        v = IF cable = "LAPLINK" THEN IF a >= 16 THEN 128 ELSE 0
            ELSE IF Drives(n, Peer(n), 0) THEN 0 ELSE 128
  OBVIOUS
<1>3. Status(n) = (a % 16) * 8 + v
  <2>1. CASE cable = "LAPLINK"
    <3>1. Status(n) = (a % 32) * 8 BY <1>1, <2>1 DEF Status
    <3>2. QED BY <3>1, <1>2, <2>1
  <2>2. CASE cable = "DUTCHMAN" BY <1>1, <1>2, <2>2 DEF Status
  <2>3. QED BY <2>1, <2>2
<1>4. PICK x \in 2..7 : x = Control(n)
  <2>1. Bit(7, 1) = 1 /\ Bit(7, 2) = 1 BY Bits
  <2>2. Control(n) = 1 * 2 + (IF Bit(ctl[n], 0) = 1 THEN 0 ELSE 7 % 2)
                      + (IF Bit(ctl[n], 2) = 0 THEN 0 ELSE 1 * 4)
    BY <2>1 DEF Control
  <2>3. QED BY <2>2
<1>5. ReadData(n) = (a % 16) * 8 + v + x BY <1>3, <1>4 DEF ReadData
<1>6. (Status(n) \div 8) % 16 = a % 16 BY <1>3
<1>7. a % 16 \in Nibbles BY <1>1
<1>8. ReadData(n) \in Vals => ReadData(n) \in {82, 210} /\ a % 16 = 10
        /\ (ReadData(n) = 210 <=> v = 128)
  <2>1. PICK u \in Nibbles : u = a % 16 BY <1>7
  <2>2. ReadData(n) = u * 8 + v + x BY <1>5, <2>1
  <2>3. QED BY <2>1, <2>2 DEF Vals, Val, Nibbles
<1>9. a % 16 = 10 => (a >= 16 <=> a = 26) BY <1>1
<1>10. cable = "LAPLINK" => (v = 128 <=> a >= 16) BY <1>2
<1>11. cable = "DUTCHMAN" => (v = 128 <=> ~Drives(n, Peer(n), 0)) BY <1>2
<1>12. QED BY <1>1, <1>6, <1>8, <1>9, <1>10, <1>11

\* What a step of n does to each variable.
LEMMA WorldStays == ASSUME NEW n \in Nodes, Step(n) PROVE UNCHANGED world
BY DEF Step, ServerCounts, ServerSynch, ClientCounts, CountTwidle, RemoteLink, PulseOn,
     PulseOff, TwidleEnds, LowerLines, SynchOver, TimeOut, RaiseCtl2, SeeCtl1Hi, LowerCtl2,
     SeeCtl2Hi, Write, RaiseCtl1, SeeCtl2Lo, Access, Read, SeeCtl1Lo, ByteRead, LowerCtl1

\* Who sets the cable type: CountTwidle, to what it has just read.
LEMMA TypeChanges ==
  ASSUME Types, NEW n \in Nodes, Step(n)
  PROVE  \/ CableType' = CableType
         \/ n = "client" /\ RemoteLink /\ CableType' = [CableType EXCEPT !["client"] = 0]
         \/ ((n = "server" /\ ServerCounts) \/ (n = "client" /\ ClientCounts))
            /\ ~TwidleOn[n] /\ ReadData(n) \in Vals
            /\ CableType' = [CableType EXCEPT ![n] = ReadData(n)] /\ pc' = pc
<1>0. CableType = [CableType EXCEPT ![n] = CableType[n]] BY DEF Types, TypeOK
<1>1. ASSUME Counts(n)
      PROVE  IF TwidleOn[n] THEN CableType' = CableType
             ELSE ReadData(n) \in Vals /\ CableType' = [CableType EXCEPT ![n] = ReadData(n)]
  BY <1>0, <1>1 DEF Counts, Sees
<1>2. CASE (n = "server" /\ ServerCounts) \/ (n = "client" /\ ClientCounts)
  <2>1. Counts(n) /\ (~TwidleOn[n] => pc' = pc)
    BY <1>2 DEF ServerCounts, ClientCounts, CountTwidle
  <2>2. QED BY <1>1, <1>2, <2>1
<1>3. CASE n = "client" /\ RemoteLink BY <1>3 DEF RemoteLink, NULL_VAL
<1>4. CASE ~(n = "server" /\ ServerCounts) /\ ~(n = "client" /\ (ClientCounts \/ RemoteLink))
  BY <1>4 DEF Step, ServerSynch, PulseOn, PulseOff, TwidleEnds, LowerLines, SynchOver, TimeOut,
       RaiseCtl2, SeeCtl1Hi, LowerCtl2, SeeCtl2Hi, Write, RaiseCtl1, SeeCtl2Lo, Access, Read,
       SeeCtl1Lo, ByteRead, LowerCtl1, twidles
<1>5. QED BY <1>2, <1>3, <1>4

\* Who writes the data port, and what.
LEMMA DataChanges ==
  ASSUME NEW n \in Nodes, Step(n)
  PROVE  \/ data' = data
         \/ (PulseOn(n) \/ PulseOff(n) \/ (n = "client" /\ RemoteLink))
            /\ (data' = [data EXCEPT ![n] = 24] \/ data' = [data EXCEPT ![n] = 26])
         \/ ((LowerLines(n) /\ ~Is(n, "DUTCHMAN")) \/ RaiseCtl2(n) \/ LowerCtl2(n)
              \/ (LowerCtl1(n) /\ Is(n, "LAPLINK")))
            /\ (data' = [data EXCEPT ![n] = 0] \/ data' = [data EXCEPT ![n] = 8])
         \/ Write(n) /\ data' = [data EXCEPT ![n] = Unit(n) + (IF Is(n, "LAPLINK") THEN 16 ELSE 0)]
<1>1. CASE PulseOn(n) BY <1>1 DEF PulseOn, TWIDLE_ON
<1>2. CASE PulseOff(n) BY <1>2 DEF PulseOff, TWIDLE_OFF
<1>3. CASE n = "client" /\ RemoteLink BY <1>3 DEF RemoteLink, TWIDLE_OFF
<1>4. CASE LowerLines(n)
  <2>1. CASE Is(n, "DUTCHMAN") BY <1>4, <2>1 DEF LowerLines
  <2>2. CASE ~Is(n, "DUTCHMAN") BY <1>4, <2>2 DEF LowerLines
  <2>3. QED BY <2>1, <2>2
<1>5. CASE RaiseCtl2(n) \/ LowerCtl2(n) BY <1>5 DEF RaiseCtl2, LowerCtl2
<1>6. CASE LowerCtl1(n) BY <1>6 DEF LowerCtl1
<1>7. CASE Write(n) BY <1>7 DEF Write
<1>8. CASE ~(PulseOn(n) \/ PulseOff(n) \/ (n = "client" /\ RemoteLink) \/ LowerLines(n)
             \/ RaiseCtl2(n) \/ LowerCtl2(n) \/ LowerCtl1(n) \/ Write(n))
  BY <1>8 DEF Step, ServerCounts, ServerSynch, ClientCounts, CountTwidle, TwidleEnds,
       SynchOver, TimeOut, SeeCtl1Hi, SeeCtl2Hi, RaiseCtl1, SeeCtl2Lo, Access, Read, SeeCtl1Lo,
       ByteRead
<1>9. QED BY <1>1, <1>2, <1>3, <1>4, <1>5, <1>6, <1>7, <1>8

\* Who writes the control port, and what.
LEMMA CtlChanges ==
  ASSUME NEW n \in Nodes, Step(n)
  PROVE  \/ ctl' = ctl
         \/ n = "client" /\ RemoteLink /\ ctl' = [ctl EXCEPT !["client"] = 1]
         \/ (LowerLines(n) \/ LowerCtl1(n))
            /\ \/ Is(n, "WATCOM") /\ ctl' = [ctl EXCEPT ![n] = 4]
               \/ Is(n, "DUTCHMAN") /\ ctl' = [ctl EXCEPT ![n] = 0]
         \/ RaiseCtl1(n) /\ (ctl' = [ctl EXCEPT ![n] = 1] \/ ctl' = [ctl EXCEPT ![n] = 12])
<1>3. CASE n = "client" /\ RemoteLink BY <1>3 DEF RemoteLink
<1>4. CASE LowerLines(n) BY <1>4 DEF LowerLines
<1>5. CASE LowerCtl1(n) BY <1>5 DEF LowerCtl1
<1>6. CASE RaiseCtl1(n) BY <1>6 DEF RaiseCtl1
<1>8. CASE ~((n = "client" /\ RemoteLink) \/ LowerLines(n) \/ LowerCtl1(n) \/ RaiseCtl1(n))
  BY <1>8 DEF Step, PulseOn, PulseOff, RaiseCtl2, LowerCtl2, Write, ServerCounts, ServerSynch,
       ClientCounts, CountTwidle, TwidleEnds, SynchOver, TimeOut, SeeCtl1Hi, SeeCtl2Hi,
       RaiseCtl1, SeeCtl2Lo, Access, Read, SeeCtl1Lo, ByteRead
<1>9. QED BY <1>3, <1>4, <1>5, <1>6, <1>8

\* Who changes the byte, its half, and what the server has sent.
LEMMA ByteChanges ==
  ASSUME NEW n \in Nodes, Step(n)
  PROVE  \/ byte' = byte /\ high' = high /\ send' = send
         \/ byte' = byte /\ send' = send /\ (SeeCtl1Lo(n) \/ LowerCtl1(n))
            /\ SecondHalf(n) /\ high' = [high EXCEPT ![n] = TRUE]
         \/ Read(n) /\ send' = send /\ high' = high
         \/ (LowerLines(n) \/ SynchOver(n)) /\ LineTest(n)
         \/ n = "server" /\ SeeCtl1Lo(n) /\ ~SecondHalf(n) /\ byte[n] = send /\ TestedAll
         \/ n = "client" /\ SeeCtl1Lo(n) /\ ~SecondHalf(n) /\ send' = send /\ PutByte(n, byte[n])
         \/ LowerCtl1(n) /\ ~SecondHalf(n) /\ GetByte(n) /\ send' = send
<1>1. CASE LowerLines(n) \/ SynchOver(n) BY <1>1 DEF LowerLines, SynchOver, testVars
<1>2. CASE Read(n) BY <1>2 DEF Read
<1>3. CASE SeeCtl1Lo(n) BY <1>3 DEF SeeCtl1Lo, ByteRead, Tested, Echo, testVars, Nodes
<1>4. CASE LowerCtl1(n) BY <1>4 DEF LowerCtl1
<1>5. CASE ~(LowerLines(n) \/ SynchOver(n) \/ Read(n) \/ SeeCtl1Lo(n) \/ LowerCtl1(n))
  BY <1>5 DEF Step, ServerCounts, ServerSynch, ClientCounts, CountTwidle, RemoteLink, PulseOn,
       PulseOff, TwidleEnds, TimeOut, RaiseCtl2, SeeCtl1Hi, LowerCtl2, SeeCtl2Hi, Write,
       RaiseCtl1, SeeCtl2Lo, Access, testVars
<1>6. QED BY <1>1, <1>2, <1>3, <1>4, <1>5

\* The cable is one of three.
LEMMA Cables == ASSUME Types PROVE cable \in {"WATCOM", "LAPLINK", "DUTCHMAN"}
BY ParConnectConstants DEF Types, TypeOK

AllGood == \A m \in Nodes : Values(m)

\* Initially all values can occur.
LEMMA InitGood == ASSUME Init PROVE AllGood
<1>1. ASSUME NEW m \in Nodes PROVE CableType[m] = 0 /\ data[m] = 24 /\ byte[m] = 0
  BY <1>1 DEF Init, NULL_VAL, TWIDLE_OFF
<1>2. QED BY <1>1, GoodConstants DEF AllGood, Values

\* The arriving byte and what is made of it.
LEMMA Seen ==
  ASSUME Types, dead # NoLine, AllGood, NEW n \in Nodes
  PROVE  /\ GoodData(cable, Arriving(n))
         /\ ReadData(n) \in Vals => GoodType(cable, ReadData(n))
         /\ Is(n, "WATCOM") \/ CableType[n] = 26 => cable = "WATCOM"
         /\ Is(n, "WATCOM") => ReadUnit(n) \in Wide
         /\ cable # "WATCOM" => ReadUnit(n) = Arriving(n) % 16 /\ ReadUnit(n) \in Nibbles
<1>1. GoodData(cable, Arriving(n)) BY ArrivingGood, Peers DEF AllGood, Values
<1>2. Is(n, "WATCOM") \/ CableType[n] = 26 => cable = "WATCOM"
  BY DEF AllGood, Values, GoodType, Is, Val
<1>3. CASE cable = "WATCOM"
  <2>1. Arriving(n) \in Wide BY <1>1, <1>3 DEF GoodData
  <2>2. QED BY <1>1, <1>2, <1>3, <2>1, ReadWide DEF GoodType, ReadUnit
<1>4. CASE cable \in {"LAPLINK", "DUTCHMAN"}
  <2>1. Arriving(n) \in 0..31 /\ Arriving(n) % 16 \in Nibbles BY <1>1, <1>4 DEF GoodData
  <2>2. ~Is(n, "WATCOM") BY <1>2, <1>4
  <2>3. QED BY <1>1, <1>2, <1>4, <2>1, <2>2, ReadNarrow DEF GoodType, ReadUnit
<1>5. QED BY <1>3, <1>4, Cables

\* After the pulses each side has a cable type, of the cable's width.
LEMMA PastBegins ==
  ASSUME Types, dead # NoLine, AllGood, NEW n \in Nodes, pc[n] \notin Begins \cup {"poll", "failed"}
  PROVE  /\ cable = "WATCOM" <=> Is(n, "WATCOM")
         /\ cable # "WATCOM" => CableType[n] \in {82, 210}
         /\ CableType[n] # 0
<1>1. CableType[n] \in Vals /\ GoodType(cable, CableType[n])
  BY DEF Types, Typed, AllGood, Values
<1>2. QED BY <1>1 DEF GoodType, Vals, Val, Is

\* A byte read is one that can occur,
LEMMA ReadGood ==
  ASSUME Types, dead # NoLine, AllGood, NEW n \in Nodes, Read(n)
  PROVE  GoodByte(cable, byte'[n])
<1>1. pc[n] = "read" BY DEF Read
<1>2. cable = "WATCOM" <=> Is(n, "WATCOM") BY <1>1, PastBegins DEF Begins
<1>3. CASE cable = "WATCOM"
  <2>1. ~high[n] BY <1>1, <1>2, <1>3, ReadByte
  <2>2. byte' = [byte EXCEPT ![n] = ReadUnit(n)] BY <2>1, ReadByte
  <2>3. byte'[n] = ReadUnit(n) BY <2>2 DEF Types, TypeOK
  <2>4. QED BY <1>2, <1>3, <2>3, Seen DEF GoodByte
<1>4. CASE cable # "WATCOM"
  <2>1. PICK u \in Nibbles : u = ReadUnit(n) BY <1>4, Seen
  <2>2. CASE ~high[n]
    <3>1. byte'[n] = u BY <2>1, <2>2, ReadByte DEF Types, TypeOK
    <3>2. QED BY <1>4, <3>1 DEF GoodByte, Nibbles
  <2>3. CASE high[n]
    <3>1. byte[n] \in 0..15 /\ byte' = [byte EXCEPT ![n] = byte[n] + u * 16]
      BY <2>1, <2>3, ReadByte
    <3>2. PICK b \in 0..15 : b = byte[n] BY <3>1
    <3>3. b % 16 \in Nibbles BY <1>4, <3>2 DEF AllGood, Values, GoodByte
    <3>4. byte'[n] = b + u * 16 BY <3>1, <3>2 DEF Types, TypeOK
    <3>5. b \in Nibbles BY <3>2, <3>3
    <3>6. QED BY <1>4, <3>4, <3>5 DEF GoodByte, Nibbles
  <2>4. QED BY <2>2, <2>3
<1>5. QED BY <1>3, <1>4

\* and so is a byte written to the port.
LEMMA WriteGood ==
  ASSUME Types, dead # NoLine, AllGood, NEW n \in Nodes, Write(n)
  PROVE  GoodData(cable, Unit(n) + (IF Is(n, "LAPLINK") THEN 16 ELSE 0))
<1>1. pc[n] = "write" BY DEF Write, Access
<1>2. cable = "WATCOM" <=> Is(n, "WATCOM") BY <1>1, PastBegins DEF Begins
<1>3. PICK b \in 0..255 : b = byte[n] BY DEF Types, TypeOK
<1>4. GoodByte(cable, b) BY <1>3 DEF AllGood, Values
<1>5. CASE cable = "WATCOM"
  <2>1. ~Is(n, "LAPLINK") /\ Unit(n) = b BY <1>2, <1>3, <1>5 DEF Is, Val, Unit
  <2>2. b + 0 = b BY <1>3
  <2>3. QED BY <1>4, <1>5, <2>1, <2>2 DEF GoodByte, GoodData
<1>6. CASE cable # "WATCOM"
  <2>1. Unit(n) \in Nibbles BY <1>2, <1>3, <1>4, <1>6 DEF Unit, GoodByte
  <2>2. PICK u \in Nibbles : u = Unit(n) BY <2>1
  <2>3. QED BY <1>6, <2>2 DEF GoodData, Nibbles
<1>7. QED BY <1>5, <1>6

\* The server takes a byte for the one it sent.
Agrees == SeeCtl1Lo("server") /\ ~SecondHalf("server") /\ byte["server"] = send

\* While the server is not content with 128, nobody sends DONE_LINE_TEST.
LEMMA NextGood ==
  ASSUME Types, dead # NoLine, AllGood, NEW n \in Nodes, Step(n), ~(Agrees /\ send = 128)
  PROVE  AllGood'
<1>0. cable' = cable BY WorldStays DEF world
<1>1. ASSUME NEW m \in Nodes PROVE GoodType(cable, CableType'[m])
  <2>0. GoodType(cable, CableType[m]) BY DEF AllGood, Values
  <2>1. \/ CableType' = CableType \/ CableType' = [CableType EXCEPT !["client"] = 0]
        \/ ReadData(n) \in Vals /\ CableType' = [CableType EXCEPT ![n] = ReadData(n)]
    BY TypeChanges
  <2>2. QED BY <2>0, <2>1, Seen, GoodConstants DEF Types, TypeOK
<1>2. ASSUME NEW m \in Nodes PROVE GoodData(cable, data'[m])
  <2>0. GoodData(cable, data[m]) BY DEF AllGood, Values
  <2>1. CASE Write(n)
    <3>1. data' = [data EXCEPT ![n] = Unit(n) + (IF Is(n, "LAPLINK") THEN 16 ELSE 0)]
      BY <2>1 DEF Write
    <3>2. QED BY <2>0, <2>1, <3>1, WriteGood DEF Types, TypeOK
  <2>2. CASE ~Write(n)
    <3>1. \/ data' = data \/ data' = [data EXCEPT ![n] = 24] \/ data' = [data EXCEPT ![n] = 26]
          \/ data' = [data EXCEPT ![n] = 0] \/ data' = [data EXCEPT ![n] = 8]
      BY <2>2, DataChanges
    <3>2. QED BY <2>0, <3>1, GoodConstants DEF Types, TypeOK
  <2>3. QED BY <2>1, <2>2
<1>3. ASSUME NEW m \in Nodes PROVE GoodByte(cable, byte'[m])
  <2>0. GoodByte(cable, byte[m]) /\ GoodByte(cable, byte[n]) BY DEF AllGood, Values
  <2>1. CASE Read(n)
    <3>1. m # n => byte'[m] = byte[m] BY <2>1 DEF Read, Types, TypeOK
    <3>2. QED BY <2>0, <2>1, <3>1, ReadGood
  <2>3. CASE ~Read(n)
    <3>1. pc["server"] = "wait1lo" /\ send # 128 => send * 2 \in Powers
      BY DEF Types, Sent, Powers, Testing, Gets
    <3>2. \/ byte' = byte \/ byte' = [byte EXCEPT ![n] = 0] \/ byte' = [byte EXCEPT ![n] = 1]
          \/ byte' = [byte EXCEPT ![n] = byte[n]]
          \/ pc["server"] = "wait1lo" /\ send # 128 /\ byte' = [byte EXCEPT !["server"] = send * 2]
      BY <2>3, ByteChanges DEF LineTest, PutByte, GetByte, TestedAll, SeeCtl1Lo, Agrees
    <3>3. 1 \in Powers BY DEF Powers
    <3>4. QED BY <2>0, <3>1, <3>2, <3>3, GoodConstants DEF Types, TypeOK
  <2>4. QED BY <2>1, <2>3
<1>4. QED BY <1>0, <1>1, <1>2, <1>3 DEF AllGood, Values

-----------------------------------------------------------------------------
(* A line whose bit does not come back *)

\* The dead line, when the line test finds it.
LEMMA FoundLine ==
  ASSUME Types, dead # NoLine, Found
  PROVE  /\ dead[2] \in 0..7 /\ dead[2] # CTL1 /\ dead[1] \in Nodes
         /\ cable # "WATCOM" => dead[2] \in 0..3
         /\ dead[1] = "server" => dead[2] \in {0, 2, 5, 6, 7}
BY DeadLine DEF Types, Found, DataLine, Tells, CTL1

\* The bit of the dead line does not come to the server, nor, on a line of the
\* server's, to the client.
LEMMA ArrivingLacks ==
  ASSUME Types, dead # NoLine, AllGood, Found, Missing(dead[2]), NEW n \in Nodes,
         n = "client" => dead[1] = "server"
  PROVE  Lacks(Arriving(n), dead[2])
<1>1. CASE dead[1] = Peer(n)
  <2>1. Arriving(n) = Cleared(data[Peer(n)], dead[2]) BY <1>1, Through, FoundLine DEF Types
  <2>2. data[Peer(n)] \in 0..255 BY Peers DEF Types, TypeOK
  <2>3. PICK d \in 0..255, k \in 0..7 : d = data[Peer(n)] /\ k = dead[2] BY <2>2, FoundLine
  <2>4. Bit(Cleared(d, k), k) = 0 BY Clear
  <2>5. QED BY <2>1, <2>3, <2>4 DEF Lacks
<1>2. CASE dead[1] # Peer(n)
  <2>1. n = "server" /\ dead[1] = "server" BY <1>2, FoundLine DEF Peer, Nodes
  <2>2. Arriving(n) = data["client"] BY <1>2, <2>1, Through DEF Types, Peer
  <2>3. QED BY <2>1, <2>2 DEF Missing
<1>3. QED BY <1>1, <1>2

\* Halves of bytes.
LEMMA Halves ==
  ASSUME NEW b \in 0..15, NEW u \in 0..15, NEW k \in 0..3
  PROVE  /\ Bit(b, k + 4) = 0
         /\ Bit(b + u * 16, k) = Bit(b, k) /\ Bit(b + u * 16, k + 4) = Bit(u, k)
<1>1. b \in Nat /\ u \in Nat /\ b + u * 16 \in Nat OBVIOUS
<1>2. PICK s \in 0..255 : s = b + u * 16 BY <1>1
<1>3. CASE k = 0
  <2>1. k + 4 = 4 BY <1>3
  <2>2. (b \div 16) % 2 = 0 /\ s % 2 = b % 2 /\ (s \div 16) % 2 = u % 2 BY <1>2
  <2>3. Bit(b, 4) = 0 /\ Bit(s, 0) = Bit(b, 0) /\ Bit(s, 4) = Bit(u, 0)
    <3>1. s \in Nat BY <1>2
    <3>2. Bit(b, 4) = (b \div 16) % 2 BY <1>1, Bits
    <3>3. Bit(b, 0) = b % 2 BY <1>1, Bits
    <3>4. Bit(s, 0) = s % 2 BY <3>1, Bits
    <3>5. Bit(s, 4) = (s \div 16) % 2 BY <3>1, Bits
    <3>6. Bit(u, 0) = u % 2 BY <1>1, Bits
    <3>7. QED BY <2>2, <3>2, <3>3, <3>4, <3>5, <3>6
  <2>4. QED BY <1>2, <1>3, <2>1, <2>3
<1>4. CASE k = 1
  <2>1. k + 4 = 5 BY <1>4
  <2>2. (b \div 32) % 2 = 0 /\ (s \div 2) % 2 = (b \div 2) % 2 /\ (s \div 32) % 2 = (u \div 2) % 2
    BY <1>2
  <2>3. Bit(b, 5) = 0 /\ Bit(s, 1) = Bit(b, 1) /\ Bit(s, 5) = Bit(u, 1)
    <3>1. s \in Nat BY <1>2
    <3>2. Bit(b, 5) = (b \div 32) % 2 BY <1>1, Bits
    <3>3. Bit(b, 1) = (b \div 2) % 2 BY <1>1, Bits
    <3>4. Bit(s, 1) = (s \div 2) % 2 BY <3>1, Bits
    <3>5. Bit(s, 5) = (s \div 32) % 2 BY <3>1, Bits
    <3>6. Bit(u, 1) = (u \div 2) % 2 BY <1>1, Bits
    <3>7. QED BY <2>2, <3>2, <3>3, <3>4, <3>5, <3>6
  <2>4. QED BY <1>2, <1>4, <2>1, <2>3
<1>5. CASE k = 2
  <2>1. k + 4 = 6 BY <1>5
  <2>2. (b \div 64) % 2 = 0 /\ (s \div 4) % 2 = (b \div 4) % 2 /\ (s \div 64) % 2 = (u \div 4) % 2
    BY <1>2
  <2>3. Bit(b, 6) = 0 /\ Bit(s, 2) = Bit(b, 2) /\ Bit(s, 6) = Bit(u, 2)
    <3>1. s \in Nat BY <1>2
    <3>2. Bit(b, 6) = (b \div 64) % 2 BY <1>1, Bits
    <3>3. Bit(b, 2) = (b \div 4) % 2 BY <1>1, Bits
    <3>4. Bit(s, 2) = (s \div 4) % 2 BY <3>1, Bits
    <3>5. Bit(s, 6) = (s \div 64) % 2 BY <3>1, Bits
    <3>6. Bit(u, 2) = (u \div 4) % 2 BY <1>1, Bits
    <3>7. QED BY <2>2, <3>2, <3>3, <3>4, <3>5, <3>6
  <2>4. QED BY <1>2, <1>5, <2>1, <2>3
<1>6. CASE k = 3
  <2>1. k + 4 = 7 BY <1>6
  <2>2. (b \div 128) % 2 = 0 /\ (s \div 8) % 2 = (b \div 8) % 2 /\ (s \div 128) % 2 = (u \div 8) % 2
    BY <1>2
  <2>3. Bit(b, 7) = 0 /\ Bit(s, 3) = Bit(b, 3) /\ Bit(s, 7) = Bit(u, 3)
    <3>1. s \in Nat BY <1>2
    <3>2. Bit(b, 7) = (b \div 128) % 2 BY <1>1, Bits
    <3>3. Bit(b, 3) = (b \div 8) % 2 BY <1>1, Bits
    <3>4. Bit(s, 3) = (s \div 8) % 2 BY <3>1, Bits
    <3>5. Bit(s, 7) = (s \div 128) % 2 BY <3>1, Bits
    <3>6. Bit(u, 3) = (u \div 8) % 2 BY <1>1, Bits
    <3>7. QED BY <2>2, <3>2, <3>3, <3>4, <3>5, <3>6
  <2>4. QED BY <1>2, <1>6, <2>1, <2>3
<1>7. QED BY <1>3, <1>4, <1>5, <1>6

\* The two halves of a byte hold its bits,
LEMMA Half ==
  ASSUME NEW b \in 0..255, NEW k \in 0..3
  PROVE  /\ Bit(b % 16, k) = Bit(b, k) /\ Bit(b \div 16, k) = Bit(b, k + 4)
<1>1. PICK l \in 0..15, h \in 0..15 : l = b % 16 /\ h = b \div 16 /\ b = l + h * 16 BY SMT
<1>2. QED BY <1>1, Halves

\* and control line 1 of the LAPLINK cable is none of them.
LEMMA Sixteen ==
  ASSUME NEW u \in 0..15, NEW k \in 0..3
  PROVE  Bit(u + 16, k) = Bit(u, k)
<1>1. u + 16 = u + 1 * 16 OBVIOUS
<1>2. QED BY <1>1, Halves

\* A byte read over the dead line lacks the bit.
LEMMA ReadLacks ==
  ASSUME Types, dead # NoLine, AllGood, Found, Missing(dead[2]), NEW n \in Nodes, Read(n),
         n = "client" => dead[1] = "server"
  PROVE  /\ Lacks(byte'[n], dead[2])
         /\ n = "client" /\ cable # "WATCOM" => Lacks(byte'[n], dead[2] + 4)
<1>1. pc[n] = "read" BY DEF Read
<1>2. cable = "WATCOM" <=> Is(n, "WATCOM") BY <1>1, PastBegins DEF Begins
<1>3. Lacks(byte[n], dead[2]) BY <1>1, FoundLine DEF Missing, Gets, Nodes
<1>4. PICK k \in 0..7 : k = dead[2] BY FoundLine
<1>5. Bit(Arriving(n), k) = 0 BY <1>4, ArrivingLacks DEF Lacks
<1>6. CASE cable = "WATCOM"
  <2>1. ~high[n] BY <1>1, <1>2, <1>6, ReadByte
  <2>2. byte' = [byte EXCEPT ![n] = ReadUnit(n)] BY <2>1, ReadByte
  <2>3. byte'[n] = ReadData(n) BY <1>2, <1>6, <2>2 DEF Types, TypeOK, ReadUnit
  <2>4. Arriving(n) \in Wide BY <1>6, Seen DEF GoodData
  <2>5. QED BY <1>4, <1>5, <1>6, <2>3, <2>4, ReadWide DEF Lacks
<1>7. CASE cable # "WATCOM"
  <2>1. k \in 0..3 BY <1>4, <1>7, FoundLine
  <2>2. PICK u \in 0..15 : u = ReadUnit(n) BY <1>2, <1>7, ReadByte
  <2>3. Bit(u, k) = 0
    <3>1. Arriving(n) \in 0..255 BY ArrivingByte DEF Types
    <3>2. u = Arriving(n) % 16 BY <1>7, <2>2, Seen
    <3>3. QED BY <1>5, <2>1, <3>1, <3>2, Half
  <2>4. CASE ~high[n]
    <3>1. byte'[n] = u BY <2>2, <2>4, ReadByte DEF Types, TypeOK
    <3>2. QED BY <1>4, <2>1, <2>3, <3>1, Halves DEF Lacks
  <2>5. CASE high[n]
    <3>1. PICK b \in 0..15 : b = byte[n] BY <2>5, ReadByte
    <3>2. byte'[n] = b + u * 16 BY <2>2, <2>5, <3>1, ReadByte DEF Types, TypeOK
    <3>3. Bit(b, k) = 0 BY <1>3, <1>4, <3>1 DEF Lacks
    <3>4. QED BY <1>4, <2>1, <2>3, <3>2, <3>3, Halves DEF Lacks
  <2>6. QED BY <2>4, <2>5
<1>8. QED BY <1>6, <1>7

\* The client sends back a byte that lacks it.
LEMMA WriteLacks ==
  ASSUME Types, dead # NoLine, AllGood, Found, Missing(dead[2]), dead[1] = "server", Write("client")
  PROVE  Lacks(Unit("client") + (IF Is("client", "LAPLINK") THEN 16 ELSE 0), dead[2])
<1>0. "client" \in Nodes BY DEF Nodes
<1>1. pc["client"] = "write" BY DEF Write, Access
<1>2. cable = "WATCOM" <=> Is("client", "WATCOM") BY <1>0, <1>1, PastBegins DEF Begins
<1>3. PICK b \in 0..255 : b = byte["client"] BY <1>0 DEF Types, TypeOK
<1>4. PICK k \in 0..7 : k = dead[2] BY FoundLine
<1>5. Bit(b, k) = 0 /\ (cable # "WATCOM" => Bit(b, k + 4) = 0) BY <1>3, <1>4 DEF Missing, Lacks
<1>6. CASE cable = "WATCOM"
  <2>1. ~Is("client", "LAPLINK") /\ Unit("client") = b BY <1>2, <1>3, <1>6 DEF Is, Val, Unit
  <2>2. b + 0 = b BY <1>3
  <2>3. QED BY <1>4, <1>5, <2>1, <2>2 DEF Lacks
<1>7. CASE cable # "WATCOM"
  <2>1. k \in 0..3 BY <1>4, <1>7, FoundLine
  <2>2. b % 16 \in 0..15 /\ b \div 16 \in 0..15 BY SMT
  <2>3. Unit("client") \in 0..15 /\ Bit(Unit("client"), k) = 0
    BY <1>2, <1>3, <1>5, <1>7, <2>1, <2>2, Half DEF Unit
  <2>4. PICK u \in 0..15 : u = Unit("client") BY <2>3
  <2>5. Bit(u, k) = 0 /\ Bit(u + 16, k) = 0 /\ u + 0 = u BY <2>1, <2>3, <2>4, Sixteen
  <2>6. QED BY <1>4, <2>4, <2>5 DEF Lacks
<1>8. QED BY <1>6, <1>7

\* Nothing read yet: the bit is missing.
LEMMA ZeroLacks ==
  ASSUME NEW k \in 0..7
  PROVE  Lacks(0, k)
<1>1. Bit(0, 0) = 0 /\ Bit(0, 1) = 0 /\ Bit(0, 2) = 0 /\ Bit(0, 3) = 0
  BY Pow DEF Bit
<1>2. Bit(0, 4) = 0 /\ Bit(0, 5) = 0 /\ Bit(0, 6) = 0 /\ Bit(0, 7) = 0
  BY Pow DEF Bit
<1>3. k \in {0, 1, 2, 3, 4, 5, 6, 7} OBVIOUS
<1>4. QED BY <1>1, <1>2, <1>3 DEF Lacks

\* The pulses do not use these lines.
LEMMA ConstantsLack ==
  ASSUME NEW k \in {0, 2, 5, 6, 7}
  PROVE  Lacks(0, k) /\ Lacks(8, k) /\ Lacks(24, k) /\ Lacks(26, k)
<1>1. CASE k = 0 BY <1>1, Pow DEF Bit, Lacks
<1>2. CASE k = 2 BY <1>2, Pow DEF Bit, Lacks
<1>3. CASE k = 5 BY <1>3, Pow DEF Bit, Lacks
<1>4. CASE k = 6 BY <1>4, Pow DEF Bit, Lacks
<1>5. CASE k = 7 BY <1>5, Pow DEF Bit, Lacks
<1>6. QED BY <1>1, <1>2, <1>3, <1>4, <1>5

\* A byte of one bit that lacks bit k is below 2^k, and so is not the last one.
LEMMA Doubled ==
  ASSUME NEW k \in 0..7, NEW s \in Powers, s <= 2^k, Lacks(s, k)
  PROVE  s # 128 /\ s * 2 <= 2^k
<1>0. s \in Nat BY DEF Powers
<1>1. CASE k = 0
  <2>0. Bit(s, 0) = s % 2 BY <1>0, Bits
  <2>1. s % 2 = 0 /\ s <= 1 /\ 2^k = 1 BY <2>0, <1>1, Pow DEF Lacks
  <2>2. QED BY <2>1 DEF Powers
<1>2. CASE k = 1
  <2>1. (s \div 2) % 2 = 0 /\ s <= 2 /\ 2^k = 2 BY <1>0, <1>2, Pow, Bits DEF Lacks
  <2>2. QED BY <2>1 DEF Powers
<1>3. CASE k = 2
  <2>1. (s \div 4) % 2 = 0 /\ s <= 4 /\ 2^k = 4 BY <1>0, <1>3, Pow, Bits DEF Lacks
  <2>2. QED BY <2>1 DEF Powers
<1>4. CASE k = 3
  <2>1. (s \div 8) % 2 = 0 /\ s <= 8 /\ 2^k = 8 BY <1>0, <1>4, Pow, Bits DEF Lacks
  <2>2. QED BY <2>1 DEF Powers
<1>5. CASE k = 4
  <2>1. (s \div 16) % 2 = 0 /\ s <= 16 /\ 2^k = 16 BY <1>0, <1>5, Pow, Bits DEF Lacks
  <2>2. QED BY <2>1 DEF Powers
<1>6. CASE k = 5
  <2>1. (s \div 32) % 2 = 0 /\ s <= 32 /\ 2^k = 32 BY <1>0, <1>6, Pow, Bits DEF Lacks
  <2>2. QED BY <2>1 DEF Powers
<1>7. CASE k = 6
  <2>1. (s \div 64) % 2 = 0 /\ s <= 64 /\ 2^k = 64 BY <1>0, <1>7, Pow, Bits DEF Lacks
  <2>2. QED BY <2>1 DEF Powers
<1>8. CASE k = 7
  <2>1. (s \div 128) % 2 = 0 /\ s <= 128 /\ 2^k = 128 BY <1>0, <1>8, Pow, Bits DEF Lacks
  <2>2. QED BY <2>1 DEF Powers
<1>9. QED BY <1>1, <1>2, <1>3, <1>4, <1>5, <1>6, <1>7, <1>8

\* The server goes on from a byte only before it has come to the dead line.
LEMMA MissingAgrees ==
  ASSUME Types, dead # NoLine, Found, Missing(dead[2]), Agrees
  PROVE  send # 128 /\ send * 2 <= 2^dead[2]
<1>1. pc["server"] = "wait1lo" BY DEF Agrees, SeeCtl1Lo
<1>2. send \in Powers /\ Lacks(send, dead[2]) /\ send <= 2^dead[2]
  BY <1>1 DEF Types, Sent, Missing, Agrees, Testing, Gets
<1>3. QED BY <1>2, Doubled, FoundLine

\* What a side goes on with.
LEMMA PcChanges ==
  ASSUME Types, NEW n \in Nodes, Step(n)
  PROVE  \/ pc' = pc
         \/ pc' = [pc EXCEPT ![n] = "on"] /\ PulseOn(n)
         \/ pc' = [pc EXCEPT ![n] = "off"] /\ PulseOff(n)
         \/ pc' = [pc EXCEPT ![n] = "twidle"]
              /\ ((n = "server" /\ ServerCounts /\ TwidleOn[n]) \/ (n = "client" /\ RemoteLink))
         \/ pc' = [pc EXCEPT ![n] = "lower"]
            /\ ((n = "server" /\ (TwidleEnds(n) \/ ServerSynch))
                 \/ (n = "client" /\ ClientCounts /\ TwidleOn[n]))
         \/ pc' = [pc EXCEPT ![n] = "failed"] /\ n = "client" /\ (TwidleEnds(n) \/ TimeOut(n))
         \/ pc' = [pc EXCEPT ![n] = "poll"] /\ n = "server"
         \/ pc' = [pc EXCEPT ![n] = "synch"] /\ LowerLines(n)
         \/ pc' = [pc EXCEPT ![n] = "wait2"]
            /\ \/ (LowerLines(n) \/ SynchOver(n)) /\ n = "server" /\ LineTest(n)
               \/ n = "server" /\ Agrees /\ TestedAll
               \/ n = "client" /\ SeeCtl1Lo(n) /\ byte[n] # DONE_LINE_TEST
               \/ LowerCtl1(n) /\ SecondHalf(n)
         \/ pc' = [pc EXCEPT ![n] = "raise2"]
            /\ \/ SynchOver(n) /\ n = "client" /\ LineTest(n)
               \/ SeeCtl1Lo(n) /\ SecondHalf(n)
               \/ LowerCtl1(n) /\ ~SecondHalf(n) /\ GetByte(n)
         \/ pc' = [pc EXCEPT ![n] = "wait1"] /\ RaiseCtl2(n)
         \/ pc' = [pc EXCEPT ![n] = "read"] /\ SeeCtl1Hi(n)
         \/ pc' = [pc EXCEPT ![n] = "lower2"] /\ Read(n)
         \/ pc' = [pc EXCEPT ![n] = "wait1lo"] /\ LowerCtl2(n)
         \/ pc' = [pc EXCEPT ![n] = "write"] /\ SeeCtl2Hi(n)
         \/ pc' = [pc EXCEPT ![n] = "raise1"] /\ Write(n)
         \/ pc' = [pc EXCEPT ![n] = "wait2lo"] /\ (Write(n) \/ RaiseCtl1(n))
         \/ pc' = [pc EXCEPT ![n] = "lower1"] /\ SeeCtl2Lo(n)
         \/ pc' = [pc EXCEPT ![n] = "connected"]
            /\ \/ n = "client" /\ SeeCtl1Lo(n) /\ byte[n] = DONE_LINE_TEST
               \/ n = "server" /\ LowerCtl1(n) /\ byte[n] = DONE_LINE_TEST
<1> USE DEF Goto, Nodes
<1>1. CASE n = "server" /\ ServerCounts BY <1>1 DEF ServerCounts, CountTwidle
<1>2. CASE n = "client" /\ ClientCounts BY <1>2 DEF ClientCounts, CountTwidle
<1>3. CASE n = "server" /\ ServerSynch BY <1>3 DEF ServerSynch
<1>4. CASE n = "client" /\ RemoteLink BY <1>4 DEF RemoteLink
<1>5. CASE PulseOn(n) BY <1>5 DEF PulseOn
<1>6. CASE PulseOff(n) BY <1>6 DEF PulseOff
<1>7. CASE TwidleEnds(n) BY <1>7 DEF TwidleEnds
<1>8. CASE LowerLines(n) BY <1>8 DEF LowerLines, LineTest, PutByte
<1>9. CASE SynchOver(n) BY <1>9 DEF SynchOver, LineTest, PutByte, GetByte
<1>10. CASE TimeOut(n) BY <1>10 DEF TimeOut, Fail
<1>11. CASE RaiseCtl2(n) BY <1>11 DEF RaiseCtl2, Access
<1>12. CASE SeeCtl1Hi(n) BY <1>12 DEF SeeCtl1Hi, Access
<1>13. CASE LowerCtl2(n) BY <1>13 DEF LowerCtl2, Access
<1>14. CASE SeeCtl2Hi(n) BY <1>14 DEF SeeCtl2Hi, Access
<1>15. CASE Write(n) BY <1>15 DEF Write, Access
<1>16. CASE RaiseCtl1(n) BY <1>16 DEF RaiseCtl1, Access
<1>17. CASE SeeCtl2Lo(n) BY <1>17 DEF SeeCtl2Lo, Access
<1>18. CASE Read(n) BY <1>18 DEF Read
<1>19. CASE SeeCtl1Lo(n) /\ n = "server"
  BY <1>19 DEF SeeCtl1Lo, ByteRead, Tested, TestedAll, Fail, PutByte, Agrees
<1>20. CASE SeeCtl1Lo(n) /\ n = "client"
  BY <1>20 DEF SeeCtl1Lo, ByteRead, Echo, PutByte
<1>21. CASE LowerCtl1(n) BY <1>21 DEF LowerCtl1, GetByte
<1>22. QED
  BY <1>1, <1>2, <1>3, <1>4, <1>5, <1>6, <1>7, <1>8, <1>9, <1>10, <1>11, <1>12, <1>13, <1>14,
               <1>15, <1>16, <1>17, <1>18, <1>19, <1>20, <1>21 DEF Step

\* A step of one side leaves what belongs to the other alone.
LEMMA OtherStays ==
  ASSUME Types, NEW n \in Nodes, Step(n), NEW m \in Nodes, m # n
  PROVE  /\ pc'[m] = pc[m] /\ data'[m] = data[m] /\ ctl'[m] = ctl[m]
         /\ CableType'[m] = CableType[m] /\ byte'[m] = byte[m] /\ high'[m] = high[m]
<1>1. pc'[m] = pc[m]
  <2>1. pc' = pc \/ pc' = [pc EXCEPT ![n] = pc'[n]] BY PcChanges DEF Types
  <2>2. QED BY <2>1 DEF Types
<1>2. data'[m] = data[m]
  <2>1. data' = data \/ data' = [data EXCEPT ![n] = data'[n]] BY DataChanges DEF Types, TypeOK
  <2>2. QED BY <2>1 DEF Types, TypeOK
<1>3. ctl'[m] = ctl[m]
  <2>1. ctl' = ctl \/ ctl' = [ctl EXCEPT ![n] = ctl'[n]] BY CtlChanges DEF Types, TypeOK
  <2>2. QED BY <2>1 DEF Types, TypeOK
<1>4. CableType'[m] = CableType[m]
  <2>1. CableType' = CableType \/ CableType' = [CableType EXCEPT ![n] = CableType'[n]]
    BY TypeChanges DEF Types, TypeOK
  <2>2. QED BY <2>1 DEF Types, TypeOK
<1>5. byte'[m] = byte[m] /\ high'[m] = high[m]
  BY ByteChanges DEF LineTest, PutByte, GetByte, TestedAll, Read, Types, TypeOK
<1>6. QED BY <1>1, <1>2, <1>3, <1>4, <1>5

\* Where a step can take the server into DataGet and DataPut, or within them.
LEMMA ServerGets ==
  ASSUME Types, NEW n \in Nodes, Step(n), pc'["server"] \in Gets
  PROVE  \/ pc["server"] \in Gets /\ (byte'["server"] = byte["server"] \/ (n = "server" /\ Read(n)))
         \/ n = "server" /\ LowerCtl1(n) /\ byte'["server"] = 0
<1>0. "server" \in Nodes BY DEF Nodes
<1>1. CASE n = "client" BY <1>0, <1>1, OtherStays
<1>2. CASE n = "server"
  <2>1. pc["server"] \in Gets \/ (LowerCtl1(n) /\ GetByte(n))
    BY <1>2, PcChanges DEF Types, Gets, LineTest, RaiseCtl2, SeeCtl1Hi, Read, LowerCtl2,
         SeeCtl1Lo, Access
  <2>2. GetByte(n) => byte'["server"] = 0 BY <1>0, <1>2 DEF GetByte, Types, TypeOK
  <2>3. ASSUME pc["server"] \in Gets, ~Read(n) PROVE byte'["server"] = byte["server"]
    <3>1. byte' = byte \/ pc'["server"] = "wait2"
      <4>1. ~LowerLines(n) /\ ~SynchOver(n) /\ ~LowerCtl1(n)
        BY <1>2, <2>3 DEF LowerLines, SynchOver, LowerCtl1, Gets
      <4>2. QED BY <1>0, <1>2, <2>3, <4>1, ByteChanges DEF TestedAll, PutByte, Goto, Types
    <3>2. QED BY <3>1 DEF Gets
  <2>4. QED BY <1>2, <2>1, <2>2, <2>3
<1>3. QED BY <1>1, <1>2 DEF Nodes

\* The server sends the first byte, the same byte still, or the next one.
LEMMA ServerPuts ==
  ASSUME Types, NEW n \in Nodes, Step(n), pc'["server"] \in Puts
  PROVE  \/ pc["server"] \in Puts /\ byte'["server"] = byte["server"] /\ send' = send
         \/ n = "server" /\ byte'["server"] = 1 /\ send' = 1
         \/ n = "server" /\ Agrees /\ TestedAll
<1>0. "server" \in Nodes BY DEF Nodes
<1>1. CASE n = "client"
  <2>1. send' = send BY <1>1, ByteChanges DEF LineTest
  <2>2. QED BY <1>0, <1>1, <2>1, OtherStays
<1>2. CASE n = "server"
  <2>1. \/ pc["server"] \in Puts
        \/ LineTest(n)
        \/ Agrees /\ TestedAll
    BY <1>2, PcChanges DEF Types, Puts, SeeCtl2Hi, Write, RaiseCtl1, SeeCtl2Lo, LowerCtl1,
         Access
  <2>2. LineTest(n) => byte'["server"] = 1 /\ send' = 1
    BY <1>0, <1>2 DEF LineTest, PutByte, Types, TypeOK
  <2>3. ASSUME pc["server"] \in Puts PROVE byte'["server"] = byte["server"] /\ send' = send
    <3>1. ~LowerLines(n) /\ ~SynchOver(n) /\ ~Read(n) /\ ~SeeCtl1Lo(n)
      BY <1>2, <2>3 DEF LowerLines, SynchOver, Read, SeeCtl1Lo, Puts
    <3>2. ~(LowerCtl1(n) /\ GetByte(n)) BY <1>0, <1>2 DEF GetByte, Goto, Puts, Types
    <3>3. QED BY <1>2, <3>1, <3>2, ByteChanges
  <2>4. QED BY <1>2, <2>1, <2>2, <2>3
<1>3. QED BY <1>1, <1>2 DEF Nodes

\* The first byte is no greater than any.
LEMMA PowPositive ==
  ASSUME NEW k \in 0..7
  PROVE  1 <= 2^k
<1>1. CASE k = 0 BY <1>1, Pow
<1>2. CASE k = 1 BY <1>2, Pow
<1>3. CASE k = 2 BY <1>3, Pow
<1>4. CASE k = 3 BY <1>4, Pow
<1>5. CASE k = 4 BY <1>5, Pow
<1>6. CASE k = 5 BY <1>6, Pow
<1>7. CASE k = 6 BY <1>7, Pow
<1>8. CASE k = 7 BY <1>8, Pow
<1>9. QED BY <1>1, <1>2, <1>3, <1>4, <1>5, <1>6, <1>7, <1>8

\* Every step leaves the missing bit missing.
LEMMA NextMissing ==
  ASSUME Types, dead # NoLine, AllGood, Found, Missing(dead[2]), NEW n \in Nodes, Step(n)
  PROVE  Missing(dead[2])'
<1> DEFINE k == dead[2]
<1>0. cable' = cable /\ dead' = dead BY WorldStays DEF world
<1>1. k \in 0..7 BY FoundLine
<1>2. send' <= 2^k
  <2>1. 1 <= 2^k BY <1>1, PowPositive
  <2>2. send' = send \/ send' = 1 \/ (Agrees /\ (send = 128 \/ send' = send * 2))
    <3>1. n = "server" /\ SeeCtl1Lo(n) /\ ~SecondHalf(n) /\ byte[n] = send => Agrees
      BY DEF Agrees
    <3>2. TestedAll => send = 128 \/ send' = send * 2 BY DEF TestedAll
    <3>3. LineTest(n) => send' = 1 \/ send' = send BY DEF LineTest
    <3>4. QED BY <3>1, <3>2, <3>3, ByteChanges
  <2>3. send <= 2^k BY DEF Missing
  <2>4. Agrees => send # 128 /\ send * 2 <= 2^k BY MissingAgrees
  <2> HIDE DEF k
  <2>5. QED BY <2>1, <2>2, <2>3, <2>4
<1>3. ASSUME pc'["server"] \in Gets PROVE Lacks(byte'["server"], k)
  <2>1. CASE pc["server"] \in Gets /\ byte'["server"] = byte["server"] BY <2>1 DEF Missing
  <2>2. CASE n = "server" /\ Read(n) BY <2>2, ReadLacks
  <2>3. CASE byte'["server"] = 0 BY <2>3, <1>1, ZeroLacks
  <2>4. QED BY <1>3, <2>1, <2>2, <2>3, ServerGets
<1>4. ASSUME dead[1] = "server" PROVE Lacks(data'["client"], k)
  <2>0. Lacks(data["client"], k) /\ k \in {0, 2, 5, 6, 7} BY <1>4, FoundLine DEF Missing
  <2>1. CASE n = "client" /\ Write(n)
    <3>1. data' = [data EXCEPT !["client"] = Unit("client")
                                             + (IF Is("client", "LAPLINK") THEN 16 ELSE 0)]
      BY <2>1 DEF Write
    <3>2. data'["client"] = Unit("client") + (IF Is("client", "LAPLINK") THEN 16 ELSE 0)
      BY <3>1 DEF Types, TypeOK, Nodes
    <3>3. QED BY <1>4, <2>1, <3>2, WriteLacks
  <2>2. CASE n = "client" /\ ~Write(n)
    <3>1. \/ data' = data \/ data' = [data EXCEPT ![n] = 24] \/ data' = [data EXCEPT ![n] = 26]
          \/ data' = [data EXCEPT ![n] = 0] \/ data' = [data EXCEPT ![n] = 8]
      BY <2>2, DataChanges
    <3>2. data'["client"] \in {data["client"], 24, 26, 0, 8}
      BY <2>2, <3>1 DEF Types, TypeOK, Nodes
    <3>3. QED BY <2>0, <3>2, ConstantsLack
  <2>3. CASE n = "server"
    <3>1. data'["client"] = data["client"] BY <2>3, OtherStays DEF Nodes
    <3>2. QED BY <2>0, <3>1
  <2>4. QED BY <2>1, <2>2, <2>3 DEF Nodes
<1>5. ASSUME dead[1] = "server"
      PROVE  Lacks(byte'["client"], k) /\ (cable # "WATCOM" => Lacks(byte'["client"], k + 4))
  <2>0. Lacks(byte["client"], k) /\ (cable # "WATCOM" => Lacks(byte["client"], k + 4))
    BY <1>5 DEF Missing
  <2>1. CASE n = "client" /\ Read(n) BY <1>5, <2>1, ReadLacks
  <2>2. CASE n = "client" /\ ~Read(n)
    <3>1. byte' = byte \/ byte' = [byte EXCEPT ![n] = 0] \/ byte' = [byte EXCEPT ![n] = byte[n]]
      BY <2>2, ByteChanges DEF LineTest, PutByte, GetByte
    <3>2. byte'["client"] \in {byte["client"], 0} BY <2>2, <3>1 DEF Types, TypeOK, Nodes
    <3>3. cable # "WATCOM" => k + 4 \in 0..7 BY FoundLine
    <3>4. Lacks(0, k) /\ (cable # "WATCOM" => Lacks(0, k + 4)) BY <1>1, <3>3, ZeroLacks
    <3>5. QED BY <2>0, <3>2, <3>4
  <2>3. CASE n = "server"
    <3>1. byte'["client"] = byte["client"] BY <2>3, OtherStays DEF Nodes
    <3>2. QED BY <2>0, <3>1
  <2>4. QED BY <2>1, <2>2, <2>3 DEF Nodes
<1>6. QED BY <1>0, <1>2, <1>3, <1>4, <1>5 DEF Missing

-----------------------------------------------------------------------------
(* A line without which the sides do not come to the line test's end *)

\* Such a line is control line 1, or one on which the client sees the pulses.
LEMMA StuckLine ==
  ASSUME Types, dead # NoLine, ~Found
  PROVE  /\ dead[1] \in Nodes
         /\ dead[1] = "client" => ~DataLine
         /\ DataLine => Tells /\ dead[2] # CTL1 /\ dead[2] \in 0..7
         /\ ~DataLine => IF cable = "LAPLINK" THEN dead[2] = 4 ELSE dead[2] = CTL1
BY DeadLine, Cables DEF Types, Found, DataLine, Tells, CTL1, LinesOf

\* Bit 7 of the status port is what control line 1 is on these two cables.
LEMMA Level ==
  ASSUME Types, NEW n \in Nodes, CableType[n] \in {82, 210}
  PROVE  Ctl1Hi(n) <=> IF CableType[n] = 210 THEN Status(n) >= 128 ELSE Status(n) < 128
<1>1. PICK s \in 0..255 : s = Status(n) BY StatusRange DEF Types
<1>2. Bit(s, 7) = (s \div 128) % 2
  <2>1. s \in Nat BY <1>1
  <2>2. QED BY <2>1, Bits
<1>3. Bit(s, 7) = IF s >= 128 THEN 1 ELSE 0 BY <1>2
<1>4. ~Is(n, "WATCOM") /\ (Is(n, "LAPLINK") <=> CableType[n] = 210) BY DEF Is, Val
<1>5. Ctl1Hi(n) <=> IF CableType[n] = 210 THEN Bit(s, 7) = 1 ELSE Bit(s, 7) = 0
  BY <1>1, <1>4 DEF Ctl1Hi
<1>6. QED BY <1>1, <1>3, <1>5

\* How a side with such a type looks at a cable whose control line is always
\* low for it, and always high.
Seems(n, t) ==
  /\ CableType[n] = t => Ctl1Hi(n)
  /\ ReadData(n) \in Vals => ReadData(n) = t

\* Control line 1 that is dead is always low for the side that reads it.
LEMMA LineLow ==
  ASSUME Types, dead # NoLine, AllGood, cable # "WATCOM", ~DataLine, NEW n \in Nodes,
         dead[1] = Peer(n), ~Found
  PROVE  Seems(n, Mistaken(cable))
<1>1. PICK a \in 0..31 : a = Arriving(n) /\ a % 16 \in Nibbles BY Seen DEF GoodData
<1>2. cable \in {"LAPLINK", "DUTCHMAN"} BY Cables
<1>3. CASE cable = "LAPLINK"
  <2>1. dead[2] = 4 /\ dead[2] # CTL1 BY <1>3, StuckLine DEF CTL1
  <2>2. Arriving(n) = Cleared(data[Peer(n)], 4) BY <2>1, Through DEF Types
  <2>3. data[Peer(n)] \in 0..255 BY Peers DEF Types, TypeOK
  <2>4. PICK d \in 0..255 : d = data[Peer(n)] BY <2>3
  <2>5. Bit(Cleared(d, 4), 4) = 0
    <3>1. 4 \in 0..7 OBVIOUS
    <3>2. QED BY <2>4, <3>1, Clear
  <2>6. Bit(a, 4) = 0 BY <1>1, <2>2, <2>4, <2>5
  <2>7. Bit(a, 4) = (a \div 16) % 2
    <3>1. a \in Nat BY <1>1
    <3>2. QED BY <3>1, Bits
  <2>8. a < 16 BY <2>6, <2>7
  <2>9. Status(n) = (a % 32) * 8 BY <1>1, <1>3 DEF Status
  <2>10. Status(n) < 128 BY <2>8, <2>9
  <2>11. ReadData(n) \in Vals => ReadData(n) = 82 BY <1>1, <1>2, <1>3, <2>8, ReadNarrow
  <2>12. CableType[n] = 82 => Ctl1Hi(n) BY <2>10, Level
  <2>13. QED BY <1>3, <2>11, <2>12 DEF Seems, Mistaken
<1>4. CASE cable = "DUTCHMAN"
  <2>1. dead = <<Peer(n), CTL1>> /\ Peer(n) # n BY <1>4, StuckLine, DeadLine, Peers DEF Types
  <2>2. ~Drives(n, Peer(n), 0) BY <2>1 DEF Drives
  <2>3. Status(n) = (a % 16) * 8 + 128 BY <1>1, <1>4, <2>2 DEF Status
  <2>4. Status(n) >= 128 BY <2>3
  <2>5. ReadData(n) \in Vals => ReadData(n) = 210 BY <1>1, <1>2, <1>4, <2>2, ReadNarrow
  <2>6. CableType[n] = 210 => Ctl1Hi(n) BY <2>4, Level
  <2>7. QED BY <1>4, <2>5, <2>6 DEF Seems, Mistaken
<1>5. QED BY <1>2, <1>3, <1>4

\* Of a client that waits, it is always high for the server.
LEMMA LineHigh ==
  ASSUME Types, dead # NoLine, AllGood, cable # "WATCOM", dead[1] = "server",
         cable = "LAPLINK" => data["client"] \in {24, 26},
         cable = "DUTCHMAN" => ctl["client"] = 1
  PROVE  Seems("server", Right(cable))
<1>0. "server" \in Nodes /\ Peer("server") = "client" /\ dead[1] # "client" BY DEF Nodes, Peer
<1>1. PICK a \in 0..31 : a = Arriving("server") /\ a % 16 \in Nibbles BY <1>0, Seen DEF GoodData
<1>2. cable \in {"LAPLINK", "DUTCHMAN"} BY Cables
<1>3. CASE cable = "LAPLINK"
  <2>1. a \in {24, 26} BY <1>0, <1>1, <1>3, Through DEF Types
  <2>2. Status("server") = (a % 32) * 8 BY <1>1, <1>3 DEF Status
  <2>3. Status("server") >= 128 BY <2>1, <2>2
  <2>4. a % 16 = 10 => a = 26 BY <2>1
  <2>5. ReadData("server") \in Vals => ReadData("server") = 210
    BY <1>0, <1>1, <1>2, <1>3, <2>4, ReadNarrow
  <2>6. CableType["server"] = 210 => Ctl1Hi("server") BY <1>0, <2>3, Level
  <2>7. QED BY <1>3, <2>5, <2>6 DEF Seems, Right
<1>4. CASE cable = "DUTCHMAN"
  <2>1. dead # <<"client", CTL1>> BY <1>0
  <2>2. Bit(1, 0) = 1 BY Bits
  <2>3. Drives("server", "client", 0) BY <1>4, <2>1, <2>2 DEF Drives
  <2>4. Status("server") = (a % 16) * 8 + 0 BY <1>0, <1>1, <1>4, <2>3 DEF Status
  <2>5. Status("server") < 128 BY <2>4
  <2>6. ReadData("server") \in Vals => ReadData("server") = 82
    BY <1>0, <1>1, <1>2, <1>4, <2>3, ReadNarrow
  <2>7. CableType["server"] = 82 => Ctl1Hi("server") BY <1>0, <2>5, Level
  <2>8. QED BY <1>4, <2>6, <2>7 DEF Seems, Right
<1>5. QED BY <1>2, <1>3, <1>4

\* On the WATCOM cable control line 1 stays low for both.
LEMMA WideLow ==
  ASSUME Types, NEW n \in Nodes, Is(n, "WATCOM"), ctl[n] = 4,
         ctl[Peer(n)] \in {1, 4} \/ dead = <<Peer(n), CTL1>>
  PROVE  ~Ctl1Hi(n)
<1>1. Bit(4, 3) = 0 /\ Bit(1, 3) = 0 BY Bits
<1>2. Peer(n) # n BY Peers
<1>3. Ctl1Hi(n) <=> (Drives(n, n, 3) \/ Drives(n, Peer(n), 3))
  <2>1. ~Is(n, "LAPLINK") BY DEF Is, Val
  <2>2. QED BY <2>1 DEF Ctl1Hi
<1>4. ~Drives(n, n, 3) BY <1>1 DEF Drives
<1>5. ~Drives(n, Peer(n), 3) BY <1>1, <1>2 DEF Drives
<1>6. QED BY <1>3, <1>4, <1>5

Expected == IF dead[1] = "client" THEN Mistaken(cable) ELSE Right(cable)

\* The server never sees control line 1 change.
LEMMA StuckServer ==
  ASSUME Types, dead # NoLine, AllGood, ~Found, Stuck
  PROVE  /\ ReadData("server") \in Vals => ReadData("server") = Expected
         /\ ~SeeCtl1Lo("server")
         /\ cable = "WATCOM" => ~SeeCtl1Hi("server")
<1>0. "server" \in Nodes /\ Peer("server") = "client" BY DEF Nodes, Peer
<1>1. CASE cable = "WATCOM"
  <2>1. ReadData("server") \in Vals => ReadData("server") = 26
    BY <1>0, <1>1, Seen DEF GoodType, Vals, Val
  <2>2. ~SeeCtl1Lo("server") BY <1>1 DEF Stuck, SeeCtl1Lo
  <2>3. ASSUME SeeCtl1Hi("server") PROVE FALSE
    <3>1. pc["server"] = "wait1" /\ Ctl1Hi("server") BY <2>3 DEF SeeCtl1Hi, Access
    <3>2. Is("server", "WATCOM") BY <1>0, <1>1, <3>1, PastBegins DEF Begins
    <3>3. ctl["server"] = 4 BY <1>1, <3>1 DEF Stuck, Gets
    <3>4. ctl["client"] \in {1, 4} \/ dead = <<"client", CTL1>>
      <4>1. CASE dead[1] = "server" BY <1>1, <4>1 DEF Stuck
      <4>2. CASE dead[1] = "client" BY <1>1, <4>2, StuckLine, DeadLine DEF Types
      <4>3. QED BY <4>1, <4>2, StuckLine DEF Nodes
    <3>5. QED BY <1>0, <3>1, <3>2, <3>3, <3>4, WideLow
  <2>4. QED BY <1>1, <2>1, <2>2, <2>3 DEF Expected, Mistaken, Right
<1>2. CASE cable # "WATCOM"
  <2>1. Seems("server", Expected)
    <3>1. CASE dead[1] = "client" BY <1>0, <1>2, <3>1, LineLow, StuckLine DEF Expected
    <3>2. CASE dead[1] = "server" BY <1>0, <1>2, <3>2, LineHigh DEF Expected, Stuck
    <3>3. QED BY <3>1, <3>2, StuckLine DEF Nodes
  <2>2. ASSUME SeeCtl1Lo("server") PROVE FALSE
    <3>1. pc["server"] = "wait1lo" /\ ~Ctl1Hi("server") BY <2>2 DEF SeeCtl1Lo
    <3>2. CableType["server"] # 0 BY <1>0, <3>1, PastBegins DEF Begins
    <3>3. CableType["server"] = Expected BY <3>2 DEF Stuck, Expected
    <3>4. QED BY <2>1, <3>1, <3>3 DEF Seems
  <2>3. QED BY <1>2, <2>1, <2>2 DEF Seems
<1>3. QED BY <1>1, <1>2

\* The client does not leave the places of Waits.
LEMMA StuckClient ==
  ASSUME Types, dead # NoLine, AllGood, ~Found, Stuck, dead[1] = "server"
  PROVE  /\ DataLine => ReadData("client") \notin Vals /\ ~TwidleOn["client"]
         /\ ~DataLine => (ReadData("client") \in Vals => ReadData("client") = Mistaken(cable))
         /\ ~DataLine /\ cable # "WATCOM" => ~SynchOver("client")
         /\ ~SeeCtl1Hi("client")
<1>0. "client" \in Nodes /\ Peer("client") = "server" BY DEF Nodes, Peer
<1>1. ASSUME DataLine PROVE ReadData("client") \notin Vals /\ ~TwidleOn["client"]
  <2>1. dead[2] # CTL1 /\ dead[2] \in 0..7 /\ Tells BY <1>1, StuckLine
  <2>2. Arriving("client") = Cleared(data["server"], dead[2]) BY <1>0, <2>1, Through DEF Types
  <2>3. PICK d \in 0..255, k \in 0..7 : d = data["server"] /\ k = dead[2]
    BY <2>1 DEF Types, TypeOK, Nodes
  <2>4. Bit(Cleared(d, k), k) = 0 BY Clear
  <2>5. PICK a \in 0..255 : a = Arriving("client") BY <1>0, ArrivingByte DEF Types
  <2>6. Bit(a, k) = 0 BY <2>2, <2>3, <2>4, <2>5
  <2>7. k \in {1, 3, 4} /\ (cable # "WATCOM" => k \in {1, 3}) BY <2>1, <2>3 DEF Tells
  <2>8. Bit(a, 1) = (a \div 2) % 2 /\ Bit(a, 3) = (a \div 8) % 2 /\ Bit(a, 4) = (a \div 16) % 2
    <3>1. a \in Nat BY <2>5
    <3>2. QED BY <3>1, Bits
  <2>9. ReadData("client") \notin Vals
    <3>1. CASE cable = "WATCOM"
      <4>1. a \in Wide BY <1>0, <2>5, <3>1, Seen DEF GoodData
      <4>2. ReadData("client") \in Vals => a = 26 BY <1>0, <2>5, <3>1, <4>1, ReadWide
      <4>3. a # 26 BY <2>6, <2>7, <2>8
      <4>4. QED BY <4>2, <4>3
    <3>2. CASE cable # "WATCOM"
      <4>1. a \in 0..31 /\ a % 16 \in Nibbles BY <1>0, <2>5, <3>2, Seen DEF GoodData
      <4>2. ReadData("client") \in Vals => a % 16 = 10
        BY <1>0, <2>5, <3>2, <4>1, Cables, ReadNarrow
      <4>3. (a \div 2) % 2 = 0 \/ (a \div 8) % 2 = 0 BY <2>6, <2>7, <2>8, <3>2
      <4>4. a % 16 # 10 BY <4>1, <4>3
      <4>5. QED BY <4>2, <4>4
    <3>3. QED BY <3>1, <3>2
  <2>10. CableType["client"] = 0 BY <1>1 DEF Stuck, Waits, NULL_VAL
  <2>11. 0 \notin Vals BY DEF Vals, Val
  <2>12. QED BY <1>0, <2>9, <2>10, <2>11 DEF Types, Typed
<1>2. ASSUME ~DataLine, cable = "WATCOM", ReadData("client") \in Vals PROVE ReadData("client") = 26
  BY <1>0, <1>2, Seen DEF GoodType, Vals, Val
<1>3. ASSUME ~DataLine, cable # "WATCOM" PROVE Seems("client", Mistaken(cable))
  BY <1>0, <1>3, LineLow
<1>4. ASSUME ~DataLine, cable # "WATCOM" PROVE ~SynchOver("client")
  <2>1. SUFFICES ASSUME pc["client"] = "synch" PROVE ~InSynch("client") BY DEF SynchOver
  <2>2. CableType["client"] # 0 BY <1>0, <2>1, PastBegins DEF Begins
  <2>3. CableType["client"] = Mistaken(cable) BY <1>4, <2>2 DEF Stuck, Waits
  <2>4. Ctl1Hi("client") BY <1>3, <1>4, <2>3 DEF Seems
  <2>5. ~Is("client", "WATCOM") BY <1>0, <1>4, Seen
  <2>6. QED BY <2>4, <2>5 DEF InSynch
<1>5. ASSUME SeeCtl1Hi("client") PROVE FALSE
  <2>1. pc["client"] = "wait1" /\ Ctl1Hi("client") BY <1>5 DEF SeeCtl1Hi, Access
  <2>2. cable = "WATCOM" /\ ~DataLine BY <2>1 DEF Stuck, Waits, Begins
  <2>3. Is("client", "WATCOM") BY <1>0, <2>1, <2>2, PastBegins DEF Begins
  <2>4. dead = <<"server", CTL1>> BY <2>2, StuckLine, DeadLine DEF Types
  <2>5. ctl["client"] = 4 BY <2>1, <2>2 DEF Stuck
  <2>6. QED BY <1>0, <2>1, <2>3, <2>4, <2>5, WideLow
<1>6. QED BY <1>1, <1>2, <1>3, <1>4, <1>5 DEF Seems, Mistaken

\* Both stay where they are stuck.
LEMMA NextStuck ==
  ASSUME Types, dead # NoLine, AllGood, ~Found, Stuck, NEW n \in Nodes, Step(n)
  PROVE  Stuck'
<1>0. cable' = cable /\ dead' = dead /\ (DataLine' <=> DataLine)
  BY WorldStays DEF world, DataLine
<1> DEFINE X == IF dead[1] = "client" THEN Mistaken(cable) ELSE Right(cable)
<1>1. send' \in {0, 1}
  <2>1. ~Agrees BY StuckServer DEF Agrees
  <2>2. send' = send \/ send' = 1 BY <2>1, ByteChanges DEF LineTest, Agrees
  <2>3. QED BY <2>2 DEF Stuck
<1>2. CableType'["server"] \in {0, X}
  <2>1. CableType["server"] \in {0, X} BY DEF Stuck
  <2>2. CASE n = "client"
    <3>1. CableType'["server"] = CableType["server"] BY <2>2, OtherStays DEF Nodes
    <3>2. QED BY <2>1, <3>1
  <2>3. CASE n = "server"
    <3>1. ReadData(n) \in Vals => ReadData(n) = X BY <2>3, StuckServer DEF Expected
    <3> HIDE DEF X
    <3>2. CableType' = CableType \/ (ReadData(n) \in Vals
            /\ CableType' = [CableType EXCEPT ![n] = ReadData(n)])
      BY <2>3, TypeChanges
    <3>3. QED BY <2>1, <2>3, <3>1, <3>2 DEF Types, TypeOK, Nodes
  <2>4. QED BY <2>2, <2>3 DEF Nodes
<1>3. ASSUME cable = "WATCOM"
      PROVE  /\ pc'["server"] \notin {"read", "lower2", "wait1lo"}
             /\ pc'["server"] \in Gets => ctl'["server"] = 4
  <2>1. /\ pc["server"] \notin {"read", "lower2", "wait1lo"}
        /\ pc["server"] \in Gets => ctl["server"] = 4
    BY <1>3 DEF Stuck
  <2>2. CASE n = "client"
    <3>1. pc'["server"] = pc["server"] /\ ctl'["server"] = ctl["server"]
      BY <2>2, OtherStays DEF Nodes
    <3>2. QED BY <2>1, <3>1
  <2>3. CASE n = "server"
    <3>1. ~SeeCtl1Hi(n) /\ ~SeeCtl1Lo(n) /\ ~Read(n) /\ ~LowerCtl2(n)
      BY <1>3, <2>1, <2>3, StuckServer DEF Read, LowerCtl2, Access
    <3>2. pc'["server"] \notin {"read", "lower2", "wait1lo"}
      BY <2>1, <2>3, <3>1, PcChanges DEF Types, Nodes
    <3>3. ASSUME pc'["server"] \in Gets PROVE ctl'["server"] = 4
      <4>1. CASE LowerCtl1(n)
        <5>1. pc[n] = "lower1" BY <4>1 DEF LowerCtl1
        <5>2. Is(n, "WATCOM") BY <1>3, <5>1, PastBegins DEF Begins
        <5>3. ctl' = [ctl EXCEPT ![n] = 4]
          <6>1. ~Is(n, "DUTCHMAN") BY <5>2 DEF Is, Val
          <6>2. QED BY <4>1, <5>2, <6>1 DEF LowerCtl1
        <5>4. QED BY <2>3, <5>3 DEF Types, TypeOK, Nodes
      <4>2. CASE ~LowerCtl1(n)
        <5>1. pc["server"] \in Gets BY <3>3, <4>2, ServerGets
        <5>2. ~LowerLines(n) /\ ~RaiseCtl1(n)
          BY <2>3, <5>1 DEF LowerLines, RaiseCtl1, Access, Gets
        <5>3. ctl' = ctl BY <2>3, <4>2, <5>2, CtlChanges
        <5>4. QED BY <2>1, <5>1, <5>3
      <4>3. QED BY <4>1, <4>2
    <3>4. QED BY <3>2, <3>3
  <2>4. QED BY <2>2, <2>3 DEF Nodes
<1>4. ASSUME dead[1] = "server" PROVE Waits'
  <2>0. Waits BY <1>4 DEF Stuck
  <2>1. CASE n = "server"
    <3>1. pc'["client"] = pc["client"] /\ CableType'["client"] = CableType["client"]
      BY <2>1, OtherStays DEF Nodes
    <3>2. QED BY <1>0, <2>0, <3>1 DEF Waits
  <2>2. CASE n = "client"
    <3>1. CASE DataLine
      <4>1. ReadData("client") \notin Vals /\ ~TwidleOn["client"] BY <1>4, <3>1, StuckClient
      <4>2. pc["client"] \in Begins \cup {"failed"} /\ CableType["client"] = 0
        BY <2>0, <3>1 DEF Waits, NULL_VAL
      <4>3. CableType'["client"] = 0
        BY <2>2, <4>1, <4>2, TypeChanges DEF Types, TypeOK
      <4>4. pc'["client"] \in Begins \cup {"failed"}
        BY <2>2, <4>1, <4>2, PcChanges DEF Types, Begins, LowerLines, SynchOver, SeeCtl1Lo,
             LowerCtl1, RaiseCtl2, SeeCtl1Hi, Read, LowerCtl2, SeeCtl2Hi, Write, RaiseCtl1,
             SeeCtl2Lo, Access
      <4>5. QED BY <1>0, <3>1, <4>3, <4>4 DEF Waits, NULL_VAL
    <3>2. CASE ~DataLine
      <4>1. /\ ReadData("client") \in Vals => ReadData("client") = Mistaken(cable)
            /\ cable # "WATCOM" => ~SynchOver("client")
            /\ ~SeeCtl1Hi("client")
        BY <1>4, <3>2, StuckClient
      <4>2. /\ pc["client"] \in Begins \cup {"failed", "lower", "synch"} \cup
                 IF cable = "WATCOM" THEN {"raise2", "wait1"} ELSE {}
            /\ CableType["client"] \in {0, Mistaken(cable)}
        BY <2>0, <3>2 DEF Waits
      <4>3. CableType'["client"] \in {0, Mistaken(cable)}
        <5>1. \/ CableType' = CableType \/ CableType' = [CableType EXCEPT ![n] = 0]
              \/ ReadData(n) \in Vals /\ CableType' = [CableType EXCEPT ![n] = ReadData(n)]
          BY <2>2, TypeChanges
        <5>2. QED BY <2>2, <4>1, <4>2, <5>1 DEF Types, TypeOK
      <4>4. pc'["client"] \in Begins \cup {"failed", "lower", "synch"} \cup
              IF cable = "WATCOM" THEN {"raise2", "wait1"} ELSE {}
        <5>1. pc["client"] \in
              {"twidle", "on", "off", "failed", "lower", "synch", "raise2", "wait1"}
          BY <4>2 DEF Begins
        <5>2. pc["client"] \in {"raise2", "wait1"} => cable = "WATCOM" BY <4>2 DEF Begins
        <5>3. pc'["client"] \in
              {"twidle", "on", "off", "failed", "lower", "synch", "raise2", "wait1"}
          BY <2>2, <4>1, <5>1, PcChanges DEF Types, SynchOver, SeeCtl1Lo, LowerCtl1, Read,
               LowerCtl2, SeeCtl2Hi, Write, RaiseCtl1, SeeCtl2Lo, Access
        <5>4. pc'["client"] \in {"raise2", "wait1"} => cable = "WATCOM"
          BY <2>2, <4>1, <5>1, <5>2, PcChanges DEF Types, SeeCtl1Lo, LowerCtl1, RaiseCtl2,
               Access
        <5>5. QED BY <5>3, <5>4 DEF Begins
      <4>5. QED BY <1>0, <3>2, <4>3, <4>4 DEF Waits
    <3>3. QED BY <3>1, <3>2
  <2>3. QED BY <2>1, <2>2 DEF Nodes
<1>5. ASSUME dead[1] = "server"
      PROVE  CASE cable = "LAPLINK" -> data'["client"] \in {24, 26}
               [] cable = "DUTCHMAN" -> ctl'["client"] = 1
               [] OTHER -> /\ ctl'["client"] \in {1, 4}
                           /\ pc'["client"] \in {"synch", "raise2", "wait1"} => ctl'["client"] = 4
  <2>0. Waits /\ CASE cable = "LAPLINK" -> data["client"] \in {24, 26}
               [] cable = "DUTCHMAN" -> ctl["client"] = 1
               [] OTHER -> /\ ctl["client"] \in {1, 4}
                           /\ pc["client"] \in {"synch", "raise2", "wait1"} => ctl["client"] = 4
    BY <1>5 DEF Stuck
  <2>1. CASE n = "server"
    <3>1. data'["client"] = data["client"] /\ ctl'["client"] = ctl["client"]
            /\ pc'["client"] = pc["client"]
      BY <2>1, OtherStays DEF Nodes
    <3>2. QED BY <2>0, <3>1
  <2>2. CASE n = "client"
    <3>0. pc["client"] \in {"twidle", "on", "off", "failed", "lower", "synch", "raise2", "wait1"}
          /\ (cable # "WATCOM" => pc["client"] \notin {"raise2", "wait1"})
      BY <2>0 DEF Waits, Begins
    <3>1. ~Write(n) /\ ~LowerCtl1(n) /\ ~LowerCtl2(n) /\ ~RaiseCtl1(n)
          /\ (cable # "WATCOM" => ~RaiseCtl2(n))
      BY <2>2, <3>0 DEF Write, LowerCtl1, LowerCtl2, RaiseCtl1, RaiseCtl2, Access
    <3>2. LowerLines(n) => /\ CableType["client"] \in Vals /\ CableType["client"] = Mistaken(cable)
                           /\ ~DataLine
      <4>1. SUFFICES ASSUME LowerLines(n)
                     PROVE /\ CableType["client"] \in Vals /\ CableType["client"] = Mistaken(cable)
                           /\ ~DataLine
        OBVIOUS
      <4>2. pc["client"] = "lower" BY <2>2, <4>1 DEF LowerLines
      <4>3. CableType["client"] \in Vals BY <2>2, <4>2 DEF Types, Typed, Begins
      <4>4. 0 \notin Vals BY DEF Vals, Val
      <4>5. QED BY <2>0, <4>2, <4>3, <4>4 DEF Waits, Begins
    <3>3. CASE cable = "LAPLINK"
      <4>1. LowerLines(n) => Is(n, "DUTCHMAN") BY <2>2, <3>2, <3>3 DEF Is, Val, Mistaken
      <4>2. data' = data \/ data' = [data EXCEPT ![n] = 24] \/ data' = [data EXCEPT ![n] = 26]
        BY <3>1, <3>3, <4>1, DataChanges
      <4>3. data'["client"] \in {24, 26} BY <2>0, <2>2, <3>3, <4>2 DEF Types, TypeOK
      <4>4. QED BY <3>3, <4>3
    <3>4. CASE cable = "DUTCHMAN"
      <4>1. LowerLines(n) => ~Is(n, "DUTCHMAN") /\ ~Is(n, "WATCOM")
        BY <2>2, <3>2, <3>4 DEF Is, Val, Mistaken
      <4>2. ctl' = ctl \/ ctl' = [ctl EXCEPT !["client"] = 1] BY <3>1, <4>1, CtlChanges
      <4>3. ctl'["client"] = 1 BY <2>0, <2>2, <3>4, <4>2 DEF Types, TypeOK
      <4>4. QED BY <3>4, <4>3
    <3>5. CASE cable = "WATCOM"
      <4>1. LowerLines(n) => Is(n, "WATCOM") /\ ~Is(n, "DUTCHMAN")
        BY <2>2, <3>2, <3>5 DEF Is, Val, Mistaken
      <4>2. ctl["client"] \in {1, 4}
              /\ (pc["client"] \in {"synch", "raise2", "wait1"} => ctl["client"] = 4)
        BY <2>0, <3>5
      <4>3. \/ ctl' = ctl /\ ~LowerLines(n)
            \/ RemoteLink /\ ctl' = [ctl EXCEPT !["client"] = 1]
            \/ LowerLines(n) /\ ctl' = [ctl EXCEPT ![n] = 4]
        BY <3>1, <4>1, CtlChanges DEF LowerLines
      <4>4. ctl'["client"] \in {1, 4} BY <2>2, <4>2, <4>3 DEF Types, TypeOK
      <4>5. ASSUME pc'["client"] \in {"synch", "raise2", "wait1"} PROVE ctl'["client"] = 4
        <5>1. ~RemoteLink BY <2>2, <4>5 DEF RemoteLink, Goto, Types
        <5>2. LowerLines(n) \/ pc["client"] \in {"synch", "raise2", "wait1"}
          BY <2>2, <3>0, <4>5, PcChanges DEF Types, SynchOver, SeeCtl1Lo, LowerCtl1, RaiseCtl2,
               Access
        <5>3. QED BY <2>2, <4>2, <4>3, <5>1, <5>2 DEF Types, TypeOK
      <4>6. QED BY <3>5, <4>4, <4>5
    <3>6. QED BY <3>3, <3>4, <3>5, Cables
  <2>3. QED BY <2>1, <2>2 DEF Nodes
<1>6. QED BY <1>0, <1>1, <1>2, <1>3, <1>4, <1>5 DEF Stuck

-----------------------------------------------------------------------------
(* LinesWork *)

\* The invariant holds when both sides have run RemoteLink,
LEMMA InitFlawed == Init => Flawed
<1> SUFFICES ASSUME Init, dead # NoLine
             PROVE  /\ \A n \in Nodes : Values(n) /\ pc[n] # "connected"
                    /\ pc["server"] \in Puts => byte["server"] = send
                    /\ IF Found THEN Missing(dead[2]) ELSE Stuck
  BY DEF Flawed
<1>0. Types BY InitTypes
<1>1. \A n \in Nodes : Values(n) BY InitGood DEF AllGood
<1>2. pc["server"] = "poll" /\ pc["client"] = "twidle" /\ send = 0 /\ byte["client"] = 0
      /\ data["client"] = 24 /\ ctl["client"] = 1
      /\ CableType["client"] = 0 /\ CableType["server"] = 0
  BY DEF Init, Nodes, NULL_VAL, TWIDLE_OFF
<1>3. \A n \in Nodes : pc[n] # "connected" BY <1>2 DEF Nodes
<1>4. pc["server"] \notin Puts /\ pc["server"] \notin Gets BY <1>2 DEF Puts, Gets
<1>5. ASSUME Found PROVE Missing(dead[2])
  <2>1. dead[2] \in 0..7 /\ (cable # "WATCOM" => dead[2] + 4 \in 0..7) BY <1>0, <1>5, FoundLine
  <2>2. 1 <= 2^dead[2] BY <2>1, PowPositive
  <2>3. 0 <= 2^dead[2]
    <3>1. PICK k \in 0..7 : k = dead[2] BY <2>1
    <3>2. 2^k \in Int BY <3>1
    <3>3. QED BY <2>2, <3>1, <3>2
  <2>4. Lacks(0, dead[2]) /\ (cable # "WATCOM" => Lacks(0, dead[2] + 4)) BY <2>1, ZeroLacks
  <2>5. dead[1] = "server" => Lacks(24, dead[2]) BY <1>0, <1>5, FoundLine, ConstantsLack
  <2>6. QED BY <1>2, <1>4, <2>3, <2>4, <2>5 DEF Missing
<1>6. ASSUME ~Found PROVE Stuck
  BY <1>2, <1>4 DEF Stuck, Waits, Begins, NULL_VAL
<1>7. QED BY <1>1, <1>3, <1>4, <1>5, <1>6

\* The server is never content with the last of its bytes.
LEMMA NeverLast ==
  ASSUME Types, Flawed, dead # NoLine
  PROVE  ~(Agrees /\ send = 128)
<1>1. CASE Found BY <1>1, MissingAgrees DEF Flawed
<1>2. CASE ~Found BY <1>2, StuckServer DEF Flawed, Agrees, AllGood
<1>3. QED BY <1>1, <1>2

\* and every step keeps it: the byte that ends the line test is never sent.
LEMMA NextFlawed ==
  ASSUME Types, Flawed, [Next]_vars
  PROVE  Flawed'
<1>1. CASE UNCHANGED vars
  <2>1. UNCHANGED <<cable, dead, data, ctl, CableType, TwidleOn, pc, byte, send>>
    BY <1>1 DEF vars, world, twidles, testVars
  <2>2. QED BY <2>1 DEF Flawed, Values, Found, DataLine, Tells, Missing, Stuck, Waits
<1>2. CASE Next
  <2>1. PICK n \in Nodes : Step(n) BY <1>2, Steps
  <2>2. UNCHANGED <<cable, dead>> BY <2>1, WorldStays DEF world
  <2>3. SUFFICES ASSUME dead # NoLine
                 PROVE  /\ (\A m \in Nodes : Values(m) /\ pc[m] # "connected")'
                        /\ (pc["server"] \in Puts => byte["server"] = send)'
                        /\ (IF Found THEN Missing(dead[2]) ELSE Stuck)'
    BY <2>2 DEF Flawed
  <2>4. AllGood /\ (\A m \in Nodes : pc[m] # "connected")
          /\ (pc["server"] \in Puts => byte["server"] = send)
    BY <2>3 DEF Flawed, AllGood
  <2>5. AllGood' BY <2>1, <2>3, <2>4, NextGood, NeverLast
  <2>6. ASSUME NEW m \in Nodes PROVE pc'[m] # "connected"
    <3>1. SUFFICES ASSUME pc'[n] = "connected" PROVE FALSE BY <2>1, <2>4, <2>6, OtherStays
    <3>2. byte[n] = 255 /\ (n = "server" => pc[n] = "lower1")
      BY <2>1, <2>4, <3>1, PcChanges DEF Types, DONE_LINE_TEST, LowerCtl1
    <3>3. CASE n = "server"
      <4>1. send = 255 BY <2>4, <3>2, <3>3 DEF Puts
      <4>2. send \in 0..128 BY DEF Types, TypeOK
      <4>3. QED BY <4>1, <4>2
    <3>4. CASE n = "client"
      <4>1. GoodByte(cable, 255) BY <2>4, <3>2 DEF AllGood, Values
      <4>2. QED BY <4>1 DEF GoodByte, Wide, Powers, Nibbles
    <3>5. QED BY <3>3, <3>4 DEF Nodes
  <2>7. ASSUME pc'["server"] \in Puts PROVE byte'["server"] = send'
    <3>1. CASE Agrees /\ TestedAll
      <4>1. send # 128 BY <2>3, <3>1, NeverLast
      <4>2. byte' = [byte EXCEPT !["server"] = send * 2] /\ send' = send * 2
        BY <3>1, <4>1 DEF TestedAll, PutByte
      <4>3. QED BY <4>2 DEF Types, TypeOK, Nodes
    <3>2. CASE ~(Agrees /\ TestedAll)
      BY <2>1, <2>4, <2>7, <3>2, ServerPuts
    <3>3. QED BY <3>1, <3>2
  <2>8. Found' <=> Found BY <2>2 DEF Found, DataLine, Tells
  <2>9. Found => Missing(dead[2])' BY <2>1, <2>3, <2>4, NextMissing DEF Flawed
  <2>10. ~Found => Stuck' BY <2>1, <2>3, <2>4, NextStuck DEF Flawed
  <2>11. QED BY <2>5, <2>6, <2>7, <2>8, <2>9, <2>10 DEF AllGood
<1>3. QED BY <1>1, <1>2

\* LinesWork for every cable, any dead lines, any number of pulses and of
\* attempts, slow or not: LineTest (parlink.c) lets no server begin a session
\* over a cable one of whose lines is dead.
THEOREM LinesWorkHolds == Spec => []LinesWork
<1>1. Init => Types /\ Flawed BY InitTypes, InitFlawed
<1>2. Types /\ Flawed /\ [Next]_vars => Types' /\ Flawed' BY NextTypes, NextFlawed
<1>3. Types /\ Flawed => LinesWork BY DEF Flawed, LinesWork, Connected, Nodes
<1>4. QED BY <1>1, <1>2, <1>3, PTL DEF Spec
=============================================================================

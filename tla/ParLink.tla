------------------------------- MODULE ParLink -------------------------------
(***************************************************************************)
(* The parallel-port link (bld/trap/par/c/parlink.c) once it is connected: *)
(* DataGet and DataPut move a byte over wires that carry data and          *)
(* handshake at once, RemoteGet and RemotePut move packets, and the        *)
(* debugger ("client") and the debug server ("server") use them.           *)
(*                                                                         *)
(* Every access of a port is a step of its own.  A cable gives each side   *)
(* two control lines: the reader raises Ctl2 when it is ready and lowers   *)
(* it when it has the bits, the writer raises Ctl1 when the bits are there *)
(* and lowers it when it has been heard.                                   *)
(***************************************************************************)
EXTENDS Integers, Sequences, SequencesExt

CONSTANTS
  Nib,       \* values of half a byte: 16 in the code
  Requests,  \* the requests the debugger may make, as sequences of bytes
  Responses, \* the responses the server may give
  MaxPuts    \* bound: requests made

Base == Nib * Nib        \* values of a byte
Half == Base \div 2      \* 0x80
CTL2 == Nib \div 2       \* 0x08: bit 3 of the data port is the Ctl2 line

Byte == 0..(Base - 1)

\* A length is sent in one byte, or in two with 0x80 set in the first.  A
\* request has at least its first byte.
ASSUME ParConstants ==
  /\ Nib \in Nat /\ Nib > 1 /\ Nib % 2 = 0
  /\ MaxPuts \in Nat
  /\ Requests \subseteq Seq(Byte) /\ Responses \subseteq Seq(Byte)
  /\ \A p \in Requests \cup Responses : Len(p) < Half * Base
  /\ \A p \in Requests : p # <<>>

Cables == {"WATCOM", "LAPLINK", "DUTCHMAN"}
Nodes == {"client", "server"}
Peer(n) == IF n = "client" THEN "server" ELSE "client"

VARIABLES
  CableType,
  data,    \* data[n]: what n's data port drives, its control line 1 apart
  ctl1,    \* ctl1[n]: n raises control line 1
  pc,      \* the port access each side is about to make
  todo,    \* todo[n]: the units n has yet to write, the current one first
  have,    \* have[n]: the units RemoteGet has read of the packet
  sent,    \* sent[n]: the packets n gave to RemotePut
  got      \* got[n]: the packets RemoteGet returned to n

vars == <<CableType, data, ctl1, pc, todo, have, sent, got>>

-----------------------------------------------------------------------------
(* Units and packets *)

\* The WATCOM cable moves a byte at a time, the others its two halves.
Wide == CableType = "WATCOM"
Unit == IF Wide THEN Byte ELSE 0..(Nib - 1)
Units(bytes) ==
  IF Wide THEN bytes
  ELSE [i \in 1..(2 * Len(bytes)) |->
          IF i % 2 = 1 THEN bytes[(i + 1) \div 2] % Nib ELSE bytes[i \div 2] \div Nib]

\* The bytes that units stand for; a low half without its high half is none.
BytesOf(units) ==
  IF Wide THEN units
  ELSE [i \in 1..(Len(units) \div 2) |-> units[2 * i - 1] + Nib * units[2 * i]]

\* RemotePut's bytes: the length, then the data.
HeaderOneByte(len) == <<len % Base>>
Header(len) ==
  IF len >= Half THEN <<len \div Base + Half, len % Base>> ELSE <<len>>
Frame(p) == Header(Len(p)) \o p

\* RemoteGet has read a whole packet, and the data in it.
DataStart(bytes) == IF bytes[1] >= Half THEN 3 ELSE 2
DataLen(bytes) ==
  IF bytes[1] >= Half THEN (bytes[1] - Half) * Base + bytes[2] ELSE bytes[1]
IsPacket(units) ==
  LET bytes == BytesOf(units)
  IN /\ bytes # <<>> /\ Len(units) = Len(Units(bytes))
     /\ bytes[1] >= Half => Len(bytes) > 1
     /\ Len(bytes) = DataStart(bytes) - 1 + DataLen(bytes)
Packet(units) ==
  LET bytes == BytesOf(units) IN SubSeq(bytes, DataStart(bytes), Len(bytes))

\* Bit 7 of a request's first byte says that it has no response.
Wants(request) == request[1] < Half

-----------------------------------------------------------------------------
(* The wires *)

Ctl2Hi(n) == data[Peer(n)] % Nib >= CTL2

\* Pin 17 of the WATCOM cable is driven by both sides.
Ctl1Hi(n) == ctl1[Peer(n)] \/ (Wide /\ ctl1[n])

ReadData(n) == IF Wide THEN data[Peer(n)] ELSE data[Peer(n)] % Nib

\* An output to the data port; on the LAPLINK cable control line 1 is bit 4
\* of it.
OutData(n, value, line1) ==
  /\ data' = [data EXCEPT ![n] = value]
  /\ ctl1' = IF CableType = "LAPLINK" THEN [ctl1 EXCEPT ![n] = line1] ELSE ctl1

Goto(n, place) == pc' = [pc EXCEPT ![n] = place]

-----------------------------------------------------------------------------
(* DataGet, called by RemoteGet *)

\* Where a finished RemoteGet or RemotePut leaves its caller: DoRequest or
\* the server's Session loop.
AfterGet(n) == IF n = "client" THEN "app" ELSE "exec"
AfterPut(n) ==
  IF n = "client" /\ ~Wants(Last(sent[n])) THEN "app" ELSE "raise2"

\* Hi, I'm ready to read.
RaiseCtl2(n) ==
  /\ pc[n] = "raise2" /\ Goto(n, "wait1")
  /\ OutData(n, CTL2, FALSE)
  /\ UNCHANGED <<CableType, todo, have, sent, got>>

SeeCtl1Hi(n) ==
  /\ pc[n] = "wait1" /\ Ctl1Hi(n) /\ Goto(n, "read")
  /\ UNCHANGED <<CableType, data, ctl1, todo, have, sent, got>>

Read(n) ==
  /\ pc[n] = "read" /\ Goto(n, "lower2")
  /\ have' = [have EXCEPT ![n] = Append(@, ReadData(n))]
  /\ UNCHANGED <<CableType, data, ctl1, todo, sent, got>>

\* Hey you, I got the bits.
LowerCtl2(n) ==
  /\ pc[n] = "lower2" /\ Goto(n, "wait1lo")
  /\ OutData(n, 0, FALSE)
  /\ UNCHANGED <<CableType, todo, have, sent, got>>

\* He heard us: the unit is read, and perhaps the packet.  A DataGet that
\* does not wait for this leaves at once.
ReadOver(n) ==
  /\ IF IsPacket(have[n])
     THEN /\ got' = [got EXCEPT ![n] = Append(@, Packet(have[n]))]
          /\ have' = [have EXCEPT ![n] = <<>>]
          /\ Goto(n, AfterGet(n))
     ELSE Goto(n, "raise2") /\ UNCHANGED <<have, got>>
  /\ UNCHANGED <<CableType, data, ctl1, todo, sent>>

SeeCtl1LoAtOnce(n) == pc[n] = "wait1lo" /\ ReadOver(n)
SeeCtl1Lo(n) == pc[n] = "wait1lo" /\ ~Ctl1Hi(n) /\ ReadOver(n)

-----------------------------------------------------------------------------
(* DataPut, called by RemotePut *)

SeeCtl2Hi(n) ==
  /\ pc[n] = "wait2" /\ Ctl2Hi(n) /\ Goto(n, "write")
  /\ UNCHANGED <<CableType, data, ctl1, todo, have, sent, got>>

\* Write the data; on the LAPLINK cable the same output raises control line 1.
WriteEarlyCtl1(n) ==
  /\ pc[n] = "write" /\ Goto(n, "raise1")
  /\ data' = data /\ ctl1' = [ctl1 EXCEPT ![n] = TRUE]
  /\ UNCHANGED <<CableType, todo, have, sent, got>>
Write(n) ==
  /\ pc[n] = "write"
  /\ Goto(n, IF CableType = "LAPLINK" THEN "wait2lo" ELSE "raise1")
  /\ OutData(n, Head(todo[n]), TRUE)
  /\ UNCHANGED <<CableType, todo, have, sent, got>>

RaiseCtl1(n) ==
  /\ pc[n] = "raise1" /\ Goto(n, "wait2lo")
  /\ ctl1' = [ctl1 EXCEPT ![n] = TRUE]
  /\ UNCHANGED <<CableType, data, todo, have, sent, got>>

SeeCtl2LoAtOnce(n) ==
  /\ pc[n] = "wait2lo" /\ Goto(n, "lower1")
  /\ UNCHANGED <<CableType, data, ctl1, todo, have, sent, got>>
SeeCtl2Lo(n) ==
  /\ pc[n] = "wait2lo" /\ ~Ctl2Hi(n) /\ Goto(n, "lower1")
  /\ UNCHANGED <<CableType, data, ctl1, todo, have, sent, got>>

LowerCtl1(n) ==
  /\ pc[n] = "lower1"
  /\ ctl1' = [ctl1 EXCEPT ![n] = FALSE]
  /\ data' = IF CableType = "LAPLINK" THEN [data EXCEPT ![n] = 0] ELSE data
  /\ todo' = [todo EXCEPT ![n] = Tail(@)]
  /\ Goto(n, IF Len(todo[n]) > 1 THEN "wait2" ELSE AfterPut(n))
  /\ UNCHANGED <<CableType, have, sent, got>>

-----------------------------------------------------------------------------
(* The two hosts *)

RemotePut(n, p) ==
  /\ sent' = [sent EXCEPT ![n] = Append(@, p)]
  /\ todo' = [todo EXCEPT ![n] = Units(Frame(p))]
  /\ Goto(n, "wait2")
  /\ UNCHANGED <<CableType, data, ctl1, have, got>>

Request ==
  /\ pc["client"] = "app" /\ Len(sent["client"]) < MaxPuts
  /\ \E p \in Requests : RemotePut("client", p)

AnswerAll ==
  pc["server"] = "exec" /\ \E p \in Responses : RemotePut("server", p)
Answer ==
  /\ pc["server"] = "exec" /\ Wants(Last(got["server"]))
  /\ \E p \in Responses : RemotePut("server", p)

Performed ==
  /\ pc["server"] = "exec" /\ ~Wants(Last(got["server"])) /\ Goto("server", "raise2")
  /\ UNCHANGED <<CableType, data, ctl1, todo, have, sent, got>>

-----------------------------------------------------------------------------
\* After LineTest, whose last step was the server's DataPut of 255: the bits
\* stay on a data port that DataPut does not clear.
Init ==
  /\ CableType \in Cables
  /\ data = [n \in Nodes |-> IF n = "client" \/ CableType = "LAPLINK" THEN 0
                             ELSE IF Wide THEN Base - 1 ELSE Nib - 1]
  /\ ctl1 = [n \in Nodes |-> FALSE]
  /\ pc = [n \in Nodes |-> IF n = "client" THEN "app" ELSE "raise2"]
  /\ todo = [n \in Nodes |-> <<>>]
  /\ have = [n \in Nodes |-> <<>>]
  /\ sent = [n \in Nodes |-> <<>>]
  /\ got = [n \in Nodes |-> <<>>]

DataGet(n) ==
  RaiseCtl2(n) \/ SeeCtl1Hi(n) \/ Read(n) \/ LowerCtl2(n) \/ SeeCtl1Lo(n)

DataPut(n) ==
  SeeCtl2Hi(n) \/ Write(n) \/ RaiseCtl1(n) \/ SeeCtl2Lo(n) \/ LowerCtl1(n)

Next ==
  \/ \E n \in Nodes : DataGet(n) \/ DataPut(n)
  \/ Request \/ Answer \/ Performed

Spec == Init /\ [][Next]_vars

\* Both programs keep running; the user need not make requests.
Fairness ==
  /\ \A n \in Nodes : WF_vars(DataGet(n)) /\ WF_vars(DataPut(n))
  /\ WF_vars(Answer) /\ WF_vars(Performed)

FairSpec == Spec /\ Fairness

-----------------------------------------------------------------------------
(* Properties *)

Reading == {"raise2", "wait1", "read", "lower2", "wait1lo"}
Writing == {"wait2", "write", "raise1", "wait2lo", "lower1"}

\* Every variable keeps its type.
TypeOK ==
  /\ CableType \in Cables
  /\ data \in [Nodes -> Unit]
  /\ ctl1 \in [Nodes -> BOOLEAN]
  /\ pc \in [Nodes -> Reading \cup Writing \cup {"app", "exec"}]
  /\ todo \in [Nodes -> Seq(Unit)]
  /\ have \in [Nodes -> Seq(Unit)]
  /\ sent \in [Nodes -> Seq(Seq(Byte))]
  /\ got \in [Nodes -> Seq(Seq(Byte))]

\* Packets arrive as they were sent: complete, in order, none twice.
AsSent == \A n \in Nodes : IsPrefix(got[n], sent[Peer(n)])

\* The bits stay where they are until the reader has them, and a byte that is
\* on the data port for another reason is never taken for one.
BitsHold ==
  \A n \in Nodes :
    pc[n] = "read" => /\ pc[Peer(n)] = "wait2lo"
                      /\ ReadData(n) = Head(todo[Peer(n)])

\* The two sides never drive control line 1, one wire on the WATCOM cable, at
\* the same time.
OneDriver == ~(ctl1["client"] /\ ctl1["server"])

\* The two sides never both write.
OneWriter == ~(pc["client"] \in Writing /\ pc["server"] \in Writing)

\* Pins and roles are each used by one side at a time.
WiresOK == TypeOK /\ OneDriver /\ OneWriter

\* The debugger's call on the link ends.
CallEnds == pc["client"] # "app" ~> pc["client"] = "app"

\* Why all this holds.  Of the packets w has sent, its peer r has had all but
\* Left(w), and Current(w) is the one it is reading; Rest(w) is what r has not
\* read yet of what w still has in hand.
Left(w) == Len(sent[w]) - Len(got[Peer(w)])
Current(w) == sent[w][Len(got[Peer(w)]) + 1]
Taken(w) == pc[Peer(w)] \in {"lower2", "wait1lo"} /\ pc[w] \in {"wait2lo", "lower1"}
Rest(w) == IF Taken(w) THEN Tail(todo[w]) ELSE todo[w]

\* From w to its peer: nothing is under way; w is sending a packet; w has sent
\* one that its peer has yet to return from; and w already has the next as well.
Quiet(w) == Left(w) = 0 /\ have[Peer(w)] = <<>> /\ todo[w] = <<>>
Under(w) == Left(w) = 1 /\ todo[w] # <<>> /\ have[Peer(w)] \o Rest(w) = Units(Frame(Current(w)))
Over(w) == /\ Left(w) = 1 /\ todo[w] = <<>> /\ pc[Peer(w)] = "wait1lo"
           /\ have[Peer(w)] = Units(Frame(Current(w)))
Ahead(w) == /\ Left(w) = 2 /\ pc[w] = "wait2" /\ pc[Peer(w)] = "wait1lo"
            /\ have[Peer(w)] = Units(Frame(Current(w)))
            /\ todo[w] = Units(Frame(Last(sent[w])))

\* Where the two sides of one unit's handshake can be.
Ready == {"raise2", "wait1"}
Handshake(w) ==
  LET r == Peer(w)
  IN  \/ pc[r] \in Ready /\ pc[w] = "wait2"
      \/ pc[r] \in Ready /\ pc[w] \in {"write", "raise1", "wait2lo"} /\ Ctl2Hi(w)
      \/ pc[r] \in {"read", "lower2"} /\ pc[w] = "wait2lo"
      \/ pc[r] = "wait1lo" /\ pc[w] \in {"wait2", "wait2lo", "lower1"}

\* What a side has on its outputs.
Outputs == \A n \in Nodes :
  /\ ctl1[n] <=> pc[n] \in {"wait2lo", "lower1"}
  /\ pc[n] \in {"wait1", "read", "lower2"} => data[n] = CTL2
  /\ pc[n] \in {"wait1lo", "exec"} => data[n] = 0
  /\ pc[n] \in {"raise1", "wait2lo", "lower1"} => data[n] = Head(todo[n])

\* What has been got was sent, and every packet sent has a length that fits.
Delivered == \A n \in Nodes :
  /\ \A i \in 1..Len(sent[n]) : Len(sent[n][i]) < Half * Base
  /\ \A i \in 1..Len(got[Peer(n)]) : got[Peer(n)][i] = sent[n][i]

\* w is sending a unit, and its peer reads it.
Moving(w) == Handshake(w) /\ Under(w) /\ Quiet(Peer(w))

\* The other situations of the two sides.  The debugger makes no request; has
\* the next request in hand while the server finishes one without a response;
\* waits for a response; and finishes reading it.
Performing == pc["server"] = "exec" /\ got["server"] # <<>>
WantsIt == Wants(Last(got["server"]))
Idle ==
  /\ pc["client"] = "app" /\ Quiet("server")
  /\ \/ Quiet("client") /\ pc["server"] \in Ready
     \/ Quiet("client") /\ Performing /\ ~WantsIt
     \/ Over("client") /\ ~Wants(Current("client"))
Asking ==
  /\ pc["client"] = "wait2" /\ Quiet("server")
  /\ \/ Under("client") /\ Performing /\ ~WantsIt
     \/ Ahead("client") /\ ~Wants(Current("client"))
Awaiting ==
  /\ pc["client"] \in Ready /\ Quiet("server")
  /\ \/ Over("client") /\ Wants(Current("client"))
     \/ Quiet("client") /\ Performing /\ WantsIt
Answered == pc["server"] \in Ready /\ Over("server") /\ Quiet("client")

Situation ==
  Moving("client") \/ Moving("server") \/ Idle \/ Asking \/ Awaiting \/ Answered

\* The inductive invariant: packets, roles and wires agree at every access.
IInv == TypeOK /\ Outputs /\ Delivered /\ Situation

\* The link delivers every packet before its sender sends the next.  A packet
\* counts as received when its last unit has been read; one that arrives
\* changed counts as number 0, which was never sent.
Received(n) ==
  LET all == IF pc[n] \in {"lower2", "wait1lo"} /\ IsPacket(have[n])
             THEN Append(got[n], Packet(have[n])) ELSE got[n]
  IN [i \in DOMAIN all |->
        IF i \in DOMAIN sent[Peer(n)] /\ all[i] = sent[Peer(n)][i] THEN i ELSE 0]
ExactLink == INSTANCE PacketLink WITH
  Lossy <- FALSE, sent <- [n \in Nodes |-> Len(sent[n])],
  got <- [n \in Nodes |-> Received(n)]
ImplementsExactLink == ExactLink!Spec
=============================================================================

------------------------------ MODULE ParConnect ------------------------------
(***************************************************************************)
(* How the two ends of a parallel-port cable find each other               *)
(* (bld/trap/par/c/parlink.c): each side pulses a line and counts the      *)
(* pulses of the other, takes from what it reads which cable it is on,     *)
(* lowers its control lines, waits until the other has done so, and then   *)
(* tests every line by sending bytes to and fro.  ParLink begins where     *)
(* this module ends.                                                       *)
(*                                                                         *)
(* Ports keep the bytes the code writes to them.  A cable may have one     *)
(* dead line, and on a slow machine any wait may run into its time limit.  *)
(***************************************************************************)
EXTENDS Integers, Sequences

CONSTANTS
  CablesUsed,       \* the cables considered, of {"WATCOM", "LAPLINK", "DUTCHMAN"}
  DeadLines,    \* the lines considered that may be dead, in either direction
  Slow,         \* the values of slow considered
  Pulses,       \* pulses of one Twidle: 20 in the code
  MaxAttempts   \* bound: times the debugger is started

Nodes == {"client", "server"}
Peer(n) == IF n = "client" THEN "server" ELSE "client"

\* A line of a cable: a bit of the data port, or control line 1; the dead one
\* is given with the side that drives it.
CTL1 == 8
NoLine == <<"none", 9>>
LinesOf(c) ==
  CASE c = "WATCOM" -> 0..8 [] c = "LAPLINK" -> 0..4 [] OTHER -> 0..3 \cup {CTL1}
Dead(c) == {NoLine} \cup (Nodes \X (DeadLines \cap LinesOf(c)))

ASSUME ParConnectConstants ==
  /\ CablesUsed \subseteq {"WATCOM", "LAPLINK", "DUTCHMAN"} /\ Slow \subseteq BOOLEAN
  /\ DeadLines \subseteq 0..CTL1
  /\ Pulses \in Nat \ {0} /\ MaxAttempts \in Nat

TWIDLE_ON == 26                          \* 0x1A
TWIDLE_OFF == 24                         \* 0x18
Val == [WATCOM |-> 26, FMR |-> 42, LAPLINK |-> 210, DUTCHMAN |-> 82]
Vals == {Val[c] : c \in DOMAIN Val}
NULL_VAL == 0
TWIDLE_NUM == 2
DONE_LINE_TEST == 255

VARIABLES
  cable,        \* the cable there is
  dead,         \* its dead line
  slow,         \* waits may time out
  data,         \* data[n]: the byte on n's data port
  ctl,          \* ctl[n]: the byte n wrote last to CtlPort2
  CableType,    \* the cable each side takes it for
  TwidleOn,
  TwidleCount,  \* a char
  pc,           \* where each side is
  pulses,       \* pulses[n]: pulses n has sent in this Twidle
  got_twidles,  \* the server saw the client's lines go low while it twidled
  byte,         \* byte[n]: what DataPut sends or DataGet has read so far
  high,         \* high[n]: DataGet or DataPut is at the byte's second half
  ticked,       \* whose clock has ticked last
  send,         \* the byte the server has sent in its line test
  attempts      \* times the debugger has been started

world == <<cable, dead, slow>>
twidles == <<CableType, TwidleOn, TwidleCount, pulses, got_twidles>>
testVars == <<byte, high, send>>
vars == <<world, data, ctl, twidles, pc, testVars, ticked, attempts>>

Goto(n, place) == pc' = [pc EXCEPT ![n] = place]

-----------------------------------------------------------------------------
(* The ports and the cable *)

Bit(b, k) == (b \div 2^k) % 2

\* The byte on the peer's data port as it comes through the cable.
Arriving(n) ==
  LET d == data[Peer(n)]
  IN IF dead[1] = Peer(n) /\ dead[2] # CTL1 THEN d - Bit(d, dead[2]) * 2^dead[2] ELSE d

\* The peer drives control line 1 through CtlPort2 with this bit of it.
Drives(n, m, k) == Bit(ctl[m], k) = 1 /\ ~(m # n /\ dead = <<m, CTL1>>)

\* Bits 3 to 7 of CtlPort1, with bit 7 turned round as ReadData does.
Status(n) ==
  CASE cable = "WATCOM" -> (Arriving(n) \div 8) * 8
    [] cable = "LAPLINK" -> (Arriving(n) % 32) * 8
    [] OTHER -> (Arriving(n) % 16) * 8 + (IF Drives(n, Peer(n), 0) THEN 0 ELSE 128)

\* Bits 0 to 2 of CtlPort2 as ReadData reads them.  A pin reads as low when
\* n's own output holds it low, and as high when nothing drives it.
Control(n) ==
  LET low == IF cable = "WATCOM" THEN Arriving(n) % 8 ELSE 7
  IN Bit(low, 1) * 2 + (IF Bit(ctl[n], 0) = 1 THEN 0 ELSE low % 2)
     + (IF Bit(ctl[n], 2) = 0 THEN 0 ELSE Bit(low, 2) * 4)

ReadData(n) == Status(n) + Control(n)

Is(n, c) == CableType[n] = Val[c]

\* The macros for control lines and data, by the cable n takes it for.  Pin 17
\* of the WATCOM cable is driven by both sides.
Ctl1Hi(n) ==
  CASE Is(n, "WATCOM") -> Drives(n, n, 3) \/ Drives(n, Peer(n), 3)
    [] Is(n, "LAPLINK") -> Bit(Status(n), 7) = 1
    [] OTHER -> Bit(Status(n), 7) = 0

Ctl2Hi(n) == Bit(Status(n), IF Is(n, "WATCOM") THEN 3 ELSE 6) = 1

ReadUnit(n) == IF Is(n, "WATCOM") THEN ReadData(n) ELSE (Status(n) \div 8) % 16
Unit(n) ==
  IF Is(n, "WATCOM") THEN byte[n] ELSE IF high[n] THEN byte[n] \div 16 ELSE byte[n] % 16

-----------------------------------------------------------------------------
(* Pulses *)

\* What one look at the line changes: nothing, most of the time.
Sees(n) ==
  IF TwidleOn[n] THEN ReadData(n) # CableType[n] ELSE ReadData(n) \in Vals

\* CountTwidle; it returns TRUE when TwidleCount becomes TWIDLE_NUM.
Counts(n) ==
  /\ Sees(n)
  /\ TwidleOn' = [TwidleOn EXCEPT ![n] = ~@]
  /\ TwidleCount' = [TwidleCount EXCEPT ![n] =
       IF TwidleOn[n] THEN (@ + 1) % 256 ELSE IF ReadData(n) # CableType[n] THEN 0 ELSE @]
  /\ CableType' = [CableType EXCEPT ![n] = IF TwidleOn[n] THEN @ ELSE ReadData(n)]

CountTwidle(n, from, to) ==
  /\ pc[n] \in from /\ Counts(n)
  /\ IF TwidleOn[n] /\ TwidleCount'[n] = TWIDLE_NUM THEN Goto(n, to) ELSE UNCHANGED pc
  /\ UNCHANGED <<world, data, ctl, pulses, got_twidles, testVars, ticked, attempts>>

ServerCounts == CountTwidle("server", {"poll"}, "twidle")
ClientCounts == CountTwidle("client", {"on", "off"}, "lower")

\* Synch: the other side has lowered its lines.
InSynch(n) == IF Is(n, "WATCOM") THEN ~Ctl2Hi(n) ELSE ~Ctl1Hi(n)

\* Half a pulse lasts one tick.  On a machine that is not slow both sides have
\* by then seen what there is to see and done what they do without waiting.
Idles(n) ==
  CASE pc[n] = "poll" -> ~Sees(n)
    [] pc[n] \in {"on", "off"} -> IF n = "client" THEN ~Sees(n) ELSE ~InSynch(n)
    [] pc[n] = "synch" -> ~InSynch(n)
    [] pc[n] = "wait1" -> ~Ctl1Hi(n)
    [] pc[n] = "wait1lo" -> Ctl1Hi(n)
    [] pc[n] = "wait2" -> ~Ctl2Hi(n)
    [] pc[n] = "wait2lo" -> Ctl2Hi(n)
    [] OTHER -> pc[n] \in {"failed", "connected"}

\* The clocks of two such machines tick in turn.
Twidling(n) == pc[n] \in {"on", "off"}
TickOver(n) ==
  /\ slow \/ ((\A m \in Nodes : Idles(m)) /\ (ticked = n => ~Twidling(Peer(n))))
  /\ ticked' = n

PulseOn(n) ==
  /\ \/ pc[n] = "twidle" /\ UNCHANGED ticked
     \/ pc[n] = "off" /\ pulses[n] < Pulses /\ TickOver(n)
  /\ data' = [data EXCEPT ![n] = TWIDLE_ON]
  /\ pulses' = [pulses EXCEPT ![n] = IF pc[n] = "twidle" THEN 1 ELSE @ + 1]
  /\ Goto(n, "on")
  /\ UNCHANGED <<world, ctl, CableType, TwidleOn, TwidleCount, got_twidles, testVars, attempts>>

PulseOff(n) ==
  /\ pc[n] = "on" /\ TickOver(n) /\ Goto(n, "off")
  /\ data' = [data EXCEPT ![n] = TWIDLE_OFF]
  /\ UNCHANGED <<world, ctl, twidles, testVars, attempts>>

\* Twidle returns FALSE: the client's RemoteConnect fails, the server goes on.
TwidleEnds(n) ==
  /\ pc[n] = "off" /\ TickOver(n) /\ pulses[n] = Pulses
  /\ Goto(n, IF n = "client" THEN "failed" ELSE "lower")
  /\ got_twidles' = IF n = "server" THEN FALSE ELSE got_twidles
  /\ UNCHANGED <<world, data, ctl, CableType, TwidleOn, TwidleCount, pulses, testVars, attempts>>

ServerSynch ==
  /\ pc["server"] \in {"on", "off"} /\ InSynch("server") /\ Goto("server", "lower")
  /\ got_twidles' = TRUE
  /\ UNCHANGED <<world, data, ctl, CableType, TwidleOn, TwidleCount, pulses, testVars, ticked, attempts>>

-----------------------------------------------------------------------------
(* RemoteConnect after the pulses, up to the line test *)

\* DataPut( b, time ) and DataGet( time ) begin.
PutByte(n, b) ==
  /\ byte' = [byte EXCEPT ![n] = b] /\ high' = [high EXCEPT ![n] = FALSE]
  /\ Goto(n, "wait2")
GetByte(n) ==
  /\ byte' = [byte EXCEPT ![n] = 0] /\ high' = [high EXCEPT ![n] = FALSE]
  /\ Goto(n, "raise2")

LineTest(n) ==
  IF n = "server" THEN PutByte(n, 1) /\ send' = 1 ELSE GetByte(n) /\ UNCHANGED send

LowerLinesAndWait(n) ==
  /\ pc[n] = "lower"
  /\ data' = IF Is(n, "DUTCHMAN") THEN data ELSE [data EXCEPT ![n] = 0]
  /\ ctl' = CASE Is(n, "WATCOM") -> [ctl EXCEPT ![n] = 4]
              [] Is(n, "DUTCHMAN") -> [ctl EXCEPT ![n] = 0]
              [] OTHER -> ctl
  /\ Goto(n, "synch")
  /\ UNCHANGED <<world, twidles, testVars, ticked, attempts>>
\* The lines go low.  On the WATCOM cable CtlPort2 comes first, which the
\* other side does not see; on the DUTCHMAN cable Ctl2 stays high.
LowerLines(n) ==
  /\ pc[n] = "lower"
  /\ data' = IF Is(n, "DUTCHMAN") THEN data ELSE [data EXCEPT ![n] = 0]
  /\ ctl' = CASE Is(n, "WATCOM") -> [ctl EXCEPT ![n] = 4]
              [] Is(n, "DUTCHMAN") -> [ctl EXCEPT ![n] = 0]
              [] OTHER -> ctl
  /\ IF n = "server" /\ got_twidles THEN LineTest(n)
     ELSE Goto(n, "synch") /\ UNCHANGED testVars
  /\ UNCHANGED <<world, twidles, ticked, attempts>>

SynchOver(n) ==
  /\ pc[n] = "synch" /\ InSynch(n) /\ LineTest(n)
  /\ UNCHANGED <<world, data, ctl, twidles, ticked, attempts>>

\* RemoteConnect returns FALSE: the server tries again, with the same statics.
Fail(n) == Goto(n, IF n = "server" THEN "poll" ELSE "failed")

TimeOut(n) ==
  /\ slow /\ pc[n] \in {"synch", "wait1", "wait1lo", "wait2", "wait2lo"} /\ Fail(n)
  /\ UNCHANGED <<world, data, ctl, twidles, testVars, ticked, attempts>>

-----------------------------------------------------------------------------
(* DataGet *)

Access(n, from, to) ==
  pc[n] = from /\ Goto(n, to) /\ UNCHANGED <<world, twidles, testVars, ticked, attempts>>

RaiseCtl2(n) == Access(n, "raise2", "wait1") /\ data' = [data EXCEPT ![n] = 8] /\ UNCHANGED ctl
SeeCtl1Hi(n) == Access(n, "wait1", "read") /\ Ctl1Hi(n) /\ UNCHANGED <<data, ctl>>

Read(n) ==
  /\ pc[n] = "read" /\ Goto(n, "lower2")
  /\ byte' = [byte EXCEPT ![n] = @ + ReadUnit(n) * (IF high[n] THEN 16 ELSE 1)]
  /\ UNCHANGED <<world, twidles, data, ctl, high, send, ticked, attempts>>

LowerCtl2(n) == Access(n, "lower2", "wait1lo") /\ data' = [data EXCEPT ![n] = 0] /\ UNCHANGED ctl

\* What LineTest does with a byte it has read: the server compares it with the
\* one it sent and sends the next, the client sends it back.
TestedAll ==
  IF send = 128 THEN PutByte("server", DONE_LINE_TEST) /\ UNCHANGED send
  ELSE PutByte("server", send * 2) /\ send' = send * 2
TestedAny == TestedAll
Tested ==
  IF byte["server"] = send THEN TestedAll ELSE Fail("server") /\ UNCHANGED testVars
Echo ==
  /\ UNCHANGED send
  /\ IF byte["client"] = DONE_LINE_TEST THEN Goto("client", "connected") /\ UNCHANGED <<byte, high>>
     ELSE PutByte("client", byte["client"])

\* Another half of the byte is to come.
SecondHalf(n) == ~Is(n, "WATCOM") /\ ~high[n]

ByteRead(n) ==
  /\ IF SecondHalf(n) THEN Goto(n, "raise2") /\ high' = [high EXCEPT ![n] = TRUE] /\ UNCHANGED <<byte, send>>
     ELSE IF n = "server" THEN Tested ELSE Echo
  /\ UNCHANGED <<world, data, ctl, twidles, ticked, attempts>>

SeeCtl1LoAtOnce(n) == pc[n] = "wait1lo" /\ ByteRead(n)
SeeCtl1Lo(n) == pc[n] = "wait1lo" /\ ~Ctl1Hi(n) /\ ByteRead(n)

-----------------------------------------------------------------------------
(* DataPut *)

SeeCtl2Hi(n) == Access(n, "wait2", "write") /\ Ctl2Hi(n) /\ UNCHANGED <<data, ctl>>

\* On the LAPLINK cable the bits and control line 1 are one output.
Write(n) ==
  /\ Access(n, "write", IF Is(n, "LAPLINK") THEN "wait2lo" ELSE "raise1")
  /\ data' = [data EXCEPT ![n] = Unit(n) + (IF Is(n, "LAPLINK") THEN 16 ELSE 0)]
  /\ UNCHANGED ctl

RaiseCtl1(n) ==
  /\ Access(n, "raise1", "wait2lo")
  /\ ctl' = [ctl EXCEPT ![n] = IF Is(n, "WATCOM") THEN 12 ELSE 1] /\ UNCHANGED data

SeeCtl2Lo(n) == Access(n, "wait2lo", "lower1") /\ ~Ctl2Hi(n) /\ UNCHANGED <<data, ctl>>

LowerCtl1(n) ==
  /\ pc[n] = "lower1"
  /\ data' = IF Is(n, "LAPLINK") THEN [data EXCEPT ![n] = 0] ELSE data
  /\ ctl' = CASE Is(n, "WATCOM") -> [ctl EXCEPT ![n] = 4]
              [] Is(n, "DUTCHMAN") -> [ctl EXCEPT ![n] = 0]
              [] OTHER -> ctl
  /\ IF SecondHalf(n) THEN Goto(n, "wait2") /\ high' = [high EXCEPT ![n] = TRUE] /\ UNCHANGED <<byte, send>>
     ELSE /\ UNCHANGED send
          /\ IF n = "server" /\ byte[n] = DONE_LINE_TEST
             THEN Goto(n, "connected") /\ UNCHANGED <<byte, high>>
             ELSE GetByte(n)
  /\ UNCHANGED <<world, twidles, ticked, attempts>>

-----------------------------------------------------------------------------
\* RemoteLink of a debugger that is started again; its statics are new.
RemoteLink ==
  /\ pc["client"] = "failed" /\ pc["server"] # "connected" /\ attempts < MaxAttempts
  /\ attempts' = attempts + 1
  /\ data' = [data EXCEPT !["client"] = TWIDLE_OFF]
  /\ ctl' = [ctl EXCEPT !["client"] = 1]
  /\ CableType' = [CableType EXCEPT !["client"] = NULL_VAL]
  /\ TwidleOn' = [TwidleOn EXCEPT !["client"] = FALSE]
  /\ TwidleCount' = [TwidleCount EXCEPT !["client"] = 0]
  /\ Goto("client", "twidle")
  /\ UNCHANGED <<world, pulses, got_twidles, testVars, ticked>>

\* Both sides have run RemoteLink.
Init ==
  /\ cable \in CablesUsed /\ dead \in Dead(cable) /\ slow \in Slow
  /\ data = [n \in Nodes |-> TWIDLE_OFF] /\ ctl = [n \in Nodes |-> 1]
  /\ CableType = [n \in Nodes |-> NULL_VAL]
  /\ TwidleOn = [n \in Nodes |-> FALSE] /\ TwidleCount = [n \in Nodes |-> 0]
  /\ pc = [n \in Nodes |-> IF n = "client" THEN "twidle" ELSE "poll"]
  /\ pulses = [n \in Nodes |-> 0] /\ got_twidles = FALSE
  /\ byte = [n \in Nodes |-> 0] /\ high = [n \in Nodes |-> FALSE]
  /\ send = 0 /\ ticked = "server" /\ attempts = 1

DataGet(n) ==
  RaiseCtl2(n) \/ SeeCtl1Hi(n) \/ Read(n) \/ LowerCtl2(n) \/ SeeCtl1Lo(n)
DataPut(n) ==
  SeeCtl2Hi(n) \/ Write(n) \/ RaiseCtl1(n) \/ SeeCtl2Lo(n) \/ LowerCtl1(n)

RemoteConnect(n) ==
  \/ PulseOn(n) \/ PulseOff(n) \/ TwidleEnds(n)
  \/ LowerLines(n) \/ SynchOver(n) \/ TimeOut(n) \/ DataGet(n) \/ DataPut(n)

Server == ServerCounts \/ ServerSynch \/ RemoteConnect("server")
Client == ClientCounts \/ RemoteConnect("client")

Next == Server \/ Client \/ RemoteLink
Spec == Init /\ [][Next]_vars

\* Both programs run on; nobody has to start the debugger again.
FairSpec == Spec /\ WF_vars(Server) /\ WF_vars(Client)

-----------------------------------------------------------------------------
(* Properties *)

TypeOK ==
  /\ cable \in CablesUsed /\ dead \in Dead(cable) /\ slow \in Slow
  /\ data \in [Nodes -> 0..255] /\ ctl \in [Nodes -> {0, 1, 4, 12}]
  /\ CableType \in [Nodes -> Vals \cup {NULL_VAL}] /\ TwidleOn \in [Nodes -> BOOLEAN]
  /\ TwidleCount \in [Nodes -> 0..255] /\ pulses \in [Nodes -> 0..Pulses]
  /\ got_twidles \in BOOLEAN
  /\ byte \in [Nodes -> 0..255] /\ high \in [Nodes -> BOOLEAN] /\ send \in 0..128 /\ ticked \in Nodes
  /\ pc["server"] # "failed" /\ pc["client"] # "poll"

Connected(n) == pc[n] = "connected"

\* The client's RemoteConnect succeeds only after the server's has, whatever
\* times out: a debugger never talks to a server that is still connecting.
ClientLast == Connected("client") => Connected("server")

\* When both have succeeded they agree on the cable there is, and the ports are
\* as the data transfer expects them at its start.
ParType == CHOOSE c \in DOMAIN Val : Is("client", c)
Link == INSTANCE ParLink WITH
  Nib <- 16, Requests <- {}, Responses <- {}, MaxPuts <- 0,
  CableType <- ParType,
  data <- [n \in Nodes |-> IF cable = "LAPLINK" THEN data[n] % 16 ELSE data[n]],
  ctl1 <- [n \in Nodes |-> CASE cable = "WATCOM" -> Bit(ctl[n], 3) = 1
                             [] cable = "LAPLINK" -> Bit(data[n], 4) = 1
                             [] OTHER -> Bit(ctl[n], 0) = 1],
  pc <- [n \in Nodes |-> IF n = "client" THEN "app" ELSE "raise2"],
  todo <- [n \in Nodes |-> <<>>], have <- [n \in Nodes |-> <<>>],
  sent <- [n \in Nodes |-> <<>>], got <- [n \in Nodes |-> <<>>]
LinkStarts ==
  Connected("client") /\ Connected("server") =>
    /\ \A n \in Nodes : Is(n, cable)
    /\ Link!Init

HandedOver == TypeOK /\ ClientLast /\ LinkStarts

\* LineTest "make sure that all lines are working": a server does not begin a
\* session over a cable with a dead line, also when the line makes one cable
\* look like another.
LinesWork == Connected("server") => dead = NoLine

\* On a machine that is not slow, the first attempt connects.
Connects ==
  ~slow /\ dead = NoLine /\ cable # "DUTCHMAN" =>
    <>(Connected("client") /\ Connected("server"))
=============================================================================

------------------------------- MODULE SerLink -------------------------------
(***************************************************************************)
(* The block protocol of the serial remote-debugging link                  *)
(* (bld/trap/ser/c/serlink.c) as the debugger's trap file ("client") and   *)
(* the debug server ("server") drive it through RemotePut and RemoteGet.   *)
(* The model starts where RemoteConnect has succeeded.                     *)
(*                                                                         *)
(* A wire is the sequence of items that one side has written and the other *)
(* has not read: whole blocks, one-byte replies, and what line noise makes *)
(* of them.  A damaged item is never taken for another valid item (the     *)
(* CRC of a block, the values of the control bytes); that is the one       *)
(* assumption made about the line.                                         *)
(***************************************************************************)
EXTENDS Integers, Sequences, SequencesExt

CONSTANTS
  BlkMod,     \* block numbers on the wire are two bytes: 65536 in the code
  IntMod,     \* SendBlkNo and ReceiveBlkNo are `unsigned`: 2^16 or 2^32
  MaxPuts,    \* bound: RemotePut calls of the client
  MaxFaults,  \* bound: items lost, damaged or made up by the line
  MaxWaits,   \* WaitByte time-outs that fit in RemotePut's SEC( 10 )
  WireCap,    \* bound: no early time-out while the wires hold this many items
  Adverse     \* what the hosts and the line may do, see below

MAX_ERRORS == 2

ASSUME SerConstants ==
  /\ BlkMod \in Nat \ {0}
  /\ IntMod \in Nat \ {0}
  /\ BlkMod <= IntMod
  /\ MaxPuts \in Nat
  /\ MaxFaults \in Nat
  /\ MaxWaits \in Nat
  /\ WireCap \in Nat
  /\ Adverse \subseteq {"busy", "line", "rubbish"}

Nodes == {"client", "server"}
Peer(n) == IF n = "client" THEN "server" ELSE "client"

VARIABLES
  pc,            \* where each side is in the calls below
  SendBlkNo, ReceiveBlkNo, LastResponse, Errors, PrevErrors,
  waits,         \* time-outs since the block was last sent (WaitCount)
  wire,          \* wire[n]: what n has yet to read
  put,           \* put[n]: number of the request n last gave to RemotePut
  want,          \* want[n]: the current request of n expects a response
  got,           \* got[n]: what RemoteGet has returned to n so far
  faults

link == <<SendBlkNo, ReceiveBlkNo, LastResponse, Errors, PrevErrors, waits>>
host == <<put, want, got>>
vars == <<pc, link, wire, host, faults>>

ErrCap == MAX_ERRORS + 1     \* Errors only matters up to "> MAX_ERRORS"
Worse(e) == IF e < ErrCap THEN e + 1 ELSE ErrCap

\* The number of the next block: an unsigned counter.
NextNo(k) == (k + 1) % IntMod

-----------------------------------------------------------------------------
(* What travels on a wire *)

Replies == {"ACK", "NAK", "RLR"}
Kinds == Replies \cup {"BLK", "BAD", "JUNK"}
Item == [kind : Kinds, no : Nat, err : 0..ErrCap, id : Nat, want : BOOLEAN]

Byte(k) == [kind |-> k, no |-> 0, err |-> 0, id |-> 0, want |-> FALSE]
Junk == Byte("JUNK")         \* bytes that start with no control byte
Bad == Byte("BAD")           \* a block whose STX survived and whose CRC did not

\* The block n sends: its number, its errors for the block before, its data.
BlockOf(n, err, id, w) ==
  [kind |-> "BLK", no |-> SendBlkNo[n] % BlkMod, err |-> err,
   id |-> id, want |-> w]
Block(n) == BlockOf(n, PrevErrors[n], put[n], want[n])

\* What ClearCom can leave of a wire: the bytes that had not arrived, which
\* may begin in the middle of a block.
ClearCom(w) ==
  { SubSeq(w, k + 1, Len(w)) : k \in 0..Len(w) } \cup
  { <<Junk>> \o SubSeq(w, k + 1, Len(w)) :
      k \in { j \in 1..Len(w) : w[j].kind = "BLK" } }

\* n reads the first item waiting for it and sends s to its peer.
ReadAndSend(n, s) ==
  wire' = [wire EXCEPT ![n] = Tail(@), ![Peer(n)] = @ \o s]

\* The next byte n reads is k.  Stray bytes may have the value of a reply
\* when "rubbish" is among the Adverse conditions.
Rubbish(x) == x.kind = "JUNK" /\ "rubbish" \in Adverse
NextIs(n, k) ==
  /\ wire[n] # <<>>
  /\ Head(wire[n]).kind = k \/ (Rubbish(Head(wire[n])) /\ k \in Replies)

-----------------------------------------------------------------------------
(* RemotePut: BlockSend and what its callers do with the result *)

\* BlockSend's entry: n sends request id, after discarding what has come in.
BlockSend(n, id, w) ==
  /\ pc' = [pc EXCEPT ![n] = "ack"]
  /\ PrevErrors' = [PrevErrors EXCEPT ![n] = Errors[n]]
  /\ Errors' = [Errors EXCEPT ![n] = 0]
  /\ waits' = [waits EXCEPT ![n] = 0]
  /\ put' = [put EXCEPT ![n] = id]
  /\ want' = [want EXCEPT ![n] = w]
  /\ \E left \in ClearCom(wire[n]) :
       wire' = [wire EXCEPT ![n] = left,
                  ![Peer(n)] = Append(@, BlockOf(n, Errors[n], id, w))]
  /\ UNCHANGED <<SendBlkNo, ReceiveBlkNo, LastResponse, got, faults>>

\* Where a finished RemotePut or RemoteGet leaves its caller: the client's
\* DoRequest, or the server's Session loop.
AfterPutAlwaysGet(n) == "recv"
AfterPut(n) == IF n = "client" /\ ~want[n] THEN "app" ELSE "recv"
AfterGet(n) == IF n = "client" THEN "app" ELSE "exec"

\* ACK: RemotePut has succeeded, and resynchronises first if the block
\* before took too many errors.
AckRead(n) ==
  /\ pc[n] = "ack" /\ NextIs(n, "ACK")
  /\ SendBlkNo' = [SendBlkNo EXCEPT ![n] = NextNo(@)]
  /\ pc' = [pc EXCEPT ![n] =
              IF PrevErrors[n] > MAX_ERRORS THEN "resyncPut" ELSE AfterPut(n)]
  /\ ReadAndSend(n, <<>>)
  /\ UNCHANGED <<ReceiveBlkNo, LastResponse, Errors, PrevErrors, waits, host,
                 faults>>

\* NAK: send the block again.
NakIgnored(n) ==
  /\ pc[n] = "ack" /\ NextIs(n, "NAK")
  /\ ReadAndSend(n, <<>>)
  /\ UNCHANGED <<pc, link, host, faults>>
NakRead(n) ==
  /\ pc[n] = "ack" /\ NextIs(n, "NAK")
  /\ Errors' = [Errors EXCEPT ![n] = Worse(@)]
  /\ waits' = [waits EXCEPT ![n] = 0]
  /\ ReadAndSend(n, <<Block(n)>>)
  /\ UNCHANGED <<pc, SendBlkNo, ReceiveBlkNo, LastResponse, PrevErrors, host,
                 faults>>

\* RLR while waiting for an acknowledgement: repeat the last response, and
\* the block.
RlrRead(n) ==
  /\ pc[n] = "ack" /\ NextIs(n, "RLR")
  /\ waits' = [waits EXCEPT ![n] = 0]
  /\ ReadAndSend(n, <<Byte(LastResponse[n]), Block(n)>>)
  /\ UNCHANGED <<pc, SendBlkNo, ReceiveBlkNo, LastResponse, Errors, PrevErrors,
                 host, faults>>

\* Anything else: "totally messed up", discard bytes until the line is quiet.
MessRead(n) ==
  /\ pc[n] = "ack" /\ wire[n] # <<>> /\ Head(wire[n]).kind \notin Replies
  /\ pc' = [pc EXCEPT ![n] = "drain"]
  /\ ReadAndSend(n, <<>>)
  /\ UNCHANGED <<link, host, faults>>

DrainRead(n) ==
  /\ pc[n] = "drain" /\ wire[n] # <<>>
  /\ ReadAndSend(n, <<>>)
  /\ UNCHANGED <<pc, link, host, faults>>

\* A WaitByte of n can time out when there is nothing for it to read and
\* nothing on its way, unless the host may be slow ("busy") or the bytes may
\* be ("line").  Without "busy" the hosts are prompt: a program is never so long
\* between two calls that the peer's wait runs out.  The code promises no such
\* thing: BlockSend gives up 10 s after its first try whatever the user does.
\* A drain's quiet period (SEC( 3 )/4) ends before its wait for a reply (SEC( 1 )).
CanTimeOutEarly(n) == wire[n] = <<>>
CanTimeOut(n) ==
  \/ "line" \in Adverse /\ Len(wire[n]) + Len(wire[Peer(n)]) < WireCap
  \/ /\ wire[n] = <<>>
     /\ CASE pc[Peer(n)] \in {"app", "exec"} -> "busy" \in Adverse
          [] pc[Peer(n)] = "drain" -> wire[Peer(n)] = <<>> /\ pc[n] = "drain"
          [] OTHER -> wire[Peer(n)] = <<>>

\* Ask for the last response again.
RequestLastResponse(n) ==
  /\ Errors' = [Errors EXCEPT ![n] = Worse(@)]
  /\ waits' = [waits EXCEPT ![n] = IF @ < MaxWaits THEN @ + 1 ELSE @]
  /\ wire' = [wire EXCEPT ![Peer(n)] = Append(@, Byte("RLR"))]

AckTimeOut(n) ==
  /\ pc[n] = "ack" /\ CanTimeOut(n) /\ waits[n] < MaxWaits
  /\ RequestLastResponse(n)
  /\ UNCHANGED <<pc, SendBlkNo, ReceiveBlkNo, LastResponse, PrevErrors, host,
                 faults>>

\* RemotePut fails: the client's debugger stops (TrapFailed), the server
\* ignores the result and waits for the next request.
GiveUp(n) ==
  /\ pc[n] = "ack" /\ CanTimeOut(n) /\ waits[n] = MaxWaits
  /\ pc' = [pc EXCEPT ![n] = IF n = "client" THEN "stopped" ELSE "recv"]
  /\ UNCHANGED <<link, wire, host, faults>>

DrainQuiet(n) ==
  /\ pc[n] = "drain" /\ CanTimeOut(n)
  /\ pc' = [pc EXCEPT ![n] = "ack"]
  /\ RequestLastResponse(n)
  /\ UNCHANGED <<SendBlkNo, ReceiveBlkNo, LastResponse, PrevErrors, host,
                 faults>>

-----------------------------------------------------------------------------
(* RemoteGet: WaitReceive and BlockReceive *)

Respond(n, r) ==
  /\ LastResponse' = [LastResponse EXCEPT ![n] = r]
  /\ ReadAndSend(n, <<Byte(r)>>)

\* The block read is the one expected: a comparison of the counter with the
\* two bytes of the block.
AcceptsAny(n, x) == TRUE
Accepts(n, x) == x.no = ReceiveBlkNo[n]

\* A good block with the expected number: acknowledge and hand it up; after
\* too many errors on the block before it, resynchronise and report no bytes.
RecvBlock(n) ==
  /\ pc[n] = "recv" /\ NextIs(n, "BLK")
  /\ LET x == Head(wire[n])
         resync == x.err > MAX_ERRORS
     IN /\ Accepts(n, x)
        /\ got' = [got EXCEPT ![n] = Append(@, [id |-> x.id, full |-> ~resync])]
        /\ want' = IF n = "server" THEN [want EXCEPT ![n] = x.want] ELSE want
        /\ pc' = [pc EXCEPT ![n] = IF resync THEN "resyncGet" ELSE AfterGet(n)]
  /\ ReceiveBlkNo' = [ReceiveBlkNo EXCEPT ![n] = NextNo(@)]
  /\ Respond(n, "ACK")
  /\ UNCHANGED <<SendBlkNo, Errors, PrevErrors, waits, put, faults>>

\* A good block with another number: flush the input and acknowledge it.
RecvOther(n) ==
  /\ pc[n] = "recv" /\ NextIs(n, "BLK")
  /\ ~Accepts(n, Head(wire[n]))
  /\ LastResponse' = [LastResponse EXCEPT ![n] = "ACK"]
  /\ \E left \in ClearCom(Tail(wire[n])) :
       wire' = [wire EXCEPT ![n] = left, ![Peer(n)] = Append(@, Byte("ACK"))]
  /\ UNCHANGED <<pc, SendBlkNo, ReceiveBlkNo, Errors, PrevErrors, waits, host,
                 faults>>

\* Bytes that start with STX and are no good block, or a good block that
\* stalls on the way: a NAK, or, when the length read is out of range,
\* silence.  The length read may take in items that follow.
RecvDamaged(n) ==
  /\ pc[n] = "recv" /\ wire[n] # <<>>
  /\ \E left \in ClearCom(Tail(wire[n])), nak \in BOOLEAN :
       /\ \/ Head(wire[n]).kind = "BAD" \/ Rubbish(Head(wire[n]))
          \/ /\ Head(wire[n]).kind = "BLK" /\ "line" \in Adverse /\ nak
             /\ left = <<Junk>> \o Tail(wire[n])
       /\ LastResponse' = IF nak THEN [LastResponse EXCEPT ![n] = "NAK"]
                                 ELSE LastResponse
       /\ wire' = [wire EXCEPT ![n] = left,
                     ![Peer(n)] = IF nak THEN Append(@, Byte("NAK")) ELSE @]
  /\ UNCHANGED <<pc, SendBlkNo, ReceiveBlkNo, Errors, PrevErrors, waits, host,
                 faults>>

\* RLR: have the peer send its block again.
RecvRlr(n) ==
  /\ pc[n] = "recv" /\ NextIs(n, "RLR")
  /\ ReadAndSend(n, <<Byte("NAK")>>)
  /\ UNCHANGED <<pc, link, host, faults>>

\* Any other byte is passed over.
RecvSkip(n) ==
  /\ pc[n] = "recv"
  /\ wire[n] # <<>> /\ Head(wire[n]).kind \in {"ACK", "NAK", "JUNK"}
  /\ ReadAndSend(n, <<>>)
  /\ UNCHANGED <<pc, link, host, faults>>

-----------------------------------------------------------------------------
(* ReSync: both sides have to be in it for either to leave *)

InReSync(n) == pc[n] \in {"resyncPut", "resyncGet"}

\* A side alone in SetSyncTime reads and drops whatever comes, and the client
\* keeps sending SDATA_HI at LOW_BAUD, which its peer reads as rubbish.
ReSyncRead(n) ==
  /\ InReSync(n) /\ wire[n] # <<>>
  /\ ReadAndSend(n, <<>>)
  /\ UNCHANGED <<pc, link, host, faults>>

ReSyncHi ==
  /\ InReSync("client") /\ ~InReSync("server") /\ wire["server"] = <<>>
  /\ wire' = [wire EXCEPT !["server"] = <<Junk>>]
  /\ UNCHANGED <<pc, link, host, faults>>

ReSyncDone ==
  /\ \A n \in Nodes : InReSync(n)
  /\ pc' = [n \in Nodes |->
              IF pc[n] = "resyncPut" THEN AfterPut(n) ELSE AfterGet(n)]
  /\ wire' = [n \in Nodes |-> <<>>]
  /\ UNCHANGED <<link, host, faults>>

-----------------------------------------------------------------------------
(* The two hosts, and the line *)

\* The debugger makes its next request, with or without a response to come.
Request ==
  /\ pc["client"] = "app" /\ put["client"] < MaxPuts
  /\ \E w \in BOOLEAN : BlockSend("client", put["client"] + 1, w)

\* The server has performed the request and responds if it is to.
Answer ==
  /\ pc["server"] = "exec" /\ want["server"]
  /\ BlockSend("server", Last(got["server"]).id, TRUE)

Performed ==
  /\ pc["server"] = "exec" /\ ~want["server"]
  /\ pc' = [pc EXCEPT !["server"] = "recv"]
  /\ UNCHANGED <<link, wire, host, faults>>

\* What noise makes of an item.
Damaged(x) == IF x.kind = "BLK" THEN { <<>>, <<Junk>>, <<Bad>> }
                                ELSE { <<>>, <<Junk>> }

Noise(n) ==
  /\ faults < MaxFaults
  /\ faults' = faults + 1
  /\ \/ wire' = [wire EXCEPT ![n] = Append(@, Junk)]
     \/ \E i \in 1..Len(wire[n]) : \E r \in Damaged(wire[n][i]) :
          wire' = [wire EXCEPT ![n] = SubSeq(@, 1, i - 1) \o r
                                       \o SubSeq(@, i + 1, Len(@))]
  /\ UNCHANGED <<pc, link, host>>

-----------------------------------------------------------------------------
Init ==
  /\ pc = [n \in Nodes |-> IF n = "client" THEN "app" ELSE "recv"]
  /\ SendBlkNo = [n \in Nodes |-> 1 % IntMod]
  /\ ReceiveBlkNo = [n \in Nodes |-> 1 % IntMod]
  /\ LastResponse = [n \in Nodes |-> "ACK"]
  /\ Errors = [n \in Nodes |-> 0]
  /\ PrevErrors = [n \in Nodes |-> 0]
  /\ waits = [n \in Nodes |-> 0]
  /\ wire = [n \in Nodes |-> <<>>]
  /\ put = [n \in Nodes |-> 0]
  /\ want = [n \in Nodes |-> FALSE]
  /\ got = [n \in Nodes |-> <<>>]
  /\ faults = 0

Sending(n) ==
  \/ AckRead(n) \/ NakRead(n) \/ RlrRead(n) \/ MessRead(n)
  \/ DrainRead(n) \/ DrainQuiet(n) \/ AckTimeOut(n) \/ GiveUp(n)

Receiving(n) ==
  RecvBlock(n) \/ RecvOther(n) \/ RecvDamaged(n) \/ RecvRlr(n) \/ RecvSkip(n)

LinkStep(n) == Sending(n) \/ Receiving(n) \/ ReSyncRead(n)

Next ==
  \/ \E n \in Nodes : LinkStep(n)
  \/ ReSyncHi \/ ReSyncDone
  \/ Request \/ Answer \/ Performed
  \/ \E n \in Nodes : Noise(n)

Spec == Init /\ [][Next]_vars

\* The two programs keep running; the user need not make requests and the
\* line need not be noisy.
Fairness ==
  /\ \A n \in Nodes : WF_vars(LinkStep(n))
  /\ WF_vars(ReSyncHi) /\ WF_vars(ReSyncDone)
  /\ WF_vars(Answer) /\ WF_vars(Performed)

FairSpec == Spec /\ Fairness

-----------------------------------------------------------------------------
(* Properties *)

Received(n) == [i \in DOMAIN got[n] |-> got[n][i].id]

\* Every variable keeps its type.
TypeOK ==
  /\ pc \in [Nodes -> {"app", "ack", "drain", "recv", "exec", "resyncPut",
                       "resyncGet", "stopped"}]
  /\ SendBlkNo \in [Nodes -> 0..(IntMod - 1)]
  /\ ReceiveBlkNo \in [Nodes -> 0..(IntMod - 1)]
  /\ LastResponse \in [Nodes -> {"ACK", "NAK"}]
  /\ Errors \in [Nodes -> 0..ErrCap]
  /\ PrevErrors \in [Nodes -> 0..ErrCap]
  /\ waits \in [Nodes -> 0..MaxWaits]
  /\ wire \in [Nodes -> Seq(Item)]
  /\ put \in [Nodes -> Nat]
  /\ want \in [Nodes -> BOOLEAN]
  /\ got \in [Nodes -> Seq([id : Nat, full : BOOLEAN])]
  /\ faults \in Nat

\* Neither side is ever handed a block twice or out of order, nor one that
\* was not sent, however the line and the hosts behave.
InOrderOnce ==
  \A n \in Nodes :
    /\ \A i, j \in DOMAIN got[n] : i < j => got[n][i].id < got[n][j].id
    /\ \A i \in DOMAIN got[n] : got[n][i].id <= put[Peer(n)]

\* Why InOrderOnce holds as long as block numbers do not wrap: the block
\* numbers in flight, the two counters and the packets they stand for agree.
\* (Blocks(n): the blocks of n on the wire; Busy(n): BlockSend is running.)
Blocks(n) == { x \in Range(wire[Peer(n)]) : x.kind = "BLK" }
Busy(n) == pc[n] \in {"ack", "drain"}

\* A counter never runs ahead of the packets sent, and the receiver is at
\* most one block ahead of what the sender believes.
CountersAgree ==
  \A n \in Nodes :
    /\ SendBlkNo[n] <= put[n] + 1
    /\ Busy(n) => SendBlkNo[n] <= put[n] /\ 0 < put[n]
    /\ ReceiveBlkNo[Peer(n)] <= SendBlkNo[n] + 1
    /\ ReceiveBlkNo[Peer(n)] <= put[n] + 1

\* Blocks in flight: never from the future, older numbers carry older
\* packets, and a block the receiver would still accept carries a packet it
\* has not had.
BlocksAgree ==
  \A n \in Nodes : \A x \in Blocks(n) :
    /\ x.no <= SendBlkNo[n] /\ x.no <= put[n] /\ x.id \in 1..put[n]
    /\ Busy(n) /\ x.no < SendBlkNo[n] => x.id < put[n]
    /\ \A y \in Blocks(n) : x.no < y.no => x.id < y.id
    /\ ReceiveBlkNo[Peer(n)] <= x.no =>
         \A i \in DOMAIN got[Peer(n)] : got[Peer(n)][i].id < x.id

\* A block that is still to be received is newer than all received before.
SendingAgrees ==
  \A n \in Nodes :
    Busy(n) /\ ReceiveBlkNo[Peer(n)] <= SendBlkNo[n] =>
      \A i \in DOMAIN got[Peer(n)] : got[Peer(n)][i].id < put[n]

\* The server performs a request only after receiving one, and has not yet
\* answered the one it performs.
ServerAgrees ==
  /\ pc["client"] # "exec" /\ pc["server"] \notin {"app", "stopped"}
  /\ put["client"] <= MaxPuts
  /\ put["server"] # 0 => got["server"] # <<>>
  /\ got["server"] # <<>> => put["server"] <= Last(got["server"]).id
  /\ pc["server"] \in {"exec", "resyncGet"} =>
       got["server"] # <<>> /\ put["server"] < Last(got["server"]).id

IInv == TypeOK /\ InOrderOnce /\ CountersAgree /\ BlocksAgree
               /\ SendingAgrees /\ ServerAgrees

\* BlockSend reports success only for a block the other side has received.
PutDelivered ==
  [][\A n \in Nodes :
       SendBlkNo'[n] # SendBlkNo[n] => put[n] \in Range(Received(Peer(n)))]_vars

\* What the debugger receives answers the request it is waiting on.
ResponseMatches ==
  [][got'["client"] # got["client"] =>
       Last(got'["client"]).id = put["client"]]_vars

\* The two sides never wait for each other with nothing on the line.
NoMutualWait == \E n \in Nodes : pc[n] # "recv" \/ wire[n] # <<>>

\* A request of the debugger that the line disturbs once still ends, and
\* not because the link gave up.
CallEnds == pc["client"] # "app" ~> pc["client"] = "app"

\* However the line and the hosts behave, the link delivers blocks in order
\* and none twice; when they behave, it also delivers every one.
LossyLink == INSTANCE PacketLink WITH
  Lossy <- TRUE, sent <- put, got <- [n \in Nodes |-> Received(n)]
ExactLink == INSTANCE PacketLink WITH
  Lossy <- FALSE, sent <- put, got <- [n \in Nodes |-> Received(n)]
ImplementsLossyLink == LossyLink!Spec
ImplementsExactLink == ExactLink!Spec
=============================================================================

------------------------------- MODULE Session -------------------------------
(***************************************************************************)
(* The programs on the two ends of a link, over the TCP link: debuggers    *)
(* that load the remote trap file (bld/trap/common/remote.c) and the debug *)
(* server (serv.c, servacc.c, packet.c).                                   *)
(*                                                                         *)
(* A debugger connects, makes requests, suspends its session while the     *)
(* user works in a sub-shell, resumes it and disconnects.  The server      *)
(* accepts a connection and performs its requests in Session(); a suspend  *)
(* request calls Session() again for whoever connects meanwhile.           *)
(***************************************************************************)
EXTENDS TcpLink

CONSTANTS
  Starts,       \* OneShot in the servers considered: started with /once or not
  OldClients,   \* clients that may have a version the server does not serve
  Vanishing,    \* the sets of clients considered that may go away without a word
  MaxRequests   \* bound: requests a client makes

ASSUME SessionConstants ==
  /\ Starts \subseteq BOOLEAN /\ MaxRequests \in Nat
  /\ OldClients \subseteq Clients /\ Vanishing \subseteq SUBSET Clients

VARIABLES
  cpc,     \* what each client is doing
  count,   \* requests each client has made
  OneShot, \* the server was started with /once
  vanishing, \* the clients that may go away without a word
  spc,     \* where the server is
  depth,   \* calls of Session() that a suspend request keeps waiting
  buff,    \* PackBuff, the request in it
  want,    \* want_return
  key,     \* the user has pressed 'q' and the server has not read it
  done     \* of each client: the number of its last request performed

clientVars == <<cpc, count>>
startVars == <<OneShot, vanishing>>
serverVars == <<startVars, spc, depth, buff, want, done>>
vars == <<linkVars, clientVars, serverVars, key>>

\* A request: its code, whose it is, which one, and whether bit 0x80 is off.
\* "OLDCONNECT" is REQ_CONNECT with a version that is not served.  PackBuff
\* starts as zeros, a REQ_CONNECT of version 0.0 that nobody sent.
Reqs == {"CONNECT", "OLDCONNECT", "DISCONNECT", "SUSPEND", "RESUME", "other"}
Packet == [req : Reqs, from : Clients, no : Nat, wants : BOOLEAN]
NoPacket == [req |-> "OLDCONNECT", from |-> "nobody", no |-> 0, wants |-> TRUE]
\* A response: the request it answers; err is the text REQ_CONNECT may return.
Response == [to : Clients \cup {"nobody"}, no : Nat, err : BOOLEAN]

-----------------------------------------------------------------------------
(* A client: remote.c, called by the debugger *)

Step(h, from, to) == cpc[h] = from /\ cpc' = [cpc EXCEPT ![h] = to]

\* DoRequest as far as PutPacket; bit 0x80 says that nobody waits.
PutRequest(h, req, wants, ok) ==
  /\ Put(h, [req |-> req, from |-> h, no |-> count[h] + 1, wants |-> wants], ok)
  /\ count' = [count EXCEPT ![h] = @ + 1]

\* ReqRemoteConnect; a client that cannot connect gives up.
RemoteConnect(h) ==
  /\ Step(h, "idle", "hello") /\ Connect(h)
  /\ UNCHANGED <<count, serverVars, key>>

CannotConnect(h) ==
  /\ Step(h, "idle", "quit") /\ ~CanConnect
  /\ UNCHANGED <<linkVars, count, serverVars, key>>

Hello(h) ==
  /\ \E ok \in BOOLEAN, req \in {"CONNECT", "OLDCONNECT"} :
       /\ req = "OLDCONNECT" => h \in OldClients
       /\ PutRequest(h, req, TRUE, ok)
       /\ Step(h, "hello", IF ok THEN "connecting" ELSE "failed")
  /\ UNCHANGED <<build, listening, backlog, data_socket, conns, gone, reset, serverVars, key>>

\* The response to REQ_CONNECT without an error message.
Connected(h) ==
  /\ Step(h, "connecting", "ready")
  /\ Get(h) /\ ~Arrived(h).err
  /\ UNCHANGED <<count, serverVars, key>>

\* The server refuses: RemoteDisco, and the debugger gives up.
Refused(h) ==
  /\ Step(h, "connecting", "quit")
  /\ Unread(h) # <<>> /\ Arrived(h).err
  /\ inbox' = [inbox EXCEPT ![Sock(h)]["client"] = Tail(@)]
  /\ Disco(h)
  /\ UNCHANGED <<build, listening, backlog, conns, reset, count, serverVars, key>>

Request(h) ==
  /\ count[h] < MaxRequests
  /\ \E wants, ok \in BOOLEAN :
       /\ PutRequest(h, "other", wants, ok)
       /\ Step(h, "ready", IF ~ok THEN "failed" ELSE IF wants THEN "waiting" ELSE "ready")
  /\ UNCHANGED <<build, listening, backlog, data_socket, conns, gone, reset, serverVars, key>>

Responded(h) ==
  /\ Step(h, "waiting", "ready")
  /\ Get(h)
  /\ UNCHANGED <<count, serverVars, key>>

\* GetPacket returns REQUEST_FAILED to DoRequest.
NotResponded(h) ==
  /\ cpc[h] \in {"connecting", "waiting"} /\ Step(h, cpc[h], "failed")
  /\ GetFails(h)
  /\ UNCHANGED <<count, serverVars, key>>

\* TrapFailed calls KillTrap, and that RemoteUnLink.
TrapFailed(h) ==
  /\ Step(h, "failed", "quit") /\ Terminate(h)
  /\ UNCHANGED <<build, listening, backlog, conns, inbox, count, serverVars, key>>

\* ReqRemoteDisco: the result of DoRequest does not matter.
ReqRemoteDisco(h, req, to) ==
  /\ Step(h, "ready", to)
  /\ \E ok \in BOOLEAN : PutRequest(h, req, FALSE, ok)
  /\ Disco(h)
  /\ UNCHANGED <<build, listening, backlog, conns, reset, serverVars, key>>

Suspend(h) == ReqRemoteDisco(h, "SUSPEND", "suspended")
Disconnect(h) == ReqRemoteDisco(h, "DISCONNECT", "idle")

\* ReqRemoteResume tries until it is connected.
RemoteResume(h) ==
  /\ Step(h, "suspended", "resuming") /\ Connect(h)
  /\ UNCHANGED <<count, serverVars, key>>

PutResume(h) ==
  /\ Step(h, "resuming", "ready")
  /\ \E ok \in BOOLEAN : PutRequest(h, "RESUME", FALSE, ok)
  /\ UNCHANGED <<build, listening, backlog, data_socket, conns, gone, reset, serverVars, key>>

\* The process ends and its system closes the connection, or its machine does.
Vanish(h) ==
  /\ h \in vanishing /\ cpc[h] # "quit" /\ Step(h, cpc[h], "quit")
  /\ Terminate(h) \/ (Disco(h) /\ UNCHANGED reset)
  /\ UNCHANGED <<build, listening, backlog, conns, inbox, count, serverVars, key>>

-----------------------------------------------------------------------------
(* The server *)

Goto(from, to) == spc = from /\ spc' = to

\* RemoteConnect in main's loop or in the loop of a suspended session.  With
\* BSD sockets select() ends when there is a connection or after 10 ms, and
\* accept() is called in both cases: IS_RET_OK( 0 ).
Poll ==
  /\ ~Rdos /\ Goto("poll", "accept")
  /\ UNCHANGED <<linkVars, depth, buff, want, done, startVars, clientVars, key>>

\* RDOS waits 250 ms for a connection; a suspended session then tries again.
PollTimeOut ==
  /\ Rdos /\ backlog = <<>> /\ depth = 0 /\ Goto("poll", "keys")
  /\ UNCHANGED <<linkVars, depth, buff, want, done, startVars, clientVars, key>>

AcceptClient ==
  /\ Goto(IF Rdos THEN "poll" ELSE "accept", "get") /\ Accept
  /\ UNCHANGED <<depth, buff, want, done, startVars, clientVars, key>>

\* KeyPress, KeyGet
NoKey ==
  /\ ~key /\ Goto("keys", "poll")
  /\ UNCHANGED <<linkVars, depth, buff, want, done, startVars, clientVars, key>>

Quit ==
  /\ key /\ Goto("keys", "exited") /\ UnLink /\ key' = FALSE
  /\ UNCHANGED <<build, data_socket, conns, inbox, gone, depth, buff, want, done, startVars, clientVars>>

\* Session(): GetPacket fills PackBuff.
GetPacket ==
  /\ Goto("get", "perform")
  /\ Get("server")
  /\ buff' = Arrived("server") /\ want' = Arrived("server").wants
  /\ UNCHANGED <<depth, done, startVars, clientVars, key>>

\* Or fails, which Session() does not look at: PackBuff still holds the last
\* request, without bit 0x80.
GetPacketFails ==
  /\ Goto("get", "perform") /\ GetFails("server")
  /\ want' = TRUE
  /\ UNCHANGED <<depth, buff, done, startVars, clientVars, key>>

Performing(reqs) ==
  /\ spc = "perform" /\ buff.req \in reqs
  /\ done' = [h \in Clients |-> IF h = buff.from THEN buff.no ELSE done[h]]

\* AccTrap and AccConnect when the session goes on.
PerformAlwaysAnswer ==
  /\ Performing({"CONNECT", "other"}) /\ spc' = "get"
  /\ \E ok \in BOOLEAN :
       Put("server", [to |-> buff.from, no |-> buff.no, err |-> FALSE], ok)
  /\ UNCHANGED <<build, listening, backlog, data_socket, conns, gone, reset, depth, buff, want, startVars, clientVars, key>>
Perform ==
  /\ Performing({"CONNECT", "other"}) /\ spc' = "get"
  /\ IF want \/ buff.req = "CONNECT"
     THEN \E ok \in BOOLEAN :
            Put("server", [to |-> buff.from, no |-> buff.no, err |-> FALSE], ok)
     ELSE UNCHANGED inbox
  /\ UNCHANGED <<build, listening, backlog, data_socket, conns, gone, reset, depth, buff, want, startVars, clientVars, key>>

\* AccConnect finds a version it does not serve; Session() returns TRUE.
RefuseAndGoOn ==
  /\ Performing({"OLDCONNECT"}) /\ spc' = "get"
  /\ \E ok \in BOOLEAN :
       Put("server", [to |-> buff.from, no |-> buff.no, err |-> TRUE], ok)
  /\ UNCHANGED <<build, listening, backlog, data_socket, conns, gone, reset, depth, buff, want, startVars, clientVars, key>>
Refuse ==
  /\ Performing({"OLDCONNECT"}) /\ spc' = "over"
  /\ \E ok \in BOOLEAN :
       Put("server", [to |-> buff.from, no |-> buff.no, err |-> TRUE], ok)
  /\ UNCHANGED <<build, listening, backlog, data_socket, conns, gone, reset, depth, buff, want, startVars, clientVars, key>>

\* Session() returns TRUE.
PerformDisconnectAndGoOn ==
  /\ Performing({"DISCONNECT"}) /\ spc' = "get"
  /\ UNCHANGED <<linkVars, depth, buff, want, startVars, clientVars, key>>
PerformDisconnect ==
  /\ Performing({"DISCONNECT"}) /\ spc' = "over"
  /\ UNCHANGED <<linkVars, depth, buff, want, startVars, clientVars, key>>

PerformSuspendUncounted ==
  /\ Performing({"SUSPEND"}) /\ spc' = "poll"
  /\ Disco("server")
  /\ UNCHANGED <<build, listening, backlog, conns, inbox, reset, depth, buff, want, startVars, clientVars, key>>
PerformSuspend ==
  /\ Performing({"SUSPEND"}) /\ spc' = "poll"
  /\ depth' = depth + 1
  /\ Disco("server")
  /\ UNCHANGED <<build, listening, backlog, conns, inbox, reset, buff, want, startVars, clientVars, key>>

\* Session() returns FALSE: the suspended session goes on with the connection
\* the request came by.  In main there is none.
PerformResumeAsEnd ==
  /\ Performing({"RESUME"}) /\ spc' = "over"
  /\ UNCHANGED <<linkVars, depth, buff, want, startVars, clientVars, key>>
PerformResume ==
  /\ Performing({"RESUME"})
  /\ IF depth > 0 THEN depth' = depth - 1 /\ spc' = "get"
                  ELSE depth' = depth /\ spc' = "over"
  /\ UNCHANGED <<linkVars, buff, want, startVars, clientVars, key>>

\* After Session(), in the loop of a suspended session.
NextClient ==
  /\ depth > 0 /\ Goto("over", "poll") /\ Disco("server")
  /\ UNCHANGED <<build, listening, backlog, conns, inbox, reset, depth, buff, want, done, startVars, clientVars, key>>

\* After Session(), in main: what was typed is forgotten.
SessionEnded ==
  /\ depth = 0 /\ Goto("over", IF OneShot THEN "exited" ELSE "poll")
  /\ key' = FALSE
  /\ Disco("server")
  /\ IF OneShot THEN UnLink ELSE UNCHANGED <<listening, backlog, reset>>
  /\ UNCHANGED <<build, conns, inbox, depth, buff, want, done, startVars, clientVars>>

\* The user presses 'q' while the server asks for it.
PressQ ==
  /\ ~key /\ key' = TRUE /\ depth = 0 /\ spc \in {"poll", "accept", "keys"}
  /\ UNCHANGED <<linkVars, clientVars, serverVars>>

-----------------------------------------------------------------------------
Init ==
  /\ LinkInit
  /\ cpc = [h \in Clients |-> "idle"]
  /\ count = [h \in Clients |-> 0]
  /\ OneShot \in Starts /\ vanishing \in Vanishing /\ spc = "poll" /\ depth = 0 /\ want = FALSE /\ key = FALSE
  /\ buff = NoPacket
  /\ done = [h \in Clients |-> 0]

ClientStep(h) ==
  \/ Hello(h) \/ Connected(h) \/ Refused(h) \/ Responded(h) \/ NotResponded(h)
  \/ TrapFailed(h) \/ PutResume(h)

UserStep(h) ==
  \/ RemoteConnect(h) \/ CannotConnect(h) \/ Request(h) \/ Suspend(h)
  \/ RemoteResume(h) \/ Disconnect(h) \/ Vanish(h)

ServerStep ==
  \/ Poll \/ PollTimeOut \/ AcceptClient \/ NoKey \/ Quit
  \/ GetPacket \/ GetPacketFails \/ Perform \/ Refuse \/ PerformDisconnect
  \/ PerformSuspend \/ PerformResume \/ NextClient \/ SessionEnded

Next == ServerStep \/ PressQ \/ \E h \in Clients : ClientStep(h) \/ UserStep(h)

Spec == Init /\ [][Next]_vars

\* The programs run; what the user does next has no fairness.
FairSpec == Spec /\ WF_vars(ServerStep) /\ \A h \in Clients : WF_vars(ClientStep(h))

-----------------------------------------------------------------------------
(* Properties *)

\* Every variable keeps its type.
TypeOK ==
  /\ LinkTypeOK(Packet, Response)
  /\ cpc \in [Clients -> {"idle", "hello", "connecting", "ready", "waiting", "suspended",
                          "resuming", "failed", "quit"}]
  /\ count \in [Clients -> Nat] /\ done \in [Clients -> Nat]
  /\ spc \in {"poll", "accept", "keys", "get", "perform", "over", "exited"}
  /\ OneShot \in Starts /\ vanishing \in Vanishing /\ depth \in Nat /\ buff \in Packet \cup {NoPacket}
  /\ want \in BOOLEAN /\ key \in BOOLEAN

\* The response a client reads answers the request it is waiting for, and
\* nothing is left of it for the next request.
ResponseMatches ==
  \A h \in Clients :
    Unread(h) # <<>> =>
      /\ cpc[h] \in {"connecting", "waiting"} /\ Len(Unread(h)) = 1
      /\ Arrived(h).to = h /\ Arrived(h).no = count[h]

\* The server performs the requests of a client in order, none twice and none
\* skipped, over all its connections.
OncePerRequest ==
  spc = "perform" /\ buff.from \in Clients => buff.no = done[buff.from] + 1

\* It does as long as every client says goodbye.
Orderly == vanishing = {}
OnceInOrder == Orderly => OncePerRequest

\* The calls of Session() that wait in the server are as many as the clients
\* that are suspended, but for the requests the server has not performed yet.
Underway == UNION {{inbox[c]["server"][i] : i \in DOMAIN inbox[c]["server"]} : c \in Conns}
Unperformed == Underway \cup (IF spc = "perform" THEN {buff} ELSE {})
Remaining(req) == Cardinality({p \in Unperformed : p.req = req})
Suspended == {h \in Clients : cpc[h] \in {"suspended", "resuming"}}
SuspendCounts ==
  Orderly => depth + Remaining("SUSPEND") = Cardinality(Suspended) + Remaining("RESUME")

\* A client that resumes finds a suspended session: REQ_RESUME would end the
\* session of main.
ResumeNested == Orderly /\ spc = "perform" /\ buff.req = "RESUME" => depth > 0

\* The server does not exit on a client that means to come back.
ExitLeavesNobody == Orderly /\ spc = "exited" => Suspended = {}

\* The calls of Session() nest as the suspended sessions do, whatever order
\* suspends, resumes and disconnections arrive in.
NestingOK == TypeOK /\ SuspendCounts /\ ResumeNested /\ ExitLeavesNobody

\* A call of a client ends, if no client keeps the server to itself for ever.
UsersLeave == \A h \in Clients : []<>(cpc[h] # "ready")
CallsEnd ==
  Orderly /\ UsersLeave =>
    \A h \in Clients :
      cpc[h] \in {"connecting", "waiting"} ~> cpc[h] \notin {"connecting", "waiting"}

\* When no client is left the server is ready for the next, or exits if it was
\* started for one session.
Asking == depth = 0 /\ spc \in {"poll", "accept", "keys"}
Left == \A h \in Clients : cpc[h] \in {"idle", "quit"}
SessionsEnd ==
  Orderly => (conns > 0 ~> ~Left \/ spc = "exited" \/ (Asking /\ ~OneShot))

\* The server exits on 'q' unless a client connects first.  This is said of
\* the build whose RemoteConnect returns when nobody connects.
QuitHeeded == Rdos /\ key /\ Asking ~> ~Asking

\* The server is there for whom it should be, and for nobody else.
ServerFree == SessionsEnd /\ QuitHeeded
=============================================================================

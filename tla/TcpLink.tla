------------------------------- MODULE TcpLink -------------------------------
(***************************************************************************)
(* The TCP link (bld/trap/tcp/c/tcplink.c): what its functions do with     *)
(* sockets, as operators for the programs that call them.  The server is   *)
(* built for BSD sockets or, if Rdos, for RDOS.                            *)
(*                                                                         *)
(* A packet travels whole.  With BSD sockets recvData asks again until it  *)
(* has all of one.  On RDOS recvData is one recv (tcplink.c:172-179, 238): *)
(* there it is an ASSUMPTION about the system that the recv for a packet's *)
(* length and the recv for its data each find all of it; one that found a  *)
(* part would make RemoteGet fail and lose its place, which is left out.   *)
(***************************************************************************)
EXTENDS Integers, Sequences, FiniteSets

CONSTANTS
  Clients,   \* the programs that load the TCP trap file
  Builds,    \* the builds of the server considered: "bsd", "rdos"
  MaxConns   \* bound: connections made

ASSUME LinkConstants ==
  /\ IsFiniteSet(Clients) /\ "server" \notin Clients /\ Builds \subseteq {"bsd", "rdos"} /\ MaxConns \in Nat

Hosts == Clients \cup {"server"}
Conns == 1..MaxConns
INVALID_SOCKET == 0

\* The two ends of a connection.
Ends == {"client", "server"}
End(h) == IF h = "server" THEN "server" ELSE "client"
Far(h) == IF h = "server" THEN "client" ELSE "server"

VARIABLES
  build,        \* what the server is built for
  listening,    \* the control socket is open
  backlog,      \* connections made and not yet accepted
  data_socket,  \* of each host: its connection
  conns,        \* connections made so far
  inbox,        \* inbox[c][e]: packets that end e of c has still to read
  gone,         \* gone[c]: the ends of c that were closed
  reset         \* connections that were torn down and not closed in order

linkVars == <<build, listening, backlog, data_socket, conns, inbox, gone, reset>>

Rdos == build = "rdos"

LinkInit ==
  /\ build \in Builds
  /\ listening = TRUE /\ backlog = <<>> /\ conns = 0 /\ reset = {}
  /\ data_socket = [h \in Hosts |-> INVALID_SOCKET]
  /\ inbox = [c \in Conns |-> [server |-> <<>>, client |-> <<>>]]
  /\ gone = [c \in Conns |-> {}]

LinkTypeOK(requests, responses) ==
  /\ build \in Builds /\ listening \in BOOLEAN
  /\ backlog \in Seq(Conns)
  /\ data_socket \in [Hosts -> Conns \cup {INVALID_SOCKET}]
  /\ conns \in 0..MaxConns
  /\ inbox \in [Conns -> [server : Seq(requests), client : Seq(responses)]]
  /\ gone \in [Conns -> SUBSET Ends]
  /\ reset \subseteq Conns

Sock(h) == data_socket[h]
\* There is a socket.  IS_VALID_SOCKET on RDOS also asks whether the connection
\* is still open: GetFails and Put say what comes of that.
Valid(h) == Sock(h) # INVALID_SOCKET
Unread(h) == IF Valid(h) THEN inbox[Sock(h)][End(h)] ELSE <<>>

\* The other end of h's connection can no longer answer.
Broken(h) == Valid(h) /\ (Sock(h) \in reset \/ Far(h) \in gone[Sock(h)])

-----------------------------------------------------------------------------
(* RemoteConnect *)

QueueLen == IF Rdos THEN 1 ELSE 5
CanConnect == listening /\ Len(backlog) < QueueLen

\* connect() returns when the server's system has queued the connection.
Connect(h) ==
  /\ CanConnect /\ conns < MaxConns
  /\ conns' = conns + 1
  /\ data_socket' = [data_socket EXCEPT ![h] = conns + 1]
  /\ backlog' = Append(backlog, conns + 1)
  /\ UNCHANGED <<build, listening, inbox, gone, reset>>

\* accept()
Accept ==
  /\ backlog # <<>>
  /\ data_socket' = [data_socket EXCEPT !["server"] = Head(backlog)]
  /\ backlog' = Tail(backlog)
  /\ UNCHANGED <<build, listening, conns, inbox, gone, reset>>

-----------------------------------------------------------------------------
(* RemoteGet and RemotePut *)

\* RemoteGet returns the next packet, all of which has arrived (see above).
\* It waits while there is none.
Arrived(h) == Head(Unread(h))
Get(h) ==
  /\ Unread(h) # <<>>
  /\ inbox' = [inbox EXCEPT ![Sock(h)][End(h)] = Tail(@)]
  /\ UNCHANGED <<build, listening, backlog, data_socket, conns, gone, reset>>

\* RemoteGet returns REQUEST_FAILED.  recv() gives 0, no error, when the other
\* end was closed in order, and with BSD sockets recvData then asks again, for
\* ever; on RDOS, once everything is read, recv and IS_VALID_SOCKET notice that
\* the connection is closed.
GetFails(h) ==
  /\ \/ ~Valid(h)
     \/ Sock(h) \in reset
     \/ Rdos /\ h = "server" /\ Broken(h) /\ Unread(h) = <<>>
  /\ UNCHANGED linkVars

\* RemotePut: ok unless it returns REQUEST_FAILED.  A connection the other end
\* has closed in order takes data, for nobody, until the other system objects
\* or, on RDOS, IS_VALID_SOCKET has seen that it is closed.
Put(h, p, ok) ==
  /\ ok => Valid(h) /\ Sock(h) \notin reset
  /\ ~ok => ~Valid(h) \/ Broken(h)
  /\ inbox' = IF ok /\ ~Broken(h) THEN [inbox EXCEPT ![Sock(h)][Far(h)] = Append(@, p)]
              ELSE inbox

-----------------------------------------------------------------------------
(* RemoteDisco and RemoteUnLink *)

Disco(h) ==
  /\ data_socket' = [data_socket EXCEPT ![h] = INVALID_SOCKET]
  /\ gone' = IF Valid(h) THEN [gone EXCEPT ![Sock(h)] = @ \cup {End(h)}] ELSE gone

\* The server's RemoteUnLink closes the control socket; the system resets the
\* connections in its queue.
UnLink ==
  /\ listening' = FALSE /\ backlog' = <<>>
  /\ reset' = reset \cup {backlog[i] : i \in DOMAIN backlog}

\* A client's RemoteUnLink lets the data socket linger for no time, which
\* resets a connection that is still open.
Terminate(h) ==
  /\ Disco(h)
  /\ reset' = IF Valid(h) THEN reset \cup {Sock(h)} ELSE reset
=============================================================================

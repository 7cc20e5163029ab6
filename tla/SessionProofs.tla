---------------------------- MODULE SessionProofs ----------------------------
(***************************************************************************)
(* Theorems about sessions for any clients, any number of connections and  *)
(* requests.  Whoever goes away: type correctness, and that the response a *)
(* client reads is the one it waits for.  Of clients that say goodbye: the *)
(* server performs their requests in order, each once, and its calls of    *)
(* Session() nest as their suspended sessions do.                          *)
(***************************************************************************)
EXTENDS Session, FiniteSetTheorems, TLAPS

\* What is on its way over connection c, to the server and to the client.
Requests(c) == inbox[c]["server"]
Responses(c) == inbox[c]["client"]

-----------------------------------------------------------------------------
(* The invariant *)

\* Who has a data socket: the server while it serves, a client between
\* RemoteConnect and RemoteDisco, each its own, and none that it has closed.
Sockets ==
  /\ Valid("server") <=> spc \in {"get", "perform", "over"}
  /\ listening <=> spc # "exited"
  /\ \A h \in Clients :
       Valid(h) <=> cpc[h] \in {"hello", "connecting", "ready", "waiting", "resuming", "failed"}
  /\ \A h \in Hosts, c \in Conns : Sock(h) = c => c <= conns /\ End(h) \notin gone[c]
  /\ \A h, k \in Clients : Valid(h) /\ Sock(h) = Sock(k) => h = k

\* The queue holds the latest connections, the oldest first, and the server
\* has done nothing to them yet.
InQueue(c) == \E i \in DOMAIN backlog : backlog[i] = c
Queue ==
  /\ spc = "exited" => backlog = <<>>
  /\ \A c \in Conns : InQueue(c) =>
       /\ c <= conns /\ Sock("server") < c
       /\ "server" \notin gone[c] /\ Responses(c) = <<>>
  /\ \A i, j \in DOMAIN backlog : i < j => backlog[i] < backlog[j]

Unused ==
  \A c \in Conns : c > conns =>
    Requests(c) = <<>> /\ Responses(c) = <<>> /\ gone[c] = {} /\ c \notin reset

\* Of client h with connection c.  It keeps one that was torn down only if the
\* server's exit did it, and no response came by it.
ResetOf(h, c) == c \in reset => spc = "exited" /\ Responses(c) = <<>>

\* A client makes a request with a response last, and waits for it.
Awaits(h, c, p) ==
  cpc[h] \in {"connecting", "waiting"} /\ p.no = count[h] /\ Responses(c) = <<>>
RequestsOf(h, c) ==
  /\ \A i \in 1..Len(Requests(c)) :
       /\ Requests(c)[i].from = h
       /\ c \notin reset /\ Requests(c)[i].wants =>
            i = Len(Requests(c)) /\ Awaits(h, c, Requests(c)[i])
  /\ cpc[h] \in {"hello", "resuming"} => Requests(c) = <<>>
PerformedOf(h, c) ==
  Sock("server") = c /\ spc = "perform" =>
    /\ buff.from = h /\ want = buff.wants
    /\ cpc[h] \notin {"hello", "resuming"}
    /\ want => Requests(c) = <<>> /\ Awaits(h, c, buff)
ResponseOf(h, c) ==
  Responses(c) # <<>> =>
    /\ cpc[h] \in {"connecting", "waiting"} /\ Len(Responses(c)) = 1
    /\ Responses(c)[1].to = h /\ Responses(c)[1].no = count[h]
    /\ Requests(c) = <<>> /\ (Sock("server") = c => spc # "perform")
Talk(h, c) == ResetOf(h, c) /\ RequestsOf(h, c) /\ PerformedOf(h, c) /\ ResponseOf(h, c)
Talks == \A h \in Clients, c \in Conns : Sock(h) = c => Talk(h, c)

\* REQ_CONNECT is never sent without waiting for a response.
Wanting ==
  /\ \A c \in Conns : \A i \in 1..Len(Requests(c)) :
       Requests(c)[i].req \in {"CONNECT", "OLDCONNECT"} => Requests(c)[i].wants
  /\ buff.req \in {"CONNECT", "OLDCONNECT"} => buff.wants

Base ==
  TypeOK /\ Sockets /\ Queue /\ Unused /\ Talks /\ Wanting

-----------------------------------------------------------------------------
(* Sequences *)

\* What Append leaves and adds.
LEMMA AppendFacts ==
  ASSUME NEW S, NEW w \in Seq(S), NEW x \in S
  PROVE  /\ Append(w, x) \in Seq(S) /\ Len(w) \in Nat /\ Append(w, x) # <<>>
         /\ Len(Append(w, x)) = Len(w) + 1
         /\ \A i \in 1..Len(w) : Append(w, x)[i] = w[i]
         /\ Append(w, x)[Len(w) + 1] = x
OBVIOUS

\* What Tail and Head return.
LEMMA TailFacts ==
  ASSUME NEW S, NEW w \in Seq(S), w # <<>>
  PROVE  /\ Tail(w) \in Seq(S) /\ Len(w) \in Nat \ {0}
         /\ Len(Tail(w)) = Len(w) - 1
         /\ \A i \in 1..(Len(w) - 1) : Tail(w)[i] = w[i + 1] /\ i + 1 \in 1..Len(w)
         /\ Head(w) = w[1] /\ Head(w) \in S
OBVIOUS

\* A sequence holds only elements of its set.
LEMMA SeqFacts ==
  ASSUME NEW S, NEW w \in Seq(S)
  PROVE  /\ Len(w) \in Nat /\ DOMAIN w = 1..Len(w)
         /\ (w = <<>> <=> Len(w) = 0)
         /\ \A i \in 1..Len(w) : w[i] \in S
OBVIOUS

-----------------------------------------------------------------------------
(* What the link's operations do *)

\* The types of the link, by connection.
InboxOK == inbox \in [Conns -> [server : Seq(Packet), client : Seq(Response)]]
LEMMA InboxFacts ==
  ASSUME InboxOK
  PROVE  \A c \in Conns : Requests(c) \in Seq(Packet) /\ Responses(c) \in Seq(Response)
BY DEF InboxOK, Requests, Responses

LEMMA LinkTypes ==
  ASSUME TypeOK
  PROVE  /\ InboxOK /\ MaxConns \in Nat /\ conns \in 0..MaxConns
         /\ backlog \in Seq(Conns) /\ data_socket \in [Hosts -> Conns \cup {0}]
         /\ gone \in [Conns -> SUBSET Ends] /\ reset \subseteq Conns
         /\ Conns = 1..MaxConns /\ INVALID_SOCKET = 0
         /\ "server" \notin Clients /\ "server" \in Hosts /\ Clients \subseteq Hosts
         /\ \A h \in Clients : End(h) = "client" /\ Far(h) = "server"
         /\ End("server") = "server" /\ Far("server") = "client"
         /\ \A c \in Conns : Requests(c) \in Seq(Packet) /\ Responses(c) \in Seq(Response)
         /\ build \in Builds /\ listening \in BOOLEAN
BY LinkConstants, InboxFacts DEF TypeOK, LinkTypeOK, InboxOK, Conns, Hosts, End, Far, INVALID_SOCKET

\* How the inboxes change: a packet is taken from, or added to, one of them.
Same(c) == Requests(c)' = Requests(c) /\ Responses(c)' = Responses(c)
AllSame == \A c \in Conns : Same(c)

LEMMA NothingMoves ==
  ASSUME InboxOK, UNCHANGED inbox PROVE InboxOK' /\ AllSame
BY DEF InboxOK, AllSame, Same, Requests, Responses

\* One inbox gets new contents.
LEMMA ResponsesSet ==
  ASSUME InboxOK, NEW c \in Conns, NEW s \in Seq(Response),
         inbox' = [inbox EXCEPT ![c]["client"] = s]
  PROVE  /\ InboxOK' /\ \A d \in Conns \ {c} : Same(d)
         /\ Requests(c)' = Requests(c) /\ Responses(c)' = s
<1>1. [inbox[c] EXCEPT !["client"] = s] \in [server : Seq(Packet), client : Seq(Response)]
  BY DEF InboxOK
<1>2. inbox' \in [Conns -> [server : Seq(Packet), client : Seq(Response)]]
  BY <1>1 DEF InboxOK
<1>3. inbox'[c] = [inbox[c] EXCEPT !["client"] = s]
      /\ \A d \in Conns \ {c} : inbox'[d] = inbox[d]
  BY DEF InboxOK
<1>4. inbox'[c]["client"] = s /\ inbox'[c]["server"] = inbox[c]["server"]
  BY <1>3 DEF InboxOK
<1> QED
  BY <1>2, <1>3, <1>4 DEF InboxOK, Same, Requests, Responses

LEMMA RequestsSet ==
  ASSUME InboxOK, NEW c \in Conns, NEW s \in Seq(Packet),
         inbox' = [inbox EXCEPT ![c]["server"] = s]
  PROVE  /\ InboxOK' /\ \A d \in Conns \ {c} : Same(d)
         /\ Responses(c)' = Responses(c) /\ Requests(c)' = s
<1>1. [inbox[c] EXCEPT !["server"] = s] \in [server : Seq(Packet), client : Seq(Response)]
  BY DEF InboxOK
<1>2. inbox' \in [Conns -> [server : Seq(Packet), client : Seq(Response)]]
  BY <1>1 DEF InboxOK
<1>3. inbox'[c] = [inbox[c] EXCEPT !["server"] = s]
      /\ \A d \in Conns \ {c} : inbox'[d] = inbox[d]
  BY DEF InboxOK
<1>4. inbox'[c]["server"] = s /\ inbox'[c]["client"] = inbox[c]["client"]
  BY <1>3 DEF InboxOK
<1> QED
  BY <1>2, <1>3, <1>4 DEF InboxOK, Same, Requests, Responses

\* A client reads a response.
LEMMA ResponseTaken ==
  ASSUME TypeOK, NEW h \in Clients, Unread(h) # <<>>,
         inbox' = [inbox EXCEPT ![Sock(h)]["client"] = Tail(@)]
  PROVE  \E c \in Conns :
           /\ c = Sock(h) /\ InboxOK' /\ Responses(c) # <<>> /\ Unread(h) = Responses(c)
           /\ \A d \in Conns \ {c} : Same(d)
           /\ Requests(c)' = Requests(c) /\ Responses(c)' = Tail(Responses(c))
<1>1. Sock(h) \in Conns /\ Unread(h) = Responses(Sock(h))
  BY LinkTypes DEF Unread, Valid, Sock, Responses
<1>2. PICK c \in Conns : c = Sock(h)
  BY <1>1
<1>3. Tail(Responses(c)) \in Seq(Response)
  BY <1>1, <1>2, LinkTypes, TailFacts
<1>4. inbox' = [inbox EXCEPT ![c]["client"] = Tail(Responses(c))]
  BY <1>2 DEF Responses
<1> QED
  BY <1>1, <1>2, <1>3, <1>4, LinkTypes, ResponsesSet

\* The server reads a request.
LEMMA RequestTaken ==
  ASSUME TypeOK, Get("server")
  PROVE  \E c \in Conns :
           /\ c = Sock("server") /\ InboxOK' /\ Requests(c) # <<>>
           /\ Unread("server") = Requests(c)
           /\ \A d \in Conns \ {c} : Same(d)
           /\ Responses(c)' = Responses(c) /\ Requests(c)' = Tail(Requests(c))
<1>1. /\ Sock("server") \in Conns /\ Unread("server") # <<>>
      /\ Unread("server") = Requests(Sock("server"))
  BY LinkTypes DEF Get, Unread, Valid, Sock, Requests
<1>2. PICK c \in Conns : c = Sock("server")
  BY <1>1
<1>3. Tail(Requests(c)) \in Seq(Packet)
  BY <1>1, <1>2, LinkTypes, TailFacts
<1>4. inbox' = [inbox EXCEPT ![c]["server"] = Tail(Requests(c))]
  BY <1>2, LinkTypes DEF Get, Requests
<1> QED
  BY <1>1, <1>2, <1>3, <1>4, LinkTypes, RequestsSet

\* A client puts a request: it is on its way unless the connection is broken.
LEMMA RequestPut ==
  ASSUME TypeOK, NEW h \in Clients, NEW p \in Packet, NEW ok \in BOOLEAN, Put(h, p, ok)
  PROVE  /\ InboxOK'
         /\ \/ AllSame /\ (~Valid(h) \/ Broken(h))
            \/ \E c \in Conns :
                 /\ c = Sock(h) /\ ~Broken(h) /\ ok
                 /\ \A d \in Conns \ {c} : Same(d)
                 /\ Responses(c)' = Responses(c) /\ Requests(c)' = Append(Requests(c), p)
<1>1. CASE ok /\ ~Broken(h)
  <2>1. PICK c \in Conns : c = Sock(h)
    BY <1>1, LinkTypes DEF Put, Valid, Sock
  <2>2. inbox' = [inbox EXCEPT ![c]["server"] = Append(Requests(c), p)]
    BY <1>1, <2>1, LinkTypes DEF Put, Requests
  <2>3. Append(Requests(c), p) \in Seq(Packet)
    BY <2>1, LinkTypes
  <2> QED
    BY <1>1, <2>1, <2>2, <2>3, LinkTypes, RequestsSet
<1>2. CASE ~(ok /\ ~Broken(h))
  BY <1>2, NothingMoves, LinkTypes DEF Put
<1> QED
  BY <1>1, <1>2

\* The server puts a response.
LEMMA ResponsePut ==
  ASSUME TypeOK, NEW r \in Response, NEW ok \in BOOLEAN, Put("server", r, ok)
  PROVE  /\ InboxOK'
         /\ \/ AllSame /\ (~Valid("server") \/ Broken("server"))
            \/ \E c \in Conns :
                 /\ c = Sock("server") /\ ~Broken("server")
                 /\ \A d \in Conns \ {c} : Same(d)
                 /\ Requests(c)' = Requests(c) /\ Responses(c)' = Append(Responses(c), r)
<1>1. CASE ok /\ ~Broken("server")
  <2>1. PICK c \in Conns : c = Sock("server")
    BY <1>1, LinkTypes DEF Put, Valid, Sock
  <2>2. inbox' = [inbox EXCEPT ![c]["client"] = Append(Responses(c), r)]
    BY <1>1, <2>1, LinkTypes DEF Put, Responses
  <2>3. Append(Responses(c), r) \in Seq(Response)
    BY <2>1, LinkTypes
  <2> QED
    BY <1>1, <2>1, <2>2, <2>3, LinkTypes, ResponsesSet
<1>2. CASE ~(ok /\ ~Broken("server"))
  BY <1>2, NothingMoves, LinkTypes DEF Put
<1> QED
  BY <1>1, <1>2

\* The queue gets longer at its end and shorter at its head.
LEMMA QueueFacts ==
  ASSUME TypeOK
  PROVE  /\ DOMAIN backlog = 1..Len(backlog) /\ Len(backlog) \in Nat
         /\ \A i \in DOMAIN backlog : backlog[i] \in Conns
         /\ backlog = <<>> <=> DOMAIN backlog = {}
BY LinkTypes
-----------------------------------------------------------------------------
(* Types *)

\* The parts of TypeOK: the inboxes apart from the rest.
PCs == {"idle", "hello", "connecting", "ready", "waiting", "suspended", "resuming", "failed", "quit"}
Typed ==
  /\ InboxOK
  /\ build \in Builds /\ listening \in BOOLEAN /\ backlog \in Seq(Conns)
  /\ data_socket \in [Hosts -> Conns \cup {0}]
  /\ conns \in 0..MaxConns /\ gone \in [Conns -> SUBSET Ends] /\ reset \subseteq Conns
  /\ cpc \in [Clients -> PCs]
  /\ count \in [Clients -> Nat] /\ done \in [Clients -> Nat]
  /\ spc \in {"poll", "accept", "keys", "get", "perform", "over", "exited"}
  /\ OneShot \in Starts /\ vanishing \in Vanishing /\ depth \in Nat
  /\ buff \in Packet \cup {NoPacket} /\ want \in BOOLEAN /\ key \in BOOLEAN

LEMMA TypeParts == (TypeOK <=> Typed) /\ (TypeOK' <=> Typed')
BY DEF TypeOK, Typed, LinkTypeOK, InboxOK, PCs, INVALID_SOCKET

\* What a client puts, and what DoRequest leaves.
LEMMA RequestTyped ==
  ASSUME TypeOK, NEW h \in Clients, NEW req \in Reqs, NEW wants \in BOOLEAN, NEW ok \in BOOLEAN,
         PutRequest(h, req, wants, ok)
  PROVE  /\ [req |-> req, from |-> h, no |-> count[h] + 1, wants |-> wants] \in Packet
         /\ InboxOK' /\ count' = [count EXCEPT ![h] = count[h] + 1]
         /\ count' \in [Clients -> Nat]
<1>1. [req |-> req, from |-> h, no |-> count[h] + 1, wants |-> wants] \in Packet
  BY DEF TypeOK, Packet
<1> QED
  BY <1>1, RequestPut DEF PutRequest, TypeOK

\* A client in Put, Get, Disco and Terminate.
LEMMA ClosedTypes ==
  ASSUME TypeOK, NEW h \in Hosts, Disco(h)
  PROVE  /\ data_socket' = [data_socket EXCEPT ![h] = 0]
         /\ data_socket' \in [Hosts -> Conns \cup {0}]
         /\ gone' \in [Conns -> SUBSET Ends]
<1>1. /\ data_socket' = [data_socket EXCEPT ![h] = 0]
      /\ data_socket' \in [Hosts -> Conns \cup {0}]
  BY LinkTypes DEF Disco
<1>2. CASE Valid(h)
  <2>1. gone' = [gone EXCEPT ![Sock(h)] = gone[Sock(h)] \cup {End(h)}] /\ Sock(h) \in Conns
    BY <1>2, LinkTypes DEF Disco, Valid, Sock
  <2>2. End(h) \in Ends
    BY DEF End, Ends
  <2> QED
    BY <1>1, <2>1, <2>2, LinkTypes
<1>3. CASE ~Valid(h)
  BY <1>1, <1>3, LinkTypes DEF Disco
<1> QED
  BY <1>2, <1>3

\* The server's response has its type.
LEMMA ResponseTyped ==
  ASSUME TypeOK, NEW err \in BOOLEAN, NEW ok \in BOOLEAN,
         Put("server", [to |-> buff.from, no |-> buff.no, err |-> err], ok)
  PROVE  InboxOK'
<1>1. [to |-> buff.from, no |-> buff.no, err |-> err] \in Response
  BY DEF TypeOK, Response, Packet, NoPacket
<1> QED
  BY <1>1, ResponsePut

LEMMA ServerTypes == ASSUME TypeOK, ServerStep PROVE TypeOK'
<1>1. ASSUME Performing(Reqs) PROVE done' \in [Clients -> Nat]
  BY <1>1 DEF Performing, TypeOK, Packet, NoPacket
<1>2. ASSUME UNCHANGED inbox PROVE InboxOK'
  BY <1>2, NothingMoves, LinkTypes
<1>3. CASE Poll \/ PollTimeOut \/ NoKey \/ GetPacketFails
  BY <1>2, <1>3, TypeParts DEF Typed, PCs, Poll, PollTimeOut, NoKey, GetPacketFails, GetFails, Goto, linkVars,
     startVars, clientVars
<1>4. CASE AcceptClient
  <2>1. Head(backlog) \in Conns /\ Tail(backlog) \in Seq(Conns)
    BY <1>4, LinkTypes, TailFacts DEF AcceptClient, Accept
  <2> QED
    BY <1>2, <1>4, <2>1, TypeParts, LinkTypes DEF Typed, PCs, AcceptClient, Accept, Goto, startVars, clientVars
<1>5. CASE Quit \/ SessionEnded
  <2>1. {backlog[i] : i \in DOMAIN backlog} \subseteq Conns
    BY LinkTypes
  <2>2. backlog' \in Seq(Conns) /\ listening' \in BOOLEAN /\ reset' \subseteq Conns
    <3>1. CASE UnLink
      <4>1. <<>> \in Seq(Conns)
        OBVIOUS
      <4> QED
        BY <3>1, <4>1, <2>1, LinkTypes DEF UnLink
    <3>2. CASE UNCHANGED <<listening, backlog, reset>>
      BY <3>2, LinkTypes
    <3> QED
      BY <1>5, <3>1, <3>2 DEF Quit, SessionEnded
  <2>3. data_socket' \in [Hosts -> Conns \cup {0}] /\ gone' \in [Conns -> SUBSET Ends]
    BY <1>5, ClosedTypes, LinkTypes DEF Quit, SessionEnded
  <2>4. InboxOK'
    BY <1>2, <1>5 DEF Quit, SessionEnded
  <2> QED
    BY <1>5, <2>2, <2>3, <2>4, TypeParts DEF Typed, PCs, Quit, SessionEnded, Goto, startVars, clientVars
<1>6. CASE GetPacket
  <2>1. InboxOK'
    BY <1>6, RequestTaken DEF GetPacket
  <2>2. Arrived("server") \in Packet
    BY <1>6, RequestTaken, LinkTypes, TailFacts DEF GetPacket, Arrived
  <2>3. Arrived("server").wants \in BOOLEAN
    BY <2>2 DEF Packet
  <2> QED
    BY <1>6, <2>1, <2>2, <2>3, TypeParts DEF Typed, PCs, GetPacket, Get, Goto, startVars, clientVars
<1>7. CASE Perform \/ Refuse
  <2>1. InboxOK'
    BY <1>2, <1>7, ResponseTyped DEF Perform, Refuse
  <2>2. done' \in [Clients -> Nat]
    BY <1>1, <1>7 DEF Perform, Refuse, Performing, Reqs
  <2> QED
    BY <1>7, <2>1, <2>2, TypeParts DEF Typed, PCs, Perform, Refuse, startVars, clientVars
<1>8. CASE PerformDisconnect \/ PerformResume
  <2>1. done' \in [Clients -> Nat]
    BY <1>1, <1>8 DEF PerformDisconnect, PerformResume, Performing, Reqs
  <2>2. spc' \in {"get", "over"} /\ depth' \in Nat
    BY <1>8 DEF PerformDisconnect, PerformResume, TypeOK
  <2> QED
    BY <1>2, <1>8, <2>1, <2>2, TypeParts
       DEF Typed, PCs, PerformDisconnect, PerformResume, linkVars, startVars, clientVars
<1>9. CASE PerformSuspend \/ NextClient
  <2>1. done' \in [Clients -> Nat]
    BY <1>1, <1>9 DEF PerformSuspend, NextClient, Performing, Reqs, TypeOK
  <2>2. data_socket' \in [Hosts -> Conns \cup {0}] /\ gone' \in [Conns -> SUBSET Ends]
    BY <1>9, ClosedTypes, LinkTypes DEF PerformSuspend, NextClient
  <2>3. spc' = "poll" /\ depth' \in Nat
    BY <1>9 DEF PerformSuspend, NextClient, Goto, TypeOK
  <2> QED
    BY <1>2, <1>9, <2>1, <2>2, <2>3, TypeParts DEF Typed, PCs, PerformSuspend, NextClient, startVars, clientVars
<1> QED
  BY <1>3, <1>4, <1>5, <1>6, <1>7, <1>8, <1>9 DEF ServerStep

LEMMA ClientTypes ==
  ASSUME TypeOK, NEW h \in Clients, ClientStep(h) \/ UserStep(h)
  PROVE  TypeOK'
<1>1. ASSUME UNCHANGED inbox PROVE InboxOK'
  BY <1>1, NothingMoves, LinkTypes
<1> DEFINE Rest == UNCHANGED <<serverVars, key>>
<1>2. CASE RemoteConnect(h) \/ RemoteResume(h)
  <2>1. conns + 1 \in Conns /\ conns' \in 0..MaxConns
    BY <1>2, LinkTypes DEF RemoteConnect, RemoteResume, Connect
  <2>2. backlog' \in Seq(Conns)
    <3>1. backlog' = Append(backlog, conns + 1)
      BY <1>2 DEF RemoteConnect, RemoteResume, Connect
    <3> QED
      BY <2>1, <3>1, LinkTypes, AppendFacts
  <2>3. data_socket' \in [Hosts -> Conns \cup {0}]
    BY <1>2, <2>1, LinkTypes DEF RemoteConnect, RemoteResume, Connect
  <2> QED
    BY <1>1, <1>2, <2>1, <2>2, <2>3, TypeParts
       DEF Typed, PCs, RemoteConnect, RemoteResume, Connect, Step, serverVars, startVars
<1>3. CASE CannotConnect(h)
  BY <1>1, <1>3, TypeParts DEF Typed, PCs, CannotConnect, Step, linkVars, serverVars, startVars
<1>4. CASE Hello(h) \/ Request(h) \/ PutResume(h)
  <2>1. PICK req \in Reqs, wants \in BOOLEAN, ok \in BOOLEAN : PutRequest(h, req, wants, ok)
    BY <1>4 DEF Hello, Request, PutResume, Reqs
  <2>2. InboxOK' /\ count' \in [Clients -> Nat]
    BY <2>1, RequestTyped
  <2>3. cpc' \in [Clients -> PCs]
    BY <1>4, TypeParts DEF Typed, PCs, Hello, Request, PutResume, Step
  <2> QED
    BY <1>4, <2>2, <2>3, TypeParts DEF Typed, PCs, Hello, Request, PutResume, serverVars, startVars
<1>5. CASE Connected(h) \/ Responded(h)
  <2>1. InboxOK'
    BY <1>5, ResponseTaken, LinkTypes DEF Connected, Responded, Get
  <2> QED
    BY <1>5, <2>1, TypeParts DEF Typed, PCs, Connected, Responded, Get, Step, serverVars, startVars
<1>6. CASE Refused(h)
  <2>1. InboxOK'
    BY <1>6, ResponseTaken, LinkTypes DEF Refused
  <2> QED
    BY <1>6, <2>1, TypeParts, ClosedTypes, LinkTypes DEF Typed, PCs, Refused, Step, serverVars, startVars
<1>7. CASE NotResponded(h)
  BY <1>1, <1>7, TypeParts DEF Typed, PCs, NotResponded, GetFails, Step, linkVars, serverVars, startVars
<1>8. CASE TrapFailed(h) \/ Vanish(h)
  <2>1. Disco(h)
    BY <1>8 DEF TrapFailed, Vanish, Terminate
  <2>2. reset' \subseteq Conns
    BY <1>8, LinkTypes DEF TrapFailed, Vanish, Terminate, Valid, Sock
  <2>3. cpc' \in [Clients -> PCs]
    BY <1>8, TypeParts DEF Typed, PCs, TrapFailed, Vanish, Step
  <2> QED
    BY <1>1, <1>8, <2>1, <2>2, <2>3, TypeParts, ClosedTypes, LinkTypes
       DEF Typed, PCs, TrapFailed, Vanish, serverVars, startVars
<1>9. CASE Suspend(h) \/ Disconnect(h)
  <2>1. PICK req \in Reqs, ok \in BOOLEAN, to \in {"suspended", "idle"} :
          PutRequest(h, req, FALSE, ok) /\ ReqRemoteDisco(h, req, to)
    BY <1>9 DEF Suspend, Disconnect, ReqRemoteDisco, Reqs
  <2>2. InboxOK' /\ count' \in [Clients -> Nat]
    BY <2>1, RequestTyped
  <2> QED
    BY <2>1, <2>2, TypeParts, ClosedTypes, LinkTypes DEF Typed, PCs, ReqRemoteDisco, Step, serverVars, startVars
<1> QED
  BY <1>2, <1>3, <1>4, <1>5, <1>6, <1>7, <1>8, <1>9 DEF ClientStep, UserStep

LEMMA TypesKeep == ASSUME TypeOK, [Next]_vars PROVE TypeOK'
<1>1. CASE PressQ
  BY <1>1, TypeParts, NothingMoves DEF Typed, PCs, PressQ, linkVars, clientVars, serverVars, startVars
<1>2. CASE UNCHANGED vars
  BY <1>2, TypeParts, NothingMoves DEF Typed, PCs, vars, linkVars, clientVars, serverVars, startVars
<1> QED
  BY <1>1, <1>2, ServerTypes, ClientTypes DEF Next

-----------------------------------------------------------------------------
(* What is said of the connections is kept *)

\* Who is at which end.
LEMMA Names ==
  /\ "server" \notin Clients /\ "server" \in Hosts /\ Clients \subseteq Hosts
  /\ \A h \in Hosts : h # "server" => h \in Clients
  /\ \A h \in Clients : End(h) = "client" /\ Far(h) = "server"
  /\ End("server") = "server" /\ Far("server") = "client"
  /\ \A c \in Conns : c \in Nat /\ c # 0
BY LinkConstants DEF Hosts, End, Far, Conns

\* The tail of a sequence of one is empty.
LEMMA LastTaken ==
  ASSUME NEW S, NEW w \in Seq(S), Len(w) = 1 PROVE Tail(w) = <<>>
<1>1. w # <<>>
  BY SeqFacts
<1>2. Tail(w) \in Seq(S) /\ Len(Tail(w)) = 0
  BY <1>1, TailFacts
<1> QED
  BY <1>2, SeqFacts

\* A client moves from one place to another and nobody else does.
LEMMA StepFacts ==
  ASSUME TypeOK, NEW h \in Clients, NEW from, NEW to, Step(h, from, to)
  PROVE  /\ cpc[h] = from /\ cpc'[h] = to
         /\ \A k \in Clients \ {h} : cpc'[k] = cpc[k]
BY DEF TypeOK, Step

LEMMA SockTypes ==
  ASSUME TypeOK
  PROVE  \A h \in Hosts : Sock(h) \in Conns \cup {0} /\ (Valid(h) <=> Sock(h) \in Conns)
BY LinkTypes, Names DEF Sock, Valid

\* What is said of a connection stands while nobody touches it.
LEMMA TalkStays ==
  ASSUME NEW h \in Clients, NEW c \in Conns, Talk(h, c), Same(c),
         cpc'[h] = cpc[h], count'[h] = count[h],
         c \in reset' => c \in reset, c \in reset => c \in reset',
         spc = "exited" => spc' = "exited",
         Sock("server")' = c /\ spc' = "perform" =>
           Sock("server") = c /\ spc = "perform" /\ UNCHANGED <<buff, want>>
  PROVE  Talk(h, c)'
<1>1. ResetOf(h, c)' /\ ResponseOf(h, c)'
  BY DEF Talk, ResetOf, ResponseOf, Same
<1>2. RequestsOf(h, c)'
  BY DEF Talk, RequestsOf, Awaits, Same
<1>3. PerformedOf(h, c)'
  BY DEF Talk, PerformedOf, Awaits, Same
<1> QED
  BY <1>1, <1>2, <1>3 DEF Talk

\* RemoteConnect gives a client a connection that nobody used.
LEMMA ConnectFacts ==
  ASSUME TypeOK, NEW h \in Clients, Connect(h)
  PROVE  \E c \in Conns :
           /\ c = conns + 1 /\ conns' = c /\ Sock(h)' = c
           /\ \A k \in Hosts \ {h} : Sock(k)' = Sock(k)
           /\ listening /\ DOMAIN backlog' = 1..(Len(backlog) + 1)
           /\ \A i \in DOMAIN backlog : backlog'[i] = backlog[i]
           /\ backlog'[Len(backlog) + 1] = c
           /\ AllSame /\ UNCHANGED <<build, listening, gone, reset>>
<1>1. PICK c \in Conns : c = conns + 1
  BY LinkTypes DEF Connect
<1>2. AllSame
  BY LinkTypes, NothingMoves DEF Connect
<1>3. backlog' = Append(backlog, c) /\ backlog' \in Seq(Conns)
  BY <1>1, LinkTypes, AppendFacts DEF Connect
<1>4. /\ DOMAIN backlog' = 1..(Len(backlog) + 1)
      /\ \A i \in DOMAIN backlog : backlog'[i] = backlog[i]
      /\ backlog'[Len(backlog) + 1] = c
  BY <1>3, LinkTypes, AppendFacts, SeqFacts
<1>5. Sock(h)' = c /\ \A k \in Hosts \ {h} : Sock(k)' = Sock(k)
  BY <1>1, LinkTypes DEF Connect, Sock
<1> QED
  BY <1>1, <1>2, <1>3, <1>4, <1>5 DEF Connect, CanConnect

LEMMA BaseConnect ==
  ASSUME Base, TypeOK', NEW h \in Clients, RemoteConnect(h) \/ RemoteResume(h)
  PROVE  Base'
<1> USE DEF INVALID_SOCKET
<1>0. TypeOK /\ Sockets /\ Queue /\ Unused /\ Talks /\ Wanting
  BY DEF Base
<1>1. PICK c \in Conns :
           /\ c = conns + 1 /\ conns' = c /\ Sock(h)' = c
           /\ \A k \in Hosts \ {h} : Sock(k)' = Sock(k)
           /\ listening /\ DOMAIN backlog' = 1..(Len(backlog) + 1)
           /\ \A i \in DOMAIN backlog : backlog'[i] = backlog[i]
           /\ backlog'[Len(backlog) + 1] = c
           /\ AllSame /\ UNCHANGED <<build, listening, gone, reset>>
  BY <1>0, ConnectFacts DEF RemoteConnect, RemoteResume
<1>2. /\ cpc[h] \in {"idle", "suspended"} /\ cpc'[h] \in {"hello", "resuming"}
      /\ \A k \in Clients \ {h} : cpc'[k] = cpc[k]
      /\ UNCHANGED <<count, spc, buff, want>>
  BY <1>0, StepFacts DEF RemoteConnect, RemoteResume, serverVars
<1>3. /\ \A k \in Hosts : Sock(k) # c /\ Sock(k) \in Conns \cup {0}
      /\ Requests(c) = <<>> /\ Responses(c) = <<>> /\ gone[c] = {} /\ c \notin reset
      /\ \A d \in Conns : d <= conns => d < c
  BY <1>0, <1>1, LinkTypes, SockTypes, Names DEF Sockets, Unused
<1>4. Sockets'
  <2>1. Valid("server")' <=> spc' \in {"get", "perform", "over"}
    BY <1>0, <1>1, <1>2, Names DEF Sockets, Valid
  <2>2. listening' <=> spc' # "exited"
    BY <1>0, <1>1, <1>2 DEF Sockets
  <2>3. ASSUME NEW k \in Clients
        PROVE  Valid(k)' <=> cpc'[k] \in {"hello", "connecting", "ready", "waiting", "resuming", "failed"}
    BY <1>0, <1>1, <1>2, <2>3, Names DEF Sockets, Valid
  <2>4. ASSUME NEW k \in Hosts, NEW d \in Conns, Sock(k)' = d
        PROVE  d <= conns' /\ End(k) \notin gone'[d]
    BY <1>0, <1>1, <1>3, <2>4, Names DEF Sockets
  <2>5. ASSUME NEW k \in Clients, NEW l \in Clients, Valid(k)', Sock(k)' = Sock(l)'
        PROVE  k = l
    BY <1>0, <1>1, <1>2, <1>3, <2>5, Names DEF Sockets, Valid
  <2> QED
    BY <2>1, <2>2, <2>3, <2>4, <2>5 DEF Sockets
<1>5. Queue'
  <2>1. DOMAIN backlog = 1..Len(backlog) /\ Len(backlog) \in Nat
        /\ \A i \in DOMAIN backlog : backlog[i] \in Conns
    BY <1>0, LinkTypes, SeqFacts
  <2>2. ASSUME NEW d \in Conns, InQueue(d)'
        PROVE  /\ d <= conns' /\ Sock("server")' < d
               /\ "server" \notin gone'[d] /\ Responses(d)' = <<>>
    <3>1. CASE d = c
      <4>1. Sock("server") < c
        BY <1>0, <1>3, Names DEF Sockets
      <4> QED
        BY <1>1, <1>3, <3>1, <4>1, Names DEF AllSame, Same
    <3>2. CASE d # c
      <4>1. InQueue(d)
        BY <1>1, <2>1, <2>2, <3>2 DEF InQueue
      <4>2. /\ d <= conns /\ Sock("server") < d
            /\ "server" \notin gone[d] /\ Responses(d) = <<>>
        BY <1>0, <4>1 DEF Queue
      <4> QED
        BY <1>1, <1>3, <4>2, Names DEF AllSame, Same
    <3> QED
      BY <3>1, <3>2
  <2>3. ASSUME NEW i \in DOMAIN backlog', NEW j \in DOMAIN backlog', i < j
        PROVE  backlog'[i] < backlog'[j]
    <3>1. CASE j \in DOMAIN backlog
      BY <1>0, <1>1, <2>1, <2>3, <3>1 DEF Queue
    <3>2. CASE j = Len(backlog) + 1
      <4>1. i \in DOMAIN backlog
        BY <1>1, <2>1, <2>3, <3>2
      <4>2. backlog[i] <= conns
        BY <1>0, <2>1, <4>1 DEF Queue, InQueue
      <4> QED
        BY <1>1, <1>3, <2>1, <3>2, <4>1, <4>2
    <3> QED
      BY <1>1, <2>1, <2>3, <3>1, <3>2
  <2>4. spc' # "exited"
    BY <1>0, <1>1, <1>2 DEF Sockets
  <2> QED
    BY <2>2, <2>3, <2>4 DEF Queue
<1>6. Unused'
  BY <1>0, <1>1, <1>3, LinkTypes, Names DEF Unused, Same, AllSame
<1>7. Wanting'
  BY <1>0, <1>1, <1>2, <1>3 DEF Wanting, Same, AllSame
<1>8. ASSUME NEW k \in Clients, NEW d \in Conns, Sock(k)' = d
      PROVE  Talk(k, d)'
  <2>1. CASE k = h
    BY <1>1, <1>2, <1>3, <1>8, <2>1, Names DEF Talk, ResetOf, RequestsOf, PerformedOf, ResponseOf, AllSame, Same
  <2>2. CASE k # h
    BY <1>0, <1>1, <1>2, <1>8, <2>2, TalkStays, Names DEF Talks, AllSame
  <2> QED
    BY <2>1, <2>2
<1> QED
  BY <1>4, <1>5, <1>6, <1>7, <1>8 DEF Base, Talks
WithSocket == {"hello", "connecting", "ready", "waiting", "resuming", "failed"}

\* A client does something with its connection and keeps it.
LEMMA ClientKeeps ==
  ASSUME Base, TypeOK', NEW h \in Clients,
         UNCHANGED <<listening, backlog, data_socket, conns, gone, reset, spc, buff, want>>,
         \A k \in Clients \ {h} : cpc'[k] = cpc[k] /\ count'[k] = count[k],
         cpc[h] \in WithSocket <=> cpc'[h] \in WithSocket,
         \A d \in Conns : Sock(h) # d => Same(d),
         \A c \in Conns : Sock(h) = c =>
           Talk(h, c)' /\ (Responses(c) = <<>> => Responses(c)' = <<>>),
         Wanting'
  PROVE  Base'
<1> USE DEF INVALID_SOCKET
<1>0. TypeOK /\ Sockets /\ Queue /\ Unused /\ Talks
  BY DEF Base
<1>1. \A k : Sock(k)' = Sock(k)
  BY DEF Sock
<1>2. Sockets'
  <2>1. ASSUME NEW k \in Clients
        PROVE  Valid(k)' <=> cpc'[k] \in WithSocket
    BY <1>0, <1>1, <2>1 DEF Sockets, Valid, WithSocket
  <2>2. ASSUME NEW k \in Hosts, NEW d \in Conns, Sock(k)' = d
        PROVE  d <= conns' /\ End(k) \notin gone'[d]
    BY <1>0, <1>1, <2>2 DEF Sockets
  <2> QED
    BY <1>0, <1>1, <2>1, <2>2 DEF Sockets, Valid, WithSocket
<1>3. Queue'
  <2>1. ASSUME NEW d \in Conns, InQueue(d)'
        PROVE  /\ d <= conns' /\ Sock("server")' < d
               /\ "server" \notin gone'[d] /\ Responses(d)' = <<>>
    <3>1. InQueue(d)
      BY <2>1 DEF InQueue
    <3> QED
      BY <1>0, <1>1, <3>1 DEF Queue, Same
  <2> QED
    BY <1>0, <2>1 DEF Queue
<1>4. Unused'
  <2>1. ASSUME NEW d \in Conns, d > conns' PROVE Sock(h) # d
    BY <1>0, <2>1, LinkTypes, Names DEF Sockets
  <2> QED
    BY <1>0, <2>1 DEF Unused, Same
<1>5. ASSUME NEW k \in Clients, NEW d \in Conns, Sock(k)' = d
      PROVE  Talk(k, d)'
  <2>1. CASE k # h
    <3>1. Sock(h) # d
      BY <1>0, <1>1, <1>5, <2>1, Names DEF Sockets, Valid
    <3> QED
      BY <1>0, <1>1, <1>5, <2>1, <3>1, TalkStays DEF Talks
  <2> QED
    BY <1>1, <1>5, <2>1
<1> QED
  BY <1>2, <1>3, <1>4, <1>5 DEF Base, Talks

\* What Disco does: only the host's own socket is closed.
LEMMA DiscoFacts ==
  ASSUME TypeOK, NEW h \in Hosts, Disco(h)
  PROVE  /\ Sock(h)' = 0 /\ \A k \in Hosts \ {h} : Sock(k)' = Sock(k)
         /\ \A d \in Conns : Sock(h) # d => gone'[d] = gone[d]
         /\ \A d \in Conns : Sock(h) = d => gone'[d] = gone[d] \cup {End(h)}
<1>1. Sock(h)' = 0 /\ \A k \in Hosts \ {h} : Sock(k)' = Sock(k)
  BY LinkTypes DEF Disco, Sock
<1>2. \A d \in Conns : Sock(h) # d => gone'[d] = gone[d]
  BY LinkTypes DEF Disco
<1>3. \A d \in Conns : Sock(h) = d => gone'[d] = gone[d] \cup {End(h)}
  BY LinkTypes, SockTypes DEF Disco
<1> QED
  BY <1>1, <1>2, <1>3

\* A client closes its connection.
LEMMA ClientLeaves ==
  ASSUME Base, TypeOK', NEW h \in Clients, Disco(h),
         UNCHANGED <<listening, backlog, conns, spc, buff, want>>,
         \A k \in Clients \ {h} : cpc'[k] = cpc[k] /\ count'[k] = count[k],
         cpc'[h] \notin WithSocket,
         reset \subseteq reset', \A d \in Conns : Sock(h) # d /\ d \in reset' => d \in reset,
         \A d \in Conns : Sock(h) # d => Same(d),
         \A c \in Conns : Sock(h) = c /\ Responses(c) = <<>> => Responses(c)' = <<>>,
         Wanting'
  PROVE  Base'
<1> USE DEF INVALID_SOCKET
<1>0. TypeOK /\ Sockets /\ Queue /\ Unused /\ Talks
  BY DEF Base
<1>1. /\ Sock(h)' = 0 /\ \A k \in Hosts \ {h} : Sock(k)' = Sock(k)
      /\ \A d \in Conns : Sock(h) # d => gone'[d] = gone[d]
      /\ \A d \in Conns : Sock(h) = d => gone'[d] = gone[d] \cup {"client"}
  BY <1>0, DiscoFacts, Names
<1>2. Sockets'
  <2>1. ASSUME NEW k \in Clients
        PROVE  Valid(k)' <=> cpc'[k] \in WithSocket
    BY <1>0, <1>1, <2>1, Names DEF Sockets, Valid, WithSocket
  <2>2. ASSUME NEW k \in Hosts, NEW d \in Conns, Sock(k)' = d
        PROVE  d <= conns' /\ End(k) \notin gone'[d]
    <3>1. k # h /\ Sock(k) = d /\ d <= conns /\ End(k) \notin gone[d]
      BY <1>0, <1>1, <2>2, Names DEF Sockets
    <3>2. CASE Sock(h) # d
      BY <1>1, <3>1, <3>2
    <3>3. CASE Sock(h) = d
      <4>1. k = "server"
        BY <1>0, <3>1, <3>3, <2>2, Names DEF Sockets, Valid
      <4> QED
        BY <1>1, <3>1, <3>3, <4>1, Names
    <3> QED
      BY <3>2, <3>3
  <2>3. Valid("server")' <=> Valid("server")
    BY <1>1, Names DEF Valid
  <2>4. ASSUME NEW k \in Clients, NEW l \in Clients, Valid(k)', Sock(k)' = Sock(l)'
        PROVE  k = l
    BY <1>0, <1>1, <2>4, Names DEF Sockets, Valid
  <2> QED
    BY <1>0, <2>1, <2>2, <2>3, <2>4 DEF Sockets, WithSocket
<1>3. Queue'
  <2>1. ASSUME NEW d \in Conns, InQueue(d)'
        PROVE  /\ d <= conns' /\ Sock("server")' < d
               /\ "server" \notin gone'[d] /\ Responses(d)' = <<>>
    <3>1. InQueue(d)
      BY <2>1 DEF InQueue
    <3>2. d <= conns /\ Sock("server") < d /\ "server" \notin gone[d] /\ Responses(d) = <<>>
      BY <1>0, <3>1 DEF Queue
    <3> QED
      BY <1>1, <3>2, Names DEF Same
  <2> QED
    BY <1>0, <2>1 DEF Queue
<1>4. Unused'
  <2>1. ASSUME NEW d \in Conns, d > conns' PROVE Sock(h) # d
    BY <1>0, <2>1, LinkTypes, Names DEF Sockets
  <2> QED
    BY <1>0, <1>1, <2>1 DEF Unused, Same
<1>5. ASSUME NEW k \in Clients, NEW d \in Conns, Sock(k)' = d
      PROVE  Talk(k, d)'
  <2>1. k # h /\ Sock(k) = d
    BY <1>1, <1>5, Names
  <2>2. Sock(h) # d
    BY <1>0, <1>5, <2>1, Names DEF Sockets, Valid
  <2>3. Sock("server")' = Sock("server")
    BY <1>1, Names
  <2> QED
    BY <1>0, <2>1, <2>2, <2>3, TalkStays DEF Talks
<1> QED
  BY <1>2, <1>3, <1>4, <1>5 DEF Base, Talks
Serving == {"get", "perform", "over"}

\* The server does something with its connection, or without one, and keeps it.
LEMMA ServerKeeps ==
  ASSUME Base, TypeOK',
         UNCHANGED <<cpc, count, listening, backlog, data_socket, conns, gone, reset>>,
         spc \in Serving <=> spc' \in Serving, spc = "exited" <=> spc' = "exited",
         \A d \in Conns : Sock("server") # d => Same(d),
         \A h \in Clients, c \in Conns : Sock(h) = c /\ Sock("server") = c => Talk(h, c)',
         \A c \in Conns : c > conns => Same(c),
         Wanting'
  PROVE  Base'
<1>0. TypeOK /\ Sockets /\ Queue /\ Unused /\ Talks
  BY DEF Base
<1>1. \A k : Sock(k)' = Sock(k)
  BY DEF Sock
<1>2. Sockets'
  <2>1. ASSUME NEW k \in Clients
        PROVE  Valid(k)' <=> cpc'[k] \in WithSocket
    BY <1>0, <1>1, <2>1 DEF Sockets, Valid, WithSocket, INVALID_SOCKET
  <2>2. ASSUME NEW k \in Hosts, NEW d \in Conns, Sock(k)' = d
        PROVE  d <= conns' /\ End(k) \notin gone'[d]
    BY <1>0, <1>1, <2>2 DEF Sockets
  <2> QED
    BY <1>0, <1>1, <2>1, <2>2 DEF Sockets, Valid, WithSocket, Serving, INVALID_SOCKET
<1>3. Queue'
  <2>1. ASSUME NEW d \in Conns, InQueue(d)'
        PROVE  /\ d <= conns' /\ Sock("server")' < d
               /\ "server" \notin gone'[d] /\ Responses(d)' = <<>>
    <3>1. InQueue(d)
      BY <2>1 DEF InQueue
    <3>2. Sock("server") < d
      BY <1>0, <3>1 DEF Queue
    <3>3. Sock("server") # d
      BY <3>2, Names
    <3> QED
      BY <1>0, <1>1, <3>1, <3>3 DEF Queue, Same
  <2> QED
    BY <1>0, <2>1 DEF Queue
<1>4. Unused'
  BY <1>0 DEF Unused, Same
<1>5. ASSUME NEW k \in Clients, NEW d \in Conns, Sock(k)' = d
      PROVE  Talk(k, d)'
  <2>1. CASE Sock("server") = d
    BY <1>1, <1>5, <2>1
  <2>2. CASE Sock("server") # d
    BY <1>0, <1>1, <1>5, <2>2, TalkStays DEF Talks
  <2> QED
    BY <2>1, <2>2
<1> QED
  BY <1>2, <1>3, <1>4, <1>5 DEF Base, Talks

\* The server closes its connection and serves nobody.
LEMMA ServerLeaves ==
  ASSUME Base, TypeOK', Disco("server"), AllSame, Wanting',
         UNCHANGED <<cpc, count, conns>>, spc' \notin Serving, spc # "exited",
         \/ UNCHANGED <<listening, backlog, reset>> /\ spc' # "exited"
         \/ UnLink /\ spc' = "exited"
  PROVE  Base'
<1> USE DEF INVALID_SOCKET
<1>0. TypeOK /\ Sockets /\ Queue /\ Unused /\ Talks
  BY DEF Base
<1>1. /\ Sock("server")' = 0 /\ \A k \in Clients : Sock(k)' = Sock(k)
      /\ \A d \in Conns : Sock("server") # d => gone'[d] = gone[d]
      /\ \A d \in Conns : Sock("server") = d => gone'[d] = gone[d] \cup {"server"}
  BY <1>0, DiscoFacts, Names
<1>2. Sockets'
  <2>1. ASSUME NEW k \in Clients
        PROVE  Valid(k)' <=> cpc'[k] \in WithSocket
    BY <1>0, <1>1, <2>1 DEF Sockets, Valid, WithSocket
  <2>2. ASSUME NEW k \in Hosts, NEW d \in Conns, Sock(k)' = d
        PROVE  d <= conns' /\ End(k) \notin gone'[d]
    BY <1>0, <1>1, <2>2, Names DEF Sockets
  <2>3. listening' <=> spc' # "exited"
    BY <1>0 DEF Sockets, UnLink
  <2>4. ~Valid("server")'
    BY <1>1 DEF Valid
  <2>5. ASSUME NEW k \in Clients, NEW l \in Clients, Valid(k)', Sock(k)' = Sock(l)'
        PROVE  k = l
    BY <1>0, <1>1, <2>5 DEF Sockets, Valid
  <2> QED
    BY <2>1, <2>2, <2>3, <2>4, <2>5 DEF Sockets, Serving, WithSocket
<1>3. ASSUME NEW d \in Conns, InQueue(d)
      PROVE  /\ d <= conns /\ Sock("server") # d
             /\ "server" \notin gone[d] /\ Responses(d) = <<>>
  BY <1>0, <1>3, Names DEF Queue
<1>4. Queue'
  <2>1. CASE UNCHANGED <<listening, backlog, reset>> /\ spc' # "exited"
    <3>1. ASSUME NEW d \in Conns, InQueue(d)'
          PROVE  /\ d <= conns' /\ Sock("server")' < d
                 /\ "server" \notin gone'[d] /\ Responses(d)' = <<>>
      <4>1. InQueue(d)
        BY <2>1, <3>1 DEF InQueue
      <4>2. 0 < d
        BY Names
      <4> QED
        BY <1>1, <1>3, <4>1, <4>2 DEF AllSame, Same
    <3> QED
      BY <1>0, <2>1, <3>1 DEF Queue
  <2>2. CASE UnLink
    <3>1. backlog' = <<>> /\ DOMAIN backlog' = {}
      BY <2>2 DEF UnLink
    <3>2. \A d \in Conns : ~InQueue(d)'
      BY <3>1 DEF InQueue
    <3> QED
      BY <3>1, <3>2 DEF Queue
  <2> QED
    BY <2>1, <2>2
<1>5. \A d \in Conns : d \in reset' => d \in reset \/ (InQueue(d) /\ spc' = "exited")
  BY DEF UnLink, InQueue
<1>6. Unused'
  <2>1. ASSUME NEW d \in Conns, d > conns'
        PROVE  Sock("server") # d /\ ~InQueue(d)
    BY <1>0, <1>3, <2>1, LinkTypes, Names DEF Sockets
  <2> QED
    BY <1>0, <1>1, <1>5, <2>1 DEF Unused, AllSame, Same
<1>7. ASSUME NEW k \in Clients, NEW d \in Conns, Sock(k)' = d
      PROVE  Talk(k, d)'
  <2>1. Talk(k, d) /\ Sock("server")' # d /\ Same(d)
    BY <1>0, <1>1, <1>7, Names DEF Talks, AllSame
  <2>2. CASE d \in reset' => d \in reset
    <3>1. d \in reset => d \in reset'
      BY DEF UnLink
    <3> QED
      BY <2>1, <2>2, <3>1, TalkStays
  <2>3. CASE InQueue(d) /\ spc' = "exited" /\ d \in reset'
    <3>1. Responses(d)' = <<>>
      BY <1>3, <2>1, <2>3 DEF Same
    <3> QED
      BY <2>1, <2>3, <3>1 DEF Talk, ResetOf, RequestsOf, PerformedOf, ResponseOf, Same
  <2> QED
    BY <1>5, <2>2, <2>3
<1> QED
  BY <1>2, <1>4, <1>6, <1>7 DEF Base, Talks

\* accept() gives the server the oldest connection of the queue.
LEMMA BaseAccept ==
  ASSUME Base, TypeOK', AcceptClient
  PROVE  Base'
<1> USE DEF INVALID_SOCKET
<1>0. TypeOK /\ Sockets /\ Queue /\ Unused /\ Talks /\ Wanting
  BY DEF Base
<1>1. /\ Len(backlog) \in Nat \ {0} /\ DOMAIN backlog = 1..Len(backlog)
      /\ DOMAIN backlog' = 1..(Len(backlog) - 1)
      /\ \A i \in 1..(Len(backlog) - 1) : backlog'[i] = backlog[i + 1]
      /\ backlog[1] = Head(backlog) /\ Head(backlog) \in Conns
      /\ \A i \in DOMAIN backlog' : backlog'[i] \in Conns
  <2>1. backlog \in Seq(Conns) /\ backlog # <<>> /\ backlog' = Tail(backlog)
    BY <1>0, LinkTypes DEF AcceptClient, Accept
  <2> QED
    BY <2>1, TailFacts, SeqFacts
<1>2. PICK c \in Conns : c = Head(backlog)
  BY <1>1
<1>3. /\ Sock("server")' = c /\ \A k \in Clients : Sock(k)' = Sock(k)
      /\ AllSame /\ spc' = "get" /\ spc \in {"poll", "accept"}
      /\ UNCHANGED <<cpc, count, listening, conns, gone, reset, buff, want>>
  BY <1>0, <1>2, LinkTypes, NothingMoves DEF AcceptClient, Accept, Goto, Sock, clientVars
<1>4. InQueue(c) /\ c <= conns /\ "server" \notin gone[c]
  BY <1>0, <1>1, <1>2 DEF Queue, InQueue
<1>5. Sockets'
  <2>1. ASSUME NEW k \in Clients
        PROVE  Valid(k)' <=> cpc'[k] \in WithSocket
    BY <1>0, <1>3, <2>1 DEF Sockets, Valid, WithSocket
  <2>2. ASSUME NEW k \in Hosts, NEW d \in Conns, Sock(k)' = d
        PROVE  d <= conns' /\ End(k) \notin gone'[d]
    BY <1>0, <1>3, <1>4, <2>2, Names DEF Sockets
  <2>3. Valid("server")'
    BY <1>3, Names DEF Valid
  <2>5. ASSUME NEW k \in Clients, NEW l \in Clients, Valid(k)', Sock(k)' = Sock(l)'
        PROVE  k = l
    BY <1>0, <1>3, <2>5 DEF Sockets, Valid
  <2> QED
    BY <1>0, <1>3, <2>1, <2>2, <2>3, <2>5 DEF Sockets, WithSocket
<1>6. Queue'
  <2>1. ASSUME NEW i \in DOMAIN backlog'
        PROVE  i + 1 \in DOMAIN backlog /\ 1 < i + 1 /\ 1 \in DOMAIN backlog
               /\ backlog'[i] = backlog[i + 1]
    BY <1>1, <2>1
  <2>2. ASSUME NEW d \in Conns, InQueue(d)'
        PROVE  InQueue(d) /\ c < d
    BY <1>0, <1>1, <1>2, <2>1, <2>2 DEF InQueue, Queue
  <2>3. ASSUME NEW i \in DOMAIN backlog', NEW j \in DOMAIN backlog', i < j
        PROVE  backlog'[i] < backlog'[j]
    <3>1. i + 1 < j + 1
      BY <1>1, <2>3
    <3> QED
      BY <1>0, <2>1, <3>1 DEF Queue
  <2> QED
    BY <1>0, <1>3, <2>2, <2>3 DEF Queue, AllSame, Same
<1>7. Unused' /\ Wanting'
  BY <1>0, <1>3 DEF Unused, Wanting, AllSame, Same
<1>8. ASSUME NEW k \in Clients, NEW d \in Conns, Sock(k)' = d
      PROVE  Talk(k, d)'
  BY <1>0, <1>3, <1>8, TalkStays DEF Talks, AllSame
<1> QED
  BY <1>5, <1>6, <1>7, <1>8 DEF Base, Talks
\* What a request that a client puts does to the inboxes.
LEMMA PutFacts ==
  ASSUME Base, NEW h \in Clients, NEW req \in Reqs, NEW wants \in BOOLEAN, NEW ok \in BOOLEAN,
         PutRequest(h, req, wants, ok), req \in {"CONNECT", "OLDCONNECT"} => wants,
         UNCHANGED buff
  PROVE  /\ count'[h] = count[h] + 1 /\ \A k \in Clients \ {h} : count'[k] = count[k]
         /\ \A d \in Conns : Sock(h) # d => Same(d)
         /\ Wanting'
         /\ \A c \in Conns : Sock(h) = c =>
              \/ Same(c)
              \/ \E p \in Packet :
                   /\ p = [req |-> req, from |-> h, no |-> count[h] + 1, wants |-> wants]
                   /\ ok /\ c \notin reset
                   /\ Responses(c)' = Responses(c)
                   /\ Len(Requests(c)') = Len(Requests(c)) + 1 /\ Len(Requests(c)) \in Nat
                   /\ \A i \in 1..Len(Requests(c)) : Requests(c)'[i] = Requests(c)[i]
                   /\ Requests(c)'[Len(Requests(c)) + 1] = p
<1>0. TypeOK /\ Sockets /\ Wanting
  BY DEF Base
<1>1. PICK p \in Packet : p = [req |-> req, from |-> h, no |-> count[h] + 1, wants |-> wants]
  BY <1>0, RequestTyped
<1>2. Put(h, p, ok)
  BY <1>1 DEF PutRequest
<1>3. count'[h] = count[h] + 1 /\ \A k \in Clients \ {h} : count'[k] = count[k]
  <2>1. count' = [count EXCEPT ![h] = count[h] + 1]
    BY <1>0, RequestTyped
  <2>2. count \in [Clients -> Nat]
    BY <1>0, TypeParts DEF Typed
  <2> QED
    BY <2>1, <2>2
<1>4. CASE AllSame
  BY <1>0, <1>3, <1>4 DEF AllSame, Same, Wanting
<1>5. CASE \E c \in Conns :
             /\ c = Sock(h) /\ ~Broken(h) /\ ok
             /\ \A d \in Conns \ {c} : Same(d)
             /\ Responses(c)' = Responses(c) /\ Requests(c)' = Append(Requests(c), p)
  <2>1. PICK c \in Conns :
             /\ c = Sock(h) /\ ~Broken(h) /\ ok
             /\ \A d \in Conns \ {c} : Same(d)
             /\ Responses(c)' = Responses(c) /\ Requests(c)' = Append(Requests(c), p)
    BY <1>5
  <2>2. /\ Len(Requests(c)') = Len(Requests(c)) + 1 /\ Len(Requests(c)) \in Nat
        /\ \A i \in 1..Len(Requests(c)) : Requests(c)'[i] = Requests(c)[i]
        /\ Requests(c)'[Len(Requests(c)) + 1] = p
    BY <1>0, <2>1, LinkTypes, AppendFacts
  <2>3. c \notin reset
    BY <1>0, <2>1, SockTypes, Names DEF Broken
  <2>4. Wanting'
    <3>1. ASSUME NEW d \in Conns, NEW i \in 1..Len(Requests(d)'),
                 Requests(d)'[i].req \in {"CONNECT", "OLDCONNECT"}
          PROVE  Requests(d)'[i].wants
      <4>1. CASE d = c
        <5>1. i \in 1..Len(Requests(c)) \/ i = Len(Requests(c)) + 1
          BY <2>2, <3>1, <4>1
        <5>2. p.req = req /\ p.wants = wants
          BY <1>1
        <5> QED
          BY <1>0, <2>2, <3>1, <4>1, <5>1, <5>2 DEF Wanting
      <4>2. CASE d # c
        BY <1>0, <2>1, <3>1, <4>2 DEF Wanting, Same
      <4> QED
        BY <4>1, <4>2
    <3> QED
      BY <1>0, <3>1 DEF Wanting
  <2> QED
    BY <1>1, <1>3, <2>1, <2>2, <2>3, <2>4
<1> QED
  BY <1>0, <1>2, <1>4, <1>5, RequestPut

\* A request is put: what was on its way asks for nothing, and the client waits
\* if this one does.
LEMMA BasePut ==
  ASSUME Base, TypeOK', NEW h \in Clients, Hello(h) \/ Request(h) \/ PutResume(h)
  PROVE  Base'
<1>0. TypeOK /\ Sockets /\ Queue /\ Unused /\ Talks /\ Wanting
  BY DEF Base
<1>1. PICK req \in Reqs, wants \in BOOLEAN, ok \in BOOLEAN :
        /\ PutRequest(h, req, wants, ok) /\ (req \in {"CONNECT", "OLDCONNECT"} => wants)
        /\ cpc[h] \in {"hello", "ready", "resuming"}
        /\ ok /\ wants => cpc'[h] \in {"connecting", "waiting"}
        /\ cpc'[h] \in {"connecting", "waiting", "ready", "failed"}
  <2>1. CASE Hello(h)
    BY <1>0, <2>1, StepFacts DEF Hello, Reqs
  <2>2. CASE Request(h)
    BY <1>0, <2>2, StepFacts DEF Request, Reqs
  <2>3. CASE PutResume(h)
    BY <1>0, <2>3, StepFacts DEF PutResume, Reqs
  <2> QED
    BY <2>1, <2>2, <2>3
<1>2. /\ UNCHANGED <<listening, backlog, data_socket, conns, gone, reset, spc, buff, want>>
      /\ \A k \in Clients \ {h} : cpc'[k] = cpc[k]
  BY <1>0, StepFacts DEF Hello, Request, PutResume, serverVars
<1>3. /\ count'[h] = count[h] + 1 /\ \A k \in Clients \ {h} : count'[k] = count[k]
      /\ \A d \in Conns : Sock(h) # d => Same(d)
      /\ Wanting'
  BY <1>1, <1>2, PutFacts
<1>4. ASSUME NEW c \in Conns, Sock(h) = c
      PROVE  Talk(h, c)' /\ Responses(c)' = Responses(c)
  <2>1. Talk(h, c) /\ Sock("server")' = Sock("server")
    BY <1>0, <1>2, <1>4 DEF Talks, Sock
  <2>2. /\ Responses(c) = <<>>
        /\ \A i \in 1..Len(Requests(c)) :
             Requests(c)[i].from = h /\ (c \notin reset => ~Requests(c)[i].wants)
        /\ Sock("server") = c /\ spc = "perform" => buff.from = h /\ want = buff.wants /\ ~want
    BY <1>1, <2>1 DEF Talk, ResponseOf, RequestsOf, PerformedOf, Awaits
  <2>3. CASE Same(c)
    BY <1>1, <1>2, <1>3, <1>4, <2>1, <2>2, <2>3
       DEF Talk, ResetOf, RequestsOf, PerformedOf, ResponseOf, Awaits, Same
  <2>4. CASE \E p \in Packet :
                   /\ p = [req |-> req, from |-> h, no |-> count[h] + 1, wants |-> wants]
                   /\ ok /\ c \notin reset
                   /\ Responses(c)' = Responses(c)
                   /\ Len(Requests(c)') = Len(Requests(c)) + 1 /\ Len(Requests(c)) \in Nat
                   /\ \A i \in 1..Len(Requests(c)) : Requests(c)'[i] = Requests(c)[i]
                   /\ Requests(c)'[Len(Requests(c)) + 1] = p
    <3>1. RequestsOf(h, c)'
      <4>1. ASSUME NEW i \in 1..Len(Requests(c)')
            PROVE  /\ Requests(c)'[i].from = h
                   /\ Requests(c)'[i].wants =>
                        /\ i = Len(Requests(c)') /\ Requests(c)'[i].no = count'[h]
                        /\ cpc'[h] \in {"connecting", "waiting"} /\ Responses(c)' = <<>>
        <5>1. CASE i \in 1..Len(Requests(c))
          BY <2>2, <2>4, <5>1
        <5>2. CASE i = Len(Requests(c)) + 1
          BY <1>1, <1>3, <2>2, <2>4, <5>2
        <5> QED
          BY <2>4, <4>1, <5>1, <5>2
      <4> QED
        BY <1>1, <4>1 DEF RequestsOf, Awaits
    <3>2. ResetOf(h, c)' /\ PerformedOf(h, c)' /\ ResponseOf(h, c)'
      BY <1>1, <1>2, <2>1, <2>2, <2>4 DEF ResetOf, PerformedOf, ResponseOf
    <3> QED
      BY <2>4, <3>1, <3>2 DEF Talk
  <2> QED
    BY <1>1, <1>2, <1>4, <2>3, <2>4, PutFacts DEF Same
<1>5. cpc[h] \in WithSocket /\ cpc'[h] \in WithSocket
  BY <1>1 DEF WithSocket
<1> QED
  BY <1>2, <1>3, <1>4, <1>5, ClientKeeps

\* Suspend and Disconnect: nobody waits for the last request.
LEMMA BaseDisco ==
  ASSUME Base, TypeOK', NEW h \in Clients, Suspend(h) \/ Disconnect(h)
  PROVE  Base'
<1>0. TypeOK /\ Sockets /\ Talks
  BY DEF Base
<1>1. PICK req \in Reqs, ok \in BOOLEAN :
        PutRequest(h, req, FALSE, ok) /\ req \notin {"CONNECT", "OLDCONNECT"}
  BY DEF Suspend, Disconnect, ReqRemoteDisco, Reqs
<1>2. /\ UNCHANGED <<listening, backlog, conns, reset, spc, buff, want>>
      /\ \A k \in Clients \ {h} : cpc'[k] = cpc[k]
      /\ cpc'[h] \in {"suspended", "idle"} /\ Disco(h)
  BY <1>0, StepFacts DEF Suspend, Disconnect, ReqRemoteDisco, serverVars
<1>3. /\ \A k \in Clients \ {h} : count'[k] = count[k]
      /\ \A d \in Conns : Sock(h) # d => Same(d)
      /\ \A d \in Conns : Sock(h) = d => Responses(d)' = Responses(d)
      /\ Wanting'
  BY <1>1, <1>2, PutFacts DEF Same
<1>4. cpc'[h] \notin WithSocket
  BY <1>2 DEF WithSocket
<1> QED
  BY <1>2, <1>3, <1>4, ClientLeaves

\* A response is read, or the wait for it fails, or the client goes away.
LEMMA BaseRead ==
  ASSUME Base, TypeOK', NEW h \in Clients, Connected(h) \/ Responded(h)
  PROVE  Base'
<1>0. TypeOK /\ Sockets /\ Talks /\ Wanting
  BY DEF Base
<1>1. /\ UNCHANGED <<listening, backlog, data_socket, conns, gone, reset, spc, buff, want, count>>
      /\ \A k \in Clients \ {h} : cpc'[k] = cpc[k]
      /\ cpc[h] \in {"connecting", "waiting"} /\ cpc'[h] = "ready"
  BY <1>0, StepFacts DEF Connected, Responded, Get, serverVars
<1>2. PICK c \in Conns :
           /\ c = Sock(h) /\ InboxOK' /\ Responses(c) # <<>>
           /\ \A d \in Conns \ {c} : Same(d)
           /\ Requests(c)' = Requests(c) /\ Responses(c)' = Tail(Responses(c))
  BY <1>0, Names, ResponseTaken DEF Connected, Responded, Get
<1>3. Talk(h, c) /\ Len(Responses(c)) = 1 /\ Requests(c) = <<>>
  BY <1>0, <1>2 DEF Talks, Talk, ResponseOf
<1>4. Responses(c)' = <<>>
  BY <1>0, <1>2, <1>3, LinkTypes, LastTaken
<1>5. Talk(h, c)'
  <2>1. Sock("server")' = Sock("server")
    BY <1>1 DEF Sock
  <2>2. Len(<<>>) = 0
    OBVIOUS
  <2>3. ~(Sock("server") = c /\ spc = "perform")
    BY <1>2, <1>3 DEF Talk, ResponseOf
  <2> QED
    BY <1>1, <1>2, <1>3, <1>4, <2>1, <2>2, <2>3
       DEF Talk, ResetOf, RequestsOf, PerformedOf, ResponseOf
<1>6. Wanting'
  BY <1>0, <1>1, <1>2 DEF Wanting, Same
<1>7. cpc[h] \in WithSocket /\ cpc'[h] \in WithSocket
  BY <1>1 DEF WithSocket
<1> QED
  BY <1>1, <1>2, <1>4, <1>5, <1>6, <1>7, ClientKeeps
LEMMA BaseRefused ==
  ASSUME Base, TypeOK', NEW h \in Clients, Refused(h)
  PROVE  Base'
<1>0. TypeOK /\ Sockets /\ Talks /\ Wanting
  BY DEF Base
<1>1. /\ UNCHANGED <<listening, backlog, conns, reset, spc, buff, want, count>>
      /\ \A k \in Clients \ {h} : cpc'[k] = cpc[k]
      /\ cpc'[h] = "quit" /\ Disco(h)
  BY <1>0, StepFacts DEF Refused, serverVars
<1>2. PICK c \in Conns :
           /\ c = Sock(h) /\ InboxOK' /\ Responses(c) # <<>>
           /\ \A d \in Conns \ {c} : Same(d)
           /\ Requests(c)' = Requests(c) /\ Responses(c)' = Tail(Responses(c))
  BY <1>0, ResponseTaken DEF Refused
<1>3. Wanting'
  BY <1>0, <1>1, <1>2 DEF Wanting, Same
<1>4. cpc'[h] \notin WithSocket
  BY <1>1 DEF WithSocket
<1> QED
  BY <1>1, <1>2, <1>3, <1>4, ClientLeaves

\* GetPacket fails the client: it is not waiting any more, and nothing came by
\* the connection.
LEMMA BaseNotResponded ==
  ASSUME Base, TypeOK', NEW h \in Clients, NotResponded(h)
  PROVE  Base'
<1>0. TypeOK /\ Sockets /\ Talks /\ Wanting
  BY DEF Base
<1>1. /\ UNCHANGED <<listening, backlog, data_socket, conns, gone, reset, spc, buff, want, count>>
      /\ \A k \in Clients \ {h} : cpc'[k] = cpc[k]
      /\ cpc[h] \in {"connecting", "waiting"} /\ cpc'[h] = "failed" /\ UNCHANGED inbox
  BY <1>0, StepFacts DEF NotResponded, GetFails, linkVars, serverVars
<1>2. AllSame
  BY <1>0, <1>1, LinkTypes, NothingMoves
<1>3. ASSUME NEW c \in Conns, Sock(h) = c
      PROVE  Talk(h, c)'
  <2>1. c \in reset
    BY <1>0, <1>1, <1>3, SockTypes, Names DEF NotResponded, GetFails
  <2>2. Talk(h, c) /\ spc = "exited" /\ Responses(c) = <<>>
    BY <1>0, <1>3, <2>1 DEF Talks, Talk, ResetOf
  <2> QED
    BY <1>1, <1>2, <2>1, <2>2
       DEF Talk, ResetOf, RequestsOf, PerformedOf, ResponseOf, AllSame, Same
<1>4. Wanting'
  BY <1>0, <1>1, <1>2 DEF Wanting, AllSame, Same
<1>5. cpc[h] \in WithSocket /\ cpc'[h] \in WithSocket
  BY <1>1 DEF WithSocket
<1> QED
  BY <1>1, <1>2, <1>3, <1>4, <1>5, ClientKeeps DEF AllSame, Same

LEMMA BaseClosed ==
  ASSUME Base, TypeOK', NEW h \in Clients, TrapFailed(h) \/ Vanish(h)
  PROVE  Base'
<1>0. TypeOK /\ Sockets /\ Talks /\ Wanting
  BY DEF Base
<1>1. /\ UNCHANGED <<listening, backlog, conns, spc, buff, want, count>>
      /\ \A k \in Clients \ {h} : cpc'[k] = cpc[k]
      /\ cpc'[h] = "quit" /\ Disco(h) /\ UNCHANGED inbox
      /\ UNCHANGED reset \/ reset' = IF Valid(h) THEN reset \cup {Sock(h)} ELSE reset
  BY <1>0, StepFacts DEF TrapFailed, Vanish, Terminate, serverVars
<1>2. AllSame
  BY <1>0, <1>1, LinkTypes, NothingMoves
<1>3. /\ reset \subseteq reset' /\ \A d \in Conns : Sock(h) # d /\ d \in reset' => d \in reset
  BY <1>1
<1>4. Wanting'
  BY <1>0, <1>1, <1>2 DEF Wanting, AllSame, Same
<1>5. cpc'[h] \notin WithSocket
  BY <1>1 DEF WithSocket
<1> QED
  BY <1>1, <1>2, <1>3, <1>4, <1>5, ClientLeaves DEF AllSame, Same

LEMMA BaseCannot ==
  ASSUME Base, TypeOK', NEW h \in Clients, CannotConnect(h)
  PROVE  Base'
<1>0. TypeOK /\ Sockets /\ Talks /\ Wanting
  BY DEF Base
<1>1. /\ UNCHANGED <<listening, backlog, data_socket, conns, gone, reset, spc, buff, want, count>>
      /\ \A k \in Clients \ {h} : cpc'[k] = cpc[k]
      /\ cpc[h] = "idle" /\ cpc'[h] = "quit" /\ UNCHANGED inbox
  BY <1>0, StepFacts DEF CannotConnect, linkVars, serverVars
<1>2. AllSame
  BY <1>0, <1>1, LinkTypes, NothingMoves
<1>3. \A c \in Conns : Sock(h) # c
  BY <1>0, <1>1, SockTypes, Names DEF Sockets
<1>4. Wanting'
  BY <1>0, <1>1, <1>2 DEF Wanting, AllSame, Same
<1>5. cpc[h] \notin WithSocket /\ cpc'[h] \notin WithSocket
  BY <1>1 DEF WithSocket
<1> QED
  BY <1>1, <1>2, <1>3, <1>4, <1>5, ClientKeeps DEF AllSame

\* The server moves on, and no packet moves.
LEMMA BaseMoves ==
  ASSUME Base, TypeOK',
         \/ Poll \/ PollTimeOut \/ NoKey \/ PerformDisconnect \/ PerformResume
         \/ PressQ \/ UNCHANGED vars
  PROVE  Base'
<1>0. TypeOK /\ Sockets /\ Talks /\ Wanting
  BY DEF Base
<1>1. /\ UNCHANGED <<cpc, count, listening, backlog, data_socket, conns, gone, reset, inbox, buff, want>>
      /\ spc' = "exited" <=> spc = "exited"
      /\ spc \in Serving <=> spc' \in Serving
      /\ spc' = "perform" => spc = "perform"
  BY DEF Poll, PollTimeOut, NoKey, PerformDisconnect, PerformResume, PressQ, vars, linkVars, clientVars,
         serverVars, Goto, Performing, Serving
<1>2. AllSame
  BY <1>0, <1>1, LinkTypes, NothingMoves
<1>3. ASSUME NEW h \in Clients, NEW c \in Conns, Sock(h) = c
      PROVE  Talk(h, c)'
  <2>1. Talk(h, c) /\ Sock("server")' = Sock("server") /\ Same(c)
    BY <1>0, <1>1, <1>2, <1>3 DEF Talks, Sock, AllSame
  <2> QED
    BY <1>1, <2>1, TalkStays
<1>4. Wanting'
  BY <1>0, <1>1, <1>2 DEF Wanting, AllSame, Same
<1> QED
  BY <1>1, <1>2, <1>3, <1>4, ServerKeeps DEF AllSame

\* The server reads a request: it is the only one that wants a response.
LEMMA BaseGet ==
  ASSUME Base, TypeOK', GetPacket
  PROVE  Base'
<1>0. TypeOK /\ Sockets /\ Unused /\ Talks /\ Wanting
  BY DEF Base
<1>1. /\ UNCHANGED <<cpc, count, listening, backlog, data_socket, conns, gone, reset>>
      /\ spc = "get" /\ spc' = "perform"
  BY DEF GetPacket, Get, Goto, clientVars
<1>2. PICK c \in Conns :
           /\ c = Sock("server") /\ InboxOK' /\ Requests(c) # <<>>
           /\ Unread("server") = Requests(c)
           /\ \A d \in Conns \ {c} : Same(d)
           /\ Responses(c)' = Responses(c) /\ Requests(c)' = Tail(Requests(c))
  BY <1>0, RequestTaken DEF GetPacket
<1>3. /\ Len(Requests(c)) \in Nat \ {0} /\ Len(Requests(c)') = Len(Requests(c)) - 1
      /\ \A i \in 1..(Len(Requests(c)) - 1) :
           Requests(c)'[i] = Requests(c)[i + 1] /\ i + 1 \in 1..Len(Requests(c))
      /\ buff' = Requests(c)[1] /\ want' = buff'.wants
      /\ Len(Requests(c)) = 1 => Requests(c)' = <<>>
  <2>1. Requests(c) \in Seq(Packet)
    BY <1>0, LinkTypes
  <2> QED
    BY <1>2, <2>1, TailFacts, LastTaken DEF GetPacket, Arrived
<1>4. ASSUME NEW h \in Clients, Sock(h) = c
      PROVE  Talk(h, c)'
  <2>1. Talk(h, c) /\ Sock("server")' = c /\ c \notin reset
    BY <1>0, <1>1, <1>2, <1>4 DEF Talks, Talk, ResetOf, Sock
  <2>2. /\ \A i \in 1..Len(Requests(c)) :
             /\ Requests(c)[i].from = h
             /\ Requests(c)[i].wants => i = Len(Requests(c)) /\ Awaits(h, c, Requests(c)[i])
        /\ cpc[h] \notin {"hello", "resuming"} /\ Responses(c) = <<>>
    BY <1>2, <2>1 DEF Talk, RequestsOf, ResponseOf
  <2>3. 1 \in 1..Len(Requests(c))
    BY <1>3
  <2>4. PerformedOf(h, c)'
    BY <1>1, <1>2, <1>3, <2>2, <2>3 DEF PerformedOf, Awaits
  <2>5. RequestsOf(h, c)'
    BY <1>1, <1>2, <1>3, <2>2 DEF RequestsOf, Awaits
  <2> QED
    BY <1>1, <1>2, <2>1, <2>2, <2>4, <2>5 DEF Talk, ResetOf, ResponseOf
<1>5. Wanting'
  BY <1>0, <1>1, <1>2, <1>3 DEF Wanting, Same
<1>6. \A d \in Conns : d > conns => d # c
  BY <1>0, <1>2, LinkTypes, Names DEF Sockets
<1> QED
  BY <1>1, <1>2, <1>4, <1>5, <1>6, ServerKeeps DEF Serving
\* A client with the server's connection is there.
LEMMA NotBroken ==
  ASSUME Base, NEW h \in Clients, Valid("server"), Sock(h) = Sock("server"), spc # "exited"
  PROVE  ~Broken("server") /\ Sock("server") \notin reset
<1>1. PICK c \in Conns : c = Sock("server")
  BY SockTypes, Names DEF Base
<1>2. "client" \notin gone[c]
  BY <1>1, Names DEF Base, Sockets
<1>3. c \notin reset
  BY <1>1 DEF Base, Talks, Talk, ResetOf
<1> QED
  BY <1>1, <1>2, <1>3, Names DEF Broken

\* GetPacket fails the server only when no client has its connection any more.
LEMMA BaseGetFails ==
  ASSUME Base, TypeOK', GetPacketFails
  PROVE  Base'
<1>0. TypeOK /\ Sockets /\ Talks /\ Wanting
  BY DEF Base
<1>1. /\ UNCHANGED <<cpc, count, listening, backlog, data_socket, conns, gone, reset, inbox, buff>>
      /\ spc = "get" /\ spc' = "perform"
  BY DEF GetPacketFails, GetFails, Goto, linkVars, clientVars
<1>2. AllSame
  BY <1>0, <1>1, LinkTypes, NothingMoves
<1>3. Valid("server")
  BY <1>0, <1>1 DEF Sockets
<1>4. \A h \in Clients : Sock(h) # Sock("server")
  BY <1>1, <1>3, NotBroken DEF GetPacketFails, GetFails
<1>5. Wanting'
  BY <1>0, <1>1, <1>2 DEF Wanting, AllSame, Same
<1> QED
  BY <1>1, <1>2, <1>4, <1>5, ServerKeeps DEF AllSame, Serving

\* The server answers, if it does, the client that waits for it.
LEMMA BasePerform ==
  ASSUME Base, TypeOK', Perform \/ Refuse
  PROVE  Base'
<1>0. TypeOK /\ Sockets /\ Talks /\ Wanting
  BY DEF Base
<1>1. /\ UNCHANGED <<cpc, count, listening, backlog, data_socket, conns, gone, reset, buff, want>>
      /\ spc = "perform" /\ spc' \in {"get", "over"}
  BY DEF Perform, Refuse, Performing, clientVars
<1>2. Valid("server")
  BY <1>0, <1>1 DEF Sockets
<1>3. PICK c \in Conns : c = Sock("server")
  BY <1>0, <1>2, SockTypes, Names
<1>4. \/ AllSame /\ UNCHANGED inbox
      \/ \E err \in BOOLEAN, ok \in BOOLEAN :
           /\ Put("server", [to |-> buff.from, no |-> buff.no, err |-> err], ok)
           /\ want \/ buff.req \in {"CONNECT", "OLDCONNECT"}
  BY <1>0, LinkTypes, NothingMoves DEF Perform, Refuse, Performing
<1>5. CASE AllSame
  <2>1. ASSUME NEW h \in Clients, NEW d \in Conns, Sock(h) = d
        PROVE  Talk(h, d)'
    BY <1>0, <1>1, <1>5, <2>1, TalkStays DEF Talks, AllSame
  <2>2. Wanting'
    BY <1>0, <1>1, <1>5 DEF Wanting, AllSame, Same
  <2> QED
    BY <1>1, <1>5, <2>1, <2>2, ServerKeeps DEF AllSame, Serving
<1>6. CASE \E err \in BOOLEAN, ok \in BOOLEAN :
             /\ Put("server", [to |-> buff.from, no |-> buff.no, err |-> err], ok)
             /\ want \/ buff.req \in {"CONNECT", "OLDCONNECT"}
             /\ ~AllSame
  <2>1. PICK err \in BOOLEAN, ok \in BOOLEAN :
          /\ Put("server", [to |-> buff.from, no |-> buff.no, err |-> err], ok)
          /\ want \/ buff.req \in {"CONNECT", "OLDCONNECT"}
          /\ ~AllSame
    BY <1>6
  <2>2. PICK r \in Response : r = [to |-> buff.from, no |-> buff.no, err |-> err]
    <3>1. [to |-> buff.from, no |-> buff.no, err |-> err] \in Response
      BY <1>0 DEF TypeOK, Response, Packet, NoPacket
    <3> QED
      BY <3>1
  <2>3. /\ \A d \in Conns \ {c} : Same(d)
        /\ Requests(c)' = Requests(c) /\ Responses(c)' = Append(Responses(c), r)
    BY <1>0, <1>3, <2>1, <2>2, ResponsePut
  <2>4. Wanting'
    BY <1>0, <1>1, <2>3 DEF Wanting, Same
  <2>5. ASSUME NEW h \in Clients, Sock(h) = c
        PROVE  Talk(h, c)'
    <3>1. Talk(h, c) /\ c \notin reset
      BY <1>0, <1>1, <1>2, <1>3, <2>5, NotBroken DEF Talks
    <3>2. buff.from = h /\ want = buff.wants
      BY <1>1, <1>3, <3>1 DEF Talk, PerformedOf
    <3>3. want
      BY <1>0, <2>1, <3>2 DEF Wanting
    <3>4. /\ Requests(c) = <<>> /\ cpc[h] \in {"connecting", "waiting"}
          /\ buff.no = count[h] /\ Responses(c) = <<>>
      BY <1>1, <1>3, <3>1, <3>3 DEF Talk, PerformedOf, Awaits
    <3>5. Responses(c)' = Append(<<>>, r) /\ <<>> \in Seq(Response) /\ Len(<<>>) = 0
      BY <2>3, <3>4
    <3>6. Len(Responses(c)') = 1 /\ Responses(c)'[1] = r
      BY <3>5, AppendFacts
    <3>7. r.to = h /\ r.no = count[h]
      BY <2>2, <3>2, <3>4
    <3> QED
      BY <1>1, <2>3, <3>1, <3>4, <3>6, <3>7
         DEF Talk, ResetOf, RequestsOf, PerformedOf, ResponseOf
  <2>6. \A d \in Conns : d > conns => d # c
    BY <1>0, <1>3, LinkTypes, Names DEF Sockets
  <2> QED
    BY <1>1, <1>3, <2>3, <2>4, <2>5, <2>6, ServerKeeps DEF Serving
<1> QED
  BY <1>4, <1>5, <1>6

LEMMA BaseLeaves ==
  ASSUME Base, TypeOK', PerformSuspend \/ NextClient \/ SessionEnded
  PROVE  Base'
<1>0. TypeOK /\ Wanting
  BY DEF Base
<1>1. /\ UNCHANGED <<cpc, count, conns, inbox, buff>> /\ Disco("server")
      /\ spc' \notin Serving /\ spc # "exited"
      /\ \/ UNCHANGED <<listening, backlog, reset>> /\ spc' # "exited"
         \/ UnLink /\ spc' = "exited"
  BY DEF PerformSuspend, NextClient, SessionEnded, Performing, Goto, Serving, clientVars
<1>2. AllSame
  BY <1>0, <1>1, LinkTypes, NothingMoves
<1>3. Wanting'
  BY <1>0, <1>1, <1>2 DEF Wanting, AllSame, Same
<1> QED
  BY <1>1, <1>2, <1>3, ServerLeaves

\* The server exits on 'q'; it has no data socket to close.
LEMMA BaseQuit ==
  ASSUME Base, TypeOK', Quit
  PROVE  Base'
<1>0. TypeOK /\ Sockets /\ Wanting
  BY DEF Base
<1>1. /\ UNCHANGED <<cpc, count, conns, inbox, buff, data_socket, gone>>
      /\ spc = "keys" /\ spc' = "exited" /\ UnLink
  BY DEF Quit, Goto, clientVars
<1>2. AllSame
  BY <1>0, <1>1, LinkTypes, NothingMoves
<1>3. Wanting'
  BY <1>0, <1>1, <1>2 DEF Wanting, AllSame, Same
<1>4. ~Valid("server")
  BY <1>0, <1>1 DEF Sockets
<1>5. [data_socket EXCEPT !["server"] = INVALID_SOCKET] = data_socket
  BY <1>0, <1>4, LinkTypes DEF Valid, Sock
<1>6. Disco("server")
  BY <1>1, <1>4, <1>5 DEF Disco
<1> QED
  BY <1>1, <1>2, <1>3, <1>6, ServerLeaves DEF Serving

LEMMA BaseInit == Init => Base
<1> SUFFICES ASSUME Init PROVE Base
  OBVIOUS
<1>1. TypeOK
  <2>1. <<>> \in Seq(Conns) /\ <<>> \in Seq(Packet) /\ <<>> \in Seq(Response)
    OBVIOUS
  <2>2. InboxOK
    BY <2>1 DEF Init, LinkInit, InboxOK
  <2>3. build \in Builds /\ listening \in BOOLEAN /\ backlog \in Seq(Conns) /\ conns \in 0..MaxConns
        /\ data_socket \in [Hosts -> Conns \cup {0}]
        /\ gone \in [Conns -> SUBSET Ends] /\ reset \subseteq Conns
    BY <2>1, LinkConstants DEF Init, LinkInit, INVALID_SOCKET
  <2> QED
    BY <2>2, <2>3, TypeParts DEF Init, Typed, PCs
<1>2. /\ \A c \in Conns : Requests(c) = <<>> /\ Responses(c) = <<>> /\ gone[c] = {}
      /\ \A h \in Hosts : Sock(h) = 0
      /\ backlog = <<>> /\ DOMAIN backlog = {}
  BY DEF Init, LinkInit, Requests, Responses, Sock, INVALID_SOCKET
<1>3. Sockets
  BY <1>2, Names DEF Init, LinkInit, Sockets, Valid, INVALID_SOCKET
<1>4. Queue /\ Unused
  BY <1>2 DEF Init, LinkInit, Queue, InQueue, Unused
<1>5. Talks
  BY <1>2, Names DEF Talks
<1>6. Wanting
  <2>1. Len(<<>>) = 0
    OBVIOUS
  <2> QED
    BY <1>2, <2>1 DEF Wanting, Init, NoPacket
<1> QED
  BY <1>1, <1>3, <1>4, <1>5, <1>6 DEF Base

LEMMA BaseKept == ASSUME Base, [Next]_vars PROVE Base'
<1>1. TypeOK'
  BY TypesKeep DEF Base
<1>2. CASE ServerStep
  BY <1>1, <1>2, BaseMoves, BaseAccept, BaseQuit, BaseGet, BaseGetFails, BasePerform, BaseLeaves
     DEF ServerStep
<1>3. CASE \E h \in Clients : ClientStep(h) \/ UserStep(h)
  BY <1>1, <1>3, BaseConnect, BaseCannot, BasePut, BaseRead, BaseRefused, BaseNotResponded, BaseClosed,
     BaseDisco DEF ClientStep, UserStep
<1> QED
  BY <1>1, <1>2, <1>3, BaseMoves DEF Next

LEMMA BaseMatches == Base => ResponseMatches
<1> SUFFICES ASSUME Base, NEW h \in Clients, Unread(h) # <<>>
             PROVE  /\ cpc[h] \in {"connecting", "waiting"} /\ Len(Unread(h)) = 1
                    /\ Arrived(h).to = h /\ Arrived(h).no = count[h]
  BY DEF ResponseMatches
<1>1. PICK c \in Conns : c = Sock(h) /\ Unread(h) = Responses(c)
  BY SockTypes, Names DEF Base, Unread, Responses
<1>2. Talk(h, c)
  BY <1>1 DEF Base, Talks
<1>3. Arrived(h) = Responses(c)[1]
  BY <1>1, LinkTypes, TailFacts DEF Arrived, Base
<1> QED
  BY <1>1, <1>2, <1>3 DEF Talk, ResponseOf

-----------------------------------------------------------------------------
(* Theorems *)

\* Every variable keeps its type.
THEOREM TypesHold == Spec => []TypeOK
<1>1. Init => Base
  BY BaseInit
<1>2. Base /\ [Next]_vars => Base'
  BY BaseKept
<1>3. Base => TypeOK
  BY DEF Base
<1> QED
  BY <1>1, <1>2, <1>3, PTL DEF Spec

\* The response a client reads answers the request it waits for, whatever
\* clients vanish and whichever way the server ends.
THEOREM ResponseMatchesHolds == Spec => []ResponseMatches
<1>1. Init => Base
  BY BaseInit
<1>2. Base /\ [Next]_vars => Base'
  BY BaseKept
<1> QED
  BY <1>1, <1>2, BaseMatches, PTL DEF Spec

-----------------------------------------------------------------------------
(* The invariant: while no client vanishes and the server is there *)

\* A client holds a connection, or has left it with a farewell behind its
\* requests; or it is told that its version is not served.
Farewells == {"SUSPEND", "DISCONNECT"}
Greetings == {"CONNECT", "OLDCONNECT"}
Held(c) == \E h \in Clients : Sock(h) = c
Stays(c) ==
  Held(c) \/ (Requests(c) # <<>> /\ Requests(c)[Len(Requests(c))].req \in Farewells)
Refusing(h, c) == cpc[h] = "connecting" /\ Responses(c) # <<>> /\ Responses(c)[1].err

\* No call fails.  A connection waits for the server, or is its own, or it has
\* closed the connection, and nothing that was sent is lost.
Open ==
  /\ reset = {} /\ \A h \in Clients : cpc[h] # "failed"
  /\ \A c \in Conns : c <= conns =>
       InQueue(c) \/ c = Sock("server") \/ ("server" \in gone[c] /\ Requests(c) = <<>>)
  /\ \A h \in Clients, c \in Conns : Sock(h) = c =>
       /\ "server" \in gone[c] => Refusing(h, c)
       /\ InQueue(c) /\ Requests(c) = <<>> => cpc[h] \in {"hello", "resuming"}
  /\ \A c \in Conns : InQueue(c) => Stays(c)

\* The server with its connection c.
Serves(c) ==
  /\ spc = "over" => Requests(c) = <<>> /\ \A h \in Clients : Sock(h) = c => Refusing(h, c)
  /\ spc = "get" => Stays(c) /\ \A h \in Clients : Sock(h) = c => ~Refusing(h, c)
  /\ spc = "perform" =>
       /\ buff.req \in Greetings => \A h \in Clients : Sock(h) = c => cpc[h] = "connecting"
       /\ buff.req \in Farewells => Requests(c) = <<>> /\ ~Held(c)
       /\ buff.req \notin Farewells => Stays(c)
       /\ buff.wants => Held(c)
Served ==
  /\ \A c \in Conns : Sock("server") = c => Serves(c)
  /\ spc = "keys" => depth = 0

\* A connection carries the requests of one client: CONNECT or RESUME first, a
\* farewell last, and one that a client waits for only while it waits.
Course(c) ==
  /\ \A i \in 1..Len(Requests(c)) :
       /\ Requests(c)[i].from = Requests(c)[1].from
       /\ Requests(c)[i].req \in Farewells =>
            i = Len(Requests(c)) /\ ~Held(c) /\ ~Requests(c)[i].wants
       /\ Requests(c)[i].req \in Greetings =>
            \A h \in Clients : Sock(h) = c => cpc[h] = "connecting"
       /\ Requests(c)[i].req = "RESUME" => ~Requests(c)[i].wants
       /\ Requests(c)[i].wants => Held(c)
       /\ \A h \in Clients, d \in Conns : Sock(h) = d /\ Requests(c)[i].from = h => c <= d
  /\ InQueue(c) /\ Requests(c) # <<>> =>
       Requests(c)[1].req \in Greetings \cup {"RESUME"}
Courses == \A c \in Conns : Course(c)

\* The numbers of a client's requests rise along its connections.
Before(c, i, d, j) == c < d \/ (c = d /\ i < j)
Rising ==
  \A c, d \in Conns : \A i \in 1..Len(Requests(c)), j \in 1..Len(Requests(d)) :
    Requests(c)[i].from = Requests(d)[j].from /\ Before(c, i, d, j) =>
      Requests(c)[i].no < Requests(d)[j].no
First ==
  spc = "perform" =>
    \A c \in Conns : \A i \in 1..Len(Requests(c)) :
      Requests(c)[i].from = buff.from => buff.no < Requests(c)[i].no

\* What is not performed of a client's requests: those after the last one
\* performed, each once.
Whole == IsFiniteSet(Unperformed) /\ Unperformed \subseteq Packet
Numbers ==
  /\ \A h \in Clients : done[h] <= count[h]
  /\ \A p \in Unperformed : done[p.from] < p.no /\ p.no <= count[p.from]
  /\ \A h \in Clients, n \in Nat : done[h] < n /\ n <= count[h] =>
       \E p \in Unperformed : p.from = h /\ p.no = n
  /\ \A p, q \in Unperformed : p.from = q.from /\ p.no = q.no => p = q

\* The numbers of its suspends and of its resumes, the one it is going to send
\* included, alternate.
Sus(h, n) == \E p \in Unperformed : p.req = "SUSPEND" /\ p.from = h /\ p.no = n
Res(h, n) ==
  \/ \E p \in Unperformed : p.req = "RESUME" /\ p.from = h /\ p.no = n
  \/ h \in Suspended /\ n = count[h] + 1
Alternate(h) ==
  /\ \A s \in Nat : Sus(h, s) =>
       \E r \in Nat : Res(h, r) /\ s < r /\ \A t \in Nat : Sus(h, t) /\ s < t => r < t
  /\ \A r, t \in Nat : Res(h, r) /\ Res(h, t) /\ r < t =>
       \E s \in Nat : Sus(h, s) /\ r < s /\ s < t

\* A call of Session() waits for each client of which a resume comes next.
Keeps(h) == \E r \in Nat : Res(h, r) /\ \A s \in Nat : Sus(h, s) => r < s
Kept == {h \in Clients : Keeps(h)}
Depth == depth = Cardinality(Kept)
Counts == depth + Remaining("SUSPEND") = Cardinality(Suspended) + Remaining("RESUME")

Lines == Open /\ Served /\ Courses /\ Rising /\ First
Books == Whole /\ Numbers /\ (\A h \in Clients : Alternate(h)) /\ Depth /\ Counts

\* When the server has exited nobody is suspended and nobody will be.
Exited ==
  /\ depth = 0
  /\ \A h \in Clients : cpc[h] \in {"idle", "hello", "connecting", "waiting", "failed", "quit"}
  /\ \A p \in Unperformed : p.req \notin {"SUSPEND", "RESUME"}
  /\ \A h \in Clients, c \in Conns : Sock(h) = c => c \in reset \/ Refusing(h, c)

InOrder == Orderly => IF spc = "exited" THEN Exited ELSE Lines /\ Books

-----------------------------------------------------------------------------
(* The books: what is counted of the requests that are not performed *)

LEMMA AddOne ==
  ASSUME NEW S, NEW x, IsFiniteSet(S), x \notin S
  PROVE  /\ IsFiniteSet(S \cup {x}) /\ Cardinality(S) \in Nat
         /\ Cardinality(S \cup {x}) = Cardinality(S) + 1
BY FS_AddElement, FS_CardinalityType

LEMMA TakeOne ==
  ASSUME NEW S, NEW x, IsFiniteSet(S), x \in S
  PROVE  /\ IsFiniteSet(S \ {x}) /\ Cardinality(S) \in Nat \ {0}
         /\ Cardinality(S \ {x}) = Cardinality(S) - 1
<1>1. Cardinality(S) \in Nat /\ Cardinality(S) # 0
  BY FS_CardinalityType, FS_EmptySet
<1> QED
  BY <1>1, FS_RemoveElement

\* A part of a finite set is finite.
LEMMA PartFinite ==
  ASSUME NEW S, IsFiniteSet(S), NEW T, T \subseteq S
  PROVE  IsFiniteSet(T) /\ Cardinality(T) \in Nat
BY FS_Subset, FS_CardinalityType

LEMMA Finite ==
  /\ IsFiniteSet(Suspended) /\ Cardinality(Suspended) \in Nat
  /\ IsFiniteSet(Kept) /\ Cardinality(Kept) \in Nat
<1>1. IsFiniteSet(Clients)
  BY LinkConstants
<1>2. Suspended \subseteq Clients /\ Kept \subseteq Clients
  BY DEF Suspended, Kept
<1> QED
  BY <1>1, <1>2, PartFinite

\* Who is kept waiting depends on the numbers of suspends and resumes only.
LEMMA KeepsSame ==
  ASSUME NEW h \in Clients,
         \A n \in Nat : (Sus(h, n)' <=> Sus(h, n)) /\ (Res(h, n)' <=> Res(h, n))
  PROVE  (Keeps(h)' <=> Keeps(h)) /\ (Alternate(h) => Alternate(h)')
<1>1. Keeps(h)' <=> Keeps(h)
  BY DEF Keeps
<1>2. Alternate(h) => Alternate(h)'
  BY DEF Alternate
<1> QED
  BY <1>1, <1>2

\* Nothing is put and nothing is performed.
LEMMA BooksSame ==
  ASSUME Books, UNCHANGED <<Unperformed, count, done, depth, Suspended>>
  PROVE  Books'
<1>1. Whole' /\ Numbers'
  BY DEF Books, Whole, Numbers
<1>2. \A h \in Clients : (Keeps(h)' <=> Keeps(h)) /\ Alternate(h)'
  BY KeepsSame DEF Books, Sus, Res
<1>3. Kept' = Kept
  BY <1>2 DEF Kept
<1>4. Depth' /\ Counts'
  BY <1>3 DEF Books, Depth, Counts, Remaining
<1> QED
  BY <1>1, <1>2, <1>4 DEF Books

\* What a client's next request adds to the books.
Adds(h, p) ==
  /\ p \in Packet /\ p.from = h /\ p.no = count[h] + 1
  /\ Unperformed' = Unperformed \cup {p}
  /\ count'[h] = count[h] + 1 /\ \A k \in Clients \ {h} : count'[k] = count[k]
  /\ UNCHANGED <<done, depth>>
  /\ \/ p.req \notin {"SUSPEND", "RESUME"} /\ h \notin Suspended /\ Suspended' = Suspended
     \/ p.req = "SUSPEND" /\ h \notin Suspended /\ Suspended' = Suspended \cup {h}
     \/ p.req = "RESUME" /\ h \in Suspended /\ Suspended' = Suspended \ {h}

LEMMA CountTypes ==
  ASSUME TypeOK
  PROVE  /\ \A h \in Clients : count[h] \in Nat /\ done[h] \in Nat
         /\ depth \in Nat
BY TypeParts DEF Typed

LEMMA PacketParts ==
  \A p \in Packet : p.req \in Reqs /\ p.from \in Clients /\ p.no \in Nat /\ p.wants \in BOOLEAN
BY DEF Packet

\* The request has a number of its own.
LEMMA AddsNew ==
  ASSUME TypeOK, Books, NEW h \in Clients, NEW p, Adds(h, p)
  PROVE  /\ p \notin Unperformed /\ \A q \in Unperformed : q.from = h => q.no < p.no
         /\ count[h] \in Nat /\ p.no \in Nat
<1>1. \A q \in Unperformed : q.from = h => q.no <= count[h] /\ q.no \in Nat
  BY PacketParts DEF Books, Whole, Numbers
<1>2. count[h] \in Nat
  BY CountTypes
<1> QED
  BY <1>1, <1>2 DEF Adds

LEMMA AddsWhole ==
  ASSUME TypeOK, Books, NEW h \in Clients, NEW p, Adds(h, p)
  PROVE  Whole' /\ Numbers'
<1>1. Whole'
  BY AddsNew, AddOne DEF Books, Whole, Adds
<1>2. \A q \in Unperformed' : done'[q.from] < q.no /\ q.no <= count'[q.from]
  <2>1. ASSUME NEW q \in Unperformed
        PROVE  done'[q.from] < q.no /\ q.no <= count'[q.from]
    <3>1. done[q.from] < q.no /\ q.no <= count[q.from] /\ q.from \in Clients /\ q.no \in Nat
      BY PacketParts DEF Books, Whole, Numbers
    <3> QED
      BY <3>1, CountTypes DEF Adds
  <2>2. done'[h] < p.no /\ p.no <= count'[h]
    <3>1. done[h] <= count[h]
      BY DEF Books, Numbers
    <3> QED
      BY <3>1, CountTypes DEF Adds
  <2> QED
    BY <2>1, <2>2 DEF Adds
<1>3. ASSUME NEW k \in Clients, NEW n \in Nat, done'[k] < n, n <= count'[k]
      PROVE  \E q \in Unperformed' : q.from = k /\ q.no = n
  <2>1. CASE k = h /\ n = count[h] + 1
    BY <2>1 DEF Adds
  <2>2. CASE n <= count[k]
    BY <1>3, <2>2 DEF Books, Numbers, Adds
  <2> QED
    BY <1>3, <2>1, <2>2, CountTypes DEF Adds
<1>4. ASSUME NEW q \in Unperformed', NEW r \in Unperformed', q.from = r.from, q.no = r.no
      PROVE  q = r
  <2>1. \A u \in Unperformed : u.from = h => u.no # p.no
    BY AddsNew, PacketParts DEF Books, Whole
  <2> QED
    BY <1>4, <2>1 DEF Books, Numbers, Adds
<1>5. \A k \in Clients : done'[k] <= count'[k]
  BY CountTypes DEF Books, Numbers, Adds
<1> QED
  BY <1>1, <1>2, <1>3, <1>4, <1>5 DEF Numbers

\* The next suspend comes after every resume, and a resume is to come after it.
LEMMA AddsAlternate ==
  ASSUME TypeOK, Books, NEW h \in Clients, NEW p, Adds(h, p)
  PROVE  \A k \in Clients : Alternate(k)' /\ (Keeps(k)' <=> Keeps(k))
<1>0. /\ \A u \in Unperformed' : u \in Unperformed \/ u = p
      /\ \A u \in Unperformed : u \in Unperformed'
      /\ p \in Unperformed' /\ p.from = h
  BY DEF Adds
<1>1. ASSUME NEW k \in Clients, k # h
      PROVE  Alternate(k)' /\ (Keeps(k)' <=> Keeps(k))
  <2>1. \A n \in Nat : Sus(k, n)' <=> Sus(k, n)
    BY <1>0, <1>1 DEF Sus
  <2>2. (k \in Suspended)' <=> k \in Suspended
    BY <1>1 DEF Adds
  <2>3. \A n \in Nat : Res(k, n)' <=> Res(k, n)
    BY <1>0, <1>1, <2>2 DEF Res, Adds
  <2> QED
    BY <1>1, <2>1, <2>3, KeepsSame DEF Books
<1>2. CASE p.req # "SUSPEND"
  <2>1. \A n \in Nat : Sus(h, n)' <=> Sus(h, n)
    BY <1>0, <1>2 DEF Sus
  <2>2. \A n \in Nat : Res(h, n)' <=> Res(h, n)
    <3>1. CASE p.req = "RESUME"
      <4>1. h \in Suspended /\ h \notin Suspended' /\ p.no = count[h] + 1
        BY <3>1 DEF Adds
      <4> QED
        BY <1>0, <3>1, <4>1 DEF Res
    <3>2. CASE p.req # "RESUME"
      <4>1. h \notin Suspended /\ h \notin Suspended'
        BY <1>2, <3>2 DEF Adds
      <4> QED
        BY <1>0, <3>2, <4>1 DEF Res
    <3> QED
      BY <3>1, <3>2
  <2> QED
    BY <1>1, <2>1, <2>2, KeepsSame DEF Books
<1>3. CASE p.req = "SUSPEND"
  <2>0. PICK m \in Nat : m = p.no
    BY AddsNew
  <2>1. \A n \in Nat : Sus(h, n)' <=> Sus(h, n) \/ n = m
    BY <1>0, <1>3, <2>0 DEF Sus
  <2>2. /\ h \notin Suspended /\ h \in Suspended' /\ m = count[h] + 1 /\ count'[h] = m
        /\ \A n \in Nat : (Sus(h, n) \/ Res(h, n)) => n < m
    <3>1. h \notin Suspended /\ h \in Suspended' /\ m = count[h] + 1 /\ count'[h] = m
      BY <1>3, <2>0 DEF Adds
    <3> QED
      BY <2>0, <3>1, AddsNew DEF Sus, Res
  <2>3. \A n \in Nat : Res(h, n)' <=> Res(h, n) \/ n = m + 1
    BY <1>0, <1>3, <2>2 DEF Res
  <2>4. Keeps(h)' <=> Keeps(h)
    <3>1. ASSUME Keeps(h) PROVE Keeps(h)'
      <4>1. PICK r \in Nat : Res(h, r) /\ \A s \in Nat : Sus(h, s) => r < s
        BY <3>1 DEF Keeps
      <4>2. Res(h, r)' /\ \A s \in Nat : Sus(h, s)' => r < s
        BY <2>1, <2>2, <2>3, <4>1
      <4> QED
        BY <4>2 DEF Keeps
    <3>2. ASSUME Keeps(h)' PROVE Keeps(h)
      <4>1. PICK r \in Nat : Res(h, r)' /\ \A s \in Nat : Sus(h, s)' => r < s
        BY <3>2 DEF Keeps
      <4>2. r # m + 1
        BY <2>1, <4>1
      <4>3. Res(h, r) /\ \A s \in Nat : Sus(h, s) => r < s
        BY <2>1, <2>3, <4>1, <4>2
      <4> QED
        BY <4>3 DEF Keeps
    <3> QED
      BY <3>1, <3>2
  <2>5. Alternate(h)
    BY DEF Books
  <2>6. ASSUME NEW s \in Nat, Sus(h, s)'
        PROVE  \E r \in Nat : Res(h, r)' /\ s < r /\ \A t \in Nat : Sus(h, t)' /\ s < t => r < t
    <3>1. CASE s = m
      <4>1. Res(h, m + 1)' /\ \A t \in Nat : Sus(h, t)' => t <= m
        BY <2>1, <2>2, <2>3
      <4> QED
        BY <3>1, <4>1
    <3>2. CASE Sus(h, s)
      <4>1. PICK r \in Nat : Res(h, r) /\ s < r /\ \A t \in Nat : Sus(h, t) /\ s < t => r < t
        BY <2>5, <3>2 DEF Alternate
      <4>2. Res(h, r)' /\ r < m
        BY <2>2, <2>3, <4>1
      <4> QED
        BY <2>1, <4>1, <4>2
    <3> QED
      BY <2>1, <2>6, <3>1, <3>2
  <2>7. ASSUME NEW r \in Nat, NEW t \in Nat, Res(h, r)', Res(h, t)', r < t
        PROVE  \E s \in Nat : Sus(h, s)' /\ r < s /\ s < t
    <3>1. CASE t = m + 1
      BY <2>1, <2>2, <2>3, <2>7, <3>1
    <3>2. CASE t # m + 1
      <4>1. Res(h, t) /\ Res(h, r)
        BY <2>2, <2>3, <2>7, <3>2
      <4>2. PICK s \in Nat : Sus(h, s) /\ r < s /\ s < t
        BY <2>5, <2>7, <4>1 DEF Alternate
      <4> QED
        BY <2>1, <4>2
    <3> QED
      BY <3>1, <3>2
  <2> QED
    BY <1>1, <2>4, <2>6, <2>7 DEF Alternate
<1> QED
  BY <1>1, <1>2, <1>3

\* What is counted goes up on both sides, or moves from one to the other.
LEMMA AddsCounts ==
  ASSUME TypeOK, Books, NEW h \in Clients, NEW p, Adds(h, p)
  PROVE  Counts'
<1> DEFINE S(q) == {u \in Unperformed : u.req = q}
<1>1. \A q : IsFiniteSet(S(q)) /\ Cardinality(S(q)) \in Nat /\ p \notin S(q)
  <2>1. ASSUME NEW q PROVE IsFiniteSet(S(q)) /\ Cardinality(S(q)) \in Nat
    BY PartFinite DEF Books, Whole
  <2> QED
    BY <2>1, AddsNew
<1>2. /\ depth + Cardinality(S("SUSPEND")) = Cardinality(Suspended) + Cardinality(S("RESUME"))
      /\ depth' = depth /\ depth \in Nat
  BY CountTypes DEF Books, Counts, Remaining, Adds
<1>3. /\ {u \in Unperformed' : u.req = "SUSPEND"} =
           IF p.req = "SUSPEND" THEN S("SUSPEND") \cup {p} ELSE S("SUSPEND")
      /\ {u \in Unperformed' : u.req = "RESUME"} =
           IF p.req = "RESUME" THEN S("RESUME") \cup {p} ELSE S("RESUME")
  BY DEF Adds
<1>4. Cardinality(S("SUSPEND") \cup {p}) = Cardinality(S("SUSPEND")) + 1
  BY <1>1, AddOne
<1>5. Cardinality(S("RESUME") \cup {p}) = Cardinality(S("RESUME")) + 1
  BY <1>1, AddOne
<1>6. CASE p.req \notin {"SUSPEND", "RESUME"}
  BY <1>2, <1>3, <1>6 DEF Counts, Remaining, Adds
<1>7. CASE p.req = "SUSPEND"
  <2>1. Cardinality(Suspended') = Cardinality(Suspended) + 1
    BY <1>7, Finite, AddOne DEF Adds
  <2> QED
    <3>1. /\ Remaining("SUSPEND")' = Cardinality(S("SUSPEND")) + 1
          /\ Remaining("RESUME")' = Cardinality(S("RESUME"))
      BY <1>3, <1>4, <1>7 DEF Remaining
    <3> HIDE DEF S
    <3> QED
      BY <1>1, <1>2, <2>1, <3>1, Finite DEF Counts
<1>8. CASE p.req = "RESUME"
  <2>1. Cardinality(Suspended') = Cardinality(Suspended) - 1
    BY <1>8, Finite, TakeOne DEF Adds
  <2> QED
    <3>1. /\ Remaining("SUSPEND")' = Cardinality(S("SUSPEND"))
          /\ Remaining("RESUME")' = Cardinality(S("RESUME")) + 1
      BY <1>3, <1>5, <1>8 DEF Remaining
    <3> HIDE DEF S
    <3> QED
      BY <1>1, <1>2, <2>1, <3>1, Finite DEF Counts
<1> QED
  BY <1>6, <1>7, <1>8

LEMMA BooksAdd ==
  ASSUME TypeOK, Books, NEW h \in Clients, NEW p, Adds(h, p)
  PROVE  Books'
<1>1. Kept' = Kept
  BY AddsAlternate DEF Kept
<1>2. Depth'
  BY <1>1 DEF Books, Depth, Adds
<1> QED
  BY <1>2, AddsWhole, AddsAlternate, AddsCounts DEF Books

\* Performing takes the oldest request out of the books.
Drops(p) ==
  /\ p \in Unperformed /\ Unperformed' = Unperformed \ {p}
  /\ \A q \in Unperformed : q.from = p.from => q = p \/ p.no < q.no
  /\ done'[p.from] = p.no /\ \A k \in Clients \ {p.from} : done'[k] = done[k]
  /\ UNCHANGED <<count, Suspended>>
  /\ depth' = IF p.req = "SUSPEND" THEN depth + 1
              ELSE IF p.req = "RESUME" THEN depth - 1 ELSE depth

LEMMA DropsWhole ==
  ASSUME TypeOK, Books, NEW p, Drops(p)
  PROVE  Whole' /\ Numbers'
<1>0. p \in Packet /\ p.from \in Clients /\ p.no \in Nat
  BY PacketParts DEF Books, Whole, Drops
<1>1. Whole'
  BY TakeOne DEF Books, Whole, Drops
<1>2. ASSUME NEW q \in Unperformed'
      PROVE  done'[q.from] < q.no /\ q.no <= count'[q.from]
  <2>1. q \in Unperformed /\ q # p /\ q.from \in Clients
    BY <1>2, PacketParts DEF Books, Whole, Drops
  <2>2. done[q.from] < q.no /\ q.no <= count[q.from]
    BY <2>1 DEF Books, Numbers
  <2> QED
    BY <2>1, <2>2 DEF Drops
<1>3. ASSUME NEW k \in Clients, NEW n \in Nat, done'[k] < n, n <= count'[k]
      PROVE  \E q \in Unperformed' : q.from = k /\ q.no = n
  <2>1. done[k] < n /\ n <= count[k]
    <3>1. CASE k = p.from
      <4>1. done[k] < p.no
        BY <3>1 DEF Books, Numbers, Drops
      <4> QED
        BY <1>0, <1>3, <3>1, <4>1, CountTypes DEF Drops
    <3>2. CASE k # p.from
      BY <1>3, <3>2 DEF Drops
    <3> QED
      BY <3>1, <3>2
  <2>2. PICK q \in Unperformed : q.from = k /\ q.no = n
    BY <2>1 DEF Books, Numbers
  <2>3. q # p
    BY <1>0, <1>3, <2>2 DEF Drops
  <2> QED
    BY <2>2, <2>3 DEF Drops
<1>4. \A k \in Clients : done'[k] <= count'[k]
  BY DEF Books, Numbers, Drops
<1> QED
  BY <1>1, <1>2, <1>3, <1>4 DEF Books, Numbers, Drops

\* Performed is the first of the client's requests: a suspend keeps the client,
\* and a resume ends that.
LEMMA DropsAlternate ==
  ASSUME TypeOK, Books, NEW p, Drops(p), NEW k \in Clients
  PROVE  /\ Alternate(k)'
         /\ k # p.from \/ p.req \notin {"SUSPEND", "RESUME"} => (Keeps(k)' <=> Keeps(k))
         /\ k = p.from /\ p.req = "SUSPEND" => ~Keeps(k) /\ Keeps(k)'
         /\ k = p.from /\ p.req = "RESUME" => Keeps(k) /\ ~Keeps(k)'
<1>0. /\ p \in Packet /\ p.from \in Clients /\ p.no \in Nat
      /\ \A u \in Unperformed : u = p \/ u \in Unperformed'
      /\ \A u \in Unperformed' : u \in Unperformed /\ u # p
      /\ p \in Unperformed /\ UNCHANGED <<count, Suspended>>
  BY PacketParts DEF Books, Whole, Drops
<1>1. Alternate(k)
  BY DEF Books
<1>2. CASE k # p.from \/ p.req \notin {"SUSPEND", "RESUME"}
  <2>1. \A n \in Nat : (Sus(k, n)' <=> Sus(k, n)) /\ (Res(k, n)' <=> Res(k, n))
    BY <1>0, <1>2 DEF Sus, Res
  <2> QED
    BY <1>1, <1>2, <2>1, KeepsSame
<1>3. PICK m \in Nat : m = p.no
  BY <1>0
<1>4. ASSUME k = p.from
      PROVE  \A n \in Nat : (Sus(k, n) \/ Res(k, n)) => n = m \/ m < n
  <2>1. m < count[k] + 1
    BY <1>0, <1>3, <1>4, CountTypes DEF Books, Numbers
  <2> QED
    BY <1>3, <1>4, <2>1 DEF Sus, Res, Drops
<1>5. CASE k = p.from /\ p.req = "SUSPEND"
  <2>1. \A n \in Nat : Sus(k, n)' <=> Sus(k, n) /\ n # m
    <3>1. \A u \in Unperformed' : u.from = k => u.no # m
      BY <1>0, <1>3, <1>5 DEF Books, Numbers
    <3> QED
      BY <1>0, <1>3, <1>5, <3>1 DEF Sus
  <2>2. \A n \in Nat : Res(k, n)' <=> Res(k, n)
    BY <1>0, <1>5 DEF Res
  <2>3. Sus(k, m)
    BY <1>0, <1>3, <1>5 DEF Sus
  <2>4. ~Keeps(k)
    BY <1>4, <1>5, <2>3 DEF Keeps
  <2>5. Keeps(k)'
    <3>1. PICK r \in Nat : Res(k, r) /\ m < r /\ \A t \in Nat : Sus(k, t) /\ m < t => r < t
      BY <1>1, <2>3 DEF Alternate
    <3>2. \A t \in Nat : Sus(k, t)' => r < t
      BY <1>4, <1>5, <2>1, <3>1
    <3> QED
      BY <2>2, <3>1, <3>2 DEF Keeps
  <2>6. ASSUME NEW s \in Nat, Sus(k, s)'
        PROVE  \E r \in Nat : Res(k, r)' /\ s < r /\ \A t \in Nat : Sus(k, t)' /\ s < t => r < t
    BY <1>1, <2>1, <2>2, <2>6 DEF Alternate
  <2>7. ASSUME NEW r \in Nat, NEW t \in Nat, Res(k, r)', Res(k, t)', r < t
        PROVE  \E s \in Nat : Sus(k, s)' /\ r < s /\ s < t
    <3>1. PICK s \in Nat : Sus(k, s) /\ r < s /\ s < t
      BY <1>1, <2>2, <2>7 DEF Alternate
    <3>2. r = m \/ m < r
      BY <1>4, <1>5, <2>2, <2>7
    <3> QED
      BY <2>1, <3>1, <3>2
  <2> QED
    BY <1>5, <2>4, <2>5, <2>6, <2>7 DEF Alternate
<1>6. CASE k = p.from /\ p.req = "RESUME"
  <2>1. \A n \in Nat : Sus(k, n)' <=> Sus(k, n)
    BY <1>0, <1>6 DEF Sus
  <2>2. \A n \in Nat : Res(k, n)' <=> Res(k, n) /\ n # m
    <3>1. \A u \in Unperformed' : u.from = k => u.no # m
      BY <1>0, <1>3, <1>6 DEF Books, Numbers
    <3>2. m < count[k] + 1
      BY <1>0, <1>3, <1>6, CountTypes DEF Books, Numbers
    <3> QED
      BY <1>0, <1>3, <1>6, <3>1, <3>2 DEF Res
  <2>3. Res(k, m)
    BY <1>0, <1>3, <1>6 DEF Res
  <2>4. Keeps(k)
    <3>1. \A s \in Nat : Sus(k, s) => m < s
      <4>1. \A u \in Unperformed : u.from = k /\ u.req = "SUSPEND" => u # p
        BY <1>6
      <4> QED
        BY <1>3, <1>6, <4>1 DEF Sus, Drops
    <3> QED
      BY <2>3, <3>1 DEF Keeps
  <2>5. ~Keeps(k)'
    <3>1. ASSUME NEW r \in Nat, Res(k, r)', \A s \in Nat : Sus(k, s)' => r < s
          PROVE  FALSE
      <4>1. Res(k, r) /\ m < r
        BY <1>4, <1>6, <2>2, <3>1
      <4>2. PICK s \in Nat : Sus(k, s) /\ m < s /\ s < r
        BY <1>1, <2>3, <4>1 DEF Alternate
      <4> QED
        BY <2>1, <3>1, <4>2
    <3> QED
      BY <3>1 DEF Keeps
  <2>6. ASSUME NEW s \in Nat, Sus(k, s)'
        PROVE  \E r \in Nat : Res(k, r)' /\ s < r /\ \A t \in Nat : Sus(k, t)' /\ s < t => r < t
    <3>1. PICK r \in Nat : Res(k, r) /\ s < r /\ \A t \in Nat : Sus(k, t) /\ s < t => r < t
      BY <1>1, <2>1, <2>6 DEF Alternate
    <3>2. s = m \/ m < s
      BY <1>4, <1>6, <2>1, <2>6
    <3> QED
      BY <2>1, <2>2, <3>1, <3>2
  <2>7. ASSUME NEW r \in Nat, NEW t \in Nat, Res(k, r)', Res(k, t)', r < t
        PROVE  \E s \in Nat : Sus(k, s)' /\ r < s /\ s < t
    BY <1>1, <2>1, <2>2, <2>7 DEF Alternate
  <2> QED
    BY <1>6, <2>4, <2>5, <2>6, <2>7 DEF Alternate
<1> QED
  BY <1>2, <1>5, <1>6

LEMMA DropsCounts ==
  ASSUME TypeOK, Books, NEW p, Drops(p)
  PROVE  Counts'
<1> DEFINE S(q) == {u \in Unperformed : u.req = q}
<1>1. \A q : IsFiniteSet(S(q)) /\ Cardinality(S(q)) \in Nat
  BY PartFinite DEF Books, Whole
<1>2. /\ depth + Cardinality(S("SUSPEND")) = Cardinality(Suspended) + Cardinality(S("RESUME"))
      /\ depth \in Nat /\ Cardinality(Suspended') = Cardinality(Suspended)
  BY CountTypes DEF Books, Counts, Remaining, Drops
<1>3. /\ {u \in Unperformed' : u.req = "SUSPEND"} =
           IF p.req = "SUSPEND" THEN S("SUSPEND") \ {p} ELSE S("SUSPEND")
      /\ {u \in Unperformed' : u.req = "RESUME"} =
           IF p.req = "RESUME" THEN S("RESUME") \ {p} ELSE S("RESUME")
      /\ p \in S(p.req)
  BY DEF Drops
<1>4. p.req = "SUSPEND" => Cardinality(S("SUSPEND") \ {p}) = Cardinality(S("SUSPEND")) - 1
  BY <1>1, <1>3, TakeOne
<1>5. p.req = "RESUME" => Cardinality(S("RESUME") \ {p}) = Cardinality(S("RESUME")) - 1
  BY <1>1, <1>3, TakeOne
<1>6. /\ Remaining("SUSPEND")' =
           IF p.req = "SUSPEND" THEN Cardinality(S("SUSPEND")) - 1 ELSE Cardinality(S("SUSPEND"))
      /\ Remaining("RESUME")' =
           IF p.req = "RESUME" THEN Cardinality(S("RESUME")) - 1 ELSE Cardinality(S("RESUME"))
  BY <1>3, <1>4, <1>5 DEF Remaining
<1>7. depth' = IF p.req = "SUSPEND" THEN depth + 1
               ELSE IF p.req = "RESUME" THEN depth - 1 ELSE depth
  BY DEF Drops
<1> HIDE DEF S
<1> QED
  BY <1>1, <1>2, <1>6, <1>7, Finite DEF Counts

LEMMA BooksDrop ==
  ASSUME TypeOK, Books, NEW p, Drops(p)
  PROVE  Books'
<1>1. /\ p.from \in Clients /\ depth = Cardinality(Kept) /\ depth \in Nat
      /\ IsFiniteSet(Kept)
  BY PacketParts, Finite, CountTypes DEF Books, Whole, Depth, Drops
<1>2. CASE p.req = "SUSPEND"
  <2>1. Kept' = Kept \cup {p.from} /\ p.from \notin Kept
    BY <1>1, <1>2, DropsAlternate DEF Kept
  <2> QED
    BY <1>1, <1>2, <2>1, AddOne, DropsWhole, DropsAlternate, DropsCounts DEF Books, Depth, Drops
<1>3. CASE p.req = "RESUME"
  <2>1. Kept' = Kept \ {p.from} /\ p.from \in Kept
    BY <1>1, <1>3, DropsAlternate DEF Kept
  <2> QED
    BY <1>1, <1>3, <2>1, TakeOne, DropsWhole, DropsAlternate, DropsCounts DEF Books, Depth, Drops
<1>4. CASE p.req \notin {"SUSPEND", "RESUME"}
  <2>1. Kept' = Kept
    BY <1>4, DropsAlternate DEF Kept
  <2> QED
    BY <1>1, <1>4, <2>1, DropsWhole, DropsAlternate, DropsCounts DEF Books, Depth, Drops
<1> QED
  BY <1>2, <1>3, <1>4

\* A client whose resume comes first is kept waiting for: the server is in a call
\* of Session() that a suspend request made.
LEMMA KeptDeep ==
  ASSUME TypeOK, Books, NEW h \in Clients, Keeps(h)
  PROVE  depth > 0
<1>1. h \in Kept /\ IsFiniteSet(Kept)
  BY Finite DEF Kept
<1>2. Cardinality(Kept) \in Nat \ {0}
  BY <1>1, TakeOne
<1> QED
  BY <1>2 DEF Books, Depth

LEMMA ResumeKept ==
  ASSUME TypeOK, Books, NEW p \in Unperformed, p.req = "RESUME",
         \A q \in Unperformed : q.from = p.from => q = p \/ p.no < q.no
  PROVE  Keeps(p.from)
<1>1. p.no \in Nat /\ p.from \in Clients
  BY PacketParts DEF Books, Whole
<1>2. Res(p.from, p.no) /\ \A s \in Nat : Sus(p.from, s) => p.no < s
  BY <1>1 DEF Res, Sus
<1> QED
  BY <1>1, <1>2 DEF Keeps

-----------------------------------------------------------------------------
(* The lines: what is on its way over the connections *)

\* The packets that are not performed are in an inbox or being performed.
OnItsWay(p) == \E c \in Conns : \E i \in 1..Len(Requests(c)) : Requests(c)[i] = p
UnperformedAre ==
  \A p : p \in Unperformed <=> OnItsWay(p) \/ (spc = "perform" /\ p = buff)
LEMMA UnperformedIs == (InboxOK => UnperformedAre) /\ (InboxOK' => UnperformedAre')
<1>1. ASSUME InboxOK PROVE UnperformedAre
  <2>1. \A c \in Conns : DOMAIN inbox[c]["server"] = 1..Len(inbox[c]["server"])
    <3>1. \A c \in Conns : inbox[c]["server"] \in Seq(Packet)
      BY <1>1 DEF InboxOK
    <3> QED
      BY <3>1, SeqFacts
  <2>2. \A p : p \in Underway <=> OnItsWay(p)
    <3>1. \A p : p \in Underway <=>
            \E c \in Conns : p \in {inbox[c]["server"][i] : i \in DOMAIN inbox[c]["server"]}
      BY DEF Underway
    <3> QED
      BY <2>1, <3>1 DEF OnItsWay, Requests
  <2> QED
    BY <2>2 DEF UnperformedAre, Unperformed
<1>2. ASSUME InboxOK' PROVE UnperformedAre'
  <2>1. \A c \in Conns : DOMAIN inbox'[c]["server"] = 1..Len(inbox'[c]["server"])
    <3>1. \A c \in Conns : inbox'[c]["server"] \in Seq(Packet)
      BY <1>2 DEF InboxOK
    <3> QED
      BY <3>1, SeqFacts
  <2>2. \A p : p \in Underway' <=> OnItsWay(p)'
    <3>1. \A p : p \in Underway' <=>
            \E c \in Conns : p \in {inbox'[c]["server"][i] : i \in DOMAIN inbox'[c]["server"]}
      BY DEF Underway
    <3> QED
      BY <2>1, <3>1 DEF OnItsWay, Requests
  <2> QED
    BY <2>2 DEF UnperformedAre, Unperformed
<1> QED
  BY <1>1, <1>2

\* No request moves.
LEMMA UnperformedSame ==
  ASSUME TypeOK, TypeOK', \A c \in Conns : Requests(c)' = Requests(c),
         UNCHANGED buff, spc' = "perform" <=> spc = "perform"
  PROVE  Unperformed' = Unperformed
<1>1. UnperformedAre /\ UnperformedAre'
  BY UnperformedIs, TypeParts DEF Typed
<1>2. \A p : OnItsWay(p)' <=> OnItsWay(p)
  BY DEF OnItsWay
<1> QED
  BY <1>1, <1>2 DEF UnperformedAre

LEMMA CourseStays ==
  ASSUME NEW c \in Conns, Course(c), Requests(c)' = Requests(c),
         InQueue(c)' => InQueue(c), Held(c)' <=> Held(c),
         \A h \in Clients : Sock(h)' = c => Sock(h) = c /\ cpc'[h] = cpc[h],
         \A h \in Clients, d \in Conns : Sock(h)' = d => Sock(h) = d \/ c <= d
  PROVE  Course(c)'
BY DEF Course

LEMMA CourseEmpty ==
  ASSUME NEW c \in Conns, Requests(c)' = <<>> PROVE Course(c)'
<1>1. Len(<<>>) = 0
  OBVIOUS
<1> QED
  BY <1>1 DEF Course

LEMMA ServesStays ==
  ASSUME NEW c \in Conns, Serves(c), Same(c), UNCHANGED <<spc, buff>>, Held(c)' <=> Held(c),
         \A h \in Clients : Sock(h)' = c => Sock(h) = c /\ cpc'[h] = cpc[h]
  PROVE  Serves(c)'
BY DEF Serves, Same, Stays, Refusing

LEMMA RequestsSame ==
  ASSUME Rising, First, \A c \in Conns : Requests(c)' = Requests(c),
         UNCHANGED buff, spc' = "perform" => spc = "perform"
  PROVE  Rising' /\ First'
BY DEF Rising, First, Before

\* Nobody's request is lost and no call fails.
LEMMA NoneFails ==
  ASSUME Base, Lines, NEW h \in Clients, Valid(h), cpc[h] # "connecting"
  PROVE  ~Broken(h) /\ Sock(h) \notin reset /\ Sock(h) \in Conns
<1>1. PICK c \in Conns : c = Sock(h)
  BY SockTypes, Names DEF Base
<1>2. "server" \notin gone[c] /\ reset = {}
  BY <1>1 DEF Lines, Open, Refusing
<1> QED
  BY <1>1, <1>2, Names DEF Broken

\* A connection that was used and is not closed waits for the server or has it.
LEMMA WhereRequestsAre ==
  ASSUME Base, Lines, NEW c \in Conns, Requests(c) # <<>>
  PROVE  c <= conns /\ (InQueue(c) \/ c = Sock("server"))
<1>1. ~(c > conns)
  BY DEF Base, Unused
<1>2. c <= conns
  BY <1>1, LinkTypes, Names DEF Base
<1> QED
  BY <1>2 DEF Lines, Open

\* RemoteConnect and RemoteResume.
LEMMA LinesConnect ==
  ASSUME Base, Base', Orderly, Lines, Books, NEW h \in Clients, RemoteConnect(h) \/ RemoteResume(h)
  PROVE  Lines' /\ Books'
<1>0. TypeOK /\ TypeOK' /\ Sockets /\ Queue /\ Unused /\ Talks /\ Wanting
  BY DEF Base
<1>1. PICK c \in Conns :
           /\ c = conns + 1 /\ conns' = c /\ Sock(h)' = c
           /\ \A k \in Hosts \ {h} : Sock(k)' = Sock(k)
           /\ listening /\ DOMAIN backlog' = 1..(Len(backlog) + 1)
           /\ \A i \in DOMAIN backlog : backlog'[i] = backlog[i]
           /\ backlog'[Len(backlog) + 1] = c
           /\ AllSame /\ UNCHANGED <<build, listening, gone, reset>>
  BY <1>0, ConnectFacts DEF RemoteConnect, RemoteResume
<1>2. /\ cpc'[h] = IF cpc[h] = "idle" THEN "hello" ELSE "resuming"
      /\ cpc[h] \in {"idle", "suspended"}
      /\ \A k \in Clients \ {h} : cpc'[k] = cpc[k]
      /\ UNCHANGED <<count, spc, buff, want, done, depth>>
  BY <1>0, StepFacts DEF RemoteConnect, RemoteResume, serverVars
<1>3. /\ \A k \in Hosts : Sock(k) # c
      /\ Sock("server")' = Sock("server") /\ \A k \in Clients \ {h} : Sock(k)' = Sock(k)
      /\ \A d \in Conns : Sock(h) # d
      /\ Requests(c) = <<>> /\ gone[c] = {}
      /\ \A d \in Conns : d <= conns' => d <= conns \/ d = c
      /\ \A d \in Conns : Requests(d) # <<>> => d <= c /\ d # c
  <2>1. \A k \in Hosts : Sock(k) # c
    BY <1>0, <1>1, LinkTypes, Names DEF Sockets
  <2>2. \A d \in Conns : Requests(d) # <<>> => d <= c /\ d # c
    BY <1>0, <1>1, LinkTypes, WhereRequestsAre, Names DEF Unused
  <2>3. \A d \in Conns : Sock(h) # d
    BY <1>0, <1>2, SockTypes, Names DEF Sockets
  <2>4. c > conns /\ \A d \in Conns : d <= conns' => d <= conns \/ d = c
    BY <1>0, <1>1, LinkTypes, Names
  <2>5. Requests(c) = <<>> /\ gone[c] = {}
    BY <1>0, <2>4 DEF Unused
  <2> QED
    BY <1>1, <2>1, <2>2, <2>3, <2>4, <2>5, Names
<1>4. \A d \in Conns : InQueue(d)' <=> InQueue(d) \/ d = c
  <2>1. DOMAIN backlog = 1..Len(backlog) /\ Len(backlog) \in Nat
    BY <1>0, LinkTypes, SeqFacts
  <2> QED
    BY <1>1, <2>1 DEF InQueue
<1>5. \A d \in Conns : Held(d)' <=> Held(d) \/ d = c
  BY <1>1, <1>3, Names DEF Held
<1>6. Open'
  <2>1. ASSUME NEW k \in Clients, NEW d \in Conns, Sock(k)' = d
        PROVE  /\ "server" \in gone'[d] => Refusing(k, d)'
               /\ InQueue(d)' /\ Requests(d)' = <<>> => cpc'[k] \in {"hello", "resuming"}
    <3>1. CASE k = h
      BY <1>1, <1>2, <1>3, <2>1, <3>1
    <3>2. CASE k # h
      <4>1. Sock(k) = d /\ d # c
        BY <1>3, <2>1, <3>2, Names
      <4> QED
        BY <1>1, <1>2, <1>4, <3>2, <4>1 DEF Lines, Open, Refusing, AllSame, Same
    <3> QED
      BY <3>1, <3>2
  <2>2. \A k \in Clients : cpc'[k] # "failed"
    BY <1>2 DEF Lines, Open
  <2>3. ASSUME NEW d \in Conns, d <= conns'
        PROVE  InQueue(d)' \/ d = Sock("server")' \/ ("server" \in gone'[d] /\ Requests(d)' = <<>>)
    BY <1>1, <1>3, <1>4, <2>3 DEF Lines, Open, AllSame, Same
  <2>4. \A d \in Conns : InQueue(d)' => Stays(d)'
    BY <1>1, <1>4, <1>5 DEF Lines, Open, Stays, AllSame, Same
  <2> QED
    BY <1>1, <2>1, <2>2, <2>3, <2>4 DEF Lines, Open
<1>7. Served'
  <2>1. ASSUME NEW d \in Conns, Sock("server")' = d
        PROVE  Serves(d)'
    <3>1. d # c /\ Serves(d) /\ Same(d)
      BY <1>1, <1>3, <2>1, Names DEF Lines, Served, AllSame
    <3> QED
      BY <1>1, <1>2, <1>3, <1>5, <3>1, ServesStays
  <2> QED
    BY <1>2, <2>1 DEF Lines, Served
<1>8. Courses'
  <2>1. ASSUME NEW d \in Conns PROVE Course(d)'
    <3>1. CASE Requests(d) = <<>>
      BY <1>1, <3>1, CourseEmpty DEF AllSame, Same
    <3>2. CASE Requests(d) # <<>>
      BY <1>1, <1>2, <1>3, <1>4, <1>5, <3>2, CourseStays DEF Lines, Courses, AllSame, Same
    <3> QED
      BY <3>1, <3>2
  <2> QED
    BY <2>1 DEF Courses
<1>9. Rising' /\ First'
  BY <1>1, <1>2, RequestsSame DEF Lines, AllSame, Same
<1>10. Books'
  <2>1. Suspended' = Suspended
    BY <1>2 DEF Suspended
  <2> QED
    BY <1>0, <1>1, <1>2, <2>1, UnperformedSame, BooksSame DEF AllSame, Same
<1> QED
  BY <1>6, <1>7, <1>8, <1>9, <1>10 DEF Lines

\* What a client puts is on its way: nobody has closed the connection.
Put1(h, c, p) ==
  /\ Sock(h) = c /\ \A d \in Conns \ {c} : Same(d)
  /\ Responses(c)' = Responses(c)
  /\ Len(Requests(c)) \in Nat /\ Len(Requests(c)') = Len(Requests(c)) + 1
  /\ \A i \in 1..Len(Requests(c)) : Requests(c)'[i] = Requests(c)[i]
  /\ Requests(c)'[Len(Requests(c)) + 1] = p
  /\ Unperformed' = Unperformed \cup {p}
  /\ count'[h] = count[h] + 1 /\ \A k \in Clients \ {h} : count'[k] = count[k]

LEMMA PutGoes ==
  ASSUME Base, TypeOK', Lines, NEW h \in Clients, Valid(h), cpc[h] # "connecting",
         NEW req \in Reqs, NEW wants \in BOOLEAN, NEW ok \in BOOLEAN,
         PutRequest(h, req, wants, ok), UNCHANGED <<spc, buff>>
  PROVE  /\ ok
         /\ \E c \in Conns, p \in Packet :
              /\ p = [req |-> req, from |-> h, no |-> count[h] + 1, wants |-> wants]
              /\ Put1(h, c, p)
<1>0. TypeOK
  BY DEF Base
<1>1. ~Broken(h)
  BY NoneFails
<1>2. ok
  BY <1>1 DEF PutRequest, Put
<1>3. PICK p \in Packet : p = [req |-> req, from |-> h, no |-> count[h] + 1, wants |-> wants]
  BY <1>0, RequestTyped
<1>4. PICK c \in Conns :
                 /\ c = Sock(h)
                 /\ \A d \in Conns \ {c} : Same(d)
                 /\ Responses(c)' = Responses(c) /\ Requests(c)' = Append(Requests(c), p)
  <2>1. Put(h, p, ok)
    BY <1>3 DEF PutRequest
  <2>2. PICK c \in Conns : c = Sock(h)
    BY NoneFails
  <2>3. inbox' = [inbox EXCEPT ![c]["server"] = Append(Requests(c), p)]
    BY <1>0, <1>1, <1>2, <2>1, <2>2, LinkTypes DEF Put, Requests
  <2>4. Append(Requests(c), p) \in Seq(Packet)
    BY <1>0, LinkTypes
  <2> QED
    BY <1>0, <2>2, <2>3, <2>4, LinkTypes, RequestsSet
<1>5. /\ Len(Requests(c)) \in Nat /\ Len(Requests(c)') = Len(Requests(c)) + 1
      /\ \A i \in 1..Len(Requests(c)) : Requests(c)'[i] = Requests(c)[i]
      /\ Requests(c)'[Len(Requests(c)) + 1] = p
  BY <1>0, <1>4, LinkTypes, AppendFacts
<1>6. Unperformed' = Unperformed \cup {p}
  <2>1. UnperformedAre /\ UnperformedAre'
    BY <1>0, UnperformedIs, TypeParts DEF Typed
  <2>2. ASSUME NEW q PROVE OnItsWay(q)' <=> OnItsWay(q) \/ q = p
    <3>1. ASSUME OnItsWay(q) PROVE OnItsWay(q)'
      <4>1. PICK d \in Conns : \E i \in 1..Len(Requests(d)) : Requests(d)[i] = q
        BY <3>1 DEF OnItsWay
      <4>2. \E i \in 1..Len(Requests(d)') : Requests(d)'[i] = q
        BY <1>4, <1>5, <4>1 DEF Same
      <4> QED
        BY <4>2 DEF OnItsWay
    <3>2. OnItsWay(p)'
      BY <1>5 DEF OnItsWay
    <3>3. ASSUME OnItsWay(q)', q # p PROVE OnItsWay(q)
      <4>1. PICK d \in Conns : \E i \in 1..Len(Requests(d)') : Requests(d)'[i] = q
        BY <3>3 DEF OnItsWay
      <4>2. \E i \in 1..Len(Requests(d)) : Requests(d)[i] = q
        BY <1>4, <1>5, <3>3, <4>1 DEF Same
      <4> QED
        BY <4>2 DEF OnItsWay
    <3> QED
      BY <3>1, <3>2, <3>3
  <2> QED
    BY <2>1, <2>2 DEF UnperformedAre
<1>7. count'[h] = count[h] + 1 /\ \A k \in Clients \ {h} : count'[k] = count[k]
  <2>1. count' = [count EXCEPT ![h] = count[h] + 1]
    BY <1>0, RequestTyped
  <2>2. count \in [Clients -> Nat]
    BY <1>0, TypeParts DEF Typed
  <2> QED
    BY <2>1, <2>2
<1> QED
  BY <1>2, <1>3, <1>4, <1>5, <1>6, <1>7 DEF Put1

\* A new packet has the highest number of its client and is on its latest
\* connection.
LEMMA PutRises ==
  ASSUME Base, Base', Lines, Books, NEW h \in Clients, NEW c \in Conns, NEW p, Put1(h, c, p), Adds(h, p),
         UNCHANGED <<buff, spc>>
  PROVE  Rising' /\ First'
<1>0. UnperformedAre /\ TypeOK
  BY UnperformedIs, TypeParts DEF Base, Typed
<1>1. p.from = h /\ \A q \in Unperformed : q.from = h => q.no < p.no
  BY <1>0, AddsNew DEF Adds
<1>2. \A d \in Conns : \A i \in 1..Len(Requests(d)) : Requests(d)[i] \in Unperformed
  BY <1>0 DEF UnperformedAre, OnItsWay
<1>3. \A d \in Conns : \A i \in 1..Len(Requests(d)) : Requests(d)[i].from = h => d <= c
  BY DEF Lines, Courses, Course, Put1
<1>4. \A d \in Conns : \A i \in 1..Len(Requests(d)') :
        \/ i \in 1..Len(Requests(d)) /\ Requests(d)'[i] = Requests(d)[i]
        \/ d = c /\ i = Len(Requests(c)) + 1 /\ Requests(d)'[i] = p
  <2>1. ASSUME NEW d \in Conns, d # c PROVE Requests(d)' = Requests(d)
    BY <2>1 DEF Put1, Same
  <2>2. /\ Len(Requests(c)) \in Nat /\ Len(Requests(c)') = Len(Requests(c)) + 1
        /\ \A i \in 1..Len(Requests(c)) : Requests(c)'[i] = Requests(c)[i]
        /\ Requests(c)'[Len(Requests(c)) + 1] = p
    BY DEF Put1
  <2> QED
    BY <2>1, <2>2
<1>5. ASSUME NEW d \in Conns, NEW e \in Conns, NEW i \in 1..Len(Requests(d)'), NEW j \in 1..Len(Requests(e)'),
             Requests(d)'[i].from = Requests(e)'[j].from, Before(d, i, e, j)
      PROVE  Requests(d)'[i].no < Requests(e)'[j].no
  <2>1. CASE i \in 1..Len(Requests(d)) /\ Requests(d)'[i] = Requests(d)[i]
             /\ j \in 1..Len(Requests(e)) /\ Requests(e)'[j] = Requests(e)[j]
    BY <1>5, <2>1 DEF Lines, Rising
  <2>2. CASE i \in 1..Len(Requests(d)) /\ Requests(d)'[i] = Requests(d)[i] /\ Requests(e)'[j] = p
    BY <1>1, <1>2, <1>5, <2>2
  <2>3. CASE /\ d = c /\ i = Len(Requests(c)) + 1 /\ Requests(d)'[i] = p
             /\ j \in 1..Len(Requests(e)) /\ Requests(e)'[j] = Requests(e)[j]
    <3>1. e <= c
      BY <1>1, <1>3, <1>5, <2>3
    <3>2. Len(Requests(c)) \in Nat
      BY DEF Put1
    <3> QED
      BY <1>5, <2>3, <3>1, <3>2, Names DEF Before
  <2>4. CASE d = c /\ e = c /\ i = Len(Requests(c)) + 1 /\ j = Len(Requests(c)) + 1
    <3>1. Len(Requests(c)) \in Nat
      BY DEF Put1
    <3> QED
      BY <1>5, <2>4, <3>1, Names DEF Before
  <2> QED
    BY <1>4, <2>1, <2>2, <2>3, <2>4
<1>6. Rising'
  BY <1>5 DEF Rising, Before
<1>7. First'
  <2>1. spc = "perform" => buff \in Unperformed
    BY <1>0 DEF UnperformedAre
  <2> QED
    BY <1>1, <1>4, <2>1 DEF Lines, First
<1> QED
  BY <1>6, <1>7

\* Hello, Request, PutResume.
LEMMA LinesPut ==
  ASSUME Base, Base', Orderly, Lines, Books, NEW h \in Clients, Hello(h) \/ Request(h) \/ PutResume(h)
  PROVE  Lines' /\ Books'
<1>0. TypeOK /\ TypeOK' /\ Sockets /\ Queue /\ Unused /\ Talks /\ Wanting
  BY DEF Base
<1>1. PICK req \in Reqs, wants \in BOOLEAN, ok \in BOOLEAN :
        /\ PutRequest(h, req, wants, ok)
        /\ \/ /\ cpc[h] = "hello" /\ req \in Greetings /\ wants
              /\ ok => cpc'[h] = "connecting"
           \/ /\ cpc[h] = "ready" /\ req = "other"
              /\ ok => cpc'[h] \in {"ready", "waiting"}
           \/ cpc[h] = "resuming" /\ req = "RESUME" /\ ~wants /\ cpc'[h] = "ready"
  <2>1. CASE Hello(h)
    BY <1>0, <2>1, StepFacts DEF Hello, Reqs, Greetings
  <2>2. CASE Request(h)
    BY <1>0, <2>2, StepFacts DEF Request, Reqs
  <2>3. CASE PutResume(h)
    BY <1>0, <2>3, StepFacts DEF PutResume, Reqs
  <2> QED
    BY <2>1, <2>2, <2>3
<1>2. /\ UNCHANGED <<listening, backlog, data_socket, conns, gone, reset, spc, buff, want, done, depth>>
      /\ \A k \in Clients \ {h} : cpc'[k] = cpc[k]
  BY <1>0, StepFacts DEF Hello, Request, PutResume, serverVars
<1>3. Valid(h)
  BY <1>0, <1>1 DEF Sockets
<1>4. ok /\ \E c \in Conns, p \in Packet :
              /\ p = [req |-> req, from |-> h, no |-> count[h] + 1, wants |-> wants]
              /\ Put1(h, c, p)
  BY <1>0, <1>1, <1>2, <1>3, PutGoes
<1>5. PICK c \in Conns, p \in Packet :
              /\ p = [req |-> req, from |-> h, no |-> count[h] + 1, wants |-> wants]
              /\ Put1(h, c, p)
  BY <1>4
<1>6. /\ Sock(h) = c /\ \A d \in Conns \ {c} : Same(d)
      /\ Responses(c)' = Responses(c)
      /\ Len(Requests(c)) \in Nat /\ Len(Requests(c)') = Len(Requests(c)) + 1
      /\ \A i \in 1..Len(Requests(c)) : Requests(c)'[i] = Requests(c)[i]
      /\ Requests(c)'[Len(Requests(c)) + 1] = p
  BY <1>5 DEF Put1
<1>7. Adds(h, p)
  <2>1. \/ cpc[h] = "hello" /\ req \in Greetings /\ cpc'[h] = "connecting"
        \/ cpc[h] = "ready" /\ req = "other" /\ cpc'[h] \in {"ready", "waiting"}
        \/ cpc[h] = "resuming" /\ req = "RESUME" /\ cpc'[h] = "ready"
    BY <1>1, <1>4
  <2>2. \/ p.req \notin {"SUSPEND", "RESUME"} /\ h \notin Suspended /\ Suspended' = Suspended
        \/ p.req = "RESUME" /\ h \in Suspended /\ Suspended' = Suspended \ {h}
    BY <1>2, <1>5, <2>1 DEF Suspended, Greetings
  <2> QED
    BY <1>2, <1>5, <2>2 DEF Adds, Put1
<1>8. /\ \A k : Sock(k)' = Sock(k)
      /\ \A d \in Conns : (InQueue(d)' <=> InQueue(d)) /\ (Held(d)' <=> Held(d))
      /\ \A k \in Clients : Sock(k) = c => k = h
      /\ Held(c) /\ Held(c)' /\ Requests(c)' # <<>> /\ Talk(h, c)
  <2>1. \A k : Sock(k)' = Sock(k)
    BY <1>2 DEF Sock
  <2>2. \A d \in Conns : (InQueue(d)' <=> InQueue(d)) /\ (Held(d)' <=> Held(d))
    BY <1>2, <2>1 DEF InQueue, Held
  <2>3. \A k \in Clients : Sock(k) = c => k = h
    BY <1>0, <1>3, <1>6 DEF Sockets
  <2>4. Held(c)
    BY <1>6 DEF Held
  <2>5. Len(<<>>) = 0
    OBVIOUS
  <2> QED
    BY <1>0, <1>6, <2>1, <2>2, <2>3, <2>4, <2>5 DEF Talks
<1>9. ASSUME NEW d \in Conns, d # c
      PROVE  /\ Same(d)
             /\ \A k \in Clients : Sock(k)' = d => Sock(k) = d /\ k # h /\ cpc'[k] = cpc[k]
  BY <1>2, <1>6, <1>8, <1>9
<1>10. Open'
  <2>1. ASSUME NEW k \in Clients, NEW d \in Conns, Sock(k)' = d
        PROVE  /\ "server" \in gone'[d] => Refusing(k, d)'
               /\ InQueue(d)' /\ Requests(d)' = <<>> => cpc'[k] \in {"hello", "resuming"}
    <3>1. CASE d = c
      <4>1. "server" \notin gone[c]
        BY <1>1, <1>6 DEF Lines, Open, Refusing
      <4> QED
        BY <1>2, <1>8, <3>1, <4>1
    <3>2. CASE d # c
      BY <1>2, <1>8, <1>9, <2>1, <3>2 DEF Lines, Open, Refusing, Same
    <3> QED
      BY <3>1, <3>2
  <2>2. \A k \in Clients : cpc'[k] # "failed"
    BY <1>1, <1>2, <1>4 DEF Lines, Open
  <2>3. ASSUME NEW d \in Conns, d <= conns'
        PROVE  InQueue(d)' \/ d = Sock("server")' \/ ("server" \in gone'[d] /\ Requests(d)' = <<>>)
    <3>1. CASE d = c
      <4>1. "server" \notin gone[c]
        BY <1>1, <1>6 DEF Lines, Open, Refusing
      <4> QED
        BY <1>2, <1>8, <2>3, <3>1, <4>1 DEF Lines, Open
    <3>2. CASE d # c
      BY <1>2, <1>8, <1>9, <2>3, <3>2 DEF Lines, Open, Same
    <3> QED
      BY <3>1, <3>2
  <2>4. ASSUME NEW d \in Conns, InQueue(d)' PROVE Stays(d)'
    <3>1. CASE d = c
      BY <1>8, <3>1 DEF Stays
    <3>2. CASE d # c
      BY <1>8, <1>9, <2>4, <3>2 DEF Lines, Open, Stays, Same
    <3> QED
      BY <3>1, <3>2
  <2> QED
    BY <1>2, <2>1, <2>2, <2>3, <2>4 DEF Lines, Open
<1>11. Served'
  <2>1. ASSUME NEW d \in Conns, Sock("server")' = d
        PROVE  Serves(d)'
    <3>0. Serves(d)
      BY <1>8, <2>1 DEF Lines, Served
    <3>1. CASE d = c
      <4>1. spc # "over"
        BY <1>1, <1>6, <3>0, <3>1 DEF Serves, Refusing
      <4>2. Responses(c) = <<>>
        BY <1>1, <1>8 DEF Talk, ResponseOf
      <4>3. spc = "perform" => buff.req \notin Farewells /\ buff.req \notin Greetings
        <5>1. spc = "perform" => buff.req \notin Farewells
          BY <1>8, <3>0, <3>1 DEF Serves
        <5>2. spc = "perform" /\ buff.req \in Greetings => cpc[h] = "connecting"
          BY <1>6, <3>0, <3>1 DEF Serves
        <5> QED
          BY <1>1, <5>1, <5>2
      <4> QED
        BY <1>2, <1>6, <1>8, <3>1, <4>1, <4>2, <4>3 DEF Serves, Stays, Refusing
    <3>2. CASE d # c
      BY <1>2, <1>8, <1>9, <3>0, <3>2, ServesStays
    <3> QED
      BY <3>1, <3>2
  <2> QED
    BY <1>2, <2>1 DEF Lines, Served
<1>12. Courses'
  <2>1. ASSUME NEW d \in Conns, d # c PROVE Course(d)'
    BY <1>8, <1>9, <2>1, CourseStays DEF Lines, Courses, Same
  <2>2. Course(c)'
    <3>0. Course(c)
      BY DEF Lines, Courses
    <3>1. /\ \A i \in 1..Len(Requests(c)) : Requests(c)[i].from = h
          /\ Requests(c)'[1].from = h /\ p.from = h /\ p.req = req /\ p.wants = wants
          /\ \A i \in 1..Len(Requests(c)) : Requests(c)[i].req \notin Farewells \cup Greetings
      <4>1. \A i \in 1..Len(Requests(c)) : Requests(c)[i].from = h
        BY <1>8 DEF Talk, RequestsOf
      <4>2. Requests(c)'[1].from = h /\ p.from = h /\ p.req = req /\ p.wants = wants
        BY <1>5, <1>6, <4>1
      <4>3. \A i \in 1..Len(Requests(c)) : Requests(c)[i].req \notin Farewells
        BY <1>8, <3>0 DEF Course
      <4>4. \A i \in 1..Len(Requests(c)) : Requests(c)[i].req \notin Greetings
        BY <1>1, <1>6, <3>0 DEF Course
      <4> QED
        BY <4>1, <4>2, <4>3, <4>4
    <3>2. ASSUME NEW i \in 1..Len(Requests(c)')
          PROVE  /\ Requests(c)'[i].from = Requests(c)'[1].from
                 /\ Requests(c)'[i].req \notin Farewells
                 /\ Requests(c)'[i].req \in Greetings => cpc'[h] = "connecting"
                 /\ Requests(c)'[i].req = "RESUME" => ~Requests(c)'[i].wants
                 /\ Requests(c)'[i].from = h
      <4>1. CASE i \in 1..Len(Requests(c))
        BY <1>6, <3>0, <3>1, <4>1 DEF Course
      <4>2. CASE i = Len(Requests(c)) + 1
        BY <1>1, <1>4, <1>6, <3>1, <4>2 DEF Farewells, Greetings
      <4> QED
        BY <1>6, <3>2, <4>1, <4>2
    <3>3. InQueue(c)' => Requests(c)'[1].req \in Greetings \cup {"RESUME"}
      <4>1. CASE Requests(c) = <<>>
        <5>1. InQueue(c) => cpc[h] \in {"hello", "resuming"}
          BY <1>6, <4>1 DEF Lines, Open
        <5>2. Requests(c)'[1] = p
          BY <1>6, <4>1
        <5> QED
          BY <1>1, <1>8, <3>1, <5>1, <5>2
      <4>2. CASE Requests(c) # <<>>
        <5>1. 1 \in 1..Len(Requests(c))
          BY <1>0, <4>2, LinkTypes, SeqFacts
        <5> QED
          BY <1>6, <1>8, <3>0, <4>2, <5>1 DEF Course
      <4> QED
        BY <4>1, <4>2
    <3>4. \A k \in Clients, d \in Conns : Sock(k)' = d /\ k = h => d = c
      BY <1>6, <1>8
    <3> QED
      BY <1>8, <3>2, <3>3, <3>4, Names DEF Course
  <2> QED
    BY <2>1, <2>2 DEF Courses
<1>13. Rising' /\ First'
  BY <1>2, <1>5, <1>7, PutRises
<1>14. Books'
  BY <1>0, <1>7, BooksAdd
<1> QED
  BY <1>10, <1>11, <1>12, <1>13, <1>14 DEF Lines

\* Suspend and Disconnect: the farewell stays behind on the connection.
LEMMA LinesDisco ==
  ASSUME Base, Base', Orderly, Lines, Books, NEW h \in Clients, Suspend(h) \/ Disconnect(h)
  PROVE  Lines' /\ Books'
<1>0. TypeOK /\ TypeOK' /\ Sockets /\ Queue /\ Unused /\ Talks /\ Wanting
  BY DEF Base
<1>1. PICK req \in Reqs, ok \in BOOLEAN :
        /\ PutRequest(h, req, FALSE, ok) /\ req \in Farewells
        /\ cpc[h] = "ready" /\ cpc'[h] = IF req = "SUSPEND" THEN "suspended" ELSE "idle"
  <2>1. CASE Suspend(h)
    BY <1>0, <2>1, StepFacts DEF Suspend, ReqRemoteDisco, Reqs, Farewells
  <2>2. CASE Disconnect(h)
    BY <1>0, <2>2, StepFacts DEF Disconnect, ReqRemoteDisco, Reqs, Farewells
  <2> QED
    BY <2>1, <2>2
<1>2. /\ UNCHANGED <<listening, backlog, conns, reset, spc, buff, want, done, depth>>
      /\ \A k \in Clients \ {h} : cpc'[k] = cpc[k]
      /\ Disco(h)
  BY <1>0, StepFacts DEF Suspend, Disconnect, ReqRemoteDisco, serverVars
<1>3. Valid(h)
  BY <1>0, <1>1 DEF Sockets
<1>4. PICK c \in Conns, p \in Packet :
              /\ p = [req |-> req, from |-> h, no |-> count[h] + 1, wants |-> FALSE]
              /\ Put1(h, c, p)
  BY <1>0, <1>1, <1>2, <1>3, PutGoes
<1>5. /\ Sock(h) = c /\ \A d \in Conns \ {c} : Same(d)
      /\ Responses(c)' = Responses(c)
      /\ Len(Requests(c)) \in Nat /\ Len(Requests(c)') = Len(Requests(c)) + 1
      /\ \A i \in 1..Len(Requests(c)) : Requests(c)'[i] = Requests(c)[i]
      /\ Requests(c)'[Len(Requests(c)) + 1] = p
  BY <1>4 DEF Put1
<1>6. Adds(h, p)
  <2>1. \/ p.req \notin {"SUSPEND", "RESUME"} /\ h \notin Suspended /\ Suspended' = Suspended
        \/ p.req = "SUSPEND" /\ h \notin Suspended /\ Suspended' = Suspended \cup {h}
    BY <1>1, <1>2, <1>4 DEF Suspended, Farewells
  <2> QED
    BY <1>2, <1>4, <2>1 DEF Adds, Put1
<1>7. /\ Sock(h)' = 0 /\ \A k \in Hosts \ {h} : Sock(k)' = Sock(k)
      /\ \A d \in Conns : Sock(h) # d => gone'[d] = gone[d]
      /\ gone'[c] = gone[c] \cup {"client"}
  BY <1>0, <1>2, <1>5, DiscoFacts, Names
<1>8. /\ \A k \in Clients, d \in Conns : Sock(k)' = d => Sock(k) = d /\ k # h /\ d # c
      /\ \A d \in Conns : (InQueue(d)' <=> InQueue(d)) /\ (d # c => (Held(d)' <=> Held(d)))
      /\ Sock("server")' = Sock("server")
      /\ Held(c) /\ ~Held(c)' /\ Requests(c)' # <<>> /\ Talk(h, c)
      /\ "server" \notin gone[c] /\ "server" \notin gone'[c]
  <2>1. \A k \in Clients, d \in Conns : Sock(k)' = d => Sock(k) = d /\ k # h /\ d # c
    BY <1>0, <1>3, <1>5, <1>7, Names DEF Sockets
  <2>2. \A d \in Conns : InQueue(d)' <=> InQueue(d)
    BY <1>2 DEF InQueue
  <2>3. \A d \in Conns : d # c => (Held(d)' <=> Held(d))
    BY <1>5, <1>7, <2>1, Names DEF Held
  <2>4. Held(c) /\ ~Held(c)'
    BY <1>5, <2>1 DEF Held
  <2>5. Len(<<>>) = 0
    OBVIOUS
  <2>6. "server" \notin gone[c]
    BY <1>1, <1>5 DEF Lines, Open, Refusing
  <2> QED
    BY <1>0, <1>5, <1>7, <2>1, <2>2, <2>3, <2>4, <2>5, <2>6, Names DEF Talks
<1>9. Stays(c)' /\ Requests(c)'[Len(Requests(c)')].req \in Farewells
  <2>1. Requests(c)'[Len(Requests(c)')].req \in Farewells
    BY <1>1, <1>4, <1>5
  <2> QED
    BY <1>8, <2>1 DEF Stays
<1>10. Open'
  <2>1. ASSUME NEW k \in Clients, NEW d \in Conns, Sock(k)' = d
        PROVE  /\ "server" \in gone'[d] => Refusing(k, d)'
               /\ InQueue(d)' /\ Requests(d)' = <<>> => cpc'[k] \in {"hello", "resuming"}
    <3>1. Sock(k) = d /\ k # h /\ d # c /\ Same(d) /\ gone'[d] = gone[d]
      BY <1>5, <1>7, <1>8, <2>1
    <3> QED
      BY <1>2, <1>8, <3>1 DEF Lines, Open, Refusing, Same
  <2>2. \A k \in Clients : cpc'[k] # "failed"
    BY <1>1, <1>2 DEF Lines, Open
  <2>3. ASSUME NEW d \in Conns, d <= conns'
        PROVE  InQueue(d)' \/ d = Sock("server")' \/ ("server" \in gone'[d] /\ Requests(d)' = <<>>)
    <3>1. CASE d = c
      BY <1>2, <1>8, <2>3, <3>1 DEF Lines, Open
    <3>2. CASE d # c
      BY <1>2, <1>5, <1>7, <1>8, <2>3, <3>2 DEF Lines, Open, Same
    <3> QED
      BY <3>1, <3>2
  <2>4. ASSUME NEW d \in Conns, InQueue(d)' PROVE Stays(d)'
    <3>1. CASE d # c
      <4>1. Stays(d) /\ Same(d)
        BY <1>5, <1>8, <2>4, <3>1 DEF Lines, Open
      <4> QED
        BY <1>8, <3>1, <4>1 DEF Stays, Same
    <3> QED
      BY <1>9, <3>1
  <2> QED
    BY <1>2, <2>1, <2>2, <2>3, <2>4 DEF Lines, Open
<1>11. Served'
  <2>1. ASSUME NEW d \in Conns, Sock("server")' = d
        PROVE  Serves(d)'
    <3>0. Serves(d)
      BY <1>8, <2>1 DEF Lines, Served
    <3>1. CASE d = c
      <4>1. spc # "over"
        BY <1>1, <1>5, <3>0, <3>1 DEF Serves, Refusing
      <4>2. spc = "perform" => buff.req \notin Farewells /\ ~buff.wants
        <5>1. spc = "perform" => buff.req \notin Farewells
          BY <1>8, <3>0, <3>1 DEF Serves
        <5>2. spc = "perform" => ~want /\ want = buff.wants
          BY <1>1, <1>8, <2>1, <3>1 DEF Talk, PerformedOf, Awaits
        <5> QED
          BY <5>1, <5>2
      <4>3. \A k \in Clients : Sock(k)' # c
        BY <1>8
      <4> QED
        BY <1>2, <1>9, <3>1, <4>1, <4>2, <4>3 DEF Serves
    <3>2. CASE d # c
      BY <1>2, <1>5, <1>8, <3>0, <3>2, ServesStays
    <3> QED
      BY <3>1, <3>2
  <2> QED
    BY <1>2, <2>1 DEF Lines, Served
<1>12. Courses'
  <2>1. ASSUME NEW d \in Conns, d # c PROVE Course(d)'
    <3>1. Same(d) /\ Course(d) /\ (Held(d)' <=> Held(d)) /\ (InQueue(d)' => InQueue(d))
      BY <1>5, <1>8, <2>1 DEF Lines, Courses
    <3> QED
      BY <1>2, <1>8, <3>1, CourseStays DEF Same
  <2>2. Course(c)'
    <3>0. Course(c)
      BY DEF Lines, Courses
    <3>1. /\ \A i \in 1..Len(Requests(c)) :
               /\ Requests(c)[i].from = h
               /\ Requests(c)[i].req \notin Farewells
               /\ ~Requests(c)[i].wants
          /\ Requests(c)'[1].from = h /\ p.from = h /\ p.req = req /\ p.wants = FALSE
      <4>1. \A i \in 1..Len(Requests(c)) : Requests(c)[i].from = h
        BY <1>8 DEF Talk, RequestsOf
      <4>2. Requests(c)'[1].from = h /\ p.from = h /\ p.req = req /\ p.wants = FALSE
        BY <1>4, <1>5, <4>1
      <4>3. \A i \in 1..Len(Requests(c)) : Requests(c)[i].req \notin Farewells
        BY <1>8, <3>0 DEF Course
      <4>4. reset = {}
        BY DEF Lines, Open
      <4>5. \A i \in 1..Len(Requests(c)) : ~Requests(c)[i].wants
        BY <1>1, <1>8, <4>4 DEF Talk, RequestsOf, Awaits
      <4> QED
        BY <4>1, <4>2, <4>3, <4>5
    <3>2. ASSUME NEW i \in 1..Len(Requests(c)')
          PROVE  /\ Requests(c)'[i].from = Requests(c)'[1].from
                 /\ Requests(c)'[i].req \in Farewells => i = Len(Requests(c)')
                 /\ ~Requests(c)'[i].wants
                 /\ Requests(c)'[i].from = h
      <4>1. CASE i \in 1..Len(Requests(c))
        BY <1>5, <3>1, <4>1
      <4>2. CASE i = Len(Requests(c)) + 1
        BY <1>5, <3>1, <4>2
      <4> QED
        BY <1>5, <3>2, <4>1, <4>2
    <3>3. InQueue(c)' => Requests(c)'[1].req \in Greetings \cup {"RESUME"}
      <4>1. InQueue(c) => Requests(c) # <<>>
        BY <1>1, <1>5 DEF Lines, Open
      <4>2. Requests(c) # <<>> => 1 \in 1..Len(Requests(c))
        BY <1>0, LinkTypes, SeqFacts
      <4> QED
        BY <1>5, <1>8, <3>0, <4>1, <4>2 DEF Course
    <3>4. \A k \in Clients, d \in Conns : Sock(k)' = d => k # h
      BY <1>8
    <3>5. \A k \in Clients : Sock(k)' # c
      BY <1>8
    <3> QED
      BY <1>8, <3>2, <3>3, <3>4, <3>5 DEF Course
  <2> QED
    BY <2>1, <2>2 DEF Courses
<1>13. Rising' /\ First'
  BY <1>2, <1>4, <1>6, PutRises
<1>14. Books'
  BY <1>0, <1>6, BooksAdd
<1> QED
  BY <1>10, <1>11, <1>12, <1>13, <1>14 DEF Lines

\* A response is read, and not the refusal.
LEMMA LinesRead ==
  ASSUME Base, Base', Orderly, Lines, Books, NEW h \in Clients, Connected(h) \/ Responded(h)
  PROVE  Lines' /\ Books'
<1>0. TypeOK /\ TypeOK' /\ Sockets /\ Queue /\ Unused /\ Talks /\ Wanting
  BY DEF Base
<1>1. /\ UNCHANGED <<listening, backlog, data_socket, conns, gone, reset, spc, buff, want, count, done, depth>>
      /\ \A k \in Clients \ {h} : cpc'[k] = cpc[k]
      /\ cpc[h] \in {"connecting", "waiting"} /\ cpc'[h] = "ready"
      /\ cpc[h] = "connecting" => ~Arrived(h).err
  BY <1>0, StepFacts DEF Connected, Responded, Get, serverVars
<1>2. PICK c \in Conns :
           /\ c = Sock(h) /\ InboxOK' /\ Responses(c) # <<>> /\ Unread(h) = Responses(c)
           /\ \A d \in Conns \ {c} : Same(d)
           /\ Requests(c)' = Requests(c) /\ Responses(c)' = Tail(Responses(c))
  BY <1>0, Names, ResponseTaken DEF Connected, Responded, Get
<1>3. /\ Requests(c) = <<>> /\ ~InQueue(c) /\ (Sock("server") = c => spc # "perform")
      /\ Responses(c)' = <<>>
  <2>1. /\ Requests(c) = <<>> /\ Len(Responses(c)) = 1
        /\ (Sock("server") = c => spc # "perform")
    BY <1>0, <1>2 DEF Talks, Talk, ResponseOf
  <2>2. ~InQueue(c)
    BY <1>0, <1>2 DEF Queue
  <2> QED
    BY <1>0, <1>2, <2>1, <2>2, LinkTypes, LastTaken
<1>4. ~Refusing(h, c)
  <2>1. Arrived(h) = Responses(c)[1]
    BY <1>0, <1>2, LinkTypes, TailFacts DEF Arrived
  <2> QED
    BY <1>1, <2>1 DEF Refusing
<1>5. /\ \A k : Sock(k)' = Sock(k)
      /\ \A d \in Conns : (InQueue(d)' <=> InQueue(d)) /\ (Held(d)' <=> Held(d))
      /\ \A k \in Clients : Sock(k) = c => k = h
  BY <1>0, <1>1, <1>2, Names DEF Sock, InQueue, Held, Sockets, Valid, INVALID_SOCKET
<1>6. Open'
  <2>1. ASSUME NEW k \in Clients, NEW d \in Conns, Sock(k)' = d
        PROVE  /\ "server" \in gone'[d] => Refusing(k, d)'
               /\ InQueue(d)' /\ Requests(d)' = <<>> => cpc'[k] \in {"hello", "resuming"}
    <3>1. CASE d = c
      BY <1>1, <1>2, <1>3, <1>4, <1>5, <3>1 DEF Lines, Open
    <3>2. CASE d # c
      BY <1>1, <1>2, <1>5, <2>1, <3>2 DEF Lines, Open, Refusing, Same
    <3> QED
      BY <3>1, <3>2
  <2>2. \A k \in Clients : cpc'[k] # "failed"
    BY <1>1 DEF Lines, Open
  <2>3. \A d \in Conns : Requests(d)' = Requests(d)
    BY <1>2 DEF Same
  <2>4. \A d \in Conns : Stays(d)' <=> Stays(d)
    BY <1>5, <2>3 DEF Stays
  <2>5. \A d \in Conns : d <= conns' =>
          InQueue(d)' \/ d = Sock("server")' \/ ("server" \in gone'[d] /\ Requests(d)' = <<>>)
    BY <1>1, <1>5, <2>3 DEF Lines, Open
  <2> QED
    BY <1>1, <1>5, <2>1, <2>2, <2>4, <2>5 DEF Lines, Open
<1>7. Served'
  <2>1. ASSUME NEW d \in Conns, Sock("server")' = d
        PROVE  Serves(d)'
    <3>0. Serves(d)
      BY <1>5, <2>1 DEF Lines, Served
    <3>1. CASE d = c
      <4>1. spc # "over" /\ spc # "perform"
        BY <1>2, <1>3, <1>4, <1>5, <2>1, <3>0, <3>1 DEF Serves
      <4> QED
        BY <1>1, <1>2, <1>3, <1>5, <3>0, <3>1, <4>1 DEF Serves, Stays, Refusing
    <3>2. CASE d # c
      BY <1>1, <1>2, <1>5, <3>0, <3>2, ServesStays
    <3> QED
      BY <3>1, <3>2
  <2> QED
    BY <1>1, <2>1 DEF Lines, Served
<1>8. Courses'
  <2>1. ASSUME NEW d \in Conns PROVE Course(d)'
    <3>1. CASE d = c
      BY <1>2, <1>3, <3>1, CourseEmpty
    <3>2. CASE d # c
      <4>1. \A k \in Clients : Sock(k)' = d => Sock(k) = d /\ cpc'[k] = cpc[k]
        BY <1>1, <1>2, <1>5, <3>2
      <4> QED
        BY <1>2, <1>5, <3>2, <4>1, CourseStays DEF Lines, Courses, Same
    <3> QED
      BY <3>1, <3>2
  <2> QED
    BY <2>1 DEF Courses
<1>9. Rising' /\ First'
  BY <1>1, <1>2, RequestsSame DEF Lines, Same
<1>10. Books'
  <2>1. Suspended' = Suspended
    BY <1>1 DEF Suspended
  <2> QED
    BY <1>0, <1>1, <1>2, <2>1, UnperformedSame, BooksSame DEF Same
<1> QED
  BY <1>6, <1>7, <1>8, <1>9, <1>10 DEF Lines

\* The client that is refused closes a connection that nothing is on.
LEMMA LinesRefused ==
  ASSUME Base, Base', Orderly, Lines, Books, NEW h \in Clients, Refused(h)
  PROVE  Lines' /\ Books'
<1>0. TypeOK /\ TypeOK' /\ Sockets /\ Queue /\ Unused /\ Talks /\ Wanting
  BY DEF Base
<1>1. /\ UNCHANGED <<listening, backlog, conns, reset, spc, buff, want, count, done, depth>>
      /\ \A k \in Clients \ {h} : cpc'[k] = cpc[k]
      /\ cpc[h] = "connecting" /\ cpc'[h] = "quit" /\ Disco(h) /\ Arrived(h).err
  BY <1>0, StepFacts DEF Refused, serverVars
<1>2. PICK c \in Conns :
           /\ c = Sock(h) /\ InboxOK' /\ Responses(c) # <<>> /\ Unread(h) = Responses(c)
           /\ \A d \in Conns \ {c} : Same(d)
           /\ Requests(c)' = Requests(c) /\ Responses(c)' = Tail(Responses(c))
  BY <1>0, ResponseTaken DEF Refused
<1>3. /\ Requests(c) = <<>> /\ ~InQueue(c) /\ (Sock("server") = c => spc # "perform")
  <2>1. /\ Requests(c) = <<>> /\ (Sock("server") = c => spc # "perform")
    BY <1>0, <1>2 DEF Talks, Talk, ResponseOf
  <2>2. ~InQueue(c)
    BY <1>0, <1>2 DEF Queue
  <2> QED
    BY <2>1, <2>2
<1>4. Refusing(h, c)
  <2>1. Arrived(h) = Responses(c)[1]
    BY <1>0, <1>2, LinkTypes, TailFacts DEF Arrived
  <2> QED
    BY <1>1, <1>2, <2>1 DEF Refusing
<1>5. /\ Sock(h)' = 0 /\ \A k \in Hosts \ {h} : Sock(k)' = Sock(k)
      /\ \A d \in Conns : Sock(h) # d => gone'[d] = gone[d]
      /\ gone'[c] = gone[c] \cup {"client"}
  BY <1>0, <1>1, <1>2, DiscoFacts, Names
<1>6. /\ \A k \in Clients, d \in Conns : Sock(k)' = d => Sock(k) = d /\ k # h /\ d # c
      /\ \A d \in Conns : (InQueue(d)' <=> InQueue(d)) /\ (d # c => (Held(d)' <=> Held(d)))
      /\ Sock("server")' = Sock("server")
  <2>1. \A k \in Clients, d \in Conns : Sock(k)' = d => Sock(k) = d /\ k # h /\ d # c
    BY <1>0, <1>2, <1>5, Names DEF Sockets, Valid, INVALID_SOCKET
  <2>2. \A d \in Conns : InQueue(d)' <=> InQueue(d)
    BY <1>1 DEF InQueue
  <2>3. \A d \in Conns : d # c => (Held(d)' <=> Held(d))
    BY <1>2, <1>5, <2>1, Names DEF Held
  <2> QED
    BY <1>5, <2>1, <2>2, <2>3, Names
<1>7. Open'
  <2>1. ASSUME NEW k \in Clients, NEW d \in Conns, Sock(k)' = d
        PROVE  /\ "server" \in gone'[d] => Refusing(k, d)'
               /\ InQueue(d)' /\ Requests(d)' = <<>> => cpc'[k] \in {"hello", "resuming"}
    <3>1. Sock(k) = d /\ k # h /\ d # c /\ Same(d) /\ gone'[d] = gone[d]
      BY <1>2, <1>5, <1>6, <2>1
    <3> QED
      BY <1>1, <1>6, <3>1 DEF Lines, Open, Refusing, Same
  <2>2. \A k \in Clients : cpc'[k] # "failed"
    BY <1>1 DEF Lines, Open
  <2>3. ASSUME NEW d \in Conns, d <= conns'
        PROVE  InQueue(d)' \/ d = Sock("server")' \/ ("server" \in gone'[d] /\ Requests(d)' = <<>>)
    BY <1>1, <1>2, <1>5, <1>6, <2>3 DEF Lines, Open, Same
  <2>4. ASSUME NEW d \in Conns, InQueue(d)' PROVE Stays(d)'
    <3>1. d # c /\ Stays(d) /\ Same(d)
      BY <1>2, <1>3, <1>6, <2>4 DEF Lines, Open
    <3> QED
      BY <1>6, <3>1 DEF Stays, Same
  <2> QED
    BY <1>1, <2>1, <2>2, <2>3, <2>4 DEF Lines, Open
<1>8. Served'
  <2>1. ASSUME NEW d \in Conns, Sock("server")' = d
        PROVE  Serves(d)'
    <3>0. Serves(d)
      BY <1>6, <2>1 DEF Lines, Served
    <3>1. CASE d = c
      <4>1. spc # "get" /\ spc # "perform"
        BY <1>2, <1>3, <1>4, <1>6, <2>1, <3>0, <3>1 DEF Serves
      <4> QED
        BY <1>1, <1>2, <1>3, <1>6, <3>1, <4>1 DEF Serves
    <3>2. CASE d # c
      BY <1>1, <1>2, <1>6, <3>0, <3>2, ServesStays
    <3> QED
      BY <3>1, <3>2
  <2> QED
    BY <1>1, <2>1 DEF Lines, Served
<1>9. Courses'
  <2>1. ASSUME NEW d \in Conns PROVE Course(d)'
    <3>1. CASE d = c
      BY <1>2, <1>3, <3>1, CourseEmpty
    <3>2. CASE d # c
      <4>1. \A k \in Clients : Sock(k)' = d => Sock(k) = d /\ cpc'[k] = cpc[k]
        BY <1>1, <1>6
      <4> QED
        BY <1>2, <1>6, <3>2, <4>1, CourseStays DEF Lines, Courses, Same
    <3> QED
      BY <3>1, <3>2
  <2> QED
    BY <2>1 DEF Courses
<1>10. Rising' /\ First'
  BY <1>1, <1>2, RequestsSame DEF Lines, Same
<1>11. Books'
  <2>1. Suspended' = Suspended
    BY <1>1 DEF Suspended
  <2> QED
    BY <1>0, <1>1, <1>2, <2>1, UnperformedSame, BooksSame DEF Same
<1> QED
  BY <1>7, <1>8, <1>9, <1>10, <1>11 DEF Lines

\* While no client vanishes no call fails.
LEMMA NothingFails ==
  ASSUME Base, Lines, Orderly, NEW h \in Clients
  PROVE  ~NotResponded(h) /\ ~TrapFailed(h) /\ ~Vanish(h)
<1>1. ~NotResponded(h)
  <2>1. ASSUME NotResponded(h) PROVE FALSE
    <3>1. cpc[h] \in {"connecting", "waiting"} /\ reset = {}
      BY <2>1 DEF NotResponded, Lines, Open
    <3>2. Valid(h)
      BY <3>1 DEF Base, Sockets
    <3> QED
      BY <2>1, <3>1, <3>2, Names DEF NotResponded, GetFails
  <2> QED
    BY <2>1
<1>2. ~TrapFailed(h)
  BY DEF TrapFailed, Step, Lines, Open
<1>3. ~Vanish(h)
  BY DEF Vanish, Orderly
<1> QED
  BY <1>1, <1>2, <1>3

\* The server or a client moves on, and no packet and no connection does.
LEMMA LinesMove ==
  ASSUME Base, Base', Orderly, Lines, Books,
         \/ Poll \/ PollTimeOut \/ NoKey \/ PressQ \/ UNCHANGED vars
         \/ \E h \in Clients : CannotConnect(h)
  PROVE  Lines' /\ Books'
<1>0. TypeOK /\ TypeOK' /\ Sockets
  BY DEF Base
<1>1. /\ UNCHANGED <<count, listening, backlog, data_socket, conns, gone, reset, inbox, buff, done, depth>>
      /\ \/ UNCHANGED <<spc, cpc>>
         \/ /\ UNCHANGED cpc /\ spc \in {"poll", "accept", "keys"} /\ spc' \in {"poll", "accept", "keys"}
            /\ spc' = "keys" => depth = 0
         \/ /\ UNCHANGED spc
            /\ \E h \in Clients : /\ cpc[h] = "idle" /\ cpc'[h] = "quit"
                                  /\ \A k \in Clients \ {h} : cpc'[k] = cpc[k]
  <2>1. CASE \E h \in Clients : CannotConnect(h)
    BY <1>0, <2>1, StepFacts DEF CannotConnect, linkVars, serverVars
  <2> QED
    BY <2>1 DEF Poll, PollTimeOut, NoKey, PressQ, vars, linkVars, clientVars, serverVars, Goto
<1>2. AllSame
  BY <1>0, <1>1, LinkTypes, NothingMoves
<1>3. /\ \A k : Sock(k)' = Sock(k)
      /\ \A d \in Conns : (InQueue(d)' <=> InQueue(d)) /\ (Held(d)' <=> Held(d))
  BY <1>1 DEF Sock, InQueue, Held
<1>4. \A k \in Clients, d \in Conns : Sock(k) = d => cpc'[k] = cpc[k]
  BY <1>0, <1>1, Names DEF Sockets, Valid, INVALID_SOCKET
<1>5. Open'
  <2>1. ASSUME NEW k \in Clients, NEW d \in Conns, Sock(k)' = d
        PROVE  /\ "server" \in gone'[d] => Refusing(k, d)'
               /\ InQueue(d)' /\ Requests(d)' = <<>> => cpc'[k] \in {"hello", "resuming"}
    BY <1>1, <1>2, <1>3, <1>4, <2>1 DEF Lines, Open, Refusing, AllSame, Same
  <2>2. \A k \in Clients : cpc'[k] # "failed"
    BY <1>1 DEF Lines, Open
  <2>3. \A d \in Conns : Stays(d)' <=> Stays(d)
    BY <1>2, <1>3 DEF Stays, AllSame, Same
  <2>4. \A d \in Conns : d <= conns' =>
          InQueue(d)' \/ d = Sock("server")' \/ ("server" \in gone'[d] /\ Requests(d)' = <<>>)
    BY <1>1, <1>2, <1>3 DEF Lines, Open, AllSame, Same
  <2> QED
    BY <1>1, <1>3, <2>1, <2>2, <2>3, <2>4 DEF Lines, Open
<1>6. Served'
  <2>1. ASSUME NEW d \in Conns, Sock("server")' = d
        PROVE  Serves(d)'
    <3>1. Serves(d) /\ Same(d) /\ spc' = spc
      BY <1>0, <1>1, <1>2, <1>3, <2>1, Names DEF Lines, Served, AllSame, Sockets, Valid, INVALID_SOCKET
    <3> QED
      BY <1>1, <1>3, <1>4, <3>1, ServesStays
  <2> QED
    BY <1>1, <2>1 DEF Lines, Served
<1>7. Courses'
  BY <1>1, <1>2, <1>3, <1>4, CourseStays DEF Lines, Courses, AllSame, Same
<1>8. Rising' /\ First'
  BY <1>1, <1>2, RequestsSame DEF Lines, AllSame, Same
<1>9. Books'
  <2>1. Suspended' = Suspended
    BY <1>1 DEF Suspended
  <2> QED
    BY <1>0, <1>1, <1>2, <2>1, UnperformedSame, BooksSame DEF AllSame, Same
<1> QED
  BY <1>5, <1>6, <1>7, <1>8, <1>9 DEF Lines

\* accept(): the oldest connection of the queue becomes the server's.
LEMMA LinesAccept ==
  ASSUME Base, Base', Orderly, Lines, Books, AcceptClient
  PROVE  Lines' /\ Books'
<1>0. TypeOK /\ TypeOK' /\ Sockets /\ Queue
  BY DEF Base
<1>1. /\ Len(backlog) \in Nat \ {0} /\ DOMAIN backlog = 1..Len(backlog)
      /\ DOMAIN backlog' = 1..(Len(backlog) - 1)
      /\ \A i \in 1..(Len(backlog) - 1) : backlog'[i] = backlog[i + 1] /\ i + 1 \in 1..Len(backlog)
      /\ backlog[1] = Head(backlog) /\ Head(backlog) \in Conns
  <2>1. backlog \in Seq(Conns) /\ backlog # <<>> /\ backlog' = Tail(backlog)
    BY <1>0, LinkTypes DEF AcceptClient, Accept
  <2> QED
    BY <2>1, TailFacts, SeqFacts
<1>2. PICK c \in Conns : c = Head(backlog)
  BY <1>1
<1>3. /\ Sock("server")' = c /\ \A k \in Clients : Sock(k)' = Sock(k)
      /\ AllSame /\ spc' = "get" /\ spc \in {"poll", "accept"}
      /\ UNCHANGED <<cpc, count, listening, conns, gone, reset, buff, done, depth>>
  BY <1>0, <1>2, LinkTypes, NothingMoves DEF AcceptClient, Accept, Goto, Sock, clientVars
<1>4. /\ InQueue(c) /\ Responses(c) = <<>>
      /\ \A d \in Conns : Sock("server") # d
  BY <1>0, <1>1, <1>2, <1>3, Names DEF Queue, InQueue, Sockets, Valid, INVALID_SOCKET
<1>5. /\ \A d \in Conns : InQueue(d)' => InQueue(d)
      /\ \A d \in Conns : InQueue(d) => InQueue(d)' \/ d = c
      /\ \A d \in Conns : Held(d)' <=> Held(d)
  <2>1. \A d \in Conns : InQueue(d)' => InQueue(d)
    BY <1>1 DEF InQueue
  <2>2. ASSUME NEW d \in Conns, InQueue(d), d # c PROVE InQueue(d)'
    <3>1. PICK i \in 1..Len(backlog) : backlog[i] = d
      BY <1>1, <2>2 DEF InQueue
    <3>2. i # 1 /\ i - 1 \in 1..(Len(backlog) - 1) /\ (i - 1) + 1 = i
      BY <1>1, <1>2, <2>2, <3>1
    <3>3. backlog'[i - 1] = d
      BY <1>1, <3>1, <3>2
    <3> QED
      BY <1>1, <3>2, <3>3 DEF InQueue
  <2>3. \A d \in Conns : Held(d)' <=> Held(d)
    BY <1>3 DEF Held
  <2> QED
    BY <2>1, <2>2, <2>3
<1>6. \A d \in Conns : Stays(d)' <=> Stays(d)
  BY <1>3, <1>5 DEF Stays, AllSame, Same
<1>7. Open'
  <2>1. ASSUME NEW k \in Clients, NEW d \in Conns, Sock(k)' = d
        PROVE  /\ "server" \in gone'[d] => Refusing(k, d)'
               /\ InQueue(d)' /\ Requests(d)' = <<>> => cpc'[k] \in {"hello", "resuming"}
    BY <1>3, <1>5, <2>1 DEF Lines, Open, Refusing, AllSame, Same
  <2>2. ASSUME NEW d \in Conns, d <= conns'
        PROVE  InQueue(d)' \/ d = Sock("server")' \/ ("server" \in gone'[d] /\ Requests(d)' = <<>>)
    BY <1>3, <1>4, <1>5, <2>2 DEF Lines, Open, AllSame, Same
  <2> QED
    BY <1>3, <1>5, <1>6, <2>1, <2>2 DEF Lines, Open
<1>8. Served'
  <2>1. Serves(c)'
    <3>1. Stays(c)'
      BY <1>4, <1>6 DEF Lines, Open
    <3>2. \A h \in Clients : ~Refusing(h, c)'
      BY <1>3, <1>4 DEF Refusing, AllSame, Same
    <3> QED
      BY <1>3, <3>1, <3>2 DEF Serves
  <2> QED
    BY <1>3, <2>1 DEF Served
<1>9. Courses'
  BY <1>3, <1>5, CourseStays DEF Lines, Courses, AllSame, Same
<1>10. Rising' /\ First'
  BY <1>3, RequestsSame DEF Lines, AllSame, Same
<1>11. Books'
  <2>1. Suspended' = Suspended
    BY <1>3 DEF Suspended
  <2> QED
    BY <1>0, <1>3, <2>1, UnperformedSame, BooksSame DEF AllSame, Same
<1> QED
  BY <1>7, <1>8, <1>9, <1>10, <1>11 DEF Lines

\* GetPacket: the first request of the server's connection is performed next.
LEMMA LinesGet ==
  ASSUME Base, Base', Orderly, Lines, Books, GetPacket
  PROVE  Lines' /\ Books'
<1>0. TypeOK /\ TypeOK' /\ Sockets /\ Queue /\ Talks
  BY DEF Base
<1>1. /\ UNCHANGED <<cpc, count, listening, backlog, data_socket, conns, gone, reset, done, depth>>
      /\ spc = "get" /\ spc' = "perform"
  BY DEF GetPacket, Get, Goto, clientVars
<1>2. PICK c \in Conns :
           /\ c = Sock("server") /\ InboxOK' /\ Requests(c) # <<>>
           /\ Unread("server") = Requests(c)
           /\ \A d \in Conns \ {c} : Same(d)
           /\ Responses(c)' = Responses(c) /\ Requests(c)' = Tail(Requests(c))
  BY <1>0, RequestTaken DEF GetPacket
<1>3. /\ Len(Requests(c)) \in Nat \ {0} /\ Len(Requests(c)') = Len(Requests(c)) - 1
      /\ \A i \in 1..(Len(Requests(c)) - 1) :
           Requests(c)'[i] = Requests(c)[i + 1] /\ i + 1 \in 1..Len(Requests(c))
      /\ buff' = Requests(c)[1] /\ 1 \in 1..Len(Requests(c))
      /\ (Requests(c)' = <<>> <=> Len(Requests(c)) = 1)
  <2>0. Requests(c) \in Seq(Packet) /\ Requests(c) # <<>>
    BY <1>0, <1>2, LinkTypes
  <2>1. Requests(c)' \in Seq(Packet)
    BY <1>2, <2>0, TailFacts
  <2>2. Requests(c)' = <<>> <=> Len(Requests(c)') = 0
    BY <2>1, SeqFacts
  <2>3. /\ Len(Requests(c)) \in Nat \ {0} /\ Len(Requests(c)') = Len(Requests(c)) - 1
        /\ \A i \in 1..(Len(Requests(c)) - 1) :
             Requests(c)'[i] = Requests(c)[i + 1] /\ i + 1 \in 1..Len(Requests(c))
        /\ buff' = Requests(c)[1]
    BY <1>2, <2>0, TailFacts DEF GetPacket, Arrived
  <2> QED
    BY <2>2, <2>3
<1>4. /\ \A k : Sock(k)' = Sock(k)
      /\ \A d \in Conns : (InQueue(d)' <=> InQueue(d)) /\ (Held(d)' <=> Held(d))
      /\ ~InQueue(c)
  <2>1. ~InQueue(c)
    BY <1>0, <1>2, Names DEF Queue
  <2> QED
    BY <1>1, <2>1 DEF Sock, InQueue, Held
<1>5. Serves(c) /\ Course(c)
  BY <1>2 DEF Lines, Served, Courses
<1>6. Open'
  <2>1. ASSUME NEW k \in Clients, NEW d \in Conns, Sock(k)' = d
        PROVE  /\ "server" \in gone'[d] => Refusing(k, d)'
               /\ InQueue(d)' /\ Requests(d)' = <<>> => cpc'[k] \in {"hello", "resuming"}
    BY <1>1, <1>2, <1>4, <2>1 DEF Lines, Open, Refusing, Same
  <2>2. ASSUME NEW d \in Conns, d <= conns'
        PROVE  InQueue(d)' \/ d = Sock("server")' \/ ("server" \in gone'[d] /\ Requests(d)' = <<>>)
    BY <1>1, <1>2, <1>4, <2>2 DEF Lines, Open, Same
  <2>3. ASSUME NEW d \in Conns, InQueue(d)' PROVE Stays(d)'
    <3>1. d # c /\ Stays(d) /\ Same(d)
      BY <1>2, <1>4, <2>3 DEF Lines, Open
    <3> QED
      BY <1>4, <3>1 DEF Stays, Same
  <2> QED
    BY <1>1, <2>1, <2>2, <2>3 DEF Lines, Open
<1>7. Served'
  <2>1. ASSUME buff'.req \in Farewells PROVE Requests(c)' = <<>> /\ ~Held(c)'
    BY <1>3, <1>4, <1>5, <2>1 DEF Course
  <2>2. ASSUME buff'.req \notin Farewells PROVE Stays(c)'
    <3>1. CASE Held(c)
      BY <1>4, <3>1 DEF Stays
    <3>2. CASE ~Held(c)
      <4>1. Requests(c)[Len(Requests(c))].req \in Farewells
        BY <1>1, <1>5, <3>2 DEF Serves, Stays
      <4>2. Len(Requests(c)) # 1
        BY <1>3, <2>2, <4>1
      <4>3. Requests(c)'[Len(Requests(c)')] = Requests(c)[Len(Requests(c))]
        <5>1. Len(Requests(c)') \in 1..(Len(Requests(c)) - 1) /\ Len(Requests(c)') + 1 = Len(Requests(c))
          BY <1>3, <4>2
        <5> QED
          BY <1>3, <5>1
      <4> QED
        BY <1>3, <4>1, <4>2, <4>3 DEF Stays
    <3> QED
      BY <3>1, <3>2
  <2>3. buff'.wants => Held(c)'
    BY <1>3, <1>4, <1>5 DEF Course
  <2>4. buff'.req \in Greetings => \A h \in Clients : Sock(h)' = c => cpc'[h] = "connecting"
    BY <1>1, <1>3, <1>4, <1>5 DEF Course
  <2>5. Serves(c)'
    BY <1>1, <2>1, <2>2, <2>3, <2>4 DEF Serves
  <2> QED
    BY <1>1, <1>2, <1>4, <2>5 DEF Served
<1>8. Courses'
  <2>1. ASSUME NEW d \in Conns, d # c PROVE Course(d)'
    BY <1>1, <1>2, <1>4, <2>1, CourseStays DEF Lines, Courses, Same
  <2>2. ASSUME NEW i \in 1..Len(Requests(c)')
        PROVE  /\ Requests(c)'[i].from = Requests(c)'[1].from
               /\ Requests(c)'[i].req \in Farewells =>
                    i = Len(Requests(c)') /\ ~Held(c)' /\ ~Requests(c)'[i].wants
               /\ Requests(c)'[i].req \in Greetings =>
                    \A h \in Clients : Sock(h)' = c => cpc'[h] = "connecting"
               /\ Requests(c)'[i].req = "RESUME" => ~Requests(c)'[i].wants
               /\ Requests(c)'[i].wants => Held(c)'
               /\ \A h \in Clients, d \in Conns : Sock(h)' = d /\ Requests(c)'[i].from = h => c <= d
    <3>1. /\ Requests(c)'[i] = Requests(c)[i + 1] /\ i + 1 \in 1..Len(Requests(c))
          /\ Requests(c)'[1] = Requests(c)[2] /\ 2 \in 1..Len(Requests(c))
          /\ i + 1 = Len(Requests(c)) => i = Len(Requests(c)')
      <4>1. i \in 1..(Len(Requests(c)) - 1) /\ 1 \in 1..(Len(Requests(c)) - 1) /\ 1 + 1 = 2
        BY <1>3, <2>2
      <4>2. Requests(c)'[1] = Requests(c)[2] /\ 2 \in 1..Len(Requests(c))
        BY <1>3, <4>1
      <4> QED
        BY <1>3, <4>1, <4>2
    <3> QED
      BY <1>1, <1>4, <1>5, <3>1 DEF Course
  <2>3. Course(c)'
    BY <1>4, <2>2 DEF Course
  <2> QED
    BY <2>1, <2>3 DEF Courses
<1>9. \A d \in Conns : \A i \in 1..Len(Requests(d)') :
        \/ d # c /\ i \in 1..Len(Requests(d)) /\ Requests(d)'[i] = Requests(d)[i]
        \/ d = c /\ i + 1 \in 1..Len(Requests(c)) /\ i \in Nat \ {0} /\ Requests(d)'[i] = Requests(c)[i + 1]
  <2>1. \A d \in Conns : d # c => Requests(d)' = Requests(d)
    BY <1>2 DEF Same
  <2> QED
    BY <1>3, <2>1
<1>10. Rising'
  <2>1. ASSUME NEW d \in Conns, NEW e \in Conns, NEW i \in 1..Len(Requests(d)'), NEW j \in 1..Len(Requests(e)'),
               Requests(d)'[i].from = Requests(e)'[j].from, Before(d, i, e, j)
        PROVE  Requests(d)'[i].no < Requests(e)'[j].no
    <3>1. PICK m \in 1..Len(Requests(d)) : Requests(d)'[i] = Requests(d)[m] /\ m = IF d = c THEN i + 1 ELSE i
      BY <1>9
    <3>2. PICK n \in 1..Len(Requests(e)) : Requests(e)'[j] = Requests(e)[n] /\ n = IF e = c THEN j + 1 ELSE j
      BY <1>9
    <3>3. i \in Nat /\ j \in Nat
      BY <1>9, <1>3
    <3>4. Before(d, m, e, n)
      BY <2>1, <3>1, <3>2, <3>3, Names DEF Before
    <3> QED
      BY <2>1, <3>1, <3>2, <3>4 DEF Lines, Rising
  <2> QED
    BY <2>1 DEF Rising, Before
<1>11. First'
  <2>1. ASSUME NEW d \in Conns, NEW i \in 1..Len(Requests(d)'), Requests(d)'[i].from = buff'.from
        PROVE  buff'.no < Requests(d)'[i].no
    <3>1. CASE d = c
      <4>1. i + 1 \in 1..Len(Requests(c)) /\ i \in Nat \ {0} /\ Requests(d)'[i] = Requests(c)[i + 1]
        BY <1>9, <2>1, <3>1
      <4>2. Before(c, 1, c, i + 1)
        BY <4>1 DEF Before
      <4> QED
        BY <1>3, <2>1, <4>1, <4>2 DEF Lines, Rising
    <3>2. CASE d # c
      <4>1. i \in 1..Len(Requests(d)) /\ Requests(d)'[i] = Requests(d)[i]
        BY <1>9, <2>1, <3>2
      <4>2. Requests(d) # <<>>
        BY <4>1, <1>0, LinkTypes, SeqFacts
      <4>3. InQueue(d)
        BY <1>2, <3>2, <4>2, WhereRequestsAre
      <4>4. c < d
        BY <1>0, <1>2, <4>3 DEF Queue
      <4> QED
        BY <1>3, <2>1, <4>1, <4>4 DEF Lines, Rising, Before
    <3> QED
      BY <3>1, <3>2
  <2> QED
    BY <2>1 DEF First
<1>12. Unperformed' = Unperformed
  <2>1. UnperformedAre /\ UnperformedAre'
    BY <1>0, UnperformedIs, TypeParts DEF Typed
  <2>2. ASSUME NEW p, OnItsWay(p) PROVE OnItsWay(p)' \/ p = buff'
    <3>0. PICK d \in Conns : \E i \in 1..Len(Requests(d)) : Requests(d)[i] = p
      BY <2>2 DEF OnItsWay
    <3>1. PICK i \in 1..Len(Requests(d)) : Requests(d)[i] = p
      BY <3>0
    <3>2. CASE d # c
      <4>1. Requests(d)' = Requests(d)
        BY <1>2, <3>2 DEF Same
      <4> QED
        BY <3>1, <4>1 DEF OnItsWay
    <3>3. CASE d = c /\ i # 1
      <4>1. i - 1 \in 1..(Len(Requests(c)) - 1) /\ (i - 1) + 1 = i
        BY <1>3, <3>1, <3>3
      <4>2. Requests(c)'[i - 1] = p /\ i - 1 \in 1..Len(Requests(c)')
        BY <1>3, <3>1, <3>3, <4>1
      <4> QED
        BY <4>2 DEF OnItsWay
    <3> QED
      BY <1>3, <3>1, <3>2, <3>3
  <2>3. ASSUME NEW p, OnItsWay(p)' \/ p = buff' PROVE OnItsWay(p)
    <3>1. CASE p = buff'
      BY <1>3, <3>1 DEF OnItsWay
    <3>2. CASE OnItsWay(p)'
      <4>1. PICK d \in Conns : \E i \in 1..Len(Requests(d)') : Requests(d)'[i] = p
        BY <3>2 DEF OnItsWay
      <4>2. \E m \in 1..Len(Requests(d)) : Requests(d)[m] = p
        BY <1>9, <4>1
      <4> QED
        BY <4>2 DEF OnItsWay
    <3> QED
      BY <2>3, <3>1, <3>2
  <2> QED
    BY <1>1, <2>1, <2>2, <2>3 DEF UnperformedAre
<1>13. Books'
  <2>1. Suspended' = Suspended
    BY <1>1 DEF Suspended
  <2> QED
    BY <1>1, <1>12, <2>1, BooksSame
<1> QED
  BY <1>6, <1>7, <1>8, <1>10, <1>11, <1>13 DEF Lines

\* Session() is never called with a connection that no request can come by.
LEMMA GetsPacket == ASSUME Base, Orderly, Lines PROVE ~GetPacketFails
<1> SUFFICES ASSUME GetPacketFails PROVE FALSE
  OBVIOUS
<1>0. TypeOK /\ Sockets
  BY DEF Base
<1>1. spc = "get" /\ Valid("server") /\ reset = {}
  BY <1>0 DEF GetPacketFails, Goto, Sockets, Lines, Open
<1>2. PICK c \in Conns : c = Sock("server")
  BY <1>0, <1>1, SockTypes, Names
<1>3. Broken("server") /\ Requests(c) = <<>>
  BY <1>1, <1>2, Names DEF GetPacketFails, GetFails, Unread, Requests
<1>4. PICK h \in Clients : Sock(h) = c
  BY <1>1, <1>2, <1>3 DEF Lines, Served, Serves, Stays, Held
<1> QED
  BY <1>1, <1>2, <1>3, <1>4, NotBroken

\* What is performed comes before all that is on its way from its client.
LEMMA BooksPerform ==
  ASSUME TypeOK, TypeOK', First, Books, spc = "perform", spc' # "perform",
         \A c \in Conns : Requests(c)' = Requests(c),
         UNCHANGED <<buff, cpc, count>>,
         done' = [h \in Clients |-> IF h = buff.from THEN buff.no ELSE done[h]],
         depth' = IF buff.req = "SUSPEND" THEN depth + 1
                  ELSE IF buff.req = "RESUME" THEN depth - 1 ELSE depth
  PROVE  Books'
<1>1. UnperformedAre /\ UnperformedAre'
  BY UnperformedIs, TypeParts DEF Typed
<1>2. \A p : OnItsWay(p)' <=> OnItsWay(p)
  BY DEF OnItsWay
<1>3. buff \in Unperformed
  BY <1>1 DEF UnperformedAre
<1>4. buff \in Packet /\ buff.from \in Clients /\ buff.no \in Nat
  BY <1>3, PacketParts DEF Books, Whole
<1>5. \A p : OnItsWay(p) /\ p.from = buff.from => buff.no < p.no
  BY DEF First, OnItsWay
<1>6. ~OnItsWay(buff)
  BY <1>4, <1>5
<1>7. Unperformed' = Unperformed \ {buff}
  BY <1>1, <1>2, <1>6 DEF UnperformedAre
<1>8. \A q \in Unperformed : q.from = buff.from => q = buff \/ buff.no < q.no
  BY <1>1, <1>5 DEF UnperformedAre
<1>9. Suspended' = Suspended
  BY DEF Suspended
<1>10. done'[buff.from] = buff.no /\ \A k \in Clients \ {buff.from} : done'[k] = done[k]
  BY <1>4
<1>11. Drops(buff)
  BY <1>3, <1>7, <1>8, <1>9, <1>10 DEF Drops
<1> QED
  BY <1>11, BooksDrop

\* Where the server's connection is while it performs a request.
LEMMA PerformFacts ==
  ASSUME Base, Lines, spc = "perform"
  PROVE  \E c \in Conns :
           /\ c = Sock("server") /\ Serves(c) /\ ~InQueue(c) /\ "server" \notin gone[c]
           /\ \A h \in Clients : Sock(h) = c =>
                /\ Responses(c) = <<>> /\ ~Broken("server")
                /\ buff.from = h /\ want = buff.wants
                /\ want => Requests(c) = <<>> /\ Awaits(h, c, buff)
<1>0. TypeOK /\ Sockets /\ Queue /\ Talks
  BY DEF Base
<1>1. Valid("server")
  BY <1>0 DEF Sockets
<1>2. PICK c \in Conns : c = Sock("server")
  BY <1>0, <1>1, SockTypes, Names
<1>3. Serves(c)
  BY <1>2 DEF Lines, Served
<1>4. ~InQueue(c) /\ "server" \notin gone[c]
  BY <1>0, <1>2, Names DEF Queue, Sockets
<1>5. ASSUME NEW h \in Clients, Sock(h) = c
      PROVE  /\ Responses(c) = <<>> /\ ~Broken("server")
             /\ buff.from = h /\ want = buff.wants
             /\ want => Requests(c) = <<>> /\ Awaits(h, c, buff)
  <2>1. Talk(h, c)
    BY <1>0, <1>5 DEF Talks
  <2>2. ~Broken("server")
    BY <1>1, <1>2, <1>5, NotBroken
  <2> QED
    BY <1>2, <2>1, <2>2 DEF Talk, PerformedOf, ResponseOf
<1> QED
  BY <1>2, <1>3, <1>4, <1>5

\* Open and Courses stand while only the server moves, and no request.
LEMMA LinesStand ==
  ASSUME Lines, Sock("server")' = Sock("server"),
         UNCHANGED <<cpc, backlog, data_socket, conns, gone, reset, buff>>,
         \A d \in Conns : Requests(d)' = Requests(d),
         \A d \in Conns : Same(d) \/ "server" \notin gone[d],
         spc' # "perform"
  PROVE  /\ Open' /\ Courses' /\ Rising' /\ First'
         /\ \A d \in Conns : Stays(d)' <=> Stays(d)
<1>1. /\ \A k : Sock(k)' = Sock(k)
      /\ \A d \in Conns : (InQueue(d)' <=> InQueue(d)) /\ (Held(d)' <=> Held(d))
  BY DEF Sock, InQueue, Held
<1>2. \A d \in Conns : Stays(d)' <=> Stays(d)
  BY <1>1 DEF Stays
<1>3. Open'
  <2>1. ASSUME NEW k \in Clients, NEW d \in Conns, Sock(k)' = d
        PROVE  /\ "server" \in gone'[d] => Refusing(k, d)'
               /\ InQueue(d)' /\ Requests(d)' = <<>> => cpc'[k] \in {"hello", "resuming"}
    BY <1>1, <2>1 DEF Lines, Open, Refusing, Same
  <2>2. \A d \in Conns : d <= conns' =>
          InQueue(d)' \/ d = Sock("server")' \/ ("server" \in gone'[d] /\ Requests(d)' = <<>>)
    BY <1>1 DEF Lines, Open
  <2> QED
    BY <1>1, <1>2, <2>1, <2>2 DEF Lines, Open
<1>4. Courses'
  BY <1>1, CourseStays DEF Lines, Courses
<1>5. Rising' /\ First'
  BY RequestsSame DEF Lines
<1> QED
  BY <1>2, <1>3, <1>4, <1>5

\* Perform and Refuse: the client that is refused is the one that waits.
LEMMA LinesPerform ==
  ASSUME Base, Base', Orderly, Lines, Books, Perform \/ Refuse
  PROVE  Lines' /\ Books'
<1>0. TypeOK /\ TypeOK' /\ Sockets /\ Wanting
  BY DEF Base
<1>1. /\ UNCHANGED <<cpc, count, listening, backlog, data_socket, conns, gone, reset, buff, want, depth>>
      /\ spc = "perform"
      /\ done' = [h \in Clients |-> IF h = buff.from THEN buff.no ELSE done[h]]
      /\ \/ spc' = "get" /\ buff.req \in {"CONNECT", "other"}
         \/ spc' = "over" /\ buff.req = "OLDCONNECT"
  BY DEF Perform, Refuse, Performing, clientVars
<1>2. PICK c \in Conns :
           /\ c = Sock("server") /\ Serves(c) /\ ~InQueue(c) /\ "server" \notin gone[c]
           /\ \A h \in Clients : Sock(h) = c =>
                /\ Responses(c) = <<>> /\ ~Broken("server")
                /\ buff.from = h /\ want = buff.wants
                /\ want => Requests(c) = <<>> /\ Awaits(h, c, buff)
  BY <1>1, PerformFacts
<1>3. ASSUME NEW err \in BOOLEAN, NEW ok \in BOOLEAN,
             Put("server", [to |-> buff.from, no |-> buff.no, err |-> err], ok)
      PROVE  /\ \A d \in Conns \ {c} : Same(d)
             /\ Requests(c)' = Requests(c)
             /\ \A h \in Clients : Sock(h) = c =>
                  Responses(c)' # <<>> /\ Responses(c)'[1].err = err
  <2>1. PICK r \in Response : r = [to |-> buff.from, no |-> buff.no, err |-> err]
    <3>1. [to |-> buff.from, no |-> buff.no, err |-> err] \in Response
      BY <1>0 DEF TypeOK, Response, Packet, NoPacket
    <3> QED
      BY <3>1
  <2>2. \/ AllSame /\ (~Valid("server") \/ Broken("server"))
        \/ /\ \A d \in Conns \ {c} : Same(d)
           /\ Requests(c)' = Requests(c) /\ Responses(c)' = Append(Responses(c), r)
    BY <1>0, <1>2, <1>3, <2>1, ResponsePut
  <2>3. Valid("server")
    BY <1>0, <1>2, SockTypes, Names
  <2>4. ASSUME NEW h \in Clients, Sock(h) = c
        PROVE  Responses(c)' # <<>> /\ Responses(c)'[1].err = err
    <3>0. Responses(c) = <<>> /\ ~Broken("server")
      BY <1>2, <2>4
    <3>1. Responses(c)' = Append(<<>>, r)
      BY <2>2, <2>3, <3>0
    <3>2. <<>> \in Seq(Response) /\ Len(<<>>) = 0
      OBVIOUS
    <3>3. Responses(c)' # <<>> /\ Responses(c)'[1] = r
      BY <3>1, <3>2, AppendFacts
    <3> QED
      BY <2>1, <3>3
  <2> QED
    BY <2>2, <2>4 DEF AllSame, Same
<1>4. \/ AllSame /\ spc' = "get"
      \/ \E err \in BOOLEAN, ok \in BOOLEAN :
           /\ Put("server", [to |-> buff.from, no |-> buff.no, err |-> err], ok)
           /\ err <=> spc' = "over"
  BY <1>0, LinkTypes, NothingMoves DEF Perform, Refuse, Performing
<1>5. /\ \A d \in Conns \ {c} : Same(d)
      /\ Requests(c)' = Requests(c)
      /\ \A h \in Clients : Sock(h) = c =>
           IF spc' = "over" THEN Responses(c)' # <<>> /\ Responses(c)'[1].err
           ELSE Responses(c)' # <<>> => ~Responses(c)'[1].err
  <2>1. CASE AllSame /\ spc' = "get"
    BY <1>2, <2>1 DEF AllSame, Same
  <2>2. CASE \E err \in BOOLEAN, ok \in BOOLEAN :
               /\ Put("server", [to |-> buff.from, no |-> buff.no, err |-> err], ok)
               /\ err <=> spc' = "over"
    BY <1>3, <2>2
  <2> QED
    BY <1>4, <2>1, <2>2
<1>6. /\ \A k : Sock(k)' = Sock(k)
      /\ \A d \in Conns : Requests(d)' = Requests(d)
      /\ \A d \in Conns : Held(d)' <=> Held(d)
  BY <1>1, <1>5 DEF Sock, Same, Held
<1>7. /\ Open' /\ Courses' /\ Rising' /\ First'
      /\ Stays(c)' <=> Stays(c)
  BY <1>1, <1>2, <1>5, <1>6, LinesStand
<1>8. Served'
  <2>1. CASE spc' = "get"
    <3>1. Stays(c)'
      BY <1>1, <1>2, <1>7, <2>1 DEF Serves, Farewells
    <3>2. \A h \in Clients : Sock(h)' = c => ~Refusing(h, c)'
      BY <1>5, <1>6, <2>1 DEF Refusing
    <3> QED
      BY <1>2, <1>6, <2>1, <3>1, <3>2 DEF Served, Serves
  <2>2. CASE spc' = "over"
    <3>1. buff.req \in Greetings /\ buff.wants
      BY <1>0, <1>1, <2>2 DEF Wanting, Greetings
    <3>2. Held(c) /\ \A h \in Clients : Sock(h) = c => cpc[h] = "connecting"
      BY <1>1, <1>2, <3>1 DEF Serves
    <3>3. Requests(c)' = <<>>
      BY <1>2, <1>5, <3>1, <3>2 DEF Held
    <3>4. \A h \in Clients : Sock(h)' = c => Refusing(h, c)'
      BY <1>1, <1>5, <1>6, <2>2, <3>2 DEF Refusing
    <3> QED
      BY <1>2, <1>6, <2>2, <3>3, <3>4 DEF Served, Serves
  <2> QED
    BY <1>1, <2>1, <2>2
<1>9. Books'
  BY <1>0, <1>1, <1>6, BooksPerform DEF Lines
<1> QED
  BY <1>7, <1>8, <1>9 DEF Lines

\* A resume finds a suspended session, and goes on with its connection.
LEMMA LinesEnd ==
  ASSUME Base, Base', Orderly, Lines, Books, PerformDisconnect \/ PerformResume
  PROVE  Lines' /\ Books'
<1>0. TypeOK /\ TypeOK'
  BY DEF Base
<1>1. /\ UNCHANGED <<cpc, count, listening, backlog, data_socket, conns, gone, reset, inbox, buff>>
      /\ spc = "perform"
      /\ done' = [h \in Clients |-> IF h = buff.from THEN buff.no ELSE done[h]]
      /\ \/ buff.req = "DISCONNECT" /\ spc' = "over" /\ depth' = depth
         \/ /\ buff.req = "RESUME"
            /\ depth > 0 => spc' = "get" /\ depth' = depth - 1
  BY DEF PerformDisconnect, PerformResume, Performing, clientVars, linkVars
<1>2. PICK c \in Conns :
           /\ c = Sock("server") /\ Serves(c) /\ ~InQueue(c) /\ "server" \notin gone[c]
           /\ \A h \in Clients : Sock(h) = c => Responses(c) = <<>>
  BY <1>1, PerformFacts
<1>3. AllSame
  BY <1>0, <1>1, LinkTypes, NothingMoves
<1>4. buff.req = "RESUME" => depth > 0
  <2>1. UnperformedAre
    BY <1>0, UnperformedIs, TypeParts DEF Typed
  <2>2. buff \in Unperformed /\ \A q \in Unperformed : q.from = buff.from => q = buff \/ buff.no < q.no
    BY <1>1, <2>1 DEF UnperformedAre, OnItsWay, Lines, First
  <2>3. buff.from \in Clients
    BY <2>2, PacketParts DEF Books, Whole
  <2> QED
    BY <1>0, <2>2, <2>3, ResumeKept, KeptDeep
<1>5. \/ buff.req = "DISCONNECT" /\ spc' = "over" /\ depth' = depth
      \/ buff.req = "RESUME" /\ spc' = "get" /\ depth' = depth - 1
  BY <1>1, <1>4
<1>6. /\ \A k : Sock(k)' = Sock(k)
      /\ \A d \in Conns : Requests(d)' = Requests(d)
  BY <1>1, <1>3 DEF Sock, AllSame, Same
<1>7. /\ Open' /\ Courses' /\ Rising' /\ First'
      /\ Stays(c)' <=> Stays(c)
  BY <1>1, <1>3, <1>5, <1>6, LinesStand DEF AllSame
<1>8. Served'
  <2>1. CASE spc' = "get"
    <3>1. Stays(c)'
      BY <1>1, <1>2, <1>5, <1>7, <2>1 DEF Serves, Farewells
    <3>2. \A h \in Clients : Sock(h)' = c => ~Refusing(h, c)'
      BY <1>2, <1>3, <1>6 DEF Refusing, AllSame, Same
    <3> QED
      BY <1>2, <1>6, <2>1, <3>1, <3>2 DEF Served, Serves
  <2>2. CASE spc' = "over"
    <3>1. Requests(c) = <<>> /\ ~Held(c)
      BY <1>1, <1>2, <1>5, <2>2 DEF Serves, Farewells
    <3> QED
      BY <1>2, <1>6, <2>2, <3>1 DEF Served, Serves, Held
  <2> QED
    BY <1>5, <2>1, <2>2
<1>9. Books'
  BY <1>0, <1>1, <1>5, <1>6, BooksPerform DEF Lines
<1> QED
  BY <1>7, <1>8, <1>9 DEF Lines

\* RemoteDisco after Session(), and in the loop of a suspended session: nothing
\* is on the connection, but perhaps the refusal.
LEMMA LinesLeave ==
  ASSUME Base, Base', Orderly, Lines, Books,
         PerformSuspend \/ NextClient \/ (SessionEnded /\ spc' = "poll")
  PROVE  Lines' /\ Books'
<1>0. TypeOK /\ TypeOK' /\ Sockets
  BY DEF Base
<1>1. /\ UNCHANGED <<cpc, count, backlog, conns, reset, inbox, buff>>
      /\ Disco("server") /\ spc' = "poll" /\ spc \in {"perform", "over"}
      /\ spc = "perform" => /\ buff.req = "SUSPEND" /\ depth' = depth + 1
                            /\ done' = [h \in Clients |-> IF h = buff.from THEN buff.no ELSE done[h]]
      /\ spc = "over" => UNCHANGED <<done, depth>>
  BY DEF PerformSuspend, NextClient, SessionEnded, Performing, Goto, clientVars
<1>2. PICK c \in Conns : c = Sock("server")
  BY <1>0, <1>1, SockTypes, Names DEF Sockets
<1>3. Requests(c) = <<>> /\ \A h \in Clients : Sock(h) = c => Refusing(h, c)
  <2>1. Serves(c)
    BY <1>2 DEF Lines, Served
  <2> QED
    BY <1>1, <2>1 DEF Serves, Farewells, Held
<1>4. AllSame
  BY <1>0, <1>1, LinkTypes, NothingMoves
<1>5. /\ Sock("server")' = 0 /\ \A k \in Clients : Sock(k)' = Sock(k)
      /\ \A d \in Conns : d # c => gone'[d] = gone[d]
      /\ gone'[c] = gone[c] \cup {"server"}
  BY <1>0, <1>1, <1>2, DiscoFacts, Names
<1>6. \A d \in Conns : /\ (InQueue(d)' <=> InQueue(d)) /\ (Held(d)' <=> Held(d))
                       /\ Stays(d)' <=> Stays(d)
  BY <1>1, <1>4, <1>5 DEF InQueue, Held, Stays, AllSame, Same
<1>7. Open'
  <2>1. ASSUME NEW k \in Clients, NEW d \in Conns, Sock(k)' = d
        PROVE  /\ "server" \in gone'[d] => Refusing(k, d)'
               /\ InQueue(d)' /\ Requests(d)' = <<>> => cpc'[k] \in {"hello", "resuming"}
    BY <1>1, <1>3, <1>4, <1>5, <1>6, <2>1 DEF Lines, Open, Refusing, AllSame, Same
  <2>2. ASSUME NEW d \in Conns, d <= conns'
        PROVE  InQueue(d)' \/ d = Sock("server")' \/ ("server" \in gone'[d] /\ Requests(d)' = <<>>)
    BY <1>1, <1>2, <1>3, <1>4, <1>5, <1>6, <2>2 DEF Lines, Open, AllSame, Same
  <2> QED
    BY <1>1, <1>6, <2>1, <2>2 DEF Lines, Open
<1>8. Served'
  BY <1>1, <1>5, Names DEF Served
<1>9. Courses'
  BY <1>1, <1>4, <1>5, <1>6, CourseStays DEF Lines, Courses, AllSame, Same
<1>10. Rising' /\ First'
  BY <1>1, <1>4, RequestsSame DEF Lines, AllSame, Same
<1>11. \A d \in Conns : Requests(d)' = Requests(d)
  BY <1>4 DEF AllSame, Same
<1>12. Books'
  <2>1. CASE spc = "perform"
    BY <1>0, <1>1, <1>11, <2>1, BooksPerform DEF Lines
  <2>2. CASE spc = "over"
    <3>1. Suspended' = Suspended
      BY <1>1 DEF Suspended
    <3> QED
      BY <1>0, <1>1, <1>11, <2>2, <3>1, UnperformedSame, BooksSame
  <2> QED
    BY <1>1, <2>1, <2>2
<1> QED
  BY <1>7, <1>8, <1>9, <1>10, <1>12 DEF Lines

-----------------------------------------------------------------------------
(* The exit *)

\* When no call of Session() waits, between two connections, nobody is
\* suspended: who suspended has resumed, or its resume would be awaited.
LEMMA NobodySuspended ==
  ASSUME Base, Lines, Books, depth = 0, spc \in {"over", "keys"}
  PROVE  /\ Suspended = {}
         /\ \A p \in Unperformed : p.req \notin {"SUSPEND", "RESUME"}
<1>0. TypeOK /\ Sockets /\ Talks /\ Wanting
  BY DEF Base
<1>1. \A h \in Clients : ~Keeps(h)
  BY <1>0, KeptDeep
<1>2. UnperformedAre
  BY <1>0, UnperformedIs, TypeParts DEF Typed
<1>3. ASSUME NEW h \in Clients, done[h] < count[h]
      PROVE  /\ h \notin Suspended
             /\ \A p \in Unperformed : p.from = h => p.req \notin {"SUSPEND", "RESUME"}
  <2>1. PICK n \in Nat : n = done[h] + 1 /\ done[h] < n /\ n <= count[h]
    BY <1>0, <1>3, CountTypes
  <2>2. PICK q \in Unperformed : q.from = h /\ q.no = n
    BY <2>1 DEF Books, Numbers
  <2>3. \A p \in Unperformed : p.from = h => p.no \in Nat /\ done[h] < p.no /\ (p = q \/ n < p.no)
    <3>1. ASSUME NEW p \in Unperformed, p.from = h
          PROVE  p.no \in Nat /\ done[h] < p.no /\ (p = q \/ p.no # n)
      BY <2>2, <3>1, PacketParts DEF Books, Whole, Numbers
    <3> QED
      BY <1>0, <2>1, <3>1, CountTypes
  <2>4. PICK d \in Conns : \E i \in 1..Len(Requests(d)) : Requests(d)[i] = q
    BY <1>2, <2>2 DEF UnperformedAre, OnItsWay
  <2>5. PICK i \in 1..Len(Requests(d)) : Requests(d)[i] = q
    BY <2>4
  <2>6. /\ Len(Requests(d)) \in Nat /\ Requests(d) # <<>> /\ 1 \in 1..Len(Requests(d))
        /\ i \in Nat /\ (i = 1 \/ 1 < i)
    <3>1. Requests(d) \in Seq(Packet)
      BY <1>0, LinkTypes
    <3> QED
      BY <2>5, <3>1, SeqFacts
  <2>7. InQueue(d)
    <3>1. Sock("server") # d
      <4>1. spc = "keys" => Sock("server") # d
        BY <1>0, Names DEF Sockets, Valid, INVALID_SOCKET
      <4>2. spc = "over" => Sock("server") # d
        BY <2>6 DEF Lines, Served, Serves
      <4> QED
        BY <4>1, <4>2
    <3> QED
      BY <2>6, <3>1, WhereRequestsAre
  <2>8. Course(d)
    BY DEF Lines, Courses
  <2>9. i = 1
    <3>1. Requests(d)[1].from = h /\ Requests(d)[1] \in Unperformed
      BY <1>2, <2>2, <2>5, <2>6, <2>8 DEF Course, UnperformedAre, OnItsWay
    <3>2. 1 < i => Requests(d)[1].no < n
      BY <2>2, <2>5, <2>6, <3>1 DEF Lines, Rising, Before
    <3>3. Requests(d)[1].no \in Nat /\ ~(Requests(d)[1].no < n)
      BY <2>1, <2>2, <2>3, <3>1
    <3> QED
      BY <2>6, <3>2, <3>3
  <2>10. q.req \in Greetings
    <3>1. q.req # "RESUME"
      BY <1>0, <1>1, <2>2, <2>3, ResumeKept
    <3> QED
      BY <2>5, <2>6, <2>7, <2>8, <2>9, <3>1 DEF Course
  <2>11. q.wants
    BY <1>0, <2>5, <2>10 DEF Wanting, Greetings
  <2>12. PICK k \in Clients : Sock(k) = d
    BY <2>5, <2>8, <2>11 DEF Course, Held
  <2>13. k = h /\ cpc[h] \in {"connecting", "waiting"} /\ n = count[h]
    <3>1. Talk(k, d) /\ d \notin reset
      BY <1>0, <2>12 DEF Talks, Lines, Open
    <3>2. Requests(d)[i].from = k /\ Awaits(k, d, Requests(d)[i])
      BY <2>5, <2>11, <3>1 DEF Talk, RequestsOf
    <3> QED
      BY <2>2, <2>5, <3>2 DEF Awaits
  <2>14. \A p \in Unperformed : p.from = h => p = q
    <3>1. \A p \in Unperformed : p.from = h => p.no <= count[h]
      BY DEF Books, Numbers
    <3> QED
      BY <2>1, <2>3, <2>13, <3>1
  <2> QED
    BY <2>10, <2>13, <2>14 DEF Suspended, Greetings
<1>4. ASSUME NEW h \in Clients, ~(done[h] < count[h])
      PROVE  h \notin Suspended /\ \A p \in Unperformed : p.from # h
  <2>1. ASSUME NEW p \in Unperformed, p.from = h PROVE FALSE
    <3>1. done[h] < p.no /\ p.no <= count[h] /\ p.no \in Nat
      BY <2>1, PacketParts DEF Books, Whole, Numbers
    <3> QED
      BY <1>0, <1>4, <3>1, CountTypes
  <2>2. h \notin Suspended
    <3>1. ASSUME h \in Suspended PROVE Keeps(h)
      <4>1. count[h] + 1 \in Nat
        BY <1>0, CountTypes
      <4>2. Res(h, count[h] + 1)
        BY <3>1 DEF Res
      <4>3. \A s \in Nat : ~Sus(h, s)
        BY <2>1 DEF Sus
      <4> QED
        BY <4>1, <4>2, <4>3 DEF Keeps
    <3> QED
      BY <1>1, <3>1
  <2> QED
    BY <2>1, <2>2
<1>5. \A p \in Unperformed : p.from \in Clients
  BY PacketParts DEF Books, Whole
<1> QED
  BY <1>3, <1>4, <1>5 DEF Suspended

\* RemoteUnLink resets what waits in the queue.
LEMMA LinesExit ==
  ASSUME Base, Base', Orderly, Lines, Books, Quit \/ (SessionEnded /\ spc' = "exited")
  PROVE  Exited' /\ spc' = "exited"
<1>0. TypeOK /\ TypeOK' /\ Sockets
  BY DEF Base
<1>1. /\ UNCHANGED <<cpc, conns, inbox, buff>> /\ spc' = "exited" /\ depth' = 0 /\ depth = 0
      /\ spc \in {"over", "keys"} /\ UnLink
      /\ \A h \in Clients : Sock(h)' = Sock(h)
  <2>1. CASE Quit
    BY <1>0, <2>1 DEF Quit, Goto, clientVars, Sock, Lines, Served
  <2>2. CASE SessionEnded /\ spc' = "exited"
    <3>1. Disco("server") /\ \A h \in Clients : h \in Hosts \ {"server"}
      BY <2>2, Names DEF SessionEnded
    <3>2. \A h \in Clients : Sock(h)' = Sock(h)
      BY <1>0, <3>1, DiscoFacts, Names
    <3> QED
      BY <1>0, <2>2, <3>2 DEF SessionEnded, Goto, clientVars
  <2> QED
    BY <2>1, <2>2
<1>2. AllSame
  BY <1>0, <1>1, LinkTypes, NothingMoves
<1>3. /\ Suspended = {}
      /\ \A p \in Unperformed : p.req \notin {"SUSPEND", "RESUME"}
  BY <1>1, NobodySuspended
<1>4. Unperformed' = Unperformed
  <2>1. \A d \in Conns : Requests(d)' = Requests(d)
    BY <1>2 DEF AllSame, Same
  <2> QED
    BY <1>0, <1>1, <2>1, UnperformedSame
<1>5. ASSUME NEW h \in Clients, NEW c \in Conns, Sock(h) = c
      PROVE  InQueue(c) \/ Refusing(h, c)
  <2>1. c <= conns
    BY <1>0, <1>5, Names DEF Sockets
  <2>2. CASE Sock("server") = c
    <3>1. spc = "over"
      BY <1>0, <1>1, <2>2, Names DEF Sockets, Valid, INVALID_SOCKET
    <3> QED
      BY <1>5, <2>2, <3>1 DEF Lines, Served, Serves
  <2> QED
    BY <1>5, <2>1, <2>2 DEF Lines, Open
<1>6. ASSUME NEW h \in Clients, NEW c \in Conns, Sock(h)' = c
      PROVE  c \in reset' \/ Refusing(h, c)'
  <2>1. Refusing(h, c)' <=> Refusing(h, c)
    BY <1>1, <1>2 DEF Refusing, AllSame, Same
  <2>2. InQueue(c) => c \in reset'
    BY <1>1 DEF UnLink, InQueue
  <2> QED
    BY <1>1, <1>5, <1>6, <2>1, <2>2
<1>7. ASSUME NEW h \in Clients
      PROVE  cpc[h] \in {"idle", "hello", "connecting", "waiting", "failed", "quit"}
  <2>1. cpc[h] \in PCs /\ cpc[h] \notin {"suspended", "resuming"}
    BY <1>0, <1>3, TypeParts DEF Typed, Suspended
  <2>2. cpc[h] # "ready"
    <3>1. ASSUME cpc[h] = "ready" PROVE FALSE
      <4>1. PICK c \in Conns : c = Sock(h)
        BY <1>0, <3>1, SockTypes, Names DEF Sockets
      <4>2. InQueue(c) /\ Requests(c) # <<>> /\ Course(c)
        BY <1>5, <3>1, <4>1 DEF Refusing, Lines, Open, Courses
      <4>3. 1 \in 1..Len(Requests(c))
        BY <1>0, <4>2, LinkTypes, SeqFacts
      <4>4. Requests(c)[1].req # "RESUME"
        <5>1. UnperformedAre
          BY <1>0, UnperformedIs, TypeParts DEF Typed
        <5>2. Requests(c)[1] \in Unperformed
          BY <4>3, <5>1 DEF UnperformedAre, OnItsWay
        <5> QED
          BY <1>3, <5>2
      <4> QED
        BY <3>1, <4>1, <4>2, <4>3, <4>4 DEF Course
    <3> QED
      BY <3>1
  <2> QED
    BY <2>1, <2>2 DEF PCs
<1> QED
  BY <1>1, <1>3, <1>4, <1>6, <1>7 DEF Exited

\* A client that finds no server any more gives up.
LEMMA ExitedGivesUp ==
  ASSUME Base, Base', Exited, spc = "exited", NEW h \in Clients,
         UNCHANGED <<buff, spc, depth>>, reset \subseteq reset',
         \A k \in Clients \ {h} : cpc'[k] = cpc[k] /\ Sock(k)' = Sock(k),
         cpc'[h] \in {"failed", "quit"},
         \A c \in Conns : Sock(h)' = c => c \in reset',
         \A c \in Conns : Requests(c)' = Requests(c),
         \A c \in Conns : Sock(h) # c => Responses(c)' = Responses(c)
  PROVE  Exited'
<1>0. TypeOK /\ TypeOK' /\ Sockets
  BY DEF Base
<1>1. Unperformed' = Unperformed
  BY <1>0, UnperformedSame
<1>2. ASSUME NEW k \in Clients, NEW c \in Conns, Sock(k)' = c
      PROVE  c \in reset' \/ Refusing(k, c)'
  <2>1. CASE k # h
    <3>1. Sock(k) = c /\ Sock(h) # c /\ cpc'[k] = cpc[k]
      BY <1>0, <1>2, <2>1, Names DEF Sockets, Valid, INVALID_SOCKET
    <3> QED
      BY <3>1 DEF Exited, Refusing
  <2> QED
    BY <1>2, <2>1
<1>3. \A k \in Clients : cpc'[k] \in {"idle", "hello", "connecting", "waiting", "failed", "quit"}
  BY DEF Exited
<1> QED
  BY <1>1, <1>2, <1>3 DEF Exited

LEMMA ExitedClient ==
  ASSUME Base, Base', Orderly, spc = "exited", Exited, NEW h \in Clients, ClientStep(h) \/ UserStep(h)
  PROVE  Exited' /\ spc' = "exited"
<1>0. TypeOK /\ TypeOK' /\ Sockets /\ Talks
  BY DEF Base
<1>1. /\ cpc[h] \in {"idle", "hello", "connecting", "waiting", "failed", "quit"}
      /\ \A c \in Conns : Sock(h) = c => c \in reset \/ Refusing(h, c)
      /\ ~listening
  BY <1>0 DEF Exited, Sockets
<1>2. CASE CannotConnect(h)
  <2>1. /\ UNCHANGED <<buff, spc, depth, reset, inbox, data_socket>>
        /\ \A k \in Clients \ {h} : cpc'[k] = cpc[k]
        /\ cpc[h] = "idle" /\ cpc'[h] = "quit"
    BY <1>0, <1>2, StepFacts DEF CannotConnect, linkVars, serverVars
  <2>2. \A c \in Conns : Sock(h) # c
    BY <1>0, <2>1, Names DEF Sockets, Valid, INVALID_SOCKET
  <2> QED
    BY <2>1, <2>2, ExitedGivesUp DEF Sock, Requests, Responses
<1>3. CASE Hello(h) \/ NotResponded(h)
  <2>1. /\ UNCHANGED <<buff, spc, depth, reset, data_socket>>
        /\ \A k \in Clients \ {h} : cpc'[k] = cpc[k]
        /\ cpc[h] \in {"hello", "connecting", "waiting"}
    BY <1>0, <1>3, StepFacts DEF Hello, NotResponded, GetFails, linkVars, serverVars
  <2>2. Valid(h)
    BY <1>0, <2>1 DEF Sockets
  <2>3. PICK c \in Conns : c = Sock(h)
    BY <1>0, <2>2, SockTypes, Names
  <2>4. c \in reset /\ UNCHANGED inbox /\ cpc'[h] = "failed"
    <3>1. CASE Hello(h)
      <4>1. c \in reset
        BY <1>0, <1>1, <2>3, <3>1, StepFacts DEF Hello, Refusing
      <4>2. PICK ok \in BOOLEAN, req \in {"CONNECT", "OLDCONNECT"} :
              /\ PutRequest(h, req, TRUE, ok)
              /\ Step(h, "hello", IF ok THEN "connecting" ELSE "failed")
        BY <3>1 DEF Hello
      <4>3. ~ok
        BY <2>3, <4>1, <4>2 DEF PutRequest, Put
      <4>4. UNCHANGED inbox
        BY <4>2, <4>3 DEF PutRequest, Put
      <4>5. cpc'[h] = "failed"
        BY <1>0, <4>2, <4>3, StepFacts
      <4> QED
        BY <4>1, <4>4, <4>5
    <3>2. CASE NotResponded(h)
      <4>1. cpc'[h] = "failed"
        BY <1>0, <3>2, StepFacts DEF NotResponded
      <4>2. c \in reset /\ UNCHANGED inbox
        BY <2>2, <2>3, <3>2, Names DEF NotResponded, GetFails, linkVars
      <4> QED
        BY <4>1, <4>2
    <3> QED
      BY <1>3, <3>1, <3>2
  <2>5. \A k : Sock(k)' = Sock(k)
    BY <2>1 DEF Sock
  <2>6. \A d \in Conns : Sock(h)' = d => d \in reset'
    BY <2>1, <2>3, <2>4, <2>5
  <2> QED
    BY <2>1, <2>4, <2>5, <2>6, ExitedGivesUp DEF Requests, Responses
<1>4. CASE Refused(h)
  <2>1. /\ UNCHANGED <<buff, spc, depth, reset>>
        /\ \A k \in Clients \ {h} : cpc'[k] = cpc[k]
        /\ cpc'[h] = "quit" /\ Disco(h)
    BY <1>0, <1>4, StepFacts DEF Refused, serverVars
  <2>2. PICK c \in Conns :
           /\ c = Sock(h) /\ InboxOK' /\ Responses(c) # <<>> /\ Unread(h) = Responses(c)
           /\ \A d \in Conns \ {c} : Same(d)
           /\ Requests(c)' = Requests(c) /\ Responses(c)' = Tail(Responses(c))
    BY <1>0, <1>4, ResponseTaken DEF Refused
  <2>3. Sock(h)' = 0 /\ \A k \in Clients \ {h} : Sock(k)' = Sock(k)
    BY <1>0, <2>1, DiscoFacts, Names
  <2>4. \A d \in Conns : Requests(d)' = Requests(d) /\ (Sock(h) # d => Responses(d)' = Responses(d))
    BY <2>2 DEF Same
  <2> QED
    BY <2>1, <2>3, <2>4, Names, ExitedGivesUp
<1>5. CASE TrapFailed(h)
  <2>1. /\ UNCHANGED <<buff, spc, depth, inbox>>
        /\ \A k \in Clients \ {h} : cpc'[k] = cpc[k]
        /\ cpc'[h] = "quit" /\ Disco(h) /\ reset \subseteq reset'
    BY <1>0, <1>5, StepFacts DEF TrapFailed, Terminate, serverVars
  <2>2. Sock(h)' = 0 /\ \A k \in Clients \ {h} : Sock(k)' = Sock(k)
    BY <1>0, <2>1, DiscoFacts, Names
  <2> QED
    BY <2>1, <2>2, Names, ExitedGivesUp DEF Requests, Responses
<1>6. ~Connected(h) /\ ~Responded(h)
  <2>1. ASSUME Connected(h) \/ Responded(h) PROVE FALSE
    <3>1. cpc[h] \in {"connecting", "waiting"} /\ (cpc[h] = "connecting" => ~Arrived(h).err)
      BY <1>0, <2>1, StepFacts DEF Connected, Responded
    <3>2. PICK c \in Conns : c = Sock(h) /\ Responses(c) # <<>> /\ Unread(h) = Responses(c)
      BY <1>0, <2>1, Names, ResponseTaken DEF Connected, Responded, Get
    <3>3. c \notin reset
      BY <1>0, <3>2 DEF Talks, Talk, ResetOf
    <3>4. Arrived(h) = Responses(c)[1]
      BY <1>0, <3>2, LinkTypes, TailFacts DEF Arrived
    <3> QED
      BY <1>1, <3>1, <3>2, <3>3, <3>4 DEF Refusing
  <2> QED
    BY <2>1
<1>7. ~RemoteConnect(h) /\ ~RemoteResume(h)
  BY <1>1 DEF RemoteConnect, RemoteResume, Connect, CanConnect
<1>8. ~PutResume(h) /\ ~Request(h) /\ ~Suspend(h) /\ ~Disconnect(h)
  BY <1>1 DEF PutResume, Request, Suspend, Disconnect, ReqRemoteDisco, Step
<1>9. ~Vanish(h)
  BY DEF Vanish, Orderly
<1>10. spc' = spc
  BY DEF ClientStep, UserStep, Hello, Connected, Refused, Responded, NotResponded, TrapFailed, PutResume,
     RemoteConnect, CannotConnect, Request, Suspend, RemoteResume, Disconnect, ReqRemoteDisco, Vanish, serverVars
<1> QED
  BY <1>2, <1>3, <1>4, <1>5, <1>6, <1>7, <1>8, <1>9, <1>10 DEF ClientStep, UserStep

LEMMA ExitedKept ==
  ASSUME Base, Base', Orderly, spc = "exited", Exited, [Next]_vars
  PROVE  Exited' /\ spc' = "exited"
<1>0. TypeOK /\ TypeOK'
  BY DEF Base
<1>1. CASE UNCHANGED vars
  <2>1. UNCHANGED <<cpc, inbox, data_socket, reset, buff, spc, depth>>
    BY <1>1 DEF vars, linkVars, clientVars, serverVars
  <2>2. Unperformed' = Unperformed
    BY <1>0, <2>1, UnperformedSame DEF Requests
  <2> QED
    BY <2>1, <2>2 DEF Exited, Sock, Refusing, Responses
<1>2. ~ServerStep
  BY DEF ServerStep, Poll, PollTimeOut, AcceptClient, NoKey, Quit, GetPacket, GetPacketFails, Perform, Refuse,
     PerformDisconnect, PerformSuspend, PerformResume, NextClient, SessionEnded, Performing, Goto
<1>3. ~PressQ
  BY DEF PressQ
<1> QED
  BY <1>1, <1>2, <1>3, ExitedClient DEF Next

-----------------------------------------------------------------------------
(* The invariant is kept *)

LEMMA OrderlyStays == ASSUME [Next]_vars PROVE Orderly' <=> Orderly
<1>1. vanishing' = vanishing
  <2>1. CASE UNCHANGED vars \/ PressQ
    BY <2>1 DEF vars, PressQ, serverVars, startVars
  <2>2. CASE ServerStep
    BY <2>2 DEF ServerStep, Poll, PollTimeOut, AcceptClient, NoKey, Quit, GetPacket, GetPacketFails, Perform,
       Refuse, PerformDisconnect, PerformSuspend, PerformResume, NextClient, SessionEnded, startVars
  <2>3. CASE \E h \in Clients : ClientStep(h) \/ UserStep(h)
    BY <2>3 DEF ClientStep, UserStep, Hello, Connected, Refused, Responded, NotResponded, TrapFailed, PutResume,
       RemoteConnect, CannotConnect, Request, Suspend, RemoteResume, Disconnect, ReqRemoteDisco, Vanish,
       serverVars, startVars
  <2> QED
    BY <2>1, <2>2, <2>3 DEF Next
<1> QED
  BY <1>1 DEF Orderly

LEMMA LinesKept ==
  ASSUME Base, Base', Orderly, Lines, Books, spc # "exited", [Next]_vars
  PROVE  IF spc' = "exited" THEN Exited' ELSE Lines' /\ Books'
<1>1. CASE UNCHANGED vars \/ PressQ
  <2>1. spc' = spc
    BY <1>1 DEF vars, PressQ, serverVars
  <2> QED
    BY <1>1, <2>1, LinesMove
<1>2. CASE ServerStep
  <2>1. CASE Quit \/ (SessionEnded /\ spc' = "exited")
    BY <2>1, LinesExit
  <2>2. CASE PerformSuspend \/ NextClient \/ (SessionEnded /\ spc' # "exited")
    <3>1. spc' = "poll"
      BY <2>2 DEF PerformSuspend, NextClient, SessionEnded, Goto
    <3> QED
      BY <2>2, <3>1, LinesLeave
  <2>3. CASE Poll \/ PollTimeOut \/ NoKey
    <3>1. spc' # "exited"
      BY <2>3 DEF Poll, PollTimeOut, NoKey, Goto
    <3> QED
      BY <2>3, <3>1, LinesMove
  <2>4. CASE AcceptClient \/ GetPacket
    <3>1. spc' # "exited"
      BY <2>4 DEF AcceptClient, GetPacket, Goto
    <3> QED
      BY <2>4, <3>1, LinesAccept, LinesGet
  <2>5. CASE Perform \/ Refuse \/ PerformDisconnect \/ PerformResume
    <3>1. spc' # "exited"
      BY <2>5 DEF Perform, Refuse, PerformDisconnect, PerformResume
    <3> QED
      BY <2>5, <3>1, LinesPerform, LinesEnd
  <2> QED
    BY <1>2, <2>1, <2>2, <2>3, <2>4, <2>5, GetsPacket DEF ServerStep
<1>3. ASSUME NEW h \in Clients, ClientStep(h) \/ UserStep(h)
      PROVE  Lines' /\ Books' /\ spc' = spc
  <2>1. spc' = spc
    BY <1>3 DEF ClientStep, UserStep, Hello, Connected, Refused, Responded, NotResponded, TrapFailed, PutResume,
       RemoteConnect, CannotConnect, Request, Suspend, RemoteResume, Disconnect, ReqRemoteDisco, Vanish, serverVars
  <2>2. CannotConnect(h) => Lines' /\ Books'
    BY LinesMove
  <2> QED
    BY <1>3, <2>1, <2>2, LinesConnect, LinesPut, LinesDisco, LinesRead, LinesRefused, NothingFails
       DEF ClientStep, UserStep
<1> QED
  BY <1>1, <1>2, <1>3 DEF Next

LEMMA OrderKept == ASSUME Base, InOrder, [Next]_vars PROVE InOrder'
<1>1. Base' /\ (Orderly' <=> Orderly)
  BY BaseKept, OrderlyStays
<1>2. ASSUME Orderly, spc = "exited" PROVE Exited' /\ spc' = "exited"
  BY <1>1, <1>2, ExitedKept DEF InOrder
<1>3. ASSUME Orderly, spc # "exited"
      PROVE  IF spc' = "exited" THEN Exited' ELSE Lines' /\ Books'
  BY <1>1, <1>3, LinesKept DEF InOrder
<1> QED
  BY <1>1, <1>2, <1>3 DEF InOrder

LEMMA OrderInit == ASSUME Init PROVE InOrder
<1>0. TypeOK
  BY BaseInit DEF Base
<1>1. /\ \A c \in Conns : Requests(c) = <<>> /\ Responses(c) = <<>> /\ gone[c] = {} /\ ~InQueue(c)
      /\ \A h \in Hosts : Sock(h) = 0
      /\ conns = 0 /\ reset = {} /\ spc = "poll" /\ depth = 0
      /\ \A h \in Clients : cpc[h] = "idle" /\ count[h] = 0 /\ done[h] = 0
      /\ Len(<<>>) = 0
  BY DEF Init, LinkInit, Requests, Responses, InQueue, Sock, INVALID_SOCKET
<1>2. \A h \in Clients, c \in Conns : Sock(h) # c
  BY <1>1, Names
<1>3. Open
  BY <1>1, <1>2, Names DEF Open
<1>4. Served
  BY <1>1, Names DEF Served
<1>5. Courses /\ Rising /\ First
  BY <1>1 DEF Courses, Course, Rising, First
<1>6. Unperformed = {}
  <2>1. UnperformedAre
    BY <1>0, UnperformedIs, TypeParts DEF Typed
  <2> QED
    BY <1>1, <2>1 DEF UnperformedAre, OnItsWay
<1>7. Suspended = {}
  BY <1>1 DEF Suspended
<1>8. \A h \in Clients, n \in Nat : ~Sus(h, n) /\ ~Res(h, n)
  BY <1>6, <1>7 DEF Sus, Res
<1>9. Kept = {} /\ \A h \in Clients : Alternate(h)
  BY <1>8 DEF Kept, Keeps, Alternate
<1>10. IsFiniteSet({}) /\ Cardinality({}) = 0
  BY FS_EmptySet
<1>11. Whole
  BY <1>6, <1>10 DEF Whole
<1>12. Numbers
  BY <1>1, <1>6 DEF Numbers
<1>13. Remaining("SUSPEND") = 0 /\ Remaining("RESUME") = 0
  <2>1. \A r : {p \in Unperformed : p.req = r} = {}
    BY <1>6
  <2> QED
    BY <1>10, <2>1 DEF Remaining
<1>14. Depth /\ Counts
  BY <1>1, <1>7, <1>9, <1>10, <1>13 DEF Depth, Counts
<1> QED
  BY <1>1, <1>3, <1>4, <1>5, <1>9, <1>11, <1>12, <1>14 DEF InOrder, Lines, Books

-----------------------------------------------------------------------------
(* The theorems *)

LEMMA OrderMeansOnce == ASSUME Base, InOrder PROVE OnceInOrder
<1> SUFFICES ASSUME Orderly, spc = "perform", buff.from \in Clients
             PROVE  buff.no = done[buff.from] + 1
  BY DEF OnceInOrder, OncePerRequest
<1>0. TypeOK /\ Lines /\ Books
  BY DEF Base, InOrder
<1>1. UnperformedAre
  BY <1>0, UnperformedIs, TypeParts DEF Typed
<1>2. buff \in Unperformed
  BY <1>1 DEF UnperformedAre
<1>3. /\ done[buff.from] < buff.no /\ buff.no <= count[buff.from]
      /\ buff.no \in Nat /\ done[buff.from] \in Nat /\ count[buff.from] \in Nat
  BY <1>0, <1>2, PacketParts, CountTypes DEF Books, Whole, Numbers
<1>4. PICK n \in Nat : n = done[buff.from] + 1
  BY <1>3
<1>5. PICK q \in Unperformed : q.from = buff.from /\ q.no = n
  BY <1>0, <1>3, <1>4 DEF Books, Numbers
<1>6. q = buff \/ buff.no < q.no
  BY <1>0, <1>1, <1>5 DEF UnperformedAre, OnItsWay, Lines, First
<1> QED
  BY <1>3, <1>4, <1>5, <1>6

LEMMA OrderMeansNesting == ASSUME Base, InOrder PROVE NestingOK
<1>0. TypeOK
  BY DEF Base
<1>1. CASE ~Orderly
  BY <1>0, <1>1 DEF NestingOK, SuspendCounts, ResumeNested, ExitLeavesNobody
<1>2. CASE Orderly /\ spc = "exited"
  <2>1. Exited
    BY <1>2 DEF InOrder
  <2>2. Suspended = {}
    BY <2>1 DEF Exited, Suspended
  <2>3. {p \in Unperformed : p.req = "SUSPEND"} = {} /\ {p \in Unperformed : p.req = "RESUME"} = {}
    BY <2>1 DEF Exited
  <2>4. depth = 0
    BY <2>1 DEF Exited
  <2>5. Remaining("SUSPEND") = 0 /\ Remaining("RESUME") = 0 /\ Cardinality(Suspended) = 0
    BY <2>2, <2>3, FS_EmptySet DEF Remaining
  <2> QED
    BY <1>0, <1>2, <2>2, <2>4, <2>5 DEF NestingOK, SuspendCounts, ResumeNested, ExitLeavesNobody
<1>3. CASE Orderly /\ spc # "exited"
  <2>1. Lines /\ Books
    BY <1>3 DEF InOrder
  <2>2. ResumeNested
    <3> SUFFICES ASSUME spc = "perform", buff.req = "RESUME" PROVE depth > 0
      BY DEF ResumeNested
    <3>1. UnperformedAre
      BY <1>0, UnperformedIs, TypeParts DEF Typed
    <3>2. buff \in Unperformed /\ \A q \in Unperformed : q.from = buff.from => q = buff \/ buff.no < q.no
      BY <2>1, <3>1 DEF UnperformedAre, OnItsWay, Lines, First
    <3>3. buff.from \in Clients
      BY <2>1, <3>2, PacketParts DEF Books, Whole
    <3> QED
      BY <1>0, <2>1, <3>2, <3>3, ResumeKept, KeptDeep
  <2> QED
    BY <1>0, <1>3, <2>1, <2>2 DEF NestingOK, SuspendCounts, ExitLeavesNobody, Books, Counts
<1> QED
  BY <1>1, <1>2, <1>3

\* While every client says goodbye, the server performs each client's requests
\* in the order they were made, none twice and none skipped, over all its
\* connections.
THEOREM OnceInOrderHolds == Spec => []OnceInOrder
<1>1. Init => Base /\ InOrder
  BY BaseInit, OrderInit
<1>2. Base /\ InOrder /\ [Next]_vars => Base' /\ InOrder'
  BY BaseKept, OrderKept
<1>3. Base /\ InOrder => OnceInOrder
  BY OrderMeansOnce
<1> QED
  BY <1>1, <1>2, <1>3, PTL DEF Spec

\* The calls of Session() nest as the suspended sessions do: they are as many,
\* but for what is on its way; a resume finds one; and the server exits on none.
THEOREM NestingHolds == Spec => []NestingOK
<1>1. Init => Base /\ InOrder
  BY BaseInit, OrderInit
<1>2. Base /\ InOrder /\ [Next]_vars => Base' /\ InOrder'
  BY BaseKept, OrderKept
<1>3. Base /\ InOrder => NestingOK
  BY OrderMeansNesting
<1> QED
  BY <1>1, <1>2, <1>3, PTL DEF Spec
=============================================================================

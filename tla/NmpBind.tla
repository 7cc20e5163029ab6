------------------------------- MODULE NmpBind -------------------------------
(***************************************************************************)
(* The named-pipe link: the two programs' side (nmp/c/nmplink.c) and the   *)
(* broker between them (nmp/c/nmpbind.c).                                  *)
(*                                                                         *)
(* A server and a debugger ("trap") never open a pipe to each other.  Each *)
(* asks the broker for a connection pipe, makes its requests through it,   *)
(* and for every connection opens a pair of data pipes to the broker.  The *)
(* broker has a thread for each connection pipe (ConnectThread), a main    *)
(* thread for newcomers, and for each connection two threads that copy     *)
(* messages from one side's write pipe to the other's read pipe            *)
(* (JoinPipeThread).  They share one record, the link, without a lock.     *)
(***************************************************************************)
EXTENDS Integers, Sequences

CONSTANTS
  Envs,        \* the environments considered, each a set of hazards (below)
  MaxStarts,   \* bound: programs started on each side
  MaxConnects, \* bound: connections of the debuggers
  MaxSends,    \* bound: requests on one connection, before the last
  PipeRoom     \* bound: messages a data pipe holds before a write to it waits

Hazards == {
  "busy",      \* a program may be slower than the broker's DosSleep(100)s
  "quit",      \* the server's user may quit it while a debugger is there
  "die",       \* a program may die at any moment
  "threads" }  \* the broker's threads may be preempted inside a request

ASSUME NmpConstants ==
  /\ Envs \subseteq SUBSET Hazards
  /\ MaxStarts \in Nat /\ MaxConnects \in Nat /\ MaxSends \in Nat
  /\ PipeRoom \in Nat \ {0, 1}

Sides == {"serv", "trap"}
Other(s) == IF s = "serv" THEN "trap" ELSE "serv"

VARIABLES
  env,             \* the environment, one of Envs
  \* the programs
  pc,              \* where each program is
  starts,          \* programs started on each side
  conns,           \* connections the debuggers have been granted
  nsent,           \* packets the debugger has sent on its connection
  heard,           \* of each side: the packet its last RemoteGet returned
  want,            \* the request in the server's PackBuff wants a response
  \* the pipes
  bind,            \* the bindery: whose request it is and how far it got
  box,             \* what is in each connection pipe
  pipe,            \* the state of each pipe
  msgs,            \* the messages in each data pipe
  \* the broker
  link,            \* the one a_link is on the list Links
  present, connect_started, connected,
  ct,              \* where each ConnectThread is
  relay            \* where each JoinPipeThread is, and the message it holds

programVars == <<pc, starts, conns, nsent, heard, want>>
pipeVars == <<bind, box, pipe, msgs>>
fields == <<present, connect_started, connected>>
brokerVars == <<link, fields, ct, relay>>
vars == <<env, programVars, pipeVars, brokerVars>>

\* Pipes are named by what their program does with them.  A pipe is none,
\* listening once DoOpen made it, open to its program, or closing when the
\* program has closed its end and the broker has not.
Pipe(kind, s) == <<kind, s>>
DataPipes == {"read", "write"} \X Sides
Pipes == DataPipes \cup ({"conn"} \X Sides)

\* A packet is one message, or, if it has at most one byte, two: the byte and
\* the true length.  Only "bye" (disconnect, suspend) is such a request.
Message == [conn : 1..MaxConnects, no : 1..(MaxSends + 1), part : {"whole", "byte", "len"},
            req : {"ask", "tell", "bye", "answer"}]
NoPacket == [conn |-> 0, no |-> 0]
Packet == [conn : 0..MaxConnects, no : 0..(MaxSends + 1)]

\* At most two pairs of JoinPipeThreads are ever started for a connection.
Relays == Sides \X {1, 2}
Idle == [at |-> "none", msg |-> <<>>]

-----------------------------------------------------------------------------
(* Pipes, as the operating system has them *)

\* DosClose by the program: what it wrote can still be read.
Close(ps) == pipe' = [p \in Pipes |-> IF p \in ps /\ pipe[p] = "open" THEN "closing" ELSE pipe[p]]

\* DosMakeNmPipe with one instance: fails, unnoticed, where the pipe exists.
Make(ps) ==
  /\ pipe' = [p \in Pipes |-> IF p \in ps /\ pipe[p] = "none" THEN "listening" ELSE pipe[p]]
  /\ msgs' = [p \in DataPipes |-> IF p \in ps /\ pipe[p] = "none" THEN <<>> ELSE msgs[p]]

\* DoClose: what was not read is gone.
DoClose(ps) ==
  /\ pipe' = [p \in Pipes |-> IF p \in ps THEN "none" ELSE pipe[p]]
  /\ msgs' = [p \in DataPipes |-> IF p \in ps THEN <<>> ELSE msgs[p]]

Open(p) == pipe[p] = "listening" /\ pipe' = [pipe EXCEPT ![p] = "open"]

-----------------------------------------------------------------------------
(* The programs: nmplink.c as its callers use it *)

At(s, from, to) == pc[s] = from /\ pc' = [pc EXCEPT ![s] = to]

\* OpenRequest; while someone else has the bindery open it fails.
RemoteLink(s) ==
  /\ At(s, "out", "linking") /\ starts[s] < MaxStarts
  /\ starts' = [starts EXCEPT ![s] = @ + 1]
  /\ bind.at = "free" /\ bind' = [who |-> s, at |-> "asked"]
  /\ UNCHANGED <<env, conns, nsent, heard, want, box, pipe, msgs, brokerVars>>

LinkAnswered(s) ==
  /\ At(s, "linking", IF bind.at = "ack" THEN "opening_conn" ELSE "out")
  /\ bind.at \in {"ack", "nack"} /\ bind' = [bind EXCEPT !.at = "free"]
  /\ UNCHANGED <<env, starts, conns, nsent, heard, want, box, pipe, msgs, brokerVars>>

\* DoOpen: tries until the pipe is there.
OpenConn(s) ==
  /\ At(s, "opening_conn", "idle") /\ Open(Pipe("conn", s))
  /\ UNCHANGED <<env, starts, conns, nsent, heard, want, bind, box, msgs, brokerVars>>

\* ConnRequest: the request here, the answer in a later step.
ConnRequest(s, req) == box' = [box EXCEPT ![s] = req]
Answered(s) == box[s] \in {"ack", "nack"} /\ box' = [box EXCEPT ![s] = "empty"]

\* The broker's sleeps are longer than what the server does meanwhile: when a
\* debugger connects, the last connection is over on both sides.
ServerReady == \/ "busy" \in env
               \/ /\ pc["serv"] \in {"out", "linking", "opening_conn", "idle", "connect"}
                  /\ \A r \in Relays : relay[r].at = "none"

RemoteConnect(s) ==
  /\ At(s, "idle", "connect") /\ ConnRequest(s, "CONNECT")
  /\ s = "trap" => conns < MaxConnects /\ ServerReady
  /\ UNCHANGED <<env, starts, conns, nsent, heard, want, bind, pipe, msgs, brokerVars>>

ConnectAnswered(s) ==
  /\ At(s, "connect", IF box[s] = "ack" THEN "opening_read" ELSE "idle")
  /\ Answered(s)
  /\ UNCHANGED <<env, starts, conns, nsent, heard, want, bind, pipe, msgs, brokerVars>>

OpenRead(s) ==
  /\ At(s, "opening_read", "opening_write") /\ Open(Pipe("read", s))
  /\ UNCHANGED <<env, starts, conns, nsent, heard, want, bind, box, msgs, brokerVars>>

OpenWrite(s) ==
  /\ At(s, "opening_write", "connect_done") /\ Open(Pipe("write", s))
  /\ ConnRequest(s, "END_CONNECT")
  /\ UNCHANGED <<env, starts, conns, nsent, heard, want, bind, msgs, brokerVars>>

\* RemoteConnect returns true; the debugger makes requests, the server waits.
ConnectDone(s) ==
  /\ At(s, "connect_done", IF s = "serv" THEN "get" ELSE "ready")
  /\ Answered(s)
  /\ nsent' = IF s = "trap" THEN 0 ELSE nsent
  /\ UNCHANGED <<env, starts, conns, heard, want, bind, pipe, msgs, brokerVars>>

\* DosWrite waits for room, and fails where the reader is gone.
Write(p, ms) ==
  IF pipe[p] = "open"
  THEN Len(msgs[p]) + Len(ms) <= PipeRoom /\ msgs' = [msgs EXCEPT ![p] = @ \o ms]
  ELSE UNCHANGED msgs

\* RemotePut of packet k, in one message or two.
RemotePut(s, k, req, parts) ==
  Write(Pipe("write", s),
        [i \in DOMAIN parts |-> [conn |-> k.conn, no |-> k.no, part |-> parts[i], req |-> req]])
NextPacket == [conn |-> conns, no |-> nsent + 1]

\* The first is REQ_CONNECT, with a response, or REQ_RESUME, without one: the
\* server has time to see it before the debugger leaves again.
Request(req) ==
  /\ nsent = 0 => req = "ask" \/ "busy" \in env
  /\ nsent < MaxSends /\ nsent' = nsent + 1
  /\ RemotePut("trap", NextPacket, req, <<"whole">>)
  /\ At("trap", "ready", IF pipe[Pipe("write", "trap")] # "open" THEN "failed"
                         ELSE IF req = "ask" THEN "get" ELSE "ready")
  /\ UNCHANGED <<env, starts, conns, heard, want, bind, box, pipe, brokerVars>>

\* ReqRemoteDisco: the packet nobody answers, then RemoteDisco.
Bye ==
  /\ nsent > 0 /\ At("trap", "ready", "disco")
  /\ nsent' = nsent + 1
  /\ RemotePut("trap", NextPacket, "bye", <<"byte", "len">>)
  /\ ConnRequest("trap", "DISCO")
  /\ UNCHANGED <<env, starts, conns, heard, want, bind, pipe, brokerVars>>

AnswerLengthFirst ==
  /\ At("serv", "answer", "get")
  /\ \E parts \in {<<"whole">>, <<"len", "byte">>} : RemotePut("serv", heard["serv"], "answer", parts)
  /\ UNCHANGED <<env, starts, conns, nsent, heard, want, bind, box, pipe, brokerVars>>
Answer ==
  /\ At("serv", "answer", "get")
  /\ \E parts \in {<<"whole">>, <<"byte", "len">>} : RemotePut("serv", heard["serv"], "answer", parts)
  /\ UNCHANGED <<env, starts, conns, nsent, heard, want, bind, box, pipe, brokerVars>>

\* What myread finds in a read pipe: a message, or failure.
Readable(s) == pipe[Pipe("read", s)] = "open" /\ msgs[Pipe("read", s)] # <<>>
Broken(s) == pipe[Pipe("read", s)] # "open"
Read(s) == msgs' = [msgs EXCEPT ![Pipe("read", s)] = Tail(@)]
Next1(s) == Head(msgs[Pipe("read", s)])
Named(m) == [conn |-> m.conn, no |-> m.no]

\* RemoteGet of a message longer than a byte; a length alone passes for one.
Get(s) ==
  LET m == Next1(s) IN
  /\ Readable(s) /\ m.part # "byte"
  /\ Read(s)
  /\ heard' = [heard EXCEPT ![s] = IF m.part = "whole" THEN Named(m) ELSE NoPacket]
  /\ At(s, "get", IF s = "trap" THEN "ready" ELSE IF m.req = "ask" THEN "answer" ELSE "get")
  /\ want' = IF s = "serv" THEN m.req = "ask" ELSE want
  /\ UNCHANGED <<env, starts, conns, nsent, bind, box, pipe, brokerVars>>

\* RemoteGet of a byte: its length comes in a message of its own.
GetByte(s) ==
  /\ Readable(s) /\ Next1(s).part = "byte"
  /\ At(s, "get", "get_length") /\ Read(s)
  /\ heard' = [heard EXCEPT ![s] = Named(Next1(s))]
  /\ UNCHANGED <<env, starts, conns, nsent, want, bind, box, pipe, brokerVars>>

\* A byte to the server is a bye, whether or not its length arrives: Session
\* does not look at the result of RemoteGet.
GetLengthServ ==
  /\ At("serv", "get_length", "disco")
  /\ \/ Readable("serv") /\ Read("serv")
     \/ Broken("serv") /\ UNCHANGED msgs
  /\ want' = FALSE
  /\ ConnRequest("serv", "DISCO")
  /\ UNCHANGED <<env, starts, conns, nsent, heard, bind, pipe, brokerVars>>

GetLengthTrap ==
  /\ \/ Readable("trap") /\ Read("trap") /\ At("trap", "get_length", IF Next1("trap").part = "len" THEN "ready" ELSE "failed")
     \/ Broken("trap") /\ UNCHANGED msgs /\ At("trap", "get_length", "failed")
  /\ UNCHANGED <<env, starts, conns, nsent, heard, want, bind, box, pipe, brokerVars>>

\* RemoteGet fails: the debugger gives up, Session performs its last request
\* again (which is no step unless it has a response to send).
GetFailed(s) ==
  /\ Broken(s)
  /\ s = "serv" => want
  /\ At(s, "get", IF s = "serv" THEN "answer" ELSE "failed")
  /\ UNCHANGED <<env, starts, conns, nsent, heard, want, pipeVars, brokerVars>>

\* RemoteDisco has its answer.
Disconnected(s) ==
  /\ At(s, "disco", "idle") /\ Answered(s)
  /\ s = "trap" /\ "busy" \notin env => heard["serv"] = [conn |-> conns, no |-> nsent]
                                      /\ pc["serv"] # "get_length"
  /\ Close({Pipe("read", s), Pipe("write", s)})
  /\ UNCHANGED <<env, starts, conns, nsent, heard, want, bind, msgs, brokerVars>>

\* RemoteUnLink, when the server's user quits or the debugger ends.
RemoteUnLink(s) ==
  /\ At(s, "idle", "out")
  /\ s = "serv" => "quit" \in env \/ pc["trap"] = "out"
  /\ Close({Pipe("conn", s)})
  /\ UNCHANGED <<env, starts, conns, nsent, heard, want, bind, box, msgs, brokerVars>>

\* The end of a program that did not disconnect.
Exit(s) ==
  /\ pc[s] = "failed" \/ ("die" \in env /\ pc[s] \notin {"out", "linking"})
  /\ At(s, pc[s], "out")
  /\ Close({"conn", "read", "write"} \X {s})
  /\ box' = [box EXCEPT ![s] = IF @ \in {"ack", "nack"} THEN "empty" ELSE @]
  /\ UNCHANGED <<env, starts, conns, nsent, heard, want, bind, msgs, brokerVars>>

-----------------------------------------------------------------------------
(* The broker: nmpbind.c *)

\* JoinPipeThreads are time-critical: while one can run no other thread does.
In(r) == Pipe("write", r[1])
Out(r) == Pipe("read", Other(r[1]))
Waiting(r) ==
  \/ relay[r].at = "none"
  \/ relay[r].at = "read" /\ pipe[In(r)] = "open" /\ msgs[In(r)] = <<>>
  \/ relay[r].at = "write" /\ pipe[Out(r)] = "open" /\ Len(msgs[Out(r)]) = PipeRoom

\* The others have one priority, and unless "threads" each runs from one wait
\* to the next: x is the only one that is not waiting.
Busy == {s \in Sides : ct[s] \in {"joining", "freeing"}}
        \cup (IF bind.at \in {"found", "missing"} THEN {"main"} ELSE {})
Runs(x) == /\ \A r \in Relays : Waiting(r)
           /\ "threads" \in env \/ Busy \subseteq {x}

\* ProcessRequest, as far as FindLink.  CheckForTraffic slept 500 ms before:
\* who closed a connection pipe earlier has been noticed.
FindLink ==
  /\ Runs("main") /\ bind.at = "asked"
  /\ "busy" \in env \/ \A s \in Sides : pipe[Pipe("conn", s)] # "closing" /\ ct[s] # "freeing"
  /\ bind' = [bind EXCEPT !.at = IF link THEN "found" ELSE "missing"]
  /\ UNCHANGED <<env, programVars, box, pipe, msgs, brokerVars>>

\* A new link, with its connection pipe and thread.
OpenServ ==
  /\ Runs("main") /\ bind.who = "serv" /\ bind.at \in {"found", "missing"}
  /\ IF bind.at = "missing"
     THEN /\ link' = TRUE
          /\ connected' = [s \in Sides |-> FALSE] /\ connect_started' = connected'
          /\ LET ok == pipe[Pipe("conn", "serv")] = "none"
             IN /\ present' = [s \in Sides |-> s = "serv" /\ ok]
                /\ ct' = IF ok THEN [ct EXCEPT !["serv"] = "read"] ELSE ct
                /\ bind' = [bind EXCEPT !.at = IF ok THEN "ack" ELSE "nack"]
          /\ Make({Pipe("conn", "serv")})
     ELSE /\ bind' = [bind EXCEPT !.at = "nack"]
          /\ UNCHANGED <<link, fields, ct, pipe, msgs>>
  /\ UNCHANGED <<env, programVars, box, relay>>

OpenTrap ==
  /\ Runs("main") /\ bind.who = "trap" /\ bind.at \in {"found", "missing"}
  /\ IF bind.at = "found" /\ pipe[Pipe("conn", "trap")] = "none"
     THEN /\ Make({Pipe("conn", "trap")})
          /\ present' = [present EXCEPT !["trap"] = TRUE]
          /\ ct' = [ct EXCEPT !["trap"] = "read"]
          /\ bind' = [bind EXCEPT !.at = "ack"]
     ELSE /\ bind' = [bind EXCEPT !.at = "nack"]
          /\ UNCHANGED <<present, ct, pipe, msgs>>
  /\ UNCHANGED <<env, programVars, box, link, connect_started, connected, relay>>

\* ConnectThread, in its DosRead: a request is there.
Reads(s, req) == Runs(s) /\ ct[s] = "read" /\ box[s] = req
Ack(s) == box' = [box EXCEPT ![s] = IF pipe[Pipe("conn", s)] = "open" THEN "ack" ELSE "empty"]
Nack(s) == box' = [box EXCEPT ![s] = IF pipe[Pipe("conn", s)] = "open" THEN "nack" ELSE "empty"]

\* The server's next CONNECT comes two sleeps after its own DISCO, and is read
\* after a third: a DISCO the debugger made before has been read.
ConnectServ ==
  /\ Reads("serv", "CONNECT") /\ ("busy" \in env \/ box["trap"] # "DISCO")
  /\ IF connect_started["trap"]
     THEN connect_started' = [connect_started EXCEPT !["serv"] = TRUE] /\ Ack("serv")
     ELSE UNCHANGED connect_started /\ Nack("serv")
  /\ UNCHANGED <<env, programVars, bind, pipe, msgs, link, present, connected, ct, relay>>

\* The data pipes are made here, those that still exist are left alone.
ConnectTrap ==
  /\ Reads("trap", "CONNECT")
  /\ IF present["serv"]
     THEN /\ connect_started' = [connect_started EXCEPT !["trap"] = TRUE]
          /\ conns' = conns + 1
          /\ Make(DataPipes) /\ Ack("trap")
     ELSE UNCHANGED <<connect_started, conns, pipe, msgs>> /\ Nack("trap")
  /\ UNCHANGED <<env, pc, starts, nsent, heard, want, bind, link, present, connected, ct, relay>>

EndConnect(s) ==
  /\ Reads(s, "END_CONNECT")
  /\ connected' = [connected EXCEPT ![s] = TRUE]
  /\ ct' = [ct EXCEPT ![s] = "joining"]
  /\ UNCHANGED <<env, programVars, pipeVars, link, present, connect_started, relay>>

\* Whoever finds the other side connected starts the two JoinPipeThreads.
Join(s) ==
  /\ Runs(s) /\ ct[s] = "joining" /\ ct' = [ct EXCEPT ![s] = "read"]
  /\ relay' = IF ~connected[Other(s)] THEN relay
              ELSE LET i == IF relay[<<"serv", 1>>].at = "none" /\ relay[<<"trap", 1>>].at = "none" THEN 1 ELSE 2
                   IN [r \in Relays |-> IF r[2] = i THEN [at |-> "test", msg |-> <<>>] ELSE relay[r]]
  /\ Ack(s)
  /\ UNCHANGED <<env, programVars, bind, pipe, msgs, link, fields>>

Disco(s) ==
  /\ Reads(s, "DISCO")
  /\ connect_started' = [connect_started EXCEPT ![s] = FALSE]
  /\ ct' = [ct EXCEPT ![s] = "sleeping"]
  /\ UNCHANGED <<env, programVars, pipeVars, link, present, connected, relay>>

DiscoAck(s) ==
  /\ Runs(s) /\ ct[s] = "sleeping" /\ ct' = [ct EXCEPT ![s] = "read"]
  /\ Ack(s)
  /\ UNCHANGED <<env, programVars, bind, pipe, msgs, link, fields, relay>>

\* The program has closed its end of the connection pipe.
ConnectionEnds(s) ==
  /\ Reads(s, "empty") /\ pipe[Pipe("conn", s)] = "closing"
  /\ present' = [present EXCEPT ![s] = FALSE]
  /\ DoClose({Pipe("conn", s)})
  /\ ct' = [ct EXCEPT ![s] = "freeing"]
  /\ UNCHANGED <<env, programVars, bind, box, link, connect_started, connected, relay>>

FreeLink(s) ==
  /\ Runs(s) /\ ct[s] = "freeing" /\ ct' = [ct EXCEPT ![s] = "none"]
  /\ link' = (link /\ present[Other(s)])
  /\ UNCHANGED <<env, programVars, pipeVars, fields, relay>>

\* JoinPipeThread r copies from its side's write pipe to the other's read pipe.
Move(r, from, to, msg) == relay[r].at = from /\ relay' = [relay EXCEPT ![r] = [at |-> to, msg |-> msg]]

JoinTest(r) ==
  /\ Move(r, "test", IF connected["serv"] /\ connected["trap"] THEN "read" ELSE "end", <<>>)
  /\ UNCHANGED <<env, programVars, pipeVars, link, fields, ct>>

JoinRead(r) ==
  /\ \/ /\ pipe[In(r)] \in {"open", "closing"} /\ msgs[In(r)] # <<>>
        /\ Move(r, "read", "write", <<Head(msgs[In(r)])>>)
        /\ msgs' = [msgs EXCEPT ![In(r)] = Tail(@)]
     \/ /\ pipe[In(r)] # "open" /\ msgs[In(r)] = <<>>
        /\ Move(r, "read", "end", <<>>)
        /\ UNCHANGED msgs
  /\ UNCHANGED <<env, programVars, bind, box, pipe, link, fields, ct>>

JoinWrite(r) ==
  /\ Move(r, "write", IF pipe[Out(r)] = "open" THEN "test" ELSE "end", <<>>)
  /\ Write(Out(r), relay[r].msg)
  /\ UNCHANGED <<env, programVars, bind, box, pipe, link, fields, ct>>

JoinEndHalf(r) ==
  /\ Move(r, "end", "none", <<>>)
  /\ DoClose({In(r)})
  /\ connected' = [connected EXCEPT ![r[1]] = FALSE]
  /\ connect_started' = [connect_started EXCEPT ![r[1]] = FALSE]
  /\ UNCHANGED <<env, programVars, bind, box, link, present, ct>>
JoinEndConnected(r) ==
  /\ Move(r, "end", "none", <<>>)
  /\ DoClose({In(r), Out(r)})
  /\ connect_started' = [connect_started EXCEPT ![r[1]] = FALSE]
  /\ UNCHANGED <<env, programVars, bind, box, link, present, connected, ct>>
JoinEnd(r) ==
  /\ Move(r, "end", "none", <<>>)
  /\ DoClose({In(r), Out(r)})
  /\ connected' = [connected EXCEPT ![r[1]] = FALSE]
  /\ connect_started' = [connect_started EXCEPT ![r[1]] = FALSE]
  /\ UNCHANGED <<env, programVars, bind, box, link, present, ct>>

-----------------------------------------------------------------------------
Init ==
  /\ env \in Envs
  /\ pc = [s \in Sides |-> "out"] /\ starts = [s \in Sides |-> 0]
  /\ conns = 0 /\ nsent = 0 /\ heard = [s \in Sides |-> NoPacket] /\ want = FALSE
  /\ bind = [who |-> "serv", at |-> "free"] /\ box = [s \in Sides |-> "empty"]
  /\ pipe = [p \in Pipes |-> "none"] /\ msgs = [p \in DataPipes |-> <<>>]
  /\ link = FALSE
  /\ present = [s \in Sides |-> FALSE] /\ connected = present /\ connect_started = present
  /\ ct = [s \in Sides |-> "none"] /\ relay = [r \in Relays |-> Idle]

\* What a program does once it has begun; its user decides the rest.
Continue(s) ==
  \/ LinkAnswered(s) \/ OpenConn(s)
  \/ ConnectAnswered(s) \/ OpenRead(s) \/ OpenWrite(s) \/ ConnectDone(s)
  \/ Get(s) \/ GetByte(s) \/ GetFailed(s) \/ Disconnected(s)
  \/ s = "serv" /\ (RemoteConnect(s) \/ Answer \/ GetLengthServ)
  \/ s = "trap" /\ GetLengthTrap
User(s) ==
  \/ RemoteLink(s) \/ RemoteUnLink(s) \/ Exit(s)
  \/ s = "trap" /\ (RemoteConnect(s) \/ Bye \/ \E req \in {"ask", "tell"} : Request(req))
Main == FindLink \/ OpenServ \/ OpenTrap
ConnectThread(s) ==
  \/ s = "serv" /\ ConnectServ
  \/ s = "trap" /\ ConnectTrap
  \/ EndConnect(s) \/ Join(s) \/ Disco(s) \/ DiscoAck(s) \/ ConnectionEnds(s) \/ FreeLink(s)
JoinPipeThread(r) == JoinTest(r) \/ JoinRead(r) \/ JoinWrite(r) \/ JoinEnd(r)

Next ==
  \/ \E s \in Sides : Continue(s) \/ User(s) \/ ConnectThread(s)
  \/ Main
  \/ \E r \in Relays : JoinPipeThread(r)

Spec == Init /\ [][Next]_vars
FairSpec ==
  /\ Spec
  /\ \A s \in Sides : WF_vars(Continue(s)) /\ WF_vars(ConnectThread(s))
  /\ WF_vars(Main)
  /\ \A r \in Relays : WF_vars(JoinPipeThread(r))

-----------------------------------------------------------------------------
\* Every variable has its type; a pipe that is gone holds nothing, and a
\* JoinPipeThread holds a message exactly while it is writing it.
TypeOK ==
  /\ env \in Envs
  /\ pc \in [Sides -> {"out", "linking", "opening_conn", "idle", "connect", "opening_read",
                       "opening_write", "connect_done", "ready", "get", "get_length",
                       "answer", "disco", "failed"}]
  /\ starts \in [Sides -> 0..MaxStarts] /\ conns \in 0..MaxConnects
  /\ nsent \in 0..(MaxSends + 1) /\ heard \in [Sides -> Packet] /\ want \in BOOLEAN
  /\ bind \in [who : Sides, at : {"free", "asked", "found", "missing", "ack", "nack"}]
  /\ box \in [Sides -> {"empty", "ack", "nack", "CONNECT", "END_CONNECT", "DISCO"}]
  /\ pipe \in [Pipes -> {"none", "listening", "open", "closing"}]
  /\ \A p \in DataPipes : msgs[p] \in Seq(Message) /\ (pipe[p] = "none" => msgs[p] = <<>>)
  /\ link \in BOOLEAN /\ present \in [Sides -> BOOLEAN]
  /\ connect_started \in [Sides -> BOOLEAN] /\ connected \in [Sides -> BOOLEAN]
  /\ ct \in [Sides -> {"none", "read", "joining", "sleeping", "freeing"}]
  /\ \A r \in Relays : relay[r].at \in {"none", "test", "read", "write", "end"}
                      /\ (relay[r].at = "write" <=> relay[r].msg # <<>>)

\* No thread outlives the link it points to: FreeLink is called by the last
\* ConnectThread, once, and after the JoinPipeThreads have ended.
ThreadsHaveLink ==
  ~link => /\ \A s \in Sides : ct[s] = "none"
           /\ \A r \in Relays : relay[r].at = "none"

\* A connection has one JoinPipeThread each way, also when both sides end their
\* RemoteConnect together, or one of them dies and another takes its place.
OneRelay == \A s \in Sides : relay[<<s, 1>>].at = "none" \/ relay[<<s, 2>>].at = "none"

\* The threads of a link are as many as its connection needs, and none is left
\* when it is freed.
LinkKept == TypeOK /\ ThreadsHaveLink /\ OneRelay

\* RemoteGet returns the packets of a connection complete and in the order they
\* were put, never one of an earlier connection, and a response only to the
\* request that waits for it.
RightOrder ==
  [][/\ heard'["serv"] # heard["serv"] =>
          IF heard'["serv"].conn = heard["serv"].conn THEN heard'["serv"].no = heard["serv"].no + 1
          ELSE heard'["serv"].conn > heard["serv"].conn /\ heard'["serv"].no = 1
     /\ heard'["trap"] # heard["trap"] => heard'["trap"] = [conn |-> conns, no |-> nsent]]_vars

RemoteConnectCall == {"connect", "opening_read", "opening_write", "connect_done"}
Calls(s) == {"linking", "opening_conn", "disco"} \cup RemoteConnectCall
            \cup (IF s = "trap" THEN {"get", "get_length"} ELSE {})

\* With programs in time, every call of the six functions returns (but for the
\* server's RemoteGet, which waits for a request), whatever came before.
CallsEnd == env = {} => \A s \in Sides : pc[s] \in Calls(s) ~> pc[s] \notin Calls(s)

\* When both programs have ended in good order the broker keeps nothing of
\* them: the link is freed and its pipes are closed.
Gone == \A s \in Sides : pc[s] = "out"
Released ==
  env = {} => (Gone ~> ~Gone \/ (~link /\ \A p \in Pipes : pipe[p] = "none"))
=============================================================================

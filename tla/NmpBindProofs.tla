---------------------------- MODULE NmpBindProofs ----------------------------
(***************************************************************************)
(* Theorems about the named-pipe broker, whatever its programs do and      *)
(* whenever they die, as long as its threads of one priority run from one  *)
(* wait to the next.  Its threads and pipes: a link has the threads it     *)
(* needs, and none is left when it is freed.  The packets: what the two    *)
(* programs hear of each other arrives complete and in order, never on a   *)
(* later connection, and a response only to the request that waits for it. *)
(***************************************************************************)
EXTENDS NmpBind, TLAPS

-----------------------------------------------------------------------------
(* The invariant *)

\* The three pipes of a program.
ConnPipe(s) == pipe[Pipe("conn", s)]
ReadPipe(s) == pipe[Pipe("read", s)]
WritePipe(s) == pipe[Pipe("write", s)]
Up == {"open", "closing"}

\* What the types leave open: a request for a response is one message, and the
\* numbers of the packets.
AsksWhole(w) == \A i \in 1..Len(w) : w[i].req = "ask" => w[i].part = "whole"
Numbers ==
  /\ \A p \in DataPipes : AsksWhole(msgs[p])
  /\ \A r \in Relays : AsksWhole(relay[r].msg)
  /\ want => heard["serv"].conn >= 1 /\ heard["serv"].no >= 1
  /\ pc["serv"] = "answer" => want
  /\ box["trap"] = "CONNECT" => conns < MaxConnects
  /\ pc["trap"] \in {"ready", "get", "get_length"} => nsent <= MaxSends
  /\ \/ conns >= 1
     \/ /\ pc["trap"] \in {"out", "linking", "opening_conn", "idle", "connect"}
        /\ box["trap"] \in {"empty", "nack", "CONNECT"}
        /\ ct["trap"] \notin {"joining", "sleeping"}

\* A program has its pipes open only while it uses them.
Programs ==
  \A s \in Sides :
    /\ ConnPipe(s) = "open" <=> pc[s] \notin {"out", "linking", "opening_conn"}
    /\ ReadPipe(s) = "open" =>
         pc[s] \in {"opening_write", "connect_done", "ready", "get", "get_length", "answer", "disco", "failed"}
    /\ WritePipe(s) = "open" =>
         pc[s] \in {"connect_done", "ready", "get", "get_length", "answer", "disco", "failed"}
    /\ pc[s] \in {"opening_read", "opening_write"} => box[s] # "END_CONNECT"

\* The main thread and the ConnectThreads take turns; each thread has its pipe,
\* and the link.
Turns ==
  /\ "threads" \notin env
  /\ \A x, y \in Busy : x = y
  /\ bind.at = "found" => link
  /\ bind.at = "missing" => ~link
Threads ==
  /\ \A s \in Sides : present[s] <=> ct[s] \in {"read", "joining", "sleeping"}
  /\ \A s \in Sides : present[s] <=> ConnPipe(s) # "none"
  /\ ThreadsHaveLink

\* A side is connected as long as its JoinPipeThread runs, and before that
\* while it waits for the other side.  Its pipes stay until that thread ends.
Active(s) == relay[<<s, 1>>].at # "none"
Pairs ==
  \A s \in Sides :
    /\ relay[<<s, 2>>].at = "none"
    /\ Active(s) => connected[s] /\ ReadPipe(Other(s)) \in Up
    /\ connected[s] => WritePipe(s) \in Up
    /\ connected[s] /\ ~Active(s) => ReadPipe(s) \in Up /\ ~Active(Other(s))
    /\ box[s] = "END_CONNECT" /\ ct[s] # "joining" =>
         ~connected[s] /\ WritePipe(s) \in Up /\ ReadPipe(s) \in Up /\ ~Active(Other(s))
    /\ pc[s] = "opening_write" =>
         /\ ReadPipe(s) = "open" /\ ~Active(Other(s))
         /\ connected[s] => Active(s)
    /\ ct[s] = "joining" => connected[s] /\ ~Active(s) /\ ~Active(Other(s))

-----------------------------------------------------------------------------
(* Types *)

PCs == {"out", "linking", "opening_conn", "idle", "connect", "opening_read",
        "opening_write", "connect_done", "ready", "get", "get_length",
        "answer", "disco", "failed"}
Requests == {"empty", "ack", "nack", "CONNECT", "END_CONNECT", "DISCO"}
PipeStates == {"none", "listening", "open", "closing"}
RelayAts == {"none", "test", "read", "write", "end"}

\* TypeOK, with the domains that it leaves open.
Typed ==
  /\ env \in Envs
  /\ pc \in [Sides -> PCs]
  /\ starts \in [Sides -> 0..MaxStarts] /\ conns \in 0..MaxConnects
  /\ nsent \in 0..(MaxSends + 1) /\ heard \in [Sides -> Packet] /\ want \in BOOLEAN
  /\ bind \in [who : Sides, at : {"free", "asked", "found", "missing", "ack", "nack"}]
  /\ box \in [Sides -> Requests]
  /\ pipe \in [Pipes -> PipeStates]
  /\ msgs \in [DataPipes -> Seq(Message)]
  /\ link \in BOOLEAN /\ present \in [Sides -> BOOLEAN]
  /\ connect_started \in [Sides -> BOOLEAN] /\ connected \in [Sides -> BOOLEAN]
  /\ ct \in [Sides -> {"none", "read", "joining", "sleeping", "freeing"}]
  /\ relay \in [Relays -> [at : RelayAts, msg : Seq(Message)]]
Emptied ==
  /\ \A p \in DataPipes : pipe[p] = "none" => msgs[p] = <<>>
  /\ \A r \in Relays : relay[r].at = "write" <=> relay[r].msg # <<>>

LEMMA TypedIs == Typed /\ Emptied => TypeOK
BY DEF Typed, Emptied, TypeOK, PCs, Requests, PipeStates, RelayAts

\* Sides and pipes.
LEMMA SideFacts ==
  /\ "serv" \in Sides /\ "trap" \in Sides /\ \A s \in Sides : s = "serv" \/ s = "trap"
  /\ Other("serv") = "trap" /\ Other("trap") = "serv"
  /\ \A s \in Sides : Other(s) \in Sides /\ Other(s) # s /\ Other(Other(s)) = s
  /\ \A s, t \in Sides : t = s \/ t = Other(s)
BY DEF Sides, Other

LEMMA PipeFacts ==
  /\ \A s \in Sides : /\ Pipe("conn", s) \in Pipes \ DataPipes
                      /\ Pipe("read", s) \in DataPipes /\ Pipe("write", s) \in DataPipes
  /\ DataPipes \subseteq Pipes
  /\ \A p \in DataPipes : \E s \in Sides : p = Pipe("read", s) \/ p = Pipe("write", s)
  /\ \A p \in Pipes \ DataPipes : \E s \in Sides : p = Pipe("conn", s)
  /\ \A s, t \in Sides :
       /\ Pipe("read", s) # Pipe("write", t) /\ Pipe("conn", s) # Pipe("write", t)
       /\ Pipe("conn", s) # Pipe("read", t)
       /\ s # t => /\ Pipe("read", s) # Pipe("read", t) /\ Pipe("write", s) # Pipe("write", t)
                   /\ Pipe("conn", s) # Pipe("conn", t)
BY DEF Pipe, Pipes, DataPipes

LEMMA RelayFacts ==
  /\ \A s \in Sides, i \in {1, 2} : <<s, i>> \in Relays /\ <<s, i>>[1] = s /\ <<s, i>>[2] = i
  /\ \A r \in Relays : \E s \in Sides : r = <<s, 1>> \/ r = <<s, 2>>
  /\ \A r \in Relays : r[1] \in Sides /\ In(r) \in DataPipes /\ Out(r) \in DataPipes
  /\ \A s \in Sides : <<s, 1>> # <<s, 2>>
  /\ \A s, t \in Sides, i, j \in {1, 2} : <<s, i>> = <<t, j>> => s = t /\ i = j
  /\ \A s \in Sides, i \in {1, 2} : In(<<s, i>>) = Pipe("write", s) /\ Out(<<s, i>>) = Pipe("read", Other(s))
BY SideFacts, PipeFacts DEF Relays, In, Out

\* What happens to the pipes keeps their types.
LEMMA PipesTyped ==
  ASSUME Typed
  PROVE  /\ \A ps : Close(ps) => pipe' \in [Pipes -> PipeStates]
         /\ \A p \in Pipes : Open(p) => pipe' \in [Pipes -> PipeStates]
         /\ \A ps : Make(ps) \/ DoClose(ps) =>
              pipe' \in [Pipes -> PipeStates] /\ msgs' \in [DataPipes -> Seq(Message)]
<1>1. <<>> \in Seq(Message)
  OBVIOUS
<1>2. ASSUME NEW ps, Close(ps) PROVE pipe' \in [Pipes -> PipeStates]
  BY <1>2 DEF Typed, Close, PipeStates
<1>3. ASSUME NEW p \in Pipes, Open(p) PROVE pipe' \in [Pipes -> PipeStates]
  BY <1>3 DEF Typed, Open, PipeStates
<1>4. ASSUME NEW ps, Make(ps) PROVE pipe' \in [Pipes -> PipeStates]
  BY <1>4 DEF Typed, Make, PipeStates
<1>5. ASSUME NEW ps, DoClose(ps) PROVE pipe' \in [Pipes -> PipeStates]
  BY <1>5 DEF Typed, DoClose, PipeStates
<1>6. ASSUME NEW ps, Make(ps) PROVE msgs' \in [DataPipes -> Seq(Message)]
  BY <1>1, <1>6 DEF Typed, Make
<1>7. ASSUME NEW ps, DoClose(ps) PROVE msgs' \in [DataPipes -> Seq(Message)]
  BY <1>1, <1>7 DEF Typed, DoClose
<1> QED
  BY <1>2, <1>3, <1>4, <1>5, <1>6, <1>7

LEMMA WriteTyped ==
  ASSUME Typed, NEW p \in DataPipes, NEW ms \in Seq(Message), Write(p, ms)
  PROVE  msgs' \in [DataPipes -> Seq(Message)]
<1>1. msgs[p] \o ms \in Seq(Message)
  BY DEF Typed
<1> QED
  BY <1>1 DEF Typed, Write

\* A packet in one message or two.
Parted == {<<"whole">>, <<"byte", "len">>}
LEMMA PartsTyped ==
  ASSUME NEW conn \in 1..MaxConnects, NEW no \in 1..(MaxSends + 1), NEW parts \in Parted,
         NEW req \in {"ask", "tell", "bye", "answer"}
  PROVE  [i \in DOMAIN parts |-> [conn |-> conn, no |-> no, part |-> parts[i], req |-> req]] \in Seq(Message)
<1>1. \A part \in {"whole", "byte", "len"} : [conn |-> conn, no |-> no, part |-> part, req |-> req] \in Message
  BY DEF Message
<1>2. CASE parts = <<"whole">>
  <2>1. DOMAIN parts = 1..1 /\ parts[1] = "whole"
    BY <1>2
  <2> QED
    BY <2>1, <1>1
<1>3. CASE parts = <<"byte", "len">>
  <2>1. DOMAIN parts = 1..2 /\ parts[1] = "byte" /\ parts[2] = "len"
    BY <1>3
  <2>2. \A i \in 1..2 : parts[i] \in {"whole", "byte", "len"}
    BY <2>1
  <2> QED
    BY <2>1, <2>2, <1>1
<1> QED
  BY <1>2, <1>3 DEF Parted

LEMMA TailTyped ==
  ASSUME NEW S, NEW w \in Seq(S), w # <<>>
  PROVE  /\ Tail(w) \in Seq(S) /\ Head(w) \in S /\ Len(w) \in Nat \ {0} /\ Head(w) = w[1]
         /\ Len(Tail(w)) = Len(w) - 1
         /\ \A i \in 1..Len(Tail(w)) : Tail(w)[i] = w[i + 1] /\ i + 1 \in 1..Len(w)
OBVIOUS

-----------------------------------------------------------------------------
(* What a step does to the three pipes of each side *)

LEMMA CloseIs ==
  ASSUME Typed, NEW ps, Close(ps), NEW t \in Sides
  PROVE  /\ ConnPipe(t)' = IF Pipe("conn", t) \in ps /\ ConnPipe(t) = "open" THEN "closing" ELSE ConnPipe(t)
         /\ ReadPipe(t)' = IF Pipe("read", t) \in ps /\ ReadPipe(t) = "open" THEN "closing" ELSE ReadPipe(t)
         /\ WritePipe(t)' = IF Pipe("write", t) \in ps /\ WritePipe(t) = "open" THEN "closing" ELSE WritePipe(t)
BY PipeFacts DEF Close, ConnPipe, ReadPipe, WritePipe

LEMMA MakeIs ==
  ASSUME Typed, NEW ps, Make(ps), NEW t \in Sides
  PROVE  /\ ConnPipe(t)' = IF Pipe("conn", t) \in ps /\ ConnPipe(t) = "none" THEN "listening" ELSE ConnPipe(t)
         /\ ReadPipe(t)' = IF Pipe("read", t) \in ps /\ ReadPipe(t) = "none" THEN "listening" ELSE ReadPipe(t)
         /\ WritePipe(t)' = IF Pipe("write", t) \in ps /\ WritePipe(t) = "none" THEN "listening" ELSE WritePipe(t)
BY PipeFacts DEF Make, ConnPipe, ReadPipe, WritePipe

LEMMA DoCloseIs ==
  ASSUME Typed, NEW ps, DoClose(ps), NEW t \in Sides
  PROVE  /\ ConnPipe(t)' = IF Pipe("conn", t) \in ps THEN "none" ELSE ConnPipe(t)
         /\ ReadPipe(t)' = IF Pipe("read", t) \in ps THEN "none" ELSE ReadPipe(t)
         /\ WritePipe(t)' = IF Pipe("write", t) \in ps THEN "none" ELSE WritePipe(t)
BY PipeFacts DEF DoClose, ConnPipe, ReadPipe, WritePipe

LEMMA OpenIs ==
  ASSUME Typed, NEW p \in Pipes, Open(p), NEW t \in Sides
  PROVE  /\ pipe[p] = "listening"
         /\ ConnPipe(t)' = IF p = Pipe("conn", t) THEN "open" ELSE ConnPipe(t)
         /\ ReadPipe(t)' = IF p = Pipe("read", t) THEN "open" ELSE ReadPipe(t)
         /\ WritePipe(t)' = IF p = Pipe("write", t) THEN "open" ELSE WritePipe(t)
BY PipeFacts DEF Open, Typed, ConnPipe, ReadPipe, WritePipe

ConnKept == \A t \in Sides : ConnPipe(t)' = ConnPipe(t)
ReadKept == \A t \in Sides : ReadPipe(t)' = ReadPipe(t)
WriteKept == \A t \in Sides : WritePipe(t)' = WritePipe(t)
AllKept == ConnKept /\ ReadKept /\ WriteKept

LEMMA AllKeptIs == ASSUME pipe' = pipe PROVE AllKept
BY DEF AllKept, ConnKept, ReadKept, WriteKept, ConnPipe, ReadPipe, WritePipe

LEMMA OpenConnIs ==
  ASSUME Typed, NEW s \in Sides, OpenConn(s)
  PROVE  /\ ConnPipe(s) = "listening" /\ ConnPipe(s)' = "open"
         /\ ConnPipe(Other(s))' = ConnPipe(Other(s)) /\ ReadKept /\ WriteKept
BY OpenIs, PipeFacts, SideFacts DEF OpenConn, ConnPipe, ReadKept, WriteKept

LEMMA OpenReadIs ==
  ASSUME Typed, NEW s \in Sides, OpenRead(s)
  PROVE  /\ ReadPipe(s) = "listening" /\ ReadPipe(s)' = "open"
         /\ ReadPipe(Other(s))' = ReadPipe(Other(s)) /\ ConnKept /\ WriteKept
BY OpenIs, PipeFacts, SideFacts DEF OpenRead, ReadPipe, ConnKept, WriteKept

LEMMA OpenWriteIs ==
  ASSUME Typed, NEW s \in Sides, OpenWrite(s)
  PROVE  /\ WritePipe(s) = "listening" /\ WritePipe(s)' = "open"
         /\ WritePipe(Other(s))' = WritePipe(Other(s)) /\ ConnKept /\ ReadKept
BY OpenIs, PipeFacts, SideFacts DEF OpenWrite, WritePipe, ConnKept, ReadKept

\* What DosClose leaves of a pipe.
Shut(state) == IF state = "open" THEN "closing" ELSE state

LEMMA DisconnectedIs ==
  ASSUME Typed, NEW s \in Sides, Disconnected(s)
  PROVE  /\ ReadPipe(s)' = Shut(ReadPipe(s)) /\ WritePipe(s)' = Shut(WritePipe(s))
         /\ ReadPipe(Other(s))' = ReadPipe(Other(s)) /\ WritePipe(Other(s))' = WritePipe(Other(s))
         /\ ConnKept
<1> DEFINE ps == {Pipe("read", s), Pipe("write", s)}
<1>1. Close(ps)
  BY DEF Disconnected
<1>2. /\ Pipe("read", s) \in ps /\ Pipe("write", s) \in ps
      /\ Pipe("read", Other(s)) \notin ps /\ Pipe("write", Other(s)) \notin ps
      /\ \A t \in Sides : Pipe("conn", t) \notin ps
  BY PipeFacts, SideFacts
<1> HIDE DEF ps
<1> QED
  BY <1>1, <1>2, CloseIs, SideFacts DEF ConnKept, Shut

LEMMA RemoteUnLinkIs ==
  ASSUME Typed, NEW s \in Sides, RemoteUnLink(s)
  PROVE  /\ ConnPipe(s)' = Shut(ConnPipe(s)) /\ ConnPipe(Other(s))' = ConnPipe(Other(s))
         /\ ReadKept /\ WriteKept
<1> DEFINE ps == {Pipe("conn", s)}
<1>1. Close(ps)
  BY DEF RemoteUnLink
<1>2. /\ Pipe("conn", s) \in ps /\ Pipe("conn", Other(s)) \notin ps
      /\ \A t \in Sides : Pipe("read", t) \notin ps /\ Pipe("write", t) \notin ps
  BY PipeFacts, SideFacts
<1> HIDE DEF ps
<1> QED
  BY <1>1, <1>2, CloseIs, SideFacts DEF ReadKept, WriteKept, Shut

LEMMA ExitIs ==
  ASSUME Typed, NEW s \in Sides, Exit(s)
  PROVE  /\ ConnPipe(s)' = Shut(ConnPipe(s)) /\ ConnPipe(Other(s))' = ConnPipe(Other(s))
         /\ ReadPipe(s)' = Shut(ReadPipe(s)) /\ ReadPipe(Other(s))' = ReadPipe(Other(s))
         /\ WritePipe(s)' = Shut(WritePipe(s)) /\ WritePipe(Other(s))' = WritePipe(Other(s))
<1> DEFINE ps == {"conn", "read", "write"} \X {s}
<1>1. Close(ps)
  BY DEF Exit
<1>2. \A kind \in {"conn", "read", "write"} : Pipe(kind, s) \in ps /\ Pipe(kind, Other(s)) \notin ps
  BY SideFacts DEF Pipe
<1> HIDE DEF ps
<1> QED
  BY <1>1, <1>2, CloseIs, SideFacts DEF Shut

LEMMA OpenServIs ==
  ASSUME Typed, OpenServ
  PROVE  /\ ReadKept /\ WriteKept /\ ConnPipe("trap")' = ConnPipe("trap")
         /\ ConnPipe("serv")' = IF bind.at = "missing" /\ ConnPipe("serv") = "none"
                                THEN "listening" ELSE ConnPipe("serv")
<1>1. CASE bind.at = "missing"
  <2> DEFINE ps == {Pipe("conn", "serv")}
  <2>1. Make(ps)
    BY <1>1 DEF OpenServ
  <2>2. /\ Pipe("conn", "serv") \in ps /\ Pipe("conn", "trap") \notin ps
        /\ \A t \in Sides : Pipe("read", t) \notin ps /\ Pipe("write", t) \notin ps
    BY PipeFacts, SideFacts
  <2> HIDE DEF ps
  <2> QED
    BY <1>1, <2>1, <2>2, MakeIs, SideFacts DEF ReadKept, WriteKept
<1>2. CASE bind.at # "missing"
  BY <1>2, AllKeptIs, SideFacts DEF OpenServ, AllKept, ConnKept
<1> QED
  BY <1>1, <1>2

LEMMA OpenTrapIs ==
  ASSUME Typed, OpenTrap
  PROVE  /\ ReadKept /\ WriteKept /\ ConnPipe("serv")' = ConnPipe("serv")
         /\ ConnPipe("trap")' = IF bind.at = "found" /\ ConnPipe("trap") = "none"
                                THEN "listening" ELSE ConnPipe("trap")
<1>1. CASE bind.at = "found" /\ pipe[Pipe("conn", "trap")] = "none"
  <2> DEFINE ps == {Pipe("conn", "trap")}
  <2>1. Make(ps)
    BY <1>1 DEF OpenTrap
  <2>2. /\ Pipe("conn", "trap") \in ps /\ Pipe("conn", "serv") \notin ps
        /\ \A t \in Sides : Pipe("read", t) \notin ps /\ Pipe("write", t) \notin ps
    BY PipeFacts, SideFacts
  <2> HIDE DEF ps
  <2> QED
    BY <1>1, <2>1, <2>2, MakeIs, SideFacts DEF ReadKept, WriteKept
<1>2. CASE ~(bind.at = "found" /\ pipe[Pipe("conn", "trap")] = "none")
  <2>1. pipe' = pipe
    BY <1>2 DEF OpenTrap
  <2>2. ~(bind.at = "found" /\ ConnPipe("trap") = "none")
    BY <1>2 DEF ConnPipe
  <2> QED
    BY <2>1, <2>2, AllKeptIs, SideFacts DEF AllKept, ConnKept
<1> QED
  BY <1>1, <1>2

\* What DosMakeNmPipe leaves of a pipe.
Made(state) == IF state = "none" THEN "listening" ELSE state

LEMMA ConnectTrapIs ==
  ASSUME Typed, ConnectTrap
  PROVE  /\ ConnKept
         /\ \A t \in Sides : /\ ReadPipe(t)' \in {ReadPipe(t), Made(ReadPipe(t))}
                             /\ WritePipe(t)' \in {WritePipe(t), Made(WritePipe(t))}
<1>1. CASE Make(DataPipes)
  BY <1>1, MakeIs, PipeFacts DEF ConnKept, Made
<1>2. CASE pipe' = pipe
  BY <1>2, AllKeptIs DEF AllKept, ConnKept, ReadKept, WriteKept
<1> QED
  BY <1>1, <1>2 DEF ConnectTrap

LEMMA ConnectionEndsIs ==
  ASSUME Typed, NEW s \in Sides, ConnectionEnds(s)
  PROVE  /\ ConnPipe(s) = "closing" /\ ConnPipe(s)' = "none"
         /\ ConnPipe(Other(s))' = ConnPipe(Other(s)) /\ ReadKept /\ WriteKept
<1> DEFINE ps == {Pipe("conn", s)}
<1>1. DoClose(ps) /\ ConnPipe(s) = "closing"
  BY DEF ConnectionEnds, ConnPipe
<1>2. /\ Pipe("conn", s) \in ps /\ Pipe("conn", Other(s)) \notin ps
      /\ \A t \in Sides : Pipe("read", t) \notin ps /\ Pipe("write", t) \notin ps
  BY PipeFacts, SideFacts
<1> HIDE DEF ps
<1> QED
  BY <1>1, <1>2, DoCloseIs, SideFacts DEF ReadKept, WriteKept

LEMMA JoinEndIs ==
  ASSUME Typed, NEW s \in Sides, NEW i \in {1, 2}, JoinEnd(<<s, i>>)
  PROVE  /\ WritePipe(s)' = "none" /\ WritePipe(Other(s))' = WritePipe(Other(s))
         /\ ReadPipe(Other(s))' = "none" /\ ReadPipe(s)' = ReadPipe(s)
         /\ ConnKept
<1> DEFINE ps == {Pipe("write", s), Pipe("read", Other(s))}
<1>1. DoClose(ps)
  BY RelayFacts DEF JoinEnd
<1>2. /\ Pipe("write", s) \in ps /\ Pipe("write", Other(s)) \notin ps
      /\ Pipe("read", Other(s)) \in ps /\ Pipe("read", s) \notin ps
      /\ \A t \in Sides : Pipe("conn", t) \notin ps
  BY PipeFacts, SideFacts
<1> HIDE DEF ps
<1> QED
  BY <1>1, <1>2, DoCloseIs, SideFacts DEF ConnKept

\* The steps that touch no pipe.
LEMMA OthersKeep ==
  ASSUME NEW s \in Sides,
         \/ RemoteLink(s) \/ LinkAnswered(s) \/ RemoteConnect(s) \/ ConnectAnswered(s)
         \/ ConnectDone(s) \/ Get(s) \/ GetByte(s) \/ GetFailed(s) \/ Answer \/ Bye
         \/ GetLengthServ \/ GetLengthTrap \/ (\E req \in {"ask", "tell"} : Request(req))
         \/ FindLink \/ ConnectServ \/ EndConnect(s) \/ Join(s) \/ Disco(s) \/ DiscoAck(s)
         \/ FreeLink(s) \/ (\E r \in Relays : JoinTest(r) \/ JoinRead(r) \/ JoinWrite(r))
         \/ UNCHANGED vars
  PROVE  AllKept
<1>1. pipe' = pipe
  BY DEF RemoteLink, LinkAnswered, RemoteConnect, ConnectAnswered, ConnectDone, Get, GetByte,
         GetFailed, Answer, Bye, GetLengthServ, GetLengthTrap, Request, FindLink, ConnectServ,
         EndConnect, Join, Disco, DiscoAck, FreeLink, JoinTest, JoinRead, JoinWrite, vars, pipeVars
<1> QED
  BY <1>1, AllKeptIs

-----------------------------------------------------------------------------
(* Turns and threads *)

Inv == Typed /\ Emptied /\ Numbers /\ Programs /\ Turns /\ Threads /\ Pairs

\* A program opens pipes that are there, and closes its end of them.
LEMMA ProgramStep ==
  ASSUME Typed, NEW s \in Sides, Continue(s) \/ User(s)
  PROVE  /\ env' = env /\ UNCHANGED brokerVars
         /\ bind' = bind \/ (bind' = [who |-> s, at |-> "asked"]) \/ (bind' = [bind EXCEPT !.at = "free"])
         /\ \A t \in Sides : /\ ConnPipe(t)' = "none" <=> ConnPipe(t) = "none"
                             /\ ReadPipe(t)' = "none" <=> ReadPipe(t) = "none"
                             /\ WritePipe(t)' = "none" <=> WritePipe(t) = "none"
                             /\ ReadPipe(t) \in Up => ReadPipe(t)' \in Up
                             /\ WritePipe(t) \in Up => WritePipe(t)' \in Up
<1>1. env' = env /\ UNCHANGED brokerVars
  BY DEF Continue, User, RemoteLink, LinkAnswered, OpenConn, ConnectAnswered, OpenRead, OpenWrite,
         ConnectDone, Get, GetByte, GetFailed, Disconnected, RemoteConnect, Answer, GetLengthServ,
         GetLengthTrap, RemoteUnLink, Exit, Bye, Request
<1>2. bind' = bind \/ (bind' = [who |-> s, at |-> "asked"]) \/ (bind' = [bind EXCEPT !.at = "free"])
  BY DEF Continue, User, RemoteLink, LinkAnswered, OpenConn, ConnectAnswered, OpenRead, OpenWrite,
         ConnectDone, Get, GetByte, GetFailed, Disconnected, RemoteConnect, Answer, GetLengthServ,
         GetLengthTrap, RemoteUnLink, Exit, Bye, Request, pipeVars
<1> DEFINE Goal == \A t \in Sides : /\ ConnPipe(t)' = "none" <=> ConnPipe(t) = "none"
                                    /\ ReadPipe(t)' = "none" <=> ReadPipe(t) = "none"
                                    /\ WritePipe(t)' = "none" <=> WritePipe(t) = "none"
                                    /\ ReadPipe(t) \in Up => ReadPipe(t)' \in Up
                                    /\ WritePipe(t) \in Up => WritePipe(t)' \in Up
<1>3. ASSUME OpenConn(s) PROVE Goal
  BY <1>3, OpenConnIs, SideFacts DEF ReadKept, WriteKept, Up
<1>4. ASSUME OpenRead(s) PROVE Goal
  BY <1>4, OpenReadIs, SideFacts DEF ConnKept, WriteKept, Up
<1>5. ASSUME OpenWrite(s) PROVE Goal
  BY <1>5, OpenWriteIs, SideFacts DEF ConnKept, ReadKept, Up
<1>6. ASSUME Disconnected(s) PROVE Goal
  BY <1>6, DisconnectedIs, SideFacts DEF ConnKept, Shut, Up
<1>7. ASSUME RemoteUnLink(s) PROVE Goal
  BY <1>7, RemoteUnLinkIs, SideFacts DEF ReadKept, WriteKept, Shut, Up
<1>8. ASSUME Exit(s) PROVE Goal
  BY <1>8, ExitIs, SideFacts DEF Shut, Up
<1>9. ASSUME AllKept PROVE Goal
  BY <1>9 DEF AllKept, ConnKept, ReadKept, WriteKept
<1>10. Goal
  <2>1. \/ OpenConn(s) \/ OpenRead(s) \/ OpenWrite(s) \/ Disconnected(s) \/ RemoteUnLink(s) \/ Exit(s)
        \/ AllKept
    BY OthersKeep DEF Continue, User
  <2> QED
    BY <2>1, <1>3, <1>4, <1>5, <1>6, <1>7, <1>8, <1>9
<1> QED
  BY <1>1, <1>2, <1>10

\* Whose turn it is.
LEMMA OneRuns ==
  ASSUME Turns
  PROVE  /\ Runs("main") => \A s \in Sides : ct[s] \notin {"joining", "freeing"}
         /\ \A s \in Sides : Runs(s) => /\ bind.at \notin {"found", "missing"}
                                        /\ ct[Other(s)] \notin {"joining", "freeing"}
<1>1. \A x : Runs(x) => Busy \subseteq {x}
  BY DEF Turns, Runs
<1>2. \A s \in Sides : ct[s] \in {"joining", "freeing"} => s \in Busy
  BY DEF Busy
<1>3. bind.at \in {"found", "missing"} => "main" \in Busy
  BY DEF Busy
<1>4. "main" \notin Sides
  BY DEF Sides
<1> QED
  BY <1>1, <1>2, <1>3, <1>4, SideFacts

LEMMA BusyIs ==
  \A x : x \in Busy <=> \/ x \in Sides /\ ct[x] \in {"joining", "freeing"}
                        \/ x = "main" /\ bind.at \in {"found", "missing"}
BY DEF Busy

LEMMA BusyNext ==
  \A x : x \in Busy' <=> \/ x \in Sides /\ ct'[x] \in {"joining", "freeing"}
                         \/ x = "main" /\ bind'.at \in {"found", "missing"}
BY DEF Busy

\* A JoinPipeThread that runs is the first of its side.
LEMMA RelayStep ==
  ASSUME Typed, Pairs, NEW r \in Relays, JoinPipeThread(r)
  PROVE  /\ env' = env /\ bind' = bind /\ link' = link /\ present' = present /\ ct' = ct /\ pc' = pc
         /\ box' = box /\ UNCHANGED <<starts, conns, nsent, heard, want>>
         /\ \E s \in Sides : r = <<s, 1>> /\ Active(s)
<1>1. relay[r].at # "none"
  BY DEF JoinPipeThread, JoinTest, JoinRead, JoinWrite, JoinEnd, Move
<1>2. \E s \in Sides : r = <<s, 1>>
  BY <1>1, RelayFacts DEF Pairs
<1>3. /\ env' = env /\ bind' = bind /\ link' = link /\ present' = present /\ ct' = ct /\ pc' = pc
      /\ box' = box /\ UNCHANGED <<starts, conns, nsent, heard, want>>
  BY DEF JoinPipeThread, JoinTest, JoinRead, JoinWrite, JoinEnd, pipeVars, programVars, fields
<1> QED
  BY <1>1, <1>2, <1>3 DEF Active

LEMMA TurnsNext ==
  ASSUME Inv, [Next]_vars
  PROVE  Turns'
<1> USE DEF Inv
<1> USE SideFacts
<1>1. ASSUME NEW s \in Sides, Continue(s) \/ User(s) PROVE Turns'
  <2>1. env' = env /\ ct' = ct /\ link' = link
    BY <1>1, ProgramStep DEF brokerVars
  <2>2. bind'.at \in {"found", "missing"} => bind' = bind
    BY <1>1, ProgramStep DEF Typed
  <2>3. Busy' \subseteq Busy
    BY <2>1, <2>2, BusyIs, BusyNext
  <2> QED
    BY <2>1, <2>2, <2>3 DEF Turns
<1>2. CASE FindLink
  <2>1. env' = env /\ ct' = ct /\ link' = link /\ bind'.at = IF link THEN "found" ELSE "missing"
    BY <1>2 DEF FindLink, brokerVars, Typed
  <2>2. Busy' \subseteq {"main"}
    BY <1>2, <2>1, OneRuns, BusyNext DEF FindLink
  <2> QED
    BY <2>1, <2>2 DEF Turns, Typed
<1>3. CASE OpenServ \/ OpenTrap
  <2>1. env' = env /\ bind'.at \notin {"found", "missing"}
    BY <1>3 DEF OpenServ, OpenTrap, Typed
  <2>2. \A s \in Sides : ct'[s] \in {ct[s], "read"}
    BY <1>3 DEF OpenServ, OpenTrap, Typed
  <2>3. Busy' \subseteq Busy
    BY <2>1, <2>2, BusyIs, BusyNext
  <2> QED
    BY <2>1, <2>3 DEF Turns
<1>4. ASSUME NEW s \in Sides, ConnectThread(s) PROVE Turns'
  <2>1. env' = env /\ bind' = bind /\ Runs(s) /\ ct'[Other(s)] = ct[Other(s)]
    BY <1>4 DEF ConnectThread, ConnectServ, ConnectTrap, EndConnect, Join, Disco, DiscoAck,
                ConnectionEnds, FreeLink, Reads, pipeVars, Typed
  <2>2. Busy' \subseteq {s}
    BY <2>1, OneRuns, BusyNext
  <2>3. bind.at \notin {"found", "missing"}
    BY <2>1, OneRuns
  <2> QED
    BY <2>1, <2>2, <2>3 DEF Turns
<1>5. ASSUME NEW r \in Relays, JoinPipeThread(r) PROVE Turns'
  <2>1. env' = env /\ bind' = bind /\ link' = link /\ ct' = ct
    BY <1>5, RelayStep
  <2> QED
    BY <2>1, BusyIs, BusyNext DEF Turns
<1>6. CASE UNCHANGED vars
  BY <1>6, BusyIs, BusyNext DEF Turns, vars, pipeVars, brokerVars
<1> QED
  BY <1>1, <1>2, <1>3, <1>4, <1>5, <1>6 DEF Next, Main

\* A thread that waits to copy has a program at the other end of its pipe.
LEMMA RelayHasProgram ==
  ASSUME Typed, Programs, Pairs, NEW s \in Sides, Active(s), Waiting(<<s, 1>>)
  PROVE  ConnPipe(s) = "open" \/ ConnPipe(Other(s)) = "open"
<1>1. WritePipe(s) = "open" \/ ReadPipe(Other(s)) = "open"
  BY RelayFacts DEF Waiting, Active, WritePipe, ReadPipe
<1> QED
  BY <1>1, SideFacts DEF Programs

LEMMA ThreadsNext ==
  ASSUME Inv, [Next]_vars
  PROVE  Threads'
<1> USE DEF Inv
<1> USE SideFacts
<1>1. ASSUME NEW s \in Sides, Continue(s) \/ User(s) PROVE Threads'
  <2>1. UNCHANGED <<link, present, ct, relay>> /\ \A t \in Sides : ConnPipe(t)' = "none" <=> ConnPipe(t) = "none"
    BY <1>1, ProgramStep DEF brokerVars, fields
  <2> QED
    BY <2>1 DEF Threads, ThreadsHaveLink
<1>2. CASE FindLink
  <2>1. UNCHANGED <<link, present, ct, relay>> /\ ConnKept
    BY <1>2, OthersKeep DEF FindLink, brokerVars, fields, AllKept
  <2> QED
    BY <2>1 DEF Threads, ThreadsHaveLink, ConnKept
<1>3. CASE OpenServ
  <2>1. CASE bind.at = "missing"
    <3>1. ~link /\ \A s \in Sides : ct[s] = "none" /\ ConnPipe(s) = "none"
      BY <2>1 DEF Turns, Threads, ThreadsHaveLink
    <3>2. link' /\ ct' = [ct EXCEPT !["serv"] = "read"] /\ present' = [s \in Sides |-> s = "serv"]
      BY <1>3, <2>1, <3>1 DEF OpenServ, ConnPipe
    <3>3. ConnPipe("serv")' = "listening" /\ ConnPipe("trap")' = "none"
      BY <1>3, <2>1, <3>1, OpenServIs
    <3>4. ct'["serv"] = "read" /\ ct'["trap"] = "none" /\ present'["serv"] /\ ~present'["trap"]
      BY <3>1, <3>2 DEF Typed
    <3> QED
      BY <3>2, <3>3, <3>4 DEF Threads, ThreadsHaveLink
  <2>2. CASE bind.at # "missing"
    <3>1. UNCHANGED <<link, present, ct, relay>> /\ ConnKept
      BY <1>3, <2>2, OpenServIs DEF OpenServ, fields, ConnKept
    <3> QED
      BY <3>1 DEF Threads, ThreadsHaveLink, ConnKept
  <2> QED
    BY <2>1, <2>2
<1>4. CASE OpenTrap
  <2>1. CASE bind.at = "found" /\ ConnPipe("trap") = "none"
    <3>1. link /\ link' /\ ct' = [ct EXCEPT !["trap"] = "read"] /\ present' = [present EXCEPT !["trap"] = TRUE]
      BY <1>4, <2>1 DEF OpenTrap, ConnPipe, Turns
    <3>2. ConnPipe("trap")' = "listening" /\ ConnPipe("serv")' = ConnPipe("serv")
      BY <1>4, <2>1, OpenTrapIs
    <3>3. /\ ct'["trap"] = "read" /\ ct'["serv"] = ct["serv"]
          /\ present'["trap"] /\ present'["serv"] = present["serv"]
      BY <3>1 DEF Typed
    <3> QED
      BY <3>1, <3>2, <3>3 DEF Threads, ThreadsHaveLink
  <2>2. CASE ~(bind.at = "found" /\ ConnPipe("trap") = "none")
    <3>1. UNCHANGED <<link, present, ct, relay>> /\ ConnKept
      BY <1>4, <2>2, OpenTrapIs DEF OpenTrap, ConnPipe, ConnKept
    <3> QED
      BY <3>1 DEF Threads, ThreadsHaveLink, ConnKept
  <2> QED
    BY <2>1, <2>2
<1>5. ASSUME NEW s \in Sides,
             \/ s = "serv" /\ ConnectServ
             \/ s = "trap" /\ ConnectTrap
             \/ EndConnect(s) \/ Join(s) \/ Disco(s) \/ DiscoAck(s)
      PROVE Threads'
  <2>1. /\ UNCHANGED <<link, present>> /\ ct'[Other(s)] = ct[Other(s)]
        /\ ct[s] \in {"read", "joining", "sleeping"} /\ ct'[s] \in {"read", "joining", "sleeping"}
    BY <1>5 DEF ConnectServ, ConnectTrap, EndConnect, Join, Disco, DiscoAck, Reads, Typed, fields
  <2>2. ConnKept
    BY <1>5, OthersKeep, ConnectTrapIs DEF AllKept
  <2>3. link
    BY <2>1 DEF Threads, ThreadsHaveLink
  <2> QED
    BY <2>1, <2>2, <2>3 DEF Threads, ThreadsHaveLink, ConnKept
<1>6. ASSUME NEW s \in Sides, ConnectionEnds(s) PROVE Threads'
  <2>1. /\ UNCHANGED link /\ ct[s] = "read" /\ ct' = [ct EXCEPT ![s] = "freeing"]
        /\ present' = [present EXCEPT ![s] = FALSE]
    BY <1>6 DEF ConnectionEnds, Reads
  <2>2. link
    BY <2>1 DEF Threads, ThreadsHaveLink
  <2>3. ConnPipe(s)' = "none" /\ ConnPipe(Other(s))' = ConnPipe(Other(s))
    BY <1>6, ConnectionEndsIs
  <2>4. /\ ct'[s] = "freeing" /\ ct'[Other(s)] = ct[Other(s)]
        /\ ~present'[s] /\ present'[Other(s)] = present[Other(s)]
    BY <2>1 DEF Typed
  <2> QED
    BY <2>1, <2>2, <2>3, <2>4 DEF Threads, ThreadsHaveLink
<1>7. ASSUME NEW s \in Sides, FreeLink(s) PROVE Threads'
  <2>1. /\ ct[s] = "freeing" /\ ct' = [ct EXCEPT ![s] = "none"] /\ link' = (link /\ present[Other(s)])
        /\ UNCHANGED <<present, relay>> /\ Runs(s)
    BY <1>7 DEF FreeLink, fields
  <2>2. ConnKept
    BY <1>7, OthersKeep DEF AllKept
  <2>3. ct'[s] = "none" /\ ct'[Other(s)] = ct[Other(s)]
    BY <2>1 DEF Typed
  <2>4. ~present[s] /\ link
    BY <2>1 DEF Threads, ThreadsHaveLink
  <2>5. \A t \in Sides : ct'[t] \in {"read", "joining", "sleeping"} <=> ct[t] \in {"read", "joining", "sleeping"}
    BY <2>1, <2>3
  <2>6. ~link' => /\ \A t \in Sides : ct'[t] = "none"
                  /\ \A r \in Relays : relay'[r].at = "none"
    <3>1. SUFFICES ASSUME ~link'
          PROVE  /\ \A t \in Sides : ct'[t] = "none"
                 /\ \A r \in Relays : relay'[r].at = "none"
      OBVIOUS
    <3>2. ~present[Other(s)]
      BY <3>1, <2>1, <2>4 DEF Typed
    <3>3. ct[Other(s)] = "none"
      BY <3>2, <2>1, OneRuns DEF Threads, Typed
    <3>4. \A t \in Sides : ConnPipe(t) = "none"
      BY <2>4, <3>2 DEF Threads
    <3>5. \A t \in Sides : ~Active(t)
      BY <3>4, <2>1, RelayHasProgram, RelayFacts DEF Runs
    <3>6. \A t \in Sides : relay[<<t, 1>>].at = "none" /\ relay[<<t, 2>>].at = "none"
      BY <3>5 DEF Active, Pairs
    <3>7. ASSUME NEW r \in Relays PROVE relay[r].at = "none"
      <4>1. PICK t \in Sides : r = <<t, 1>> \/ r = <<t, 2>>
        BY RelayFacts
      <4> QED
        BY <4>1, <3>6
    <3> QED
      BY <2>1, <2>3, <3>3, <3>7
  <2> QED
    BY <2>1, <2>2, <2>5, <2>6 DEF Threads, ThreadsHaveLink, ConnKept
<1>8. ASSUME NEW r \in Relays, JoinPipeThread(r) PROVE Threads'
  <2>1. link' = link /\ present' = present /\ ct' = ct
    BY <1>8, RelayStep
  <2>3. link
    <3>1. PICK s \in Sides : relay[<<s, 1>>].at # "none"
      BY <1>8, RelayStep DEF Active
    <3> QED
      BY <3>1, RelayFacts DEF Threads, ThreadsHaveLink
  <2>2. ConnKept
    <3>1. PICK s \in Sides : r = <<s, 1>>
      BY <1>8, RelayStep
    <3> QED
      BY <1>8, <3>1, JoinEndIs, OthersKeep DEF JoinPipeThread, AllKept
  <2> QED
    BY <2>1, <2>2, <2>3 DEF Threads, ThreadsHaveLink, ConnKept
<1>9. CASE UNCHANGED vars
  <2>1. UNCHANGED <<link, present, ct, relay>> /\ ConnKept
    BY <1>9, AllKeptIs DEF vars, pipeVars, brokerVars, fields, AllKept
  <2> QED
    BY <2>1 DEF Threads, ThreadsHaveLink, ConnKept
<1>10. ASSUME NEW s \in Sides, ConnectThread(s) PROVE Threads'
  <2>1. \/ s = "serv" /\ ConnectServ
        \/ s = "trap" /\ ConnectTrap
        \/ EndConnect(s) \/ Join(s) \/ Disco(s) \/ DiscoAck(s)
        \/ ConnectionEnds(s) \/ FreeLink(s)
    BY <1>10 DEF ConnectThread
  <2> QED
    BY <2>1, <1>5, <1>6, <1>7
<1> QED
  BY <1>1, <1>2, <1>3, <1>4, <1>8, <1>9, <1>10 DEF Next, Main

-----------------------------------------------------------------------------
(* Types, step by step *)

\* What a program's step leaves of the programs' own variables.
LEMMA ProgramTyped ==
  ASSUME Typed, NEW s \in Sides, Continue(s) \/ User(s)
  PROVE  /\ pc' \in [Sides -> PCs] /\ starts' \in [Sides -> 0..MaxStarts]
         /\ bind' \in [who : Sides, at : {"free", "asked", "found", "missing", "ack", "nack"}]
         /\ box' \in [Sides -> Requests]
<1> USE SideFacts
<1> DEFINE Goal == /\ pc' \in [Sides -> PCs] /\ starts' \in [Sides -> 0..MaxStarts]
                   /\ bind' \in [who : Sides, at : {"free", "asked", "found", "missing", "ack", "nack"}]
                   /\ box' \in [Sides -> Requests]
<1>1. ASSUME RemoteLink(s) PROVE Goal
  BY <1>1, NmpConstants DEF RemoteLink, At, Typed, PCs
<1>2. ASSUME LinkAnswered(s) PROVE Goal
  BY <1>2 DEF LinkAnswered, At, Typed, PCs
<1>3. ASSUME OpenConn(s) PROVE Goal
  BY <1>3 DEF OpenConn, At, Open, Typed, PCs
<1>4. ASSUME ConnectAnswered(s) PROVE Goal
  BY <1>4 DEF ConnectAnswered, At, Answered, Typed, PCs, Requests
<1>5. ASSUME OpenRead(s) PROVE Goal
  BY <1>5 DEF OpenRead, At, Open, Typed, PCs
<1>6. ASSUME OpenWrite(s) PROVE Goal
  BY <1>6 DEF OpenWrite, At, Open, ConnRequest, Typed, PCs, Requests
<1>7. ASSUME ConnectDone(s) PROVE Goal
  BY <1>7 DEF ConnectDone, At, Answered, Typed, PCs, Requests
<1>8. ASSUME Get(s) PROVE Goal
  BY <1>8 DEF Get, At, Typed, PCs
<1>9. ASSUME GetByte(s) PROVE Goal
  BY <1>9 DEF GetByte, At, Typed, PCs
<1>10. ASSUME GetFailed(s) PROVE Goal
  BY <1>10 DEF GetFailed, At, pipeVars, Typed, PCs
<1>11. ASSUME Disconnected(s) PROVE Goal
  BY <1>11 DEF Disconnected, At, Answered, Typed, PCs, Requests
<1>12. ASSUME RemoteConnect(s) PROVE Goal
  BY <1>12 DEF RemoteConnect, At, ConnRequest, Typed, PCs, Requests
<1>13. ASSUME Answer PROVE Goal
  BY <1>13 DEF Answer, At, Typed, PCs
<1>14. ASSUME GetLengthServ PROVE Goal
  BY <1>14 DEF GetLengthServ, At, ConnRequest, Typed, PCs, Requests
<1>15. ASSUME GetLengthTrap PROVE Goal
  BY <1>15 DEF GetLengthTrap, At, Typed, PCs
<1>16. ASSUME RemoteUnLink(s) PROVE Goal
  BY <1>16 DEF RemoteUnLink, At, Typed, PCs
<1>17. ASSUME Exit(s) PROVE Goal
  BY <1>17 DEF Exit, At, Typed, PCs, Requests
<1>18. ASSUME Bye PROVE Goal
  BY <1>18 DEF Bye, At, ConnRequest, Typed, PCs, Requests
<1>19. ASSUME NEW req \in {"ask", "tell"}, Request(req) PROVE Goal
  BY <1>19 DEF Request, At, Typed, PCs
<1> QED
  BY <1>1, <1>2, <1>3, <1>4, <1>5, <1>6, <1>7, <1>8, <1>9, <1>10, <1>11, <1>12, <1>13, <1>14, <1>15, <1>16, <1>17, <1>18, <1>19 DEF Continue, User


\* What is in the data pipes, as the invariant has it.
Contents ==
  /\ msgs \in [DataPipes -> Seq(Message)]
  /\ \A p \in DataPipes : AsksWhole(msgs[p]) /\ (pipe[p] = "none" => msgs[p] = <<>>)

LEMMA ContentsIs ==
  /\ Typed /\ Emptied /\ Numbers => Contents
  /\ Contents' => /\ msgs' \in [DataPipes -> Seq(Message)]
                  /\ \A p \in DataPipes : AsksWhole(msgs'[p]) /\ (pipe'[p] = "none" => msgs'[p] = <<>>)
<1>1. Typed /\ Emptied /\ Numbers => Contents
  BY DEF Typed, Emptied, Numbers, Contents
<1>2. Contents' => /\ msgs' \in [DataPipes -> Seq(Message)]
                   /\ \A p \in DataPipes : AsksWhole(msgs'[p]) /\ (pipe'[p] = "none" => msgs'[p] = <<>>)
  BY DEF Contents, AsksWhole
<1> QED
  BY <1>1, <1>2

LEMMA AsksWholeIs ==
  ASSUME NEW v \in Seq(Message), NEW w \in Seq(Message), AsksWhole(v), AsksWhole(w)
  PROVE  /\ v \o w \in Seq(Message) /\ AsksWhole(v \o w)
         /\ v # <<>> => /\ Tail(v) \in Seq(Message) /\ AsksWhole(Tail(v))
                        /\ Head(v) \in Message /\ (Head(v).req = "ask" => Head(v).part = "whole")
                        /\ <<Head(v)>> \in Seq(Message) /\ AsksWhole(<<Head(v)>>) /\ <<Head(v)>> # <<>>
<1>1. v \o w \in Seq(Message)
  OBVIOUS
<1>2. ASSUME NEW i \in 1..Len(v \o w), (v \o w)[i].req = "ask" PROVE (v \o w)[i].part = "whole"
  <2>1. CASE i \in 1..Len(v)
    <3>1. (v \o w)[i] = v[i]
      BY <2>1
    <3> QED
      BY <2>1, <3>1, <1>2 DEF AsksWhole
  <2>2. CASE i \notin 1..Len(v)
    <3>1. (v \o w)[i] = w[i - Len(v)] /\ i - Len(v) \in 1..Len(w)
      BY <2>2
    <3> QED
      BY <3>1, <1>2 DEF AsksWhole
  <2> QED
    BY <2>1, <2>2
<1>3. ASSUME v # <<>>
      PROVE /\ Tail(v) \in Seq(Message) /\ AsksWhole(Tail(v))
            /\ Head(v) \in Message /\ (Head(v).req = "ask" => Head(v).part = "whole")
            /\ <<Head(v)>> \in Seq(Message) /\ AsksWhole(<<Head(v)>>) /\ <<Head(v)>> # <<>>
  <2>1. /\ Tail(v) \in Seq(Message) /\ Head(v) \in Message /\ Len(v) \in Nat \ {0} /\ Head(v) = v[1]
        /\ \A i \in 1..Len(Tail(v)) : Tail(v)[i] = v[i + 1] /\ i + 1 \in 1..Len(v)
    BY <1>3, TailTyped
  <2>2. Head(v).req = "ask" => Head(v).part = "whole"
    BY <2>1 DEF AsksWhole
  <2>3. AsksWhole(Tail(v))
    BY <2>1 DEF AsksWhole
  <2>4. Len(<<Head(v)>>) = 1 /\ <<Head(v)>>[1] = Head(v) /\ <<Head(v)>> # <<>>
    OBVIOUS
  <2>5. AsksWhole(<<Head(v)>>)
    BY <2>2, <2>4 DEF AsksWhole
  <2>6. <<Head(v)>> \in Seq(Message)
    BY <2>1
  <2> QED
    BY <2>1, <2>2, <2>3, <2>4, <2>5, <2>6
<1>4. AsksWhole(v \o w)
  BY <1>2 DEF AsksWhole
<1> QED
  BY <1>1, <1>3, <1>4

\* Writing to a pipe, and reading from one.
LEMMA WriteKeeps ==
  ASSUME Typed, Contents, NEW p \in DataPipes, NEW w \in Seq(Message), AsksWhole(w), Write(p, w),
         \A q \in DataPipes : pipe'[q] = "none" => pipe[q] = "none"
  PROVE  Contents'
<1>1. CASE pipe[p] = "open"
  <2>1. msgs[p] \o w \in Seq(Message) /\ AsksWhole(msgs[p] \o w)
    BY AsksWholeIs DEF Contents
  <2>2. msgs' = [msgs EXCEPT ![p] = msgs[p] \o w]
    BY <1>1 DEF Write
  <2>3. msgs' \in [DataPipes -> Seq(Message)]
    BY <2>1, <2>2 DEF Contents
  <2>4. ASSUME NEW q \in DataPipes PROVE AsksWhole(msgs'[q]) /\ (pipe'[q] = "none" => msgs'[q] = <<>>)
    <3>1. CASE q = p
      BY <3>1, <2>1, <2>2, <1>1 DEF Contents
    <3>2. CASE q # p
      BY <3>2, <2>2 DEF Contents
    <3> QED
      BY <3>1, <3>2
  <2> QED
    BY <2>3, <2>4 DEF Contents, AsksWhole
<1>2. CASE pipe[p] # "open"
  <2>1. msgs' = msgs
    BY <1>2 DEF Write
  <2> QED
    BY <2>1 DEF Contents, AsksWhole
<1> QED
  BY <1>1, <1>2

LEMMA ReadKeeps ==
  ASSUME Typed, Contents, NEW p \in DataPipes, msgs[p] # <<>>, msgs' = [msgs EXCEPT ![p] = Tail(@)],
         \A q \in DataPipes : pipe'[q] = "none" => pipe[q] = "none"
  PROVE  /\ Contents'
         /\ Head(msgs[p]) \in Message /\ (Head(msgs[p]).req = "ask" => Head(msgs[p]).part = "whole")
         /\ <<Head(msgs[p])>> \in Seq(Message) /\ AsksWhole(<<Head(msgs[p])>>)
         /\ <<Head(msgs[p])>> # <<>>
<1>1. /\ Tail(msgs[p]) \in Seq(Message) /\ AsksWhole(Tail(msgs[p]))
      /\ Head(msgs[p]) \in Message /\ (Head(msgs[p]).req = "ask" => Head(msgs[p]).part = "whole")
      /\ <<Head(msgs[p])>> \in Seq(Message) /\ AsksWhole(<<Head(msgs[p])>>)
      /\ <<Head(msgs[p])>> # <<>>
  BY AsksWholeIs DEF Contents
<1>2. msgs' \in [DataPipes -> Seq(Message)]
  BY <1>1 DEF Contents
<1>3. ASSUME NEW q \in DataPipes PROVE AsksWhole(msgs'[q]) /\ (pipe'[q] = "none" => msgs'[q] = <<>>)
  <2>1. CASE q = p
    BY <2>1, <1>1 DEF Contents
  <2>2. CASE q # p
    BY <2>2 DEF Contents
  <2> QED
    BY <2>1, <2>2
<1>4. Contents'
  BY <1>2, <1>3 DEF Contents, AsksWhole
<1> QED
  BY <1>1, <1>4

LEMMA OtherKeeps ==
  ASSUME Typed, Contents,
         \/ /\ msgs' = msgs /\ \A q \in DataPipes : pipe'[q] = "none" => pipe[q] = "none"
         \/ \E ps : Make(ps) \/ DoClose(ps)
  PROVE  Contents'
<1>1. CASE msgs' = msgs /\ \A q \in DataPipes : pipe'[q] = "none" => pipe[q] = "none"
  BY <1>1 DEF Contents, AsksWhole
<1>2. ASSUME NEW ps, Make(ps) \/ DoClose(ps) PROVE Contents'
  <2>1. msgs' \in [DataPipes -> Seq(Message)]
    BY <1>2, PipesTyped
  <2>2. AsksWhole(<<>>)
    BY DEF AsksWhole
  <2>3. ASSUME NEW q \in DataPipes PROVE AsksWhole(msgs'[q]) /\ (pipe'[q] = "none" => msgs'[q] = <<>>)
    <3>1. q \in Pipes
      BY PipeFacts
    <3>2. CASE Make(ps)
      BY <3>1, <3>2, <2>2 DEF Make, Contents
    <3>3. CASE DoClose(ps)
      BY <3>1, <3>3, <2>2 DEF DoClose, Contents
    <3> QED
      BY <1>2, <3>2, <3>3
  <2> QED
    BY <2>1, <2>3 DEF Contents, AsksWhole
<1> QED
  BY <1>1, <1>2

LEMMA PutKeeps ==
  ASSUME Typed, Contents, NEW s \in Sides, NEW k, k.conn \in 1..MaxConnects, k.no \in 1..(MaxSends + 1),
         NEW parts \in Parted, NEW req \in {"ask", "tell", "bye", "answer"}, req = "ask" => parts = <<"whole">>,
         RemotePut(s, k, req, parts), pipe' = pipe
  PROVE  Contents'
<1> DEFINE w == [i \in DOMAIN parts |-> [conn |-> k.conn, no |-> k.no, part |-> parts[i], req |-> req]]
<1>1. w \in Seq(Message)
  BY PartsTyped
<1>2. AsksWhole(w)
  <2>1. SUFFICES ASSUME NEW i \in 1..Len(w), w[i].req = "ask" PROVE w[i].part = "whole"
    BY DEF AsksWhole
  <2>2. i \in DOMAIN parts /\ w[i].req = req /\ w[i].part = parts[i]
    BY <1>1
  <2>3. parts = <<"whole">>
    BY <2>1, <2>2
  <2> QED
    BY <2>2, <2>3
<1>3. Write(Pipe("write", s), w)
  BY DEF RemotePut
<1> HIDE DEF w
<1> QED
  BY <1>1, <1>2, <1>3, WriteKeeps, PipeFacts

\* What the programs know of their packets, after a step of theirs.
Known ==
  /\ nsent \in 0..(MaxSends + 1) /\ heard \in [Sides -> Packet] /\ want \in BOOLEAN
  /\ want => heard["serv"].conn >= 1 /\ heard["serv"].no >= 1
  /\ pc["serv"] = "answer" => want
  /\ pc["trap"] \in {"ready", "get", "get_length"} => nsent <= MaxSends

LEMMA RequestKeeps ==
  ASSUME Typed, Contents, Numbers, NEW req \in {"ask", "tell"}, Request(req)
  PROVE  Contents' /\ Known'
<1>1. pc["trap"] = "ready" /\ nsent < MaxSends /\ nsent' = nsent + 1 /\ pipe' = pipe
      /\ heard' = heard /\ want' = want
  BY DEF Request, At
<1>2. conns \in 1..MaxConnects /\ nsent + 1 \in 1..(MaxSends + 1) /\ nsent + 1 <= MaxSends
  BY <1>1, NmpConstants, SideFacts DEF Numbers, Typed
<1>3. RemotePut("trap", NextPacket, req, <<"whole">>) /\ NextPacket.conn = conns /\ NextPacket.no = nsent + 1
  BY DEF Request, NextPacket
<1>4. Contents'
  BY <1>1, <1>2, <1>3, PutKeeps, SideFacts DEF Parted
<1>5. pc'["serv"] = pc["serv"]
  BY SideFacts DEF Request, At, Typed
<1>6. Known'
  BY <1>1, <1>2, <1>5, NmpConstants DEF Known, Numbers, Typed
<1> QED
  BY <1>4, <1>6

LEMMA ByeKeeps ==
  ASSUME Typed, Contents, Numbers, Bye
  PROVE  Contents' /\ Known'
<1>1. pc["trap"] = "ready" /\ nsent' = nsent + 1 /\ pipe' = pipe /\ heard' = heard /\ want' = want
  BY DEF Bye, At
<1>2. conns \in 1..MaxConnects /\ nsent + 1 \in 1..(MaxSends + 1)
  BY <1>1, NmpConstants, SideFacts DEF Numbers, Typed
<1>3. RemotePut("trap", NextPacket, "bye", <<"byte", "len">>) /\ NextPacket.conn = conns /\ NextPacket.no = nsent + 1
  BY DEF Bye, NextPacket
<1>4. Contents'
  BY <1>1, <1>2, <1>3, PutKeeps, SideFacts DEF Parted
<1>5. pc'["serv"] = pc["serv"] /\ pc'["trap"] = "disco"
  BY SideFacts DEF Bye, At, Typed
<1>6. Known'
  BY <1>1, <1>2, <1>5, NmpConstants DEF Known, Numbers, Typed
<1> QED
  BY <1>4, <1>6

LEMMA AnswerKeeps ==
  ASSUME Typed, Contents, Numbers, Answer
  PROVE  Contents' /\ Known'
<1>1. pc["serv"] = "answer" /\ pipe' = pipe /\ heard' = heard /\ want' = want /\ nsent' = nsent
  BY DEF Answer, At
<1>2. heard["serv"].conn \in 1..MaxConnects /\ heard["serv"].no \in 1..(MaxSends + 1)
  BY <1>1, SideFacts, NmpConstants DEF Numbers, Typed, Packet
<1>3. PICK parts \in Parted : RemotePut("serv", heard["serv"], "answer", parts)
  BY DEF Answer, Parted
<1>4. Contents'
  BY <1>1, <1>2, <1>3, PutKeeps, SideFacts
<1>5. pc'["serv"] = "get" /\ pc'["trap"] = pc["trap"]
  BY SideFacts DEF Answer, At, Typed
<1>6. Known'
  BY <1>1, <1>2, <1>5 DEF Known, Numbers, Typed
<1> QED
  BY <1>4, <1>6

\* The packet a program reads.
LEMMA NextIs ==
  ASSUME Typed, Contents, NEW s \in Sides, Readable(s), Read(s), pipe' = pipe
  PROVE  /\ Contents' /\ Next1(s) \in Message /\ (Next1(s).req = "ask" => Next1(s).part = "whole")
         /\ Named(Next1(s)) \in Packet /\ Named(Next1(s)).conn >= 1 /\ Named(Next1(s)).no >= 1
<1>1. Contents' /\ Next1(s) \in Message /\ (Next1(s).req = "ask" => Next1(s).part = "whole")
  BY ReadKeeps, PipeFacts DEF Readable, Read, Next1
<1> QED
  BY <1>1, NmpConstants DEF Named, Message, Packet

LEMMA GetKeeps ==
  ASSUME Typed, Contents, Numbers, NEW s \in Sides, Get(s)
  PROVE  Contents' /\ Known'
<1> DEFINE m == Next1(s)
<1>1. Readable(s) /\ Read(s) /\ pipe' = pipe /\ nsent' = nsent /\ pc[s] = "get"
  BY DEF Get, At
<1>2. /\ Contents' /\ m \in Message /\ (m.req = "ask" => m.part = "whole")
      /\ Named(m) \in Packet /\ Named(m).conn >= 1 /\ Named(m).no >= 1
  BY <1>1, NextIs
<1>3. heard' = [heard EXCEPT ![s] = IF m.part = "whole" THEN Named(m) ELSE NoPacket]
      /\ want' = IF s = "serv" THEN m.req = "ask" ELSE want
  BY DEF Get
<1>4. NoPacket \in Packet
  BY NmpConstants DEF NoPacket, Packet
<1>5. heard' \in [Sides -> Packet] /\ want' \in BOOLEAN
  BY <1>2, <1>3, <1>4 DEF Typed
<1>6. pc' = [pc EXCEPT ![s] = IF s = "trap" THEN "ready" ELSE IF m.req = "ask" THEN "answer" ELSE "get"]
  BY DEF Get, At
<1> HIDE DEF m
<1>7. CASE s = "serv"
  <2>1. want' = (m.req = "ask") /\ (want' => heard'["serv"] = Named(m))
    BY <1>7, <1>2, <1>3 DEF Typed
  <2>2. pc'["serv"] = "answer" => want'
    BY <1>6, <1>7, <2>1 DEF Typed
  <2>3. pc'["trap"] = pc["trap"]
    BY <1>6, <1>7, SideFacts DEF Typed
  <2> QED
    BY <1>1, <1>2, <1>5, <2>1, <2>2, <2>3 DEF Known, Numbers, Typed
<1>8. CASE s = "trap"
  <2>1. want' = want /\ heard'["serv"] = heard["serv"] /\ pc'["serv"] = pc["serv"]
    BY <1>8, <1>3, <1>6, SideFacts DEF Typed
  <2>2. nsent' <= MaxSends
    BY <1>1, <1>8 DEF Numbers
  <2> QED
    BY <1>1, <1>2, <1>5, <2>1, <2>2 DEF Known, Numbers, Typed
<1> QED
  BY <1>7, <1>8, SideFacts

LEMMA GetByteKeeps ==
  ASSUME Typed, Contents, Numbers, NEW s \in Sides, GetByte(s)
  PROVE  Contents' /\ Known'
<1> DEFINE m == Next1(s)
<1>1. Readable(s) /\ Read(s) /\ pipe' = pipe /\ nsent' = nsent /\ pc[s] = "get" /\ want' = want
  BY DEF GetByte, At
<1>2. Contents' /\ Named(m) \in Packet /\ Named(m).conn >= 1 /\ Named(m).no >= 1
  BY <1>1, NextIs
<1>3. heard' = [heard EXCEPT ![s] = Named(m)] /\ pc' = [pc EXCEPT ![s] = "get_length"]
  BY DEF GetByte, At
<1> HIDE DEF m
<1>4. heard' \in [Sides -> Packet]
  BY <1>2, <1>3 DEF Typed
<1>5. want' => heard'["serv"].conn >= 1 /\ heard'["serv"].no >= 1
  BY <1>1, <1>2, <1>3, SideFacts DEF Typed, Numbers
<1>6. pc'["serv"] = "answer" => want'
  BY <1>1, <1>3, SideFacts DEF Typed, Numbers
<1>7. pc'["trap"] \in {"ready", "get", "get_length"} => nsent' <= MaxSends
  BY <1>1, <1>3, SideFacts DEF Typed, Numbers
<1> QED
  BY <1>1, <1>2, <1>4, <1>5, <1>6, <1>7 DEF Known, Typed

LEMMA GetLengthKeeps ==
  ASSUME Typed, Contents, Numbers, GetLengthServ \/ GetLengthTrap
  PROVE  Contents' /\ Known'
<1>1. pipe' = pipe /\ heard' = heard /\ nsent' = nsent
  BY DEF GetLengthServ, GetLengthTrap
<1>2. msgs' = msgs \/ \E s \in Sides : Readable(s) /\ Read(s)
  BY SideFacts DEF GetLengthServ, GetLengthTrap
<1>3. Contents'
  BY <1>1, <1>2, OtherKeeps, NextIs
<1>4. CASE GetLengthServ
  <2>1. want' = FALSE /\ pc'["serv"] = "disco" /\ pc'["trap"] = pc["trap"]
    BY <1>4, SideFacts DEF GetLengthServ, At, Typed
  <2> QED
    BY <1>1, <1>3, <2>1 DEF Known, Numbers, Typed
<1>5. CASE GetLengthTrap
  <2>1. want' = want /\ pc'["serv"] = pc["serv"] /\ pc["trap"] = "get_length"
    BY <1>5, SideFacts DEF GetLengthTrap, At, Typed
  <2> QED
    BY <1>1, <1>3, <2>1 DEF Known, Numbers, Typed
<1> QED
  BY <1>4, <1>5

\* The rest of the programs' steps write and read no packet.
LEMMA ProgramKeeps ==
  ASSUME Typed, Emptied, Numbers, NEW s \in Sides, Continue(s) \/ User(s)
  PROVE  Contents' /\ Known'
<1>1. Contents
  BY ContentsIs
<1>2. ASSUME NEW req \in {"ask", "tell"}, Request(req) PROVE Contents' /\ Known'
  BY <1>1, <1>2, RequestKeeps
<1>3. CASE Bye \/ Answer \/ Get(s) \/ GetByte(s) \/ GetLengthServ \/ GetLengthTrap
  BY <1>1, <1>3, ByeKeeps, AnswerKeeps, GetKeeps, GetByteKeeps, GetLengthKeeps
<1>4. ASSUME \/ RemoteLink(s) \/ LinkAnswered(s) \/ OpenConn(s) \/ RemoteConnect(s) \/ ConnectAnswered(s)
             \/ OpenRead(s) \/ OpenWrite(s) \/ ConnectDone(s) \/ GetFailed(s) \/ Disconnected(s)
             \/ RemoteUnLink(s) \/ Exit(s)
      PROVE Contents' /\ Known'
  <2>1. /\ msgs' = msgs /\ heard' = heard /\ want' = want /\ nsent' \in {nsent, 0}
        /\ pc'["serv"] = "answer" => want
        /\ pc'["trap"] \in {"ready", "get", "get_length"} => nsent' <= MaxSends
    <3>1. /\ msgs' = msgs /\ heard' = heard /\ want' = want /\ nsent' \in {nsent, 0}
          /\ s = "serv" => nsent' = nsent
      BY <1>4 DEF RemoteLink, LinkAnswered, OpenConn, RemoteConnect, ConnectAnswered,
             OpenRead, OpenWrite, ConnectDone, GetFailed, Disconnected, RemoteUnLink, Exit, pipeVars
    <3>2. pc' = [pc EXCEPT ![s] = pc'[s]] /\ (pc'[s] = "answer" => s = "serv" /\ want)
          /\ (pc'[s] \in {"ready", "get", "get_length"} => s = "serv" \/ nsent' = 0)
      <4>1. CASE ConnectDone(s)
        BY <4>1, SideFacts DEF ConnectDone, At, Typed
      <4>2. CASE GetFailed(s)
        BY <4>2 DEF GetFailed, At, Typed
      <4>3. CASE \/ RemoteLink(s) \/ LinkAnswered(s) \/ OpenConn(s) \/ RemoteConnect(s) \/ ConnectAnswered(s)
                 \/ OpenRead(s) \/ OpenWrite(s)
        BY <4>3 DEF RemoteLink, LinkAnswered, OpenConn, RemoteConnect, ConnectAnswered,
                    OpenRead, OpenWrite, At, Typed
      <4>4. CASE Disconnected(s) \/ RemoteUnLink(s) \/ Exit(s)
        BY <4>4 DEF Disconnected, RemoteUnLink, Exit, At, Typed
      <4> QED
        BY <1>4, <4>1, <4>2, <4>3, <4>4
    <3> QED
      <4>1. CASE s = "serv"
        <5>1. pc'["trap"] = pc["trap"] /\ nsent' = nsent
          BY <4>1, <3>1, <3>2, SideFacts DEF Typed
        <5> QED
          BY <4>1, <5>1, <3>1, <3>2 DEF Numbers
      <4>2. CASE s = "trap"
        <5>1. pc'["serv"] = pc["serv"]
          BY <4>2, <3>2, SideFacts DEF Typed
        <5> QED
          BY <4>2, <5>1, <3>1, <3>2, NmpConstants DEF Numbers
      <4> QED
        BY <4>1, <4>2, SideFacts
  <2>2. \A q \in DataPipes : pipe'[q] = "none" => pipe[q] = "none"
    <3>1. \A t \in Sides : (ReadPipe(t)' = "none" <=> ReadPipe(t) = "none") /\ (WritePipe(t)' = "none" <=> WritePipe(t) = "none")
      BY ProgramStep
    <3> QED
      BY <3>1, PipeFacts DEF ReadPipe, WritePipe
  <2>3. Contents'
    BY <1>1, <2>1, <2>2, OtherKeeps
  <2> QED
    BY <2>1, <2>3, NmpConstants DEF Known, Numbers, Typed
<1> QED
  BY <1>2, <1>3, <1>4 DEF Continue, User

\* What the JoinPipeThreads hold, as the invariant has it.
Holding ==
  /\ relay \in [Relays -> [at : RelayAts, msg : Seq(Message)]]
  /\ \A r \in Relays : AsksWhole(relay[r].msg) /\ (relay[r].at = "write" <=> relay[r].msg # <<>>)

LEMMA HoldingIs ==
  /\ Typed /\ Emptied /\ Numbers => Holding
  /\ Holding' => /\ relay' \in [Relays -> [at : RelayAts, msg : Seq(Message)]]
                 /\ \A r \in Relays : AsksWhole(relay'[r].msg) /\ (relay'[r].at = "write" <=> relay'[r].msg # <<>>)
<1>1. Typed /\ Emptied /\ Numbers => Holding
  BY DEF Typed, Emptied, Numbers, Holding
<1>2. Holding' => /\ relay' \in [Relays -> [at : RelayAts, msg : Seq(Message)]]
                  /\ \A r \in Relays : AsksWhole(relay'[r].msg) /\ (relay'[r].at = "write" <=> relay'[r].msg # <<>>)
  BY DEF Holding, AsksWhole
<1> QED
  BY <1>1, <1>2

LEMMA NothingHeld == <<>> \in Seq(Message) /\ AsksWhole(<<>>)
BY DEF AsksWhole

LEMMA MoveKeeps ==
  ASSUME Holding, NEW r \in Relays, NEW from, NEW to \in RelayAts, NEW msg \in Seq(Message), AsksWhole(msg),
         to = "write" <=> msg # <<>>, Move(r, from, to, msg)
  PROVE  Holding'
<1>1. relay' = [relay EXCEPT ![r] = [at |-> to, msg |-> msg]]
  BY DEF Move
<1>2. relay' \in [Relays -> [at : RelayAts, msg : Seq(Message)]]
  BY <1>1 DEF Holding
<1>3. ASSUME NEW q \in Relays PROVE AsksWhole(relay'[q].msg) /\ (relay'[q].at = "write" <=> relay'[q].msg # <<>>)
  <2>1. CASE q = r
    BY <2>1, <1>1 DEF Holding
  <2>2. CASE q # r
    BY <2>2, <1>1 DEF Holding
  <2> QED
    BY <2>1, <2>2
<1> QED
  BY <1>2, <1>3 DEF Holding, AsksWhole

LEMMA HoldingKept == ASSUME Holding, relay' = relay PROVE Holding'
BY DEF Holding, AsksWhole

LEMMA JoinKeeps ==
  ASSUME Holding, NEW s \in Sides, Join(s)
  PROVE  Holding'
<1>1. CASE relay' = relay
  BY <1>1, HoldingKept
<1>2. CASE \E i \in {1, 2} : relay' = [r \in Relays |-> IF r[2] = i THEN [at |-> "test", msg |-> <<>>] ELSE relay[r]]
  <2>1. PICK i \in {1, 2} : relay' = [r \in Relays |-> IF r[2] = i THEN [at |-> "test", msg |-> <<>>] ELSE relay[r]]
    BY <1>2
  <2>2. relay' \in [Relays -> [at : RelayAts, msg : Seq(Message)]]
    BY <2>1, NothingHeld DEF Holding, RelayAts
  <2>3. ASSUME NEW q \in Relays PROVE AsksWhole(relay'[q].msg) /\ (relay'[q].at = "write" <=> relay'[q].msg # <<>>)
    <3>1. CASE q[2] = i
      <4>1. relay'[q] = [at |-> "test", msg |-> <<>>]
        BY <3>1, <2>1
      <4> QED
        BY <4>1, NothingHeld
    <3>2. CASE q[2] # i
      <4>1. relay'[q] = relay[q]
        BY <3>2, <2>1
      <4> QED
        BY <4>1 DEF Holding
    <3> QED
      BY <3>1, <3>2
  <2> QED
    BY <2>2, <2>3 DEF Holding, AsksWhole
<1> QED
  BY <1>1, <1>2 DEF Join

LEMMA JoinPipeKeeps ==
  ASSUME Typed, Contents, Holding, NEW r \in Relays, JoinPipeThread(r)
  PROVE  Contents' /\ Holding'
<1>1. CASE JoinTest(r)
  <2>1. pipe' = pipe /\ msgs' = msgs
    BY <1>1 DEF JoinTest, pipeVars
  <2>2. \E to \in {"read", "end"} : Move(r, "test", to, <<>>)
    BY <1>1 DEF JoinTest
  <2> QED
    BY <2>1, <2>2, OtherKeeps, MoveKeeps, NothingHeld DEF RelayAts
<1>2. CASE JoinRead(r)
  <2>0. pipe' = pipe
    BY <1>2 DEF JoinRead
  <2>1. CASE /\ msgs[In(r)] # <<>>
             /\ Move(r, "read", "write", <<Head(msgs[In(r)])>>)
             /\ msgs' = [msgs EXCEPT ![In(r)] = Tail(@)]
    <3>1. Contents' /\ <<Head(msgs[In(r)])>> \in Seq(Message) /\ AsksWhole(<<Head(msgs[In(r)])>>) /\ <<Head(msgs[In(r)])>> # <<>>
      BY <2>0, <2>1, ReadKeeps, RelayFacts
    <3> QED
      BY <3>1, <2>1, MoveKeeps DEF RelayAts
  <2>2. CASE Move(r, "read", "end", <<>>) /\ msgs' = msgs
    BY <2>0, <2>2, OtherKeeps, MoveKeeps, NothingHeld DEF RelayAts
  <2> QED
    BY <1>2, <2>1, <2>2 DEF JoinRead
<1>3. CASE JoinWrite(r)
  <2>1. pipe' = pipe /\ Write(Out(r), relay[r].msg)
    BY <1>3 DEF JoinWrite
  <2>2. \E to \in {"test", "end"} : Move(r, "write", to, <<>>)
    BY <1>3 DEF JoinWrite
  <2>3. relay[r].msg \in Seq(Message) /\ AsksWhole(relay[r].msg)
    BY DEF Holding
  <2>4. Contents'
    BY <2>1, <2>3, WriteKeeps, RelayFacts
  <2> QED
    BY <2>4, <2>2, MoveKeeps, NothingHeld DEF RelayAts
<1>4. CASE JoinEnd(r)
  <2>1. Move(r, "end", "none", <<>>) /\ DoClose({In(r), Out(r)})
    BY <1>4 DEF JoinEnd
  <2> QED
    BY <2>1, OtherKeeps, MoveKeeps, NothingHeld DEF RelayAts
<1> QED
  BY <1>1, <1>2, <1>3, <1>4 DEF JoinPipeThread

LEMMA MainKeeps ==
  ASSUME Contents, Typed, Main
  PROVE  Contents' /\ relay' = relay
<1>1. (msgs' = msgs /\ pipe' = pipe) \/ \E ps : Make(ps)
  BY DEF Main, FindLink, OpenServ, OpenTrap
<1>2. relay' = relay
  BY DEF Main, FindLink, OpenServ, OpenTrap, brokerVars
<1> QED
  BY <1>1, <1>2, OtherKeeps

LEMMA ConnectThreadKeeps ==
  ASSUME Contents, Typed, Holding, NEW s \in Sides, ConnectThread(s)
  PROVE  Contents' /\ Holding'
<1>1. (msgs' = msgs /\ pipe' = pipe) \/ \E ps : Make(ps) \/ DoClose(ps)
  BY DEF ConnectThread, ConnectServ, ConnectTrap, EndConnect, Join, Disco, DiscoAck, ConnectionEnds,
         FreeLink, pipeVars
<1>2. relay' = relay \/ Join(s)
  BY DEF ConnectThread, ConnectServ, ConnectTrap, EndConnect, Disco, DiscoAck, ConnectionEnds,
         FreeLink, pipeVars
<1> QED
  BY <1>1, <1>2, OtherKeeps, HoldingKept, JoinKeeps

\* The broker's own variables, and the answers it gives.
BrokerTyped ==
  /\ conns \in 0..MaxConnects
  /\ bind \in [who : Sides, at : {"free", "asked", "found", "missing", "ack", "nack"}]
  /\ box \in [Sides -> Requests]
  /\ link \in BOOLEAN /\ present \in [Sides -> BOOLEAN]
  /\ connect_started \in [Sides -> BOOLEAN] /\ connected \in [Sides -> BOOLEAN]
  /\ ct \in [Sides -> {"none", "read", "joining", "sleeping", "freeing"}]

LEMMA BrokerKeeps ==
  ASSUME Typed, Numbers, NEW s \in Sides, NEW r \in Relays,
         \/ Main
         \/ ConnectThread(s)
         \/ JoinPipeThread(r)
  PROVE  BrokerTyped'
<1> USE SideFacts
<1>1. CASE FindLink
  <2>1. bind' \in [who : Sides, at : {"free", "asked", "found", "missing", "ack", "nack"}]
    BY <1>1 DEF FindLink, Typed
  <2>2. UNCHANGED <<conns, box, link, present, connect_started, connected, ct>>
    BY <1>1 DEF FindLink, brokerVars, programVars, fields
  <2> QED
    BY <2>1, <2>2 DEF Typed, BrokerTyped
<1>2. CASE OpenServ
  <2>1. bind' \in [who : Sides, at : {"free", "asked", "found", "missing", "ack", "nack"}]
    BY <1>2 DEF OpenServ, Typed
  <2>2. UNCHANGED <<conns, box>> /\ link' \in BOOLEAN
    BY <1>2 DEF OpenServ, programVars, Typed
  <2>4. ct' \in [Sides -> {"none", "read", "joining", "sleeping", "freeing"}]
    BY <1>2 DEF OpenServ, Typed
  <2>3. CASE bind.at = "missing"
    <3>1. PICK ok \in BOOLEAN : present' = [t \in Sides |-> t = "serv" /\ ok]
      BY <2>3, <1>2 DEF OpenServ
    <3>2. connected' = [t \in Sides |-> FALSE] /\ connect_started' = connected'
      BY <2>3, <1>2 DEF OpenServ
    <3>3. /\ present' \in [Sides -> BOOLEAN] /\ connect_started' \in [Sides -> BOOLEAN]
          /\ connected' \in [Sides -> BOOLEAN]
      BY <3>1, <3>2
    <3> QED
      BY <2>1, <2>2, <2>4, <3>3 DEF Typed, BrokerTyped
  <2>5. CASE bind.at # "missing"
    <3>1. UNCHANGED <<present, connect_started, connected>>
      BY <2>5, <1>2 DEF OpenServ, fields
    <3> QED
      BY <2>1, <2>2, <2>4, <3>1 DEF Typed, BrokerTyped
  <2> QED
    BY <2>3, <2>5
<1>3. CASE OpenTrap
  <2>1. bind' \in [who : Sides, at : {"free", "asked", "found", "missing", "ack", "nack"}]
    <3>1. \E at \in {"ack", "nack"} : bind' = [bind EXCEPT !.at = at]
      BY <1>3 DEF OpenTrap
    <3> QED
      BY <3>1 DEF Typed
  <2>2. UNCHANGED <<conns, box, link, connect_started, connected>>
    BY <1>3 DEF OpenTrap, programVars
  <2>3. present' \in [Sides -> BOOLEAN]
    <3>1. present' = present \/ present' = [present EXCEPT !["trap"] = TRUE]
      BY <1>3 DEF OpenTrap
    <3> QED
      <4>1. present \in [Sides -> BOOLEAN]
        BY DEF Typed
      <4>2. [present EXCEPT !["trap"] = TRUE] \in [Sides -> BOOLEAN]
        BY <4>1
      <4> QED
        BY <3>1, <4>1, <4>2
  <2>4. ct' \in [Sides -> {"none", "read", "joining", "sleeping", "freeing"}]
    <3>1. ct' = ct \/ ct' = [ct EXCEPT !["trap"] = "read"]
      BY <1>3 DEF OpenTrap
    <3> QED
      BY <3>1 DEF Typed
  <2> QED
    BY <2>1, <2>2, <2>3, <2>4 DEF Typed, BrokerTyped
<1>4. CASE s = "serv" /\ ConnectServ
  <2>1. box' \in [Sides -> Requests]
    BY <1>4 DEF ConnectServ, Ack, Nack, Typed, Requests
  <2>2. UNCHANGED <<conns, bind, link, present, connected, ct>>
    BY <1>4 DEF ConnectServ, programVars
  <2>3. connect_started' \in [Sides -> BOOLEAN]
    <3>1. connect_started' = connect_started \/ connect_started' = [connect_started EXCEPT !["serv"] = TRUE]
      BY <1>4 DEF ConnectServ
    <3> QED
      <4>1. connect_started \in [Sides -> BOOLEAN]
        BY DEF Typed
      <4>2. [connect_started EXCEPT !["serv"] = TRUE] \in [Sides -> BOOLEAN]
        BY <4>1
      <4> QED
        BY <3>1, <4>1, <4>2
  <2> QED
    BY <2>1, <2>2, <2>3 DEF Typed, BrokerTyped
<1>5. CASE s = "trap" /\ ConnectTrap
  <2>1. conns' \in 0..MaxConnects
    BY <1>5, NmpConstants DEF ConnectTrap, Reads, Numbers, Typed
  <2>2. box' \in [Sides -> Requests]
    BY <1>5 DEF ConnectTrap, Ack, Nack, Typed, Requests
  <2>3. UNCHANGED <<bind, link, present, connected, ct>>
    BY <1>5 DEF ConnectTrap
  <2>4. connect_started' \in [Sides -> BOOLEAN]
    <3>1. connect_started' = connect_started \/ connect_started' = [connect_started EXCEPT !["trap"] = TRUE]
      BY <1>5 DEF ConnectTrap
    <3> QED
      <4>1. connect_started \in [Sides -> BOOLEAN]
        BY DEF Typed
      <4>2. [connect_started EXCEPT !["trap"] = TRUE] \in [Sides -> BOOLEAN]
        BY <4>1
      <4> QED
        BY <3>1, <4>1, <4>2
  <2> QED
    BY <2>1, <2>2, <2>3, <2>4 DEF Typed, BrokerTyped
<1>6. CASE EndConnect(s)
  BY <1>6 DEF EndConnect, pipeVars, Typed, BrokerTyped, programVars
<1>7. CASE Join(s)
  BY <1>7 DEF Join, Ack, fields, Typed, BrokerTyped, Requests, programVars
<1>8. CASE Disco(s)
  BY <1>8 DEF Disco, pipeVars, Typed, BrokerTyped, programVars
<1>9. CASE DiscoAck(s)
  BY <1>9 DEF DiscoAck, Ack, fields, Typed, BrokerTyped, Requests, programVars
<1>10. CASE ConnectionEnds(s)
  BY <1>10 DEF ConnectionEnds, Typed, BrokerTyped, programVars
<1>11. CASE FreeLink(s)
  BY <1>11 DEF FreeLink, pipeVars, fields, Typed, BrokerTyped, programVars
<1>12. CASE JoinTest(r)
  BY <1>12 DEF JoinTest, pipeVars, fields, Typed, BrokerTyped, programVars
<1>13. CASE JoinRead(r)
  BY <1>13 DEF JoinRead, fields, Typed, BrokerTyped, programVars
<1>14. CASE JoinWrite(r)
  BY <1>14 DEF JoinWrite, fields, Typed, BrokerTyped, programVars
<1>15. CASE JoinEnd(r)
  BY <1>15, RelayFacts DEF JoinEnd, Typed, BrokerTyped, programVars
<1> QED
  BY <1>1, <1>2, <1>3, <1>4, <1>5, <1>6, <1>7, <1>8, <1>9, <1>10, <1>11, <1>12, <1>13, <1>14, <1>15 DEF Main, ConnectThread, JoinPipeThread

LEMMA PipeKeeps ==
  ASSUME Typed, [Next]_vars
  PROVE  pipe' \in [Pipes -> PipeStates]
<1>1. pipe' = pipe \/ (\E ps : Close(ps) \/ Make(ps) \/ DoClose(ps)) \/ \E p \in Pipes : Open(p)
  <2>1. ASSUME NEW s \in Sides, OpenConn(s) \/ OpenRead(s) \/ OpenWrite(s) PROVE \E p \in Pipes : Open(p)
    BY <2>1, PipeFacts DEF OpenConn, OpenRead, OpenWrite
  <2>2. ASSUME NEW s \in Sides, Disconnected(s) \/ RemoteUnLink(s) \/ Exit(s) PROVE \E ps : Close(ps)
    BY <2>2 DEF Disconnected, RemoteUnLink, Exit
  <2>3. ASSUME NEW s \in Sides, Continue(s) \/ User(s),
               ~(OpenConn(s) \/ OpenRead(s) \/ OpenWrite(s) \/ Disconnected(s) \/ RemoteUnLink(s) \/ Exit(s))
        PROVE  pipe' = pipe
    BY <2>3 DEF Continue, User, RemoteLink, LinkAnswered, ConnectAnswered, ConnectDone, Get, GetByte,
                GetFailed, RemoteConnect, Answer, GetLengthServ, GetLengthTrap, Bye, Request, pipeVars
  <2>4. ASSUME Main PROVE pipe' = pipe \/ \E ps : Make(ps)
    BY <2>4 DEF Main, FindLink, OpenServ, OpenTrap
  <2>5. ASSUME NEW s \in Sides, ConnectThread(s) PROVE pipe' = pipe \/ \E ps : Make(ps) \/ DoClose(ps)
    BY <2>5 DEF ConnectThread, ConnectServ, ConnectTrap, EndConnect, Join, Disco, DiscoAck,
                ConnectionEnds, FreeLink, pipeVars
  <2>6. ASSUME NEW r \in Relays, JoinPipeThread(r) PROVE pipe' = pipe \/ \E ps : DoClose(ps)
    BY <2>6 DEF JoinPipeThread, JoinTest, JoinRead, JoinWrite, JoinEnd, pipeVars
  <2>7. CASE UNCHANGED vars
    BY <2>7 DEF vars, pipeVars
  <2> QED
    BY <2>1, <2>2, <2>3, <2>4, <2>5, <2>6, <2>7 DEF Next
<1> QED
  BY <1>1, PipesTyped DEF Typed

\* A step of a program, and one of the broker.
LEMMA ProgramSide ==
  ASSUME Typed, Emptied, Numbers, NEW s \in Sides, Continue(s) \/ User(s)
  PROVE  /\ conns' = conns /\ ct' = ct /\ BrokerTyped' /\ Holding'
         /\ box' = [box EXCEPT ![s] = box'[s]] /\ pc' = [pc EXCEPT ![s] = pc'[s]]
<1>1. conns' = conns
  BY DEF Continue, User, RemoteLink, LinkAnswered, OpenConn, ConnectAnswered, OpenRead, OpenWrite,
         ConnectDone, Get, GetByte, GetFailed, Disconnected, RemoteConnect, Answer, GetLengthServ,
         GetLengthTrap, RemoteUnLink, Exit, Bye, Request
<1>2. UNCHANGED <<link, present, connect_started, connected, ct, relay>>
  BY ProgramStep DEF brokerVars, fields
<1>3. BrokerTyped'
  BY <1>1, <1>2, ProgramTyped DEF Typed, BrokerTyped
<1>4. Holding'
  BY <1>2, HoldingIs, HoldingKept
<1>5. box' = [box EXCEPT ![s] = box'[s]] /\ pc' = [pc EXCEPT ![s] = pc'[s]]
  <2>1. \E to : pc' = [pc EXCEPT ![s] = to]
    BY SideFacts DEF Continue, User, RemoteLink, LinkAnswered, OpenConn, ConnectAnswered, OpenRead, OpenWrite,
         ConnectDone, Get, GetByte, GetFailed, Disconnected, RemoteConnect, Answer, GetLengthServ,
         GetLengthTrap, RemoteUnLink, Exit, Bye, Request, At
  <2>2. box' = box \/ \E to : box' = [box EXCEPT ![s] = to]
    BY DEF Continue, User, RemoteLink, LinkAnswered, OpenConn, ConnectAnswered, OpenRead, OpenWrite,
         ConnectDone, Get, GetByte, GetFailed, Disconnected, RemoteConnect, Answer, GetLengthServ,
         GetLengthTrap, RemoteUnLink, Exit, Bye, Request, Answered, ConnRequest, pipeVars
  <2> QED
    BY <2>1, <2>2 DEF Typed
<1> QED
  BY <1>1, <1>2, <1>3, <1>4, <1>5

LEMMA BrokerSide ==
  ASSUME Inv,
         \/ Main
         \/ \E s \in Sides : ConnectThread(s)
         \/ \E r \in Relays : JoinPipeThread(r)
  PROVE  /\ BrokerTyped' /\ Holding' /\ Contents'
         /\ env' = env /\ UNCHANGED <<pc, starts, nsent, heard, want>>
<1> USE DEF Inv
<1>1. Contents /\ Holding
  BY ContentsIs, HoldingIs
<1>2. "serv" \in Sides /\ <<"serv", 1>> \in Relays
  BY SideFacts, RelayFacts
<1>3. CASE Main
  <2>1. BrokerTyped' /\ Holding' /\ Contents'
    BY <1>1, <1>2, <1>3, BrokerKeeps, MainKeeps, HoldingKept
  <2>2. env' = env /\ UNCHANGED <<pc, starts, nsent, heard, want>>
    BY <1>3 DEF Main, FindLink, OpenServ, OpenTrap, programVars
  <2> QED
    BY <2>1, <2>2
<1>4. ASSUME NEW s \in Sides, ConnectThread(s)
      PROVE  /\ BrokerTyped' /\ Holding' /\ Contents'
             /\ env' = env /\ UNCHANGED <<pc, starts, nsent, heard, want>>
  <2>1. BrokerTyped' /\ Holding' /\ Contents'
    BY <1>1, <1>2, <1>4, BrokerKeeps, ConnectThreadKeeps
  <2>2. env' = env /\ UNCHANGED <<pc, starts, nsent, heard, want>>
    BY <1>4 DEF ConnectThread, ConnectServ, ConnectTrap, EndConnect, Join, Disco, DiscoAck,
                ConnectionEnds, FreeLink, programVars
  <2> QED
    BY <2>1, <2>2
<1>5. ASSUME NEW r \in Relays, JoinPipeThread(r)
      PROVE  /\ BrokerTyped' /\ Holding' /\ Contents'
             /\ env' = env /\ UNCHANGED <<pc, starts, nsent, heard, want>>
  <2>1. BrokerTyped' /\ Holding' /\ Contents'
    BY <1>1, <1>2, <1>5, BrokerKeeps, JoinPipeKeeps
  <2> QED
    BY <2>1, <1>5, RelayStep
<1> QED
  BY <1>3, <1>4, <1>5

\* All of Typed and Emptied, and what Numbers says of packets.
LEMMA DataNext ==
  ASSUME Inv, [Next]_vars
  PROVE  Typed' /\ Contents' /\ Holding' /\ Known'
<1> USE DEF Inv
<1>1. pipe' \in [Pipes -> PipeStates]
  BY PipeKeeps
<1>2. ASSUME NEW s \in Sides, Continue(s) \/ User(s) PROVE Typed' /\ Contents' /\ Holding' /\ Known'
  <2>1. Contents' /\ Known' /\ BrokerTyped' /\ Holding' /\ env' = env
        /\ pc' \in [Sides -> PCs] /\ starts' \in [Sides -> 0..MaxStarts]
    BY <1>2, ProgramKeeps, ProgramSide, ProgramTyped, ProgramStep
  <2>2. msgs' \in [DataPipes -> Seq(Message)] /\ relay' \in [Relays -> [at : RelayAts, msg : Seq(Message)]]
    BY <2>1, ContentsIs, HoldingIs
  <2> QED
    BY <1>1, <2>1, <2>2 DEF Typed, Known, BrokerTyped
<1>3. CASE \/ Main
           \/ \E s \in Sides : ConnectThread(s)
           \/ \E r \in Relays : JoinPipeThread(r)
  <2>1. /\ BrokerTyped' /\ Holding' /\ Contents'
        /\ env' = env /\ UNCHANGED <<pc, starts, nsent, heard, want>>
    BY <1>3, BrokerSide
  <2>2. msgs' \in [DataPipes -> Seq(Message)] /\ relay' \in [Relays -> [at : RelayAts, msg : Seq(Message)]]
    BY <2>1, ContentsIs, HoldingIs
  <2>3. Known'
    BY <2>1 DEF Known, Numbers, Typed
  <2> QED
    BY <1>1, <2>1, <2>2, <2>3 DEF Typed, BrokerTyped
<1>4. CASE UNCHANGED vars
  <2>1. UNCHANGED <<env, pc, starts, conns, nsent, heard, want, bind, box, pipe, msgs, link, present,
                    connect_started, connected, ct, relay>>
    BY <1>4 DEF vars, programVars, pipeVars, brokerVars, fields
  <2>2. Contents' /\ Holding'
    BY <2>1, ContentsIs, HoldingIs, OtherKeeps, HoldingKept
  <2> QED
    BY <2>1, <2>2 DEF Typed, Known, Numbers
<1> QED
  BY <1>2, <1>3, <1>4 DEF Next

-----------------------------------------------------------------------------
(* Numbers, and who has which pipe open *)

\* What Numbers says of connections.
Granted ==
  /\ box["trap"] = "CONNECT" => conns < MaxConnects
  /\ \/ conns >= 1
     \/ /\ pc["trap"] \in {"out", "linking", "opening_conn", "idle", "connect"}
        /\ box["trap"] \in {"empty", "nack", "CONNECT"}
        /\ ct["trap"] \notin {"joining", "sleeping"}

LEMMA GrantedTrap ==
  ASSUME Typed, Granted, Continue("trap") \/ User("trap")
  PROVE  Granted'
<1> USE SideFacts
<1>1. conns' = conns /\ ct' = ct
  BY ProgramStep DEF Continue, User, RemoteLink, LinkAnswered, OpenConn, ConnectAnswered, OpenRead, OpenWrite,
         ConnectDone, Get, GetByte, GetFailed, Disconnected, RemoteConnect, Answer, GetLengthServ,
         GetLengthTrap, RemoteUnLink, Exit, Bye, Request, brokerVars
<1>2. box'["trap"] = "CONNECT" => box["trap"] = "CONNECT" \/ conns < MaxConnects
  <2>1. \/ box' = box
        \/ \E b \in {"empty", "END_CONNECT", "DISCO"} : box' = [box EXCEPT !["trap"] = b]
        \/ box' = [box EXCEPT !["trap"] = IF @ \in {"ack", "nack"} THEN "empty" ELSE @]
        \/ conns < MaxConnects
    BY DEF Continue, User, RemoteLink, LinkAnswered, OpenConn, ConnectAnswered, OpenRead, OpenWrite,
         ConnectDone, Get, GetByte, GetFailed, Disconnected, RemoteConnect,
         GetLengthTrap, RemoteUnLink, Exit, Bye, Request, Answered, ConnRequest, pipeVars
  <2> QED
    BY <2>1 DEF Typed
<1>3. ASSUME /\ pc["trap"] \in {"out", "linking", "opening_conn", "idle", "connect"}
             /\ box["trap"] \in {"empty", "nack", "CONNECT"}
      PROVE  /\ pc'["trap"] \in {"out", "linking", "opening_conn", "idle", "connect"}
             /\ box'["trap"] \in {"empty", "nack", "CONNECT"}
  <2>1. \/ RemoteLink("trap") \/ LinkAnswered("trap") \/ OpenConn("trap") \/ RemoteConnect("trap")
        \/ ConnectAnswered("trap") \/ RemoteUnLink("trap") \/ Exit("trap")
    BY <1>3 DEF Continue, User, OpenRead, OpenWrite, ConnectDone, Get, GetByte, GetFailed, Disconnected,
                GetLengthTrap, Bye, Request, At
  <2>2. CASE RemoteLink("trap") \/ LinkAnswered("trap") \/ OpenConn("trap") \/ RemoteUnLink("trap")
    BY <1>3, <2>2 DEF RemoteLink, LinkAnswered, OpenConn, RemoteUnLink, At, Typed
  <2>3. CASE RemoteConnect("trap") \/ ConnectAnswered("trap")
    BY <1>3, <2>3 DEF RemoteConnect, ConnectAnswered, Answered, ConnRequest, At, Typed
  <2>4. CASE Exit("trap")
    BY <1>3, <2>4 DEF Exit, At, Typed
  <2> QED
    BY <2>1, <2>2, <2>3, <2>4
<1> QED
  BY <1>1, <1>2, <1>3 DEF Granted

LEMMA GrantedNext ==
  ASSUME Inv, [Next]_vars
  PROVE  Granted'
<1> USE DEF Inv
<1> USE SideFacts
<1>0. Granted
  BY DEF Granted, Numbers
<1>1. ASSUME NEW s \in Sides, Continue(s) \/ User(s) PROVE Granted'
  <2>1. CASE s = "trap"
    BY <1>0, <1>1, <2>1, GrantedTrap
  <2>2. CASE s = "serv"
    <3>1. conns' = conns /\ ct' = ct /\ box'["trap"] = box["trap"] /\ pc'["trap"] = pc["trap"]
      BY <1>1, <2>2, ProgramSide DEF Typed
    <3> QED
      BY <1>0, <3>1 DEF Granted
  <2> QED
    BY <2>1, <2>2
<1>2. CASE FindLink
  <2>1. UNCHANGED <<conns, ct, box, pc>>
    BY <1>2 DEF FindLink, brokerVars, programVars
  <2> QED
    BY <1>0, <2>1 DEF Granted
<1>3. CASE OpenServ \/ OpenTrap
  <2>1. UNCHANGED <<conns, box, pc>> /\ ct'["trap"] \in {ct["trap"], "read"}
    BY <1>3 DEF OpenServ, OpenTrap, programVars, Typed
  <2> QED
    BY <1>0, <2>1 DEF Granted
<1>4. ASSUME ConnectThread("serv") PROVE Granted'
  <2>1. UNCHANGED <<conns, pc>> /\ ct'["trap"] = ct["trap"] /\ box'["trap"] = box["trap"]
    BY <1>4 DEF ConnectThread, ConnectServ, EndConnect, Join, Disco, DiscoAck, ConnectionEnds,
                FreeLink, Ack, Nack, programVars, pipeVars, Typed
  <2> QED
    BY <1>0, <2>1 DEF Granted
<1>5. CASE ConnectTrap
  <2>1. CASE present["serv"]
    <3>1. conns' = conns + 1 /\ box'["trap"] # "CONNECT"
      BY <1>5, <2>1 DEF ConnectTrap, Ack, Typed
    <3> QED
      BY <3>1, NmpConstants DEF Granted, Typed
  <2>2. CASE ~present["serv"]
    <3>1. conns' = conns /\ pc' = pc /\ ct' = ct /\ box'["trap"] \in {"empty", "nack"}
      BY <1>5, <2>2 DEF ConnectTrap, Nack, Typed
    <3> QED
      BY <1>0, <3>1 DEF Granted
  <2> QED
    BY <2>1, <2>2
<1>6. ASSUME \/ EndConnect("trap") \/ Join("trap") \/ Disco("trap") \/ DiscoAck("trap")
      PROVE  Granted'
  <2>1. conns >= 1
    BY <1>0, <1>6 DEF EndConnect, Join, Disco, DiscoAck, Reads, Granted
  <2>2. conns' = conns /\ box'["trap"] \in {box["trap"], "ack", "empty"}
    BY <1>6 DEF EndConnect, Join, Disco, DiscoAck, Ack, programVars, pipeVars, Typed
  <2> QED
    BY <1>0, <2>1, <2>2 DEF Granted
<1>7. ASSUME ConnectionEnds("trap") \/ FreeLink("trap") PROVE Granted'
  <2>1. conns' = conns /\ box' = box /\ pc' = pc /\ ct'["trap"] \in {"freeing", "none"}
    BY <1>7 DEF ConnectionEnds, FreeLink, programVars, pipeVars, Typed
  <2> QED
    BY <1>0, <2>1 DEF Granted
<1>8. ASSUME NEW r \in Relays, JoinPipeThread(r) PROVE Granted'
  <2>1. UNCHANGED <<conns, ct, box, pc>>
    BY <1>8, RelayStep
  <2> QED
    BY <1>0, <2>1 DEF Granted
<1>9. CASE UNCHANGED vars
  <2>1. UNCHANGED <<conns, ct, box, pc>>
    BY <1>9 DEF vars, brokerVars, programVars, pipeVars
  <2> QED
    BY <1>0, <2>1 DEF Granted
<1>10. ASSUME ConnectThread("trap") PROVE Granted'
  BY <1>5, <1>6, <1>7, <1>10 DEF ConnectThread
<1>11. ASSUME NEW s \in Sides, ConnectThread(s) PROVE Granted'
  BY <1>4, <1>10, <1>11
<1> QED
  BY <1>1, <1>2, <1>3, <1>8, <1>9, <1>11 DEF Next, Main

LEMMA NumbersNext ==
  ASSUME Inv, [Next]_vars
  PROVE  Typed' /\ Emptied' /\ Numbers'
<1>1. Typed' /\ Contents' /\ Holding' /\ Known' /\ Granted'
  BY DataNext, GrantedNext
<1>2. Emptied'
  BY <1>1, ContentsIs, HoldingIs DEF Emptied
<1>3. Numbers'
  <2>1. \A p \in DataPipes : AsksWhole(msgs'[p])
    BY <1>1, ContentsIs
  <2>2. \A r \in Relays : AsksWhole(relay'[r].msg)
    BY <1>1, HoldingIs
  <2> QED
    BY <1>1, <2>1, <2>2 DEF Known, Granted, Numbers, AsksWhole
<1> QED
  BY <1>1, <1>2, <1>3

LEMMA ProgramsNext ==
  ASSUME Inv, [Next]_vars
  PROVE  Programs'
<1> USE DEF Inv
<1> USE SideFacts
<1> DEFINE P(s) ==
  /\ ConnPipe(s)' = "open" <=> pc'[s] \notin {"out", "linking", "opening_conn"}
  /\ ReadPipe(s)' = "open" =>
       pc'[s] \in {"opening_write", "connect_done", "ready", "get", "get_length", "answer", "disco", "failed"}
  /\ WritePipe(s)' = "open" =>
       pc'[s] \in {"connect_done", "ready", "get", "get_length", "answer", "disco", "failed"}
  /\ pc'[s] \in {"opening_read", "opening_write"} => box'[s] # "END_CONNECT"
<1>1. ASSUME NEW s \in Sides, Continue(s) \/ User(s), NEW t \in Sides, t # s PROVE P(t)
  <2>1. pc'[t] = pc[t] /\ box'[t] = box[t]
    BY <1>1, ProgramSide DEF Typed
  <2>2. ConnPipe(t)' = ConnPipe(t) /\ ReadPipe(t)' = ReadPipe(t) /\ WritePipe(t)' = WritePipe(t)
    <3>1. \/ OpenConn(s) \/ OpenRead(s) \/ OpenWrite(s) \/ Disconnected(s) \/ RemoteUnLink(s) \/ Exit(s)
          \/ AllKept
      BY <1>1, OthersKeep DEF Continue, User
    <3>2. t = Other(s)
      BY <1>1
    <3> QED
      BY <3>1, <3>2, OpenConnIs, OpenReadIs, OpenWriteIs, DisconnectedIs, RemoteUnLinkIs, ExitIs
         DEF AllKept, ConnKept, ReadKept, WriteKept
  <2> QED
    BY <2>1, <2>2 DEF Programs
<1>2. ASSUME NEW s \in Sides, OpenConn(s) PROVE P(s)
  <2>1. pc[s] = "opening_conn" /\ pc'[s] = "idle"
    BY <1>2 DEF OpenConn, At, Typed
  <2> QED
    BY <1>2, <2>1, OpenConnIs DEF ReadKept, WriteKept, Programs
<1>3. ASSUME NEW s \in Sides, OpenRead(s) PROVE P(s)
  <2>1. pc[s] = "opening_read" /\ pc'[s] = "opening_write" /\ box' = box
    BY <1>3 DEF OpenRead, At, Typed
  <2> QED
    BY <1>3, <2>1, OpenReadIs DEF ConnKept, WriteKept, Programs
<1>4. ASSUME NEW s \in Sides, OpenWrite(s) PROVE P(s)
  <2>1. pc[s] = "opening_write" /\ pc'[s] = "connect_done"
    BY <1>4 DEF OpenWrite, At, Typed
  <2> QED
    BY <1>4, <2>1, OpenWriteIs DEF ConnKept, ReadKept, Programs
<1>5. ASSUME NEW s \in Sides, Disconnected(s) PROVE P(s)
  <2>1. pc[s] = "disco" /\ pc'[s] = "idle"
    BY <1>5 DEF Disconnected, At, Typed
  <2> QED
    BY <1>5, <2>1, DisconnectedIs DEF ConnKept, Shut, Programs
<1>6. ASSUME NEW s \in Sides, RemoteUnLink(s) PROVE P(s)
  <2>1. pc[s] = "idle" /\ pc'[s] = "out"
    BY <1>6 DEF RemoteUnLink, At, Typed
  <2> QED
    BY <1>6, <2>1, RemoteUnLinkIs DEF ReadKept, WriteKept, Shut, Programs
<1>7. ASSUME NEW s \in Sides, Exit(s) PROVE P(s)
  <2>1. pc'[s] = "out"
    BY <1>7 DEF Exit, At, Typed
  <2> QED
    BY <1>7, <2>1, ExitIs DEF Shut, Programs
<1>8. ASSUME NEW s \in Sides, Continue(s) \/ User(s), AllKept PROVE P(s)
  <2>1. P(s) <=> /\ ConnPipe(s) = "open" <=> pc'[s] \notin {"out", "linking", "opening_conn"}
                 /\ ReadPipe(s) = "open" =>
                      pc'[s] \in {"opening_write", "connect_done", "ready", "get", "get_length", "answer", "disco", "failed"}
                 /\ WritePipe(s) = "open" =>
                      pc'[s] \in {"connect_done", "ready", "get", "get_length", "answer", "disco", "failed"}
                 /\ pc'[s] \in {"opening_read", "opening_write"} => box'[s] # "END_CONNECT"
    BY <1>8 DEF AllKept, ConnKept, ReadKept, WriteKept
  <2> HIDE DEF P
  <2>2. CASE RemoteLink(s) \/ LinkAnswered(s)
    <3>1. /\ pc[s] \in {"out", "linking"} /\ pc'[s] \in {"out", "linking", "opening_conn"}
      BY <2>2 DEF RemoteLink, LinkAnswered, At, Typed
    <3> QED
      BY <2>1, <3>1 DEF Programs
  <2>6. CASE GetFailed(s) \/ Get(s) \/ GetByte(s)
    <3>1. pc[s] = "get" /\ pc'[s] \in {"ready", "get", "get_length", "answer", "failed"}
      BY <2>6 DEF GetFailed, Get, GetByte, At, Typed
    <3> QED
      BY <2>1, <3>1 DEF Programs
  <2>3. CASE RemoteConnect(s) \/ ConnectDone(s)
    <3>1. \/ pc[s] = "idle" /\ pc'[s] = "connect"
          \/ pc[s] = "connect_done" /\ pc'[s] \in {"get", "ready"}
      BY <2>3 DEF RemoteConnect, ConnectDone, At, Typed
    <3> QED
      BY <2>1, <3>1 DEF Programs
  <2>7. CASE ConnectAnswered(s)
    <3>1. pc[s] = "connect" /\ pc'[s] \in {"opening_read", "idle"} /\ box'[s] = "empty"
      BY <2>7 DEF ConnectAnswered, Answered, At, Typed
    <3> QED
      BY <2>1, <3>1 DEF Programs
  <2>4. CASE s = "serv" /\ (Answer \/ GetLengthServ)
    BY <2>1, <2>4 DEF Answer, GetLengthServ, ConnRequest, At, Typed, Programs
  <2>5. CASE s = "trap" /\ (GetLengthTrap \/ Bye \/ \E req \in {"ask", "tell"} : Request(req))
    BY <2>1, <2>5 DEF GetLengthTrap, Bye, Request, ConnRequest, At, Typed, Programs
  <2> QED
    BY <1>2, <1>3, <1>4, <1>5, <1>6, <1>7, <1>8, <2>2, <2>3, <2>4, <2>5, <2>6, <2>7 DEF Continue, User
<1>9. ASSUME NEW s \in Sides, Continue(s) \/ User(s) PROVE Programs'
  <2>1. P(s)
    <3>1. \/ OpenConn(s) \/ OpenRead(s) \/ OpenWrite(s) \/ Disconnected(s) \/ RemoteUnLink(s) \/ Exit(s)
          \/ AllKept
      BY <1>9, OthersKeep DEF Continue, User
    <3> QED
      BY <3>1, <1>2, <1>3, <1>4, <1>5, <1>6, <1>7, <1>8, <1>9
  <2>2. \A t \in Sides : P(t)
    BY <2>1, <1>1, <1>9
  <2> QED
    BY <2>2 DEF Programs
<1>10. ASSUME pc' = pc,
              \A t \in Sides : /\ ConnPipe(t)' = "open" <=> ConnPipe(t) = "open"
                               /\ ReadPipe(t)' = "open" => ReadPipe(t) = "open"
                               /\ WritePipe(t)' = "open" => WritePipe(t) = "open"
                               /\ box'[t] = "END_CONNECT" => box[t] = "END_CONNECT"
       PROVE Programs'
  <2>1. \A t \in Sides : P(t)
    BY <1>10 DEF Programs
  <2> QED
    BY <2>1 DEF Programs
<1>11. CASE OpenServ \/ OpenTrap
  <2>1. pc' = pc /\ box' = box
    BY <1>11 DEF OpenServ, OpenTrap, programVars
  <2> QED
    BY <1>10, <1>11, <2>1, OpenServIs, OpenTrapIs DEF ReadKept, WriteKept
<1>12. ASSUME NEW s \in Sides, ConnectThread(s) PROVE Programs'
  <2>1. pc' = pc
    BY <1>12 DEF ConnectThread, ConnectServ, ConnectTrap, EndConnect, Join, Disco, DiscoAck,
                 ConnectionEnds, FreeLink, programVars
  <2>2. \A t \in Sides : box'[t] = "END_CONNECT" => box[t] = "END_CONNECT"
    BY <1>12 DEF ConnectThread, ConnectServ, ConnectTrap, EndConnect, Join, Disco, DiscoAck,
                 ConnectionEnds, FreeLink, pipeVars, Ack, Nack, Typed
  <2>3. CASE AllKept
    BY <1>10, <2>1, <2>2, <2>3 DEF AllKept, ConnKept, ReadKept, WriteKept
  <2>4. CASE ConnectTrap
    BY <1>10, <2>1, <2>2, <2>4, ConnectTrapIs DEF ConnKept, Made
  <2>5. CASE ConnectionEnds(s)
    BY <1>10, <2>1, <2>2, <2>5, ConnectionEndsIs DEF ReadKept, WriteKept
  <2> QED
    BY <1>12, <2>3, <2>4, <2>5, OthersKeep DEF ConnectThread
<1>13. ASSUME NEW r \in Relays, JoinPipeThread(r) PROVE Programs'
  <2>1. pc' = pc /\ box' = box
    BY <1>13, RelayStep
  <2>2. CASE AllKept
    BY <1>10, <2>1, <2>2 DEF AllKept, ConnKept, ReadKept, WriteKept
  <2>3. CASE JoinEnd(r)
    <3>1. PICK s \in Sides : r = <<s, 1>>
      BY <1>13, RelayStep
    <3>2. JoinEnd(<<s, 1>>)
      BY <2>3, <3>1
    <3> QED
      BY <1>10, <2>1, <3>2, JoinEndIs DEF ConnKept
  <2>4. AllKept \/ JoinEnd(r)
    BY <1>13, OthersKeep DEF JoinPipeThread
  <2> QED
    BY <2>2, <2>3, <2>4
<1>14. CASE FindLink \/ UNCHANGED vars
  <2>1. pc' = pc /\ box' = box
    BY <1>14 DEF FindLink, vars, programVars, pipeVars
  <2>2. AllKept
    BY <1>14, OthersKeep
  <2> QED
    BY <1>10, <2>1, <2>2 DEF AllKept, ConnKept, ReadKept, WriteKept
<1> QED
  BY <1>9, <1>11, <1>12, <1>13, <1>14 DEF Next, Main

-----------------------------------------------------------------------------
(* Pairs *)

\* A step of one program leaves the other and its pipes alone.
LEMMA OtherAlone ==
  ASSUME Typed, Emptied, Numbers, NEW s \in Sides, Continue(s) \/ User(s), NEW t \in Sides, t # s
  PROVE  /\ pc'[t] = pc[t] /\ box'[t] = box[t]
         /\ ConnPipe(t)' = ConnPipe(t) /\ ReadPipe(t)' = ReadPipe(t) /\ WritePipe(t)' = WritePipe(t)
<1>1. pc'[t] = pc[t] /\ box'[t] = box[t]
  BY ProgramSide DEF Typed
<1>2. \/ OpenConn(s) \/ OpenRead(s) \/ OpenWrite(s) \/ Disconnected(s) \/ RemoteUnLink(s) \/ Exit(s)
      \/ AllKept
  BY OthersKeep DEF Continue, User
<1>3. t = Other(s)
  BY SideFacts
<1> QED
  BY <1>1, <1>2, <1>3, OpenConnIs, OpenReadIs, OpenWriteIs, DisconnectedIs, RemoteUnLinkIs, ExitIs
     DEF AllKept, ConnKept, ReadKept, WriteKept

\* Pairs of one side, after a step.
PairNext(s) ==
  /\ relay'[<<s, 2>>].at = "none"
  /\ relay'[<<s, 1>>].at # "none" => connected'[s] /\ ReadPipe(Other(s))' \in Up
  /\ connected'[s] => WritePipe(s)' \in Up
  /\ connected'[s] /\ relay'[<<s, 1>>].at = "none" => ReadPipe(s)' \in Up /\ relay'[<<Other(s), 1>>].at = "none"
  /\ box'[s] = "END_CONNECT" /\ ct'[s] # "joining" =>
       /\ ~connected'[s] /\ WritePipe(s)' \in Up /\ ReadPipe(s)' \in Up
       /\ relay'[<<Other(s), 1>>].at = "none"
  /\ pc'[s] = "opening_write" =>
       /\ ReadPipe(s)' = "open" /\ relay'[<<Other(s), 1>>].at = "none"
       /\ connected'[s] => relay'[<<s, 1>>].at # "none"
  /\ ct'[s] = "joining" => /\ connected'[s] /\ relay'[<<s, 1>>].at = "none"
                           /\ relay'[<<Other(s), 1>>].at = "none"

LEMMA PairNextIs == (\A s \in Sides : PairNext(s)) => Pairs'
BY DEF PairNext, Pairs, Active, Up

\* Steps that join nothing, end nothing and take no pipe away.
LEMMA PairsKept ==
  ASSUME Pairs, connected' = connected,
         \A t \in Sides : /\ relay'[<<t, 1>>].at = "none" <=> relay[<<t, 1>>].at = "none"
                          /\ relay'[<<t, 2>>].at = relay[<<t, 2>>].at
                          /\ ReadPipe(t) \in Up => ReadPipe(t)' \in Up
                          /\ WritePipe(t) \in Up => WritePipe(t)' \in Up
                          /\ pc'[t] = "opening_write" =>
                               pc[t] = "opening_write" /\ (ReadPipe(t) = "open" => ReadPipe(t)' = "open")
                          /\ box'[t] = "END_CONNECT" => box[t] = "END_CONNECT" /\ ct[t] # "joining"
                          /\ ct'[t] = "joining" => ct[t] = "joining"
  PROVE  Pairs'
<1>1. ASSUME NEW t \in Sides PROVE PairNext(t)
  <2>1. Other(t) \in Sides
    BY SideFacts
  <2>2. /\ relay'[<<t, 1>>].at = "none" <=> ~Active(t)
        /\ relay'[<<Other(t), 1>>].at = "none" <=> ~Active(Other(t))
        /\ relay'[<<t, 2>>].at = "none"
    BY <2>1 DEF Active, Pairs
  <2>3. /\ ReadPipe(t) \in Up => ReadPipe(t)' \in Up
        /\ WritePipe(t) \in Up => WritePipe(t)' \in Up
        /\ ReadPipe(Other(t)) \in Up => ReadPipe(Other(t))' \in Up
        /\ pc'[t] = "opening_write" =>
             pc[t] = "opening_write" /\ (ReadPipe(t) = "open" => ReadPipe(t)' = "open")
        /\ box'[t] = "END_CONNECT" => box[t] = "END_CONNECT" /\ ct[t] # "joining"
        /\ ct'[t] = "joining" => ct[t] = "joining"
    BY <2>1
  <2> QED
    BY <2>2, <2>3 DEF PairNext, Pairs
<1> QED
  BY <1>1, PairNextIs

\* What Pairs says of the other side.
LEMMA OtherPair ==
  ASSUME Pairs, NEW s \in Sides
  PROVE  /\ Active(s) => /\ ct[s] # "joining" /\ ct[Other(s)] # "joining" /\ connected[s]
                         /\ box[s] # "END_CONNECT" /\ box[Other(s)] # "END_CONNECT"
                         /\ pc[Other(s)] # "opening_write"
                         /\ connected[Other(s)] => Active(Other(s))
         /\ Active(Other(s)) => ReadPipe(s) \in Up
<1> DEFINE o == Other(s)
<1>1. o \in Sides /\ Other(o) = s
  BY SideFacts
<1>2. Active(Other(o)) = Active(s) /\ ReadPipe(Other(o)) = ReadPipe(s)
  BY <1>1
<1>3. /\ ct[s] = "joining" => connected[s] /\ ~Active(s)
      /\ Active(s) => connected[s]
      /\ box[s] = "END_CONNECT" /\ ct[s] # "joining" => ~connected[s]
  BY DEF Pairs
<1>4. /\ ct[o] = "joining" => ~Active(Other(o))
      /\ box[o] = "END_CONNECT" /\ ct[o] # "joining" => ~Active(Other(o))
      /\ pc[o] = "opening_write" => ~Active(Other(o))
      /\ connected[o] /\ ~Active(o) => ~Active(Other(o))
      /\ Active(o) => ReadPipe(Other(o)) \in Up
  BY <1>1 DEF Pairs
<1> HIDE DEF o
<1>5. /\ Active(s) => /\ ct[s] # "joining" /\ ct[o] # "joining" /\ connected[s]
                      /\ box[s] # "END_CONNECT" /\ box[o] # "END_CONNECT"
                      /\ pc[o] # "opening_write"
                      /\ connected[o] => Active(o)
      /\ Active(o) => ReadPipe(s) \in Up
  BY <1>2, <1>3, <1>4
<1> QED
  BY <1>5 DEF o

LEMMA PairsProgram ==
  ASSUME Inv, NEW s \in Sides, Continue(s) \/ User(s)
  PROVE  Pairs'
<1> USE DEF Inv
<1>1. UNCHANGED <<relay, connected, ct>>
  BY ProgramStep DEF brokerVars, fields
<1>2. \A t \in Sides : (ReadPipe(t) \in Up => ReadPipe(t)' \in Up) /\ (WritePipe(t) \in Up => WritePipe(t)' \in Up)
  BY ProgramStep
<1>3. PairNext(Other(s))
  <2>1. /\ pc'[Other(s)] = pc[Other(s)] /\ box'[Other(s)] = box[Other(s)]
        /\ ReadPipe(Other(s))' = ReadPipe(Other(s)) /\ WritePipe(Other(s))' = WritePipe(Other(s))
    BY OtherAlone, SideFacts
  <2>2. Other(s) \in Sides /\ Other(Other(s)) = s
    BY SideFacts
  <2>3. ReadPipe(Other(Other(s)))' = ReadPipe(s)' /\ ReadPipe(Other(Other(s))) = ReadPipe(s)
    BY <2>2 DEF ReadPipe
  <2> QED
    BY <1>1, <1>2, <2>1, <2>2, <2>3 DEF PairNext, Pairs, Active
<1>4. ASSUME pc'[s] # "opening_write",
             box'[s] = "END_CONNECT" => box[s] = "END_CONNECT"
      PROVE  PairNext(s)
  BY <1>1, <1>2, <1>4, SideFacts DEF PairNext, Pairs, Active
<1>5. ASSUME OpenRead(s) PROVE PairNext(s)
  <2>1. ReadPipe(s) = "listening" /\ ReadPipe(s)' = "open" /\ box' = box
    BY <1>5, OpenReadIs DEF OpenRead
  <2>2. ~Active(Other(s))
    <3>1. Active(Other(s)) => ReadPipe(Other(Other(s))) \in Up
      BY SideFacts DEF Pairs
    <3> QED
      BY <3>1, <2>1, SideFacts DEF Up
  <2>3. connected[s] => Active(s)
    BY <2>1 DEF Pairs, Up
  <2> QED
    BY <1>1, <1>2, <2>1, <2>2, <2>3, SideFacts DEF PairNext, Pairs, Active
<1>6. ASSUME OpenWrite(s) PROVE PairNext(s)
  <2>1. /\ WritePipe(s) = "listening" /\ WritePipe(s)' = "open" /\ ReadPipe(s)' = ReadPipe(s)
        /\ pc[s] = "opening_write" /\ pc'[s] = "connect_done"
    BY <1>6, OpenWriteIs DEF OpenWrite, At, ReadKept, Typed
  <2>2. ~connected[s] /\ ReadPipe(s) = "open" /\ ~Active(Other(s))
    BY <2>1 DEF Pairs, Up
  <2>3. WritePipe(s)' \in Up /\ ReadPipe(s)' \in Up
    BY <2>1, <2>2 DEF Up
  <2> QED
    BY <1>1, <1>2, <2>1, <2>2, <2>3, SideFacts DEF PairNext, Pairs, Active
<1>7. ASSUME ~OpenRead(s), ~OpenWrite(s)
      PROVE  pc'[s] # "opening_write" /\ (box'[s] = "END_CONNECT" => box[s] = "END_CONNECT")
  <2>1. CASE \/ RemoteLink(s) \/ LinkAnswered(s) \/ OpenConn(s) \/ GetFailed(s) \/ Get(s) \/ GetByte(s)
             \/ RemoteUnLink(s)
    BY <2>1 DEF RemoteLink, LinkAnswered, OpenConn, GetFailed, Get, GetByte, RemoteUnLink, At, pipeVars, Typed
  <2>2. CASE RemoteConnect(s) \/ ConnectAnswered(s) \/ ConnectDone(s) \/ Disconnected(s) \/ Exit(s)
    BY <2>2 DEF RemoteConnect, ConnectAnswered, ConnectDone, Disconnected, Exit, Answered, ConnRequest, At, Typed
  <2>3. CASE s = "serv" /\ (Answer \/ GetLengthServ)
    BY <2>3 DEF Answer, GetLengthServ, ConnRequest, At, Typed
  <2>4. CASE s = "trap" /\ (GetLengthTrap \/ Bye \/ \E req \in {"ask", "tell"} : Request(req))
    BY <2>4 DEF GetLengthTrap, Bye, Request, ConnRequest, At, Typed
  <2> QED
    BY <1>7, <2>1, <2>2, <2>3, <2>4 DEF Continue, User
<1>8. PairNext(s)
  BY <1>4, <1>5, <1>6, <1>7
<1> QED
  BY <1>3, <1>8, PairNextIs, SideFacts

LEMMA PairsMain ==
  ASSUME Inv, Main
  PROVE  Pairs'
<1> USE DEF Inv
<1>1. \A s \in Sides : ct[s] # "joining"
  BY OneRuns DEF Main, FindLink, OpenServ, OpenTrap
<1>2. UNCHANGED <<pc, box, relay>> /\ ReadKept /\ WriteKept
  BY OthersKeep, OpenServIs, OpenTrapIs, SideFacts
     DEF Main, FindLink, OpenServ, OpenTrap, AllKept, programVars, brokerVars
<1>3. \A s \in Sides : ct'[s] \in {ct[s], "read"}
  BY DEF Main, FindLink, OpenServ, OpenTrap, brokerVars, Typed
<1>4. CASE connected' = connected
  BY <1>1, <1>2, <1>3, <1>4, PairsKept DEF ReadKept, WriteKept
<1>5. CASE OpenServ /\ bind.at = "missing"
  <2>1. \A s \in Sides : ~connected'[s]
    BY <1>5 DEF OpenServ
  <2>2. \A r \in Relays : relay[r].at = "none"
    BY <1>5 DEF Turns, Threads, ThreadsHaveLink
  <2>3. \A s \in Sides : PairNext(s)
    <3>1. TAKE s \in Sides
    <3>2. /\ relay'[<<s, 1>>].at = "none" /\ relay'[<<s, 2>>].at = "none"
          /\ relay'[<<Other(s), 1>>].at = "none"
      BY <1>2, <2>2, RelayFacts, SideFacts
    <3>3. ~connected'[s] /\ ct[s] # "joining" /\ ct'[s] # "joining"
      BY <1>1, <1>3, <2>1
    <3>4. ReadPipe(s)' = ReadPipe(s) /\ WritePipe(s)' = WritePipe(s)
      BY <1>2 DEF ReadKept, WriteKept
    <3> QED
      BY <1>2, <3>2, <3>3, <3>4 DEF PairNext, Pairs, Active
  <2> QED
    BY <2>3, PairNextIs
<1>6. connected' = connected \/ (OpenServ /\ bind.at = "missing")
  BY DEF Main, FindLink, OpenServ, OpenTrap, brokerVars, fields
<1> QED
  BY <1>4, <1>5, <1>6

LEMMA PairsEndConnect ==
  ASSUME Inv, NEW s \in Sides, EndConnect(s)
  PROVE  Pairs'
<1> USE DEF Inv
<1>1. /\ UNCHANGED <<pc, box, relay>> /\ ReadKept /\ WriteKept
      /\ ct[s] = "read" /\ box[s] = "END_CONNECT"
      /\ connected'[s] /\ connected'[Other(s)] = connected[Other(s)]
      /\ ct'[s] = "joining" /\ ct'[Other(s)] = ct[Other(s)]
  <2>1. connected' = [connected EXCEPT ![s] = TRUE] /\ ct' = [ct EXCEPT ![s] = "joining"]
        /\ ct[s] = "read" /\ box[s] = "END_CONNECT" /\ UNCHANGED <<pc, box, relay>>
    BY DEF EndConnect, Reads, pipeVars, programVars
  <2>2. connected'[s] /\ connected'[Other(s)] = connected[Other(s)]
        /\ ct'[s] = "joining" /\ ct'[Other(s)] = ct[Other(s)]
    BY <2>1, SideFacts DEF Typed
  <2> QED
    BY <2>1, <2>2, OthersKeep DEF AllKept
<1>2. ~connected[s] /\ WritePipe(s) \in Up /\ ReadPipe(s) \in Up /\ ~Active(Other(s)) /\ ~Active(s)
  BY <1>1 DEF Pairs
<1>3. pc[s] # "opening_write"
  BY <1>1 DEF Programs
<1>4. PairNext(s)
  BY <1>1, <1>2, <1>3, SideFacts DEF PairNext, Pairs, Active, ReadKept, WriteKept
<1>5. PairNext(Other(s))
  BY <1>1, <1>2, SideFacts DEF PairNext, Pairs, Active, ReadKept, WriteKept
<1> QED
  BY <1>4, <1>5, PairNextIs, SideFacts

LEMMA PairsJoin ==
  ASSUME Inv, NEW s \in Sides, Join(s)
  PROVE  Pairs'
<1> USE DEF Inv
<1>1. /\ UNCHANGED <<pc, connected>> /\ ReadKept /\ WriteKept /\ ct[s] = "joining" /\ Runs(s)
      /\ ct'[s] = "read" /\ ct'[Other(s)] = ct[Other(s)]
      /\ box'[s] # "END_CONNECT" /\ box'[Other(s)] = box[Other(s)]
  <2>1. /\ ct' = [ct EXCEPT ![s] = "read"] /\ UNCHANGED <<pc, connected>> /\ ct[s] = "joining" /\ Runs(s)
        /\ \E b \in {"ack", "empty"} : box' = [box EXCEPT ![s] = b]
    BY DEF Join, Ack, programVars, fields
  <2>2. /\ ct'[s] = "read" /\ ct'[Other(s)] = ct[Other(s)]
        /\ box'[s] # "END_CONNECT" /\ box'[Other(s)] = box[Other(s)]
    BY <2>1, SideFacts DEF Typed
  <2> QED
    BY <2>1, <2>2, OthersKeep DEF AllKept
<1>2. ~Active(s) /\ ~Active(Other(s)) /\ connected[s] /\ ct[Other(s)] # "joining"
  BY <1>1, OneRuns DEF Pairs
<1>3. CASE ~connected[Other(s)]
  <2>1. relay' = relay
    BY <1>3 DEF Join
  <2>2. \A t \in Sides : PairNext(t)
    <3>1. PairNext(s)
      BY <1>1, <1>2, <2>1, SideFacts DEF PairNext, Pairs, Active, ReadKept, WriteKept
    <3>2. PairNext(Other(s))
      BY <1>1, <1>2, <2>1, SideFacts DEF PairNext, Pairs, Active, ReadKept, WriteKept
    <3> QED
      BY <3>1, <3>2, SideFacts
  <2> QED
    BY <2>2, PairNextIs
<1>4. CASE connected[Other(s)]
  <2>1. relay[<<"serv", 1>>].at = "none" /\ relay[<<"trap", 1>>].at = "none"
    BY <1>2, SideFacts DEF Active
  <2>2. relay' = [r \in Relays |-> IF r[2] = 1 THEN [at |-> "test", msg |-> <<>>] ELSE relay[r]]
    BY <1>4, <2>1 DEF Join
  <2>3. \A t \in Sides : relay'[<<t, 1>>].at = "test" /\ relay'[<<t, 2>>].at = "none"
    BY <2>2, RelayFacts DEF Pairs
  <2>4. ReadPipe(s) \in Up /\ ReadPipe(Other(s)) \in Up
    BY <1>2, <1>4, SideFacts DEF Pairs
  <2>5. pc[s] # "opening_write" /\ pc[Other(s)] # "opening_write" /\ box[Other(s)] # "END_CONNECT"
    BY <1>2, <1>4, SideFacts DEF Pairs
  <2>6. PairNext(s)
    BY <1>1, <1>2, <1>4, <2>3, <2>4, <2>5, SideFacts DEF PairNext, Pairs, ReadKept, WriteKept
  <2>7. PairNext(Other(s))
    BY <1>1, <1>2, <1>4, <2>3, <2>4, <2>5, SideFacts DEF PairNext, Pairs, ReadKept, WriteKept
  <2> QED
    BY <2>6, <2>7, PairNextIs, SideFacts
<1> QED
  BY <1>3, <1>4

LEMMA PairsThread ==
  ASSUME Inv, NEW s \in Sides, ConnectThread(s)
  PROVE  Pairs'
<1> USE DEF Inv
<1>1. CASE EndConnect(s) \/ Join(s)
  BY <1>1, PairsEndConnect, PairsJoin
<1>2. CASE ~(EndConnect(s) \/ Join(s))
  <2>1. UNCHANGED <<pc, connected, relay>>
    BY <1>2 DEF ConnectThread, ConnectServ, ConnectTrap, Disco, DiscoAck, ConnectionEnds, FreeLink, fields, programVars
  <2>2. ct[s] # "joining" /\ ct'[s] # "joining" /\ ct'[Other(s)] = ct[Other(s)] /\ ct[Other(s)] # "joining"
    <3>1. Runs(s) /\ ct[s] # "joining"
      BY <1>2 DEF ConnectThread, ConnectServ, ConnectTrap, Disco, DiscoAck, ConnectionEnds, FreeLink, Reads
    <3>2. ct' = ct \/ \E c \in {"sleeping", "read", "freeing", "none"} : ct' = [ct EXCEPT ![s] = c]
      BY <1>2 DEF ConnectThread, ConnectServ, ConnectTrap, Disco, DiscoAck, ConnectionEnds, FreeLink
    <3> QED
      BY <3>1, <3>2, OneRuns, SideFacts DEF Typed
  <2>3. \A t \in Sides : box'[t] = "END_CONNECT" => box[t] = "END_CONNECT"
    BY <1>2 DEF ConnectThread, ConnectServ, ConnectTrap, Disco, DiscoAck, ConnectionEnds, FreeLink, Ack, Nack,
                pipeVars, Typed
  <2>4. \A t \in Sides : /\ ReadPipe(t) \in Up => ReadPipe(t)' \in Up
                         /\ WritePipe(t) \in Up => WritePipe(t)' \in Up
                         /\ ReadPipe(t) = "open" => ReadPipe(t)' = "open"
    <3>1. CASE AllKept
      BY <3>1 DEF AllKept, ReadKept, WriteKept
    <3>2. CASE ConnectTrap
      BY <3>2, ConnectTrapIs DEF Made, Up
    <3>3. CASE ConnectionEnds(s)
      BY <3>3, ConnectionEndsIs DEF ReadKept, WriteKept
    <3> QED
      BY <3>1, <3>2, <3>3, OthersKeep DEF ConnectThread
  <2>5. \A t \in Sides : ct[t] # "joining" /\ ct'[t] # "joining"
    BY <2>2, SideFacts
  <2> QED
    BY <2>1, <2>3, <2>4, <2>5, PairsKept
<1> QED
  BY <1>1, <1>2

LEMMA MoveIs ==
  ASSUME Typed, NEW s \in Sides, NEW from, NEW to, NEW msg, Move(<<s, 1>>, from, to, msg)
  PROVE  /\ relay'[<<s, 1>>].at = to
         /\ relay'[<<Other(s), 1>>] = relay[<<Other(s), 1>>]
         /\ \A t \in Sides : relay'[<<t, 2>>] = relay[<<t, 2>>]
<1>1. relay' = [relay EXCEPT ![<<s, 1>>] = [at |-> to, msg |-> msg]]
  BY DEF Move
<1>2. /\ <<s, 1>> \in Relays /\ <<Other(s), 1>> \in Relays /\ <<s, 1>> # <<Other(s), 1>>
      /\ \A t \in Sides : <<t, 2>> \in Relays /\ <<t, 2>> # <<s, 1>>
  BY RelayFacts, SideFacts
<1> QED
  BY <1>1, <1>2 DEF Typed

LEMMA PairsRelay ==
  ASSUME Inv, NEW r \in Relays, JoinPipeThread(r)
  PROVE  Pairs'
<1> USE DEF Inv
<1>1. PICK s \in Sides : r = <<s, 1>> /\ Active(s)
  BY RelayStep
<1>2. UNCHANGED <<pc, box, ct>>
  BY RelayStep
<1>3. CASE ~JoinEnd(r)
  <2>1. connected' = connected /\ AllKept
    BY <1>3, OthersKeep DEF JoinPipeThread, JoinTest, JoinRead, JoinWrite, fields
  <2>2. \E from, msg : \E to \in {"read", "end", "write", "test"} : Move(<<s, 1>>, from, to, msg)
    BY <1>1, <1>3 DEF JoinPipeThread, JoinTest, JoinRead, JoinWrite
  <2>3. /\ relay'[<<s, 1>>].at # "none" /\ relay[<<s, 1>>].at # "none"
        /\ relay'[<<Other(s), 1>>] = relay[<<Other(s), 1>>]
        /\ \A t \in Sides : relay'[<<t, 2>>] = relay[<<t, 2>>]
    BY <2>2, <1>1, MoveIs DEF Active
  <2>4. \A t \in Sides : relay'[<<t, 1>>].at = "none" <=> relay[<<t, 1>>].at = "none"
    BY <2>3, SideFacts
  <2>5. \A t \in Sides : box[t] = "END_CONNECT" => ct[t] # "joining"
    BY <1>1, OtherPair, SideFacts
  <2> QED
    BY <1>2, <2>1, <2>3, <2>4, <2>5, PairsKept DEF AllKept, ReadKept, WriteKept
<1>4. CASE JoinEnd(r)
  <2>1. JoinEnd(<<s, 1>>)
    BY <1>1, <1>4
  <2>2. /\ relay'[<<s, 1>>].at = "none" /\ relay'[<<Other(s), 1>>] = relay[<<Other(s), 1>>]
        /\ \A t \in Sides : relay'[<<t, 2>>] = relay[<<t, 2>>]
    BY <2>1, MoveIs DEF JoinEnd
  <2>3. ~connected'[s] /\ connected'[Other(s)] = connected[Other(s)]
    <3>1. connected' = [connected EXCEPT ![s] = FALSE]
      BY <2>1, RelayFacts DEF JoinEnd
    <3> QED
      BY <3>1, SideFacts DEF Typed
  <2>4. /\ WritePipe(Other(s))' = WritePipe(Other(s)) /\ ReadPipe(s)' = ReadPipe(s)
    BY <2>1, JoinEndIs
  <2>5. /\ connected[s] /\ ct[s] # "joining" /\ ct[Other(s)] # "joining" /\ box[s] # "END_CONNECT"
    BY <1>1, OtherPair
  <2>6. /\ connected[Other(s)] => Active(Other(s))
        /\ box[Other(s)] # "END_CONNECT" /\ pc[Other(s)] # "opening_write"
    BY <1>1, OtherPair
  <2>7. PairNext(s)
    BY <1>2, <2>2, <2>3, <2>4, <2>5, SideFacts DEF PairNext, Pairs, Active
  <2>8. PairNext(Other(s))
    <3>1. Other(s) \in Sides /\ Other(Other(s)) = s
      BY SideFacts
    <3>2. ReadPipe(Other(Other(s)))' = ReadPipe(s)' /\ ReadPipe(Other(Other(s))) = ReadPipe(s)
      BY <3>1 DEF ReadPipe
    <3> QED
      BY <1>2, <2>2, <2>3, <2>4, <2>5, <2>6, <3>1, <3>2 DEF PairNext, Pairs, Active
  <2> QED
    BY <2>7, <2>8, PairNextIs, SideFacts
<1> QED
  BY <1>3, <1>4

LEMMA PairsNext ==
  ASSUME Inv, [Next]_vars
  PROVE  Pairs'
<1>1. CASE UNCHANGED vars
  <2>1. UNCHANGED <<pc, connected, relay, ct, box>> /\ AllKept
    BY <1>1, AllKeptIs DEF vars, programVars, pipeVars, brokerVars, fields
  <2>2. ASSUME NEW t \in Sides PROVE PairNext(t)
    <3>1. /\ ReadPipe(t)' = ReadPipe(t) /\ WritePipe(t)' = WritePipe(t)
          /\ ReadPipe(Other(t))' = ReadPipe(Other(t))
      BY <2>1, SideFacts DEF AllKept, ReadKept, WriteKept
    <3> QED
      BY <2>1, <3>1 DEF Inv, PairNext, Pairs, Active
  <2> QED
    BY <2>2, PairNextIs
<1> QED
  BY <1>1, PairsProgram, PairsMain, PairsThread, PairsRelay DEF Next

-----------------------------------------------------------------------------
(* The theorem *)

LEMMA InvInit ==
  ASSUME Init, "threads" \notin env
  PROVE  Inv
<1> USE SideFacts
<1>1. <<>> \in Seq(Message) /\ AsksWhole(<<>>) /\ NoPacket \in Packet
  BY NmpConstants DEF AsksWhole, NoPacket, Packet
<1>2. Typed
  <2>1. /\ env \in Envs /\ pc \in [Sides -> PCs] /\ starts \in [Sides -> 0..MaxStarts]
        /\ conns \in 0..MaxConnects /\ nsent \in 0..(MaxSends + 1) /\ want \in BOOLEAN
    <3>1. /\ env \in Envs /\ pc = [t \in Sides |-> "out"] /\ starts = [t \in Sides |-> 0]
          /\ conns = 0 /\ nsent = 0 /\ want = FALSE
      BY DEF Init
    <3>2. 0 \in 0..MaxStarts /\ 0 \in 0..MaxConnects /\ 0 \in 0..(MaxSends + 1)
      BY NmpConstants
    <3>3. pc \in [Sides -> PCs]
      BY <3>1 DEF PCs
    <3>4. starts \in [Sides -> 0..MaxStarts]
      BY <3>1, <3>2
    <3> QED
      BY <3>1, <3>2, <3>3, <3>4
  <2>2. heard \in [Sides -> Packet]
    BY <1>1 DEF Init
  <2>3. /\ bind \in [who : Sides, at : {"free", "asked", "found", "missing", "ack", "nack"}]
        /\ box \in [Sides -> Requests]
    BY DEF Init, Requests
  <2>4. pipe \in [Pipes -> PipeStates] /\ msgs \in [DataPipes -> Seq(Message)]
    BY <1>1 DEF Init, PipeStates
  <2>5. /\ link \in BOOLEAN /\ present \in [Sides -> BOOLEAN]
        /\ connect_started \in [Sides -> BOOLEAN] /\ connected \in [Sides -> BOOLEAN]
    BY DEF Init
  <2>6. ct \in [Sides -> {"none", "read", "joining", "sleeping", "freeing"}]
    BY DEF Init
  <2>7. relay \in [Relays -> [at : RelayAts, msg : Seq(Message)]]
    BY <1>1 DEF Init, RelayAts, Idle
  <2> QED
    BY <2>1, <2>2, <2>3, <2>4, <2>5, <2>6, <2>7 DEF Typed
<1>3. Emptied
  BY PipeFacts DEF Init, Emptied, Idle
<1>4. Numbers
  BY <1>1, NmpConstants DEF Init, Numbers, Idle, NoPacket
<1>5. \A s \in Sides : ConnPipe(s) = "none" /\ ReadPipe(s) = "none" /\ WritePipe(s) = "none"
  BY PipeFacts DEF Init, ConnPipe, ReadPipe, WritePipe
<1>6. \A s \in Sides : /\ pc[s] = "out" /\ box[s] = "empty" /\ ct[s] = "none" /\ ~present[s] /\ ~connected[s]
                       /\ relay[<<s, 1>>].at = "none" /\ relay[<<s, 2>>].at = "none"
  BY RelayFacts DEF Init, Idle
<1>7. Programs
  BY <1>5, <1>6 DEF Programs
<1>8. Turns
  BY <1>6, BusyIs DEF Init, Turns
<1>9. Threads
  BY <1>5, <1>6 DEF Init, Threads, ThreadsHaveLink, Idle
<1>10. Pairs
  BY <1>5, <1>6 DEF Pairs, Active
<1> QED
  BY <1>2, <1>3, <1>4, <1>7, <1>8, <1>9, <1>10 DEF Inv

\* The threads of a link are as many as its connection needs, and none is left
\* when it is freed (nmpbind.c: the Links list, ConnectThread, JoinPipeThread),
\* for any number of programs, connections and packets, and wherever a program
\* dies, quits or is late, if no thread of the broker is preempted inside a
\* request.
THEOREM LinkKeptHolds == Spec /\ "threads" \notin env => []LinkKept
<1>1. Init /\ "threads" \notin env => Inv
  BY InvInit
<1>2. Inv /\ [Next]_vars => Inv'
  <2>1. ASSUME Inv, [Next]_vars PROVE Inv'
    BY <2>1, NumbersNext, ProgramsNext, TurnsNext, ThreadsNext, PairsNext DEF Inv
  <2> QED
    BY <2>1
<1>3. Inv => LinkKept
  <2>1. Inv => OneRelay
    BY DEF Inv, Pairs, OneRelay
  <2> QED
    BY <2>1, TypedIs DEF Inv, LinkKept, Threads
<1> QED
  BY <1>1, <1>2, <1>3, PTL DEF Spec

-----------------------------------------------------------------------------
(* The packets: the invariant *)

\* A request on a connection pipe has its program.
Asking ==
  \A s \in Sides : /\ ConnPipe(s) = "open" /\ box[s] = "CONNECT" => pc[s] = "connect"
                   /\ box[s] # "empty" => ConnPipe(s) \in Up

\* The two ends of a stream are made and taken away together, but closed one
\* after the other: a side that finds its stream broken can go on with the
\* other one only when nobody reads there.
EndsOf(s, o) ==
  /\ (ReadPipe(o) = "none") <=> (WritePipe(s) = "none")
  /\ Active(o) /\ WritePipe(s) \in Up => connected[s]
  /\ relay[<<s, 1>>].at = "end" /\ WritePipe(o) = "open" => ReadPipe(s) = "closing"
  /\ WritePipe(s) = "open" /\ ReadPipe(s) # "open" => ReadPipe(o) = "closing" /\ Active(s) /\ ~Active(o)
  /\ WritePipe(s) = "closing" /\ ReadPipe(s) # "closing" => Active(s) /\ ~Active(o)
Ends ==
  /\ EndsOf("serv", "trap") /\ EndsOf("trap", "serv")
  /\ WritePipe("trap") = "open" => ReadPipe("trap") \in {"open", "none"}

\* What is on its way to a side.
Stream(s) == msgs[Pipe("read", s)] \o relay[<<Other(s), 1>>].msg \o msgs[Pipe("write", Other(s))]

\* The packets of a connection are one after another, each in one message or
\* in a byte and its length.
Follows(a, b) ==
  /\ b.conn = a.conn
  /\ IF a.part = "byte" THEN b.part = "len" /\ b.no = a.no ELSE b.part # "len" /\ b.no = a.no + 1
Comes(h, due, m) ==
  IF due = "length" THEN m.part = "len" /\ m.conn = h.conn /\ m.no = h.no
  ELSE m.part # "len" /\ (IF m.conn = h.conn THEN m.no = h.no + 1 ELSE m.conn > h.conn /\ m.no = 1)
InTurn(w, h, due, c) ==
  /\ \A i \in 1..Len(w) - 1 : Follows(w[i], w[i + 1])
  /\ \A i \in 1..Len(w) : w[i].conn <= c
  /\ w # <<>> => Comes(h, due, w[1]) /\ w[Len(w)].part # "byte"
  /\ w = <<>> => due = "packet"

\* The packets on their way to the server follow the one it heard last, and
\* the debugger's next one follows them.
Fresh(s) == ReadPipe(s) \in {"listening", "open"}
Due == IF ReadPipe("serv") = "open" /\ pc["serv"] = "get_length" THEN "length" ELSE "packet"
Begins(w, h, c) == w = <<>> /\ h.conn < c
LastIs(w, h, c, n) ==
  IF w # <<>> THEN w[Len(w)].conn = c /\ w[Len(w)].no = n
  ELSE (h.conn = c /\ h.no = n) \/ (h.conn < c /\ n = 0)
Delivers(w, h, due, c, fresh, wt, pt, n) ==
  /\ h.conn <= c
  /\ fresh =>
       /\ InTurn(w, h, due, c)
       /\ wt = "listening" => Begins(w, h, c)
       /\ wt = "open" => IF pt = "connect_done" THEN Begins(w, h, c) ELSE LastIs(w, h, c, n)
ToServ == Delivers(Stream("serv"), heard["serv"], Due, conns,
                   Fresh("serv"), WritePipe("trap"), pc["trap"], nsent)

\* While the debugger waits for a response, either its request is on the way,
\* or the server has it, or the response is on the way; and while it does not,
\* nothing of the kind is.
Answering == pc["serv"] = "answer" /\ WritePipe("serv") = "open"
NoAsk(w, n) == \A i \in 1..n : w[i].req # "ask"
Reply(m, c, n, part) == m.conn = c /\ m.no = n /\ m.part = part
Replies(v, c, n) ==
  \/ Len(v) = 1 /\ Reply(v[1], c, n, "whole")
  \/ Len(v) = 2 /\ Reply(v[1], c, n, "byte") /\ Reply(v[2], c, n, "len")
Awaits(w, v, h, c, n, pt, rt, sends, answers) ==
  /\ rt = "listening" => v = <<>> /\ ~answers
  /\ rt = "open" =>
       /\ sends => NoAsk(w, IF pt = "get" /\ v = <<>> /\ ~answers THEN Len(w) - 1 ELSE Len(w))
       /\ pt \notin {"get", "get_length"} => v = <<>> /\ ~answers
       /\ pt = "get" => \/ v = <<>> /\ (answers => h.conn = c /\ h.no = n)
                        \/ Replies(v, c, n) /\ ~answers
       /\ pt = "get_length" => Len(v) = 1 /\ Reply(v[1], c, n, "len") /\ ~answers
Sends == Fresh("serv") /\ WritePipe("trap") = "open"
ToTrap == Awaits(Stream("serv"), Stream("trap"), heard["serv"], conns, nsent,
                 pc["trap"], ReadPipe("trap"), Sends, Answering)

InOrder == Asking /\ Ends /\ ToServ /\ ToTrap

-----------------------------------------------------------------------------
(* Requests on the connection pipes *)

LEMMA AskingNext ==
  ASSUME Inv, Asking, [Next]_vars
  PROVE  Asking'
<1> USE SideFacts
<1>0. Typed /\ Emptied /\ Numbers /\ Programs
  BY DEF Inv
<1> DEFINE A(s) == /\ ConnPipe(s)' = "open" /\ box'[s] = "CONNECT" => pc'[s] = "connect"
                   /\ box'[s] # "empty" => ConnPipe(s)' \in Up
<1>1. ASSUME NEW s \in Sides, Continue(s) \/ User(s), NEW t \in Sides PROVE A(t)
  <2>1. CASE t # s
    <3>1. pc'[t] = pc[t] /\ box'[t] = box[t] /\ ConnPipe(t)' = ConnPipe(t)
      BY <1>0, <1>1, <2>1, OtherAlone
    <3> QED
      BY <3>1 DEF Asking
  <2>2. CASE t = s
    <3> USE <2>2
    <3>1. CASE OpenConn(s)
      <4>1. box' = box /\ pc'[s] = "idle" /\ ConnPipe(s) = "listening" /\ ConnPipe(s)' = "open"
        BY <1>0, <3>1, OpenConnIs DEF OpenConn, At, Typed
      <4>2. box[s] = "empty"
        BY <4>1 DEF Asking, Up
      <4> QED
        BY <4>1, <4>2
    <3>2. CASE RemoteUnLink(s)
      <4>1. box' = box /\ pc[s] = "idle" /\ ConnPipe(s)' = Shut(ConnPipe(s))
        BY <1>0, <3>2, RemoteUnLinkIs DEF RemoteUnLink, At
      <4> QED
        BY <4>1 DEF Asking, Up, Shut
    <3>3. CASE Exit(s)
      <4>1. ConnPipe(s)' = Shut(ConnPipe(s))
        BY <1>0, <3>3, ExitIs
      <4>2. box'[s] \in {box[s], "empty"}
        BY <1>0, <3>3 DEF Exit, Typed
      <4> QED
        BY <4>1, <4>2 DEF Asking, Up, Shut
    <3>4. ASSUME ~OpenConn(s), ~RemoteUnLink(s), ~Exit(s) PROVE ConnPipe(s)' = ConnPipe(s)
      <4>1. OpenRead(s) \/ OpenWrite(s) \/ Disconnected(s) \/ AllKept
        BY <1>1, <3>4, OthersKeep DEF Continue, User
      <4> QED
        BY <1>0, <4>1, OpenReadIs, OpenWriteIs, DisconnectedIs DEF AllKept, ConnKept
    <3>5. CASE RemoteLink(s) \/ LinkAnswered(s)
      <4>1. box' = box /\ pc[s] \in {"out", "linking"}
        BY <3>5 DEF RemoteLink, LinkAnswered, At
      <4>2. ConnPipe(s) # "open" /\ ConnPipe(s)' = ConnPipe(s)
        BY <1>0, <3>4, <3>5, <4>1 DEF Programs, OpenConn, RemoteUnLink, Exit, RemoteLink, LinkAnswered, At
      <4> QED
        BY <4>1, <4>2 DEF Asking
    <3>6. CASE ConnectAnswered(s) \/ ConnectDone(s) \/ Disconnected(s)
      <4>1. box'[s] = "empty"
        BY <1>0, <3>6 DEF ConnectAnswered, ConnectDone, Disconnected, Answered, Typed
      <4> QED
        BY <4>1
    <3>7. CASE RemoteConnect(s)
      <4>1. pc[s] = "idle" /\ pc'[s] = "connect" /\ ConnPipe(s)' = ConnPipe(s)
        BY <1>0, <3>4, <3>7 DEF RemoteConnect, OpenConn, RemoteUnLink, Exit, At, Typed
      <4> QED
        BY <1>0, <4>1 DEF Programs, Up
    <3>8. CASE OpenRead(s) \/ Get(s) \/ GetByte(s) \/ GetFailed(s) \/ (s = "serv" /\ Answer)
               \/ (s = "trap" /\ (GetLengthTrap \/ \E req \in {"ask", "tell"} : Request(req)))
      <4>1. box' = box /\ pc[s] \notin {"idle", "connect", "opening_conn", "out"}
        BY <3>8 DEF OpenRead, Get, GetByte, GetFailed, Answer, GetLengthTrap, Request, At, pipeVars
      <4>2. ConnPipe(s)' = ConnPipe(s)
        <5>1. CASE OpenRead(s)
          BY <1>0, <5>1, OpenReadIs DEF ConnKept
        <5>2. CASE ~OpenRead(s)
          BY <3>8, <5>2, OthersKeep DEF AllKept, ConnKept
        <5> QED
          BY <5>1, <5>2
      <4> QED
        BY <4>1, <4>2 DEF Asking
    <3>9. CASE OpenWrite(s) \/ (s = "serv" /\ GetLengthServ) \/ (s = "trap" /\ Bye)
      <4>1. box'[s] \in {"END_CONNECT", "DISCO"}
        BY <1>0, <3>9 DEF OpenWrite, GetLengthServ, Bye, ConnRequest, Typed
      <4>2. pc[s] \in {"opening_write", "get_length", "ready"}
        BY <3>9 DEF OpenWrite, GetLengthServ, Bye, At
      <4>3. ConnPipe(s)' = ConnPipe(s)
        <5>1. CASE OpenWrite(s)
          BY <1>0, <5>1, OpenWriteIs DEF ConnKept
        <5>2. CASE ~OpenWrite(s)
          BY <3>9, <5>2, OthersKeep DEF AllKept, ConnKept
        <5> QED
          BY <5>1, <5>2
      <4> QED
        BY <1>0, <4>1, <4>2, <4>3 DEF Programs, Up
    <3> QED
      BY <1>1, <3>1, <3>2, <3>3, <3>5, <3>6, <3>7, <3>8, <3>9 DEF Continue, User
  <2> QED
    BY <2>1, <2>2
<1>2. CASE Main
  <2>1. pc' = pc /\ box' = box
    BY <1>2 DEF Main, FindLink, OpenServ, OpenTrap, programVars
  <2>2. \A t \in Sides : ConnPipe(t)' \in {ConnPipe(t), Made(ConnPipe(t))}
    <3>1. CASE FindLink
      BY <3>1, OthersKeep DEF AllKept, ConnKept
    <3>2. CASE OpenServ
      BY <1>0, <3>2, OpenServIs DEF Made
    <3>3. CASE OpenTrap
      BY <1>0, <3>3, OpenTrapIs DEF Made
    <3> QED
      BY <1>2, <3>1, <3>2, <3>3 DEF Main
  <2> QED
    BY <2>1, <2>2 DEF Asking, Made, Up
<1>3. ASSUME NEW s \in Sides, ConnectThread(s) PROVE Asking'
  <2>1. pc' = pc
    BY <1>3 DEF ConnectThread, ConnectServ, ConnectTrap, EndConnect, Join, Disco, DiscoAck,
                ConnectionEnds, FreeLink, programVars
  <2>2. CASE ConnectionEnds(s)
    <3>1. box' = box /\ box[s] = "empty"
      BY <2>2 DEF ConnectionEnds, Reads
    <3>2. ConnPipe(Other(s))' = ConnPipe(Other(s))
      BY <1>0, <2>2, ConnectionEndsIs
    <3>3. A(s) /\ A(Other(s))
      BY <2>1, <3>1, <3>2 DEF Asking
    <3> QED
      BY <3>3 DEF Asking
  <2>3. CASE ~ConnectionEnds(s)
    <3>1. ConnKept
      BY <1>0, <1>3, <2>3, ConnectTrapIs, OthersKeep DEF ConnectThread, AllKept
    <3>2. \A t \in Sides : \/ box'[t] \in {box[t], "empty"}
                           \/ box'[t] \in {"ack", "nack"} /\ ConnPipe(t) = "open"
      BY <1>0, <1>3, <2>3 DEF ConnectThread, ConnectServ, ConnectTrap, EndConnect, Join, Disco, DiscoAck,
                FreeLink, Ack, Nack, pipeVars, Typed, ConnPipe
    <3> QED
      BY <2>1, <3>1, <3>2 DEF Asking, ConnKept, Up
  <2> QED
    BY <2>2, <2>3
<1>4. ASSUME NEW r \in Relays, JoinPipeThread(r) PROVE Asking'
  <2>1. pc' = pc /\ box' = box
    BY <1>0, <1>4, RelayStep DEF Inv
  <2>2. ConnKept
    <3>1. CASE JoinEnd(r)
      <4>1. PICK s \in Sides : r = <<s, 1>>
        BY <1>4, RelayStep DEF Inv
      <4>2. JoinEnd(<<s, 1>>)
        BY <3>1, <4>1
      <4> QED
        BY <1>0, <4>2, JoinEndIs
    <3>2. CASE ~JoinEnd(r)
      BY <1>4, <3>2, OthersKeep DEF JoinPipeThread, AllKept
    <3> QED
      BY <3>1, <3>2
  <2> QED
    BY <2>1, <2>2 DEF Asking, ConnKept
<1>5. CASE UNCHANGED vars
  <2>1. pc' = pc /\ box' = box /\ AllKept
    BY <1>5, AllKeptIs DEF vars, programVars, pipeVars
  <2> QED
    BY <2>1 DEF Asking, AllKept, ConnKept
<1>6. ASSUME NEW s \in Sides, Continue(s) \/ User(s) PROVE Asking'
  <2>1. \A t \in Sides : A(t)
    BY <1>1, <1>6
  <2> QED
    BY <2>1 DEF Asking
<1> QED
  BY <1>2, <1>3, <1>4, <1>5, <1>6 DEF Next

-----------------------------------------------------------------------------
(* The two ends of a stream *)

LEMMA EndsIs ==
  ASSUME Ends, NEW s \in Sides
  PROVE  EndsOf(s, Other(s)) /\ EndsOf(Other(s), s)
BY SideFacts DEF Ends

EndNext(s, o) ==
  /\ (ReadPipe(o)' = "none") <=> (WritePipe(s)' = "none")
  /\ relay'[<<o, 1>>].at # "none" /\ WritePipe(s)' \in Up => connected'[s]
  /\ relay'[<<s, 1>>].at = "end" /\ WritePipe(o)' = "open" => ReadPipe(s)' = "closing"
  /\ WritePipe(s)' = "open" /\ ReadPipe(s)' # "open" =>
       ReadPipe(o)' = "closing" /\ relay'[<<s, 1>>].at # "none" /\ relay'[<<o, 1>>].at = "none"
  /\ WritePipe(s)' = "closing" /\ ReadPipe(s)' # "closing" =>
       relay'[<<s, 1>>].at # "none" /\ relay'[<<o, 1>>].at = "none"
TrapNext == WritePipe("trap")' = "open" => ReadPipe("trap")' \in {"open", "none"}

LEMMA EndNextIs ==
  ASSUME NEW s \in Sides, EndNext(s, Other(s)), EndNext(Other(s), s), TrapNext
  PROVE  Ends'
<1>1. EndNext("serv", "trap") /\ EndNext("trap", "serv")
  BY SideFacts
<1> QED
  BY <1>1 DEF Ends, EndsOf, EndNext, TrapNext, Active

\* What a program does to its data pipes: it opens the one, then the other, and
\* closes both together.
Opens1(r1, w1, r2, w2) == r1 = "listening" /\ r2 = "open" /\ w2 = w1
Opens2(r1, w1, r2, w2) == r1 = "open" /\ r2 = r1 /\ w1 = "listening" /\ w2 = "open"
LEMMA ProgramPipes ==
  ASSUME Inv, NEW s \in Sides, Continue(s) \/ User(s)
  PROVE  /\ ReadPipe(Other(s))' = ReadPipe(Other(s)) /\ WritePipe(Other(s))' = WritePipe(Other(s))
         /\ \/ ReadPipe(s)' = ReadPipe(s) /\ WritePipe(s)' = WritePipe(s)
            \/ Opens1(ReadPipe(s), WritePipe(s), ReadPipe(s)', WritePipe(s)')
            \/ /\ Opens2(ReadPipe(s), WritePipe(s), ReadPipe(s)', WritePipe(s)')
               /\ relay[<<Other(s), 1>>].at = "none"
            \/ ReadPipe(s)' = Shut(ReadPipe(s)) /\ WritePipe(s)' = Shut(WritePipe(s))
<1> USE SideFacts
<1>0. Typed /\ Emptied /\ Numbers /\ Pairs
  BY DEF Inv
<1>1. Other(s) \in Sides /\ Other(s) # s
  OBVIOUS
<1>2. ReadPipe(Other(s))' = ReadPipe(Other(s)) /\ WritePipe(Other(s))' = WritePipe(Other(s))
  BY <1>0, <1>1, OtherAlone
<1>3. CASE OpenRead(s)
  BY <1>0, <1>2, <1>3, OpenReadIs DEF WriteKept, Opens1
<1>4. CASE OpenWrite(s)
  <2>1. pc[s] = "opening_write"
    BY <1>4 DEF OpenWrite, At
  <2>2. ReadPipe(s) = "open" /\ relay[<<Other(s), 1>>].at = "none"
    BY <1>0, <2>1 DEF Pairs, Active
  <2> QED
    BY <1>0, <1>2, <1>4, <2>2, OpenWriteIs DEF ReadKept, Opens2
<1>5. CASE Disconnected(s) \/ Exit(s)
  BY <1>0, <1>2, <1>5, DisconnectedIs, ExitIs
<1>6. CASE OpenConn(s) \/ RemoteUnLink(s)
  BY <1>0, <1>2, <1>6, OpenConnIs, RemoteUnLinkIs DEF ReadKept, WriteKept
<1>7. CASE AllKept
  BY <1>2, <1>7 DEF AllKept, ReadKept, WriteKept
<1> QED
  BY <1>3, <1>4, <1>5, <1>6, <1>7, OthersKeep DEF Continue, User

LEMMA EndsProgram ==
  ASSUME Inv, Ends, NEW s \in Sides, Continue(s) \/ User(s)
  PROVE  Ends'
<1> DEFINE o == Other(s)
<1>1. o \in Sides /\ Other(o) = s
  BY SideFacts
<1>2. EndsOf(s, o) /\ EndsOf(o, s)
  BY EndsIs
<1>3. UNCHANGED <<connected, relay>>
  BY ProgramStep DEF Inv, brokerVars, fields
<1>4. ReadPipe(o)' = ReadPipe(o) /\ WritePipe(o)' = WritePipe(o)
  BY ProgramPipes
<1>5. \/ ReadPipe(s)' = ReadPipe(s) /\ WritePipe(s)' = WritePipe(s)
      \/ Opens1(ReadPipe(s), WritePipe(s), ReadPipe(s)', WritePipe(s)')
      \/ /\ Opens2(ReadPipe(s), WritePipe(s), ReadPipe(s)', WritePipe(s)')
         /\ relay[<<o, 1>>].at = "none"
      \/ ReadPipe(s)' = Shut(ReadPipe(s)) /\ WritePipe(s)' = Shut(WritePipe(s))
  BY ProgramPipes
<1> HIDE DEF o
<1>6. EndNext(s, o)
  BY <1>2, <1>3, <1>4, <1>5 DEF EndsOf, EndNext, Opens1, Opens2, Shut, Active, Up
<1>7. EndNext(o, s)
  BY <1>2, <1>3, <1>4, <1>5 DEF EndsOf, EndNext, Opens1, Opens2, Shut, Active, Up
<1>8. TrapNext
  <2>1. CASE s = "trap"
    BY <2>1, <1>5 DEF TrapNext, Opens1, Opens2, Shut, Ends
  <2>2. CASE s = "serv"
    <3>1. o = "trap"
      BY <2>2, SideFacts DEF o
    <3> QED
      BY <3>1, <1>4 DEF TrapNext, Ends
  <2> QED
    BY <2>1, <2>2, SideFacts
<1> QED
  BY <1>6, <1>7, <1>8, EndNextIs DEF o

LEMMA EndsMain ==
  ASSUME Inv, Ends, Main \/ UNCHANGED vars
  PROVE  Ends'
<1>1. \A s \in Sides : ReadPipe(s)' = ReadPipe(s) /\ WritePipe(s)' = WritePipe(s)
  BY OpenServIs, OpenTrapIs, OthersKeep, SideFacts DEF Inv, Main, AllKept, ReadKept, WriteKept
<1>2. relay' = relay
  BY DEF Main, FindLink, OpenServ, OpenTrap, brokerVars, vars
<1>3. CASE connected' = connected
  <2>1. EndNext("serv", "trap") /\ EndNext("trap", "serv") /\ TrapNext
    BY <1>1, <1>2, <1>3, SideFacts DEF Ends, EndsOf, EndNext, TrapNext, Active
  <2> QED
    BY <2>1, EndNextIs, SideFacts
<1>4. CASE connected' # connected
  <2>1. OpenServ /\ bind.at = "missing"
    BY <1>4 DEF Main, FindLink, OpenServ, OpenTrap, brokerVars, vars, fields
  <2>2. \A s \in Sides : relay[<<s, 1>>].at = "none"
    <3>1. \A r \in Relays : relay[r].at = "none"
      BY <2>1 DEF Inv, Turns, Threads, ThreadsHaveLink
    <3> QED
      BY <3>1, RelayFacts
  <2>3. EndNext("serv", "trap") /\ EndNext("trap", "serv") /\ TrapNext
    BY <1>1, <1>2, <2>2, SideFacts DEF Ends, EndsOf, EndNext, TrapNext, Active
  <2> QED
    BY <2>3, EndNextIs, SideFacts
<1> QED
  BY <1>3, <1>4


LEMMA ConnectTrapMakes ==
  ASSUME Inv, Asking, ConnectTrap
  PROVE  /\ WritePipe("trap") # "open"
         /\ AllKept \/ \A t \in Sides : /\ ReadPipe(t)' = Made(ReadPipe(t))
                                      /\ WritePipe(t)' = Made(WritePipe(t))
<1> USE SideFacts
<1>1. box["trap"] = "CONNECT"
  BY DEF ConnectTrap, Reads
<1>2. WritePipe("trap") # "open"
  <2>1. SUFFICES ASSUME WritePipe("trap") = "open" PROVE FALSE
    OBVIOUS
  <2>2. ConnPipe("trap") = "open" /\ pc["trap"] # "connect"
    BY <2>1 DEF Inv, Programs
  <2> QED
    BY <1>1, <2>2 DEF Asking
<1>3. CASE present["serv"]
  <2>1. Make(DataPipes)
    BY <1>3 DEF ConnectTrap
  <2>2. \A t \in Sides : /\ ReadPipe(t)' = Made(ReadPipe(t)) /\ WritePipe(t)' = Made(WritePipe(t))
    BY <2>1, MakeIs, PipeFacts DEF Inv, Made
  <2> QED
    BY <1>2, <2>2
<1>4. CASE ~present["serv"]
  BY <1>2, <1>4, AllKeptIs DEF ConnectTrap
<1> QED
  BY <1>3, <1>4

LEMMA EndsThread ==
  ASSUME Inv, Asking, Ends, NEW s \in Sides, ConnectThread(s)
  PROVE  Ends'
<1> USE SideFacts
<1> DEFINE o == Other(s)
<1>1. o \in Sides /\ Other(o) = s /\ Pairs /\ Typed
  BY DEF Inv
<1>2. EndsOf(s, o) /\ EndsOf(o, s)
  BY EndsIs
<1> HIDE DEF o
<1>3. CASE ConnectTrap
  <2>1. UNCHANGED <<connected, relay>>
    BY <1>3 DEF ConnectTrap
  <2>2. WritePipe("trap") # "open"
    BY <1>3, ConnectTrapMakes
  <2>3. AllKept \/ \A t \in Sides : ReadPipe(t)' = Made(ReadPipe(t)) /\ WritePipe(t)' = Made(WritePipe(t))
    BY <1>3, ConnectTrapMakes
  <2>4. /\ ReadPipe(s)' \in {ReadPipe(s), Made(ReadPipe(s))} /\ WritePipe(s)' \in {WritePipe(s), Made(WritePipe(s))}
        /\ ReadPipe(o)' \in {ReadPipe(o), Made(ReadPipe(o))} /\ WritePipe(o)' \in {WritePipe(o), Made(WritePipe(o))}
    BY <1>1, <2>3 DEF AllKept, ReadKept, WriteKept
  <2>5. /\ (ReadPipe(o)' = "none") <=> (WritePipe(s)' = "none")
        /\ (ReadPipe(s)' = "none") <=> (WritePipe(o)' = "none")
    BY <1>1, <1>2, <2>3 DEF AllKept, ReadKept, WriteKept, Made, EndsOf
  <2>6. EndNext(s, o)
    BY <1>2, <2>1, <2>4, <2>5 DEF EndsOf, EndNext, Made, Active, Up
  <2>7. EndNext(o, s)
    BY <1>2, <2>1, <2>4, <2>5 DEF EndsOf, EndNext, Made, Active, Up
  <2>8. WritePipe("trap")' # "open"
    BY <2>2, <2>3 DEF AllKept, WriteKept, Made
  <2> QED
    BY <2>6, <2>7, <2>8, EndNextIs DEF o, TrapNext
<1>4. CASE ~ConnectTrap
  <2>1. ReadKept /\ WriteKept
    BY <1>1, <1>4, ConnectionEndsIs, OthersKeep DEF ConnectThread, AllKept
  <2>2. TrapNext
    BY <2>1 DEF TrapNext, ReadKept, WriteKept, Ends
  <2>3. /\ ReadPipe(s)' = ReadPipe(s) /\ WritePipe(s)' = WritePipe(s)
        /\ ReadPipe(o)' = ReadPipe(o) /\ WritePipe(o)' = WritePipe(o)
    BY <1>1, <2>1 DEF ReadKept, WriteKept
  <2>4. CASE ~Join(s)
    <3>1. relay' = relay /\ (connected' = connected \/ connected' = [connected EXCEPT ![s] = TRUE])
      BY <1>4, <2>4 DEF ConnectThread, ConnectServ, EndConnect, Disco, DiscoAck, ConnectionEnds, FreeLink, fields
    <3>2. (connected[s] => connected'[s]) /\ (connected[o] => connected'[o])
      BY <1>1, <3>1 DEF Typed
    <3>3. EndNext(s, o) /\ EndNext(o, s)
      BY <1>2, <2>3, <3>1, <3>2 DEF EndsOf, EndNext, Active
    <3> QED
      BY <2>2, <3>3, EndNextIs DEF o
  <2>5. CASE Join(s)
    <3>1. connected' = connected
      BY <2>5 DEF Join, fields
    <3>2. connected[s] /\ ~Active(s) /\ ~Active(o)
      BY <1>1, <2>5 DEF Join, Pairs, o
    <3>3. \/ relay' = relay
          \/ /\ connected[o]
             /\ relay'[<<s, 1>>].at \in {relay[<<s, 1>>].at, "test"}
             /\ relay'[<<o, 1>>].at \in {relay[<<o, 1>>].at, "test"}
             /\ relay'[<<s, 1>>].at = relay[<<s, 1>>].at => relay'[<<o, 1>>].at = relay[<<o, 1>>].at
      <4>1. CASE connected[o]
        <5>1. PICK i \in {1, 2} : relay' = [r \in Relays |-> IF r[2] = i THEN [at |-> "test", msg |-> <<>>] ELSE relay[r]]
          BY <2>5, <4>1 DEF Join, o
        <5>2. <<s, 1>> \in Relays /\ <<o, 1>> \in Relays /\ <<s, 1>>[2] = 1 /\ <<o, 1>>[2] = 1
          BY <1>1, RelayFacts
        <5> QED
          BY <4>1, <5>1, <5>2, <3>2 DEF Active
      <4>2. CASE ~connected[o]
        BY <2>5, <4>2 DEF Join, o
      <4> QED
        BY <4>1, <4>2
    <3>4. EndNext(s, o) /\ EndNext(o, s)
      BY <1>2, <2>3, <3>1, <3>2, <3>3 DEF EndsOf, EndNext, Active
    <3> QED
      BY <2>2, <3>4, EndNextIs DEF o
  <2> QED
    BY <2>4, <2>5
<1> QED
  BY <1>3, <1>4

LEMMA EndsRelay ==
  ASSUME Inv, Ends, NEW r \in Relays, JoinPipeThread(r)
  PROVE  Ends'
<1> USE SideFacts
<1>0. Typed /\ Pairs /\ Emptied
  BY DEF Inv
<1>1. PICK s \in Sides : r = <<s, 1>> /\ Active(s)
  BY <1>0, RelayStep
<1> DEFINE o == Other(s)
<1>2. /\ o \in Sides /\ Other(o) = s /\ EndsOf(s, o) /\ EndsOf(o, s)
      /\ In(r) = Pipe("write", s) /\ Out(r) = Pipe("read", o)
  BY <1>1, EndsIs, RelayFacts
<1>3. /\ connected[s] /\ (connected[o] => Active(o)) /\ ReadPipe(o) \in Up /\ WritePipe(s) \in Up
      /\ relay[<<s, 1>>].at # "none"
  BY <1>0, <1>1, <1>2, OtherPair DEF Pairs, Active
<1> HIDE DEF o
<1>4. CASE ~JoinEnd(r)
  <2>1. connected' = connected /\ ReadKept /\ WriteKept
    BY <1>4, OthersKeep DEF JoinPipeThread, JoinTest, JoinRead, JoinWrite, fields, AllKept
  <2>2. PICK to : /\ \E from, msg : Move(<<s, 1>>, from, to, msg)
                  /\ to \in {"read", "end", "write", "test"}
                  /\ to = "end" => \/ ~(connected["serv"] /\ connected["trap"])
                                   \/ pipe[In(r)] # "open"
                                   \/ pipe[Out(r)] # "open"
    BY <1>1, <1>4 DEF JoinPipeThread, JoinTest, JoinRead, JoinWrite
  <2>3. relay'[<<s, 1>>].at = to /\ relay'[<<o, 1>>] = relay[<<o, 1>>]
    BY <1>0, <2>2, MoveIs DEF o
  <2>4. to = "end" /\ WritePipe(o) = "open" => ReadPipe(s) = "closing"
    <3>1. SUFFICES ASSUME to = "end", WritePipe(o) = "open" PROVE ReadPipe(s) = "closing"
      OBVIOUS
    <3>2. connected[o] /\ relay[<<o, 1>>].at # "none"
      BY <1>2, <1>3, <3>1 DEF EndsOf, Active, Up
    <3>3. connected["serv"] /\ connected["trap"]
      BY <1>2, <1>3, <3>2
    <3>4. WritePipe(s) # "open" \/ ReadPipe(o) # "open"
      BY <1>2, <2>2, <3>1, <3>3 DEF WritePipe, ReadPipe
    <3> QED
      BY <1>2, <1>3, <3>1, <3>2, <3>4 DEF EndsOf, Active, Up
  <2>5. TrapNext
    BY <2>1 DEF TrapNext, ReadKept, WriteKept, Ends
  <2>6. /\ ReadPipe(s)' = ReadPipe(s) /\ WritePipe(s)' = WritePipe(s)
        /\ ReadPipe(o)' = ReadPipe(o) /\ WritePipe(o)' = WritePipe(o)
    BY <1>2, <2>1 DEF ReadKept, WriteKept
  <2>7. EndNext(s, o)
    BY <1>2, <1>3, <2>1, <2>2, <2>3, <2>4, <2>6 DEF EndsOf, EndNext, Active
  <2>8. EndNext(o, s)
    BY <1>2, <1>3, <2>1, <2>2, <2>3, <2>6 DEF EndsOf, EndNext, Active
  <2> QED
    BY <2>5, <2>7, <2>8, EndNextIs DEF o
<1>5. CASE JoinEnd(r)
  <2>1. JoinEnd(<<s, 1>>)
    BY <1>1, <1>5
  <2>2. relay[<<s, 1>>].at = "end" /\ relay'[<<s, 1>>].at = "none" /\ relay'[<<o, 1>>] = relay[<<o, 1>>]
    <3>1. Move(<<s, 1>>, "end", "none", <<>>)
      BY <2>1 DEF JoinEnd
    <3>2. relay[<<s, 1>>].at = "end"
      BY <3>1 DEF Move
    <3>3. relay'[<<s, 1>>].at = "none" /\ relay'[<<o, 1>>] = relay[<<o, 1>>]
      BY <1>0, <3>1, MoveIs DEF o
    <3> QED
      BY <3>2, <3>3
  <2>3. connected'[o] = connected[o]
    <3>1. connected' = [connected EXCEPT ![s] = FALSE]
      BY <2>1, RelayFacts DEF JoinEnd
    <3> QED
      BY <3>1, <1>0, <1>2 DEF Typed, o
  <2>4. /\ WritePipe(s)' = "none" /\ WritePipe(o)' = WritePipe(o)
        /\ ReadPipe(o)' = "none" /\ ReadPipe(s)' = ReadPipe(s)
    BY <1>0, <2>1, JoinEndIs DEF o
  <2>5. EndNext(s, o)
    BY <1>2, <2>2, <2>4 DEF EndsOf, EndNext, Up
  <2>6. EndNext(o, s)
    BY <1>2, <1>3, <2>2, <2>3, <2>4 DEF EndsOf, EndNext, Active, Up
  <2>7. TrapNext
    BY <1>2, <2>4 DEF TrapNext, o
  <2> QED
    BY <2>5, <2>6, <2>7, EndNextIs DEF o
<1> QED
  BY <1>4, <1>5

LEMMA EndsNext ==
  ASSUME Inv, Asking, Ends, [Next]_vars
  PROVE  Ends'
BY EndsProgram, EndsMain, EndsThread, EndsRelay DEF Next
-----------------------------------------------------------------------------
(* Sequences of packets: reading the first, putting one at the end *)

Packets == [conn : Nat, no : Nat]

LEMMA PacketIs == ASSUME NEW k \in Packet PROVE k \in Packets /\ k.conn \in Nat /\ k.no \in Nat
BY NmpConstants DEF Packet, Packets

LEMMA Counted ==
  ASSUME Typed
  PROVE  conns \in Nat /\ nsent \in Nat /\ heard["serv"] \in Packets /\ heard["serv"].conn \in Nat
<1>1. conns \in Nat /\ nsent \in Nat
  BY NmpConstants DEF Typed
<1>2. heard["serv"] \in Packet
  BY SideFacts DEF Typed
<1> QED
  BY <1>1, <1>2, PacketIs

LEMMA MessageIs ==
  ASSUME NEW m \in Message
  PROVE  /\ m.conn \in Nat /\ m.no \in Nat /\ m.part \in {"whole", "byte", "len"}
         /\ Named(m) \in Packets /\ Named(m).conn = m.conn /\ Named(m).no = m.no
BY NmpConstants DEF Message, Named, Packets

\* A packet of one message or two, at the end of a sequence.
Put(ms, c, n) ==
  \/ Len(ms) = 1 /\ ms[1].part = "whole" /\ ms[1].conn = c /\ ms[1].no = n
  \/ /\ Len(ms) = 2 /\ ms[1].part = "byte" /\ ms[2].part = "len"
     /\ ms[1].conn = c /\ ms[1].no = n /\ ms[2].conn = c /\ ms[2].no = n

LEMMA FirstIs ==
  ASSUME NEW w \in Seq(Message), w # <<>>, NEW h \in Packets, NEW due, NEW c, InTurn(w, h, due, c)
  PROVE  Comes(h, due, w[1]) /\ w[1] \in Message /\ w[1].conn <= c
<1>1. Len(w) \in Nat /\ Len(w) >= 1 /\ w[1] \in Message
  OBVIOUS
<1> QED
  BY <1>1 DEF InTurn

LEMMA InTurnTail ==
  ASSUME NEW w \in Seq(Message), w # <<>>, NEW h \in Packets, NEW due \in {"length", "packet"}, NEW c \in Nat,
         InTurn(w, h, due, c)
  PROVE  /\ w[1].part = "byte" => InTurn(Tail(w), Named(w[1]), "length", c)
         /\ w[1].part = "whole" => InTurn(Tail(w), Named(w[1]), "packet", c)
         /\ w[1].part = "len" => InTurn(Tail(w), h, "packet", c)
<1> DEFINE t == Tail(w)
<1>1. /\ t \in Seq(Message) /\ Len(w) \in Nat \ {0} /\ Len(t) = Len(w) - 1
      /\ \A i \in 1..Len(t) : t[i] = w[i + 1] /\ i + 1 \in 1..Len(w)
      /\ w[1] \in Message
  BY TailTyped
<1>2. \A i \in 1..Len(t) : t[i] \in Message
  BY <1>1
<1> HIDE DEF t
<1>3. \A i \in 1..Len(t) - 1 : Follows(t[i], t[i + 1])
  <2>1. SUFFICES ASSUME NEW i \in 1..Len(t) - 1 PROVE Follows(t[i], t[i + 1])
    OBVIOUS
  <2>2. t[i] = w[i + 1] /\ t[i + 1] = w[i + 1 + 1] /\ i + 1 \in 1..Len(w) - 1
    BY <1>1
  <2> QED
    BY <2>2 DEF InTurn
<1>4. \A i \in 1..Len(t) : t[i].conn <= c
  BY <1>1 DEF InTurn
<1>5. t # <<>> => /\ t[Len(t)] = w[Len(w)] /\ t[1] = w[2] /\ Follows(w[1], w[2]) /\ t[1] \in Message
  <2>1. SUFFICES ASSUME t # <<>> PROVE t[Len(t)] = w[Len(w)] /\ t[1] = w[2] /\ Follows(w[1], w[2]) /\ t[1] \in Message
    OBVIOUS
  <2>2. Len(t) \in Nat /\ Len(t) >= 1
    BY <1>1, <2>1
  <2>3. t[Len(t)] = w[Len(w)] /\ t[1] = w[2] /\ 1 \in 1..Len(w) - 1
    BY <1>1, <2>2
  <2>4. Follows(w[1], w[1 + 1])
    BY <2>3 DEF InTurn
  <2> QED
    BY <1>2, <2>2, <2>3, <2>4
<1>6. t = <<>> => w[1].part # "byte"
  <2>1. SUFFICES ASSUME t = <<>> PROVE w[1].part # "byte"
    OBVIOUS
  <2>2. Len(w) = 1
    BY <1>1, <2>1
  <2> QED
    BY <2>2 DEF InTurn
<1>7. w[Len(w)].part # "byte" /\ Comes(h, due, w[1])
  BY DEF InTurn
<1>8. Named(w[1]).conn = w[1].conn /\ Named(w[1]).no = w[1].no
  BY DEF Named
<1>9. w[1].part = "byte" => InTurn(t, Named(w[1]), "length", c)
  BY <1>3, <1>4, <1>5, <1>6, <1>7, <1>8 DEF InTurn, Comes, Follows
<1>10. w[1].part = "whole" => InTurn(t, Named(w[1]), "packet", c)
  BY <1>3, <1>4, <1>5, <1>6, <1>7, <1>8 DEF InTurn, Comes, Follows
<1>11. w[1].part = "len" => InTurn(t, h, "packet", c)
  BY <1>3, <1>4, <1>5, <1>6, <1>7, <1>8 DEF InTurn, Comes, Follows
<1> QED
  BY <1>9, <1>10, <1>11 DEF t

LEMMA LastTail ==
  ASSUME NEW w \in Seq(Message), w # <<>>, NEW h, NEW c, NEW n, LastIs(w, h, c, n),
         NEW g, g.conn = w[1].conn, g.no = w[1].no
  PROVE  LastIs(Tail(w), g, c, n)
<1>1. /\ Tail(w) \in Seq(Message) /\ Len(w) \in Nat \ {0} /\ Len(Tail(w)) = Len(w) - 1
      /\ \A i \in 1..Len(Tail(w)) : Tail(w)[i] = w[i + 1] /\ i + 1 \in 1..Len(w)
  BY TailTyped
<1>2. CASE Tail(w) = <<>>
  <2>1. Len(w) = 1
    BY <1>1, <1>2
  <2> QED
    BY <2>1, <1>2 DEF LastIs
<1>3. CASE Tail(w) # <<>>
  <2>1. Len(Tail(w)) \in Nat /\ Len(Tail(w)) >= 1
    BY <1>1, <1>3
  <2>2. Tail(w)[Len(Tail(w))] = w[Len(w)]
    BY <1>1, <2>1
  <2> QED
    BY <1>3, <2>2 DEF LastIs
<1> QED
  BY <1>2, <1>3

LEMMA PutIs ==
  ASSUME NEW w \in Seq(Message), NEW ms \in Seq(Message), NEW h \in Packets, NEW due \in {"length", "packet"},
         NEW c \in Nat, NEW n \in Nat, h.conn <= c, InTurn(w, h, due, c), LastIs(w, h, c, n), Put(ms, c, n + 1)
  PROVE  InTurn(w \o ms, h, due, c) /\ LastIs(w \o ms, h, c, n + 1)
<1> DEFINE u == w \o ms
           l == Len(ms)
<1>1. /\ u \in Seq(Message) /\ Len(u) = Len(w) + l /\ Len(w) \in Nat /\ l \in Nat
      /\ \A i \in 1..Len(w) : u[i] = w[i]
      /\ \A i \in 1..l : u[Len(w) + i] = ms[i]
  OBVIOUS
<1>2. \/ l = 1
      \/ l = 2 /\ ms[1].part = "byte" /\ ms[2].part = "len" /\ ms[2].conn = c /\ ms[2].no = n + 1
  BY DEF Put
<1>3. ms[l].conn = c /\ ms[l].no = n + 1 /\ ms[l].part # "byte"
  BY DEF Put
<1> HIDE DEF u, l
<1>4. u # <<>> /\ u[Len(u)] = ms[l] /\ u[Len(w) + 1] = ms[1]
  <2>1. Len(u) # 0
    BY <1>1, <1>2
  <2>2. 1 <= l
    BY <1>1, <1>2
  <2>3. l \in 1..l /\ 1 \in 1..l
    BY <1>1, <2>2
  <2> QED
    BY <1>1, <2>1, <2>3
<1>5. LastIs(u, h, c, n + 1)
  BY <1>4, <1>3 DEF LastIs
<1>6. ms[1].conn = c /\ ms[1].no = n + 1 /\ ms[1].part # "len"
  BY DEF Put
<1>7. \A i \in 1..Len(u) : u[i].conn <= c
  <2>1. SUFFICES ASSUME NEW i \in 1..Len(u) PROVE u[i].conn <= c
    OBVIOUS
  <2>2. CASE i <= Len(w)
    BY <1>1, <2>2 DEF InTurn
  <2>3. CASE i > Len(w)
    <3>1. PICK j \in 1..l : i = Len(w) + j
      <4>1. i - Len(w) \in 1..l /\ i = Len(w) + (i - Len(w))
        BY <1>1, <2>3
      <4> QED
        BY <4>1
    <3>2. u[i] = ms[j]
      BY <1>1, <3>1
    <3>3. ms[j].conn = c
      BY <1>1, <1>2, <1>6, <3>1
    <3> QED
      BY <3>2, <3>3
  <2> QED
    BY <2>2, <2>3, <1>1
<1>8. \A i \in 1..Len(u) - 1 : Follows(u[i], u[i + 1])
  <2>1. SUFFICES ASSUME NEW i \in 1..Len(u) - 1 PROVE Follows(u[i], u[i + 1])
    OBVIOUS
  <2>2. CASE i < Len(w)
    <3>1. i \in 1..Len(w) - 1 /\ i \in 1..Len(w) /\ i + 1 \in 1..Len(w)
      BY <1>1, <2>2
    <3>2. u[i] = w[i] /\ u[i + 1] = w[i + 1]
      BY <1>1, <3>1
    <3> QED
      BY <3>1, <3>2 DEF InTurn
  <2>3. CASE i = Len(w)
    <3>1. u[i] = w[Len(w)] /\ u[i + 1] = ms[1] /\ w # <<>>
      BY <1>1, <1>4, <2>3
    <3>2. w[Len(w)].conn = c /\ w[Len(w)].no = n /\ w[Len(w)].part # "byte"
      BY <3>1 DEF LastIs, InTurn
    <3> QED
      BY <3>1, <3>2, <1>6 DEF Follows
  <2>4. CASE i > Len(w)
    <3>1. i = Len(w) + 1 /\ l = 2
      <4>1. i \in Int /\ i <= Len(w) + l - 1 /\ Len(w) + 1 <= i
        BY <1>1, <2>4
      <4>2. l # 1
        BY <1>1, <4>1
      <4>3. l = 2
        BY <1>2, <4>2
      <4> QED
        BY <1>1, <4>1, <4>3
    <3>2. u[i] = ms[1] /\ u[i + 1] = ms[2]
      <4>1. 2 \in 1..l /\ i + 1 = Len(w) + 2
        BY <1>1, <3>1
      <4> QED
        BY <1>1, <1>4, <3>1, <4>1
    <3> QED
      BY <1>2, <1>6, <3>1, <3>2 DEF Follows
  <2> QED
    BY <2>2, <2>3, <2>4, <1>1
<1>9. Comes(h, due, u[1])
  <2>1. CASE w = <<>>
    <3>1. u[1] = ms[1] /\ due = "packet"
      BY <1>1, <1>4, <2>1 DEF InTurn
    <3>2. (h.conn = c /\ h.no = n) \/ (h.conn < c /\ n = 0)
      BY <2>1 DEF LastIs
    <3>3. h.conn \in Nat
      BY DEF Packets
    <3> QED
      BY <3>1, <3>2, <3>3, <1>6 DEF Comes
  <2>2. CASE w # <<>>
    <3>1. u[1] = w[1]
      BY <1>1, <2>2
    <3> QED
      BY <2>2, <3>1 DEF InTurn
  <2> QED
    BY <2>1, <2>2
<1>10. InTurn(u, h, due, c)
  BY <1>4, <1>3, <1>7, <1>8, <1>9 DEF InTurn
<1> QED
  BY <1>5, <1>10 DEF u

LEMMA NoAskPut ==
  ASSUME NEW w \in Seq(Message), NEW ms \in Seq(Message), NoAsk(w, Len(w))
  PROVE  /\ NoAsk(w \o ms, Len(w)) /\ Len(w \o ms) = Len(w) + Len(ms)
         /\ NoAsk(ms, Len(ms)) => NoAsk(w \o ms, Len(w \o ms))
<1> DEFINE u == w \o ms
<1>1. /\ Len(u) = Len(w) + Len(ms) /\ Len(w) \in Nat /\ Len(ms) \in Nat
      /\ \A i \in 1..Len(w) : u[i] = w[i]
      /\ \A i \in 1..Len(ms) : u[Len(w) + i] = ms[i]
  OBVIOUS
<1> HIDE DEF u
<1>2. NoAsk(u, Len(w))
  BY <1>1 DEF NoAsk
<1>3. ASSUME NoAsk(ms, Len(ms)) PROVE NoAsk(u, Len(u))
  <2>1. SUFFICES ASSUME NEW i \in 1..Len(u) PROVE u[i].req # "ask"
    BY DEF NoAsk
  <2>2. CASE i <= Len(w)
    BY <1>1, <2>2 DEF NoAsk
  <2>3. CASE i > Len(w)
    <3>1. i - Len(w) \in 1..Len(ms) /\ i = Len(w) + (i - Len(w))
      BY <1>1, <2>3
    <3>2. u[i] = ms[i - Len(w)]
      BY <1>1, <3>1
    <3> QED
      BY <1>3, <3>1, <3>2 DEF NoAsk
  <2> QED
    BY <1>1, <2>2, <2>3
<1> QED
  BY <1>1, <1>2, <1>3 DEF u

LEMMA LenPut ==
  ASSUME NEW w \in Seq(Message), NEW ms \in Seq(Message)
  PROVE  Len(w) \in Nat /\ Len(ms) \in Nat /\ Len(w \o ms) = Len(w) + Len(ms)
OBVIOUS

LEMMA NoAskPutOne ==
  ASSUME NEW w \in Seq(Message), NEW ms \in Seq(Message), Len(ms) = 1, NoAsk(w, Len(w))
  PROVE  NoAsk(w \o ms, Len(w \o ms) - 1)
<1> DEFINE u == w \o ms
           k == Len(w)
           l == Len(ms)
<1>1. k \in Nat /\ l \in Nat /\ Len(u) = k + l
  BY LenPut
<1>2. l = 1
  OBVIOUS
<1>3. NoAsk(u, k)
  BY NoAskPut
<1> HIDE DEF u, k, l
<1>4. Len(u) - 1 = k
  BY <1>1, <1>2
<1>5. NoAsk(u, Len(u) - 1)
  BY <1>3, <1>4
<1> QED
  BY <1>5 DEF u

LEMMA TailFew ==
  ASSUME NEW w \in Seq(Message)
  PROVE  /\ Len(w) = 1 => Tail(w) = <<>>
         /\ Len(w) = 2 => Len(Tail(w)) = 1 /\ Tail(w)[1] = w[2]
<1> DEFINE t == Tail(w)
<1>1. ASSUME w # <<>>
      PROVE  /\ t \in Seq(Message) /\ Len(w) \in Nat \ {0} /\ Len(t) = Len(w) - 1
             /\ \A i \in 1..Len(t) : t[i] = w[i + 1]
  BY <1>1, TailTyped
<1> HIDE DEF t
<1>2. ASSUME Len(w) = 1 PROVE t = <<>>
  <2>1. w # <<>>
    BY <1>2
  <2> QED
    BY <1>1, <1>2, <2>1
<1>3. ASSUME Len(w) = 2 PROVE Len(t) = 1 /\ t[1] = w[2]
  <2>1. w # <<>>
    BY <1>3
  <2>2. Len(t) = 1
    BY <1>1, <1>3, <2>1
  <2>3. 1 \in 1..Len(t)
    BY <2>2
  <2> QED
    BY <1>1, <2>1, <2>2, <2>3
<1> QED
  BY <1>2, <1>3 DEF t

-----------------------------------------------------------------------------
(* What a step does to the packets on their way *)

\* The server reads one.
LEMMA DeliversRead ==
  ASSUME NEW w \in Seq(Message), w # <<>>, NEW h \in Packets, NEW c \in Nat, NEW n \in Nat,
         NEW wt, NEW pt, NEW due \in {"length", "packet"},
         Delivers(w, h, due, c, TRUE, wt, pt, n)
  PROVE  /\ wt # "listening" /\ (wt = "open" => pt # "connect_done" /\ LastIs(w, h, c, n))
         /\ due = "packet" =>
              /\ w[1].part # "len"
              /\ IF w[1].conn = h.conn THEN w[1].no = h.no + 1 ELSE w[1].conn > h.conn /\ w[1].no = 1
              /\ Delivers(Tail(w), Named(w[1]), IF w[1].part = "byte" THEN "length" ELSE "packet",
                          c, TRUE, wt, pt, n)
         /\ due = "length" => Delivers(Tail(w), h, "packet", c, TRUE, wt, pt, n)
<1>1. InTurn(w, h, due, c) /\ Comes(h, due, w[1]) /\ w[1] \in Message /\ w[1].conn <= c
  BY FirstIs DEF Delivers
<1>2. wt # "listening" /\ (wt = "open" => pt # "connect_done" /\ LastIs(w, h, c, n))
  BY DEF Delivers, Begins
<1>3. w[1].part \in {"whole", "byte", "len"}
  BY <1>1, MessageIs
<1>4. Named(w[1]).conn = w[1].conn /\ Named(w[1]).no = w[1].no
  BY DEF Named
<1>5. CASE due = "packet"
  <2>1. /\ w[1].part # "len"
        /\ IF w[1].conn = h.conn THEN w[1].no = h.no + 1 ELSE w[1].conn > h.conn /\ w[1].no = 1
    BY <1>1, <1>5 DEF Comes
  <2>2. InTurn(Tail(w), Named(w[1]), IF w[1].part = "byte" THEN "length" ELSE "packet", c)
    BY <1>1, <1>3, <2>1, InTurnTail
  <2>3. wt = "open" => LastIs(Tail(w), Named(w[1]), c, n)
    BY <1>2, <1>4, LastTail
  <2> QED
    BY <1>1, <1>2, <1>4, <1>5, <2>1, <2>2, <2>3 DEF Delivers
<1>6. CASE due = "length"
  <2>1. w[1].part = "len" /\ h.conn = w[1].conn /\ h.no = w[1].no
    BY <1>1, <1>6 DEF Comes
  <2>2. InTurn(Tail(w), h, "packet", c)
    BY <1>1, <2>1, InTurnTail
  <2>3. wt = "open" => LastIs(Tail(w), h, c, n)
    BY <1>2, <2>1, LastTail
  <2> QED
    BY <1>2, <1>6, <2>2, <2>3 DEF Delivers
<1> QED
  BY <1>2, <1>5, <1>6

-----------------------------------------------------------------------------
(* What a step does to the streams *)

LEMMA SeqOf3 ==
  ASSUME NEW a \in Seq(Message), NEW b \in Seq(Message), NEW c \in Seq(Message)
  PROVE  /\ a \o b \o c \in Seq(Message)
         /\ a # <<>> => /\ a \o b \o c # <<>> /\ (a \o b \o c)[1] = Head(a)
                        /\ Tail(a \o b \o c) = Tail(a) \o b \o c
         /\ \A d \in Seq(Message) : a \o b \o (c \o d) = (a \o b \o c) \o d
         /\ c # <<>> => a \o <<Head(c)>> \o Tail(c) = a \o <<>> \o c
         /\ (a \o b) \o <<>> \o c = a \o b \o c
         /\ a = <<>> /\ b = <<>> /\ c = <<>> => a \o b \o c = <<>>
         /\ a \o b \o c = <<>> => a = <<>>
<1>1. a \o b \o c \in Seq(Message)
  OBVIOUS
<1>2. a # <<>> => a \o b \o c # <<>> /\ (a \o b \o c)[1] = Head(a)
  OBVIOUS
<1>3. a # <<>> => Tail(a \o b \o c) = Tail(a) \o b \o c
  OBVIOUS
<1>4. \A d \in Seq(Message) : a \o b \o (c \o d) = (a \o b \o c) \o d
  OBVIOUS
<1>5. c # <<>> => a \o <<Head(c)>> \o Tail(c) = a \o <<>> \o c
  OBVIOUS
<1>6. (a \o b) \o <<>> \o c = a \o b \o c
  OBVIOUS
<1>7. a = <<>> /\ b = <<>> /\ c = <<>> => a \o b \o c = <<>>
  OBVIOUS
<1>8. a \o b \o c = <<>> => a = <<>>
  OBVIOUS
<1> QED
  BY <1>1, <1>2, <1>3, <1>4, <1>5, <1>6, <1>7, <1>8

LEMMA Head3 ==
  ASSUME NEW a \in Seq(Message), NEW b \in Seq(Message), NEW c \in Seq(Message), a # <<>>,
         NEW w, w = a \o b \o c
  PROVE  w # <<>> /\ Head(a) = w[1] /\ Tail(a) \o b \o c = Tail(w)
<1>1. a \o b \o c # <<>> /\ (a \o b \o c)[1] = Head(a)
  OBVIOUS
<1>2. Tail(a \o b \o c) = Tail(a) \o b \o c
  OBVIOUS
<1> QED
  BY <1>1, <1>2

LEMMA StreamTyped ==
  ASSUME Typed, NEW s \in Sides
  PROVE  /\ Stream(s) \in Seq(Message)
         /\ msgs[Pipe("read", s)] \in Seq(Message) /\ relay[<<Other(s), 1>>].msg \in Seq(Message)
         /\ msgs[Pipe("write", Other(s))] \in Seq(Message)
<1>1. Pipe("read", s) \in DataPipes /\ Pipe("write", Other(s)) \in DataPipes /\ <<Other(s), 1>> \in Relays
  BY SideFacts, PipeFacts, RelayFacts
<1>2. /\ msgs[Pipe("read", s)] \in Seq(Message) /\ relay[<<Other(s), 1>>].msg \in Seq(Message)
      /\ msgs[Pipe("write", Other(s))] \in Seq(Message)
  BY <1>1 DEF Typed
<1> QED
  BY <1>2, SeqOf3 DEF Stream

LEMMA StreamKept ==
  ASSUME NEW s \in Sides, msgs' = msgs, relay' = relay
  PROVE  Stream(s)' = Stream(s)
BY DEF Stream

LEMMA StreamRead ==
  ASSUME Typed, NEW s \in Sides, Readable(s), Read(s), relay' = relay
  PROVE  /\ Stream(s) # <<>> /\ Next1(s) = Stream(s)[1] /\ Stream(s)' = Tail(Stream(s))
         /\ Stream(Other(s))' = Stream(Other(s))
<1> DEFINE o == Other(s)
<1>1. /\ o \in Sides /\ Other(o) = s /\ Pipe("read", s) \in DataPipes /\ Pipe("write", o) \in DataPipes
      /\ Pipe("read", o) \in DataPipes /\ Pipe("write", s) \in DataPipes
      /\ Pipe("read", s) # Pipe("write", o) /\ Pipe("read", s) # Pipe("read", o) /\ Pipe("read", s) # Pipe("write", s)
  BY SideFacts, PipeFacts
<1>2. /\ msgs'[Pipe("read", s)] = Tail(msgs[Pipe("read", s)])
      /\ msgs'[Pipe("write", o)] = msgs[Pipe("write", o)]
      /\ msgs'[Pipe("read", o)] = msgs[Pipe("read", o)]
      /\ msgs'[Pipe("write", s)] = msgs[Pipe("write", s)]
  BY <1>1 DEF Read, Typed
<1>3. /\ msgs[Pipe("read", s)] \in Seq(Message) /\ relay[<<o, 1>>].msg \in Seq(Message)
      /\ msgs[Pipe("write", o)] \in Seq(Message)
  BY StreamTyped
<1>4. msgs[Pipe("read", s)] # <<>>
  BY DEF Readable
<1>5. /\ Stream(s) = msgs[Pipe("read", s)] \o relay[<<o, 1>>].msg \o msgs[Pipe("write", o)]
      /\ Stream(s)' = Tail(msgs[Pipe("read", s)]) \o relay[<<o, 1>>].msg \o msgs[Pipe("write", o)]
  BY <1>2 DEF Stream
<1>6. Stream(o)' = Stream(o)
  BY <1>1, <1>2 DEF Stream
<1>7. Stream(s) # <<>> /\ Head(msgs[Pipe("read", s)]) = Stream(s)[1] /\ Stream(s)' = Tail(Stream(s))
  <2>1. PICK a \in Seq(Message), b \in Seq(Message), c \in Seq(Message) :
          a = msgs[Pipe("read", s)] /\ b = relay[<<o, 1>>].msg /\ c = msgs[Pipe("write", o)]
    BY <1>3
  <2>2. a # <<>> /\ Stream(s) = a \o b \o c /\ Stream(s)' = Tail(a) \o b \o c
    BY <1>4, <1>5, <2>1
  <2>3. PICK w : w = a \o b \o c
    OBVIOUS
  <2>4. w # <<>> /\ Head(a) = w[1] /\ Tail(a) \o b \o c = Tail(w)
    BY <2>2, <2>3, Head3
  <2> QED
    BY <2>1, <2>2, <2>3, <2>4
<1>8. Next1(s) = Stream(s)[1]
  BY <1>7 DEF Next1
<1> QED
  BY <1>6, <1>7, <1>8 DEF o

LEMMA StreamWrite ==
  ASSUME Typed, NEW s \in Sides, NEW ms \in Seq(Message), Write(Pipe("write", s), ms), relay' = relay
  PROVE  /\ Stream(Other(s))' = IF WritePipe(s) = "open" THEN Stream(Other(s)) \o ms ELSE Stream(Other(s))
         /\ Stream(s)' = Stream(s)
<1> DEFINE o == Other(s)
<1>1. /\ o \in Sides /\ Other(o) = s /\ Pipe("read", s) \in DataPipes /\ Pipe("write", o) \in DataPipes
      /\ Pipe("read", o) \in DataPipes /\ Pipe("write", s) \in DataPipes
      /\ Pipe("write", s) # Pipe("write", o) /\ Pipe("read", o) # Pipe("write", s) /\ Pipe("read", s) # Pipe("write", s)
  BY SideFacts, PipeFacts
<1>2. CASE WritePipe(s) = "open"
  <2>1. /\ msgs'[Pipe("write", s)] = msgs[Pipe("write", s)] \o ms
        /\ msgs'[Pipe("write", o)] = msgs[Pipe("write", o)]
        /\ msgs'[Pipe("read", o)] = msgs[Pipe("read", o)]
        /\ msgs'[Pipe("read", s)] = msgs[Pipe("read", s)]
    BY <1>1, <1>2 DEF Write, Typed, WritePipe
  <2>2. /\ msgs[Pipe("read", o)] \in Seq(Message) /\ relay[<<s, 1>>].msg \in Seq(Message)
        /\ msgs[Pipe("write", s)] \in Seq(Message)
    BY <1>1, StreamTyped
  <2>3. /\ Stream(o) = msgs[Pipe("read", o)] \o relay[<<s, 1>>].msg \o msgs[Pipe("write", s)]
        /\ Stream(o)' = msgs[Pipe("read", o)] \o relay[<<s, 1>>].msg \o (msgs[Pipe("write", s)] \o ms)
    BY <1>1, <2>1 DEF Stream
  <2>4. Stream(s)' = Stream(s)
    BY <2>1 DEF Stream
  <2>5. Stream(o)' = Stream(o) \o ms
    <3>1. PICK a \in Seq(Message), b \in Seq(Message), c \in Seq(Message) :
            a = msgs[Pipe("read", o)] /\ b = relay[<<s, 1>>].msg /\ c = msgs[Pipe("write", s)]
      BY <2>2
    <3>2. Stream(o) = a \o b \o c /\ Stream(o)' = a \o b \o (c \o ms)
      BY <2>3, <3>1
    <3>3. a \o b \o (c \o ms) = (a \o b \o c) \o ms
      OBVIOUS
    <3> QED
      BY <3>2, <3>3
  <2> QED
    BY <1>2, <2>4, <2>5 DEF o
<1>3. CASE WritePipe(s) # "open"
  <2>1. msgs' = msgs
    BY <1>3 DEF Write, WritePipe
  <2> QED
    BY <1>1, <1>3, <2>1, StreamKept
<1> QED
  BY <1>2, <1>3

\* What RemotePut writes.
Parts(k, req, parts) == [i \in DOMAIN parts |-> [conn |-> k.conn, no |-> k.no, part |-> parts[i], req |-> req]]
LEMMA PartsAre ==
  ASSUME NEW k, k.conn \in 1..MaxConnects, k.no \in 1..(MaxSends + 1), NEW parts \in Parted,
         NEW req \in {"ask", "tell", "bye", "answer"}
  PROVE  /\ Parts(k, req, parts) \in Seq(Message) /\ Put(Parts(k, req, parts), k.conn, k.no)
         /\ Replies(Parts(k, req, parts), k.conn, k.no)
         /\ req # "ask" => NoAsk(Parts(k, req, parts), Len(Parts(k, req, parts)))
         /\ parts = <<"whole">> => Len(Parts(k, req, parts)) = 1
<1>1. Parts(k, req, parts) \in Seq(Message)
  BY PartsTyped DEF Parts
<1>2. CASE parts = <<"whole">>
  <2>1. DOMAIN parts = 1..1 /\ parts[1] = "whole"
    BY <1>2
  <2>2. /\ Len(Parts(k, req, parts)) = 1
        /\ Parts(k, req, parts)[1] = [conn |-> k.conn, no |-> k.no, part |-> "whole", req |-> req]
    BY <2>1 DEF Parts
  <2> QED
    BY <1>1, <2>2 DEF Put, Replies, Reply, NoAsk
<1>3. CASE parts = <<"byte", "len">>
  <2>1. DOMAIN parts = 1..2 /\ parts[1] = "byte" /\ parts[2] = "len" /\ parts # <<"whole">>
    BY <1>3
  <2>2. /\ Len(Parts(k, req, parts)) = 2
        /\ Parts(k, req, parts)[1] = [conn |-> k.conn, no |-> k.no, part |-> "byte", req |-> req]
        /\ Parts(k, req, parts)[2] = [conn |-> k.conn, no |-> k.no, part |-> "len", req |-> req]
    BY <2>1 DEF Parts
  <2>3. \A i \in 1..2 : i = 1 \/ i = 2
    OBVIOUS
  <2> QED
    BY <1>1, <2>1, <2>2, <2>3 DEF Put, Replies, Reply, NoAsk
<1> QED
  BY <1>2, <1>3 DEF Parted

LEMMA StreamPut ==
  ASSUME Typed, NEW s \in Sides, NEW k, k.conn \in 1..MaxConnects, k.no \in 1..(MaxSends + 1),
         NEW parts \in Parted, NEW req \in {"ask", "tell", "bye", "answer"},
         RemotePut(s, k, req, parts), relay' = relay
  PROVE  /\ Stream(Other(s))' = IF WritePipe(s) = "open" THEN Stream(Other(s)) \o Parts(k, req, parts)
                                ELSE Stream(Other(s))
         /\ Stream(s)' = Stream(s)
BY PartsAre, StreamWrite DEF RemotePut, Parts

\* A read pipe that is gone has nothing on its way to it.
LEMMA StreamNone ==
  ASSUME Inv, Ends, NEW s \in Sides, ReadPipe(s) = "none"
  PROVE  Stream(s) = <<>> /\ WritePipe(Other(s)) = "none"
<1> DEFINE o == Other(s)
<1>1. /\ o \in Sides /\ Pipe("read", s) \in DataPipes /\ Pipe("write", o) \in DataPipes /\ <<o, 1>> \in Relays
  BY SideFacts, PipeFacts, RelayFacts
<1>2. WritePipe(o) = "none"
  BY <1>1, EndsIs, SideFacts DEF EndsOf
<1>3. ~Active(o)
  BY <1>1, <1>2 DEF Inv, Pairs, Up
<1>4. /\ msgs[Pipe("read", s)] = <<>> /\ msgs[Pipe("write", o)] = <<>>
      /\ relay[<<o, 1>>].msg = <<>>
  BY <1>1, <1>2, <1>3 DEF Inv, Emptied, Active, ReadPipe, WritePipe
<1>5. <<>> \in Seq(Message)
  OBVIOUS
<1>6. Stream(s) = <<>>
  BY <1>4, <1>5, SeqOf3 DEF Stream
<1> QED
  BY <1>2, <1>6 DEF o

-----------------------------------------------------------------------------
(* The steps that leave the packets where they are *)

LEMMA ToServBy ==
  ASSUME NEW w, NEW h, NEW due, NEW c, NEW fresh \in BOOLEAN, NEW wt, NEW pt, NEW n,
         Delivers(w, h, due, c, fresh, wt, pt, n),
         Stream("serv")' = w, heard'["serv"] = h, Due' = due, conns' = c,
         Fresh("serv")' <=> fresh, WritePipe("trap")' = wt, pc'["trap"] = pt, nsent' = n
  PROVE  ToServ'
BY DEF ToServ, Delivers

LEMMA ToServKept ==
  ASSUME ToServ, heard'["serv"] = heard["serv"], conns' = conns, nsent' = nsent,
         Fresh("serv")' => Fresh("serv") /\ Stream("serv")' = Stream("serv") /\ Due' = Due,
         WritePipe("trap")' = "listening" => WritePipe("trap") = "listening",
         WritePipe("trap")' = "open" =>
           WritePipe("trap") = "open" /\ (pc'["trap"] = "connect_done" <=> pc["trap"] = "connect_done")
  PROVE  ToServ'
BY DEF ToServ, Delivers

LEMMA NoAskFewer ==
  ASSUME NEW w \in Seq(Message), NoAsk(w, Len(w))
  PROVE  NoAsk(w, Len(w) - 1)
BY DEF NoAsk

LEMMA ToTrapKept ==
  ASSUME Typed, ToTrap, heard'["serv"] = heard["serv"], conns' = conns, nsent' = nsent,
         ReadPipe("trap")' \in {"listening", "open"} =>
           ReadPipe("trap")' = ReadPipe("trap") /\ Stream("trap")' = Stream("trap"),
         pc'["trap"] = pc["trap"], Answering' => Answering,
         Sends' => Sends /\ Stream("serv")' = Stream("serv")
  PROVE  ToTrap'
<1>1. NoAsk(Stream("serv"), Len(Stream("serv"))) => NoAsk(Stream("serv"), Len(Stream("serv")) - 1)
  BY StreamTyped, SideFacts, NoAskFewer
<1> QED
  BY <1>1 DEF ToTrap, Awaits

LEMMA ToTrapShut ==
  ASSUME ToTrap, ReadPipe("trap")' # "open",
         ReadPipe("trap")' = "listening" =>
           /\ ReadPipe("trap") = "listening" /\ Stream("trap")' = Stream("trap")
           /\ Answering' => Answering
  PROVE  ToTrap'
BY DEF ToTrap, Awaits

-----------------------------------------------------------------------------
(* The broker's steps *)

LEMMA BrokerOrder ==
  ASSUME Inv, ToServ, ToTrap, UNCHANGED <<pc, nsent, heard, conns>>,
         \A t \in Sides : /\ ReadPipe(t)' \in {ReadPipe(t), "none"} /\ WritePipe(t)' \in {WritePipe(t), "none"}
                          /\ ReadPipe(t)' = ReadPipe(t) /\ ReadPipe(t) \in {"listening", "open"} =>
                               Stream(t)' = Stream(t)
  PROVE  ToServ' /\ ToTrap'
<1> USE SideFacts
<1>1. /\ ReadPipe("serv")' \in {ReadPipe("serv"), "none"} /\ WritePipe("serv")' \in {WritePipe("serv"), "none"}
      /\ ReadPipe("trap")' \in {ReadPipe("trap"), "none"} /\ WritePipe("trap")' \in {WritePipe("trap"), "none"}
      /\ ReadPipe("serv")' = ReadPipe("serv") /\ ReadPipe("serv") \in {"listening", "open"} =>
           Stream("serv")' = Stream("serv")
      /\ ReadPipe("trap")' = ReadPipe("trap") /\ ReadPipe("trap") \in {"listening", "open"} =>
           Stream("trap")' = Stream("trap")
  OBVIOUS
<1>2. Fresh("serv")' => Fresh("serv") /\ ReadPipe("serv")' = ReadPipe("serv") /\ Stream("serv")' = Stream("serv")
  BY <1>1 DEF Fresh
<1>3. Fresh("serv")' => Due' = Due
  BY <1>2 DEF Due
<1>4. Answering' => Answering
  BY <1>1 DEF Answering
<1>5. Sends' => Sends /\ Stream("serv")' = Stream("serv")
  BY <1>1, <1>2 DEF Sends
<1>6. ToServ'
  BY <1>1, <1>2, <1>3, ToServKept
<1>7. ToTrap'
  BY <1>1, <1>4, <1>5, ToTrapKept DEF Inv
<1> QED
  BY <1>6, <1>7

LEMMA OrderMain ==
  ASSUME Inv, ToServ, ToTrap, Main \/ UNCHANGED vars
  PROVE  ToServ' /\ ToTrap'
<1> USE SideFacts
<1>1. ReadKept /\ WriteKept
  BY OpenServIs, OpenTrapIs, OthersKeep DEF Inv, Main, AllKept
<1>2. relay' = relay /\ UNCHANGED <<pc, nsent, heard, conns>>
  BY DEF Main, FindLink, OpenServ, OpenTrap, brokerVars, vars, programVars
<1>3. msgs' = msgs
  <2>1. CASE \E s \in Sides : Make({Pipe("conn", s)})
    <3>1. PICK s \in Sides : Make({Pipe("conn", s)})
      BY <2>1
    <3>2. \A p \in DataPipes : p \notin {Pipe("conn", s)}
      BY PipeFacts
    <3> QED
      BY <3>1, <3>2 DEF Make, Inv, Typed
  <2>2. CASE msgs' = msgs
    BY <2>2
  <2> QED
    BY <2>1, <2>2 DEF Main, FindLink, OpenServ, OpenTrap, vars, pipeVars
<1>4. \A t \in Sides : Stream(t)' = Stream(t)
  BY <1>2, <1>3, StreamKept
<1> QED
  BY <1>1, <1>2, <1>4, BrokerOrder DEF ReadKept, WriteKept

LEMMA OrderJoin ==
  ASSUME Inv, ToServ, ToTrap, NEW s \in Sides, Join(s)
  PROVE  ToServ' /\ ToTrap'
<1> USE SideFacts
<1>1. AllKept /\ msgs' = msgs /\ UNCHANGED <<pc, nsent, heard, conns>>
  BY OthersKeep DEF Join, programVars
<1>2. ASSUME NEW t \in Sides PROVE relay'[<<t, 1>>].msg = relay[<<t, 1>>].msg
  <2>1. <<t, 1>> \in Relays /\ <<t, 1>>[2] = 1
    BY RelayFacts
  <2>2. ~Active(t)
    BY DEF Inv, Pairs, Join
  <2>3. relay[<<t, 1>>].msg = <<>>
    BY <2>1, <2>2 DEF Inv, Emptied, Active
  <2>4. CASE connected[Other(s)]
    <3>1. PICK i \in {1, 2} : relay' = [r \in Relays |-> IF r[2] = i THEN [at |-> "test", msg |-> <<>>] ELSE relay[r]]
      BY <2>4 DEF Join
    <3> QED
      BY <2>1, <2>3, <3>1
  <2>5. CASE ~connected[Other(s)]
    BY <2>5 DEF Join
  <2> QED
    BY <2>4, <2>5
<1>3. ASSUME NEW t \in Sides PROVE Stream(t)' = Stream(t)
  <2>1. relay'[<<Other(t), 1>>].msg = relay[<<Other(t), 1>>].msg
    BY <1>2
  <2> QED
    BY <1>1, <2>1 DEF Stream
<1> QED
  BY <1>1, <1>3, BrokerOrder DEF AllKept, ReadKept, WriteKept

LEMMA OrderConnectTrap ==
  ASSUME Inv, Asking, Ends, ToServ, ToTrap, ConnectTrap
  PROVE  ToServ' /\ ToTrap'
<1> USE SideFacts
<1>0. Typed /\ conns \in Nat /\ heard["serv"].conn \in Nat
  BY Counted DEF Inv
<1>1. CASE ~present["serv"]
  <2>1. AllKept /\ msgs' = msgs /\ relay' = relay /\ UNCHANGED <<pc, nsent, heard, conns>>
    BY <1>1, AllKeptIs DEF ConnectTrap
  <2>2. \A t \in Sides : Stream(t)' = Stream(t)
    BY <2>1, StreamKept
  <2> QED
    BY <2>1, <2>2, BrokerOrder DEF AllKept, ReadKept, WriteKept
<1>2. CASE present["serv"]
  <2>1. Make(DataPipes) /\ conns' = conns + 1 /\ relay' = relay /\ UNCHANGED <<pc, nsent, heard>>
    BY <1>2 DEF ConnectTrap
  <2>2. msgs' = msgs
    BY <1>0, <2>1 DEF Make, Inv, Typed, Emptied
  <2>3. \A t \in Sides : Stream(t)' = Stream(t)
    BY <2>1, <2>2, StreamKept
  <2>4. /\ ReadPipe("serv")' = Made(ReadPipe("serv")) /\ WritePipe("serv")' = Made(WritePipe("serv"))
        /\ ReadPipe("trap")' = Made(ReadPipe("trap")) /\ WritePipe("trap")' = Made(WritePipe("trap"))
    BY <1>0, <2>1, MakeIs, PipeFacts DEF Made
  <2>5. WritePipe("trap") # "open" /\ ReadPipe("trap") # "open"
    <3>1. box["trap"] = "CONNECT"
      BY DEF ConnectTrap, Reads
    <3>2. ConnPipe("trap") = "open" => pc["trap"] = "connect"
      BY <3>1 DEF Asking
    <3> QED
      BY <3>2 DEF Inv, Programs
  <2>6. /\ ReadPipe("serv") = "none" => Stream("serv") = <<>> /\ WritePipe("trap") = "none"
        /\ ReadPipe("trap") = "none" => Stream("trap") = <<>> /\ WritePipe("serv") = "none"
        /\ WritePipe("trap") = "none" => ReadPipe("serv") = "none"
    <3>1. WritePipe("trap") = "none" => ReadPipe("serv") = "none"
      BY DEF Ends, EndsOf
    <3>2. ReadPipe("serv") = "none" => Stream("serv") = <<>> /\ WritePipe("trap") = "none"
      BY StreamNone
    <3>3. ReadPipe("trap") = "none" => Stream("trap") = <<>> /\ WritePipe("serv") = "none"
      BY StreamNone
    <3> QED
      BY <3>1, <3>2, <3>3
  <2>7. ToServ'
    <3>1. PICK w, h, c : w = Stream("serv") /\ h = heard["serv"] /\ c = conns
      OBVIOUS
    <3>2. h.conn \in Nat /\ c \in Nat /\ h.conn <= c
      BY <1>0, <3>1 DEF ToServ, Delivers
    <3>3. InTurn(<<>>, h, "packet", c + 1)
      BY DEF InTurn
    <3>4. ASSUME NEW due, InTurn(w, h, due, c) PROVE InTurn(w, h, due, c + 1)
      <4>1. w \in Seq(Message)
        BY <1>0, <3>1, StreamTyped
      <4>2. \A i \in 1..Len(w) : w[i].conn \in Nat
        BY <4>1, MessageIs
      <4> QED
        BY <3>2, <3>4, <4>2 DEF InTurn
    <3>5. CASE ReadPipe("serv") = "none"
      <4>1. /\ w = <<>> /\ Due' = "packet" /\ Fresh("serv")' /\ WritePipe("trap")' = "listening"
        BY <2>4, <2>6, <3>1, <3>5 DEF Due, Fresh, Made
      <4>2. Delivers(<<>>, h, "packet", c + 1, TRUE, "listening", pc["trap"], nsent)
        BY <3>2, <3>3 DEF Delivers, Begins
      <4> QED
        BY <2>1, <2>3, <3>1, <4>1, <4>2, ToServBy
    <3>6. CASE ReadPipe("serv") # "none"
      <4>1. /\ ReadPipe("serv")' = ReadPipe("serv") /\ WritePipe("trap")' = WritePipe("trap") /\ WritePipe("trap") # "open"
        BY <2>4, <2>5, <2>6, <3>6 DEF Made
      <4>2. Due' = Due /\ (Fresh("serv")' <=> Fresh("serv")) /\ Fresh("serv") \in BOOLEAN
        BY <2>1, <4>1 DEF Due, Fresh
      <4>3. Delivers(w, h, Due, c, Fresh("serv"), WritePipe("trap"), pc["trap"], nsent)
        BY <3>1 DEF ToServ, Delivers
      <4>4. Delivers(w, h, Due, c + 1, Fresh("serv"), WritePipe("trap"), pc["trap"], nsent)
        BY <3>2, <3>4, <4>1, <4>3 DEF Delivers, Begins
      <4> QED
        BY <2>1, <2>3, <3>1, <4>1, <4>2, <4>4, ToServBy
    <3> QED
      BY <3>5, <3>6
  <2>8. ToTrap'
    <3>1. ReadPipe("trap")' # "open"
      BY <2>4, <2>5 DEF Made
    <3>2. Answering' => Answering
      BY <2>1, <2>4 DEF Answering, Made
    <3>3. CASE ReadPipe("trap") = "none"
      <4>1. Stream("trap")' = <<>> /\ ~Answering'
        BY <2>3, <2>4, <2>6, <3>3 DEF Answering, Made
      <4> QED
        BY <3>1, <4>1 DEF ToTrap, Awaits
    <3>4. CASE ReadPipe("trap") # "none"
      BY <2>3, <2>4, <3>1, <3>2, <3>4, ToTrapShut DEF Made
    <3> QED
      BY <3>3, <3>4
  <2> QED
    BY <2>7, <2>8
<1> QED
  BY <1>1, <1>2

LEMMA OrderThread ==
  ASSUME Inv, Asking, Ends, ToServ, ToTrap, NEW s \in Sides, ConnectThread(s)
  PROVE  ToServ' /\ ToTrap'
<1> USE SideFacts
<1>1. CASE ~ConnectTrap /\ ~Join(s)
  <2>1. ReadKept /\ WriteKept
    BY <1>1, ConnectionEndsIs, OthersKeep DEF Inv, ConnectThread, AllKept
  <2>2. relay' = relay /\ UNCHANGED <<pc, nsent, heard, conns>>
    BY <1>1 DEF ConnectThread, ConnectServ, EndConnect, Disco, DiscoAck, ConnectionEnds, FreeLink, programVars
  <2>3. msgs' = msgs
    <3>1. CASE ConnectionEnds(s)
      <4>1. DoClose({Pipe("conn", s)})
        BY <3>1 DEF ConnectionEnds
      <4>2. \A p \in DataPipes : p \notin {Pipe("conn", s)}
        BY PipeFacts
      <4> QED
        BY <4>1, <4>2 DEF DoClose, Inv, Typed
    <3>2. CASE ~ConnectionEnds(s)
      BY <1>1, <3>2 DEF ConnectThread, ConnectServ, EndConnect, Disco, DiscoAck, FreeLink, pipeVars
    <3> QED
      BY <3>1, <3>2
  <2>4. \A t \in Sides : Stream(t)' = Stream(t)
    BY <2>2, <2>3, StreamKept
  <2> QED
    BY <2>1, <2>2, <2>4, BrokerOrder DEF ReadKept, WriteKept
<1>2. CASE Join(s)
  BY <1>2, OrderJoin
<1>3. CASE ConnectTrap
  BY <1>3, OrderConnectTrap
<1> QED
  BY <1>1, <1>2, <1>3

LEMMA MoveMsg ==
  ASSUME Typed, NEW s \in Sides, NEW from, NEW to, NEW msg, Move(<<s, 1>>, from, to, msg)
  PROVE  /\ relay[<<s, 1>>].at = from /\ relay'[<<s, 1>>].msg = msg
         /\ relay'[<<Other(s), 1>>].msg = relay[<<Other(s), 1>>].msg
<1>1. relay' = [relay EXCEPT ![<<s, 1>>] = [at |-> to, msg |-> msg]] /\ relay[<<s, 1>>].at = from
  BY DEF Move
<1>2. <<s, 1>> \in Relays /\ <<Other(s), 1>> \in Relays /\ <<s, 1>> # <<Other(s), 1>>
  BY RelayFacts, SideFacts
<1> QED
  BY <1>1, <1>2 DEF Typed

\* A stream is where it was when neither its two pipes nor its thread's message
\* has changed.
LEMMA StreamSame ==
  ASSUME NEW s \in Sides, msgs'[Pipe("read", s)] = msgs[Pipe("read", s)],
         relay'[<<Other(s), 1>>].msg = relay[<<Other(s), 1>>].msg,
         msgs'[Pipe("write", Other(s))] = msgs[Pipe("write", Other(s))]
  PROVE  Stream(s)' = Stream(s)
BY DEF Stream

LEMMA StreamReadByThread ==
  ASSUME Typed, Emptied, NEW s \in Sides, JoinRead(<<s, 1>>)
  PROVE  \A t \in Sides : Stream(t)' = Stream(t)
<1> USE SideFacts
<1> DEFINE o == Other(s)
<1>0. <<s, 1>> \in Relays /\ In(<<s, 1>>) = Pipe("write", s)
  BY RelayFacts
<1>1. /\ o \in Sides /\ Other(o) = s
      /\ Pipe("read", s) \in DataPipes /\ Pipe("write", o) \in DataPipes
      /\ Pipe("read", o) \in DataPipes /\ Pipe("write", s) \in DataPipes
      /\ Pipe("write", s) # Pipe("write", o) /\ Pipe("read", o) # Pipe("write", s) /\ Pipe("read", s) # Pipe("write", s)
  BY PipeFacts
<1>2. relay[<<s, 1>>].msg = <<>>
  <2>1. relay[<<s, 1>>].at = "read"
    BY DEF JoinRead, Move
  <2> QED
    BY <1>0, <2>1 DEF Emptied
<1>3. CASE msgs[Pipe("write", s)] = <<>>
  <2>1. msgs' = msgs /\ Move(<<s, 1>>, "read", "end", <<>>)
    BY <1>0, <1>3 DEF JoinRead
  <2>2. relay'[<<s, 1>>].msg = <<>> /\ relay'[<<o, 1>>].msg = relay[<<o, 1>>].msg
    BY <2>1, MoveMsg
  <2>3. Stream(s)' = Stream(s) /\ Stream(o)' = Stream(o)
    BY <1>1, <1>2, <2>1, <2>2, StreamSame
  <2> QED
    BY <2>3 DEF o
<1>4. CASE msgs[Pipe("write", s)] # <<>>
  <2>1. /\ msgs[Pipe("write", s)] # <<>> /\ msgs' = [msgs EXCEPT ![Pipe("write", s)] = Tail(@)]
        /\ Move(<<s, 1>>, "read", "write", <<Head(msgs[Pipe("write", s)])>>)
    BY <1>0, <1>1, <1>4 DEF JoinRead
  <2>2. /\ msgs'[Pipe("write", s)] = Tail(msgs[Pipe("write", s)])
        /\ msgs'[Pipe("write", o)] = msgs[Pipe("write", o)]
        /\ msgs'[Pipe("read", o)] = msgs[Pipe("read", o)]
        /\ msgs'[Pipe("read", s)] = msgs[Pipe("read", s)]
    BY <1>1, <2>1 DEF Typed
  <2>3. /\ relay'[<<s, 1>>].msg = <<Head(msgs[Pipe("write", s)])>>
        /\ relay'[<<o, 1>>].msg = relay[<<o, 1>>].msg
    BY <2>1, MoveMsg
  <2>4. Stream(s)' = Stream(s)
    BY <1>1, <2>2, <2>3, StreamSame
  <2>5. Stream(o)' = Stream(o)
    <3>1. PICK a \in Seq(Message), c \in Seq(Message) : a = msgs[Pipe("read", o)] /\ c = msgs[Pipe("write", s)]
      BY <1>1 DEF Typed
    <3>2. Stream(o) = a \o <<>> \o c
      BY <1>1, <1>2, <3>1 DEF Stream
    <3>3. Stream(o)' = a \o <<Head(c)>> \o Tail(c)
      BY <1>1, <2>2, <2>3, <3>1 DEF Stream
    <3>4. c # <<>>
      BY <2>1, <3>1
    <3>5. <<>> \in Seq(Message)
      OBVIOUS
    <3>6. a \o <<Head(c)>> \o Tail(c) = a \o <<>> \o c
      BY <3>4, <3>5, SeqOf3
    <3> QED
      BY <3>2, <3>3, <3>6
  <2> QED
    BY <2>4, <2>5 DEF o
<1> QED
  BY <1>3, <1>4

LEMMA OrderRelay ==
  ASSUME Inv, ToServ, ToTrap, NEW r \in Relays, JoinPipeThread(r)
  PROVE  ToServ' /\ ToTrap'
<1> USE SideFacts
<1>0. Typed /\ Pairs /\ Emptied
  BY DEF Inv
<1>1. PICK s \in Sides : r = <<s, 1>> /\ Active(s)
  BY <1>0, RelayStep
<1>2. UNCHANGED <<pc, nsent, heard, conns>>
  BY <1>0, RelayStep
<1> DEFINE o == Other(s)
<1>3. /\ <<s, 1>> \in Relays
      /\ In(<<s, 1>>) = Pipe("write", s) /\ Out(<<s, 1>>) = Pipe("read", o)
  BY RelayFacts
<1>4. /\ o \in Sides /\ Other(o) = s
      /\ Pipe("read", s) \in DataPipes /\ Pipe("write", o) \in DataPipes
      /\ Pipe("read", o) \in DataPipes /\ Pipe("write", s) \in DataPipes
      /\ Pipe("write", s) # Pipe("write", o) /\ Pipe("read", o) # Pipe("write", s)
      /\ Pipe("read", s) # Pipe("read", o) /\ Pipe("read", s) # Pipe("write", s)
      /\ Pipe("read", o) # Pipe("write", o)
  BY PipeFacts
<1>5. CASE JoinTest(r) \/ JoinRead(r)
  <2>1. AllKept
    BY <1>5, OthersKeep
  <2>2. \A t \in Sides : Stream(t)' = Stream(t)
    <3>1. CASE JoinRead(r)
      <4>1. JoinRead(<<s, 1>>)
        BY <1>1, <3>1
      <4> QED
        BY <1>0, <4>1, StreamReadByThread
    <3>2. CASE JoinTest(r)
      <4>1. msgs' = msgs /\ \E to : Move(<<s, 1>>, "test", to, <<>>)
        BY <1>1, <3>2 DEF JoinTest, pipeVars
      <4>2. /\ relay[<<s, 1>>].at = "test" /\ relay'[<<s, 1>>].msg = <<>>
            /\ relay'[<<o, 1>>].msg = relay[<<o, 1>>].msg
        BY <1>0, <4>1, MoveMsg
      <4>3. relay[<<s, 1>>].msg = <<>>
        BY <1>0, <1>3, <4>2 DEF Emptied
      <4>4. Stream(s)' = Stream(s) /\ Stream(o)' = Stream(o)
        BY <1>4, <4>1, <4>2, <4>3, StreamSame
      <4> QED
        BY <4>4 DEF o
    <3> QED
      BY <1>5, <3>1, <3>2
  <2> QED
    BY <1>2, <2>1, <2>2, BrokerOrder DEF AllKept, ReadKept, WriteKept
<1>6. CASE JoinWrite(r)
  <2>1. AllKept
    BY <1>6, OthersKeep
  <2>2. (\E to : Move(<<s, 1>>, "write", to, <<>>)) /\ Write(Pipe("read", o), relay[<<s, 1>>].msg)
    BY <1>1, <1>3, <1>6 DEF JoinWrite
  <2>3. relay'[<<s, 1>>].msg = <<>> /\ relay'[<<o, 1>>].msg = relay[<<o, 1>>].msg
    BY <1>0, <2>2, MoveMsg
  <2>4. /\ msgs'[Pipe("read", o)] = IF ReadPipe(o) = "open" THEN msgs[Pipe("read", o)] \o relay[<<s, 1>>].msg
                                    ELSE msgs[Pipe("read", o)]
        /\ msgs'[Pipe("write", o)] = msgs[Pipe("write", o)]
        /\ msgs'[Pipe("write", s)] = msgs[Pipe("write", s)]
        /\ msgs'[Pipe("read", s)] = msgs[Pipe("read", s)]
    <3>1. CASE ReadPipe(o) = "open"
      <4>1. msgs' = [msgs EXCEPT ![Pipe("read", o)] = @ \o relay[<<s, 1>>].msg]
        BY <2>2, <3>1 DEF Write, ReadPipe
      <4> QED
        BY <1>0, <1>4, <3>1, <4>1 DEF Typed
    <3>2. CASE ReadPipe(o) # "open"
      BY <2>2, <3>2 DEF Write, ReadPipe
    <3> QED
      BY <3>1, <3>2
  <2>5. Stream(s)' = Stream(s)
    BY <1>4, <2>3, <2>4, StreamSame
  <2>6. ReadPipe(o) = "open" => Stream(o)' = Stream(o)
    <3>1. SUFFICES ASSUME ReadPipe(o) = "open" PROVE Stream(o)' = Stream(o)
      OBVIOUS
    <3>2. PICK a \in Seq(Message), b \in Seq(Message), c \in Seq(Message) :
            a = msgs[Pipe("read", o)] /\ b = relay[<<s, 1>>].msg /\ c = msgs[Pipe("write", s)]
      BY <1>0, <1>4, <1>3 DEF Typed
    <3>3. Stream(o) = a \o b \o c
      BY <1>4, <3>2 DEF Stream
    <3>4. Stream(o)' = (a \o b) \o <<>> \o c
      BY <1>4, <2>3, <2>4, <3>1, <3>2 DEF Stream
    <3>5. (a \o b) \o <<>> \o c = a \o b \o c
      BY SeqOf3
    <3> QED
      BY <3>3, <3>4, <3>5
  <2>7. ReadPipe(o) \in Up
    BY <1>0, <1>1, <1>4, OtherPair
  <2>8. \A t \in Sides : ReadPipe(t) \in {"listening", "open"} => Stream(t)' = Stream(t)
    <3>1. ReadPipe(o) \in {"listening", "open"} => Stream(o)' = Stream(o)
      BY <2>6, <2>7 DEF Up
    <3> QED
      BY <2>5, <3>1 DEF o
  <2> QED
    BY <1>2, <2>1, <2>8, BrokerOrder DEF AllKept, ReadKept, WriteKept
<1>7. CASE JoinEnd(r)
  <2>1. JoinEnd(<<s, 1>>)
    BY <1>1, <1>7
  <2>2. /\ WritePipe(s)' = "none" /\ WritePipe(o)' = WritePipe(o)
        /\ ReadPipe(o)' = "none" /\ ReadPipe(s)' = ReadPipe(s)
    BY <1>0, <2>1, JoinEndIs
  <2>3. Move(<<s, 1>>, "end", "none", <<>>) /\ DoClose({Pipe("write", s), Pipe("read", o)})
    BY <1>3, <2>1 DEF JoinEnd
  <2>4. relay'[<<o, 1>>].msg = relay[<<o, 1>>].msg
    BY <1>0, <2>3, MoveMsg
  <2>5. msgs'[Pipe("read", s)] = msgs[Pipe("read", s)] /\ msgs'[Pipe("write", o)] = msgs[Pipe("write", o)]
    BY <1>4, <2>3 DEF DoClose
  <2>6. Stream(s)' = Stream(s)
    BY <2>4, <2>5, StreamSame
  <2>7. \A t \in Sides : /\ ReadPipe(t)' \in {ReadPipe(t), "none"} /\ WritePipe(t)' \in {WritePipe(t), "none"}
                         /\ ReadPipe(t)' = ReadPipe(t) /\ ReadPipe(t) \in {"listening", "open"} =>
                               Stream(t)' = Stream(t)
    <3>1. ASSUME NEW t \in Sides, t = s \/ t = o
          PROVE  /\ ReadPipe(t)' \in {ReadPipe(t), "none"} /\ WritePipe(t)' \in {WritePipe(t), "none"}
                 /\ ReadPipe(t)' = ReadPipe(t) /\ ReadPipe(t) \in {"listening", "open"} => Stream(t)' = Stream(t)
      <4>1. CASE t = s
        BY <2>2, <2>6, <4>1
      <4>2. CASE t = o
        BY <2>2, <4>2
      <4> QED
        BY <3>1, <4>1, <4>2
    <3> QED
      BY <3>1
  <2> QED
    BY <1>2, <2>7, BrokerOrder
<1> QED
  BY <1>5, <1>6, <1>7 DEF JoinPipeThread

-----------------------------------------------------------------------------
(* The server's steps *)

LEMMA ServStep ==
  ASSUME Inv, Continue("serv") \/ User("serv")
  PROVE  /\ pc'["trap"] = pc["trap"] /\ conns' = conns /\ nsent' = nsent /\ relay' = relay
         /\ ReadPipe("trap")' = ReadPipe("trap") /\ WritePipe("trap")' = WritePipe("trap")
         /\ Fresh("serv")' => Fresh("serv")
         /\ ReadPipe("serv") = "open" => ReadPipe("serv")' \in {"open", "closing"}
<1> USE SideFacts
<1>0. Typed /\ Emptied /\ Numbers
  BY DEF Inv
<1>1. /\ pc'["trap"] = pc["trap"]
      /\ ReadPipe("trap")' = ReadPipe("trap") /\ WritePipe("trap")' = WritePipe("trap")
  BY <1>0, OtherAlone
<1>2. conns' = conns /\ relay' = relay
  BY <1>0, ProgramSide, ProgramStep DEF brokerVars
<1>3. nsent' = nsent
  BY DEF Continue, User, RemoteLink, LinkAnswered, OpenConn, RemoteConnect, ConnectAnswered, OpenRead, OpenWrite,
         ConnectDone, Get, GetByte, GetFailed, Answer, GetLengthServ, Disconnected, RemoteUnLink, Exit
<1>4. /\ Fresh("serv")' => Fresh("serv")
      /\ ReadPipe("serv") = "open" => ReadPipe("serv")' \in {"open", "closing"}
  BY ProgramPipes DEF Fresh, Opens1, Opens2, Shut
<1> QED
  BY <1>1, <1>2, <1>3, <1>4

LEMMA ServPlain ==
  ASSUME Inv, ToServ, ToTrap,
         \/ RemoteLink("serv") \/ LinkAnswered("serv") \/ OpenConn("serv") \/ RemoteConnect("serv")
         \/ ConnectAnswered("serv") \/ OpenRead("serv") \/ OpenWrite("serv") \/ ConnectDone("serv")
         \/ Disconnected("serv") \/ RemoteUnLink("serv") \/ Exit("serv")
  PROVE  ToServ' /\ ToTrap'
<1> USE SideFacts
<1>0. Typed
  BY DEF Inv
<1>1. Continue("serv") \/ User("serv")
  BY DEF Continue, User
<1>2. msgs' = msgs /\ heard' = heard
  BY DEF RemoteLink, LinkAnswered, OpenConn, RemoteConnect, ConnectAnswered, OpenRead, OpenWrite,
         ConnectDone, Disconnected, RemoteUnLink, Exit
<1>3. \A t \in Sides : Stream(t)' = Stream(t)
  BY <1>1, <1>2, ServStep, StreamKept
<1>4. pc'["serv"] \notin {"answer", "get_length"}
  BY <1>0 DEF RemoteLink, LinkAnswered, OpenConn, RemoteConnect, ConnectAnswered, OpenRead, OpenWrite,
              ConnectDone, Disconnected, RemoteUnLink, Exit, At, Typed
<1>5. pc["serv"] = "get_length" /\ ReadPipe("serv") = "open" => ReadPipe("serv")' = "closing"
  <2>1. pc["serv"] = "get_length" => Exit("serv")
    BY DEF RemoteLink, LinkAnswered, OpenConn, RemoteConnect, ConnectAnswered, OpenRead, OpenWrite,
           ConnectDone, Disconnected, RemoteUnLink, At
  <2> QED
    BY <1>0, <2>1, ExitIs DEF Shut
<1>6. ~Answering'
  BY <1>4 DEF Answering
<1>7. Fresh("serv")' => Due' = Due
  BY <1>4, <1>5 DEF Due, Fresh
<1>8. Sends' => Sends
  BY <1>1, ServStep DEF Sends
<1>9. ToServ'
  BY <1>1, <1>2, <1>3, <1>7, ServStep, ToServKept
<1>10. ToTrap'
  BY <1>0, <1>1, <1>2, <1>3, <1>6, <1>8, ServStep, ToTrapKept
<1> QED
  BY <1>9, <1>10

LEMMA ServGetFailed ==
  ASSUME Inv, Ends, ToServ, ToTrap, GetFailed("serv")
  PROVE  ToServ' /\ ToTrap'
<1> USE SideFacts
<1>0. Typed
  BY DEF Inv
<1>1. Continue("serv") \/ User("serv")
  BY DEF Continue
<1>2. /\ msgs' = msgs /\ heard' = heard /\ AllKept /\ ReadPipe("serv") # "open"
      /\ pc'["serv"] = "answer"
  BY <1>0, OthersKeep DEF GetFailed, pipeVars, Broken, ReadPipe, At, Typed
<1>3. \A t \in Sides : Stream(t)' = Stream(t)
  BY <1>1, <1>2, ServStep, StreamKept
<1>4. Due' = Due
  BY <1>2 DEF Due
<1>5. Sends' => Sends
  BY <1>1, ServStep DEF Sends
<1>6. ToServ'
  BY <1>1, <1>2, <1>3, <1>4, ServStep, ToServKept
<1>7. CASE WritePipe("serv") = "open"
  <2>1. ReadPipe("trap")' = "closing"
    BY <1>1, <1>2, <1>7, ServStep DEF Ends, EndsOf
  <2> QED
    BY <1>6, <2>1, ToTrapShut
<1>8. CASE WritePipe("serv") # "open"
  <2>1. ~Answering'
    BY <1>2, <1>8 DEF Answering, AllKept, WriteKept
  <2>2. ToTrap'
    BY <1>0, <1>1, <1>2, <1>3, <1>5, <2>1, ServStep, ToTrapKept
  <2> QED
    BY <1>6, <2>2
<1> QED
  BY <1>7, <1>8

LEMMA ServAnswer ==
  ASSUME Inv, ToServ, ToTrap, Answer
  PROVE  ToServ' /\ ToTrap'
<1> USE SideFacts
<1>0. Typed /\ want
  BY DEF Inv, Numbers, Answer, At
<1>1. Continue("serv") \/ User("serv")
  BY DEF Continue
<1>2. /\ heard' = heard /\ AllKept /\ pc["serv"] = "answer" /\ pc'["serv"] = "get"
  BY <1>0, OthersKeep DEF Answer, At, Typed
<1>3. ~Answering'
  BY <1>2 DEF Answering
<1>4. PICK parts \in Parted : RemotePut("serv", heard["serv"], "answer", parts)
  BY DEF Answer, Parted
<1>5. heard["serv"].conn \in 1..MaxConnects /\ heard["serv"].no \in 1..(MaxSends + 1)
  <2>1. heard["serv"] \in Packet /\ heard["serv"].conn >= 1 /\ heard["serv"].no >= 1
    BY <1>0 DEF Inv, Numbers, Typed
  <2> QED
    BY <2>1, NmpConstants DEF Packet
<1> DEFINE ms == Parts(heard["serv"], "answer", parts)
<1>6. /\ Stream("trap")' = IF WritePipe("serv") = "open" THEN Stream("trap") \o ms ELSE Stream("trap")
      /\ Stream("serv")' = Stream("serv")
  <2>1. relay' = relay
    BY <1>1, ServStep
  <2>2. PICK k : k = heard["serv"]
    OBVIOUS
  <2>3. RemotePut("serv", k, "answer", parts) /\ k.conn \in 1..MaxConnects /\ k.no \in 1..(MaxSends + 1)
    BY <1>4, <1>5, <2>2
  <2>4. /\ Stream(Other("serv"))' = IF WritePipe("serv") = "open" THEN Stream(Other("serv")) \o Parts(k, "answer", parts)
                                    ELSE Stream(Other("serv"))
        /\ Stream("serv")' = Stream("serv")
    BY <1>0, <2>1, <2>3, StreamPut
  <2> QED
    BY <2>2, <2>4
<1>7. Due' = Due
  BY <1>2 DEF Due, AllKept, ReadKept
<1>8. Sends' => Sends
  BY <1>1, ServStep DEF Sends
<1>9. ToServ'
  BY <1>1, <1>2, <1>6, <1>7, ServStep, ToServKept
<1>10. CASE WritePipe("serv") # "open"
  <2>1. ToTrap'
    BY <1>0, <1>1, <1>2, <1>3, <1>6, <1>8, <1>10, ServStep, ToTrapKept
  <2> QED
    BY <1>9, <2>1
<1>11. CASE WritePipe("serv") = "open"
  <2>1. Answering
    BY <1>2, <1>11 DEF Answering
  <2>2. CASE ReadPipe("trap") # "open"
    <3>1. ReadPipe("trap") # "listening"
      BY <2>1 DEF ToTrap, Awaits
    <3> QED
      BY <1>1, <1>9, <2>2, <3>1, ServStep, ToTrapShut
  <2>3. CASE ReadPipe("trap") = "open"
    <3>1. /\ pc["trap"] = "get" /\ Stream("trap") = <<>>
          /\ heard["serv"].conn = conns /\ heard["serv"].no = nsent
          /\ Sends => NoAsk(Stream("serv"), Len(Stream("serv")))
      BY <2>1, <2>3 DEF ToTrap, Awaits
    <3>2. ms \in Seq(Message) /\ Replies(ms, heard["serv"].conn, heard["serv"].no)
      BY <1>4, <1>5, PartsAre
    <3> HIDE DEF ms
    <3>3. ms # <<>> /\ <<>> \o ms = ms
      <4>1. Len(ms) # 0
        BY <3>2 DEF Replies
      <4> QED
        BY <3>2, <4>1
    <3>4. Stream("trap")' = ms /\ Replies(ms, conns, nsent)
      BY <1>6, <1>11, <3>1, <3>2, <3>3
    <3>5. ToTrap'
      BY <1>1, <1>2, <1>3, <1>6, <1>8, <2>3, <3>1, <3>3, <3>4, ServStep DEF ToTrap, Awaits
    <3> QED
      BY <1>9, <3>5
  <2> QED
    BY <2>2, <2>3
<1> QED
  BY <1>10, <1>11

-----------------------------------------------------------------------------
(* The server's RemoteGet *)

LEMMA NoAskShift ==
  ASSUME NEW w \in Seq(Message), w # <<>>
  PROVE  /\ Len(Tail(w)) = Len(w) - 1
         /\ NoAsk(w, Len(w)) => NoAsk(Tail(w), Len(Tail(w)))
         /\ NoAsk(w, Len(w) - 1) => NoAsk(Tail(w), Len(Tail(w)) - 1)
         /\ NoAsk(w, Len(w)) => w[1].req # "ask"
         /\ NoAsk(w, Len(w) - 1) /\ w[1].req = "ask" => Tail(w) = <<>> /\ w[Len(w)] = w[1]
<1>1. /\ Tail(w) \in Seq(Message) /\ Len(w) \in Nat \ {0} /\ Len(Tail(w)) = Len(w) - 1
      /\ \A i \in 1..Len(Tail(w)) : Tail(w)[i] = w[i + 1] /\ i + 1 \in 1..Len(w)
  BY TailTyped
<1>2. NoAsk(w, Len(w)) => NoAsk(Tail(w), Len(Tail(w)))
  BY <1>1 DEF NoAsk
<1>3. NoAsk(w, Len(w) - 1) => NoAsk(Tail(w), Len(Tail(w)) - 1)
  <2>1. SUFFICES ASSUME NoAsk(w, Len(w) - 1), NEW i \in 1..Len(Tail(w)) - 1 PROVE Tail(w)[i].req # "ask"
    BY DEF NoAsk
  <2>2. i \in 1..Len(Tail(w)) /\ i + 1 \in 1..Len(w) - 1
    BY <1>1
  <2>3. Tail(w)[i] = w[i + 1]
    BY <1>1, <2>2
  <2> QED
    BY <2>1, <2>2, <2>3 DEF NoAsk
<1>4. NoAsk(w, Len(w)) => w[1].req # "ask"
  BY <1>1 DEF NoAsk
<1>5. ASSUME NoAsk(w, Len(w) - 1), w[1].req = "ask" PROVE Tail(w) = <<>> /\ w[Len(w)] = w[1]
  <2>1. 1 \notin 1..Len(w) - 1
    BY <1>5 DEF NoAsk
  <2>2. Len(w) = 1
    BY <1>1, <2>1
  <2>3. Len(Tail(w)) = 0
    BY <1>1, <2>2
  <2> QED
    BY <1>1, <2>2, <2>3
<1> QED
  BY <1>1, <1>2, <1>3, <1>4, <1>5

\* One that reads a request has its pipes in order: the debugger that made it
\* is there and waits.
LEMMA AskedIs ==
  ASSUME Inv, Ends, ToServ, ToTrap, Stream("serv") # <<>>, Stream("serv")[1].req = "ask",
         ReadPipe("serv") = "open", WritePipe("serv") = "open", pc["serv"] = "get",
         ReadPipe("trap") \in {"listening", "open"}
  PROVE  /\ ReadPipe("trap") = "open" /\ pc["trap"] = "get" /\ Stream("trap") = <<>>
         /\ Tail(Stream("serv")) = <<>>
         /\ Stream("serv")[1].conn = conns /\ Stream("serv")[1].no = nsent
<1> USE SideFacts
<1>1. Fresh("serv") /\ Stream("serv") \in Seq(Message)
  BY StreamTyped DEF Fresh, Inv
<1>2. WritePipe("trap") = "open"
  <2>1. WritePipe("trap") \in PipeStates
    BY PipeFacts DEF Inv, Typed, WritePipe
  <2>2. WritePipe("trap") # "none"
    BY DEF Ends, EndsOf
  <2>3. WritePipe("trap") # "listening"
    BY <1>1 DEF ToServ, Delivers, Begins
  <2>4. WritePipe("trap") # "closing"
    <3>1. SUFFICES ASSUME WritePipe("trap") = "closing" PROVE FALSE
      OBVIOUS
    <3>2. Active("trap") /\ ~Active("serv")
      BY <3>1 DEF Ends, EndsOf
    <3>3. connected["serv"]
      BY <3>2 DEF Ends, EndsOf, Up
    <3> QED
      BY <3>2, <3>3 DEF Inv, Pairs
  <2> QED
    BY <2>1, <2>2, <2>3, <2>4 DEF PipeStates
<1>3. ReadPipe("trap") = "open"
  BY <1>2 DEF Ends
<1>4. Sends /\ ~Answering
  BY <1>1, <1>2 DEF Sends, Answering
<1>5. pc["trap"] = "get" /\ Stream("trap") = <<>> /\ NoAsk(Stream("serv"), Len(Stream("serv")) - 1)
  <2>1. ~NoAsk(Stream("serv"), Len(Stream("serv")))
    BY <1>1, NoAskShift
  <2> QED
    BY <1>3, <1>4, <2>1 DEF ToTrap, Awaits
<1>6. Tail(Stream("serv")) = <<>> /\ Stream("serv")[Len(Stream("serv"))] = Stream("serv")[1]
  BY <1>1, <1>5, NoAskShift
<1>7. LastIs(Stream("serv"), heard["serv"], conns, nsent)
  BY <1>1, <1>2, <1>5 DEF ToServ, Delivers
<1> QED
  BY <1>3, <1>5, <1>6, <1>7 DEF LastIs

LEMMA ServReads ==
  ASSUME Inv, Ends, ToServ, ToTrap, Get("serv") \/ GetByte("serv") \/ (GetLengthServ /\ Readable("serv") /\ Read("serv"))
  PROVE  /\ ToServ' /\ ToTrap'
         /\ pc["serv"] = "get" =>
              IF heard'["serv"].conn = heard["serv"].conn THEN heard'["serv"].no = heard["serv"].no + 1
              ELSE heard'["serv"].conn > heard["serv"].conn /\ heard'["serv"].no = 1
<1> USE SideFacts
<1>0. Typed /\ Emptied /\ Numbers
  BY DEF Inv
<1>1. Continue("serv") \/ User("serv")
  BY DEF Continue
<1>2. Readable("serv") /\ Read("serv") /\ AllKept
  BY OthersKeep DEF Get, GetByte
<1>3. /\ Stream("serv") # <<>> /\ Next1("serv") = Stream("serv")[1] /\ Stream("serv")' = Tail(Stream("serv"))
      /\ Stream("trap")' = Stream("trap") /\ Stream("serv") \in Seq(Message)
  BY <1>0, <1>1, <1>2, ServStep, StreamRead, StreamTyped
<1>4. ReadPipe("serv") = "open" /\ ReadPipe("serv")' = "open" /\ WritePipe("serv")' = WritePipe("serv")
  BY <1>2 DEF Readable, ReadPipe, AllKept, ReadKept, WriteKept
<1> DEFINE m == Stream("serv")[1]
<1>5. PICK w, h, c, n, wt, pt : /\ w = Stream("serv") /\ h = heard["serv"] /\ c = conns /\ n = nsent
                                /\ wt = WritePipe("trap") /\ pt = pc["trap"]
  OBVIOUS
<1>6. h \in Packets /\ c \in Nat /\ n \in Nat /\ w \in Seq(Message) /\ w # <<>>
  BY <1>0, <1>3, <1>5, Counted
<1>7. ASSUME NEW due \in {"length", "packet"}, due = Due PROVE Delivers(w, h, due, c, TRUE, wt, pt, n)
  <2>1. Fresh("serv")
    BY <1>4 DEF Fresh
  <2> QED
    BY <1>5, <1>7, <2>1 DEF ToServ, Delivers
<1>8. Fresh("serv")'
  BY <1>4 DEF Fresh
<1>9. CASE pc["serv"] = "get"
  <2>1. Delivers(w, h, "packet", c, TRUE, wt, pt, n)
    BY <1>7, <1>9 DEF Due
  <2>2. /\ w[1].part # "len"
        /\ IF w[1].conn = h.conn THEN w[1].no = h.no + 1 ELSE w[1].conn > h.conn /\ w[1].no = 1
        /\ Delivers(Tail(w), Named(w[1]), IF w[1].part = "byte" THEN "length" ELSE "packet", c, TRUE, wt, pt, n)
    BY <1>6, <2>1, DeliversRead
  <2>3. w[1].part \in {"whole", "byte"} /\ w[1] \in Message
    <3>1. w[1] \in Message
      BY <1>6
    <3> QED
      BY <2>2, <3>1, MessageIs
  <2>4. Next1("serv") = w[1] /\ (Get("serv") \/ GetByte("serv"))
    BY <1>3, <1>5, <1>9 DEF GetLengthServ, At
  <2>5. heard'["serv"] = Named(w[1])
    BY <1>0, <2>3, <2>4 DEF Get, GetByte, Typed
  <2>6. pc'["serv"] = IF w[1].part = "byte" THEN "get_length" ELSE IF w[1].req = "ask" THEN "answer" ELSE "get"
    BY <1>0, <2>3, <2>4 DEF Get, GetByte, At, Typed
  <2>7. Due' = IF w[1].part = "byte" THEN "length" ELSE "packet"
    BY <1>4, <2>6 DEF Due
  <2>8. ToServ'
    BY <1>1, <1>3, <1>5, <1>8, <2>2, <2>5, <2>7, ServStep, ToServBy
  <2>9. ToTrap'
    <3>1. CASE ~Answering'
      <4>1. ~Answering /\ Sends' = Sends
        BY <1>1, <1>4, <1>8, <1>9, ServStep DEF Answering, Sends, Fresh
      <4>2. NoAsk(w, Len(w)) => NoAsk(Tail(w), Len(Tail(w)))
        BY <1>6, NoAskShift
      <4>3. NoAsk(w, Len(w) - 1) => NoAsk(Tail(w), Len(Tail(w)) - 1)
        BY <1>6, NoAskShift
      <4> QED
        BY <1>1, <1>3, <1>5, <3>1, <4>1, <4>2, <4>3, ServStep DEF ToTrap, Awaits
    <3>2. CASE Answering'
      <4>1. WritePipe("serv") = "open" /\ pc'["serv"] = "answer"
        BY <1>4, <3>2 DEF Answering
      <4>2. w[1].req = "ask" /\ w[1].part # "byte"
        BY <2>6, <4>1
      <4>3. CASE ReadPipe("trap") \in {"listening", "open"}
        <5>1. /\ ReadPipe("trap") = "open" /\ pc["trap"] = "get" /\ Stream("trap") = <<>>
              /\ Tail(w) = <<>> /\ w[1].conn = c /\ w[1].no = n
          BY <1>3, <1>4, <1>5, <1>9, <4>1, <4>2, <4>3, AskedIs
        <5>2. heard'["serv"].conn = c /\ heard'["serv"].no = n
          BY <2>5, <5>1 DEF Named
        <5>3. NoAsk(<<>>, Len(<<>>))
          BY DEF NoAsk
        <5> QED
          BY <1>1, <1>3, <1>5, <3>2, <5>1, <5>2, <5>3, ServStep DEF ToTrap, Awaits
      <4>4. CASE ReadPipe("trap") \notin {"listening", "open"}
        BY <1>1, <4>4, ServStep, ToTrapShut
      <4> QED
        BY <4>3, <4>4
    <3> QED
      BY <3>1, <3>2
  <2> QED
    BY <1>5, <2>2, <2>5, <2>8, <2>9 DEF Named
<1>10. CASE pc["serv"] # "get"
  <2>1. GetLengthServ /\ pc["serv"] = "get_length" /\ pc'["serv"] = "disco" /\ heard' = heard
    BY <1>0, <1>10 DEF Get, GetByte, GetLengthServ, At, Typed
  <2>2. Delivers(w, h, "length", c, TRUE, wt, pt, n)
    BY <1>4, <1>7, <2>1 DEF Due
  <2>3. Delivers(Tail(w), h, "packet", c, TRUE, wt, pt, n)
    BY <1>6, <2>2, DeliversRead
  <2>4. Due' = "packet"
    BY <2>1 DEF Due
  <2>5. ToServ'
    BY <1>1, <1>3, <1>5, <1>8, <2>1, <2>3, <2>4, ServStep, ToServBy
  <2>6. ToTrap'
    <3>1. ~Answering /\ ~Answering' /\ Sends' = Sends
      BY <1>1, <1>4, <1>8, <2>1, ServStep DEF Answering, Sends, Fresh
    <3>2. NoAsk(w, Len(w)) => NoAsk(Tail(w), Len(Tail(w)))
      BY <1>6, NoAskShift
    <3>3. NoAsk(w, Len(w) - 1) => NoAsk(Tail(w), Len(Tail(w)) - 1)
      BY <1>6, NoAskShift
    <3> QED
      BY <1>1, <1>3, <1>5, <2>1, <3>1, <3>2, <3>3, ServStep DEF ToTrap, Awaits
  <2> QED
    BY <1>10, <2>5, <2>6
<1> QED
  BY <1>9, <1>10

LEMMA OrderServ ==
  ASSUME Inv, Ends, ToServ, ToTrap, Continue("serv") \/ User("serv")
  PROVE  ToServ' /\ ToTrap'
<1> USE SideFacts
<1>1. CASE GetLengthServ /\ Broken("serv") /\ UNCHANGED msgs
  <2>1. /\ heard' = heard /\ AllKept /\ ReadPipe("serv") # "open" /\ pc'["serv"] = "disco"
    BY <1>1, OthersKeep DEF Inv, GetLengthServ, Broken, ReadPipe, At, Typed
  <2>2. \A t \in Sides : Stream(t)' = Stream(t)
    BY <1>1, ServStep, StreamKept
  <2>3. Due' = Due /\ ~Answering'
    BY <2>1 DEF Due, Answering, AllKept, ReadKept
  <2>4. Sends' => Sends
    BY ServStep DEF Sends
  <2>5. ToServ'
    BY <2>1, <2>2, <2>3, ServStep, ToServKept
  <2>6. ToTrap'
    BY <2>1, <2>2, <2>3, <2>4, ServStep, ToTrapKept DEF Inv
  <2> QED
    BY <2>5, <2>6
<1>2. CASE GetLengthServ /\ ~(Broken("serv") /\ UNCHANGED msgs)
  <2>1. Readable("serv") /\ Read("serv")
    BY <1>2 DEF GetLengthServ
  <2> QED
    BY <1>2, <2>1, ServReads
<1> QED
  BY <1>1, <1>2, ServPlain, ServGetFailed, ServAnswer, ServReads DEF Continue, User

-----------------------------------------------------------------------------
(* The debugger's steps *)

LEMMA TrapStep ==
  ASSUME Inv, Continue("trap") \/ User("trap")
  PROVE  /\ pc'["serv"] = pc["serv"] /\ conns' = conns /\ heard'["serv"] = heard["serv"] /\ relay' = relay
         /\ ReadPipe("serv")' = ReadPipe("serv") /\ WritePipe("serv")' = WritePipe("serv")
         /\ Due' = Due /\ (Fresh("serv")' <=> Fresh("serv")) /\ (Answering' <=> Answering)
<1> USE SideFacts
<1>0. Typed /\ Emptied /\ Numbers
  BY DEF Inv
<1>1. /\ pc'["serv"] = pc["serv"]
      /\ ReadPipe("serv")' = ReadPipe("serv") /\ WritePipe("serv")' = WritePipe("serv")
  BY <1>0, OtherAlone
<1>2. conns' = conns /\ relay' = relay
  BY <1>0, ProgramSide, ProgramStep DEF brokerVars
<1>3. heard'["serv"] = heard["serv"]
  <2>1. heard' = heard \/ \E k : heard' = [heard EXCEPT !["trap"] = k]
    BY DEF Continue, User, RemoteLink, LinkAnswered, OpenConn, RemoteConnect, ConnectAnswered, OpenRead, OpenWrite,
           ConnectDone, Get, GetByte, GetFailed, GetLengthTrap, Disconnected, RemoteUnLink, Exit, Bye, Request
  <2> QED
    BY <1>0, <2>1 DEF Typed
<1>4. Due' = Due /\ (Fresh("serv")' <=> Fresh("serv")) /\ (Answering' <=> Answering)
  BY <1>1 DEF Due, Fresh, Answering
<1> QED
  BY <1>1, <1>2, <1>3, <1>4

\* With its pipes closed, or not yet open, or without their change.
LEMMA TrapPlain ==
  ASSUME Inv, ToServ, ToTrap,
         \/ RemoteLink("trap") \/ LinkAnswered("trap") \/ OpenConn("trap") \/ RemoteConnect("trap")
         \/ ConnectAnswered("trap") \/ GetFailed("trap")
         \/ Disconnected("trap") \/ RemoteUnLink("trap") \/ Exit("trap")
         \/ (GetLengthTrap /\ Broken("trap") /\ UNCHANGED msgs)
  PROVE  ToServ' /\ ToTrap'
<1> USE SideFacts
<1>0. Typed
  BY DEF Inv
<1>1. Continue("trap") \/ User("trap")
  BY DEF Continue, User
<1>2. msgs' = msgs /\ nsent' = nsent
  BY DEF RemoteLink, LinkAnswered, OpenConn, RemoteConnect, ConnectAnswered, GetFailed, pipeVars,
         Disconnected, RemoteUnLink, Exit, GetLengthTrap
<1>3. \A t \in Sides : Stream(t)' = Stream(t)
  BY <1>1, <1>2, TrapStep, StreamKept
<1>4. pc'["trap"] # "connect_done"
  BY <1>0 DEF RemoteLink, LinkAnswered, OpenConn, RemoteConnect, ConnectAnswered, GetFailed,
              Disconnected, RemoteUnLink, Exit, GetLengthTrap, At, Typed
<1>5. \/ ReadPipe("trap")' = Shut(ReadPipe("trap")) /\ WritePipe("trap")' = Shut(WritePipe("trap"))
      \/ /\ ReadPipe("trap")' = ReadPipe("trap") /\ WritePipe("trap")' = WritePipe("trap")
         /\ ReadPipe("trap") # "open" /\ pc["trap"] # "connect_done"
  <2>1. CASE Disconnected("trap") \/ Exit("trap")
    BY <1>0, <2>1, DisconnectedIs, ExitIs
  <2>2. CASE GetFailed("trap") \/ (GetLengthTrap /\ Broken("trap"))
    BY <2>2, OthersKeep DEF GetFailed, GetLengthTrap, Broken, ReadPipe, At, AllKept, ReadKept, WriteKept, Readable
  <2>3. CASE \/ RemoteLink("trap") \/ LinkAnswered("trap") \/ OpenConn("trap") \/ RemoteConnect("trap")
             \/ ConnectAnswered("trap") \/ RemoteUnLink("trap")
    <3>1. pc["trap"] \in {"out", "linking", "opening_conn", "idle", "connect"}
      BY <2>3 DEF RemoteLink, LinkAnswered, OpenConn, RemoteConnect, ConnectAnswered, RemoteUnLink, At
    <3>2. ReadPipe("trap") # "open" /\ pc["trap"] # "connect_done"
      BY <3>1 DEF Inv, Programs
    <3>3. ReadKept /\ WriteKept
      BY <1>0, <2>3, OthersKeep, OpenConnIs, RemoteUnLinkIs DEF AllKept
    <3> QED
      BY <3>2, <3>3 DEF ReadKept, WriteKept
  <2> QED
    BY <2>1, <2>2, <2>3
<1>6. ToServ'
  BY <1>1, <1>2, <1>3, <1>4, <1>5, TrapStep, ToServKept DEF Shut
<1>7. ToTrap'
  BY <1>1, <1>3, <1>5, TrapStep, ToTrapShut DEF Shut
<1> QED
  BY <1>6, <1>7

LEMMA TrapOpens ==
  ASSUME Inv, ToServ, ToTrap, OpenRead("trap") \/ OpenWrite("trap") \/ ConnectDone("trap")
  PROVE  ToServ' /\ ToTrap'
<1> USE SideFacts
<1>0. Typed
  BY DEF Inv
<1>1. Continue("trap") \/ User("trap")
  BY DEF Continue
<1>2. msgs' = msgs
  BY DEF OpenRead, OpenWrite, ConnectDone
<1>3. \A t \in Sides : Stream(t)' = Stream(t)
  BY <1>1, <1>2, TrapStep, StreamKept
<1>4. Stream("serv") \in Seq(Message) /\ heard["serv"].conn \in Nat
  BY <1>0, Counted, StreamTyped
<1>5. CASE OpenRead("trap")
  <2>1. /\ ReadPipe("trap") = "listening" /\ ReadPipe("trap")' = "open"
        /\ WritePipe("trap")' = WritePipe("trap") /\ pc["trap"] = "opening_read" /\ pc'["trap"] = "opening_write"
        /\ nsent' = nsent
    BY <1>0, <1>5, OpenReadIs DEF WriteKept, OpenRead, At, Typed
  <2>2. WritePipe("trap") # "open"
    BY <2>1 DEF Inv, Programs
  <2>3. ToServ'
    BY <1>1, <1>3, <2>1, <2>2, TrapStep, ToServKept
  <2>4. ~Sends' /\ Stream("trap")' = <<>> /\ ~Answering'
    BY <1>1, <1>3, <2>1, <2>2, TrapStep DEF Sends, ToTrap, Awaits
  <2>5. ToTrap'
    BY <2>1, <2>4 DEF ToTrap, Awaits
  <2> QED
    BY <2>3, <2>5
<1>6. CASE OpenWrite("trap")
  <2>1. /\ WritePipe("trap") = "listening" /\ WritePipe("trap")' = "open"
        /\ ReadPipe("trap")' = ReadPipe("trap") /\ pc["trap"] = "opening_write" /\ pc'["trap"] = "connect_done"
        /\ nsent' = nsent
    BY <1>0, <1>6, OpenWriteIs DEF ReadKept, OpenWrite, At, Typed
  <2>2. Fresh("serv") => Stream("serv") = <<>>
    BY <2>1 DEF ToServ, Delivers, Begins
  <2>3. ToServ'
    BY <1>1, <1>3, <2>1, TrapStep DEF ToServ, Delivers
  <2>4. Sends' => NoAsk(Stream("serv")', Len(Stream("serv")'))
    <3>1. NoAsk(<<>>, Len(<<>>))
      BY DEF NoAsk
    <3> QED
      BY <1>1, <1>3, <2>2, <3>1, TrapStep DEF Sends
  <2>5. ToTrap'
    BY <1>1, <1>3, <2>1, <2>4, TrapStep DEF ToTrap, Awaits
  <2> QED
    BY <2>3, <2>5
<1>7. CASE ConnectDone("trap")
  <2>1. /\ WritePipe("trap")' = WritePipe("trap") /\ ReadPipe("trap")' = ReadPipe("trap")
        /\ pc["trap"] = "connect_done" /\ pc'["trap"] = "ready" /\ nsent' = 0
    BY <1>0, <1>7, OthersKeep DEF AllKept, ReadKept, WriteKept, ConnectDone, At, Typed
  <2>2. ToServ'
    BY <1>1, <1>3, <2>1, TrapStep DEF ToServ, Delivers, Begins, LastIs
  <2>3. Sends' <=> Sends
    BY <1>1, <2>1, TrapStep DEF Sends
  <2>4. ToTrap'
    BY <1>1, <1>3, <2>1, <2>3, TrapStep DEF ToTrap, Awaits
  <2> QED
    BY <2>2, <2>4
<1> QED
  BY <1>5, <1>6, <1>7


LEMMA TrapStream ==
  ASSUME Typed, NextPacket.conn \in 1..MaxConnects, NextPacket.no \in 1..(MaxSends + 1), NEW parts \in Parted,
         NEW req \in {"ask", "tell", "bye"}, RemotePut("trap", NextPacket, req, parts), relay' = relay
  PROVE  /\ WritePipe("trap") = "open" => Stream("serv")' = Stream("serv") \o Parts(NextPacket, req, parts)
         /\ WritePipe("trap") # "open" => Stream("serv")' = Stream("serv")
         /\ Stream("trap")' = Stream("trap")
<1>1. req \in {"ask", "tell", "bye", "answer"}
  OBVIOUS
<1>2. "trap" \in Sides /\ Other("trap") = "serv"
  BY SideFacts
<1>3. PICK k : k = NextPacket
  OBVIOUS
<1>4. RemotePut("trap", k, req, parts) /\ k.conn \in 1..MaxConnects /\ k.no \in 1..(MaxSends + 1)
  BY <1>3
<1>5. /\ Stream(Other("trap"))' = IF WritePipe("trap") = "open" THEN Stream(Other("trap")) \o Parts(k, req, parts)
                                  ELSE Stream(Other("trap"))
      /\ Stream("trap")' = Stream("trap")
  BY <1>1, <1>2, <1>4, StreamPut
<1> QED
  BY <1>2, <1>3, <1>5

LEMMA TrapPuts ==
  ASSUME Inv, ToServ, ToTrap, NEW parts \in Parted, NEW req \in {"ask", "tell", "bye"},
         RemotePut("trap", NextPacket, req, parts), req = "ask" => parts = <<"whole">>,
         pc["trap"] = "ready", nsent' = nsent + 1, nsent <= MaxSends, AllKept,
         Continue("trap") \/ User("trap"),
         pc'["trap"] = IF req = "bye" THEN "disco" ELSE IF WritePipe("trap") # "open" THEN "failed"
                       ELSE IF req = "ask" THEN "get" ELSE "ready"
  PROVE  ToServ' /\ ToTrap'
<1> USE SideFacts
<1>0. Typed
  BY DEF Inv
<1>1. NextPacket.conn \in 1..MaxConnects /\ NextPacket.no \in 1..(MaxSends + 1)
  <2>1. conns >= 1
    BY DEF Inv, Numbers
  <2> QED
    BY <1>0, <2>1, NmpConstants DEF NextPacket, Typed
<1> DEFINE ms == Parts(NextPacket, req, parts)
<1>2. /\ ms \in Seq(Message) /\ Put(ms, conns, nsent + 1)
      /\ req # "ask" => NoAsk(ms, Len(ms))
      /\ req = "ask" => Len(ms) = 1
  <2>1. PICK k : k = NextPacket
    OBVIOUS
  <2>2. /\ Parts(k, req, parts) \in Seq(Message) /\ Put(Parts(k, req, parts), k.conn, k.no)
        /\ req # "ask" => NoAsk(Parts(k, req, parts), Len(Parts(k, req, parts)))
        /\ parts = <<"whole">> => Len(Parts(k, req, parts)) = 1
    BY <1>1, <2>1, PartsAre
  <2>3. k.conn = conns /\ k.no = nsent + 1
    BY <2>1 DEF NextPacket
  <2> QED
    BY <2>1, <2>2, <2>3
<1>3. /\ WritePipe("trap") = "open" => Stream("serv")' = Stream("serv") \o ms
      /\ WritePipe("trap") # "open" => Stream("serv")' = Stream("serv")
      /\ Stream("trap")' = Stream("trap")
  <2>1. relay' = relay
    BY TrapStep
  <2> QED
    BY <1>0, <1>1, <2>1, TrapStream
<1> HIDE DEF ms
<1>4. /\ ReadPipe("trap")' = ReadPipe("trap") /\ WritePipe("trap")' = WritePipe("trap")
      /\ pc'["trap"] # "connect_done" /\ (Sends' <=> Sends)
  BY TrapStep DEF AllKept, ReadKept, WriteKept, Sends
<1>5. CASE WritePipe("trap") # "open"
  <2>1. ToServ'
    BY <1>3, <1>4, <1>5, TrapStep DEF ToServ, Delivers, Begins
  <2>2. ~Sends /\ pc'["trap"] \notin {"get", "get_length"}
    BY <1>5 DEF Sends
  <2>3. ToTrap'
    BY <1>3, <1>4, <2>2, TrapStep DEF ToTrap, Awaits
  <2> QED
    BY <2>1, <2>3
<1>6. CASE WritePipe("trap") = "open"
  <2>1. PICK w, h, c, n, pt : w = Stream("serv") /\ h = heard["serv"] /\ c = conns /\ n = nsent /\ pt = pc'["trap"]
    OBVIOUS
  <2>2. h \in Packets /\ c \in Nat /\ n \in Nat /\ w \in Seq(Message)
    BY <1>0, <2>1, Counted, StreamTyped
  <2>3. PICK due \in {"length", "packet"} : due = Due
    BY DEF Due
  <2>4. /\ Stream("serv")' = w \o ms /\ heard'["serv"] = h /\ conns' = c /\ WritePipe("trap")' = "open"
        /\ pc'["trap"] = pt /\ nsent' = n + 1 /\ Due' = due /\ (Fresh("serv")' <=> Fresh("serv"))
    BY <1>3, <1>4, <1>6, <2>1, <2>3, TrapStep
  <2>5. pt # "connect_done"
    BY <2>1
  <2>6. ASSUME Fresh("serv") PROVE ToServ'
    <3>1. Delivers(w, h, due, c, TRUE, "open", "ready", n)
      BY <1>6, <2>1, <2>3, <2>6 DEF ToServ, Delivers
    <3>2. InTurn(w, h, due, c) /\ LastIs(w, h, c, n) /\ h.conn <= c
      BY <3>1 DEF Delivers
    <3>3. ms \in Seq(Message) /\ Put(ms, c, n + 1)
      BY <1>2, <2>1
    <3>4. InTurn(w \o ms, h, due, c) /\ LastIs(w \o ms, h, c, n + 1)
      BY <2>2, <3>2, <3>3, PutIs
    <3>5. Delivers(w \o ms, h, due, c, TRUE, "open", pt, n + 1)
      BY <2>5, <3>2, <3>4 DEF Delivers
    <3> QED
      BY <2>4, <2>6, <3>5, ToServBy
  <2>7. ASSUME ~Fresh("serv") PROVE ToServ'
    <3>1. h.conn <= c
      BY <2>1 DEF ToServ, Delivers
    <3> QED
      BY <2>4, <2>7, <3>1 DEF ToServ, Delivers
  <2>8. ToServ'
    BY <2>6, <2>7
  <2>9. ToTrap'
    <3>1. CASE ReadPipe("trap") # "open"
      BY <1>3, <1>4, <3>1, TrapStep, ToTrapShut
    <3>2. CASE ReadPipe("trap") = "open"
      <4>1. /\ Stream("trap") = <<>> /\ ~Answering
            /\ Sends => NoAsk(w, Len(w))
        BY <2>1, <3>2 DEF ToTrap, Awaits
      <4>2. CASE req = "ask"
        <5>1. pc'["trap"] = "get"
          BY <1>6, <4>2
        <5>2. NoAsk(w, Len(w)) => NoAsk(w \o ms, Len(w \o ms) - 1)
          BY <1>2, <2>2, <4>2, NoAskPutOne
        <5>3. Stream("serv")' = w \o ms
          BY <1>3, <1>6, <2>1
        <5> QED
          BY <1>3, <1>4, <4>1, <5>1, <5>2, <5>3, TrapStep DEF ToTrap, Awaits
      <4>3. CASE req # "ask"
        <5>1. pc'["trap"] \notin {"get", "get_length"}
          BY <1>6, <4>3
        <5>2. NoAsk(w, Len(w)) => NoAsk(w \o ms, Len(w \o ms))
          BY <1>2, <2>2, <4>3, NoAskPut
        <5>3. Stream("serv")' = w \o ms
          BY <1>3, <1>6, <2>1
        <5> QED
          BY <1>3, <1>4, <4>1, <5>1, <5>2, <5>3, TrapStep DEF ToTrap, Awaits
      <4> QED
        BY <4>2, <4>3
    <3> QED
      BY <3>1, <3>2
  <2> QED
    BY <2>8, <2>9
<1> QED
  BY <1>5, <1>6

LEMMA TrapReads ==
  ASSUME Inv, ToServ, ToTrap,
         Get("trap") \/ GetByte("trap") \/ (GetLengthTrap /\ Readable("trap") /\ Read("trap"))
  PROVE  /\ ToServ' /\ ToTrap'
         /\ Get("trap") \/ GetByte("trap") => heard'["trap"] = [conn |-> conns, no |-> nsent]
<1> USE SideFacts
<1>0. Typed
  BY DEF Inv
<1>1. Continue("trap") \/ User("trap")
  BY DEF Continue
<1>2. Readable("trap") /\ Read("trap") /\ AllKept /\ nsent' = nsent
  BY OthersKeep DEF Get, GetByte, GetLengthTrap
<1>3. /\ Stream("trap") # <<>> /\ Next1("trap") = Stream("trap")[1] /\ Stream("trap")' = Tail(Stream("trap"))
      /\ Stream("serv")' = Stream("serv") /\ Stream("trap") \in Seq(Message)
  BY <1>0, <1>1, <1>2, TrapStep, StreamRead, StreamTyped
<1>4. /\ ReadPipe("trap") = "open" /\ ReadPipe("trap")' = "open" /\ WritePipe("trap")' = WritePipe("trap")
      /\ (Sends' <=> Sends)
  BY <1>1, <1>2, TrapStep DEF Readable, ReadPipe, AllKept, ReadKept, WriteKept, Sends
<1>5. pc["trap"] \in {"get", "get_length"} /\ pc'["trap"] \in {"ready", "get_length", "failed"}
  BY <1>0 DEF Get, GetByte, GetLengthTrap, At, Typed
<1>6. ToServ'
  BY <1>1, <1>2, <1>3, <1>4, <1>5, TrapStep, ToServKept
<1>7. PICK v, c, n : v = Stream("trap") /\ c = conns /\ n = nsent
  OBVIOUS
<1>8. v \in Seq(Message) /\ v # <<>> /\ Len(Tail(v)) = Len(v) - 1 /\ Len(v) \in Nat
  BY <1>3, <1>7, TailTyped
<1>9. ~Answering /\ (Sends => NoAsk(Stream("serv"), Len(Stream("serv"))))
  BY <1>3, <1>4, <1>5 DEF ToTrap, Awaits
<1>10. ASSUME Tail(v) = <<>>, pc'["trap"] \in {"ready", "failed"} PROVE ToTrap'
  BY <1>1, <1>3, <1>4, <1>7, <1>9, <1>10, TrapStep DEF ToTrap, Awaits
<1>11. CASE pc["trap"] = "get_length"
  <2>1. Len(v) = 1 /\ GetLengthTrap
    BY <1>4, <1>7, <1>11 DEF ToTrap, Awaits, Get, GetByte, At
  <2>2. Tail(v) = <<>> /\ pc'["trap"] \in {"ready", "failed"}
    <3>1. pc'["trap"] \in {"ready", "failed"}
      BY <1>0, <2>1 DEF GetLengthTrap, At, Typed
    <3>2. Tail(v) = <<>>
      BY <1>8, <2>1, TailFew
    <3> QED
      BY <3>1, <3>2
  <2>3. ~Get("trap") /\ ~GetByte("trap")
    BY <1>11 DEF Get, GetByte, At
  <2> QED
    BY <1>6, <1>10, <2>2, <2>3
<1>12. CASE pc["trap"] = "get"
  <2>1. Replies(v, c, n) /\ (Get("trap") \/ GetByte("trap"))
    BY <1>3, <1>4, <1>7, <1>12 DEF ToTrap, Awaits, GetLengthTrap, At
  <2>2. /\ v[1].conn = c /\ v[1].no = n /\ Next1("trap") = v[1]
        /\ \/ v[1].part = "whole" /\ Len(v) = 1
           \/ v[1].part = "byte" /\ Len(v) = 2 /\ Reply(v[2], c, n, "len")
    BY <1>3, <1>7, <2>1 DEF Replies, Reply
  <2>3. Named(v[1]) = [conn |-> c, no |-> n]
    BY <2>2 DEF Named
  <2>4. CASE v[1].part = "whole"
    <3>1. Get("trap") /\ Len(v) = 1
      BY <2>1, <2>2, <2>4 DEF GetByte
    <3>2. Tail(v) = <<>> /\ pc'["trap"] = "ready" /\ heard'["trap"] = [conn |-> c, no |-> n]
      <4>1. Tail(v) = <<>>
        BY <1>8, <3>1, TailFew
      <4>2. pc'["trap"] = "ready" /\ heard'["trap"] = [conn |-> c, no |-> n]
        BY <1>0, <2>2, <2>3, <2>4, <3>1 DEF Get, At, Typed
      <4> QED
        BY <4>1, <4>2
    <3> QED
      BY <1>6, <1>7, <1>10, <3>2
  <2>5. CASE v[1].part = "byte"
    <3>1. GetByte("trap") /\ Len(v) = 2 /\ Reply(v[2], c, n, "len")
      BY <2>1, <2>2, <2>5 DEF Get
    <3>2. pc'["trap"] = "get_length" /\ heard'["trap"] = [conn |-> c, no |-> n]
      BY <1>0, <2>2, <2>3, <3>1 DEF GetByte, At, Typed
    <3>3. Len(Tail(v)) = 1 /\ Tail(v)[1] = v[2]
      BY <1>8, <3>1, TailFew
    <3>4. ToTrap'
      BY <1>1, <1>2, <1>3, <1>4, <1>7, <1>9, <3>1, <3>2, <3>3, TrapStep DEF ToTrap, Awaits
    <3> QED
      BY <1>6, <1>7, <3>2, <3>4
  <2> QED
    BY <2>2, <2>4, <2>5
<1> QED
  BY <1>5, <1>11, <1>12

LEMMA OrderTrap ==
  ASSUME Inv, ToServ, ToTrap, Continue("trap") \/ User("trap")
  PROVE  ToServ' /\ ToTrap'
<1> USE SideFacts
<1>0. Typed
  BY DEF Inv
<1>1. ASSUME NEW req \in {"ask", "tell"}, Request(req) PROVE ToServ' /\ ToTrap'
  <2>1. /\ RemotePut("trap", NextPacket, req, <<"whole">>) /\ <<"whole">> \in Parted
        /\ pc["trap"] = "ready" /\ nsent' = nsent + 1 /\ nsent <= MaxSends /\ AllKept
    <3>1. AllKept
      BY <1>1, OthersKeep
    <3>2. nsent <= MaxSends
      BY <1>0, <1>1, NmpConstants DEF Request, Typed
    <3> QED
      BY <1>1, <3>1, <3>2 DEF Request, At, Parted
  <2>2. pc'["trap"] = IF WritePipe("trap") # "open" THEN "failed" ELSE IF req = "ask" THEN "get" ELSE "ready"
    BY <1>0, <1>1 DEF Request, At, Typed, WritePipe
  <2> QED
    BY <2>1, <2>2, TrapPuts
<1>2. CASE Bye
  <2>1. /\ RemotePut("trap", NextPacket, "bye", <<"byte", "len">>) /\ <<"byte", "len">> \in Parted
        /\ pc["trap"] = "ready" /\ nsent' = nsent + 1 /\ AllKept /\ pc'["trap"] = "disco"
    BY <1>0, <1>2, OthersKeep DEF Bye, At, Parted, Typed
  <2>2. nsent <= MaxSends
    BY <2>1 DEF Inv, Numbers
  <2> QED
    BY <2>1, <2>2, TrapPuts
<1>3. CASE GetLengthTrap
  <2>1. (Broken("trap") /\ UNCHANGED msgs) \/ (Readable("trap") /\ Read("trap"))
    BY <1>3 DEF GetLengthTrap
  <2> QED
    BY <1>3, <2>1, TrapPlain, TrapReads
<1> QED
  BY <1>1, <1>2, <1>3, TrapPlain, TrapOpens, TrapReads DEF Continue, User


-----------------------------------------------------------------------------
(* The theorem *)

LEMMA InOrderInit ==
  ASSUME Init
  PROVE  InOrder
<1> USE SideFacts
<1>1. \A s \in Sides : ConnPipe(s) = "none" /\ ReadPipe(s) = "none" /\ WritePipe(s) = "none"
  BY PipeFacts DEF Init, ConnPipe, ReadPipe, WritePipe
<1>2. /\ \A s \in Sides : pc[s] = "out" /\ box[s] = "empty" /\ relay[<<s, 1>>].at = "none"
      /\ heard["serv"].conn = 0 /\ conns = 0
  BY RelayFacts DEF Init, Idle, NoPacket
<1>3. Asking
  BY <1>1, <1>2 DEF Asking
<1>4. Ends
  BY <1>1, <1>2 DEF Ends, EndsOf, Active, Up
<1>5. ToServ
  BY <1>1, <1>2 DEF ToServ, Delivers, Fresh
<1>6. ToTrap
  BY <1>1 DEF ToTrap, Awaits
<1> QED
  BY <1>3, <1>4, <1>5, <1>6 DEF InOrder

LEMMA InOrderNext ==
  ASSUME Inv, InOrder, [Next]_vars
  PROVE  InOrder'
<1>1. Asking' /\ Ends'
  BY AskingNext, EndsNext DEF InOrder
<1>2. ToServ' /\ ToTrap'
  <2>1. ASSUME NEW s \in Sides, Continue(s) \/ User(s) PROVE ToServ' /\ ToTrap'
    <3>1. s = "serv" \/ s = "trap"
      BY SideFacts
    <3> QED
      BY <2>1, <3>1, OrderServ, OrderTrap DEF InOrder
  <2>2. ASSUME NEW s \in Sides, ConnectThread(s) PROVE ToServ' /\ ToTrap'
    BY <2>2, OrderThread DEF InOrder
  <2>3. CASE Main \/ UNCHANGED vars
    BY <2>3, OrderMain DEF InOrder
  <2>4. ASSUME NEW r \in Relays, JoinPipeThread(r) PROVE ToServ' /\ ToTrap'
    BY <2>4, OrderRelay DEF InOrder
  <2> QED
    BY <2>1, <2>2, <2>3, <2>4 DEF Next
<1> QED
  BY <1>1, <1>2 DEF InOrder

\* What a step lets the two sides hear.
HeardRight ==
  /\ heard'["serv"] # heard["serv"] =>
       IF heard'["serv"].conn = heard["serv"].conn THEN heard'["serv"].no = heard["serv"].no + 1
       ELSE heard'["serv"].conn > heard["serv"].conn /\ heard'["serv"].no = 1
  /\ heard'["trap"] # heard["trap"] => heard'["trap"] = [conn |-> conns, no |-> nsent]

\* Only a RemoteGet changes what its own side heard.
LEMMA HeardBy ==
  ASSUME Typed, NEW s \in Sides, Continue(s) \/ User(s)
  PROVE  /\ heard'[Other(s)] = heard[Other(s)]
         /\ Get(s) \/ GetByte(s) \/ heard'[s] = heard[s]
<1>1. CASE Get(s) \/ GetByte(s)
  <2>1. \E k : heard' = [heard EXCEPT ![s] = k]
    BY <1>1 DEF Get, GetByte
  <2> QED
    BY <1>1, <2>1, SideFacts DEF Typed
<1>2. CASE ~Get(s) /\ ~GetByte(s)
  <2>1. heard' = heard
    BY <1>2 DEF Continue, User, RemoteLink, LinkAnswered, OpenConn, RemoteConnect, ConnectAnswered, OpenRead,
         OpenWrite, ConnectDone, GetFailed, GetLengthTrap, GetLengthServ, Answer, Disconnected, RemoteUnLink,
         Exit, Bye, Request
  <2> QED
    BY <2>1
<1> QED
  BY <1>1, <1>2

LEMMA HeardNext ==
  ASSUME Inv, InOrder, [Next]_vars
  PROVE  HeardRight
<1>1. Typed /\ Ends /\ ToServ /\ ToTrap
  BY DEF Inv, InOrder
<1>2. ASSUME Continue("serv") \/ User("serv") PROVE HeardRight
  <2>1. heard'["trap"] = heard["trap"] /\ (Get("serv") \/ GetByte("serv") \/ heard'["serv"] = heard["serv"])
    BY <1>1, <1>2, HeardBy, SideFacts
  <2>2. Get("serv") \/ GetByte("serv") => pc["serv"] = "get"
    BY DEF Get, GetByte, At
  <2> QED
    BY <1>1, <2>1, <2>2, ServReads DEF HeardRight
<1>3. ASSUME Continue("trap") \/ User("trap") PROVE HeardRight
  <2>1. heard'["serv"] = heard["serv"] /\ (Get("trap") \/ GetByte("trap") \/ heard'["trap"] = heard["trap"])
    BY <1>1, <1>3, HeardBy, SideFacts
  <2> QED
    BY <1>1, <2>1, TrapReads DEF HeardRight
<1>4. CASE \/ Main
           \/ \E s \in Sides : ConnectThread(s)
           \/ \E r \in Relays : JoinPipeThread(r)
  BY <1>4, BrokerSide DEF HeardRight
<1>5. CASE UNCHANGED vars
  BY <1>5 DEF vars, programVars, HeardRight
<1> QED
  BY <1>2, <1>3, <1>4, <1>5, SideFacts DEF Next

\* RemoteGet (nmplink.c) returns the packets of a connection complete and in
\* the order they were put, never one of an earlier connection, and a response
\* only to the request that waits for it, for any number of programs,
\* connections and packets and room in the pipes, and wherever a program dies,
\* quits or is late, if no thread of the broker is preempted inside a request.
THEOREM RightOrderHolds == Spec /\ "threads" \notin env => RightOrder
<1>1. Init /\ "threads" \notin env => Inv /\ InOrder
  BY InvInit, InOrderInit
<1>2. Inv /\ InOrder /\ [Next]_vars => Inv' /\ InOrder'
  <2>1. ASSUME Inv, [Next]_vars PROVE Inv'
    BY <2>1, NumbersNext, ProgramsNext, TurnsNext, ThreadsNext, PairsNext DEF Inv
  <2> QED
    BY <2>1, InOrderNext
<1>3. Inv /\ InOrder /\ [Next]_vars => [HeardRight]_vars
  BY HeardNext
<1> QED
  BY <1>1, <1>2, <1>3, PTL DEF Spec, RightOrder, HeardRight
=============================================================================

# Open Watcom: the debugger's links and the C run-time library, specified

Open Watcom's debugger can run on one machine (the *client*: a "trap file"
loaded into the debugger) and the program being debugged on another (under a
debug *server*).  `bld/trap` holds the requests they exchange and one
implementation of the same six functions (`RemoteLink`, `RemoteConnect`,
`RemoteGet`, `RemotePut`, `RemoteDisco`, `RemoteUnLink`) for every medium:
serial line, parallel port, named pipes, TCP, NetBIOS, IPX and the pipes of a
virtual DOS machine.  `bld/wv/doc/link.doc` is their contract.

The C run-time library (`bld/clib`) is linked into every program the compilers
make, the multi-thread version into programs whose threads call it at any
moment.  Its semaphores, its near heap and its streams are the shared state
those threads meet in.

Most of the rest of the repository (compilers, linker, editors, GUI tools) is
sequential text processing whose correctness is a matter of data.  This project
specifies the two parts in which several programs or threads act concurrently:
the links, over media that lose, delay and damage what is sent, and the core of
the run-time library.

## 1. Inventory

| part | code (under `src/bld/trap` unless said) | state | operations | what is hard |
|---|---|---|---|---|
| Serial link, block protocol | `ser/c/serlink.c` (376-585, 933-976) | `SendBlkNo`, `ReceiveBlkNo`, `LastResponse`, `Errors`, `PrevErrors`, bytes on the line | `BlockSend`, `BlockReceive`, `WaitReceive`, `RemoteGet`, `RemotePut` | loss, damage, stray bytes, time-outs racing answers, block numbers wrapping, both sides waiting |
| Serial link, baud rate | `ser/c/serlink.c` (62-300, 593-602, 859-914) | `BaudCounter`, `MaxBaud`, clocks | `RemoteConnect`, `Speed`, `SetBaud`, `ReSync` | two sides that must try the same rate at the same time with no common clock |
| Parallel link (data transfer; connection) | `par/c/parlink.c` | three ports, `CableType`, `TwidleCount`, `TwidleOn` | `DataGet`, `DataPut`, `RemoteGet`, `RemotePut`; `Twidle`, `CountTwidle`, `Synch`, `LineTest` | four-phase handshake on wires that double as data; detecting a cable and a peer by pulses |
| Session | `common/remote.c`, `common/servacc.c`, `common/serv.c`, `common/packet.c` | packet buffer, nesting of `Session()` | `DoRequest`, `ReqRemoteConnect/Disco/Resume`, `Session`, `AccTrap`, `AccConnect`, `main` | request and response in step across connect, suspend, resume and disconnect |
| Named pipes | `nmp/c/nmpbind.c`, `nmp/c/nmplink.c` | the broker's list of links; per side `present`, `connect_started`, `connected`, three handles | `ProcessRequest`, `ConnectThread`, `JoinPipeThread`; the six functions in the programs | three kinds of threads share a link without a lock; handles reused by the next connection; only sleeps put events in order |
| VDM pipes | `vdm/c/*.c` | one pipe | the six functions | `RemoteDisco` waits for the server to close first |
| TCP | `tcp/c/tcplink.c` | listening and data socket | the six functions | partial reads, a peer that is gone |
| NetBIOS, IPX/SPX, Windows | `net/c`, `nov/c`, `win/c` | sessions and event blocks | the six functions | asynchronous completion |
| Local debug back ends | `lcl/**` | the debugged process | the trap requests | operating-system interfaces |
| Semaphores | `bld/clib/mthread/c/mthread.c` | per semaphore `owner`, `count`, `initialized` and its system mutex | `__AccessSemaphore`, `__ReleaseSemaphore` | owner and initialized flag read with no lock; a mutex made by whoever needs it first; one semaphore taken inside the call for another |
| Near heap | `bld/clib/heap/c` | mini-heaps, blocks, free lists, rovers, cached sizes | `_nmalloc`, `_nfree`, `_nexpand`, `_nrealloc`, `_nheapshrink` | five functions keep caches that let a search skip memory; memory given back while pointers remain |
| Streams | `bld/clib/streamio/c` | lists of open and closed streams, flags, buffers, handles | `fopen`, `fputc`, `fclose`, `flushall` | two levels of semaphores, streams sharing them by a hash of the handle; flags read with none held |
| Trap loader, servers' user interface | `bld/dig/c`, `common/wserver.c`, `common/servcmd.c` | - | loading, command lines, windows | - |

How they interact: the debugger calls `TrapRequest` (`remote.c`), which packs
the request into the packet buffer, calls the link's `RemotePut` and, if the
request has a response, `RemoteGet`.  The server's `Session` loop calls
`RemoteGet`, performs the request with the local back end and, unless bit 7 of
the request says that nobody waits, calls `RemotePut`.  Both sides are
single-threaded; everything between the two calls is the link's.

What makes a link correct: packets arrive complete, in the order sent and
exactly once; a response answers the request that waits for it; the calls end;
the two sides never wait for each other; a connection that ends or fails
leaves both sides able to make the next one.

In the run-time library every function of the heap runs under one semaphore
and every stream function under that of its stream's handle; both are objects
of `mthread.c`.  What makes it correct: a semaphore is a recursive lock whoever
makes it first; memory is always blocks laid end to end and what is free can be
found; every character written arrives once and in order, whoever flushes;
every call returns.

## 2. Modules

| module | what | extends / composes |
|---|---|---|
| `PacketLink` | the contract, abstractly: numbered packets between two programs, delivered in order, at most once, and (unless `Lossy`) each before its sender sends the next | - |
| `SerLink` | the serial block protocol with the two hosts' use of it | implements `PacketLink` |
| `SerLinkProofs` | theorems about `SerLink`: any faults; at most one, to prompt hosts | `SerLink`, TLAPS |
| `ParLink`, `MCParLink` | the parallel port's handshake, access by access, and packets over it; the packets TLC uses | implements `PacketLink` |
| `ParLinkProofs` | theorems about `ParLink` | `ParLink`, TLAPS |
| `TcpLink` | sockets as the TCP link uses them: operators, no behaviour of its own | - |
| `Session` | debuggers and the debug server, end to end | extends `TcpLink` |
| `SessionProofs` | theorems about `Session`: any clients; clients that say goodbye | `Session`, TLAPS |
| `ParConnect` | how the two ends of a parallel cable find each other, up to where `ParLink` starts | instantiates `ParLink` |
| `ParConnectProofs` | theorems about `ParConnect`: any cable, dead line, pulses and attempts | `ParConnect`, TLAPS |
| `NmpBind` | the named-pipe link: two programs, the broker's threads and the pipes | - |
| `NmpBindProofs` | theorems about `NmpBind`: its threads and pipes; the packets | `NmpBind`, TLAPS |
| `RecLock` | what a semaphore promises: a lock its holder may take again | - |
| `Sema`, `MCSema` | the semaphores of the run-time library, one access to shared memory at a time; the semaphores TLC uses | implements `RecLock` |
| `SemaProofs` | theorems about `Sema` | `Sema`, TLAPS |
| `Streams` | the streams of the run-time library | uses the semaphores of `RecLock` |
| `StreamsProofs` | theorems about `Streams` | `Streams`, TLAPS |
| `Heap`, `MCHeap` | the near heap; the bounds of its run | - |
| `HeapProofs` | theorems about `Heap` | `Heap`, TLAPS |

In every module a definition `XxxYyy` that stands before `Xxx` and that nothing
uses is a variant of `Xxx` with a plausible mistake; replacing `Xxx` by it
makes TLC find the property violated that is meant to notice
(`PROJECT.json`, "mutants").

### 2.1 SerLink

The state is that of `serlink.c` for each side (`SendBlkNo`, `ReceiveBlkNo`,
`LastResponse`, `Errors`, `PrevErrors`; `waits` stands for `WaitCount`), a
`wire` each way and the place each side is in (`pc`):

| `pc` | code |
|---|---|
| `app`, `exec` | the debugger between requests; the server performing one |
| `ack` | `BlockSend`, waiting for a reply (435) |
| `drain` | `BlockSend`, "totally messed up" (455) |
| `recv` | `WaitReceive` (574) |
| `resyncPut`, `resyncGet` | `ReSync`, called by `RemotePut` or `RemoteGet` |
| `stopped` | the debugger after `REQUEST_FAILED` |

Each branch of the two loops is an action (`AckRead`, `NakRead`, `RlrRead`,
`MessRead`, `AckTimeOut`, `GiveUp`; `RecvBlock`, `RecvOther`, `RecvDamaged`,
`RecvRlr`, `RecvSkip`).  A wire carries whole items - blocks, control bytes,
damaged blocks, stray bytes - not bytes: nothing in the protocol depends on
what the bytes of a good block are, and what noise makes of an item is a
choice among being lost, a block with a bad CRC and bytes that start with no
control byte.  `ClearCom` may leave any of the items that had not arrived,
which includes leaving all of them (on NT it discards nothing that was
received, `sernt.c:232`).

`Adverse` says what the environment may do: `{}` is a host that is always at
its call in time and a line without delay, so a `WaitByte` times out only when
nothing is on its way; `"busy"` lets a host be slower than its peer's time-out;
`"line"` lets a time-out happen at any moment; `"rubbish"` lets stray bytes
read as ACK, NAK or RLR.

The model starts after `RemoteConnect`, whose first exchange leaves both
counters at 1 and both last responses at ACK.  `ReSync` is what the two calls
see of it: both sides must be in it for either to leave, and a side alone in
it eats what arrives.  The rate negotiation inside is not modelled (section 6).

### 2.2 ParLink

A cable has a data port and a control line 1 each way; the lines do double
duty.  On the WATCOM cable the eight data bits and both handshake lines share
the data port and pin 17, on the LapLink cable line 1 is bit 4 of the data
port, on the "Flying Dutchman" it is a line of its own.  Line 2 (`Ctl2`) is bit
3 of the data port on all three, so the bits of a byte can look like a raised
line.

| variable | code |
|---|---|
| `data[n]`, `ctl1[n]` | what n's last writes left on the port (`OutData`: 357-407) |
| `pc[n]` | the port access n makes next in `DataGet` (420-515) or `DataPut` (518-588) |
| `todo[n]`, `have[n]` | units (bytes, or halves) still to write, and read so far |
| `sent[n]`, `got[n]` | what went into `RemotePut` and came out of `RemoteGet` |

One action per access: `RaiseCtl2`, `SeeCtl1Hi`, `Read`, `LowerCtl2`,
`SeeCtl1Lo` on the reading side; `SeeCtl2Hi`, `Write`, `RaiseCtl1`,
`SeeCtl2Lo`, `LowerCtl1` on the writing side; `Answer`, `Request` are the
hosts.  `Header` is the one- or two-byte length of `RemotePut`.  `Nib` is the
number of values of half a byte: TLC uses 4, which keeps everything that depends
on where bit 3 and bit 7 are; the theorems hold for any, the code's 16 included.
`Handshake`, `Under`, `Over` and the rest up to `IInv` say where the two sides
can be; section 4 uses them.

### 2.3 TcpLink and Session

`TcpLink` has a connection as two mailboxes (`inbox[c][end]`), the ends that
have been closed (`gone`), whether it was torn down (`reset`), the listen queue
(`backlog`) and every host's `data_socket`.  Packets are whole.  With BSD
sockets that is what `recvData` sees to, by asking again.  On RDOS it is an
assumption: `recvData` there is one `recv` (`tcplink.c:172-179`, 238), and one
that found only a part of a packet would make `RemoteGet` return
`REQUEST_FAILED` with the rest still to come.

| `Session` | code |
|---|---|
| `cpc[h]`, `count[h]` | where client `h` is in `remote.c`, and the requests it has made |
| `spc`, `depth` | where the server is, and how many calls of `Session()` wait below it |
| `buff`, `want` | `PackBuff` (`packet.c:40`) and `want_return` |
| `key`, `OneShot` | a 'q' typed and not read; `/once` |
| `Poll`, `PollTimeOut`, `AcceptClient`, `NoKey`, `Quit` | `main`'s loop (`serv.c:118-132`) with the server's half of `RemoteConnect` |
| `GetPacket`, `GetPacketFails`, `Perform*`, `Refuse`, `NextClient`, `SessionEnded` | `Session()` (`servacc.c:102-157`), one action per case |
| `RemoteConnect` ... `PutResume` | the five cases of `TrapRequest` (`remote.c:163-193`) |

`PackBuff` keeps the last request when `GetPacket` fails, and `GetPacketFails`
performs it again, as the code does.  `recvData` on a connection closed in
order never returns; that is a server without a step.  What is typed during a
session is flushed (`SessionEnded`).  `vanishing` are the clients that may go
without a word; `Orderly` says there are none.

### 2.4 NmpBind

The programs never meet: each asks the broker's bindery for a connection pipe,
sends its requests there, and for every connection opens a read and a write
pipe.  The broker has a main thread (`bind`: the request it is at), a
`ConnectThread` per connection pipe (`ct`) and two `JoinPipeThread`s per
connection (`relay`), all on one `a_link` (`link`, `present`,
`connect_started`, `connected`).

| `NmpBind` | code |
|---|---|
| `RemoteLink`, `LinkAnswered`, `OpenConn` | `RemoteLink` (`nmplink.c:137`) |
| `RemoteConnect`, `ConnectAnswered`, `OpenRead`, `OpenWrite`, `ConnectDone` | `RemoteConnect` (181) |
| `Request`, `Bye`, `Answer` / `Get`, `GetByte`, `GetLength...`, `GetFailed` | `RemotePut` (213) / `RemoteGet` (194) and their callers |
| `Disconnected`, `RemoteUnLink`, `Exit` | `RemoteDisco` (235), `RemoteUnLink` (243), the end of a process |
| `FindLink`, `OpenServ`, `OpenTrap` | `ProcessRequest` (`nmpbind.c:284`) |
| `ConnectServ`, `ConnectTrap`, `EndConnect`+`Join`, `Disco`+`DiscoAck`, `ConnectionEnds`+`FreeLink` | the cases and the end of `ConnectThread` (190) |
| `JoinTest`, `JoinRead`, `JoinWrite`, `JoinEnd` | `JoinPipeThread` (146) |

A step ends where the code waits or reads what another thread writes.  A pipe
is `none`, `listening`, `open` or `closing`; it has one instance, so making one
that exists fails (and the code does not look), and `DoClose` discards what was
not read, as `DosDisConnectNmPipe` does.  The broker's answer to a request for
a connection pipe always arrives (`LinkAnswered`): that it might be lost, since
the broker disconnects right after `Ack` (`nmpbind.c:319`, 346-348), and a
program that reads nothing (`nmplink.c:89-93`) are left out.  `JoinPipeThread`s are time-critical
(line 163): no other thread of the broker runs while one can.

`env` is what the surroundings may do.  In `{}` the programs are in time, by
the broker's own sleeps: a debugger connects when the last connection is over
on both sides, disconnects when the server has read what it sent, and a
newcomer's request (500 ms) is looked at after a departure (100 ms).  `"busy"`
drops this; `"quit"` lets the server be stopped while a debugger is there;
`"die"` lets a program die anywhere; `"threads"` lets the broker's threads be
switched between any two steps of a request, not only where they wait.

### 2.5 ParConnect

`RemoteConnect` of both sides, up to the point where `ParLink` starts.  `data[n]`
and `ctl[n]` are the bytes last written to a side's ports, and what the other
side reads is computed from them through the cable (`Status`, `Control`), with
the macros of the cable each side *believes* it is on (`CableType`).  One line
may be dead.

| `pc[n]` | code |
|---|---|
| `poll` / `twidle`, `on`, `off` | the server's loop around `RemoteConnect` (`serv.c:121`) / `Twidle` (698): a pulse high and low |
| `lower`, `synch` | the lines go low (804), `Synch` (629) |
| `wait2` ... `lower1`, `raise2` ... `wait1lo` | `DataPut` and `DataGet` on the bytes of `LineTest` (739) |
| `failed`, `connected` | `RemoteConnect` has returned |

`CountTwidle` keeps its statics across attempts; `RemoteLink` is the debugger
started again.  Where `slow` holds any wait may run into its time limit; where
it does not, a tick comes when both sides have done what they can do without
waiting (`Idles`) and, while both pulse, the clocks tick in turn.
`LinkStarts` instantiates `ParLink` and says that its `Init` holds when both
sides are connected: the two models meet there.

### 2.6 Sema

One step is one access to what threads share: the test of `owner`, the test of
`initialized`, the creation of the mutex, entering it, setting `owner`,
counting, and back.  A call for a semaphore whose mutex does not exist contains
a call for `InitSemaphore`; `outer[t]` is the semaphore it will go on to.  A
mutex is one that cannot be entered twice (a POSIX semaphore of value 1).
`held[t]` is what the caller has taken, and `Under` says which semaphores
callers take while they hold others: `flushall` takes those of streams under
`IOBSemaphore` (`flushall.c:45`, 52), `__allocfp` that of the heap
(`allocfp.c:50`, 63).  The theorems hold for any `Under`.  Increments and
decrements of `count` are one step because only the holder makes them - which is
what `OneHolder` and `IInv` show.

### 2.7 Streams

A FILE is a number, a file is the sequence of threads that put a character to
it.  The semaphores are `RecLock`'s, which `Sema` implements; file semaphores
are shared by handles equal modulo `MaxSemaphore`.  `OpenHandle` gives `fopen`
any handle that is free.  `Flush` is one step, though `_AccessFile` reads the
handle before it waits for the semaphore: where `OneOwner` holds nobody changes
it meanwhile.  Only an `fopen` does, for a FILE it has from `__allocfp`; a stream
that `flushall` waits for is dirty, so no `fopen` has it yet, and none can get it
while `flushall` holds `IOBSemaphore`.
A write that fails or is short (`flush.c:71-81`) is left out.  A critical section that
only `IOBSemaphore` guards and that calls nothing is one step; `flushall` holds
it across its calls and is many.

| `Streams` | code |
|---|---|
| `AllocFp`, `OpenHandle`/`OpenFails`, `SetFlags` | `__allocfp`, `__doopen` |
| `Flush`, `WriteOut`, `Flushed` | `__flush`; `then[t]` is where its caller goes on |
| `Put`, `PutChar`, `PutEnd` | `fputc` |
| `Close`, `DoClose`, `LockToClose`, `CloseHandle`, `ClearFlags`, `Unlock`, `FreeFp` | `fclose`, `__doclose`, `__freefp` |
| `FlushAll`, `FlushNext`, `FlushAllEnd` | `__flushall` |

### 2.8 Heap

Memory is counted in tags; a block is its header at an address (`size`,
`used`), free blocks are linked (`next`, `prev`), a mini-heap is its descriptor
(`mh`).  At most one call is in progress, because all of them run under the
near-heap semaphore: `call` is its program counter and its locals, and a step
is one iteration of a loop or one sub-routine.  `_nrealloc` (`Resize`) is
several calls, between which other threads allocate and free.  `build` chooses
between the libraries that grow a heap by `sbrk` in slices (DOS, QNX, Linux) and
those that take pages from the system and give them back (NT, OS/2).

| `Heap` | code |
|---|---|
| `Malloc`, `TryMini`, `ScanOn`, `Carve`, `GiveUp` | `_nmalloc` and `__MemAllocator` |
| `Free`, `NFree`, `MemFree` | `_nfree`, `__MemFree` |
| `LookNear` (`Takes`, `Special`), `LookBehind`, `LookInList` | how `__MemFree` finds the block's place: a free block behind it; next to the rover or at an end of the list; the walk over blocks in use (`Skip`: how many before it gives up, by the counts); the list, from the rover or from its start (`Search`) |
| `LookAstray`, `Astray` | `_nfree` led by a rover that points at no mini-heap |
| `ExpandFits`, `ExpandCut`, `ExpandTake`, `ExpandFails` | `__HeapManager_expand` |
| `Resize`, `ResetSize`, `Return` | `_nrealloc`, `_nexpand` |
| `GrowSlices`, `CreateMini`, `ShrinkFirst`, `NoRoom` | `__ExpandDGROUP` |
| `HeapMin`, `ShrinkPages`, `ShrinkSlices` | `_nheapshrink` |
| `MoveBreak` | `__brk` called by other code of the program (`sbrklnx.c:43`) |

`MoveBreak` puts the break anywhere above the mini-heaps; after it the heap can
no longer grow in place, makes a second mini-heap (`grownear.c:537`) and may not
be able to shrink (`nheapmin.c:192`).  `sbrk` reads `_curbrk` before it has the
semaphore; that race is not modelled.  The order in which `_nfree` asks
mini-heaps whether they hold a block does not matter as long as all of them are
mini-heaps, and `MiniOf` is the answer; `LookAstray` is what happens when
`__MiniHeapFreeRover` is not.

## 3. Runs

| run | setting | shows |
|---|---|---|
| `ser_one_fault` | prompt hosts, one fault anywhere, 5 requests, block numbers modulo 3 | every call ends, everything is delivered exactly once and in order (`ImplementsExactLink`), also across the wrap |
| `ser_adverse` | slow hosts, late bytes, one fault, no wrap | nothing twice or out of order (`InOrderOnce`), responses match; the inductive invariant `IInv` |
| `par_session` | three cables, every interleaving of port accesses, packets of no to nine bytes (the two-byte length) | packets arrive as sent; a writer's data stand until they are read; pin 17 has one driver (`WiresOK`); every call ends |
| `par_connect` | three cables, any one dead line, slow and prompt machines, the debugger started twice | the debugger is connected last, the cable is known rightly and the ports are as `ParLink` starts (`HandedOver`); no session over a dead line (`LinesWork`); prompt machines connect at the first attempt (`Connects`) |
| `ses_two_clients` | two clients, one that may be too old or may vanish, both builds, with and without `/once` | requests performed once and in order; nested sessions match suspended clients (`NestingOK`); responses go to who asked; every call ends; the server is free again and, on RDOS, heeds 'q' (`ServerFree`) |
| `ses_broken` | a client vanishes | *violation*: its last request is performed again |
| `nmp_broker` | programs started twice on each side, two connections; in time, busy and quitting, or dying | order of packets, one pair of copying threads, a link freed once and last (`LinkKept`); in time: every call ends, all is released |
| `nmp_reorder` | thread switches inside a request | *violation*: two pairs of threads, messages overtake |
| `heap_both` | both builds, two threads, two sizes, 16 units of memory, other code that moves the break | blocks and free lists are whole (`HeapOK`) whatever search found a block's place, neighbours are joined, every cached size is a bound, the rovers point at what is there (`FreeRoverLive`: in the `sbrk` build until others move the break), nothing is lost; `_nmalloc` fails only when no free block would do |
| `sema_two` | two threads, two semaphores not yet made, taken again and one under the other | each is one recursive lock (`ImplementsRecLock`), every call returns |
| `streams_one_opener` | one thread that opens, writes and closes, one that writes to stdout, one that flushes everything | every character once and in order, no semaphore left, every call returns |
| `streams_two_openers` | two threads that open | *violation*: both get the same FILE |

**Bounds.** Serial: `MaxPuts` requests - three let a repetition of one block
meet the two that follow it, five with block numbers modulo 3 pass the wrap
twice in each direction; one fault is the most the protocol survives in full
(section 5); `MaxWaits` replaces the ten or so one-second
waits of `RemotePut`, enough for `Errors` to pass `MAX_ERRORS`; `WireCap` stops
a side that times out again and again from filling its peer's wire.
Parallel: `Nib` = 4 makes a byte 16 values and `Half` 8, so a nine-byte packet
takes the two-byte header; two requests let what one transfer leaves on the
wires meet the next, in both directions.  Session: three connections let one
client suspend, the other come and go or suspend too, and the first resume;
three requests are REQ_CONNECT and two more.  Named pipes: two programs a side
and two connections let everything that is left of one meet the next; one
request and the farewell put three messages in flight, more than `PipeRoom`.
Parallel connection: four pulses where the code sends 20 are more than the two
(`TWIDLE_NUM`) a side must see, and two attempts let the statics of one meet the
next.  Heap: 16 units hold two mini-heaps of
two blocks or one of seven, so a block may have free neighbours on both sides, a
mini-heap is given back while another stays, and memory runs out; rests of one
unit, too small to be a block, occur.  Seven blocks are what the searches of
`__MemFree` need: the walk behind the block finds a free one, gives up or meets
the end tag, and the list is searched, though always from its rover (its start
is left to the theorem).  `MCHeap` explores the full heap, the
resizing of blocks and a break that was moved one at a time: of a state out of
`Bounded` the invariants are checked, but its successors are not explored.  Semaphores: two
threads race for the same creation, two semaphores make the creations nest in
one `InitSemaphore` and one is taken, and made, while the other is held, as
`flushall` does (`MCUnder`); depth two is the recursion.  Streams: three FILEs, three
handles and two file semaphores: the opener's handle is 1 or 2, so it has a
semaphore of its own or shares that of stdout, and handles and FILEs are used
again; a buffer of two is flushed when full.

**Deadlock** is checked in `heap_both`, `sema_two` and the streams' runs.  In the
links' runs it is not: users stop making requests, a debugger stops after a
failed call, a server may be told to exit.  That nobody is left waiting is
stated as liveness there.

**Fairness.** The programs' own steps are weakly fair, per program or thread:
they run in loops with nothing but the modelled waits to block them, and the
loops that poll (`Poll`, the server's `RemoteConnect` on named pipes) keep
polling.  What users, lines and failures do has no fairness.  `CallsEnd` of
`Session` assumes that no user keeps the one server for ever (`UsersLeave`).
The liveness properties of `NmpBind` are stated for `env = {}`, those of
`Session` for `Orderly`.  `Connects` is stated for machines that are not slow
and for the WATCOM and LapLink cables (section 5).  In `Sema` and `Streams` a
thread inside a call runs on, and a mutex or semaphore that is free again and
again is at last given to each of its waiters (strong fairness: the systems'
mutexes queue their waiters); `Sema` also assumes that a caller whose calls return
holds nothing again and again, since a call may well wait for another thread's
program.

## 4. Proofs

`SerLinkProofs` proves, for all values of the constants - any number of
requests below the number of block numbers (`NoWrap`), any number of faults,
any `Adverse` conditions, `"rubbish"` included - that `IInv` is an invariant,
and from it type correctness, `InOrderOnce` and that the protocol implements
`PacketLink` with `Lossy` (the initial state maps to an initial state, each
step to a step or a stutter).  `InOrderOnce` alone is not inductive: whether a
block can be accepted twice depends on what is still on the wires.  `IInv` adds
that the counters agree (`CountersAgree`: the receiver is at most one block
ahead of the sender), that blocks in flight carry numbers and packets in the
same order and that one the receiver would still accept is newer than all it
has had (`BlocksAgree`, `SendingAgrees`), and that the server answers each
request once (`ServerAgrees`).  The steps are grouped: those that neither start
a `BlockSend` nor move a counter put only harmless items on the wires
(`QuietStep`, one lemma for all of them); `BlockSend`, `AckRead` and
`RecvBlock` are treated one by one.  On top of `IInv` stands `ResponseMatches`:
that what the debugger receives answers the request it waits on.  `IInv` orders
the packets of each direction and says nothing of how the two hang together;
`RequestsAgree` and `ResponsesAgree` do.  A request that wants a response has
been accepted by the server before the debugger makes its next one, so the
server never works on an older request than the debugger's last; and a response
the debugger would still accept - on the wire, in the `BlockSend` that may repeat
it, or one the server has yet to send - is to that request, which still waits
for it.  Both are invariants of `ser_adverse` as TLC finds, and neither is
inductive without the other.

The rest of `SerLinkProofs` is about a line that does at most one harm, to hosts
that are prompt and give `RemotePut` time for two repetitions (`AtMostOneFault`,
`PromptHosts`, `TimeForTwo`): what `ser_one_fault` checks.  All three are
hypotheses of the theorems.  `PromptHosts` is not something the code sees to:
`BlockSend` gives up 10 s after its first try (`serlink.c:437-439`) whatever the
user at the other end does, and then one lost ACK and an idle user make the
server reuse a block number, both sides wait for ever, and the theorems are
false.  Block numbers must tell a block from the next (`Numbering`): either they
do not run out, or the counters wrap when the two bytes of the block do, as in
the 16-bit programs; there the number of requests is not bounded.  The invariant
`OneFaultInv` says what a session looks like at every moment: nobody is sending
(`Idle`), a block is on its way (`Sent`), it has arrived and its sender does not
know (`Taken`), or the peer is already sending the next (`Crossed`), with what
lies on both wires in each case, before the harm is done, after it (`Hurt`) and
while it is being repaired (`Mending`).  From it follow `NoMutualWait`,
`PutDelivered`, and that the protocol implements `PacketLink` without `Lossy`: a
packet is handed up while its sender still waits, so it is new, and the next is
not sent before.  That an item has been lost cannot be seen on the wires, which
is why `Hurt` must also say that no error has been counted yet: one repetition
is then enough, `Errors` stays at or below `MAX_ERRORS`, and neither `ReSync`
nor the end of `RemotePut`'s patience is reached.

`SemaProofs` proves, for any set of threads, any semaphores and any depth,
whichever callers take under which (`Under` is any set of pairs), that `IInv` is
an invariant of `Sema`, and from it `OneHolder`, `OneMutexEach` and that the
semaphores implement `RecLock`.  `OneHolder` is not inductive: that nobody is in
a mutex twice rests on a thread that finds its own id in `owner` being inside
(`OwnerKnown`, `MutexIsHad`), which rests on `count` being what the holder's
nesting says at every point of a call (`Counted`), and both on each mutex being
made once, by the thread that holds `InitSemaphore`, before `initialized` is set
(`MutexesMade`, `Nested`).  There is one lemma per step; most steps change
neither who has a semaphore nor how deep (`SameHas`, `SameDepth`), and
`Steady...` carries the parts over such a step.  In the refinement a mutex
entered is `Take`, one left is `Give`, and so are the counts above one; all
other steps stutter.

`ParLinkProofs` proves, for any size of half a byte, any requests and responses
whose length the header can say, any number of them and all three cables, that
`IInv` is an invariant of `ParLink`, and from it all the safety properties of
the run: `WiresOK`, `BitsHold`, `AsSent` and that the link implements
`PacketLink` without loss.  None is inductive.  Why a unit is still on the port
when it is read rests on where each side can be when the other waits
(`Handshake`) and on what each has on its outputs there (`Outputs`): a reader
that has not seen the unit holds `Ctl2` high, so the writer cannot pass its wait
for low, and a writer that has not been heard holds control line 1.  Why both
agree on which of them writes rests on the framing: `FrameEnd` shows that what
`RemoteGet` has read is a packet when it has read all of `RemotePut`'s bytes and
never before, and `Situation` lists where the two sides can be then - in
particular that a debugger which waits for no response may have the next
request in hand (`Asking`) while the server has not yet seen the last one end.
There is one lemma per action; the steps of the handshake keep `Moving` by
`MovingKept`, and only the last step of a unit (`LowerCtl1`, `SeeCtl1Lo`) and
the hosts' steps change the situation.  In the refinement `Request` and
`Answer` are `Put`, the `Read` that completes a packet is `Get`, and all other
steps stutter.

`ParConnectProofs` proves, for any of the three cables, any set of lines that may
be dead, any number of pulses (at least one) and of attempts, slow machines or
not, type correctness (`Types`) and that no server begins a session over a cable
with a dead line (`LinesWork`).  `LinesWork` alone says nothing of how the line
test gets so far; `Flawed` does.  With a dead line only certain bytes occur at
all (`Values`: what the pulses, the constants of the code and the line test's
single bits leave after the line has cleared its bit), none of them 255, and
nobody is connected.  There are two kinds of line.  One whose bit the line test
sends is missing from all that comes over it (`Missing`): the byte the server
has sent is no greater than that bit, what it reads back lacks it, and so does
all the client has and sends when the line is one of the server's; so the server
does not get past the byte that is that bit alone (`Doubled`).  Without one that
the pulses or the handshake need, the server stays at its first byte (`Stuck`):
a client that does not see its pulses never leaves its own, and a client or
server for which control line 1 does not change takes the cable for one on which
that level means "high" (`Mistaken`), and waits for it to go low until its time
is out.  `ReadWide` and `ReadNarrow` say what `ReadData` makes of a byte on the
cable there is, whatever cable the reader believes it is on.

`SessionProofs` proves, for any finite set of clients, both kinds of server,
any number of connections and requests and any clients vanishing, that every
variable of `Session` keeps its type and that a client reads the response to the
request it waits for (`ResponseMatches`).  The invariant, `Base`, says who holds
which connection (`Sockets`, `Queue`), and for the client that holds one what can
be on it (`Talk`): only its own requests; one that wants a response last, and
only while the client waits for it; a response only when the request is gone
from the connection and from the server's hands.  `ResponseMatches` alone says
nothing of requests on their way, and so of the response to come.

It also proves, when no client vanishes, that the server performs every
request once and in order (`OnceInOrder`) and that the calls of
`Session()` nest as the suspended sessions do (`NestingOK`).  Its invariant
`InOrder` has two parts.  `Lines` is about connections: none is torn down, each
is queued, served or closed (`Open`); one that nobody holds ends in a farewell,
so a call of `Session()` always ends (`Served`, `Courses`); and a client's
requests rise along its connections (`Rising`, `First`).  `Books` counts what is
sent and not performed: it is each number after the last one performed, once
(`Numbers`); a client's suspends and resumes alternate (`Alternate`); and the
depth of the calls is the number of clients of which a resume comes next
(`Depth`), from which the count of `NestingOK` follows (`Counts`).  After the
server's exit `Exited` holds instead.  The theorems need `Clients` to be finite
(`LinkConstants`), since they count clients.

`NmpBindProofs` proves, for any number of programs, connections and packets and
every environment without `"threads"` - programs that are late, quit or die at
any point included - that `LinkKept` holds: the types, one `JoinPipeThread` each
way (`OneRelay`), and no thread without its link (`ThreadsHaveLink`).  With
`"threads"` it is false.  `OneRelay` rests on `Pairs`: a side is `connected`
only as long as its `JoinPipeThread` runs or while it waits for the other side,
and until then its pipes are not taken from it, so that two requests
`END_CONNECT` of one side never find the same partner.  Why the pipes of a
connection that is being made are not closed by the threads of the last one is
part of it: the new pipe cannot be opened before the old one is gone.
`ThreadsHaveLink` rests on `Turns` (one thread at a time is inside a request)
and `Threads` (each `ConnectThread` has its connection pipe): when the last one
frees the link no program is left, so no data pipe is open, and a
`JoinPipeThread` that cannot run can only be waiting on an open one.

Its second half adds to that invariant what is needed for `RightOrder`, in the
same environments and for any room in the pipes.  `Ends`: the two ends of a
stream are made and taken away together and closed one after the other, so that
what one connection left is never read on the next.  `ToServ`: what lies in the
debugger's write pipe, the copying thread and the server's read pipe, taken
together as one sequence (`Stream`), goes on where the server's last packet
ended, each byte with its length behind it (`InTurn`), and the debugger's next
packet goes on where the sequence ends (`LastIs`).  `ToTrap`: while the debugger
waits for a response exactly one of three holds - its request is the last packet
on the way and no other there wants a response, or the server has it, or the
response is on its way, whole - and while it does not wait nothing is on its way
to it (`Awaits`).  This is how a packet "with" its length can be written in two
messages without a sequence number: what is behind a byte is its length.

`StreamsProofs` proves, for any number of threads, streams, handles and file
semaphores and any size of a buffer, that `EveryLockUnlocked`,
`EachOnceInOrder` and `OpenListed` hold as long as `OneOwner` does, that is, no
two threads are given the same FILE; this is exactly what `streams_two_openers`
shows `fopen` does not guarantee (section 5).  One thread that opens streams,
beside any number that write to stdout and that flush, guarantees it
(`OneOpenerSafe`), and then the three hold without a condition.  The invariant
`Inv` says what each thread may be doing and with which stream (`Roles`); how
often it has taken the semaphore of its stream there, `Took`, twice inside
`__flush` when called from `fputc`, which is what `holder` and `depth` of each
semaphore must say (`Semaphores`); that the open streams are stdout and those
openers have (`Lists`); that such a stream is open on its own file and can be
dirty only then (`Streaming`); and that the data of a stream are in its file or
in its buffer, but for the moment between `__flush`'s write and its reset of the
buffer (`Data`).  The step that needs most is `SetFlags`, which empties a buffer
without the semaphore: nothing may be in it, and no `flushall` that still has the
FILE from its last life may be about to reset it (`Fresh`: `flushall` holds
`IOBSemaphore` and visits only streams of the list, and a FILE on the list is in
use).  `StreamsNames` says that a thread plays one of the three parts and that
the names given to threads, files and semaphores are different.

`HeapProofs` proves `HeapOK`, `JoinedAndCounted` and `Held` for any memory, any
size of a descriptor, of the smallest block and of what the heap grows by, any
amounts, any threads, both builds and any places where other code may put the
break.  The invariant `IInv` holds at every step of a call, the ones in the
middle of growing or of `_nexpand` included.  `MemOK` is about the blocks: those
of a mini-heap lie one behind the other from its descriptor to its end tag
(`Walk`, by addresses: two blocks never overlap, and where one ends the next
begins), the links are one ring over exactly the free ones (`Ring`), no two of
these are neighbours, the counts are right, the rover is in the ring.  `AtBreak`
is why the slices build may grow at the break: no mini-heap lies above it, and
as long as nobody else moves it there is at most one, which ends there.
`Looking` follows the searches of `__MemFree`: whatever the rover, the counts
and the walk say, `look.pnext` is at the end the first entry of the ring above
the block, or the head (`LookNearIs`, `LookBehindIs`, `LookInListIs`); the
address order of the list, which `Ring` keeps, rests on this alone.  `CallOK`
says what a call in each place may be doing, and that the block it stands at is
a free one of the mini-heap it stands at.  `Owned` is why nothing leaks: every
allocated block is held, or in a `_nrealloc`, or the one `_nfree` is about to
put in the list; `Enough` follows a block through growing, shrinking and the way
back.  Each way the memory changes is a lemma about the blocks of one mini-heap
(`NFreeMem`: freed, whatever it joins; `CarveMem`: taken, whole or split;
`ExpandTakeMem`, `ExpandCutMem`, `GrowMem`, `CreatedMem`, `DroppedMem`), and the
other mini-heaps are `Kept`.

On top of it `Caches` is an invariant, and with it what the sizes the heap
remembers promise (`CachesBound`, `FreeRoverLive`) and that an allocation fails
only when nothing that was free is long enough (`FailsOnlyWhenFull`).  No free
block of a mini-heap is longer than its descriptor says, before the rover and in
all (`MiniBound`), and `__LargestSizeB4MiniHeapRover` bounds all that lies
before the place where `_nmalloc` is or would begin (`Before`, `Place`): while
it searches that is not where `__MiniHeapRover` points, so the bound cannot be
stated of the rover alone.  `Scanning` is what `__MemAllocator` knows of the
entries behind it, and of the cached size it will replace; `Passed`, that
nothing in the mini-heaps behind `_nmalloc` is long enough, and nothing anywhere
when it grows, which is why a failure means full.  Most calls can only make free
blocks shorter or fewer (`NoBigger`, `Steady`); `_nfree` alone makes one longer,
and what it joins is bounded where it ends up.  `FreeRoverOK` says that with
`sbrk` `__MiniHeapFreeRover` may outlive its mini-heap, and that, as long as
only the heap moves the break, the next one comes back in the same place.  After
others have moved it nothing is claimed of that rover.

Only model-checked: liveness, and `HandedOver` of `ParConnect`: where the two
sides can be during a line test that goes well is left to the run, which covers
nearly all there is.  With two faults or more, or hosts that are late, nothing
is claimed of sessions whose block numbers wrap.  `IInv` of `ParLink` is not
listed in its run, which checks what follows from it.

## 5. Where the code and what is said of it part

Three runs end in a violation; `PROJECT.json`, "findings", quotes the lines.

* A server whose client is gone performs its last request again and again
  (`ses_broken`, `servacc.c:113`).
* On named pipes a connection that both sides complete at once is copied by
  two threads each way (`nmp_reorder`, `nmpbind.c:216`).
* Two threads in `fopen` can be given the same FILE: the search for a static
  one looks at flags that are set later (`streams_two_openers`,
  `allocfp.c:62`).

Seen while modelling, and not a run:

* Serial: after two faults (an ACK and the block behind it lost) an RLR is
  answered with a stale ACK, and `RemotePut` reports success for a block that
  was not received (`link.doc:89`).  Where `unsigned` has 32 bits the counters
  outgrow the two bytes of a block number, and after 65536 blocks all are
  dropped (`serlink.c:539` against the comment at 380).  `RemoteGet` can return
  0 for a packet it has stored, after `ReSync` (949; `link.doc:65`).
* TCP: on BSD sockets the server blocks in `accept` and does not look at the
  keyboard (`tcplink.c:361`); `listen` queues a second client, whose connection
  attempt then succeeds (`link.doc:51` says it fails).
* Named pipes: `FreeLink` runs off the list if both `ConnectThread`s end
  together; a debugger that comes back before the server has closed waits for
  pipes nobody makes (`nmpbind.c:241`), and so does one after a debugger that
  died inside `RemoteConnect`.
* Parallel: after a failed attempt the server's `TwidleCount` is past
  `TWIDLE_NUM`, and the next client's pulses are counted until the `char` wraps
  (`parlink.c:677`); a Flying Dutchman server keeps its control port as the
  failed attempt left it and does not recognise pulses at all.  On that cable
  `Ctl2` is still high from the last pulse when the line test begins, and the
  server may write before the client reads: the first attempt may fail
  (`parlink.c:571`).
* Heap: with `sbrk`, `_nheapshrink` does not reset `__MiniHeapFreeRover`
  (`nheapmin.c:225-238`).  As long as only the heap moves the break, a mini-heap
  made later lies where the old one did, and nothing comes of it.  When other
  code has moved it, the next mini-heap may lie elsewhere, and `_nfree` reads
  what is no longer a descriptor (`nfree.c:72-90`).
* Streams: `freopen` takes a stream's semaphore and then `IOBSemaphore`
  (`fopen.c:335`, 289), and so does reading from a terminal (`fgetc.c:64` calls
  `flushall` with the stream's semaphore taken); `flushall` takes them the other
  way round.  What `SemaProofs` shows of each semaphore covers this; that calls
  return does not.

## 6. Plan

1. `SerSpeed`: `ReSync` and the baud-rate negotiation (`Speed`, `SetBaud`,
   `SetSyncTime`) with two clocks; its abstraction is the rendezvous `SerLink`
   uses.
2. The VDM pipes: the server must close first.
3. `freopen` and reading in `Streams`.
4. Proofs: `HandedOver` of the parallel cable.

Not modelled, and why:

* serial port drivers, `lcl/**` (operating-system debug interfaces), loaders and
  user interfaces: input and output whose other side is not in the repository;
* NetBIOS, IPX/SPX and Windows links: they wrap a transport that does the work;
* the Fujitsu FMR parallel cable: the program at its other end is not here;
* far and based heaps: variations of the near heap in other segments;
* compilers, linker, editors, GUI and build tools: sequential programs, whose
  correctness is a matter of data and formats, not of states and orders.

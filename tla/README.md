# TLA+ for the samples of Network Programming for Microsoft Windows

The repository is the code of a book: about eighty small programs, in
`src/Windows网络编程补充材料/Samples/chapterNN`. They share no code but a few
copied helpers, so "the system" is a collection of programs. Those with logic of
their own, and with faults that testing does not find, are the servers with
threads and completions, the two Winsock service providers of chapter 12, and
the older protocols' servers whose two ends must agree on who speaks next. The
modules here model those. Paths below are relative to `Samples`, and a bare
number in parentheses is a line of the source file under discussion.

| module | models | checked by |
|---|---|---|
| `IocpConn`, `IocpConnProofs` | chapter06/iocpserver.cpp: connections, completion threads, send throttle | conn_* and proofs |
| `IocpListener`, `IocpListenerProofs` | chapter06/iocpserver.cpp: AcceptEx, reposts, the sweep | listen_* and proofs |
| `Echo` | what an echo server promises its clients (abstract) | |
| `BlockingServer`, `BlockingServerProofs` | chapter05/blocking/server; implements `Echo` | block_threads and proofs |
| `IocpEcho`, `IocpEchoProofs`, `IocpEchoLifeProofs` | chapter05/iocp/server; implements `Echo` | iocp_echo and proofs |
| `EchoLoops`, `EchoLoopsProofs` | chapter05/nonblocking, WSAAsyncSelect and WSAEventSelect servers | echo_loops and proofs |
| `NameService`, `NameServiceProofs` | chapter12/NSP: the tables of mynspsvc.cpp under mynsp.cpp's calls | nsp_service and proofs |
| `NspWire` | chapter12/NSP: rnrcs.cpp, mynsp.cpp, nspsvc.cpp and mynspsvc.cpp over connections | programs |
| `Lsp`, `LspProofs` | chapter12/LSP: spi, extension, sockinfo, overlap, asyncselect | lsp and proofs |
| `IocpClient`, `BlockingClient` | chapter05/iocp/client, blocking/client | programs |
| `OverlappedServer` | chapter05/overlapped/server | programs |
| `NetBios` | chapter17: evnbsvr.c, cbnbsvr.c, nbclient.c, nbdgram.c | programs |
| `Pipes` | chapter20's servers and client, chapter19/Server2 | programs |
| `IcmpTools`, `IpPackets` | chapter11: ping, tracert; rawudp | programs |
| `QosTcp` | chapter10/qostcp.cpp | programs |
| `LspInstaller` | chapter12/LSP/instlsp.cpp on the Winsock catalog | programs |
| `Multicast` | chapter09: mcastws1, mcastws2, mcastv3, rmcast | programs |
| `SpxPair`, `NetBiosSockets`, `AppleTalk` | chapter04: sockspx, wsnbsvr with wsnbclnt, atalk | programs |

`MC*.tla` add what TLC needs, mostly symmetry sets; each `.cfg` is one run.
`MCPrograms` extends the modules of the smaller programs and picks one of them
initially (`program`): they do not interact, and one state space holds them all.

## Inventory

### Completion port echo server, chapter06/iocpserver.cpp
*State.* Per connection a `SOCKET_OBJ` (`bClosing`, `OutstandingRecv`,
`OutstandingSend`); one `BUFFER_OBJ` that is in turn an accept, a send and a
receive; the global `gPendingSendList` and the counter `gOutstandingSends`;
lookaside lists. Per listening socket a `LISTEN_OBJ` with the list
`PendingAccepts`, `PendingAcceptCount`, `RepostCount` and two events.
*Operations.* `CompletionThread`s take completions from one port and run
`HandleIo`; `main` starts the accepts and then waits for a timeout, FD_ACCEPT
or a repost. *Interaction.* Threads and main share everything above, some of it
under critical sections, some with interlocked counters, some with nothing.
*Hard.* Counters are updated after the call they count; two threads finish the
same connection; the free list and the accept list use the same `next`;
RepostCount and its event are read and reset in two steps. *Correct when* a
buffer has one owner, an object is freed once and only when it is quiet, the
throttle holds and every queued send is posted, every accept taken is made up
for, and every waiting client is accepted.

### Echo servers and clients of chapter 5
`blocking/server`: a listening thread per address starts a receiving and a
sending thread per client, with a queue and a semaphore between them; for UDP it
is itself the sender. Both threads use the CONNECTION_OBJ and only the sender
frees it. `iocp/server`: several receives per socket; `IoOrder` numbers them and
a list sorted by it restores the order of the data; each socket has a lock that
HandleIo holds. `overlapped/server`: threads that share an array of events, the
buffers inserted into it by main. `WSAEventSelect/server`: sockets spread over
child threads; `WSAAsyncSelect/server`: one window procedure;
`nonblocking/server`: one select loop. *Correct when* they implement `Echo`: the
bytes echoed are the bytes received, in order, each once; free what they
allocate once; hold no lock on an error path; and go on looking at every socket.
`blocking/client` and `iocp/client` are the peers: *correct when* they send
what they were asked to, read it back, and end.

### Name space provider, chapter12/NSP
*State.* In the service: `ServiceClasses`, `Services`, `QueryInfo` (position of
each open lookup in `Services`), `dwHandleValue`. *Operations.* Every provider
call of an application is one connection with one request and one reply,
answered by a single thread. *Hard.* Lookups stay open over many calls while
others register and remove services, and removal moves array elements under
them; full tables; a connection that ends in the middle of a request or before
the reply. *Correct when* a lookup returns each matching service once, as it was
advertised; names are unique, handles belong to one lookup, and an application
told of success has it. The application is `rnrcs.cpp`: a server installs its
class, binds its port and registers; a client looks up a name or `*` and with
`-d` removes what it finds.

### Layered service provider, chapter12/LSP
*State.* A reference-counted context per socket in a list per provider
(`sockinfo.cpp`), a pool of overlapped structures, worker threads or a
completion port (`overlap.cpp`), a hidden window for WSAAsyncSelect
(`asyncselect.cpp`). *Operations.* The WSP entry points of `spi.cpp`.
*Hard.* Close against concurrent use, deferred free after the last overlapped
operation, three kinds of locks, cleanup that waits for threads while it holds
a lock. *Correct when* a context is freed once, after its last use; every
overlapped call is completed to the application; no lock is left held.
The installer `instlsp.cpp` edits the system's catalog: *correct when* installing
and removing changes nobody else's entries and leaves no chain through an entry
that is gone.

### Older transports
NetBIOS (chapter 17): a Listen must be outstanding again on each adapter after
each session; a client connects over all adapters and keeps one. Named pipes
(chapter 20): one wait loop for all overlapped instances, or a thread per
instance. Mailslot (chapter 19): a server with a stop flag. SPX, NetBIOS over
Winsock, AppleTalk (chapter 4): echo pairs whose ends each count what they
expect. *Correct when* each end knows what the other waits for, a session that
is not used is hung up, an event is never reset with work behind it.

### Raw sockets, QoS, multicast
ping and traceroute match replies to requests by their order; rawudp builds
headers, checksums and fragments; qostcp keeps an array of sockets in step with
one of events and delays data until a reservation; the multicast programs join
groups with or without a choice of sources. *Correct when* the reply is the
probe's, fragments can be put together, the arrays agree, only chosen sources
are heard.

### The rest
Ioctl and address queries, name registration, RAS and IP helper tools, address
family variants with one thread and one socket, C# and Visual Basic versions of
chapter 1; `Setup` and `StartCD` (the CD's own program, binary).

`PROJECT.json` has the full list of components and of hazards with their lines.

## What is modelled

### IocpConn
One action per step of a completion thread that others can see. `Take` is
GetQueuedCompletionStatus with the counter update that follows at once (1005,
1048, 926); the labels of `pc` are the steps after it: queueing, the tests of
`ProcessPendingOperations`, each WSASend/WSARecv and, apart from it, the
increment that comes after, the tail (1064-1082), `CloseSocket`, `Free`. The
kernel's side is `posted[b]`, the operation a buffer is in, and completions happen
in any order, with data, with zero bytes or with an error. What may fail is in
`Faults`: peers that close, completion errors, failing posts, a failing
CreateIoCompletionPort or allocation. Merged into single steps: what runs under
one critical section (list operations), and the memset of `FreeSocketObj`.
Clients (accepts completed) are bounded by `MaxConns`.

### IocpListener
One LISTEN_OBJ. `main`'s loop (1420-1577) is a program counter `mpc`: timeout
and sweep, FD_ACCEPT, repost, and the post loop with its reads of
`PendingAcceptCount` one by one; completion threads run the accept branch of
`HandleIo` (898-1000). `next` is modelled as the field it is, so that the
pending list and the lookaside list can run into each other; `Walk` follows it.
A `RemovePendingAccept` that would never end is the action `Spin`. Events the
system raises (`Signal`, `Finish`, `Data`, `Fails`) are external; FD_ACCEPT is
recorded again when AcceptEx is called, as WSAEventSelect's re-enabling
functions do. `PostTwice` stops the model: an AcceptEx on a buffer in flight is
undefined. Bounds: `MaxClients`, `MaxSweeps`. Not modelled: several listening
sockets, failures at startup, timeouts too early for a sweep. `IocpConn` and
`IocpListener` are two views of one program and share only the buffers a
completed accept hands from one to the other; they are not composed.

### Echo and BlockingServer
`Echo` says what a client may rely on: the bytes echoed are the bytes received,
in order, each once, and a socket closed by the server has had all its data
unless the connection broke. `BlockingServer` models the three kinds of threads
with a label each, the queue, the semaphore, and CONNECTION_OBJ's lifetime; the
n-th byte of a client is the number n, so that losing, repeating and reordering
are visible, and recv and send take any number of bytes they may. After
`FreeConnectionObj` a receiver that still uses the object goes to "lost": that
is undefined and the model of this thread stops. A failing heap ends the
process in the code and is left out, as are the statistics. Bounds: `MaxBytes`
per client; `MaxPending` limits the endless failing recvfrom of a UDP receiver
whose socket is closed.

### IocpEcho
`HandleIo` holds `SockCritSec` of the completion's socket; what a thread does
under it is one step unless others can see the middle: the kernel finishing a
posted operation, the error path (732), `OutstandingOps` with its own interlocked
updates, and the accept path, which holds the listening socket's lock and posts
on the client's object without that one's (803). A buffer is the unit of data
it carries with its `IoOrder`. `Take` is GetQueuedCompletionStatus, then the
error branch, the accept, the receive (`DoSends` stops at the first number
missing), the send and the tail are actions by label. `Sweep` is what main does
once a minute (1282-1322) to the sockets of `PendingAccepts`: `stale` says what it
may meet there, the freed buffer of a failed accept (738, read at 1299), which ends
the model, or a socket on which getsockopt fails (1305), after which main returns -1
and the process ends. A client it closes (1316) is an `AcceptFails` or a `Reset`.
`miscounted` records the connections closed on a count that left something out. Not
modelled: the read of `sendobj->next` (702) after WSASend has the buffer, the
statistics, failures at startup. A path the code leaves without unlocking (793)
keeps the lock.

### EchoLoops
The three servers in one module, because `ReceivePendingData` and
`SendPendingData` are nearly the same text in all three; `server` says which one
runs, and how it learns what to do is separate: the select sets of nbserver.cpp
in the order of its list, the messages of the window procedure (FD_READ once
per recv, FD_WRITE only after a send that would block, the messages it posts to
itself), the events, child threads, renumbering and wake-ups of eventserver.cpp.
A unit is two bytes so that a send can be cut in the middle. What the code gets
wrong is kept and named: `partial` (sockets that had a partial send: `idx += 0`
repeats the start of the buffer), `lost` (a failed send drops the object with the
socket open), `TooLong` (a datagram longer than the buffer: recvfrom fails with
WSAEMSGSIZE and the server's only UDP socket is closed, echoes pending or not; the
WSAECONNRESET that follows an undeliverable echo does the same and is not a fault of
its own). Left out: errors in FD_WRITE, a failing WSAEnumNetworkEvents.

### NameService
One action per provider call, because the service answers one connection at a
time. Tables are sequences with the code's insert, swap-remove and index
arithmetic; services have an identity so that a lookup's results can be
compared with what was there. `excused` and `owed` record what a lookup may
miss and has missed. What the code leaves undefined is explicit: an array
overrun or QueryInfo[-1] stops the model ("lost"), an uninitialised handle is
any handle. `LookupServiceEnd` sends the wrong request (mynsp.cpp 270, against
its comment at 254-258), so the handler that deletes queries is never reached
and not modelled. `DeregisterServiceClass` compares a GUID with the address of
a pointer (92), never finds a class and so changes nothing. Bounds: `MaxIds`,
and table sizes far below the code's so that full tables are reached.

### NspWire
The same service with its calls taken apart. A stream is a sequence of units (the
action, a size or handle, the parts of a marshalled structure); `readdata` takes
one unit or all that has come, and a peer may be killed with any part of its
request on the way. Each application follows `rnrcs.cpp` from main to its end; the
service reads the action, the length, the data, answers, and accepts again. The
tables are without bounds here (`NameService` has those). A request cut short ends
the model in "undefined".

### Lsp
An application thread calls a WSP function: `FindAndLockSocketContext`, what the
function does at this level, `UnlockSocketContext`. Functions that only forward
are one action each with the same effect; those that create, accept, duplicate,
close or start overlapped operations are followed step by step. A section under
one lock without a call into another is one step; the locks a call may take with
it, `gCriticalSection` and a context's `SockCritSec`, are variables, so a return that
forgets one (590, 2929) is visible. An overlapped structure goes from the call
(`PrepareOverlappedOperation`, the manager's start, with a completion port or
with an APC thread) to the worker's completion and report; WSPIoctl's
SIO_QUERY_TARGET_PNP_HANDLE is completed on the caller's thread (1332-1369), and the
worker keeps the context's lock while it looks up AcceptEx's second socket
(overlap.cpp 935). What the code gets wrong is kept: a handle may outlive its
SOCK_INFO (sockinfo.cpp 66), and two paths lose a reference (2278, 634), which
`CountsExact` counts in `lost`. A freed context is not used again: the next socket takes
the next of `Contexts`, so a stale pointer is never taken for a new one's. Left out:
what is passed below, address conversion,
WSPCancelBlockingCall (499), WSPGetOverlappedResult, AsyncWndProc's messages,
loading of DLLs.

### The programs of MCPrograms
Each module names its external part in its header: the echo server and the
network for the clients, the NetBIOS driver, pipes and mailslots, the route, the
Winsock catalog, the QoS provider. What may fail is counted by a bound `Max...`.

`IocpClient`: main takes completions one by one and, with `-r`, `SendThread`
shares the sockets' counters with it; a failed completion is printed and dropped
(1394-1414), so HandleIo's error branch is never run and is not in the model.
`BlockingClient`: the sending and the receiving thread, for UDP with three empty
datagrams as the end. `OverlappedServer`: the arrays of events and the threads
that renumber them. For TCP main exits when its first AcceptEx is pending (1381),
so only UDP goes on. `NetBios`: commands pending at the driver with their
cmd_cplt, event or callback; sessions with both ends; a CreateThread that fails
leaves a session that nobody serves. `Pipes`: per instance what
is pending and what `DataRead` says it was. `IcmpTools`: probes, the one receive
outstanding, replies under way; a failing sendto ends the program. `IpPackets`:
fragment boundaries for any MTU and size given; the checksum against one's complement sum by definition.
`QosTcp`: `socks` and `hAllEvents` as two sequences that the code compacts
separately (380, 433); whether `++nConns` comes before the call in the same
expression (585) is unsequenced in C++ and both orders are inputs (`early`).
`LspInstaller`: commands one after another, each a sequence of catalog calls
that may fail. `Multicast`: the receiver's calls in order with the filter they
leave on the socket; what arrives between two calls is marked `early`.
`SpxPair`, `NetBiosSockets`, `AppleTalk`: both ends with the bytes or messages
between them.

## Runs

| run | question | bounds | result |
|---|---|---|---|
| conn_threads | ownership, throttle and queue under every fault | 2 threads, 2 buffers, 2 socket objects, gMaxSends 1, 3 connections | holds |
| conn_one_thread | exact counters, single free, one operation per connection; every queued send is posted | 1 thread, 3 buffers, 4 connections, closes and errors, fair | holds |
| conn_double_free | single free with two threads | closes only | violated |
| listen_calm | the accepts kept up and counted over a sweep, and waiting clients accepted while gMaxAccepts is out of reach | 1 thread, 5 buffers, 3 clients, 1 sweep, -oa 9, failing port, fair | holds |
| listen_errors | accept count, limit and the two lists under failing calls | 2 threads, 4 buffers, -oa 3, 2 clients, no sweep | holds |
| listen_stuck | waiting clients are accepted at gMaxAccepts | 1 thread, no failure, fair | violated |
| block_threads | semaphore, freeing, refinement of Echo; every client is served and its threads end | 1 client, 2 listeners, 5 bytes, buffer of 3, resets, failing threads and accepts, fair | holds |
| nsp_service | lookups against registration and removal | 2 lookups at a time, tables of 1, 2 and 2, 3 services | holds |
| iocp_echo | IoOrder without gaps, single free, refinement of Echo, everything settled | 1, 2 or 3 threads, 1 client, 2 receives posted, 3 units (2 with 3 threads), TCP and UDP; with 1 or 2 threads resets, long datagrams, failing posts and ports; fair | holds |
| lsp | references and outstanding counts exact, closing only under the lock, every operation reported | 2 application threads, 1 worker, 2 contexts, 1 operation, 5 calls, port or APC, seven kinds of faults, fair | holds |
| echo_loops | the echo is faithful, events are watched, everyone is served, for each of the three servers | up to 3 clients, FD_SETSIZE 3, 2 child threads of 2 sockets, room for 2 bytes, load 5 or 6, resets, urgent data, empty and long datagrams, fair | holds |
| programs | clients send and read back; event arrays; sessions; packets; the catalog and the name space; nobody waits for ever | below | holds |

Why these are enough: the races need two threads at most, two connections that
compete for a throttle of one, an object that is reused (more connections than
objects), a list of at least three so that a middle element is removed, and a
table that is full. A partial send needs a buffer of three to be cut in the
middle twice. A swap-remove needs two services, of which the first is removed,
and a third to take the free place. In `IocpEcho` two outstanding receives are
overtaken and a third unit comes after both; three threads are the fewest that can
close on a count without an operation while data wait (see below), and a fourth would only repeat
what one of them does. In `Lsp` five calls make a socket,
start an operation, close it, and use it from the other thread. In `EchoLoops`
two children of two sockets move a socket and renumber; `MaxLoad` bounds clients,
units and faults together, one more for the select server, whose set is full
with three.

Bounds of *programs* (Programs.cfg names each): 2 connections with five command
lines of iocpclient (rate limit or not, 1 or 2 overlapped sends, 0, 2 or 3 sends each);
2 buffers of 2 pieces and 3 lost or overtaken datagrams (bclient: all three empty
datagrams may be lost); arrays of 4 handles for 3 buffers, so that a second
thread is made (overserver); 2 adapters, 2 sessions, 1 refusal (NetBIOS); 2
instances, 2 clients, 2 messages (pipes); 3 hops at most, 4 probes, one stray
packet (ICMP); sizes on either side of each boundary of the fragment count and
of the header, up to the 44th fragment (rawudp); 3 slots for up to 3 clients and
eight configurations (qostcp); 2 builds of the provider, 2 base entries, 3
commands, 1 failing call (instlsp); 2 hosts, 3 lists of sources, 2 messages, 1
fault (multicast); 2 clients and three sizes on each side, equal, smaller or larger (sockspx); 2
transports, 2 clients, 2 messages, 1 fault (wsnetbios); 2 senders, messages of 2
pieces, 2 faults (atalk); six groups of one to three applications, two servers of
different or the same name and a client with `-d` and one without any server among
them, two groups with one killed application or failing accept (nsp). Deadlock is
not checked where the model really stops: clients run out, the process ends,
behaviour is undefined.

Every property of a passing run is paired in `PROJECT.json` with a mutated
definition, written just before the one it would replace (`MayPostInclusive`
before `MayPost`, `RestRepeats` before `AfterSend`, ...), which makes the run
fail.

A property holds only with the excuses its definition names, and each stands
for something the code does. They are listed under "What the code does
otherwise". The properties of the smaller programs excuse most: `MostSends` and `Intact` of
iocpclient (more sends than asked with a rate limit; a broken connection), `Invalid` of
qostcp (a close out of order), `swallowed` of wsnbsvr (a wake-up reset with a connection
waiting), `Quiet` and `raced` of NetBIOS (a command or thread refused; a cancel that met a
completion), `stuck` of the pipes, `SizesFit` of sockspx, `atDropped` of atalk, `Clean` of
tracert (a timeout or a stray packet), `early` and `missed` of the multicast programs,
`undefined` of the name space (a request cut short), in rawudp the offset field for an
MTU that is no multiple of 8; and `partial` in the three loops. For the hazards
concerned such a property says how far the damage goes and that nothing else
goes wrong, not that it does not happen.

### Findings

*conn_double_free.* The tail of HandleIo (1077-1090) reads the counters and
`bClosing` without a lock. A thread that has just posted nothing more and
another that handles the zero-byte receive both find the connection finished,
and both close and free it. With one thread (conn_one_thread) `FreedOnce` holds.

*listen_stuck.* main takes RepostCount (1554) and then resets the event (1556).
A completion in between is counted and signalled, and the signal is reset. At
gMaxAccepts FD_ACCEPT posts nothing either, no AcceptEx is left and clients wait
for ever. While gMaxAccepts is out of reach (listen_calm) FD_ACCEPT's burst
makes up for it.

### What the code does otherwise

Seen in the models and stated here without a run of their own.

*chapter06/iocpserver.cpp.* A failed send never returns its slot (890), so after
gMaxSends failures no echo is sent any more (`OutBalance` counts them, and the
proofs have them as a term); the sweep closes the socket of an accept whose data
have arrived (1477); the buffer of a failed accept is freed while on
PendingAccepts (908), and its next use links kernel buffers into the lookaside
list.

*chapter05/iocp/server.* With two threads the error path frees an object another
thread is about to use; a WSASend that fails at once leaves its freed buffer at
the head of the list (697); `FreedOnce` excuses both. A datagram too long uses up
an IoOrder that is never sent (912) and everything later waits. 793 returns with
the listener's lock held. With three threads a connection may be closed with data not
echoed: the first has posted and not yet counted (`countRecv`, `incRecv`), the
completion of a send in the second then is the last by the count (`IsLast`) and closes, and the
third has data at the lock. `ImplementsEcho` excuses that connection and no other
(`miscounted`); without the excuse TLC finds the trace with three threads, and the
proof below shows that one thread never needs it. A failed accept or a socket the
port refused makes the next sweep of main read freed memory or end the server.

*The three loops.* `idx += 0` after a partial send repeats the start of the buffer
(eventserver 731, nbserver 580, asyncserver 655). nbserver.cpp:60 redefines
FD_SET_SIZE, not FD_SETSIZE, so only the first 64 sockets are in the set. Its
sockets are blocking, so one client that does not read holds everybody; a failed
accept ends it (816); out of band data free the object without closing (879-893).
asyncserver closes before it has read all (855, against the comment at
857-859). eventserver looks up socket -1 for UDP (1252) and skips an index after
renumbering. In all three a datagram longer than the buffer closes the UDP socket with
the echoes pending, and the server serves nobody any more (593, nbserver 459,
asyncserver 521): `EchoFaithful` says so, and `EveryoneServed` asks nothing of it.

*chapter05/overlapped/server.* PostAccept returns with the lock held (773); one
failed WSASendTo closes the UDP socket for good (943-952). *iocp/client.* It may
never end after a refusal or reset, ends early when gCurrentConnections is 0
(1053), and sends up to `overlapped - 1` more than asked with a rate limit.
*blocking/client.* The UDP receiver waits for ever when the three empty datagrams
are lost, and the first one ends it.

*chapter12/LSP.* 2278 keeps a reference to the first socket, and 634-640 the closing
thread's own, with the SOCK_INFO out of the list and not marked; 1938 and 2281 use a
context after unlocking; 2929 returns inside gCriticalSection; the asynchronous
count is not given back after WSAENOBUFS (overlap.cpp 784) or on a synchronous
socket (659); an APC that fails is never reported (627-640); WSPSocket writes a
freed context when the handle cannot be created; asyncselect.cpp 79 spins with
the lock held when the window cannot be made. *instlsp.cpp.* `-a` and `-o` accept a
hidden or unknown entry, which makes a chain that looks like a base protocol
(354-370); removal leaves it behind and `-f` never takes it away; nothing is
rolled back; a failing deinstall in `-f` is retried for ever; removal of what
is not installed uses an uninitialised id (a guess in the model). *NSP.* The
service's query table fills up for good. A request cut short is used as it is: the last
action, an uninitialised length, a structure copied into a block too small (417,
438, 523). A reply that does not come leaves `retcode` uninitialised and all but 0
is success (mynsp.cpp 151), so that a server may report a registration that was
lost. A failing accept ends the service (406-409). With `-d` and `*` a lookup
misses the service moved into the place of the one it deletes. A second server
with the same `-t` cannot bind while the first one registers. `lpBlob` and the inner
pointers of WSANSCLASSINFO are sent as addresses of another process; the restrictions
claim 66 protocols (NS_MYNSP) of an array of one (rnrcs.cpp 502).

*chapter17.* A failed Listen leaves the old ncb_lsn, so a second thread takes the
old session; a failed Listen in the callback is never repeated; cancelling
races a completed connect (135-136); a failing CreateThread (evnbsvr 202, cbnbsvr 50) leaves
the client in a session without a thread; with all adapters refusing the client
waits for ever. *chapter20.* ERROR_PIPE_CONNECTED is taken for a failure; a
ReadFile or WriteFile that fails at once leaves its instance unused. *chapter19.*
Messages before STOP are dropped, and a STOP before the mailslot exists is not sent.

*chapter11.* Replies carry no check of identifier or number; tracert's last hop is
`-h` less one; AnalyzePacket accepts other types with code 0. rawudp overruns
its array beyond 43 fragments, gives wrong offsets for an MTU that is no multiple
of 8, exceeds the MTU with a last fragment, never ends for an MTU of 56 or less
(excluded by `IpAssumption`), and omits the UDP header from the IPv4 length.

*chapter10.* A close out of order leaves a closed event in the array and the next
wait ends the server; a refused client ends it too (589-592); with `-q event`
and the early increment the ioctl is made on an unused slot. *chapter09.* The
window between IP_ADD_MEMBERSHIP and IP_BLOCK_SOURCE; failing membership calls
are only printed; unresolved names leave zero addresses; `-c` makes a UDP
receiver deaf. *chapter04.* wsnbsvr resets the event after accept (452) and may
go deaf on a transport, retries a send with -1 as its length (220) and does not
close after a graceful end (198); sockspx needs both sides' sizes to fit; atalk
throws away a piece read (319), does not finish an echo that would block (427) and
sends whole buffers again (536).

## Fairness

*IocpConn.* Weak fairness of each thread's own steps: a runnable thread runs.
Strong fairness of the completion of each buffer: the port is a queue and the
kernel ends every send, but `Take` is disabled now and then because all threads
are busy. *IocpListener.* Weak fairness of main, of the accept path of each
thread, of handing out each finished accept, of a connected client sending its
first data and of the end of a connection; clients need not come, and nothing
has to fail. *BlockingServer.* Weak fairness of every thread; a client takes what
it is sent, so that `send` returns; clients need not connect, send, shut down or
reset, and nothing has to fail.

*IocpEcho.* Each thread goes on once it has a completion; the port hands
completions out in order, so weak fairness of taking is enough; of the posted
operations those complete that can: a send, and a receive whose client has shut
down or reset. Clients need do nothing, and main need not sweep; all of it only
until main returns or memory is undefined (`Runs`). *EchoLoops.* The server's threads run, Winsock
records and posts the events it owes (`Notify`), clients that are sent something
read it; clients need not send or leave. *Lsp.* A call once begun goes on, the
workers take what is in the port, the window thread runs; applications need not
call, and the provider below need not complete anything: a completion is owed
to the application only once the layer has it. *Programs.* `Process(k)` puts the
k-th process of whichever program runs into one weak fairness condition, with
the subscript `running`, that program's variables. The threads of the program run
and the kernel completes what it can; of the peers only those are fair that the
property asks about, the clients that expect something from a server. No
action for a fault alone is under a fairness condition. *NameService* has no liveness
property: every request is answered in its own step; that over connections every
application ends, whether the service is there or gone, is `NspEnds`, part of
`ProgramsServe`.

## Proofs

The eight `*Proofs` modules hold for any number of threads, clients, buffers,
sockets, services and calls, any setting of the limits and every set of faults;
they assume only the named ASSUMEs of the modules. Each proves one inductive
invariant, `Inv` or `TypeInv`, with `Init => Inv` and one lemma per action that
the action keeps it; `Invariance` puts these together, and the theorems follow.

| theorem | states |
|---|---|
| `IocpConnProofs!TypeCorrect` | `TypeOK` |
| `IocpConnProofs!BuffersOwned` | a buffer has one owner |
| `IocpConnProofs!OutBalanced` | `gOutstandingSends` = kernel's sends + the threads between call and count + sends that failed |
| `IocpConnProofs!SendsBounded` | the throttle is passed by fewer than the number of threads |
| `IocpConnProofs!SendsNotStranded` | while sends wait below the limit some thread is about to look at them, until a PostSend fails |
| `IocpConnProofs!CountersOfOneThread`, `FreedOnceByOneThread` | with one completion thread, whatever fails: the counters of a SOCKET_OBJ are exact; it is freed once, in use and with nothing outstanding or queued |
| `IocpConnProofs!OneBufferOfOneThread` | with one thread, no call that fails at once and a port that takes every socket: a connection has one operation at a time, and exactly one when the thread waits |
| `IocpListenerProofs!TypeCorrect` | `TypeOK` |
| `IocpListenerProofs!CountBalanced` | `PendingAcceptCount` = accepts not taken, but for the one posted and not counted and the failed ones |
| `IocpListenerProofs!AcceptsLimited` | never more AcceptEx than the larger of -oa and -o |
| `IocpListenerProofs!ListsKeptApart` | until an accept fails, `PendingAccepts` and `gFreeBufferList` are sound and apart, and hold what they should |
| `IocpListenerProofs!AcceptsStayKept` | until an accept fails or `GetBufferObj` finds no memory, no accept is lost except with its buffer |
| `BlockingServerProofs!TypeCorrect` | `TypeOK` |
| `BlockingServerProofs!SemaphoreCorrect` | `hRecvSema` counts the queue, so the sender never finds it empty |
| `BlockingServerProofs!FreedAfterReceiver` | unless a send failed, the receiver is gone when the CONNECTION_OBJ is freed |
| `BlockingServerProofs!Implements` | `Spec => ImplementsEcho`: the refinement of `Echo` |
| `IocpEchoProofs!TypeCorrect` | types; an operation in the port is on the socket of its connection |
| `IocpEchoProofs!OrdersStayContiguous` | each IoOrder in play is on exactly one receive, buffer or pending send |
| `IocpEchoProofs!EchoedInOrder` | what is echoed is what was received, in order, whatever fails |
| `IocpEchoLifeProofs!EchoServed` | `Spec => ImplementsEcho`: for any number of threads the refinement of `Echo`, closings included, whatever fails; a connection in `miscounted` may be closed early |
| `IocpEchoLifeProofs!EchoOfOneThread` | with one completion thread the same, and `miscounted` stays empty |
| `IocpEchoLifeProofs!FreedOnlyOnce` | with one completion thread nothing freed is used again, until a WSASend failed at once |
| `NameServiceProofs!TypeCorrect` | `TypeOK` |
| `NameServiceProofs!NamesStayUnique` | two services share a name only if the later came before its class |
| `NameServiceProofs!NeverRepeats` | no lookup is told of a service twice |
| `NameServiceProofs!AllReturned` | a finished lookup missed one service at most for each removal and each result it had no room for |
| `LspProofs!CountsStayExact` | `RefCount` and `dwOutstandingAsync` are what they count |
| `LspProofs!ClosingStaysLocked` | a closing SOCK_INFO is locked for good |
| `EchoLoopsProofs!TypesKept` | types; the bytes in the kernel fit; what is in a list or an array of a thread is a socket |
| `EchoLoopsProofs!EchoIsFaithful` | in all three servers: a connection not aborted has echoed all but what its list holds, in order until a partial send; it is closed with echoes pending only by an oversize datagram |
| `EchoLoopsProofs!EventsAreWatched` | a thread that waits, waits for each of its sockets or will be woken; the event at an index of `Handles` is that of the socket there |

*Argument, connections of chapter 6.* `TypeInv` strengthens `TypeOK`: a thread has a buffer
in hand exactly at the labels of `Holding`, and wherever it follows a pointer to
a SOCKET_OBJ that pointer is not null; without it the steps that index a
function by `buf[w]` or `sock[w]` have no type. On top of it `BufferOwned`,
`SendBound` and `NoStrandedSend` are each inductive as they stand. `SendBound`
is, because it counts the threads between the test and the increment with the
counter: passing the test (349) adds one to that set only below the limit, and
every later step moves from the set to the counter. `OutBalance` needs
`BufferOwned` (a send that is posted was not posted before, so the set of
outstanding sends grows by one). The lemmas `ThrottleMoves` and `BalanceMoves` say
how a step changes the sets and counters concerned; the theorems then compute.

*Argument, one thread of chapter 6.* `CountersExact`, `FreedOnce` and `OneBufferPerSocket`
are promised for one completion thread only, so `Cardinality(Workers) = 1` is a
hypothesis: with two TLC finds a counterexample for each (conn_double_free; the second free
clears the counters of the connection that got the object). `OneInv` has five parts.
A buffer is live while it is outstanding, queued, or in the thread's hand and not
about to be freed. `OneEach`: a live buffer is of a socket in use, and no two are of the
same; `LiveMoves` says that only a new connection makes a buffer live. `SpareOK`: the
lookaside list of SOCKET_OBJs has no branch and leads to unused objects only, so
what `GetSocketObj` pops is unused, and a new connection shares its object with
none. `CountOK`: each counter is 1 if there is such a buffer and else 0, less what
is posted and not counted. `PointersOK`: what `sockobj` and `sock` say at each label.
`ClosingOK`: a closing socket has no live buffer, and it is the one HandleIo has at hand
and will free; both reads of the counters (1033-1042) therefore find 0. For
`OneBufferPerSocket` `UsedOK` adds that nothing in use is forgotten: an error that completes finds
its counter at 1 and the other at 0, so it frees the socket too. A WSASend or WSARecv
that fails at once, and a port that refuses a socket, do forget one, with one thread
too; TLC shows both, and the theorem excludes them. TLC checked `OneInv` with every
fault on the constants of conn_one_thread before the proof.

*Argument, listener of chapter 6.* `TypeInv` adds to `TypeOK` that a thread has a buffer at
the labels where it uses one. `BalanceInv` is `TypeInv /\ CountBalance`.
`LimitInv` counts an accept from the moment main decides on it: that load stays
below the limit because main tests a count that, by `CountBalance`, is never
below the accepts outstanding, and only main adds to it; while startup posts,
without the test, the loop counter bounds the load. `ListInv` says that a sequence of
distinct buffers lists each of the two linked lists (`IsList`), and that `Owners`
divides the buffers among the lists, the heap, the connections and the threads: what a
thread is about to link or to unlink is its alone. `Pushed` and `Unlinked`
prove what the pointer assignments do to such a sequence, `ListWalk` that the walk
from its head sees all of it, and `MoveRemove` that the search of
`RemovePendingAccept` stops at the buffer and unlinks nothing else. What `Nth`
computes is recursive; `InductionOver` states induction for a set of numbers, from the
well-foundedness of `<`, and gives its equations (`StepsRecursion`).
`KeepInv` adds to this a sum: the buffers that are somewhere else than in the heap, in
a connection or on the lookaside list, `RepostCount`, the threads about to add to it,
and what the loop of main has still to post. A completion moves one unit of it from a
buffer to a thread, then to `RepostCount`, then to main, and back to a buffer, so no
step makes it smaller but a `GetBufferObj` without memory, which the theorem
excludes for that reason (`GetFails`). Its other hypothesis, `acceptErrors = 0`, is
that of `ListsKeptApart`: with a second accept pending, TLC shows that one failed
accept, whose buffer is freed and linked twice, makes `AcceptsKept` false.

*Argument, blocking server.* Per client `ConnInv` has five parts. `Life`: the
sender alone closes the socket, frees the object and fails. `Balance`, which is
`SemaphoreBalance`. `Last`: an empty or (TCP) failed buffer is the last of the
queue, and once the sender has it the receiver is gone; that gives `FreedLast`.
`Failed`: a buffer of a failed `recv` tells of a broken connection, so closing at
it is allowed. `Order`: read from the output to the input, `echoed`, the
sender's buffer, those of the queue and the receiver's adjoin, byte for byte;
without the bounds of the buffers in the middle the step that sends would not be
known to send the next byte. `ListenInv` says of the listening threads that a
client whose threads are being made has none yet. A step moves one client, and
`Frame` keeps the rest. `Order` makes a send a `Send` of `Echo`, and `Failed` and
`Order` make a close one that `Echo` allows: everything echoed, or the
connection broken.

*Argument, completion port server of chapter 5.* `OrdersContiguous` is not inductive.
It speaks of connections that are `Receiving`, and a thread that takes an empty
completion ends that, so `Sound` states the condition with what is on its way,
in the port and in the threads. `Ordered` adds that the four places an IoOrder can be
in, the kernel's receives, the port, a thread at the lock and the pending list, have
no number in common and none twice; then each step moves one number from one
place to the next, or takes the smallest off (`DoSends`), or adds the next
(`PostRecv`), and the interval stays one. `InsertSorts` and `InsertInserts` prove
that the insertion keeps the pending list sorted. `Phases` is needed for accepts: until
its first send nothing else is about a connection, so the accept path, which
does not hold the connection's lock, meets nobody. `Leaving` says what is
permanent of a connection given up. `EchoInv` carries the data: a unit in play
is one more than its IoOrder (`NoHole`), unless the number of a datagram that was too long is
missing (`Hole`), and then what was numbered later waits for ever; or the
list is stuck at a buffer that `PostSend` freed (`Stuck`). In each of these
cases nothing is sent out of order. `Local` and `OtherConn` keep the
invariant of a connection that a step leaves alone, although the port shifts.

`EchoServed` needs, for a closing to be a step of `Echo`, that all that was
received is echoed. `Covered` says it without counting, for any number of
threads: each unit of a connection that is neither reset nor closed is echoed or
`Carried`, by a completion in the port or at the lock or by the pending list, once
the first send is made; what the accept received goes with that first send
(`Exact`, `Begun`). The rest is `Counts`: the operations of a socket in the kernel and in
the port (`Work`) and the completions in the hands of threads (`Hands`), less the operations that are posted and
not counted (`Owings`), are at most `OutstandingOps`. A thread
that finds itself the last (`IsLast`) counts one, its own; unless another thread owes
a count, nothing of the connection is in the kernel, the port, or another's
hand, so nothing is `Carried`, everything is echoed, and with no receive posted
nothing more arrives before the socket is closed (`Settled`, `Drained`). If another does owe one,
the step puts the connection in `miscounted`, and `Closes` carries either fact to the
closing. One thread owes nothing while it counts off, and the branch of the zero byte
handler that finds no operation counted, not even its own (`decLast`), it never takes;
that is `EchoOfOneThread`. `CheckAccepted` closes only a client on which a post
failed, so one that is gone. The mapping leaves out `Echo`'s `Stop`, which this
server never takes (`UnstoppedSpec`).

*Argument, memory of chapter 5.* `FreeSocketObj` refuses while `OutstandingOps` is not
zero, so `FreedOnce` is a matter of what the count covers. `Work(o)` is the operations
on `o` in the kernel and in the port, `Dues(o)` the completions in the hands of threads,
from taking one to counting it off, less the operations posted and not counted
yet. `Counts` says that their sum is at most `OutstandingOps[o]`: an inequality, because
an accept whose socket the port refuses is never counted off. A step of `HandleIo`
either leaves both sides alone, posts, counts what it posted, or counts off
(`HandleKinds`). So a completion that is taken is on a socket that counts
one at least and that, by `FreedIdle`, is not freed. A second thread could
count off what the first has posted and not counted yet, and a WSASend that failed
leaves a freed buffer in the list: `FreedOnce` excuses both. TLC checked
`LifeInv` on the constants of iocp_echo, with one thread, before the proof. That `ThreadSets` holds
finite sets is assumed: the threads are one per processor.

*Argument, name service.* `Told` is `NoRepeat` with its reason: a lookup was told
of nothing that its query still has ahead of `iIndex`. Removal moves the last
service to the vacant place (`VacateProperties`), so what was ahead stays ahead or
falls behind; nothing comes back. `OwedOK` counts: the services that match and that
the query has left behind, with the places behind `iIndex` beyond the end of the
array (`Gap`), where a service registered later is left behind as well, are at
most the excuses. `Gap` is what makes it inductive: removal leaves `iIndex`
beyond the shortened array. `Handed` and `HandlesOK` say that handles belong to one lookup
unless guessed. `NamesUnique` is inductive with `IdsOK`.

*Argument, layered provider.* The counts are cardinalities of sets of threads and
operations; `Holders(k)` is split into how often one thread refers to `k` and
the rest, so a step that moves one thread changes it by what that thread
gains or loses, and the same for `OpsOf(k)` and one operation. `Shape` and
`Owned` say at which labels a thread refers to a SOCK_INFO or has an operation
that nobody else has, which makes the decrement right; `Pointers`, `HandlesOK` and
`Fresh` that a handle made new refers to a SOCK_INFO without references. `Locked`
is `ClosingIsLocked` with the step between `closesocket` below and `bClosing`.

*Argument, three echo servers of chapter 5.* One invariant, `EchoInv`, serves the select,
the WSAAsyncSelect and the WSAEventSelect server, since they share what is done with
a connection and differ in who does it when. Per connection `ConnOK` has three
parts. `Mail`: the units that wait in the kernel are numbered from the last one
received. `Queued`: the pending buffers are spans of bytes that adjoin, from
`Len(sent)` to the last byte received, unless a send took a part of a buffer
(`partial`), after which only their lengths add up; what the lengths of a sequence add
up to is recursive, so `BytesPending` has lemmas for a buffer appended and one
taken off, by an induction from the well-foundedness of `<`. `Finished`: a connection is
closing only once its client's end was seen, and nothing then arrives. An empty datagram is
a span of no bytes. `AbortsOK`: an abort that is recorded, in a set of `select`, in the
message queue or among a socket's events, is that of a client that was reset, so
that a socket closed for it owes nothing; the socket a datagram too long closes is
the only one that may owe (`TooLong`). `ListsOK` says that an open socket
is in one list, once; so the step that closes it moves no other
connection, and `WorkOK` that the socket a thread has at hand is open and its own. For the
events, `ThreadOK(t)` says at each label what a thread still has to do before it
waits (renumber, or be woken by its own event), and `Matches(t)` that
`Handles` and `SocketList` agree index by index, but between a removal and the renumbering
after it. TLC checked `EchoInv` on the constants of echo_loops before the proof.

*Only model-checked*: all liveness (outside the prover), and with it the parts of
`EverythingSettled`, `EveryoneServed` and the like that say what happens in
the end; all modules of `MCPrograms`.

## Not modelled

What each component leaves out is in `PROJECT.json`. Throughout: statistics,
printing, failures at startup, exhaustion of memory where the code then ends the
process. Whole programs: the straight-line ones of chapters 1, 2, 4 (ATM, IrDA),
7, 8 and 13 (one thread, one socket, nothing that outlives a call), the command
line tools of chapters 15 and 16, which print the replies of a system API, Visual
Basic forms, `StartCD` (binary), and the copies of `resolve.cpp`, stateless
wrappers of getaddrinfo. Name space installation and printing (chapter 12) have no
state either; what `rnrcs.cpp` asks of Winsock before its calls is left out. The parts of `Lsp`'s files left out pass arguments on. For the
listener of chapter 6 several listening sockets would need a second copy of the
model that shares only the threads; `IocpConn` and `IocpListener` together are
beyond TLC with the bounds either needs.

## Plan

Every invariant of the runs is proved but those of `MCPrograms`. What is left is
proof, in this order:

1. The smaller programs of `MCPrograms` whose properties relate several pieces of
   state: `OverlappedExact`, `QosSound`, `NetBiosSound`, `PipesSound`, `CatalogRight`.
2. `IocpEcho` with two threads: whether two can close a connection early. TLC finds
   no such trace; for two threads `EchoServed` still has the excuse.

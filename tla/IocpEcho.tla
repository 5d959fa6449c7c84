------------------------------ MODULE IocpEcho ------------------------------
(***************************************************************************)
(* The completion port server of Samples/chapter05/iocp/server.  Each      *)
(* socket has gOverlappedCount receives posted; IoOrder numbers them, and  *)
(* a receive completed ahead of an earlier one waits in OutOfOrderSends    *)
(* until LastSendIssued reaches it.                                        *)
(*                                                                         *)
(* HandleIo holds SockCritSec of the completion's socket, so what one      *)
(* thread does under it is interleaved with others only where they need no *)
(* lock: the kernel, the error path, OutstandingOps, and the accept path,  *)
(* which holds the lock of the listening socket while it posts on the      *)
(* client's.  Buffers have no identity here: an operation is the unit of   *)
(* data it carries and its IoOrder.                                        *)
(***************************************************************************)
EXTENDS Integers, Sequences, FiniteSets, SequencesExt

CONSTANTS
  Conns,       \* the client sockets; for UDP the one server socket
  Listener,    \* the listening socket's SOCKET_OBJ
  ThreadSets,  \* the completion threads: one per processor of the machine
  gOverlappedCount,
  MaxUnits,    \* MaxUnits[n]: bound: units of data a client sends with n threads
  Protocols,   \* -p
  Faults,      \* Faults[n]: bound: what may fail with n threads, see AllFaults
  NULL

(* reset: a client aborts its connection.                                  *)
(* long: a datagram does not fit the buffer (WSAEMSGSIZE).                 *)
(* post: socket or AcceptEx fails in PostAccept.                           *)
(* port: CreateIoCompletionPort fails for an accepted socket.              *)
AllFaults == {"reset", "long", "post", "port"}

ASSUME ConstAssumption ==
  /\ IsFiniteSet(Conns) /\ Listener \notin Conns /\ NULL \notin Conns \cup {Listener}
  /\ NULL \notin UNION ThreadSets /\ \A S \in ThreadSets : IsFiniteSet(S)
  /\ gOverlappedCount \in Nat \ {0}
  /\ Protocols \subseteq {"tcp", "udp"}
  /\ \A S \in ThreadSets :
       Faults[Cardinality(S)] \subseteq AllFaults /\ MaxUnits[Cardinality(S)] \in Nat

Objs == Conns \cup {Listener}
Threads == UNION ThreadSets

VARIABLES
  gProtocol, threads,  \* the protocol, the completion threads created
  client,      \* client[c]: none, open, fin (has shut down) or reset
  received, echoed,    \* received[c]: units taken from c; echoed[c]: given to WSASend
  accepts,     \* AcceptEx operations outstanding
  recvs,       \* recvs[c]: IoOrder of the outstanding receives, as posted
  sends,       \* sends[c]: the outstanding sends
  port,        \* the completion port
  mem,         \* mem[o]: the SOCKET_OBJ is heap (not allocated), live or freed
  handle,      \* handle[o]: its socket is open or closed
  OutstandingOps, bClosing, IoCountIssued, LastSendIssued, OutOfOrderSends,
  SockCritSec, \* the thread inside
  pc, io,      \* io[w]: the completion thread w handles
  i,           \* i[w]: receives posted for an accepted client
  failed,      \* failed[w]: an operation on the accepted client failed
  leaked,      \* the thread that returned with the listener's lock held
  main,        \* waits, returned (the process ends) or lost (uses freed memory)
  stale,       \* of PendingAccepts: a buffer is freed, a socket is invalid
  sendFailed, gaps,    \* history: a WSASend failed at once; datagrams too long
  miscounted,  \* history: closed on a count without all that was posted
  undefined    \* 1 once freed memory was used: the model stops

clientVars == <<gProtocol, threads, client, received>>
kernelVars == <<accepts, recvs, sends, port, echoed>>
orderVars  == <<IoCountIssued, LastSendIssued, OutOfOrderSends>>
lifeVars   == <<mem, handle>>
threadVars == <<pc, io, i, failed>>
mainVars   == <<main, stale>>
history    == <<leaked, mainVars, sendFailed, gaps, miscounted, undefined>>
vars == <<clientVars, kernelVars, orderVars, lifeVars, OutstandingOps, bClosing,
          SockCritSec, threadVars, history>>

Tcp == gProtocol = "tcp"
Udp == gProtocol = "udp"
NoIo == [sock |-> NULL, conn |-> NULL, op |-> "none", ord |-> 0, unit |-> 0, err |-> 0]
Freed == -1    \* the IoOrder read from a buffer that was freed

\* main: the accepts, or the receives of the datagram socket, are posted.
Init ==
  /\ gProtocol \in Protocols /\ threads \in ThreadSets
  /\ client = [c \in Conns |-> IF Udp THEN "open" ELSE "none"]
  /\ received = [c \in Conns |-> 0] /\ echoed = [c \in Conns |-> <<>>]
  /\ accepts = IF Tcp THEN gOverlappedCount ELSE 0
  /\ recvs = [c \in Conns |-> IF Udp THEN [n \in 1 .. gOverlappedCount |-> n - 1] ELSE <<>>]
  /\ sends = [c \in Conns |-> <<>>] /\ port = <<>>
  /\ mem = [o \in Objs |-> IF Tcp <=> o = Listener THEN "live" ELSE "heap"]
  /\ handle = [o \in Objs |-> "open"]
  /\ OutstandingOps = [o \in Objs |-> IF Tcp <=> o = Listener THEN gOverlappedCount ELSE 0]
  /\ IoCountIssued = [o \in Objs |-> IF Udp THEN gOverlappedCount ELSE 1]
  /\ LastSendIssued = [o \in Objs |-> 0]
  /\ OutOfOrderSends = [o \in Objs |-> <<>>] /\ bClosing = [o \in Objs |-> 0]
  /\ SockCritSec = [o \in Objs |-> NULL]
  /\ pc = [w \in Threads |-> "wait"] /\ io = [w \in Threads |-> NoIo]
  /\ i = [w \in Threads |-> 0] /\ failed = [w \in Threads |-> 0]
  /\ leaked = NULL /\ main = "waits" /\ stale = {}
  /\ sendFailed = 0 /\ gaps = 0 /\ miscounted = {} /\ undefined = 0
-----------------------------------------------------------------------------
(* The clients and the kernel.  Receives of a socket are filled in the     *)
(* order they were posted, sends complete in that order too.               *)

CanFail(f) == f \in Faults[Cardinality(threads)]
Outside == <<orderVars, lifeVars, OutstandingOps, bClosing, SockCritSec, threadVars,
             gProtocol, threads, echoed, leaked, mainVars, sendFailed, miscounted, undefined>>

Done(op, c, n, u, e) == [sock |-> IF op = "accept" THEN Listener ELSE c, conn |-> c,
                         op |-> op, ord |-> n, unit |-> u, err |-> e]
Queue(io_) == port' = Append(port, io_)

Shutdown(c) ==
  /\ Tcp /\ client[c] = "open"
  /\ client' = [client EXCEPT ![c] = "fin"]
  /\ UNCHANGED <<Outside, received, accepts, recvs, sends, port, gaps>>

Reset(c) ==
  /\ Tcp /\ CanFail("reset") /\ client[c] \in {"open", "fin"}
  /\ client' = [client EXCEPT ![c] = "reset"]
  /\ UNCHANGED <<Outside, received, accepts, recvs, sends, port, gaps>>

\* AcceptEx completes with the first data of a client, or with none.
AcceptDone(c) ==
  /\ accepts > 0 /\ client[c] = "none"
  /\ accepts' = accepts - 1
  /\ \E n \in 0 .. 1 :
       /\ n <= MaxUnits[Cardinality(threads)]
       /\ client' = [client EXCEPT ![c] = IF n = 0 THEN "fin" ELSE "open"]
       /\ received' = [received EXCEPT ![c] = n]
       /\ Queue(Done("accept", c, 0, n, 0))
  /\ UNCHANGED <<Outside, recvs, sends, gaps>>

\* The client aborts before it has sent, or the sweep of main (1316) closes
\* the socket of a client that sends nothing; if its accept has completed
\* meanwhile, what the server sees of the sweep is a Reset.
AcceptFails(c) ==
  /\ CanFail("reset") /\ accepts > 0 /\ client[c] = "none"
  /\ client' = [client EXCEPT ![c] = "reset"]
  /\ accepts' = accepts - 1
  /\ Queue(Done("accept", c, 0, 0, 1))
  /\ UNCHANGED <<Outside, received, recvs, sends, gaps>>

\* The receive posted first completes with unit u and error e.
RecvCompletes(c, u, e) ==
  /\ recvs[c] # <<>>
  /\ recvs' = [recvs EXCEPT ![c] = Tail(@)]
  /\ Queue(Done("recv", c, Head(recvs[c]), u, e))
  /\ UNCHANGED <<Outside, client, accepts, sends>>

RecvDone(c) ==
  /\ client[c] = "open" /\ handle[c] = "open" /\ received[c] < MaxUnits[Cardinality(threads)]
  /\ received' = [received EXCEPT ![c] = @ + 1]
  /\ RecvCompletes(c, received[c] + 1, 0)
  /\ UNCHANGED gaps

RecvZero(c) ==
  /\ client[c] = "fin" /\ handle[c] = "open"
  /\ RecvCompletes(c, 0, 0)
  /\ UNCHANGED <<received, gaps>>

RecvError(c) ==
  /\ client[c] = "reset" \/ handle[c] = "closed"
  /\ RecvCompletes(c, 0, 1)
  /\ UNCHANGED <<received, gaps>>

\* One of them is enough to show what it does.
RecvTooLong(c) ==
  /\ Udp /\ CanFail("long") /\ gaps = 0
  /\ gaps' = 1
  /\ RecvCompletes(c, 0, 1)
  /\ UNCHANGED received

\* A reset fails what is outstanding, closesocket may.
SendDone(c) ==
  /\ sends[c] # <<>>
  /\ sends' = [sends EXCEPT ![c] = Tail(@)]
  /\ \E e \in 0 .. 1 :
       /\ client[c] = "reset" => e = 1
       /\ e = 1 => client[c] = "reset" \/ handle[c] = "closed"
       /\ Queue(Done("send", c, 0, Head(sends[c]), e))
  /\ UNCHANGED <<Outside, client, received, accepts, recvs, gaps>>

Kernel(c) == \/ AcceptDone(c) \/ AcceptFails(c) \/ RecvDone(c) \/ RecvZero(c)
             \/ RecvError(c) \/ RecvTooLong(c) \/ SendDone(c)
-----------------------------------------------------------------------------
(* CompletionThread and HandleIo. *)

At(w, l) == pc[w] = l
Goto(w, l) == pc' = [pc EXCEPT ![w] = l]
sock(w) == io[w].sock      \* HandleIo's sock,
conn(w) == io[w].conn      \* and the SOCKET_OBJ it posts on: clientobj in the accept path
Live(o) == mem[o] = "live"

Enter(w, o) ==
  /\ SockCritSec[o] \in {NULL, w} /\ Live(o)
  /\ SockCritSec' = [SockCritSec EXCEPT ![o] = w]
\* A critical section is recursive: one entry too many is never left.
Leave(w, o) ==
  SockCritSec' = [SockCritSec EXCEPT ![o] = IF o = Listener /\ leaked = w THEN w ELSE NULL]

AddOps(o, n) == OutstandingOps' = [OutstandingOps EXCEPT ![o] = @ + n]
SetClosing(o) == bClosing' = [bClosing EXCEPT ![o] = 1]

\* What the steps of a thread leave alone unless they say otherwise.
Rest == <<clientVars, accepts, leaked, mainVars, gaps, miscounted, undefined>>
Kernels == <<recvs, sends, port, echoed>>

Take(w) ==
  /\ w \in threads /\ At(w, "wait") /\ port # <<>>
  /\ io' = [io EXCEPT ![w] = Head(port)] /\ port' = Tail(port)
  /\ Goto(w, IF Tcp /\ Head(port).err = 1 THEN "error" ELSE "enter")
  /\ UNCHANGED <<Rest, recvs, sends, echoed, orderVars, lifeVars, OutstandingOps,
                 bClosing, SockCritSec, i, failed, sendFailed>>

\* The error path: no lock is held, and the buffer of an accept is freed
\* although PendingAccepts has it.
ErrorPath(w) ==
  /\ At(w, "error") /\ Live(sock(w))
  /\ AddOps(sock(w), -1)
  /\ Goto(w, IF OutstandingOps[sock(w)] = 1 THEN "free" ELSE "wait")
  /\ stale' = IF io[w].op = "accept" THEN stale \cup {"freed"} ELSE stale
  /\ UNCHANGED <<clientVars, accepts, leaked, main, gaps, miscounted, undefined, Kernels,
                 orderVars, lifeVars, bClosing, SockCritSec, io, i, failed, sendFailed>>

\* InsertPendingSend keeps the list in the order of IoOrder.
AppendPendingSend(list, b) == Append(list, b)                \* mutant
InsertPendingSend(list, b) ==
  LET k == Cardinality({n \in DOMAIN list : list[n].ord <= b.ord})
  IN InsertAt(list, k + 1, b)

\* Under SockCritSec: a receive with data becomes a pending send, a receive
\* without marks the socket closing, and so does the error of a datagram.
Dispatch(w) ==
  LET c == sock(w)
      data == io[w].err = 0 /\ (io[w].unit > 0 \/ Udp)
  IN /\ At(w, "enter") /\ io[w].op = "recv" /\ Enter(w, c)
     /\ ~\E n \in DOMAIN OutOfOrderSends[c] : OutOfOrderSends[c][n].ord = Freed
     /\ IF data
        THEN /\ OutOfOrderSends' = [OutOfOrderSends EXCEPT ![c] =
                  InsertPendingSend(@, [ord |-> io[w].ord, unit |-> io[w].unit])]
             /\ UNCHANGED bClosing
        ELSE SetClosing(c) /\ UNCHANGED OutOfOrderSends
     /\ Goto(w, IF io[w].err = 0 THEN "sends" ELSE "again")
     /\ UNCHANGED <<Rest, Kernels, IoCountIssued, LastSendIssued, lifeVars,
                    OutstandingOps, io, i, failed, sendFailed>>

SendCompleted(w) ==
  /\ At(w, "enter") /\ io[w].op = "send" /\ Enter(w, sock(w))
  /\ Goto(w, "sends")
  /\ UNCHANGED <<Rest, Kernels, orderVars, lifeVars, OutstandingOps, bClosing, io, i,
                 failed, sendFailed>>

\* PostRecv and PostSend enter the critical section of the object they post on.
MayEnter(c) == SockCritSec[c] = NULL \/ \E w \in Threads : SockCritSec[c] = w /\ conn(w) = c
Gone(c) == client[c] = "reset" \/ handle[c] = "closed"

\* PostSend: LastSendIssued is counted whether WSASend accepts the buffer ...
CountSend(c) == MayEnter(c) /\ LastSendIssued' = [LastSendIssued EXCEPT ![c] = @ + 1]
PostSend(c, unit) ==
  /\ handle[c] = "open" /\ CountSend(c)
  /\ sends' = [sends EXCEPT ![c] = Append(@, unit)]
  /\ echoed' = [echoed EXCEPT ![c] = IF unit > 0 THEN Append(@, unit) ELSE @]
  /\ UNCHANGED <<recvs, port, sendFailed>>
\* ... or fails, on a connection that is gone or closed.
PostSendFails(c) ==
  /\ Gone(c) /\ CountSend(c)
  /\ sendFailed' = 1
  /\ UNCHANGED Kernels

AnyInOrder(c) == OutOfOrderSends[c] # <<>>                   \* mutant
InOrder(c) ==
  OutOfOrderSends[c] # <<>> /\ Head(OutOfOrderSends[c]).ord = LastSendIssued[c]

\* DoSends: the next buffer in order goes out ...
DoSend(w) ==
  LET c == sock(w) IN
  /\ At(w, "sends") /\ Live(c) /\ InOrder(c)
  /\ PostSend(c, Head(OutOfOrderSends[c]).unit)
  /\ OutOfOrderSends' = [OutOfOrderSends EXCEPT ![c] = Tail(@)]
  /\ Goto(w, "incSend")
  /\ UNCHANGED <<Rest, IoCountIssued, lifeVars, OutstandingOps, bClosing, SockCritSec,
                 io, i, failed>>

\* ... or fails and is freed, but stays the head of the list.
DoSendFails(w) ==
  LET c == sock(w) IN
  /\ At(w, "sends") /\ Live(c) /\ InOrder(c)
  /\ PostSendFails(c)
  /\ OutOfOrderSends' = [OutOfOrderSends EXCEPT ![c] = [@ EXCEPT ![1].ord = Freed]]
  /\ UNCHANGED <<Rest, IoCountIssued, lifeVars, OutstandingOps, io, i, failed>>

\* ... until none is in order.
NoSend(w, l) ==
  LET c == sock(w) IN
  /\ At(w, l) /\ Live(c) /\ ~InOrder(c)
  /\ ~(OutOfOrderSends[c] # <<>> /\ Head(OutOfOrderSends[c]).ord = Freed)

\* The zero byte handler finds no operation counted, not even its own.
NoneCounted(w) ==
  /\ io[w].op = "recv" /\ io[w].unit = 0
  /\ OutstandingOps[sock(w)] = 0 /\ OutOfOrderSends[sock(w)] = <<>>

\* The first DoSends; after it a receive with data is posted again.
Sends(w) ==
  \/ DoSend(w)
  \/ /\ DoSendFails(w)
     /\ SetClosing(sock(w)) /\ Goto(w, "dec") /\ UNCHANGED SockCritSec
  \/ /\ NoSend(w, "sends")
     /\ Goto(w, IF io[w].op = "recv" /\ (io[w].unit > 0 \/ Udp) THEN "again"
                ELSE IF NoneCounted(w) THEN "decLast" ELSE "dec")
     /\ UNCHANGED <<Rest, Kernels, orderVars, lifeVars, OutstandingOps, bClosing,
                    SockCritSec, io, i, failed, sendFailed>>

\* PostRecv on object c: the receive gets the next IoOrder, which is used up
\* even if WSARecv fails.
CountRecv(c) ==
  /\ MayEnter(c)
  /\ IoCountIssued' = [IoCountIssued EXCEPT ![c] = @ + 1]
  /\ UNCHANGED <<sends, port, echoed, LastSendIssued, OutOfOrderSends, sendFailed>>
PostRecv(c) ==
  /\ handle[c] = "open" /\ CountRecv(c)
  /\ recvs' = [recvs EXCEPT ![c] = Append(@, IoCountIssued[c])]
PostRecvFails(c) == Gone(c) /\ CountRecv(c) /\ UNCHANGED recvs

ReceiveAgain(w) ==
  /\ At(w, "again") /\ Live(sock(w))
  /\ \/ PostRecv(sock(w)) /\ Goto(w, "incRecv") /\ UNCHANGED bClosing
     \/ PostRecvFails(sock(w)) /\ Goto(w, "dec") /\ SetClosing(sock(w))
  /\ UNCHANGED <<Rest, lifeVars, OutstandingOps, SockCritSec, io, i, failed>>

\* The operation just posted is counted: the end of PostRecv and PostSend,
\* outside the critical section these two have entered.
RecvOnly(w) == IF At(w, "incSend") THEN 0 ELSE 1             \* mutant
Posted(w) == 1
CountPost(w) ==
  /\ \/ At(w, "incRecv") /\ Goto(w, "dec") /\ UNCHANGED i
     \/ At(w, "incSend") /\ Goto(w, "sends") /\ UNCHANGED i
     \/ At(w, "countSend") /\ Goto(w, "receives") /\ i' = [i EXCEPT ![w] = 0]
     \/ At(w, "countRecv") /\ Goto(w, "receives") /\ i' = [i EXCEPT ![w] = @ + 1]
  /\ Live(conn(w)) /\ AddOps(conn(w), Posted(w))
  /\ UNCHANGED <<Rest, Kernels, orderVars, lifeVars, bClosing, SockCritSec, io, failed,
                 sendFailed>>

IsLastBefore(c) == OutstandingOps[c] = 0 /\ bClosing[c] = 1 /\ OutOfOrderSends[c] = <<>>  \* mutant
IsLast(c) == OutstandingOps[c] = 1 /\ bClosing[c] = 1 /\ OutOfOrderSends[c] = <<>>

\* The operation w has posted and not counted is on c.
Uncounted(w, c) == pc[w] \in {"incRecv", "incSend", "countSend", "countRecv"} /\ conn(w) = c
\* The count that closes c leaves out an operation that another thread has
\* posted, or the one w completes itself.
Miscounts(w, c) == At(w, "decLast") \/ \E v \in Threads \ {w} : Uncounted(v, c)

\* The completion is counted off; the last of a closing socket cleans up,
\* and so does a zero byte receive that was not counted yet.
CountOff(w) ==
  /\ At(w, "dec") \/ At(w, "decLast")
  /\ Live(sock(w)) /\ AddOps(sock(w), -1)
  /\ IF At(w, "decLast") \/ IsLast(sock(w))
     THEN /\ Leave(w, sock(w)) /\ Goto(w, "close")
          /\ miscounted' = miscounted \cup (IF Miscounts(w, sock(w)) THEN {sock(w)} ELSE {})
     ELSE Goto(w, "tail") /\ UNCHANGED <<SockCritSec, miscounted>>
  /\ UNCHANGED <<clientVars, accepts, leaked, mainVars, gaps, undefined, Kernels, orderVars,
                 lifeVars, bClosing, io, i, failed, sendFailed>>

\* The second DoSends, and the end of the critical section.  What was in
\* order the first one has sent under the same lock, or failed on; a buffer
\* left in order here would stop the thread and EverythingSettled show it.
TailSends(w) ==
  /\ NoSend(w, "tail")
  /\ Leave(w, sock(w)) /\ Goto(w, "wait")
  /\ UNCHANGED <<Rest, Kernels, orderVars, lifeVars, OutstandingOps, bClosing, io, i,
                 failed, sendFailed>>

CloseSocket(w) ==
  /\ At(w, "close") /\ Live(sock(w))
  /\ handle' = [handle EXCEPT ![sock(w)] = "closed"]
  /\ Goto(w, "free")
  /\ UNCHANGED <<Rest, Kernels, orderVars, mem, OutstandingOps, bClosing, SockCritSec,
                 io, i, failed, sendFailed>>

\* FreeSocketObj refuses while operations are outstanding.
FreeSocketObj(o) ==
  mem' = [mem EXCEPT ![o] = IF OutstandingOps[o] # 0 THEN @ ELSE "freed"]

Free(w) ==
  /\ At(w, "free") /\ Live(sock(w))
  /\ FreeSocketObj(sock(w))
  /\ Goto(w, "wait")
  /\ UNCHANGED <<Rest, Kernels, orderVars, handle, OutstandingOps, bClosing, SockCritSec,
                 io, i, failed, sendFailed>>
-----------------------------------------------------------------------------
(* OP_ACCEPT: a SOCKET_OBJ is made, the data of the accept is sent, and    *)
(* gOverlappedCount receives are posted, all under the listener's lock.    *)

Accepted(w) ==
  /\ At(w, "enter") /\ io[w].op = "accept" /\ Enter(w, Listener)
  /\ mem' = [mem EXCEPT ![conn(w)] = "live"]
  /\ failed' = [failed EXCEPT ![w] = 0]
  /\ \/ Goto(w, "firstSend") /\ UNCHANGED <<leaked, stale>>
     \/ CanFail("port") /\ Goto(w, "wait") /\ leaked' = w /\ stale' = stale \cup {"invalid"}
  /\ UNCHANGED <<clientVars, accepts, main, gaps, miscounted, undefined, Kernels, orderVars,
                 handle, OutstandingOps, bClosing, io, i, sendFailed>>

Fail(w) == failed' = [failed EXCEPT ![w] = 1]

FirstSend(w) ==
  /\ At(w, "firstSend") /\ Live(conn(w))
  /\ \/ PostSend(conn(w), io[w].unit) /\ Goto(w, "countSend") /\ UNCHANGED failed
     \/ PostSendFails(conn(w)) /\ Goto(w, "reaccept") /\ Fail(w)
  /\ UNCHANGED <<Rest, IoCountIssued, OutOfOrderSends, lifeVars, OutstandingOps,
                 bClosing, SockCritSec, io, i>>

FirstReceives(w) ==
  /\ At(w, "receives")
  /\ IF i[w] < gOverlappedCount
     THEN /\ Live(conn(w))
          /\ \/ PostRecv(conn(w)) /\ Goto(w, "countRecv") /\ UNCHANGED failed
             \/ PostRecvFails(conn(w)) /\ Goto(w, "reaccept") /\ Fail(w)
     ELSE /\ Goto(w, "reaccept")
          /\ UNCHANGED <<Kernels, orderVars, failed, sendFailed>>
  /\ UNCHANGED <<Rest, lifeVars, OutstandingOps, bClosing, SockCritSec, io, i>>

\* PostAccept: its failure, that of socket or of AcceptEx, is not looked at.
PostAccept(w) ==
  /\ At(w, "reaccept") /\ Live(Listener)
  /\ \/ accepts' = accepts + 1 /\ Goto(w, "countAccept") /\ UNCHANGED stale
     \/ /\ CanFail("post") /\ Goto(w, "check") /\ UNCHANGED accepts
        /\ stale' = stale \/ stale' = stale \cup {"invalid"}
  /\ UNCHANGED <<clientVars, leaked, main, gaps, miscounted, undefined, Kernels, orderVars,
                 lifeVars, OutstandingOps, bClosing, SockCritSec, io, i, failed, sendFailed>>

CountAccept(w) ==
  /\ At(w, "countAccept") /\ Live(Listener)
  /\ AddOps(Listener, 1)
  /\ Goto(w, "check")
  /\ UNCHANGED <<Rest, Kernels, orderVars, lifeVars, bClosing, SockCritSec, io, i,
                 failed, sendFailed>>

\* A client on which a post failed is closed, or marked closing while it has
\* operations; its lock is not taken.
CheckAccepted(w) ==
  LET c == conn(w) IN
  /\ At(w, "check") /\ (failed[w] = 1 => Live(c))
  /\ IF failed[w] = 1 /\ OutstandingOps[c] = 0
     THEN /\ handle' = [handle EXCEPT ![c] = "closed"]
          /\ FreeSocketObj(c) /\ UNCHANGED bClosing
     ELSE /\ IF failed[w] = 1 THEN SetClosing(c) ELSE UNCHANGED bClosing
          /\ UNCHANGED lifeVars
  /\ Goto(w, "dec")
  /\ UNCHANGED <<Rest, Kernels, orderVars, OutstandingOps, SockCritSec, io, i, failed,
                 sendFailed>>
-----------------------------------------------------------------------------
(* The sweep of main, once a minute: SO_CONNECT_TIME of the socket of each *)
(* of PendingAccepts.                                                      *)

\* getsockopt fails on what socket did not return, and on a socket closed
\* while its buffer is not posted again: by the sweep before this one, or by
\* another thread.
BadSocket ==
  \/ "invalid" \in stale
  \/ \E n \in DOMAIN port : port[n].op = "accept" /\ port[n].err = 1
  \/ \E w \in Threads :
       \/ At(w, "error") /\ io[w].op = "accept"
       \/ pc[w] \in {"firstSend", "countSend", "receives", "countRecv", "reaccept"} /\ Gone(conn(w))
\* Then main returns, and the process ends.
Sweep ==
  /\ Tcp
  /\ \/ "freed" \in stale /\ main' = "lost"
     \/ BadSocket /\ main' = "returned"
  /\ UNCHANGED <<clientVars, kernelVars, orderVars, lifeVars, OutstandingOps, bClosing,
                 SockCritSec, threadVars, leaked, stale, sendFailed, gaps, miscounted, undefined>>
-----------------------------------------------------------------------------
\* The SOCKET_OBJ or the head of its list has been freed and is used.
UsesSock == {"error", "enter", "sends", "incSend", "again", "incRecv", "dec", "decLast", "tail",
             "close", "free", "reaccept", "countAccept"}
UsesConn == {"firstSend", "countSend", "receives", "countRecv"}
Dangling(w) ==
  \/ pc[w] \in UsesSock /\ mem[sock(w)] = "freed"
  \/ pc[w] \in UsesConn /\ mem[conn(w)] = "freed" /\ (At(w, "receives") => i[w] < gOverlappedCount)
  \/ At(w, "check") /\ failed[w] = 1 /\ mem[conn(w)] = "freed"
  \/ /\ At(w, "sends") \/ At(w, "tail") \/ (At(w, "enter") /\ io[w].op = "recv")
     /\ sock(w) \in Conns /\ OutOfOrderSends[sock(w)] # <<>>
     /\ Head(OutOfOrderSends[sock(w)]).ord = Freed

UseAfterFree(w) ==
  /\ Dangling(w)
  /\ undefined' = 1
  /\ UNCHANGED <<clientVars, kernelVars, orderVars, lifeVars, OutstandingOps, bClosing,
                 SockCritSec, threadVars, leaked, mainVars, sendFailed, gaps, miscounted>>

AcceptPath(w) == \/ Accepted(w) \/ FirstSend(w) \/ FirstReceives(w) \/ PostAccept(w)
                 \/ CountAccept(w) \/ CheckAccepted(w)
HandleIo(w) == \/ ErrorPath(w) \/ Dispatch(w) \/ SendCompleted(w) \/ Sends(w)
               \/ ReceiveAgain(w) \/ CountPost(w) \/ CountOff(w) \/ TailSends(w)
               \/ CloseSocket(w) \/ Free(w) \/ AcceptPath(w) \/ UseAfterFree(w)

Runs == undefined = 0 /\ main = "waits"
Next ==
  /\ Runs
  /\ \/ \E c \in Conns : Shutdown(c) \/ Reset(c) \/ Kernel(c)
     \/ \E w \in Threads : Take(w) \/ HandleIo(w)
     \/ Sweep

Spec == Init /\ [][Next]_vars

(* Threads run, the port hands out completions, and what has been posted   *)
(* completes once it can; clients need not come, send or leave.            *)
Fairness ==
  /\ \A w \in Threads : WF_vars(Runs /\ HandleIo(w))
  /\ WF_vars(Runs /\ \E w \in Threads : Take(w))
  /\ \A c \in Conns : WF_vars(Runs /\ (RecvZero(c) \/ RecvError(c) \/ SendDone(c)))

FairSpec == Spec /\ Fairness
-----------------------------------------------------------------------------
(* Properties. *)

\* The IoOrders of c that have not been sent: receives outstanding, in the
\* port, in a thread that has not inserted its buffer yet, and pending sends.
InPlay(c) ==
  Range(recvs[c])
  \cup {port[n].ord : n \in {m \in DOMAIN port : port[m].op = "recv" /\ port[m].conn = c}}
  \cup {io[w].ord : w \in {v \in Threads : At(v, "enter") /\ io[v].op = "recv" /\ conn(v) = c}}
  \cup {OutOfOrderSends[c][n].ord : n \in DOMAIN OutOfOrderSends[c]}

\* No receive of c has completed without data, and its first unit was sent.
Receiving(c) ==
  /\ Live(c) /\ bClosing[c] = 0 /\ client[c] # "reset" /\ gaps = 0 /\ leaked = NULL
  /\ ~\E n \in DOMAIN port : port[n].op = "recv" /\ port[n].unit = 0
  /\ ~\E w \in Threads : At(w, "enter") /\ io[w].op = "recv" /\ io[w].unit = 0
  /\ ~\E w \in Threads : At(w, "firstSend")

\* While a socket receives data, the numbers from LastSendIssued to
\* IoCountIssued are each on one receive or buffer, so the buffer DoSends
\* waits for exists, and the pending list is sorted (644: "the send list is
\* in the same order as the receives were posted").
OrdersContiguous ==
  \A c \in Conns : Receiving(c) =>
    /\ InPlay(c) = LastSendIssued[c] .. (IoCountIssued[c] - 1)
    /\ \A m, n \in DOMAIN OutOfOrderSends[c] :
         m < n => OutOfOrderSends[c][m].ord < OutOfOrderSends[c][n].ord

\* A SOCKET_OBJ or a pending buffer that was freed is used again only with
\* several completion threads, or after a WSASend that failed at once.
FreedOnce == undefined = 1 => Cardinality(threads) > 1 \/ sendFailed = 1

\* The header: "Once data is received on a client socket, it is echoed
\* back", in order whatever order the completions are handled in, until the
\* process ends.  A socket is closed with data not echoed only after a reset,
\* or by a thread that counted off the last operation while one was posted
\* and not counted: with three threads, the second's send completes and
\* closes the socket while the first is about to count it, and the third has
\* data.
Echoes == INSTANCE Echo WITH
  open <- [c \in Conns |-> handle[c] = "open"],
  broken <- [c \in Conns |-> client[c] = "reset" \/ c \in miscounted]
ImplementsEcho == Echoes!UnstoppedSpec

\* c has received what it has not sent back, or has left and is not freed;
\* this is permanent only if the client is gone, a datagram that was too long
\* left a gap in IoOrder, the accept path returned with the listener locked,
\* memory was corrupted, main has returned, or, for the SOCKET_OBJ, two
\* threads raced.
Owed(c) == Len(echoed[c]) < received[c] /\ client[c] # "reset" /\ gaps = 0
Unfreed(c) == Live(c) /\ client[c] \in {"fin", "reset"} /\ Cardinality(threads) = 1
Unsettled(c) == (Owed(c) \/ Unfreed(c)) /\ leaked = NULL /\ Runs

\* Everything received is echoed in the end, and with one completion thread
\* the SOCKET_OBJ of a client that leaves is freed.
EverythingSettled == \A c \in Conns : Unsettled(c) ~> ~Unsettled(c)
=============================================================================

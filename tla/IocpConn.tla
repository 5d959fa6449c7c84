------------------------------ MODULE IocpConn ------------------------------
(***************************************************************************)
(* The connection engine of Samples/chapter06/iocpserver.cpp.  Several     *)
(* completion threads run HandleIo on the completions of one port.  Every  *)
(* connection has one BUFFER_OBJ that goes round: the accept fills it, it  *)
(* is queued on gPendingSendList, sent, used for the next receive, queued  *)
(* again.  gOutstandingSends throttles the sends of the whole server.      *)
(*                                                                         *)
(* One action is one access to memory another thread can touch at the same *)
(* time, so the interleavings are those of the C program: the interlocked  *)
(* counters, the unlocked reads of HandleIo's tail, and the critical       *)
(* sections SockCritSec, gPendingCritSec and gSocketListCs.                *)
(***************************************************************************)
EXTENDS Integers, Sequences, FiniteSets

CONSTANTS
  Workers,    \* the completion threads
  Buffers,    \* the BUFFER_OBJs
  SockObjs,   \* the SOCKET_OBJs the heap can supply
  MaxSends,   \* gMaxSends, the -os option
  MaxConns,   \* bound of the model: connections accepted in one behaviour
  Faults,     \* what the environment may do, see AllFaults
  NULL        \* the null pointer

(* close: a peer shuts its side down, a receive returns 0 bytes.           *)
(* error: a posted receive or send completes with an error.                *)
(* post: WSARecv or WSASend fails at once, not with WSA_IO_PENDING.        *)
(* port: CreateIoCompletionPort fails for an accepted socket.              *)
AllFaults == {"close", "error", "post", "port"}

ASSUME ConstAssumption ==
  /\ IsFiniteSet(Workers) /\ Workers # {}
  /\ IsFiniteSet(Buffers)
  /\ MaxSends \in Nat \ {0}
  /\ MaxConns \in Nat
  /\ Faults \subseteq AllFaults
  /\ NULL \notin Buffers /\ NULL \notin SockObjs

VARIABLES
  pool,        \* buffers of no connection: lookaside list or under AcceptEx
  posted,      \* posted[b]: the overlapped operation b is outstanding for
  pending,     \* gPendingSendList .. gPendingSendListEnd
  bufSock,     \* bufSock[b]: BUFFER_OBJ.sock, and the key of b's completion
  gOutstandingSends,
  gConnections,\* connections accepted so far
  s,           \* the members of the SOCKET_OBJs, as functions: s[o] the socket,
  bClosing,    \* bClosing[o] whether it is closing,
  OutstandingRecv, OutstandingSend, PendingSend,   \* the counters,
  SockCritSec, \* the thread inside its critical section,
  next,        \* the link of the lookaside list
  gFreeSocketList,
  heap,        \* SOCKET_OBJs HeapAlloc has not handed out yet
  pc,          \* pc[w]: where thread w is
  buf,         \* buf[w]: the buffer thread w has in hand
  sockobj,     \* sockobj[w]: HandleIo's sockobj
  sock,        \* sock[w]: the socket argument of the PostRecv or PostSend w is in
  bCleanup,    \* bCleanup[w]: HandleIo's bCleanupSocket
  errSends,    \* history: sends that completed with an error
  broke        \* history: a PostSend failed, ProcessPendingOperations left its loop

kernelVars == <<posted, pool>>
listVars   == <<pending, bufSock>>
freeVars   == <<next, gFreeSocketList, heap>>
objVars    == <<s, bClosing, OutstandingRecv, OutstandingSend, PendingSend, SockCritSec>>
sockVars   == <<objVars, freeVars>>
localVars  == <<pc, buf, sockobj, sock, bCleanup>>
history    == <<gConnections, errSends, broke>>
vars == <<kernelVars, listVars, gOutstandingSends, sockVars, localVars, history>>

Labels == {"wait", "enqueue", "setClosing", "zeroSend", "zeroRecv",
           "readClosing", "decOut", "postRecv", "incRecv", "process",
           "dequeue", "postSend", "incSend", "incOut", "tailSend",
           "tailRecv", "tailClosing", "cleanup", "free", "errSend",
           "errRecv", "errFree"}

Init ==
  /\ pool = Buffers
  /\ posted = [b \in Buffers |-> "none"]
  /\ pending = <<>>
  /\ bufSock = [b \in Buffers |-> NULL]
  /\ gOutstandingSends = 0
  /\ gConnections = 0
  /\ s = [o \in SockObjs |-> "0"]
  /\ bClosing = [o \in SockObjs |-> 0]
  /\ OutstandingRecv = [o \in SockObjs |-> 0]
  /\ OutstandingSend = [o \in SockObjs |-> 0]
  /\ PendingSend = [o \in SockObjs |-> 0]
  /\ SockCritSec = [o \in SockObjs |-> NULL]
  /\ next = [o \in SockObjs |-> NULL]
  /\ gFreeSocketList = NULL
  /\ heap = SockObjs
  /\ pc = [w \in Workers |-> "wait"]
  /\ buf = [w \in Workers |-> NULL]
  /\ sockobj = [w \in Workers |-> NULL]
  /\ sock = [w \in Workers |-> NULL]
  /\ bCleanup = [w \in Workers |-> 0]
  /\ errSends = 0
  /\ broke = 0
-----------------------------------------------------------------------------
At(w, l) == pc[w] = l
Goto(w, l) == pc' = [pc EXCEPT ![w] = l]
Hold(w, b) == buf' = [buf EXCEPT ![w] = b]
Cleanup(w, c) == bCleanup' = [bCleanup EXCEPT ![w] = c]
CanFail(f) == f \in Faults

\* What a thread's own steps leave alone unless they say otherwise.
Own == <<sockobj, sock, bCleanup, history>>
Lists == <<kernelVars, listVars, gOutstandingSends>>
Counters == <<OutstandingRecv, OutstandingSend, PendingSend>>

\* A step that only tests something and goes on.
Test(w, from, to) ==
  /\ At(w, from) /\ Goto(w, to)
  /\ UNCHANGED <<Lists, sockVars, buf, Own>>

\* gConnections counts the accepts.
Connected ==
  /\ gConnections < MaxConns
  /\ gConnections' = gConnections + 1

\* Pop the lookaside list of SOCKET_OBJs.
PopNothing(o) == UNCHANGED gFreeSocketList               \* mutant
PopFreeSocket(o) == gFreeSocketList' = next[o]

\* GetSocketObj: the head of the lookaside list, or a new object.  Only the
\* link and the socket are set.
GetSocketObj(o) ==
  /\ \/ /\ gFreeSocketList # NULL /\ o = gFreeSocketList
        /\ PopFreeSocket(o)
        /\ heap' = heap
     \/ /\ gFreeSocketList = NULL /\ o \in heap
        /\ heap' = heap \ {o}
        /\ UNCHANGED gFreeSocketList
  /\ next' = [next EXCEPT ![o] = NULL]
  /\ s' = [s EXCEPT ![o] = "open"]
  /\ UNCHANGED <<bClosing, Counters, SockCritSec>>

\* The memset of FreeSocketObj, which puts SockCritSec back.
ZeroAll(o) ==                                            \* mutant
  /\ s' = [s EXCEPT ![o] = "0"]
  /\ bClosing' = [bClosing EXCEPT ![o] = 0]
  /\ OutstandingRecv' = [OutstandingRecv EXCEPT ![o] = 0]
  /\ OutstandingSend' = [OutstandingSend EXCEPT ![o] = 0]
  /\ PendingSend' = [PendingSend EXCEPT ![o] = 0]
  /\ SockCritSec' = [SockCritSec EXCEPT ![o] = 0]

Zero(o) ==
  /\ s' = [s EXCEPT ![o] = "0"]
  /\ bClosing' = [bClosing EXCEPT ![o] = 0]
  /\ OutstandingRecv' = [OutstandingRecv EXCEPT ![o] = 0]
  /\ OutstandingSend' = [OutstandingSend EXCEPT ![o] = 0]
  /\ PendingSend' = [PendingSend EXCEPT ![o] = 0]
  /\ UNCHANGED SockCritSec

\* FreeSocketObj: clear the object and push it on the lookaside list.
FreeSocketObj(o) ==
  /\ Zero(o)
  /\ next' = [next EXCEPT ![o] = gFreeSocketList]
  /\ gFreeSocketList' = o
  /\ heap' = heap

\* FreeBufferObj puts a buffer where the next accept can have it.
FreeBufferObj(b) == pool' = pool \cup {b}
-----------------------------------------------------------------------------
(* Completions.  GetQueuedCompletionStatus hands an operation to one       *)
(* thread, which first decrements the socket's counter; nothing looks at   *)
(* the port in between, so both are one step.                              *)

\* OP_ACCEPT: the buffer arrives filled and a SOCKET_OBJ is made for it.
AcceptDone(w, b, o) ==
  /\ At(w, "wait") /\ b \in pool
  /\ Connected /\ GetSocketObj(o)
  /\ pool' = pool \ {b}
  /\ bufSock' = [bufSock EXCEPT ![b] = o]
  /\ Hold(w, b) /\ Goto(w, "enqueue")
  /\ sockobj' = [sockobj EXCEPT ![w] = NULL]
  /\ Cleanup(w, 0)
  /\ UNCHANGED <<posted, pending, gOutstandingSends, sock, errSends, broke>>

\* The port refuses the new socket: HandleIo returns with both objects lost.
AcceptNoPort(w, b, o) ==
  /\ At(w, "wait") /\ b \in pool /\ CanFail("port")
  /\ Connected /\ GetSocketObj(o)
  /\ pool' = pool \ {b}
  /\ UNCHANGED <<posted, listVars, gOutstandingSends, localVars, errSends, broke>>

\* GetSocketObj finds no memory: the socket is closed, the buffer freed.
AcceptNoMemory(w, b) ==
  /\ At(w, "wait") /\ b \in pool
  /\ Connected /\ gFreeSocketList = NULL /\ heap = {}
  /\ sockobj' = [sockobj EXCEPT ![w] = NULL]
  /\ Cleanup(w, 0) /\ Goto(w, "process")
  /\ UNCHANGED <<Lists, sockVars, buf, sock, errSends, broke>>

\* Take the completion of operation op on buffer b and go on at label l.
Take(w, b, op, l) ==
  /\ At(w, "wait") /\ posted[b] = op
  /\ posted' = [posted EXCEPT ![b] = "none"]
  /\ sockobj' = [sockobj EXCEPT ![w] = bufSock[b]]
  /\ Hold(w, b) /\ Cleanup(w, 0) /\ Goto(w, l)
  /\ UNCHANGED <<pool, listVars, gOutstandingSends, s, bClosing, PendingSend,
                 SockCritSec, freeVars, sock, gConnections, broke>>

DecRecv(o) ==
  /\ OutstandingRecv' = [OutstandingRecv EXCEPT ![o] = @ - 1]
  /\ UNCHANGED <<OutstandingSend, errSends>>

DecSend(o) ==
  /\ OutstandingSend' = [OutstandingSend EXCEPT ![o] = @ - 1]
  /\ UNCHANGED OutstandingRecv

RecvDoneUncounted(w, b) ==                               \* mutant
  Take(w, b, "recv", "enqueue") /\ UNCHANGED <<OutstandingRecv, OutstandingSend, errSends>>

RecvDone(w, b) == Take(w, b, "recv", "enqueue") /\ DecRecv(bufSock[b])

RecvZero(w, b) ==
  CanFail("close") /\ Take(w, b, "recv", "setClosing") /\ DecRecv(bufSock[b])

SendDone(w, b) ==
  Take(w, b, "send", "decOut") /\ DecSend(bufSock[b]) /\ UNCHANGED errSends

\* The error path: a counter that reaches 0 leads to a look at the other
\* one, any other value only frees the buffer.
RecvError(w, b) ==
  /\ CanFail("error")
  /\ Take(w, b, "recv", IF OutstandingRecv[bufSock[b]] = 1 THEN "errSend" ELSE "errFree")
  /\ DecRecv(bufSock[b])

\* As RecvError; gOutstandingSends stays as it is.
SendError(w, b) ==
  /\ CanFail("error")
  /\ Take(w, b, "send", IF OutstandingSend[bufSock[b]] = 1 THEN "errRecv" ELSE "errFree")
  /\ DecSend(bufSock[b])
  /\ errSends' = errSends + 1

\* The other half of the test, another read: FreeSocketObj if it is 0 too.
ErrOther(w) ==
  /\ \/ At(w, "errSend") /\ OutstandingSend[sockobj[w]] = 0 /\ FreeSocketObj(sockobj[w])
     \/ At(w, "errSend") /\ OutstandingSend[sockobj[w]] # 0 /\ UNCHANGED sockVars
     \/ At(w, "errRecv") /\ OutstandingRecv[sockobj[w]] = 0 /\ FreeSocketObj(sockobj[w])
     \/ At(w, "errRecv") /\ OutstandingRecv[sockobj[w]] # 0 /\ UNCHANGED sockVars
  /\ Goto(w, "errFree")
  /\ UNCHANGED <<Lists, buf, Own>>

ErrFree(w) ==
  /\ At(w, "errFree")
  /\ FreeBufferObj(buf[w])
  /\ Hold(w, NULL) /\ Goto(w, "wait")
  /\ UNCHANGED <<posted, listVars, gOutstandingSends, sockVars, Own>>
-----------------------------------------------------------------------------
(* The success path of HandleIo, by operation. *)

\* A received or accepted buffer becomes a send: EnqueuePendingOperation.
Enqueue(w) ==
  /\ At(w, "enqueue")
  /\ PendingSend' = [PendingSend EXCEPT ![bufSock[buf[w]]] = @ + 1]
  /\ pending' = Append(pending, buf[w])
  /\ Hold(w, NULL) /\ Goto(w, "process")
  /\ UNCHANGED <<kernelVars, bufSock, gOutstandingSends, s, bClosing, OutstandingRecv,
                 OutstandingSend, SockCritSec, freeVars, Own>>

\* A zero byte receive: mark the socket closing, free the buffer.
SetClosing(w) ==
  /\ At(w, "setClosing")
  /\ bClosing' = [bClosing EXCEPT ![sockobj[w]] = 1]
  /\ FreeBufferObj(buf[w])
  /\ Hold(w, NULL) /\ Goto(w, "zeroSend")
  /\ UNCHANGED <<posted, listVars, gOutstandingSends, s, Counters, SockCritSec,
                 freeVars, Own>>

\* Inside SockCritSec: nothing outstanding?  The first of the two reads...
ZeroSendNone(w) ==
  LET o == sockobj[w] IN
  /\ At(w, "zeroSend") /\ SockCritSec[o] = NULL /\ OutstandingSend[o] = 0
  /\ SockCritSec' = [SockCritSec EXCEPT ![o] = w]
  /\ Goto(w, "zeroRecv")
  /\ UNCHANGED <<Lists, s, bClosing, Counters, freeVars, buf, Own>>

ZeroSendSome(w) ==
  /\ Test(w, "zeroSend", "process")
  /\ SockCritSec[sockobj[w]] = NULL /\ OutstandingSend[sockobj[w]] # 0

\* ... and the second, which decides bCleanupSocket.
ZeroRecv(w) ==
  LET o == sockobj[w] IN
  /\ At(w, "zeroRecv")
  /\ Cleanup(w, IF OutstandingRecv[o] = 0 THEN 1 ELSE 0)
  /\ SockCritSec' = [SockCritSec EXCEPT ![o] = NULL]
  /\ Goto(w, "process")
  /\ UNCHANGED <<Lists, s, bClosing, Counters, freeVars, buf, sockobj, sock, history>>

\* A completed send gives its slot back.
KeepSlot == UNCHANGED gOutstandingSends                  \* mutant
ReturnSlot == gOutstandingSends' = gOutstandingSends - 1

DecOut(w) ==
  /\ At(w, "decOut")
  /\ ReturnSlot
  /\ Goto(w, "readClosing")
  /\ UNCHANGED <<kernelVars, listVars, sockVars, buf, Own>>

\* Receive again unless the socket is closing; ...
ReceiveAgain(w) ==
  /\ At(w, "readClosing") /\ bClosing[sockobj[w]] = 0
  /\ bufSock' = [bufSock EXCEPT ![buf[w]] = sockobj[w]]
  /\ sock' = [sock EXCEPT ![w] = sockobj[w]]
  /\ Goto(w, "postRecv")
  /\ UNCHANGED <<kernelVars, pending, gOutstandingSends, sockVars, buf, sockobj,
                 bCleanup, history>>

\* ... if it is, the buffer is lost.
ReceiveNoMore(w) ==
  /\ At(w, "readClosing") /\ bClosing[sockobj[w]] # 0
  /\ Hold(w, NULL) /\ Goto(w, "process")
  /\ UNCHANGED <<Lists, sockVars, Own>>

\* Hand buf[w] to the kernel under SockCritSec, for operation op.  From here
\* on it can complete: the counters are incremented afterwards.
Issue(w, op, l) ==
  LET o == sock[w] IN
  /\ SockCritSec[o] = NULL /\ s[o] = "open"
  /\ posted' = [posted EXCEPT ![buf[w]] = op]
  /\ SockCritSec' = [SockCritSec EXCEPT ![o] = w]
  /\ Hold(w, NULL) /\ Goto(w, l)
  /\ UNCHANGED <<pool, broke>>

\* WSARecv or WSASend returns an error other than WSA_IO_PENDING.
IssueFails(w, l) ==
  /\ SockCritSec[sock[w]] = NULL
  /\ CanFail("post") \/ s[sock[w]] # "open"
  /\ Hold(w, NULL) /\ Goto(w, l)
  /\ UNCHANGED <<posted, SockCritSec>>

\* HandleIo does not look at PostRecv's result.
PostRecv(w) ==
  /\ At(w, "postRecv")
  /\ \/ Issue(w, "recv", "incRecv")
     \/ IssueFails(w, "process") /\ UNCHANGED <<pool, broke>>
  /\ UNCHANGED <<listVars, gOutstandingSends, s, bClosing, Counters, freeVars,
                 sockobj, sock, bCleanup, gConnections, errSends>>

IncRecvTo(w, l) ==
  /\ At(w, "incRecv")
  /\ OutstandingRecv' = [OutstandingRecv EXCEPT ![sock[w]] = @ + 1]
  /\ SockCritSec' = [SockCritSec EXCEPT ![sock[w]] = NULL]
  /\ Goto(w, l)
  /\ UNCHANGED <<Lists, s, bClosing, OutstandingSend, PendingSend, freeVars, buf, Own>>

IncRecvLeave(w) == IncRecvTo(w, "tailSend")   \* mutant: a completed send posts no other
IncRecv(w) == IncRecvTo(w, "process")
-----------------------------------------------------------------------------
(* ProcessPendingOperations: the test, the dequeue and the send are three  *)
(* steps, and gOutstandingSends is incremented by a fourth.                *)

MayPostInclusive == gOutstandingSends <= MaxSends        \* mutant
MayPost == gOutstandingSends < MaxSends

Process(w) == Test(w, "process", IF MayPost THEN "dequeue" ELSE "tailSend")

PeekPending == UNCHANGED pending                         \* mutant
PopPending == pending' = Tail(pending)

DequeueNone(w) == pending = <<>> /\ Test(w, "dequeue", "tailSend")

Dequeue(w) ==
  /\ At(w, "dequeue") /\ pending # <<>>
  /\ Hold(w, Head(pending))
  /\ PopPending
  /\ PendingSend' = [PendingSend EXCEPT ![bufSock[Head(pending)]] = @ - 1]
  /\ sock' = [sock EXCEPT ![w] = bufSock[Head(pending)]]
  /\ Goto(w, "postSend")
  /\ UNCHANGED <<kernelVars, bufSock, gOutstandingSends, s, bClosing, OutstandingRecv,
                 OutstandingSend, SockCritSec, freeVars, sockobj, bCleanup, history>>

\* A failed PostSend frees the buffer and leaves the loop.
PostSend(w) ==
  /\ At(w, "postSend")
  /\ \/ Issue(w, "send", "incSend")
     \/ IssueFails(w, "tailSend") /\ FreeBufferObj(buf[w]) /\ broke' = 1
  /\ UNCHANGED <<listVars, gOutstandingSends, s, bClosing, Counters, freeVars,
                 sockobj, sock, bCleanup, gConnections, errSends>>

IncSend(w) ==
  /\ At(w, "incSend")
  /\ OutstandingSend' = [OutstandingSend EXCEPT ![sock[w]] = @ + 1]
  /\ Goto(w, "incOut")
  /\ UNCHANGED <<Lists, s, bClosing, OutstandingRecv, PendingSend, SockCritSec,
                 freeVars, buf, Own>>

\* gOutstandingSends is counted, SockCritSec left.
IncOut(w) ==
  /\ At(w, "incOut")
  /\ gOutstandingSends' = gOutstandingSends + 1
  /\ SockCritSec' = [SockCritSec EXCEPT ![sock[w]] = NULL]
  /\ Goto(w, "process")
  /\ UNCHANGED <<kernelVars, listVars, s, bClosing, Counters, freeVars, buf, Own>>
-----------------------------------------------------------------------------
(* The tail of HandleIo: three unlocked reads and the cleanup. *)

NotIdle(w) == IF bCleanup[w] # 0 THEN "cleanup" ELSE "wait"

TailSend(w) ==
  Test(w, "tailSend", IF sockobj[w] = NULL THEN "wait"
                      ELSE IF OutstandingSend[sockobj[w]] = 0 THEN "tailRecv"
                      ELSE NotIdle(w))

TailRecv(w) ==
  Test(w, "tailRecv", IF OutstandingRecv[sockobj[w]] = 0 THEN "tailClosing" ELSE NotIdle(w))

\* mutant: bClosing is not looked at
TailClosingAlways(w) == Test(w, "tailClosing", "cleanup")

TailClosing(w) ==
  Test(w, "tailClosing", IF bClosing[sockobj[w]] # 0 THEN "cleanup" ELSE NotIdle(w))

\* closesocket; posts on the handle fail from now on.
CloseSocket(w) ==
  /\ At(w, "cleanup")
  /\ s' = [s EXCEPT ![sockobj[w]] = "INVALID_SOCKET"]
  /\ Goto(w, "free")
  /\ UNCHANGED <<Lists, bClosing, Counters, SockCritSec, freeVars, buf, Own>>

Free(w) ==
  /\ At(w, "free")
  /\ FreeSocketObj(sockobj[w])
  /\ Goto(w, "wait")
  /\ UNCHANGED <<Lists, buf, Own>>
-----------------------------------------------------------------------------
Accept(w) ==
  \/ \E b \in Buffers, o \in SockObjs : AcceptDone(w, b, o) \/ AcceptNoPort(w, b, o)
  \/ \E b \in Buffers : AcceptNoMemory(w, b)

Complete(w) ==
  \E b \in Buffers : \/ RecvDone(w, b) \/ RecvZero(w, b) \/ RecvError(w, b)
                     \/ SendDone(w, b) \/ SendError(w, b)

\* What a thread does between two calls of GetQueuedCompletionStatus.
Run(w) ==
  \/ ErrOther(w) \/ ErrFree(w)
  \/ Enqueue(w) \/ SetClosing(w) \/ ZeroSendNone(w) \/ ZeroSendSome(w) \/ ZeroRecv(w)
  \/ DecOut(w) \/ ReceiveAgain(w) \/ ReceiveNoMore(w) \/ PostRecv(w) \/ IncRecv(w)
  \/ Process(w) \/ DequeueNone(w) \/ Dequeue(w) \/ PostSend(w) \/ IncSend(w) \/ IncOut(w)
  \/ TailSend(w) \/ TailRecv(w) \/ TailClosing(w) \/ CloseSocket(w) \/ Free(w)

Next == \E w \in Workers : Accept(w) \/ Complete(w) \/ Run(w)

Spec == Init /\ [][Next]_vars

(* A thread that can run does, and an outstanding operation completes and  *)
(* is handed out: the port serves completions in order, so one is not      *)
(* passed over for ever while others are taken (strong fairness, because   *)
(* all threads can be busy in between).                                    *)
Fairness ==
  /\ \A w \in Workers : WF_vars(Run(w))
  /\ \A b \in Buffers :
       SF_vars(\E w \in Workers : \/ RecvDone(w, b) \/ RecvZero(w, b) \/ RecvError(w, b)
                                  \/ SendDone(w, b) \/ SendError(w, b))

FairSpec == Spec /\ Fairness
-----------------------------------------------------------------------------
(* Properties. *)

ToWorkers(ls) == {w \in Workers : pc[w] \in ls}
Posted(op) == {b \in Buffers : posted[b] = op}
Queued == {pending[i] : i \in 1 .. Len(pending)}
Idle == \A w \in Workers : At(w, "wait")

Handles == {"0", "open", "INVALID_SOCKET"}

\* The types of all variables; counters are signed (LONG) and may go below 0.
TypeOK ==
  /\ pool \subseteq Buffers
  /\ posted \in [Buffers -> {"none", "recv", "send"}]
  /\ pending \in Seq(Buffers)
  /\ bufSock \in [Buffers -> SockObjs \cup {NULL}]
  /\ gOutstandingSends \in Int
  /\ gConnections \in 0 .. MaxConns
  /\ s \in [SockObjs -> Handles]
  /\ bClosing \in [SockObjs -> 0 .. 1]
  /\ OutstandingRecv \in [SockObjs -> Int]
  /\ OutstandingSend \in [SockObjs -> Int]
  /\ PendingSend \in [SockObjs -> Int]
  /\ SockCritSec \in [SockObjs -> Workers \cup {NULL}]
  /\ next \in [SockObjs -> SockObjs \cup {NULL}]
  /\ gFreeSocketList \in SockObjs \cup {NULL}
  /\ heap \subseteq SockObjs
  /\ pc \in [Workers -> Labels]
  /\ buf \in [Workers -> Buffers \cup {NULL}]
  /\ sockobj \in [Workers -> SockObjs \cup {NULL}]
  /\ sock \in [Workers -> SockObjs \cup {NULL}]
  /\ bCleanup \in [Workers -> 0 .. 1]
  /\ errSends \in Nat
  /\ broke \in 0 .. 1

(* A BUFFER_OBJ has one owner at a time: the lookaside list, the kernel,   *)
(* the pending send list (once), or one thread.  HandleIo moves it between *)
(* them with no lock of its own, and never uses it after WSASend or        *)
(* WSARecv has it.                                                         *)
BufferOwned ==
  /\ \A b \in pool : posted[b] = "none" /\ b \notin Queued
  /\ \A b \in Queued : posted[b] = "none"
  /\ \A i, j \in 1 .. Len(pending) : pending[i] = pending[j] => i = j
  /\ \A w \in Workers : buf[w] # NULL =>
       /\ buf[w] \notin pool /\ buf[w] \notin Queued /\ posted[buf[w]] = "none"
       /\ \A v \in Workers : buf[v] = buf[w] => v = w

(* The throttle that does hold: each thread can take gOutstandingSends one *)
(* past the value it tested, so the counter and the sends still to be      *)
(* counted stay below gMaxSends plus the number of threads.                *)
Committed == ToWorkers({"dequeue", "postSend", "incSend", "incOut"})
SendBound == gOutstandingSends + Cardinality(Committed) <= MaxSends - 1 + Cardinality(Workers)

(* gOutstandingSends counts the sends the kernel has, corrected by the     *)
(* threads between the call and the counter, plus every send that ever     *)
(* completed with an error: HandleIo returns before it counts those down.  *)
OutBalance ==
  gOutstandingSends + Cardinality(ToWorkers({"incSend", "incOut"}))
    = Cardinality(Posted("send")) + Cardinality(ToWorkers({"decOut"})) + errSends

(* ProcessPendingOperations leaves no send behind that could go out: while *)
(* the list is not empty and the limit is not reached, some thread has     *)
(* still to run the loop, unless a PostSend failed and broke out of it.    *)
Looping == {"enqueue", "setClosing", "zeroSend", "zeroRecv", "readClosing",
            "postRecv", "incRecv", "process", "dequeue", "postSend", "incSend", "incOut"}
NoStrandedSend ==
  pending # <<>> /\ gOutstandingSends < MaxSends => broke = 1 \/ ToWorkers(Looping) # {}

(* Each counter of a SOCKET_OBJ and the operations it counts: outstanding  *)
(* in the kernel, not yet counted by the thread that posted it, queued.    *)
CountersExact ==
  \A o \in SockObjs :
    LET Of(op) == {b \in Posted(op) : bufSock[b] = o}
        Late(l) == {w \in ToWorkers({l}) : sock[w] = o}
    IN /\ OutstandingRecv[o] + Cardinality(Late("incRecv")) = Cardinality(Of("recv"))
       /\ OutstandingSend[o] + Cardinality(Late("incSend")) = Cardinality(Of("send"))
       /\ PendingSend[o] = Cardinality({b \in Queued : bufSock[b] = o})

\* Thread w is on the way to FreeSocketObj(o).
WillFree(w, o) ==
  /\ sockobj[w] = o
  /\ \/ pc[w] \in {"cleanup", "free"}
     \/ At(w, "errSend") /\ OutstandingSend[o] = 0
     \/ At(w, "errRecv") /\ OutstandingRecv[o] = 0

(* A SOCKET_OBJ is freed by one thread, once, and with no operation of it  *)
(* outstanding or queued.                                                  *)
FreedOnce ==
  \A o \in SockObjs, w \in Workers : WillFree(w, o) =>
    /\ s[o] # "0"
    /\ \A v \in Workers : WillFree(v, o) => v = w
    /\ \A b \in Buffers : bufSock[b] = o => posted[b] = "none" /\ b \notin Queued

(* No connection has two operations at once, which is why the echo needs   *)
(* no order: the header's "only a single receive at a time".  And when no  *)
(* thread is in HandleIo every socket in use has its one buffer,           *)
(* outstanding or queued: nothing else would ever free it again.           *)
OneBufferPerSocket ==
  /\ Idle => \A o \in SockObjs : s[o] # "0" =>
    \E b \in Buffers : bufSock[b] = o /\ (posted[b] # "none" \/ b \in Queued)
  /\ \A b, c \in Buffers :
       /\ bufSock[b] = bufSock[c]
       /\ posted[b] # "none" \/ b \in Queued
       /\ posted[c] # "none" \/ c \in Queued
       => b = c

(* Every queued send is posted in the end, or a send completed with an     *)
(* error, which keeps its slot of gOutstandingSends for ever.              *)
EverySendPosted ==
  \A b \in Buffers : b \in Queued ~> posted[b] = "send" \/ errSends > 0
=============================================================================

---------------------------- MODULE IocpListener ----------------------------
(***************************************************************************)
(* The listening half of Samples/chapter06/iocpserver.cpp: one LISTEN_OBJ, *)
(* its main thread and the completion threads.  The main thread posts      *)
(* AcceptEx operations and keeps their buffers on PendingAccepts; a        *)
(* completion thread takes a finished accept off that list, hands its      *)
(* buffer to the new connection and asks, through RepostCount and the      *)
(* event RepostAccept, for another.  When clients find no AcceptEx the     *)
(* event AcceptEvent (FD_ACCEPT) makes the main thread post a burst, and a *)
(* sweep on a timeout closes clients that connected and never sent.        *)
(*                                                                         *)
(* PendingAccepts and gFreeBufferList are linked through the same member   *)
(* of the BUFFER_OBJ, next, under two different critical sections, and so  *)
(* they are here.  What happens to a buffer between the accept and its     *)
(* return to the lookaside list is the module IocpConn's business.         *)
(***************************************************************************)
EXTENDS Integers, FiniteSets

CONSTANTS
  Workers,          \* the completion threads
  Buffers,          \* the BUFFER_OBJs the heap can supply
  gInitialAccepts,  \* the -o option
  gMaxAccepts,      \* the -oa option
  Burst,            \* BURST_ACCEPT_COUNT
  Faults,           \* what the environment may do, see AllFaults
  MaxClients,       \* bound of the model: clients that ever connect
  MaxSweeps,        \* bound of the model: times 36 waits in a row time out
  NULL, Main        \* the null pointer; the main thread

(* error: an AcceptEx completes with an error, as when a client resets.    *)
(* post: socket or AcceptEx fails at once.                                 *)
(* memory: GetBufferObj or GetSocketObj finds no memory.                   *)
(* port: CreateIoCompletionPort fails for an accepted socket.              *)
AllFaults == {"error", "post", "memory", "port"}

ASSUME ListenAssumption ==
  /\ IsFiniteSet(Workers) /\ IsFiniteSet(Buffers)
  /\ gInitialAccepts \in Nat /\ gMaxAccepts \in Nat /\ Burst \in Nat
  /\ MaxClients \in Nat /\ MaxSweeps \in Nat
  /\ Faults \subseteq AllFaults
  /\ NULL \notin Buffers /\ NULL \notin Workers /\ Main \notin Workers /\ Main # NULL

VARIABLES
  next,             \* BUFFER_OBJ.next
  sclient,          \* BUFFER_OBJ.sclient: "0", "socket" or "invalid"
  gFreeBufferList,
  heap,             \* BUFFER_OBJs HeapAlloc has not handed out
  conn,             \* buffers in the hands of the connections
  acc,              \* acc[b]: the kernel's view of the AcceptEx that uses b
  backlog,          \* clients waiting in the listen queue
  arrived,          \* clients that connected so far
  AcceptEvent,      \* 1 when FD_ACCEPT is recorded and its event signalled
  armed,            \* 1 when a new client makes FD_ACCEPT be recorded
  PendingAccepts, PendingAcceptCount,   \* the members of the LISTEN_OBJ
  RepostCount, RepostAccept, ListenCritSec,
  pc, buf,          \* the completion threads: label and buffer in hand
  mpc, mbuf,        \* the main thread: label, acceptobj,
  i, limit,         \*   the posting loop's counter and limit,
  serving,          \*   what the loop is run for,
  sweeps,           \*   the sweeps so far
  acceptErrors      \* history: accepts taken with an error

listVars   == <<next, sclient, gFreeBufferList, heap>>
kernelVars == <<acc, backlog, arrived, AcceptEvent, armed>>
repostVars == <<RepostCount, RepostAccept>>
workerVars == <<pc, buf>>
loopVars   == <<i, limit, serving>>
mainVars   == <<mpc, mbuf, loopVars, sweeps>>
vars == <<listVars, conn, kernelVars, PendingAccepts, PendingAcceptCount, repostVars,
          ListenCritSec, workerVars, mainVars, acceptErrors>>

WorkerLabels == {"wait", "remove", "port", "repost", "signal", "errFree", "spin"}
MainLabels == {"wait", "testRepost", "exchange", "reset", "check", "get", "insert",
               "post", "count", "enter", "sweep", "undefined"}

Init ==
  /\ next = [b \in Buffers |-> NULL]
  /\ sclient = [b \in Buffers |-> "0"]
  /\ gFreeBufferList = NULL
  /\ heap = Buffers
  /\ conn = {}
  /\ acc = [b \in Buffers |-> "none"]
  /\ backlog = 0 /\ arrived = 0
  /\ AcceptEvent = 0 /\ armed = 1
  /\ PendingAccepts = NULL /\ PendingAcceptCount = 0
  /\ RepostCount = 0 /\ RepostAccept = 0
  /\ ListenCritSec = NULL
  /\ pc = [w \in Workers |-> "wait"]
  /\ buf = [w \in Workers |-> NULL]
  /\ mpc = "check" /\ mbuf = NULL
  /\ i = 0 /\ limit = gInitialAccepts
  /\ serving = "init"
  /\ sweeps = 0 /\ acceptErrors = 0
-----------------------------------------------------------------------------
(* Linked lists.  Nth(h)[k] is the k-th object from h on; no list of the   *)
(* finitely many buffers is longer than their number unless it is a ring.  *)

Hops == 0 .. Cardinality(Buffers)

Nth(h) ==
  LET hop[k \in Nat] == IF k = 0 THEN h
                        ELSE IF hop[k-1] = NULL THEN NULL ELSE next[hop[k-1]]
  IN hop

Walk(h) == {Nth(h)[k] : k \in Hops} \ {NULL}
Ends(h) == Nth(h)[Cardinality(Buffers)] = NULL

\* The step at which RemovePendingAccept's search stops: at obj or the end.
StopsAt(obj, k) ==
  /\ Nth(PendingAccepts)[k] \in {obj, NULL}
  /\ \A j \in 0 .. (k-1) : Nth(PendingAccepts)[j] \notin {obj, NULL}

CanFail(f) == f \in Faults

\* A thread's critical section is free.
ListenFree == ListenCritSec = NULL

\* FreeBufferObj: clear the object and push it on the lookaside list.
FreeBufferObj(b) ==
  /\ next' = [next EXCEPT ![b] = gFreeBufferList]
  /\ sclient' = [sclient EXCEPT ![b] = "0"]
  /\ gFreeBufferList' = b
  /\ heap' = heap

\* GetBufferObj: the head of the lookaside list, or a new object; which one
\* the heap supplies makes no difference.
GetBufferObj(b) ==
  /\ \/ /\ gFreeBufferList # NULL /\ b = gFreeBufferList
        /\ gFreeBufferList' = next[b] /\ heap' = heap
     \/ /\ gFreeBufferList = NULL /\ heap # {} /\ b = CHOOSE x \in heap : TRUE
        /\ heap' = heap \ {b} /\ UNCHANGED gFreeBufferList
  /\ next' = [next EXCEPT ![b] = NULL]
  /\ UNCHANGED sclient

\* InsertPendingAccept: in both of its branches b comes before the old head.
InsertPendingAccept(b) ==
  /\ next' = [next EXCEPT ![b] = PendingAccepts]
  /\ PendingAccepts' = b

\* RemovePendingAccept where the search ends after k objects.  What is
\* unlinked follows the last object searched, whether it is b or not.
UnlinkHead(b, k) ==                                      \* mutant
  PendingAccepts' = next[b] /\ next' = next
Unlink(b, k) ==
  \/ /\ k = 0
     /\ PendingAccepts' = next[b] /\ next' = next
  \/ /\ k > 0
     /\ next' = [next EXCEPT ![Nth(PendingAccepts)[k-1]] = next[b]]
     /\ UNCHANGED PendingAccepts
-----------------------------------------------------------------------------
(* The clients and the kernel.  FD_ACCEPT is recorded when a client finds  *)
(* no AcceptEx, once until the server calls AcceptEx again.                *)

Signal(waiting, arm) ==
  IF waiting > 0 /\ arm = 1
  THEN AcceptEvent' = 1 /\ armed' = 0
  ELSE armed' = arm /\ UNCHANGED AcceptEvent

\* A client connects and meets an AcceptEx...
ConnectAccepted(b) ==
  /\ arrived < MaxClients /\ arrived' = arrived + 1
  /\ acc[b] = "posted"
  /\ acc' = [acc EXCEPT ![b] = "connected"]
  /\ UNCHANGED <<listVars, conn, backlog, AcceptEvent, armed, PendingAccepts,
                 PendingAcceptCount, repostVars, ListenCritSec, workerVars, mainVars,
                 acceptErrors>>

\* ... or none, and waits.
ConnectQueued ==
  /\ arrived < MaxClients /\ arrived' = arrived + 1
  /\ \A b \in Buffers : acc[b] # "posted"
  /\ backlog' = backlog + 1
  /\ Signal(backlog + 1, armed)
  /\ UNCHANGED <<listVars, conn, acc, PendingAccepts, PendingAcceptCount, repostVars,
                 ListenCritSec, workerVars, mainVars, acceptErrors>>

Finish(b, from, to) ==
  /\ acc[b] \in from
  /\ acc' = [acc EXCEPT ![b] = to]
  /\ UNCHANGED <<listVars, conn, backlog, arrived, AcceptEvent, armed, PendingAccepts,
                 PendingAcceptCount, repostVars, ListenCritSec, workerVars, mainVars,
                 acceptErrors>>

\* The first data arrive and the AcceptEx completes; or it fails.
Data(b) == Finish(b, {"connected"}, "done")
Fails(b) == CanFail("error") /\ Finish(b, {"posted", "connected"}, "failed")

\* A connection is over and its buffer goes back to the lookaside list.
ConnectionOver(b) ==
  /\ b \in conn /\ conn' = conn \ {b}
  /\ FreeBufferObj(b)
  /\ UNCHANGED <<kernelVars, PendingAccepts, PendingAcceptCount, repostVars,
                 ListenCritSec, workerVars, mainVars, acceptErrors>>
-----------------------------------------------------------------------------
(* The completion threads: the OP_ACCEPT parts of HandleIo.                *)

At(w, l) == pc[w] = l
Goto(w, l) == pc' = [pc EXCEPT ![w] = l]
Hold(w, b) == buf' = [buf EXCEPT ![w] = b]

\* Take the completion of b's AcceptEx.
Take(w, b, state, l) ==
  /\ At(w, "wait") /\ acc[b] = state
  /\ acc' = [acc EXCEPT ![b] = "none"]
  /\ Hold(w, b) /\ Goto(w, l)
  /\ UNCHANGED <<next, gFreeBufferList, heap, conn, backlog, arrived, AcceptEvent, armed,
                 PendingAccepts, repostVars, ListenCritSec, mainVars>>

KeepCount == UNCHANGED PendingAcceptCount                \* mutant
Uncount == PendingAcceptCount' = PendingAcceptCount - 1

\* A finished accept is uncounted before anything else.
TakeDone(w, b) == Take(w, b, "done", "remove") /\ Uncount /\ UNCHANGED <<sclient, acceptErrors>>

\* A failed one is not: its socket is closed.
TakeFailed(w, b) ==
  /\ Take(w, b, "failed", "errFree")
  /\ sclient' = [sclient EXCEPT ![b] = "invalid"]
  /\ acceptErrors' = acceptErrors + 1
  /\ UNCHANGED PendingAcceptCount

\* Its buffer is freed while PendingAccepts still leads to it.
ErrFree(w) ==
  /\ At(w, "errFree")
  /\ FreeBufferObj(buf[w])
  /\ Hold(w, NULL) /\ Goto(w, "wait")
  /\ UNCHANGED <<conn, kernelVars, PendingAccepts, PendingAcceptCount, repostVars,
                 ListenCritSec, mainVars, acceptErrors>>

\* RemovePendingAccept, all of it inside ListenCritSec...
Remove(w) ==
  /\ At(w, "remove") /\ ListenFree
  /\ \E k \in Hops : StopsAt(buf[w], k) /\ Unlink(buf[w], k)
  /\ Goto(w, "port")
  /\ UNCHANGED <<sclient, gFreeBufferList, heap, conn, kernelVars, PendingAcceptCount,
                 repostVars, ListenCritSec, buf, mainVars, acceptErrors>>

\* ... where a list that became a ring keeps it for good.
Spin(w) ==
  /\ At(w, "remove") /\ ListenFree
  /\ \A k \in Hops : ~StopsAt(buf[w], k)
  /\ ListenCritSec' = w
  /\ Goto(w, "spin")
  /\ UNCHANGED <<listVars, conn, kernelVars, PendingAccepts, PendingAcceptCount,
                 repostVars, buf, mainVars, acceptErrors>>

\* The new socket joins the port and the buffer joins the connection's sends.
PortOk(w) ==
  /\ At(w, "port") /\ sclient[buf[w]] = "socket"
  /\ conn' = conn \cup {buf[w]}
  /\ Hold(w, NULL) /\ Goto(w, "repost")
  /\ UNCHANGED <<listVars, kernelVars, PendingAccepts, PendingAcceptCount, repostVars,
                 ListenCritSec, mainVars, acceptErrors>>

\* The port refuses the socket, always one that the sweep has closed:
\* HandleIo returns, the buffer is lost and no accept is asked for.
PortFails(w) ==
  /\ At(w, "port")
  /\ CanFail("port") \/ sclient[buf[w]] # "socket"
  /\ Hold(w, NULL) /\ Goto(w, "wait")
  /\ UNCHANGED <<listVars, conn, kernelVars, PendingAccepts, PendingAcceptCount,
                 repostVars, ListenCritSec, mainVars, acceptErrors>>

\* GetSocketObj finds no memory.
NoSocketObj(w) ==
  /\ At(w, "port") /\ CanFail("memory")
  /\ FreeBufferObj(buf[w])
  /\ Hold(w, NULL) /\ Goto(w, "repost")
  /\ UNCHANGED <<conn, kernelVars, PendingAccepts, PendingAcceptCount, repostVars,
                 ListenCritSec, mainVars, acceptErrors>>

\* Ask for another accept: count it...
KeepRepost == UNCHANGED RepostCount                      \* mutant
DropRepost == RepostCount' = RepostCount - 1             \* mutant
AddRepost == RepostCount' = RepostCount + 1

Repost(w) ==
  /\ At(w, "repost")
  /\ AddRepost
  /\ Goto(w, "signal")
  /\ UNCHANGED <<listVars, conn, kernelVars, PendingAccepts, PendingAcceptCount,
                 RepostAccept, ListenCritSec, buf, mainVars, acceptErrors>>

\* ... and wake the main thread.
SetRepost(w) ==
  /\ At(w, "signal")
  /\ RepostAccept' = 1
  /\ Goto(w, "wait")
  /\ UNCHANGED <<listVars, conn, kernelVars, PendingAccepts, PendingAcceptCount,
                 RepostCount, ListenCritSec, buf, mainVars, acceptErrors>>
-----------------------------------------------------------------------------
(* The main thread.  WSAWaitForMultipleEvents, then the events in turn.    *)

MAt(l) == mpc = l
MGoto(l) == mpc' = l

\* What the main thread's steps on events and loop counters leave alone.
Others == <<listVars, conn, acc, backlog, arrived, armed, PendingAccepts,
            PendingAcceptCount, ListenCritSec, workerVars, mbuf, sweeps, acceptErrors>>

Serve(what, n) == serving' = what /\ limit' = n /\ i' = 0 /\ MGoto("check")

\* FD_ACCEPT: post a burst.  WSAEnumNetworkEvents resets the event.
NoBurst == 0                                             \* mutant
BurstLimit == Burst

Accepting ==
  /\ MAt("wait") /\ AcceptEvent = 1
  /\ AcceptEvent' = 0
  /\ Serve("accept", BurstLimit)
  /\ UNCHANGED <<Others, repostVars>>

\* RepostAccept, on its own or behind AcceptEvent in the same round.
Reposting ==
  /\ \/ MAt("wait") /\ AcceptEvent = 0
     \/ MAt("testRepost")
  /\ RepostAccept = 1
  /\ MGoto("exchange")
  /\ UNCHANGED <<Others, AcceptEvent, repostVars, loopVars>>

NotReposting ==
  /\ MAt("testRepost") /\ RepostAccept = 0
  /\ MGoto("wait")
  /\ UNCHANGED <<Others, AcceptEvent, repostVars, loopVars>>

\* InterlockedExchange, then ResetEvent: two steps, in this order.
TakeReposts == limit' = RepostCount /\ RepostCount' = 0

Exchange ==
  /\ MAt("exchange")
  /\ TakeReposts
  /\ MGoto("reset")
  /\ UNCHANGED <<Others, AcceptEvent, RepostAccept, i, serving>>

Reset ==
  /\ MAt("reset")
  /\ RepostAccept' = 0
  /\ Serve("repost", limit)
  /\ UNCHANGED <<Others, AcceptEvent, RepostCount>>

\* The posting loop.  At startup it does not look at gMaxAccepts.
UpToMax == PendingAcceptCount <= gMaxAccepts             \* mutant
BelowMax == PendingAcceptCount < gMaxAccepts
More == i < limit /\ (serving = "init" \/ BelowMax)

Check ==
  /\ MAt("check") /\ More
  /\ i' = i + 1
  /\ MGoto("get")
  /\ UNCHANGED <<Others, AcceptEvent, repostVars, limit, serving>>

Enough ==
  /\ MAt("check") /\ ~More
  /\ MGoto(IF serving = "accept" THEN "testRepost" ELSE "wait")
  /\ UNCHANGED <<Others, AcceptEvent, repostVars, loopVars>>

\* What the steps that post an accept leave alone.
Rest == <<conn, repostVars, workerVars, loopVars, sweeps, acceptErrors>>

Get(b) ==
  /\ MAt("get")
  /\ GetBufferObj(b)
  /\ mbuf' = b /\ MGoto("insert")
  /\ UNCHANGED <<Rest, kernelVars, PendingAccepts, PendingAcceptCount, ListenCritSec>>

\* No memory: this accept is forgotten.  At startup the program ends, which
\* is not modelled.
GetFails ==
  /\ MAt("get") /\ serving # "init" /\ gFreeBufferList = NULL
  /\ CanFail("memory") \/ heap = {}
  /\ MGoto("check")
  /\ UNCHANGED <<Rest, listVars, kernelVars, PendingAccepts, PendingAcceptCount,
                 ListenCritSec, mbuf>>

Insert ==
  /\ MAt("insert") /\ ListenFree
  /\ InsertPendingAccept(mbuf)
  /\ MGoto("post")
  /\ UNCHANGED <<Rest, sclient, gFreeBufferList, heap, kernelVars, PendingAcceptCount,
                 ListenCritSec, mbuf>>

\* PostAccept: AcceptEx, which re-enables FD_ACCEPT, meets the next client
\* of the listen queue or stays posted; it is counted afterwards.
PostOk ==
  /\ MAt("post") /\ acc[mbuf] = "none"
  /\ sclient' = [sclient EXCEPT ![mbuf] = "socket"]
  /\ IF backlog > 0
     THEN /\ acc' = [acc EXCEPT ![mbuf] = "connected"]
          /\ backlog' = backlog - 1 /\ Signal(backlog - 1, 1)
     ELSE /\ acc' = [acc EXCEPT ![mbuf] = "posted"]
          /\ UNCHANGED backlog /\ Signal(0, 1)
  /\ MGoto("count")
  /\ UNCHANGED <<Rest, next, gFreeBufferList, heap, arrived, PendingAccepts,
                 PendingAcceptCount, ListenCritSec, mbuf>>

\* socket or AcceptEx fails: the buffer stays on PendingAccepts.
PostFails ==
  /\ MAt("post") /\ CanFail("post") /\ acc[mbuf] = "none"
  /\ \/ /\ sclient' = [sclient EXCEPT ![mbuf] = "invalid"]
        /\ UNCHANGED <<AcceptEvent, armed>>
     \/ /\ sclient' = [sclient EXCEPT ![mbuf] = "socket"]
        /\ Signal(backlog, 1)
  /\ mbuf' = NULL /\ MGoto("check")
  /\ UNCHANGED <<Rest, next, gFreeBufferList, heap, acc, backlog, arrived,
                 PendingAccepts, PendingAcceptCount, ListenCritSec>>

\* An OVERLAPPED the kernel still uses is given to AcceptEx: undefined, the
\* model stops here.
PostTwice ==
  /\ MAt("post") /\ acc[mbuf] # "none"
  /\ MGoto("undefined")
  /\ UNCHANGED <<Rest, listVars, kernelVars, PendingAccepts, PendingAcceptCount,
                 ListenCritSec, mbuf>>

Count ==
  /\ MAt("count")
  /\ PendingAcceptCount' = PendingAcceptCount + 1
  /\ mbuf' = NULL /\ MGoto("check")
  /\ UNCHANGED <<Rest, listVars, kernelVars, PendingAccepts, ListenCritSec>>
-----------------------------------------------------------------------------
(* The sweep: after 36 timeouts, close the sockets of PendingAccepts that  *)
(* have been connected for five minutes.  A timeout that does not sweep    *)
(* only counts and is left out.                                            *)

Timeout ==
  /\ MAt("wait") /\ AcceptEvent = 0 /\ RepostAccept = 0
  /\ sweeps < MaxSweeps /\ sweeps' = sweeps + 1
  /\ MGoto("enter")
  /\ UNCHANGED <<listVars, conn, kernelVars, PendingAccepts, PendingAcceptCount,
                 repostVars, ListenCritSec, workerVars, mbuf, loopVars, acceptErrors>>

SweepEnter ==
  /\ MAt("enter") /\ ListenFree
  /\ ListenCritSec' = Main
  /\ mbuf' = PendingAccepts /\ MGoto("sweep")
  /\ UNCHANGED <<Rest, listVars, kernelVars, PendingAccepts, PendingAcceptCount>>

\* The socket of b is connected: SO_CONNECT_TIME may be any age then.
Connected(b) ==
  /\ sclient[b] = "socket"
  /\ acc[b] \in {"connected", "done"} \/ \E w \in Workers : At(w, "remove") /\ buf[w] = b

SweepKeep ==
  /\ MAt("sweep") /\ mbuf # NULL
  /\ mbuf' = next[mbuf]
  /\ UNCHANGED <<Rest, mpc, listVars, kernelVars, PendingAccepts, PendingAcceptCount,
                 ListenCritSec>>

\* Closing the socket makes an AcceptEx that is not finished fail.
SweepClose ==
  /\ MAt("sweep") /\ mbuf # NULL /\ Connected(mbuf)
  /\ sclient' = [sclient EXCEPT ![mbuf] = "invalid"]
  /\ acc' = [acc EXCEPT ![mbuf] = IF @ = "connected" THEN "failed" ELSE @]
  /\ mbuf' = next[mbuf]
  /\ UNCHANGED <<Rest, mpc, next, gFreeBufferList, heap, backlog, arrived, AcceptEvent,
                 armed, PendingAccepts, PendingAcceptCount, ListenCritSec>>

SweepLeave ==
  /\ MAt("sweep") /\ mbuf = NULL
  /\ ListenCritSec' = NULL
  /\ MGoto("wait")
  /\ UNCHANGED <<Rest, listVars, kernelVars, PendingAccepts, PendingAcceptCount, mbuf>>
-----------------------------------------------------------------------------
AcceptPath(w) == Remove(w) \/ Spin(w) \/ PortOk(w) \/ PortFails(w) \/ NoSocketObj(w)
                 \/ Repost(w) \/ SetRepost(w) \/ ErrFree(w)
Worker(w) == AcceptPath(w) \/ \E b \in Buffers : TakeDone(w, b) \/ TakeFailed(w, b)
Posting == Check \/ Enough \/ GetFails \/ Insert \/ PostOk \/ PostFails \/ PostTwice \/ Count
           \/ \E b \in Buffers : Get(b)
Sweeping == SweepEnter \/ SweepKeep \/ SweepClose \/ SweepLeave
Events == Accepting \/ Reposting \/ NotReposting \/ Exchange \/ Reset
MainThread == Events \/ Posting \/ Sweeping
Outside == \/ ConnectQueued
           \/ \E b \in Buffers : ConnectAccepted(b) \/ Data(b) \/ Fails(b) \/ ConnectionOver(b)
Next == Outside \/ Timeout \/ MainThread \/ \E w \in Workers : Worker(w)

Spec == Init /\ [][Next]_vars

(* The scheduler runs every thread that can run.  A completed accept is    *)
(* dequeued by some thread, a connected client sends, and a connection     *)
(* ends; clients need not come, and nothing has to fail.                   *)
FairSpec ==
  /\ Spec
  /\ WF_vars(MainThread)
  /\ \A w \in Workers : WF_vars(AcceptPath(w))
  /\ \A b \in Buffers :
       /\ WF_vars(\E w \in Workers : TakeDone(w, b) \/ TakeFailed(w, b))
       /\ WF_vars(Data(b)) /\ WF_vars(ConnectionOver(b))
-----------------------------------------------------------------------------
(* Properties. *)

Ref == Buffers \cup {NULL}

\* Every variable has its type.
TypeOK ==
  /\ next \in [Buffers -> Ref] /\ sclient \in [Buffers -> {"0", "socket", "invalid"}]
  /\ gFreeBufferList \in Ref /\ heap \subseteq Buffers /\ conn \subseteq Buffers
  /\ acc \in [Buffers -> {"none", "posted", "connected", "done", "failed"}]
  /\ backlog \in Nat /\ arrived \in 0 .. MaxClients
  /\ AcceptEvent \in 0 .. 1 /\ armed \in 0 .. 1
  /\ PendingAccepts \in Ref /\ PendingAcceptCount \in Int
  /\ RepostCount \in Nat /\ RepostAccept \in 0 .. 1
  /\ ListenCritSec \in Workers \cup {Main, NULL}
  /\ pc \in [Workers -> WorkerLabels] /\ buf \in [Workers -> Ref]
  /\ mpc \in MainLabels /\ mbuf \in Ref
  /\ i \in Nat /\ limit \in Nat /\ serving \in {"init", "accept", "repost"}
  /\ sweeps \in 0 .. MaxSweeps /\ acceptErrors \in Nat

Outstanding == {b \in Buffers : acc[b] # "none"}

\* PendingAcceptCount (926, 841) is the number of AcceptEx operations not
\* taken from the port yet, but for one posted and not counted yet and for
\* every accept that ever failed: the error path does not count it down.
CountBalance ==
  PendingAcceptCount + (IF MAt("count") THEN 1 ELSE 0) = Cardinality(Outstanding) + acceptErrors

\* However completions and posts interleave, the unlocked test of
\* PendingAcceptCount (1561) keeps the outstanding accepts at -oa or at what
\* startup posted.
AcceptLimit ==
  Cardinality(Outstanding) <= IF gInitialAccepts > gMaxAccepts THEN gInitialAccepts
                              ELSE gMaxAccepts

\* While no accept has failed an AcceptEx in flight can be found from
\* PendingAccepts, where the sweep looks for it (1445), RemovePendingAccept
\* (405) always finds it, a buffer is never on both lists, no list is a ring
\* and none holds a buffer that is the kernel's or a connection's.
ListsApart ==
  acceptErrors = 0 =>
    /\ Outstanding \subseteq Walk(PendingAccepts)
    /\ \A w \in Workers : At(w, "remove") => buf[w] \in Walk(PendingAccepts)
    /\ Ends(PendingAccepts) /\ Ends(gFreeBufferList)
    /\ Walk(gFreeBufferList) \cap (Walk(PendingAccepts) \cup Outstanding \cup conn) = {}

InHand == {buf[w] : w \in Workers} \cup (IF MAt("insert") \/ MAt("post") THEN {mbuf} ELSE {})

\* BUFFER_OBJs nothing leads to any more.
Lost ==
  Buffers \ (heap \cup conn \cup Walk(PendingAccepts) \cup Walk(gFreeBufferList) \cup InHand)

\* BUFFER_OBJs whose AcceptEx failed at once: they stay in PendingAccepts.
Stuck == {b \in Walk(PendingAccepts) : acc[b] = "none"} \ InHand

\* Accepts the main thread still owes: reposts counted and not yet in the
\* loop, in a completion thread on its way to be counted, in the loop.
Owed ==
  RepostCount
  + Cardinality({w \in Workers : At(w, "remove") \/ At(w, "port") \/ At(w, "repost")})
  + (IF MAt("get") \/ MAt("insert") \/ MAt("post") THEN 1 ELSE 0)
  + (IF MAt("reset") THEN limit ELSE 0)
  + (IF serving # "accept" /\ mpc \in {"check", "get", "insert", "post", "count"}
     THEN limit - i ELSE 0)

\* "For completed accepts, another AcceptEx is posted" (851): the accepts
\* outstanding or owed stay as many as startup asked for or -oa allows,
\* whatever the race for RepostCount and its event does.  Only a failed call
\* and a socket the port refused take their accept along, and its BUFFER_OBJ.
AcceptsKept ==
  Cardinality(Outstanding) + Owed + Cardinality(Lost) + Cardinality(Stuck) + acceptErrors
    >= IF gInitialAccepts < gMaxAccepts THEN gInitialAccepts ELSE gMaxAccepts

\* Clients that found no AcceptEx are accepted in the end: FD_ACCEPT (1544)
\* or a repost brings another one, unless the call fails.
BacklogServed == backlog > 0 ~> backlog = 0 \/ Stuck # {}
=============================================================================

--------------------------- MODULE BlockingServer ---------------------------
(***************************************************************************)
(* Samples/chapter05/blocking/server/bserver.cpp: a listening thread per   *)
(* address, and for every client (for UDP: for the one socket) a receiving *)
(* and a sending thread.  The receiver queues each buffer it reads on the  *)
(* CONNECTION_OBJ and releases hRecvSema; the sender waits for hRecvSema,  *)
(* takes a buffer and sends it back.  The sender alone closes the socket   *)
(* and frees the CONNECTION_OBJ, which both threads use.                   *)
(*                                                                         *)
(* The n-th byte of a client's input is the number n.  A BUFFER_OBJ is the *)
(* pair <<first byte, buflen>>; buflen is -1 when recv failed.             *)
(***************************************************************************)
EXTENDS Integers, Sequences, FiniteSets

CONSTANTS
  Conns,        \* the clients, each with the CONNECTION_OBJ made for it
  Listeners,    \* the ServerListenThreads, one for each local address
  Protocols,    \* the values of the -p option to consider
  gBufferSize,  \* the -b option: most bytes one recv returns
  MaxBytes,     \* bound of the model: bytes a client ever sends
  MaxPending,   \* bound of the model: queue length up to which a UDP recvfrom
                \* on the closed socket goes on failing
  Faults,       \* what the environment may do, see below
  NULL

(* reset: a client resets its connection (UDP: recvfrom reports an error   *)
(* once, and from then on sendto may fail).                                *)
(* thread: CreateThread fails.  accept: listen or accept fails.            *)
ASSUME BlockingAssumption ==
  /\ Protocols \subseteq {"tcp", "udp"}
  /\ gBufferSize \in Nat \ {0} /\ MaxBytes \in Nat /\ MaxPending \in Nat
  /\ Faults \subseteq {"reset", "thread", "accept"}
  /\ NULL \notin Conns

VARIABLES
  gProtocol,
  client,       \* client[c]: "none", "open", "fin", "reset" or "spent"
  received,     \* received[c]: bytes recv has returned for c
  echoed,       \* echoed[c]: the bytes send took for c, in order
  pending,      \* pending[c]: PendingSendHead ... PendingSendTail
  hRecvSema,
  s,            \* s[c]: "none", "open" or "closed"
  freed,        \* freed[c] = 1: FreeConnectionObj has been called
  rpc, rbuf,    \* ReceiveThread of c: label and buffer in hand
  spc, sbuf, rc,\* SendThread of c: label, buffer, and how the last send ended
  lpc, lconn,   \* ServerListenThread: label, ConnObj
  running       \* 0 when main has returned

clientVars == <<gProtocol, client, received>>
objVars    == <<pending, hRecvSema>>
lifeVars   == <<s, freed>>
recvVars   == <<rpc, rbuf>>
sendVars   == <<spc, sbuf, rc, echoed>>
listenVars == <<lpc, lconn, running>>
vars == <<clientVars, objVars, lifeVars, recvVars, sendVars, listenVars>>

Init ==
  /\ gProtocol \in Protocols
  /\ client = [c \in Conns |-> "none"]
  /\ received = [c \in Conns |-> 0]
  /\ echoed = [c \in Conns |-> <<>>]
  /\ pending = [c \in Conns |-> <<>>]
  /\ hRecvSema = [c \in Conns |-> 0]
  /\ s = [c \in Conns |-> "none"]
  /\ freed = [c \in Conns |-> 0]
  /\ rpc = [c \in Conns |-> "none"] /\ rbuf = [c \in Conns |-> <<0, 0>>]
  /\ spc = [c \in Conns |-> "none"] /\ sbuf = [c \in Conns |-> <<0, 0>>]
  /\ rc = [c \in Conns |-> 0]
  /\ lpc = [l \in Listeners |-> "start"] /\ lconn = [l \in Listeners |-> NULL]
  /\ running = 1

Tcp == gProtocol = "tcp"
Udp == gProtocol = "udp"
CanFail(f) == f \in Faults
buflen(b) == b[2]
-----------------------------------------------------------------------------
(* The clients. *)

\* A client has no more to send; its data have all been received.
Shutdown(c) ==
  /\ Tcp /\ client[c] = "open"
  /\ client' = [client EXCEPT ![c] = "fin"]
  /\ UNCHANGED <<gProtocol, received, objVars, lifeVars, recvVars, sendVars, listenVars>>

Reset(c) ==
  /\ CanFail("reset") /\ client[c] \in {"open", "fin"}
  /\ client' = [client EXCEPT ![c] = "reset"]
  /\ UNCHANGED <<gProtocol, received, objVars, lifeVars, recvVars, sendVars, listenVars>>
-----------------------------------------------------------------------------
(* ReceiveThread. *)

RAt(c, l) == rpc[c] = l
RGoto(c, l) == rpc' = [rpc EXCEPT ![c] = l]
Got(c, b) ==
  /\ rbuf' = [rbuf EXCEPT ![c] = b]
  /\ RGoto(c, "enqueue")
  /\ UNCHANGED <<gProtocol, objVars, lifeVars, sendVars, listenVars>>

\* The members of a freed CONNECTION_OBJ are read: undefined, and the model
\* of this thread stops.
Lost(c) ==
  /\ rpc[c] \in {"call", "enqueue", "release"} /\ freed[c] = 1
  /\ RGoto(c, "lost")
  /\ UNCHANGED <<clientVars, objVars, lifeVars, rbuf, sendVars, listenVars>>

\* recv is called on ConnObj->s and may block.
Call(c) ==
  /\ RAt(c, "call") /\ freed[c] = 0
  /\ RGoto(c, "recv")
  /\ UNCHANGED <<clientVars, objVars, lifeVars, rbuf, sendVars, listenVars>>

RecvData(c) ==
  /\ RAt(c, "recv") /\ s[c] = "open" /\ client[c] \in {"open", "spent"}
  /\ \E n \in 1 .. gBufferSize :
       /\ received[c] + n <= MaxBytes
       /\ received' = [received EXCEPT ![c] = @ + n]
       /\ Got(c, <<received[c] + 1, n>>)
  /\ UNCHANGED client

\* The client has shut down and there are no more data.
RecvZero(c) ==
  /\ Tcp /\ RAt(c, "recv") /\ s[c] = "open" /\ client[c] = "fin"
  /\ Got(c, <<received[c] + 1, 0>>)
  /\ UNCHANGED <<client, received>>

\* An empty datagram.
RecvEmpty(c) ==
  /\ Udp /\ RAt(c, "recv") /\ s[c] = "open"
  /\ Got(c, <<received[c] + 1, 0>>)
  /\ UNCHANGED <<client, received>>

RecvError(c) ==
  /\ RAt(c, "recv")
  /\ client[c] = "reset" \/ (s[c] = "closed" /\ Len(pending[c]) < MaxPending)
  /\ client' = [client EXCEPT ![c] = IF Udp THEN "spent" ELSE @]
  /\ Got(c, <<received[c] + 1, -1>>)
  /\ UNCHANGED received

EnqueueBufferObj(c) == pending' = [pending EXCEPT ![c] = Append(@, rbuf[c])]

Enqueue(c) ==
  /\ RAt(c, "enqueue") /\ freed[c] = 0
  /\ EnqueueBufferObj(c)
  /\ RGoto(c, "release")
  /\ UNCHANGED <<clientVars, hRecvSema, lifeVars, rbuf, sendVars, listenVars>>

LastError(b) == buflen(b) < 0           \* mutant: goes on after a shutdown
LastBuffer(b) == buflen(b) = 0 \/ (Tcp /\ buflen(b) < 0)

SetEvent(c) == hRecvSema' = [hRecvSema EXCEPT ![c] = 1]   \* mutant: an event
ReleaseSemaphore(c) == hRecvSema' = [hRecvSema EXCEPT ![c] = @ + 1]

Release(c) ==
  /\ RAt(c, "release") /\ freed[c] = 0
  /\ ReleaseSemaphore(c)
  /\ RGoto(c, IF LastBuffer(rbuf[c]) THEN "exit" ELSE "call")
  /\ UNCHANGED <<clientVars, pending, lifeVars, rbuf, sendVars, listenVars>>
-----------------------------------------------------------------------------
(* SendThread. *)

SAt(c, l) == spc[c] = l
SGoto(c, l) == spc' = [spc EXCEPT ![c] = l]

Signalled(c) == hRecvSema[c] > 0

Wait(c) ==
  /\ SAt(c, "wait") /\ Signalled(c)
  /\ hRecvSema' = [hRecvSema EXCEPT ![c] = @ - 1]
  /\ SGoto(c, "dequeue")
  /\ UNCHANGED <<clientVars, pending, lifeVars, recvVars, sbuf, rc, echoed, listenVars>>

EndsOnError(b) == buflen(b) < 0                           \* mutant
Ends(b) == buflen(b) <= 0

Dequeue(c) ==
  /\ SAt(c, "dequeue") /\ pending[c] # <<>>
  /\ sbuf' = [sbuf EXCEPT ![c] = Head(pending[c])]
  /\ pending' = [pending EXCEPT ![c] = Tail(@)]
  /\ SGoto(c, IF Tcp /\ Ends(sbuf'[c]) THEN "close" ELSE "send")
  /\ UNCHANGED <<clientVars, hRecvSema, lifeVars, recvVars, rc, echoed, listenVars>>

\* The bytes from, from + 1, ...
Bytes(from, n) == [i \in 1 .. n |-> from + i - 1]
Echoes(c, n) == echoed' = [echoed EXCEPT ![c] = @ \o Bytes(sbuf[c][1], n)]

Rest(b, n) == <<b[1] + n, b[2] - n>>
RestRepeats(b, n) == <<b[1], b[2] - n>>        \* mutant: idx does not advance
AfterSend(b, n) == Rest(b, n)

\* send takes some of what is left of the buffer.
Send(c) ==
  /\ Tcp /\ SAt(c, "send") /\ client[c] # "reset"
  /\ \E n \in 1 .. buflen(sbuf[c]) :
       /\ Echoes(c, n)
       /\ sbuf' = [sbuf EXCEPT ![c] = AfterSend(@, n)]
       /\ SGoto(c, IF n < buflen(sbuf[c]) THEN "send" ELSE "wait")
  /\ UNCHANGED <<clientVars, objVars, lifeVars, recvVars, rc, listenVars>>

\* A datagram goes back whole; after an empty one the thread ends.
SendTo(c) ==
  /\ Udp /\ SAt(c, "send") /\ buflen(sbuf[c]) >= 0
  /\ Echoes(c, buflen(sbuf[c]))
  /\ SGoto(c, IF buflen(sbuf[c]) = 0 THEN "close" ELSE "wait")
  /\ UNCHANGED <<clientVars, objVars, lifeVars, recvVars, sbuf, rc, listenVars>>

\* Also when a failed recvfrom left buflen negative.
SendFails(c) ==
  /\ SAt(c, "send")
  /\ \/ client[c] = "reset"
     \/ Udp /\ (client[c] = "spent" \/ buflen(sbuf[c]) < 0)
  /\ rc' = [rc EXCEPT ![c] = -1]
  /\ SGoto(c, "close")
  /\ UNCHANGED <<clientVars, objVars, lifeVars, recvVars, sbuf, echoed, listenVars>>

CloseSocket(c) ==
  /\ SAt(c, "close")
  /\ s' = [s EXCEPT ![c] = "closed"]
  /\ SGoto(c, "free")
  /\ UNCHANGED <<clientVars, objVars, freed, recvVars, sbuf, rc, echoed, listenVars>>

\* For UDP the thread that ends here is the ServerListenThread.
FreeConnectionObj(c) ==
  /\ SAt(c, "free")
  /\ freed' = [freed EXCEPT ![c] = 1]
  /\ SGoto(c, "exit")
  /\ lpc' = [l \in Listeners |-> IF Udp /\ lconn[l] = c THEN "exit" ELSE lpc[l]]
  /\ UNCHANGED <<clientVars, objVars, s, recvVars, sbuf, rc, echoed, lconn, running>>
-----------------------------------------------------------------------------
(* ServerListenThread and main. *)

LAt(l, lbl) == lpc[l] = lbl
LGoto(l, lbl) == lpc' = [lpc EXCEPT ![l] = lbl]

\* One CONNECTION_OBJ for all datagrams; the listener becomes its SendThread.
ServeUdp(l, c) ==
  /\ Udp /\ LAt(l, "start") /\ s[c] = "none"
  /\ s' = [s EXCEPT ![c] = "open"]
  /\ client' = [client EXCEPT ![c] = "open"]
  /\ lconn' = [lconn EXCEPT ![l] = c]
  /\ RGoto(c, "call") /\ SGoto(c, "wait") /\ LGoto(l, "send")
  /\ UNCHANGED <<gProtocol, received, objVars, freed, rbuf, sbuf, rc, echoed, running>>

Listen(l) ==
  /\ Tcp /\ LAt(l, "start")
  /\ LGoto(l, "accept")
  /\ UNCHANGED <<clientVars, objVars, lifeVars, recvVars, sendVars, lconn, running>>

Accept(l, c) ==
  /\ LAt(l, "accept") /\ s[c] = "none"
  /\ s' = [s EXCEPT ![c] = "open"]
  /\ client' = [client EXCEPT ![c] = "open"]
  /\ lconn' = [lconn EXCEPT ![l] = c]
  /\ LGoto(l, "receiver")
  /\ UNCHANGED <<gProtocol, received, objVars, freed, recvVars, sendVars, running>>

CreateReceiver(l) ==
  /\ LAt(l, "receiver")
  /\ RGoto(lconn[l], "call")
  /\ LGoto(l, "sender")
  /\ UNCHANGED <<clientVars, objVars, lifeVars, rbuf, sendVars, lconn, running>>

CreateSender(l) ==
  /\ LAt(l, "sender")
  /\ SGoto(lconn[l], "wait")
  /\ LGoto(l, "accept")
  /\ UNCHANGED <<clientVars, objVars, lifeVars, recvVars, sbuf, rc, echoed, lconn, running>>

\* listen, accept or CreateThread fails, and the listening thread ends.
ListenFails(l) ==
  /\ \/ CanFail("accept") /\ ((Tcp /\ LAt(l, "start")) \/ LAt(l, "accept"))
     \/ CanFail("thread") /\ ((Udp /\ LAt(l, "start")) \/ lpc[l] \in {"receiver", "sender"})
  /\ LGoto(l, "exit")
  /\ UNCHANGED <<clientVars, objVars, lifeVars, recvVars, sendVars, lconn, running>>

\* main has waited for all listening threads, and returning from it ends
\* the threads of all connections.
MainReturns ==
  /\ \A l \in Listeners : LAt(l, "exit")
  /\ running' = 0
  /\ UNCHANGED <<clientVars, objVars, lifeVars, recvVars, sendVars, lpc, lconn>>
-----------------------------------------------------------------------------
Client(c) == Shutdown(c) \/ Reset(c) \/ RecvData(c) \/ RecvEmpty(c)
ReceiveThread(c) == Lost(c) \/ Call(c) \/ RecvZero(c) \/ RecvError(c) \/ Enqueue(c) \/ Release(c)
SendThread(c) == \/ Wait(c) \/ Dequeue(c) \/ Send(c) \/ SendTo(c) \/ SendFails(c)
                 \/ CloseSocket(c) \/ FreeConnectionObj(c)
ServerListenThread(l) ==
  \/ Listen(l) \/ CreateReceiver(l) \/ CreateSender(l) \/ ListenFails(l)
  \/ \E c \in Conns : Accept(l, c) \/ ServeUdp(l, c)

Next ==
  /\ running = 1
  /\ \/ \E c \in Conns : Client(c) \/ ReceiveThread(c) \/ SendThread(c)
     \/ \E l \in Listeners : ServerListenThread(l)
     \/ MainReturns

Spec == Init /\ [][Next]_vars

(* The scheduler runs every thread that can run; a client reads what it is *)
(* sent, so send does not block for ever.  Clients need not connect, send  *)
(* or end.                                                                 *)
FairSpec ==
  /\ Spec
  /\ \A c \in Conns : WF_vars(running = 1 /\ ReceiveThread(c)) /\ WF_vars(running = 1 /\ SendThread(c))
  /\ \A l \in Listeners : WF_vars(running = 1 /\ (CreateReceiver(l) \/ CreateSender(l)))
  /\ WF_vars(running = 1 /\ MainReturns)
-----------------------------------------------------------------------------
(* Properties. *)

Buffer == (1 .. (MaxBytes + 1)) \X (-1 .. gBufferSize)

\* Every variable has its type.
TypeOK ==
  /\ gProtocol \in Protocols
  /\ client \in [Conns -> {"none", "open", "fin", "reset", "spent"}]
  /\ received \in [Conns -> 0 .. MaxBytes]
  /\ echoed \in [Conns -> Seq(1 .. MaxBytes)]
  /\ pending \in [Conns -> Seq(Buffer)]
  /\ hRecvSema \in [Conns -> Nat]
  /\ s \in [Conns -> {"none", "open", "closed"}]
  /\ freed \in [Conns -> 0 .. 1]
  /\ rpc \in [Conns -> {"none", "call", "recv", "enqueue", "release", "exit", "lost"}]
  /\ rbuf \in [Conns -> Buffer \cup {<<0, 0>>}]
  /\ spc \in [Conns -> {"none", "wait", "dequeue", "send", "close", "free", "exit"}]
  /\ sbuf \in [Conns -> Buffer \cup {<<0, 0>>}]
  /\ rc \in [Conns -> -1 .. 0]
  /\ lpc \in [Listeners -> {"start", "accept", "receiver", "sender", "send", "exit"}]
  /\ lconn \in [Listeners -> Conns \cup {NULL}]
  /\ running \in 0 .. 1

(* hRecvSema counts the queued buffers, but for the one queued and not yet *)
(* released and the one waited for and not yet taken: the sender never     *)
(* finds the queue empty, and DequeueBufferObj's NULL (266) is never used. *)
SemaphoreBalance ==
  \A c \in Conns : freed[c] = 0 =>
    Len(pending[c]) = hRecvSema[c] + (IF RAt(c, "release") THEN 1 ELSE 0)
                                   + (IF SAt(c, "dequeue") THEN 1 ELSE 0)

(* Unless a send failed, the receiver has left the CONNECTION_OBJ for good *)
(* when the sender frees it (559).                                         *)
FreedLast == \A c \in Conns : freed[c] = 1 /\ rc[c] = 0 => rpc[c] = "exit"

\* The connection object keeps the promise of Echo: nothing is lost,
\* repeated or reordered, and a socket is closed after all was echoed.
Gone(c) == client[c] \in {"reset", "spent"}
Promise == INSTANCE Echo WITH
  open <- [c \in Conns |-> running = 1 /\ s[c] # "closed"],
  broken <- [c \in Conns |-> Gone(c)]
ImplementsEcho == Promise!Spec

\* A listening thread that could not create both threads of c ended.
NoSender(c) ==
  /\ SAt(c, "none") /\ s[c] = "open"
  /\ ~\E l \in Listeners : lconn[l] = c /\ lpc[l] \in {"receiver", "sender"}

\* What has been received is echoed in the end, as long as the server runs,
\* the client is there and its sender could be created; and "Each client
\* thread exits once its task is completed" (19): both threads of a client
\* that is done end, unless the process does before.
EveryoneServed ==
  \A c \in Conns :
    /\ \A n \in 1 .. MaxBytes :
         received[c] >= n ~> Len(echoed[c]) >= n \/ Gone(c) \/ running = 0 \/ NoSender(c)
    /\ Tcp /\ client[c] \in {"fin", "reset"}
      ~> running = 0 \/ NoSender(c) \/ (SAt(c, "exit") /\ rpc[c] \in {"exit", "lost"})
=============================================================================

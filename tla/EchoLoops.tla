------------------------------ MODULE EchoLoops ------------------------------
(***************************************************************************)
(* The three echo servers of Samples/chapter05 that queue what they cannot *)
(* send: nonblocking/server (a select loop), WSAAsyncSelect/server (a      *)
(* window procedure) and WSAEventSelect/server (threads that wait on the   *)
(* events of up to MAXIMUM_WAIT_OBJECTS-1 sockets).  ReceivePendingData    *)
(* and SendPendingData are nearly the same in all three; what tells them   *)
(* what to do next is not.                                                 *)
(*                                                                         *)
(* A client sends units of two bytes, numbered 1, 2, 3 ...; a send of the  *)
(* server takes what the kernel has room for.  The sockets of the select   *)
(* server are blocking, in spite of its name.                              *)
(***************************************************************************)
EXTENDS Integers, Sequences, FiniteSets, SequencesExt

CONSTANTS
  Conns,       \* clients 1 .. n, connecting in this order; 1 is the UDP socket
  Children,    \* ids 1 .. n of the event server's threads; 0 is main
  Servers, Protocols,
  MaxLoad,     \* bound, of each server: clients, units they send and faults, together
  Room,        \* bytes the kernel holds for a client that does not read
  FD_SETSIZE,  \* 64: the "FD_SET_SIZE 1024" of nbserver.cpp is not Winsock's name
  MaxHandles,  \* MAXIMUM_WAIT_OBJECTS-1
  Faults       \* what clients may do: see AllFaults

(* reset: abort.  urgent: send out of band data.  empty: send an empty datagram. *)
(* long: send a datagram that does not fit the server's buffer.                  *)
AllFaults == {"reset", "urgent", "empty", "long"}

ASSUME ConstAssumption ==
  /\ IsFiniteSet(Conns) /\ Conns = 1 .. Cardinality(Conns) /\ 1 \in Conns
  /\ IsFiniteSet(Children) /\ Children = 1 .. Cardinality(Children)
  /\ Servers \subseteq {"select", "async", "event"} /\ Protocols \subseteq {"tcp", "udp"}
  /\ MaxLoad \in [Servers -> Nat] /\ Room \in Nat \ {0, 1} /\ FD_SETSIZE \in Nat \ {0}
  /\ MaxHandles \in Nat \ {0} /\ Cardinality(Children) * MaxHandles >= Cardinality(Conns)
  /\ Faults \subseteq AllFaults

Threads == {0} \cup Children

VARIABLES
  server, gProtocol,
  client,       \* client[c]: none, open, fin (has shut down) or reset
  inbox,        \* inbox[c]: units in the kernel; 0 is an empty datagram, -1 a long one
  out,          \* out[c]: bytes in the kernel the client has not read
  urgent,       \* urgent[c]: out of band data have come
  armed,        \* armed[c]: the events Winsock will record or post
  net,          \* net[c]: recorded; the event is signalled when there are any
  msgs,         \* the messages of the window
  socket,       \* socket[c]: none, open, closed, or lost: freed without closesocket
  received, sent, pending, closing,   \* of the SOCKET_OBJ: units taken, bytes sent
  pc, cur,      \* of each thread: where, and with which client
  rest, fdread, fdwrite, fdexcept,    \* select: sptr and the sockets behind it
  todo, i,      \* event: nevents, and the index into Handles
  SocketList, Handles, Event,         \* of each THREAD_OBJ
  waits,        \* waits[t]: the sockets whose events t waits for
  gChildThreads, mpc, newsock, mthread,   \* main of the event server
  partial,      \* history: partial[c]: a send to c took a part of the buffer
  stopped       \* 1 when the process has ended

peerVars   == <<client, inbox, urgent>>
eventVars  == <<armed, net, msgs>>
connVars   == <<socket, received, sent, out, pending, closing, partial>>
setVars    == <<fdread, fdwrite, fdexcept>>
threadVars == <<Handles, Event, waits, gChildThreads, mpc, newsock, mthread>>
vars == <<server, gProtocol, peerVars, eventVars, connVars, pc, cur, rest, setVars, todo, i,
          SocketList, threadVars, stopped>>

Tcp == gProtocol = "tcp"
Udp == gProtocol = "udp"
All == {"read", "write", "close"}
Set(f, x, v) == [f EXCEPT ![x] = v]

Init ==
  /\ server \in Servers /\ gProtocol \in Protocols
  /\ client = [c \in Conns |-> IF Udp /\ c = 1 THEN "open" ELSE "none"]
  /\ socket = [c \in Conns |-> IF Udp /\ c = 1 THEN "open" ELSE "none"]
  /\ inbox = [c \in Conns |-> <<>>] /\ out = [c \in Conns |-> 0]
  /\ urgent = [c \in Conns |-> 0]
  /\ armed = [c \in Conns |-> IF Udp /\ c = 1 THEN All ELSE {}]
  /\ net = [c \in Conns |-> {}] /\ msgs = <<>>
  /\ received = [c \in Conns |-> 0] /\ sent = [c \in Conns |-> <<>>]
  /\ pending = [c \in Conns |-> <<>>] /\ closing = [c \in Conns |-> 0]
  /\ pc = [t \in Threads |-> IF t = 0 THEN "wait" ELSE "none"]
  /\ cur = [t \in Threads |-> 0] /\ todo = [t \in Threads |-> {}]
  /\ i = [t \in Threads |-> 0]
  /\ rest = <<>> /\ fdread = {} /\ fdwrite = {} /\ fdexcept = {}
  /\ SocketList = [t \in Threads |-> IF Udp /\ t = 0 THEN <<1>> ELSE <<>>]
  /\ Handles = [t \in Threads |-> IF Udp /\ t = 0 THEN <<1>> ELSE <<>>]
  /\ Event = [t \in Threads |-> 0] /\ waits = [t \in Threads |-> {}]
  /\ gChildThreads = <<>> /\ mpc = "accept" /\ newsock = 0 /\ mthread = 0
  /\ partial = [c \in Conns |-> 0] /\ stopped = 0
-----------------------------------------------------------------------------
(* Clients and Winsock. *)

ServerVars == <<server, gProtocol, socket, received, sent, pending, closing, partial, pc, cur,
                rest, setVars, todo, i, SocketList, threadVars, stopped>>
\* The number of the last unit the client sent.
Units(c) == Max({received[c]} \cup Range(inbox[c]))
Reaches(c) == client[c] = "open" /\ (Udp => socket[c] = "open")
Empty(c) == Udp /\ (closing[c] = 1 \/ 0 \in Range(inbox[c]))
Long(c) == -1 \in Range(inbox[c])
Cost(c) == 2 + Units(c) + urgent[c] + (IF client[c] = "reset" \/ Empty(c) THEN 1 ELSE 0)
             + (IF Long(c) THEN 1 ELSE 0)
Load == FoldLeft(+, 0, [d \in Conns |-> IF client[d] = "none" THEN 0 ELSE Cost(d)])
MayDo(n) == Load + n <= MaxLoad[server]
CanFail(f) == f \in Faults /\ MayDo(1)

Connect(c) ==
  /\ Tcp /\ client[c] = "none" /\ \A d \in Conns : d < c => client[d] # "none"
  /\ MayDo(2)
  /\ client' = Set(client, c, "open")
  /\ UNCHANGED <<ServerVars, inbox, urgent, out, eventVars>>
ClientSends(c) ==
  /\ Reaches(c) /\ MayDo(1)
  /\ inbox' = Set(inbox, c, Append(inbox[c], Units(c) + 1))
  /\ UNCHANGED <<ServerVars, client, urgent, out, eventVars>>
ClientSendsEmpty(c) ==
  /\ Udp /\ CanFail("empty") /\ Reaches(c) /\ ~Empty(c)
  /\ inbox' = Set(inbox, c, Append(inbox[c], 0))
  /\ UNCHANGED <<ServerVars, client, urgent, out, eventVars>>
ClientSendsLong(c) ==
  /\ Udp /\ CanFail("long") /\ Reaches(c) /\ ~Long(c)
  /\ inbox' = Set(inbox, c, Append(inbox[c], -1))
  /\ UNCHANGED <<ServerVars, client, urgent, out, eventVars>>
ClientSendsUrgent(c) ==
  /\ Tcp /\ CanFail("urgent") /\ server = "select" /\ client[c] = "open" /\ urgent[c] = 0
  /\ urgent' = Set(urgent, c, 1)
  /\ UNCHANGED <<ServerVars, client, inbox, out, eventVars>>
Shutdown(c) ==
  /\ Tcp /\ client[c] = "open"
  /\ client' = Set(client, c, "fin")
  /\ UNCHANGED <<ServerVars, inbox, urgent, out, eventVars>>
Reset(c) ==
  /\ Tcp /\ CanFail("reset") /\ client[c] \in {"open", "fin"}
  /\ client' = Set(client, c, "reset") /\ out' = Set(out, c, 0)
  /\ UNCHANGED <<ServerVars, inbox, urgent, eventVars>>
ClientReads(c) ==
  /\ out[c] > 0
  /\ out' = Set(out, c, out[c] - 1)
  /\ UNCHANGED <<ServerVars, peerVars, eventVars>>

\* FD_READ comes again after a recv, FD_WRITE after a send that would block,
\* FD_CLOSE once, whether or not the data have been read.
Ready(c) ==
  [read |-> inbox[c] # <<>>, write |-> out[c] < Room,
   close |-> Tcp /\ client[c] \in {"fin", "reset"}]
Kind(c, ev) == IF ev = "close" /\ client[c] = "reset" THEN "abort" ELSE ev
Notify(c) ==
  /\ server \in {"async", "event"} /\ socket[c] = "open"
  /\ \E ev \in armed[c] :
       /\ Ready(c)[ev]
       /\ armed' = Set(armed, c, armed[c] \ {ev})
       /\ IF server = "async"
          THEN msgs' = Append(msgs, <<c, Kind(c, ev)>>) /\ UNCHANGED net
          ELSE net' = Set(net, c, net[c] \cup {Kind(c, ev)}) /\ UNCHANGED msgs
  /\ UNCHANGED <<ServerVars, peerVars, out>>
-----------------------------------------------------------------------------
(* ReceivePendingData: one recv, of what there is. *)

Rearm(c, ev) == armed' = Set(armed, c, armed[c] \cup {ev})
Bytes(u) == <<2 * u - 1, 2 * u>>
Enqueue(c, buf) == pending' = Set(pending, c, Append(pending[c], buf))
Close(c) == socket' = Set(socket, c, "closed")
Received == <<client, urgent, out, sent, partial, net>>

ReceivesData(c) ==
  /\ client[c] # "reset" /\ inbox[c] # <<>> /\ Head(inbox[c]) > 0
  /\ inbox' = Set(inbox, c, Tail(inbox[c])) /\ received' = Set(received, c, received[c] + 1)
  /\ Enqueue(c, Bytes(Head(inbox[c]))) /\ Rearm(c, "read")
  /\ UNCHANGED <<Received, closing, socket>>
\* An empty datagram is echoed like the others, and closes the socket after it.
ReceivesEmpty(c) ==
  /\ inbox[c] # <<>> /\ Head(inbox[c]) = 0
  /\ inbox' = Set(inbox, c, Tail(inbox[c]))
  /\ Enqueue(c, <<>>) /\ closing' = Set(closing, c, 1) /\ Rearm(c, "read")
  /\ UNCHANGED <<Received, received, socket>>
ReceivesEnd(c) ==
  /\ client[c] = "fin" /\ inbox[c] = <<>>
  /\ closing' = Set(closing, c, 1)
  /\ UNCHANGED <<Received, inbox, received, pending, armed>>
LateEnd(c) == ReceivesEnd(c) /\ pending[c] # <<>> /\ UNCHANGED socket
LastEnd(c) == ReceivesEnd(c) /\ pending[c] = <<>> /\ Close(c)
ReceivesNothing(c) ==
  /\ client[c] = "open" /\ inbox[c] = <<>> /\ Rearm(c, "read")
  /\ UNCHANGED <<Received, inbox, received, pending, closing, socket>>
\* The connection was aborted, or the datagram is long: WSAEMSGSIZE.
TooLong(c) == inbox[c] # <<>> /\ Head(inbox[c]) = -1
ReceiveFails(c) ==
  /\ client[c] = "reset" \/ TooLong(c)
  /\ Close(c)
  /\ UNCHANGED <<Received, inbox, received, pending, closing, armed>>

(* SendPendingData: one send of the buffer at the head of pending. *)

Space(c) == Room - out[c]
Fits(c) == Space(c) >= Len(Head(pending[c]))
Sends(c, n) ==
  /\ client[c] # "reset"
  /\ sent' = Set(sent, c, sent[c] \o SubSeq(Head(pending[c]), 1, n))
  /\ out' = Set(out, c, out[c] + n)
  /\ UNCHANGED <<peerVars, received, closing, socket, armed, net>>
SendsAll(c) ==
  /\ pending[c] # <<>> /\ Fits(c) /\ Sends(c, Len(Head(pending[c])))
  /\ pending' = Set(pending, c, Tail(pending[c])) /\ UNCHANGED partial
\* A part: "idx += 0" leaves the index at the start of the buffer, so that its
\* first bytes are sent for the last ones.  A blocking send goes on inside.
FirstBytes(c) == SubSeq(Head(pending[c]), 1, Len(Head(pending[c])) - Space(c))
OtherBytes(c) == SubSeq(Head(pending[c]), Space(c) + 1, Len(Head(pending[c])))
SendsSome(c, left) ==
  /\ Tcp /\ pending[c] # <<>> /\ ~Fits(c) /\ Space(c) > 0 /\ Sends(c, Space(c))
  /\ pending' = Set(pending, c, <<left>> \o Tail(pending[c]))
\* The rest goes back to the head of the list.
AtTail(c) == pending' = Set(pending, c, Append(Tail(pending[c]), Head(pending[c])))  \* mutant
AtHead(c) == UNCHANGED pending
WouldBlock(c) ==
  /\ client[c] # "reset" /\ pending[c] # <<>> /\ ~Fits(c) /\ (Tcp => Space(c) = 0)
  /\ AtHead(c) /\ Rearm(c, "write")
  /\ UNCHANGED <<peerVars, out, sent, received, closing, socket, partial, net>>
SendFails(c) ==
  /\ client[c] = "reset" /\ pending[c] # <<>>
  /\ pending' = Set(pending, c, Tail(pending[c]))
  /\ UNCHANGED <<peerVars, out, sent, received, closing, armed, partial, net>>
\* Nothing is left to send; a socket that is closing is closed.
Unsent == <<peerVars, out, sent, received, pending, closing, armed, partial, net>>
NeverCloses(c) == FALSE                                      \* mutant
Closes(c) == pending[c] = <<>> /\ closing[c] = 1
SentAll(c) == pending[c] = <<>> /\ ~Closes(c) /\ UNCHANGED <<Unsent, socket>>
SentLast(c) == Closes(c) /\ Close(c) /\ UNCHANGED Unsent

\* RemoveSocketObj
Without(t, c) ==
  \/ \E n \in DOMAIN SocketList[t] :
       SocketList[t][n] = c /\ SocketList' = Set(SocketList, t, RemoveAt(SocketList[t], n))
  \/ c \notin Range(SocketList[t]) /\ UNCHANGED SocketList
PcTo(t, l) == pc' = Set(pc, t, l)
-----------------------------------------------------------------------------
(* nbserver.cpp: select, then every socket of the list in turn. *)

NotSelect == <<server, gProtocol, eventVars, cur, todo, i, threadVars>>
At(t, l) == pc[t] = l
Watched == {SocketList[0][n] : n \in {k \in DOMAIN SocketList[0] : k < FD_SETSIZE}}

\* The listening socket comes first; a new socket is in no set.  A client
\* that is gone before it is accepted ends the server (816).
Backlog(c) == client[c] # "none" /\ socket[c] = "none" /\ \A d \in Conns : d < c => socket[d] # "none"
SelectAccepts ==
  \/ \E c \in Conns :
       /\ Backlog(c)
       /\ IF client[c] = "reset"
          THEN /\ stopped' = 1 /\ UNCHANGED <<socket, SocketList>> /\ rest' = SocketList[0]
          ELSE /\ socket' = Set(socket, c, "open") /\ UNCHANGED stopped
               /\ SocketList' = Set(SocketList, 0, Append(SocketList[0], c))
               /\ rest' = SocketList'[0]
  \/ /\ ~\E c \in Conns : Backlog(c)
     /\ rest' = SocketList[0] /\ UNCHANGED <<socket, SocketList, stopped>>

Readable(c) == inbox[c] # <<>> \/ client[c] \in {"fin", "reset"}
Select ==
  /\ server = "select" /\ At(0, "wait")
  /\ fdread' = {c \in Watched : Readable(c)}
  /\ fdwrite' = {c \in Watched : Space(c) > 0 \/ client[c] = "reset"}
  /\ fdexcept' = {c \in Watched : urgent[c] = 1}
  /\ (\E c \in Conns : Backlog(c)) \/ fdread' \cup fdwrite' \cup fdexcept' # {}
  /\ SelectAccepts
  /\ PcTo(0, IF rest' = <<>> THEN "wait" ELSE "read")
  /\ UNCHANGED <<NotSelect, peerVars, received, sent, out, pending, closing, partial>>

sptr == Head(rest)
\* sptr goes on, to the next stage of the loop or to the next socket ...
Stage(l) == PcTo(0, l) /\ UNCHANGED <<rest, SocketList>>
NextSocket(n) ==
  /\ rest' = SubSeq(rest, n + 1, Len(rest))
  /\ PcTo(0, IF rest' = <<>> THEN "wait" ELSE "read")
\* ... or is removed, and the next socket comes in at the next stage.
Removed(l) ==
  /\ rest' = Tail(rest) /\ Without(0, sptr)
  /\ PcTo(0, IF rest' = <<>> THEN "wait" ELSE l)

\* A blocking send has left nothing pending, so the end is the last of it.
SelectReceives ==
  /\ server = "select" /\ At(0, "read")
  /\ IF sptr \in fdread
     THEN \/ (ReceivesData(sptr) \/ ReceivesEmpty(sptr)) /\ Stage("send")
          \/ (LastEnd(sptr) \/ ReceiveFails(sptr)) /\ Removed("send")
     ELSE /\ Stage("write")
          /\ UNCHANGED <<peerVars, connVars, armed, net>>
  /\ UNCHANGED <<server, gProtocol, msgs, setVars, cur, todo, i, threadVars, stopped>>

SelectSends ==
  /\ server = "select" /\ pc[0] \in {"send", "resend"}
  /\ LET next == IF At(0, "send") THEN "write" ELSE "except" IN
     \/ SendsAll(sptr) /\ Stage(pc[0])
     \/ SendsSome(sptr, OtherBytes(sptr)) /\ Stage(pc[0]) /\ UNCHANGED partial
     \/ SentAll(sptr) /\ Stage(next)
     \/ SentLast(sptr) /\ Removed(next)
     \/ /\ SendFails(sptr) /\ Removed(next)
        /\ socket' = Set(socket, sptr, IF pending'[sptr] = <<>> /\ closing[sptr] = 1
                                       THEN "closed" ELSE "lost")
  /\ UNCHANGED <<server, gProtocol, msgs, setVars, cur, todo, i, threadVars, stopped>>

SelectWrites ==
  /\ server = "select" /\ At(0, "write")
  /\ Stage(IF sptr \in fdwrite THEN "resend" ELSE "except")
  /\ UNCHANGED <<NotSelect, peerVars, connVars, setVars, stopped>>

\* "Not handling OOB data so just close the connection": the object is freed,
\* the socket is not closed, and the loop goes two sockets on.
SelectExcept ==
  /\ server = "select" /\ At(0, "except")
  /\ IF sptr \in fdexcept
     THEN Without(0, sptr) /\ NextSocket(2) /\ socket' = Set(socket, sptr, "lost")
     ELSE NextSocket(1) /\ UNCHANGED <<SocketList, socket>>
  /\ UNCHANGED <<NotSelect, peerVars, received, sent, out, pending, closing, partial,
                 setVars, stopped>>
-----------------------------------------------------------------------------
(* asyncserver.cpp: one message at a time. *)

NotAsync == <<server, gProtocol, setVars, rest, todo, i, threadVars, stopped>>
Post(queue, c, ev) == Append(queue, <<c, ev>>)

\* FD_ACCEPT.  A client that is gone is skipped.
AsyncAccepts(c) ==
  /\ server = "async" /\ At(0, "wait") /\ Backlog(c)
  /\ IF client[c] = "reset"
     THEN Close(c) /\ UNCHANGED <<SocketList, armed>>
     ELSE /\ socket' = Set(socket, c, "open") /\ armed' = Set(armed, c, All)
          /\ SocketList' = Set(SocketList, 0, Append(SocketList[0], c))
  /\ UNCHANGED <<NotAsync, peerVars, net, msgs, pc, cur, received, sent, out, pending,
                 closing, partial>>

AsyncRemoves(c) == Without(0, c) /\ PcTo(0, "wait")
WindowProc ==
  /\ server = "async" /\ At(0, "wait") /\ msgs # <<>>
  /\ LET c == Head(msgs)[1]
         ev == Head(msgs)[2]
         known == c \in Range(SocketList[0])
     IN /\ cur' = Set(cur, 0, c)
        /\ CASE ev = "abort" ->
                  Close(c) /\ AsyncRemoves(c) /\ msgs' = Tail(msgs) /\ UNCHANGED closing
             [] ~known -> msgs' = Tail(msgs) /\ UNCHANGED <<SocketList, socket, closing, pc>>
             [] known /\ ev = "close" ->
                  /\ closing' = Set(closing, c, 1) /\ msgs' = Post(Tail(msgs), c, "read")
                  /\ UNCHANGED <<SocketList, socket, pc>>
             [] known /\ ev \in {"read", "write"} ->
                  /\ PcTo(0, IF ev = "read" THEN "read" ELSE "send") /\ msgs' = Tail(msgs)
                  /\ UNCHANGED <<SocketList, socket, closing>>
  /\ UNCHANGED <<NotAsync, peerVars, armed, net, received, sent, out, pending, partial>>

\* After data another FD_READ is posted; FD_READ goes on into FD_WRITE.
AsyncReceives ==
  /\ server = "async" /\ At(0, "read")
  /\ LET c == cur[0] IN
     \/ /\ ReceivesData(c) /\ PcTo(0, "send") /\ UNCHANGED SocketList
        /\ msgs' = Post(msgs, c, "read")
     \/ /\ ReceivesEmpty(c) \/ LateEnd(c) \/ ReceivesNothing(c)
        /\ PcTo(0, "send") /\ UNCHANGED <<SocketList, msgs>>
     \/ (LastEnd(c) \/ ReceiveFails(c)) /\ AsyncRemoves(c) /\ UNCHANGED msgs
  /\ UNCHANGED <<NotAsync, cur>>

AsyncSends ==
  /\ server = "async" /\ At(0, "send")
  /\ LET c == cur[0] IN
     \/ SendsAll(c) /\ UNCHANGED <<pc, SocketList>>
     \/ SendsSome(c, FirstBytes(c)) /\ partial' = Set(partial, c, 1) /\ UNCHANGED <<pc, SocketList>>
     \/ (WouldBlock(c) \/ SentAll(c)) /\ PcTo(0, "wait") /\ UNCHANGED <<SocketList, socket>>
     \/ SentLast(c) /\ AsyncRemoves(c)
     \/ /\ SendFails(c) /\ AsyncRemoves(c)
        /\ socket' = Set(socket, c, IF pending'[c] = <<>> /\ closing[c] = 1
                                    THEN "closed" ELSE "lost")
  /\ UNCHANGED <<NotAsync, msgs, cur>>
-----------------------------------------------------------------------------
(* eventserver.cpp: main accepts, and gives the socket to a thread. *)

NotEvent == <<server, gProtocol, msgs, setVars, rest>>
NotMain == <<NotEvent, peerVars, net, received, sent, out, pending, closing, partial, cur,
             todo, i, waits, stopped>>
EventAccepts(c) ==
  /\ server = "event" /\ Tcp /\ mpc = "accept" /\ Backlog(c)
  /\ IF client[c] = "reset"
     THEN Close(c) /\ UNCHANGED <<armed, mpc, newsock>>
     ELSE /\ socket' = Set(socket, c, "open") /\ armed' = Set(armed, c, All)
          /\ mpc' = "assign" /\ newsock' = c
  /\ UNCHANGED <<NotMain, pc, SocketList, Handles, Event, gChildThreads, mthread>>

\* InsertSocketObj: the event goes behind those of the sockets counted.
InsertSocketObj(t, c) ==
  /\ SocketList' = Set(SocketList, t, Append(SocketList[t], c))
  /\ Handles' = Set(Handles, t, SubSeq(Handles[t], 1, Len(SocketList[t])) \o <<c>>
                                \o SubSeq(Handles[t], Len(SocketList[t]) + 2, Len(Handles[t])))
HasRoom(t) == Len(SocketList[t]) < MaxHandles

\* AssignToFreeThread: the first thread of gChildThreads with room ...
Assign ==
  /\ mpc = "assign"
  /\ \E n \in DOMAIN gChildThreads :
       /\ HasRoom(gChildThreads[n])
       /\ \A k \in 1 .. n - 1 : ~HasRoom(gChildThreads[k])
       /\ InsertSocketObj(gChildThreads[n], newsock) /\ mthread' = gChildThreads[n]
  /\ mpc' = "signal"
  /\ UNCHANGED <<NotMain, armed, socket, pc, Event, gChildThreads, newsock>>
\* ... or a new one, which runs before it has a socket.
CreateChild ==
  /\ mpc = "assign" /\ \A n \in DOMAIN gChildThreads : ~HasRoom(gChildThreads[n])
  /\ \E t \in Children :
       /\ t = Len(gChildThreads) + 1 /\ mthread' = t
       /\ PcTo(t, "wait") /\ gChildThreads' = <<t>> \o gChildThreads
  /\ mpc' = "insert"
  /\ UNCHANGED <<NotMain, armed, socket, SocketList, Handles, Event, newsock>>
InsertFirst ==
  /\ mpc = "insert" /\ InsertSocketObj(mthread, newsock) /\ mpc' = "signal"
  /\ UNCHANGED <<NotMain, armed, socket, pc, Event, gChildThreads, newsock, mthread>>
SignalNone(t) == UNCHANGED Event                             \* mutant
SignalThread(t) == Event' = Set(Event, t, 1)
Signal ==
  /\ mpc = "signal" /\ SignalThread(mthread) /\ mpc' = "accept"
  /\ UNCHANGED <<NotMain, armed, socket, pc, SocketList, Handles, gChildThreads, newsock, mthread>>

(* ChildThread, and main for the datagram socket. *)

NotThread == <<NotEvent, gChildThreads, mpc, newsock, mthread>>
Quiet == <<NotThread, peerVars, connVars, armed>>

\* The handles of the sockets counted; SocketCount is read without the lock.
Waits(t) == Range(SubSeq(Handles[t], 1, Len(SocketList[t])))
Signalled(c) == net[c] # {}
Wakes(t) ==
  /\ server = "event" /\ t \in Children /\ At(t, "wait")
  /\ Event[t] = 1 \/ \E c \in waits[t] : Signalled(c)
  /\ i' = Set(i, t, 0) /\ PcTo(t, "scan")
  /\ UNCHANGED <<Quiet, net, cur, todo, SocketList, Handles, Event, waits, stopped>>

\* WSAEnumNetworkEvents: the record is taken and the event reset.
Enumerates(t, c) ==
  /\ cur' = Set(cur, t, c) /\ todo' = Set(todo, t, net[c]) /\ net' = Set(net, c, {})
  /\ PcTo(t, "io")

RenumberThreadArray(t) ==
  Handles' = Set(Handles, t, SocketList[t] \o SubSeq(Handles[t], Len(SocketList[t]) + 1, Len(Handles[t])))

\* The loop over Handles: the thread's own event renumbers them and the scan
\* goes on at 2; a socket's event leads to the socket of that index.
Scan(t) ==
  /\ server = "event" /\ t \in Children /\ At(t, "scan")
  /\ \/ /\ i[t] = 0 /\ Event[t] = 1
        /\ Event' = Set(Event, t, 0) /\ RenumberThreadArray(t) /\ i' = Set(i, t, 2)
        /\ UNCHANGED <<pc, cur, todo, net, waits>>
     \/ /\ i[t] > 0 /\ i[t] <= Len(SocketList[t]) /\ Signalled(Handles[t][i[t]])
        /\ Enumerates(t, SocketList[t][i[t]])
        /\ UNCHANGED <<i, Event, Handles, waits>>
     \/ /\ i[t] <= Len(SocketList[t])
        /\ IF i[t] = 0 THEN Event[t] = 0 ELSE ~Signalled(Handles[t][i[t]])
        /\ i' = Set(i, t, i[t] + 1)
        /\ UNCHANGED <<pc, cur, todo, net, Event, Handles, waits>>
     \/ /\ i[t] > Len(SocketList[t]) /\ PcTo(t, "wait") /\ waits' = Set(waits, t, Waits(t))
        /\ UNCHANGED <<i, cur, todo, net, Event, Handles>>
  /\ UNCHANGED <<Quiet, SocketList, stopped>>

\* main: FindSocketObj(-1) is the first socket, or none at all.
MainWakes ==
  /\ server = "event" /\ Udp /\ At(0, "wait")
  /\ Event[0] = 1 \/ \E c \in Waits(0) : Signalled(c)
  /\ IF SocketList[0] # <<>>
     THEN Enumerates(0, Head(SocketList[0])) /\ UNCHANGED stopped
     ELSE stopped' = 1 /\ UNCHANGED <<cur, todo, net, pc>>
  /\ UNCHANGED <<Quiet, i, SocketList, Handles, Event, waits>>

\* HandleIo: FD_READ, FD_WRITE and FD_CLOSE in this order.
Order == [read |-> 1, write |-> 2, abort |-> 3, close |-> 4]
RemoveSocketObj(t, c) ==
  Without(t, c) /\ Event' = Set(Event, t, 1) /\ PcTo(t, "renumber")
Stays(t, l) == PcTo(t, l) /\ UNCHANGED <<SocketList, Event>>
Thread == <<NotThread, cur, i, Handles, waits, stopped>>

HandleIo(t) ==
  /\ server = "event" /\ At(t, "io")
  /\ \/ /\ todo[t] = {}
        /\ Stays(t, IF t = 0 THEN "wait" ELSE "scan")
        /\ i' = Set(i, t, IF t = 0 THEN 0 ELSE i[t] + 1) /\ UNCHANGED <<socket, todo>>
     \/ \E ev \in todo[t] :
          /\ \A other \in todo[t] : Order[ev] <= Order[other]
          /\ todo' = Set(todo, t, todo[t] \ {ev}) /\ UNCHANGED i
          /\ IF ev = "abort" THEN RemoveSocketObj(t, cur[t]) /\ Close(cur[t])
             ELSE Stays(t, CASE ev = "read" -> "read" [] ev = "write" -> "send"
                             [] ev = "close" -> "drain") /\ UNCHANGED socket
  /\ UNCHANGED <<NotThread, peerVars, received, sent, out, pending, closing, partial,
                 armed, net, cur, Handles, waits, stopped>>

\* Once for FD_READ; for FD_CLOSE until there is no more.  FD_READ comes when
\* there are data, and after FD_CLOSE their end: recv would never block.
EventReceives(t) ==
  /\ server = "event" /\ pc[t] \in {"read", "drain"}
  /\ LET c == cur[t] IN
     \/ ReceivesData(c) /\ Stays(t, IF At(t, "read") THEN "send" ELSE "drain")
     \/ (ReceivesEmpty(c) \/ LateEnd(c)) /\ Stays(t, "send")
     \/ (LastEnd(c) \/ ReceiveFails(c)) /\ RemoveSocketObj(t, c)
  /\ UNCHANGED <<Thread, todo>>

EventSends(t) ==
  /\ server = "event" /\ At(t, "send")
  /\ LET c == cur[t] IN
     \/ SendsAll(c) /\ Stays(t, "send")
     \/ SendsSome(c, FirstBytes(c)) /\ partial' = Set(partial, c, 1) /\ Stays(t, "send")
     \/ (WouldBlock(c) \/ SentAll(c)) /\ Stays(t, "io") /\ UNCHANGED socket
     \/ SentLast(c) /\ RemoveSocketObj(t, c)
     \/ SendFails(c) /\ RemoveSocketObj(t, c) /\ Close(c)
  /\ UNCHANGED <<Thread, todo>>

Renumber(t) ==
  /\ server = "event" /\ At(t, "renumber")
  /\ RenumberThreadArray(t)
  /\ PcTo(t, IF t = 0 THEN "wait" ELSE "scan") /\ i' = Set(i, t, IF t = 0 THEN 0 ELSE i[t] + 1)
  /\ todo' = Set(todo, t, {})
  /\ UNCHANGED <<Quiet, net, cur, SocketList, Event, waits, stopped>>
-----------------------------------------------------------------------------
Peers(c) == \/ Connect(c) \/ ClientSends(c) \/ ClientSendsEmpty(c) \/ ClientSendsLong(c)
            \/ ClientSendsUrgent(c) \/ Shutdown(c) \/ Reset(c) \/ ClientReads(c) \/ Notify(c)
SelectLoop == Select \/ SelectReceives \/ SelectSends \/ SelectWrites \/ SelectExcept
AsyncLoop == (\E c \in Conns : AsyncAccepts(c)) \/ WindowProc \/ AsyncReceives \/ AsyncSends
EventMain == (\E c \in Conns : EventAccepts(c)) \/ Assign \/ CreateChild \/ InsertFirst \/ Signal
EventLoop(t) == Wakes(t) \/ Scan(t) \/ HandleIo(t) \/ EventReceives(t) \/ EventSends(t) \/ Renumber(t)

Next ==
  /\ stopped = 0
  /\ \/ \E c \in Conns : Peers(c)
     \/ SelectLoop \/ AsyncLoop \/ EventMain \/ MainWakes \/ \E t \in Threads : EventLoop(t)
Spec == Init /\ [][Next]_vars

(* The servers' threads run, Winsock tells what has happened and clients   *)
(* read what they are sent; they need not send or leave.                   *)
Fairness ==
  /\ WF_vars(stopped = 0 /\ SelectLoop) /\ WF_vars(stopped = 0 /\ AsyncLoop)
  /\ WF_vars(stopped = 0 /\ EventMain)
  /\ \A t \in Threads : WF_vars(stopped = 0 /\ (EventLoop(t) \/ (t = 0 /\ MainWakes)))
  /\ \A c \in Conns : WF_vars(stopped = 0 /\ ClientReads(c)) /\ WF_vars(stopped = 0 /\ Notify(c))
FairSpec == Spec /\ Fairness
-----------------------------------------------------------------------------
(* Properties. *)

\* The bytes of the first n buffers, and of all of them.
BytesPending(c) ==
  LET bytes[n \in 0 .. Len(pending[c])] ==
        IF n = 0 THEN 0 ELSE bytes[n - 1] + Len(pending[c][n])
  IN bytes[Len(pending[c])]

\* A connection that was not aborted, open or closed, has echoed what it
\* received but for what it has queued; while no send took a part of a buffer
\* the echo is the input, in order; and it is closed with an echo queued only
\* when a recvfrom failed, with input unread only by asyncserver.cpp, when
\* FD_CLOSE is handled before the last of it (855), or behind an empty or a
\* long datagram.  (The select server frees the SOCKET_OBJ of a client with
\* out of band data: its socket is lost, not closed.)
EchoFaithful ==
  \A c \in Conns :
    /\ partial[c] = 0 => sent[c] = [n \in 1 .. Len(sent[c]) |-> n]
    /\ socket[c] = "open" \/ (socket[c] = "closed" /\ client[c] # "reset") =>
         Len(sent[c]) + BytesPending(c) = 2 * received[c]
    /\ socket[c] = "closed" /\ client[c] # "reset" =>
         /\ BytesPending(c) = 0 \/ TooLong(c)
         /\ inbox[c] = <<>> \/ server = "async" \/ Udp

\* c is owed an echo, or has left and is not closed.  The select server looks
\* at FD_SETSIZE sockets only, and ends when a client is gone before accept; a
\* UDP socket closed by a long datagram serves nobody.
Unserved(c) ==
  /\ socket[c] \in {"none", "open"} /\ client[c] \in {"open", "fin"} /\ stopped = 0
  /\ Len(sent[c]) < 2 * Units(c) \/ client[c] = "fin"
  /\ server = "select" => Cardinality({d \in Conns : socket[d] \in {"none", "open"} /\ d <= c})
                          <= Cardinality(Watched)
\* "This occurs until all the data on the connection has been echoed".
EveryoneServed == \A c \in Conns : Unserved(c) ~> ~Unserved(c)

\* A thread of the event server that waits, waits for each of its sockets, or
\* its own event is signalled, or will be; and when it looks at an index of
\* Handles the event there is that of the socket it will handle.
EventsWatched ==
  \A t \in Children : \A n \in DOMAIN SocketList[t] :
    /\ At(t, "wait") => \/ SocketList[t][n] \in waits[t] \/ Event[t] = 1
                        \/ mpc = "signal" /\ mthread = t
    /\ At(t, "scan") => Handles[t][n] = SocketList[t][n]
=============================================================================

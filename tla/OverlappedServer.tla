-------------------------- MODULE OverlappedServer --------------------------
(* chapter05/overlapped/server/overserver.cpp with UDP: main gives each    *)
(* BUFFER_OBJ, with its event, to a thread that waits for at most          *)
(* MAXIMUM_WAIT_OBJECTS - 2 of them, and posts a receive on it; the thread *)
(* echoes what a buffer received from that same buffer and receives again. *)
(* With TCP main takes a pending AcceptEx for a failure (1381) and exits.  *)
EXTENDS Integers, FiniteSets, Sequences, SequencesExt

CONSTANTS
  OverBuffers,          \* 1 .. gOverlappedCount: the BUFFER_OBJs, main's order
  MAXIMUM_WAIT_OBJECTS,
  OverThreads,          \* bound of the model: THREAD_OBJs, 1 .. n
  MaxDatagrams,         \* bound of the model: datagrams that arrive
  MaxSendFaults         \* bound of the model: WSASendTo that fail at once

ASSUME OverAssumption ==
  /\ MAXIMUM_WAIT_OBJECTS \in Nat /\ MAXIMUM_WAIT_OBJECTS > 2
  /\ MaxDatagrams \in Nat /\ MaxSendFaults \in Nat
  /\ OverBuffers \subseteq Nat /\ 1 \in OverBuffers

NOBODY == -1
MAIN == 0

VARIABLES
  gChildThreads,  \* the threads, the last one created first
  BufferList,     \* of each thread
  Handles,        \* of each thread: Handles[1] .., Handles[0] is its Event
  EventCount,     \* of each thread
  Event,          \* of each thread: 0, 1
  overOp,         \* of each buffer: [operation, state, error]
  OutstandingOps, \* of the socket
  overSock,       \* "open" or "closed"
  SockHolder,     \* who is inside SockCritSec: NOBODY, MAIN or a thread
  opc,            \* main: <<label, buffer>>
  ipc,            \* each IoThread: [at, waits, count, i, buf]
  inbox,          \* datagrams the socket holds
  overCount       \* [arrived, received, echoed, refused, failed]: see below

overVars == <<gChildThreads, BufferList, Handles, EventCount, Event, overOp, OutstandingOps,
              overSock, SockHolder, opc, ipc, inbox, overCount>>

OverInit ==
  /\ gChildThreads = <<>>
  /\ BufferList = [t \in OverThreads |-> <<>>]
  /\ Handles = [t \in OverThreads |-> [k \in 1 .. MAXIMUM_WAIT_OBJECTS - 1 |-> 0]]
  /\ EventCount = [t \in OverThreads |-> 1]
  /\ Event = [t \in OverThreads |-> 0]
  /\ overOp = [b \in OverBuffers |-> [operation |-> "none", state |-> "idle", error |-> 0]]
  /\ OutstandingOps = 0 /\ overSock = "open" /\ SockHolder = NOBODY
  /\ opc = <<"assign", 1>>
  /\ ipc = [t \in OverThreads |-> [at |-> "off", waits |-> {}, count |-> 0, i |-> 0, buf |-> 0]]
  /\ inbox = 0
  /\ overCount = [arrived |-> 0, received |-> 0, echoed |-> 0, dropped |-> 0, failed |-> 0]

netVars == <<inbox, overCount>>
listVars == <<gChildThreads, BufferList, Handles, EventCount>>
opVars == <<overOp, OutstandingOps, overSock, SockHolder>>

Tick(field) == overCount' = [overCount EXCEPT ![field] = @ + 1]
IoGoto(t, label) == ipc' = [ipc EXCEPT ![t].at = label]
-----------------------------------------------------------------------------
(* The network.  An event is signalled with the completion, state "done";  *)
(* a datagram too long for the buffer completes the receive with an error. *)

Arrive ==
  /\ overCount.arrived < MaxDatagrams /\ overSock = "open"
  /\ inbox' = inbox + 1 /\ Tick("arrived")
  /\ UNCHANGED <<listVars, opVars, Event, opc, ipc>>

Received(b) ==
  /\ overOp[b].state = "kernel" /\ overOp[b].operation = "read" /\ inbox > 0
  /\ inbox' = inbox - 1
  /\ \E e \in {0, 1} :
       /\ overOp' = [overOp EXCEPT ![b].state = "done", ![b].error = e]
       /\ Tick(IF e = 0 THEN "received" ELSE "dropped")
  /\ UNCHANGED <<listVars, OutstandingOps, overSock, SockHolder, Event, opc, ipc>>

Delivered(b) ==
  /\ overOp[b].state = "kernel" /\ overOp[b].operation = "write"
  /\ overOp' = [overOp EXCEPT ![b].state = "done", ![b].error = 0]
  /\ Tick("echoed")
  /\ UNCHANGED <<listVars, OutstandingOps, overSock, SockHolder, Event, opc, ipc, inbox>>
-----------------------------------------------------------------------------
(* PostRecv and PostSend, inside SockCritSec: the call, then the count,    *)
(* which also counts a call that failed (682, 746); PostRecv tells nobody. *)

Call(b, operation) ==
  IF overSock = "open"
  THEN /\ overOp' = [overOp EXCEPT ![b] = [operation |-> operation, state |-> "kernel", error |-> 0]]
       /\ UNCHANGED overCount
  ELSE /\ overOp' = [overOp EXCEPT ![b].operation = operation]
       /\ Tick("failed")

CountCall(who) ==
  /\ SockHolder = who /\ SockHolder' = NOBODY
  /\ OutstandingOps' = OutstandingOps + 1
  /\ UNCHANGED <<overOp, overSock>>
-----------------------------------------------------------------------------
(* main.                                                                   *)

NextBufferStep(b) == IF b + 1 \in OverBuffers THEN <<"assign", b + 1>> ELSE <<"serve", 0>>
HasRoomFor(t) == EventCount[t] < MAXIMUM_WAIT_OBJECTS - 1

\* InsertBufferObjToThread.
InsertBuffer(t, b) ==
  /\ BufferList' = [BufferList EXCEPT ![t] = Append(@, b)]
  /\ Handles' = [Handles EXCEPT ![t][EventCount[t]] = b]
  /\ EventCount' = [EventCount EXCEPT ![t] = @ + 1]

\* AssignIoToThread: the first thread of the list with room...
Assign(t) ==
  /\ opc[1] = "assign"
  /\ \E k \in DOMAIN gChildThreads :
       /\ gChildThreads[k] = t /\ HasRoomFor(t)
       /\ \A j \in 1 .. k - 1 : ~HasRoomFor(gChildThreads[j])
  /\ InsertBuffer(t, opc[2])
  /\ opc' = <<"signal", opc[2], t>>
  /\ UNCHANGED <<gChildThreads, opVars, Event, ipc, netVars>>

\* ... or a new one, which runs before it is given the buffer.
NewThread(t) ==
  /\ opc[1] = "assign" /\ t = Len(gChildThreads) + 1
  /\ \A k \in DOMAIN gChildThreads : ~HasRoomFor(gChildThreads[k])
  /\ IoGoto(t, "renumber")
  /\ opc' = <<"insert", opc[2], t>>
  /\ UNCHANGED <<listVars, opVars, Event, netVars>>

InsertNew ==
  /\ opc[1] = "insert"
  /\ InsertBuffer(opc[3], opc[2])
  /\ gChildThreads' = <<opc[3]>> \o gChildThreads
  /\ opc' = <<"signal", opc[2], opc[3]>>
  /\ UNCHANGED <<opVars, Event, ipc, netVars>>

SetsEvent(t) == Event' = [Event EXCEPT ![t] = 1]

SignalThread ==
  /\ opc[1] = "signal"
  /\ SetsEvent(opc[3])
  /\ opc' = <<"post", opc[2]>>
  /\ UNCHANGED <<listVars, opVars, ipc, netVars>>

MainPosts ==
  /\ opc[1] = "post" /\ SockHolder = NOBODY /\ SockHolder' = MAIN
  /\ Call(opc[2], "read")
  /\ opc' = <<"count", opc[2]>>
  /\ UNCHANGED <<listVars, OutstandingOps, overSock, Event, ipc, inbox>>

MainCounts ==
  /\ opc[1] = "count" /\ CountCall(MAIN)
  /\ opc' = NextBufferStep(opc[2])
  /\ UNCHANGED <<listVars, Event, ipc, netVars>>
-----------------------------------------------------------------------------
(* IoThread.                                                               *)

Renumber(t) ==
  /\ Handles' = [Handles EXCEPT ![t] = [k \in DOMAIN @ |->
                   IF k <= Len(BufferList[t]) THEN BufferList[t][k] ELSE @[k]]]
  /\ EventCount' = [EventCount EXCEPT ![t] = 1 + Len(BufferList[t])]

RenumberEvents(t) ==
  /\ ipc[t].at = "renumber" /\ Renumber(t)
  /\ IoGoto(t, "call")
  /\ UNCHANGED <<gChildThreads, BufferList, opVars, Event, opc, netVars>>

Watched(t) == {Handles[t][k] : k \in 1 .. EventCount[t] - 1}
Signalled == {b \in OverBuffers : overOp[b].state = "done"}
Freed == {b \in OverBuffers : overOp[b].state = "freed"}

\* WaitForMultipleObjects looks at the array once, when it is called; the
\* event of a freed buffer makes it fail with ERROR_INVALID_HANDLE.
CallWait(t) ==
  /\ ipc[t].at = "call"
  /\ ipc' = [ipc EXCEPT ![t].at = IF Watched(t) \cap Freed # {} THEN "renumber" ELSE "wait",
                        ![t].waits = Watched(t)]
  /\ UNCHANGED <<listVars, opVars, Event, opc, netVars>>

Wake(t) ==
  /\ ipc[t].at = "wait"
  /\ Event[t] = 1 \/ ipc[t].waits \cap Signalled # {}
  /\ ipc' = [ipc EXCEPT ![t].at = "scan", ![t].waits = {}, ![t].count = EventCount[t], ![t].i = 0]
  /\ UNCHANGED <<listVars, opVars, Event, opc, netVars>>

\* The scan polls one handle after the other; the thread's own event ends it.
ScanOwn(t) ==
  /\ ipc[t].at = "scan" /\ ipc[t].i = 0
  /\ IF Event[t] = 1
     THEN Event' = [Event EXCEPT ![t] = 0] /\ IoGoto(t, "renumber")
     ELSE ipc' = [ipc EXCEPT ![t].i = 1] /\ UNCHANGED Event
  /\ UNCHANGED <<listVars, opVars, opc, netVars>>

Scanned(t) == Handles[t][ipc[t].i]

ScanNext(t) ==
  /\ ipc[t].at = "scan" /\ ipc[t].i > 0
  /\ CASE ipc[t].i >= ipc[t].count -> IoGoto(t, "call") /\ UNCHANGED <<overOp, OutstandingOps>>
       [] ipc[t].i < ipc[t].count /\ Scanned(t) \in Signalled ->
            /\ overOp' = [overOp EXCEPT ![Scanned(t)].state = "taken"]
            /\ OutstandingOps' = OutstandingOps - 1
            /\ ipc' = [ipc EXCEPT ![t].at = "handle", ![t].buf = Scanned(t), ![t].i = @ + 1]
       [] OTHER -> ipc' = [ipc EXCEPT ![t].i = @ + 1] /\ UNCHANGED <<overOp, OutstandingOps>>
  /\ UNCHANGED <<listVars, overSock, SockHolder, Event, opc, netVars>>

\* HandleIo: a good receive is sent back from its buffer, a bad one and a
\* completed send receive again.
Echoes(t) == LET o == overOp[ipc[t].buf] IN o.operation = "read" /\ o.error = 0

Handle(t) ==
  /\ ipc[t].at = "handle" /\ SockHolder = NOBODY /\ SockHolder' = t
  /\ Call(ipc[t].buf, IF Echoes(t) THEN "write" ELSE "read")
  /\ IoGoto(t, IF Echoes(t) /\ overSock # "open" THEN "sendfailed" ELSE "counted")
  /\ UNCHANGED <<listVars, OutstandingOps, overSock, Event, opc, inbox>>

\* WSASendTo fails.
HandleFails(t) ==
  /\ ipc[t].at = "handle" /\ SockHolder = NOBODY /\ SockHolder' = t
  /\ Echoes(t) /\ overSock = "open" /\ overCount.failed < MaxSendFaults
  /\ Tick("failed") /\ IoGoto(t, "sendfailed")
  /\ UNCHANGED <<listVars, overOp, OutstandingOps, overSock, Event, opc, inbox>>

Counted(t) ==
  /\ ipc[t].at \in {"counted", "sendfailed"} /\ CountCall(t)
  /\ IoGoto(t, IF ipc[t].at = "counted" THEN "scan" ELSE "remove")
  /\ UNCHANGED <<listVars, Event, opc, netVars>>

\* The buffer of the failed send leaves its thread and is freed; the array
\* still holds its event.
RemoveBuffer(t) ==
  /\ ipc[t].at = "remove"
  /\ BufferList' = [BufferList EXCEPT ![t] = SelectSeq(@, LAMBDA b : b # ipc[t].buf)]
  /\ EventCount' = [EventCount EXCEPT ![t] = @ - 1]
  /\ Event' = [Event EXCEPT ![t] = 1]
  /\ overOp' = [overOp EXCEPT ![ipc[t].buf].state = "freed"]
  /\ IoGoto(t, "close")
  /\ UNCHANGED <<gChildThreads, Handles, OutstandingOps, overSock, SockHolder, opc, netVars>>

\* closesocket, not in SockCritSec: the receives outstanding complete with an
\* error.  FreeSocketObj returns, as the failed call was counted.
CloseOver(t) ==
  /\ ipc[t].at = "close"
  /\ overSock' = "closed" /\ inbox' = 0
  /\ overOp' = [b \in OverBuffers |-> IF overOp[b].state = "kernel"
                  THEN [overOp[b] EXCEPT !.state = "done", !.error = 1] ELSE overOp[b]]
  /\ IoGoto(t, "scan")
  /\ UNCHANGED <<listVars, OutstandingOps, SockHolder, Event, opc, overCount>>
-----------------------------------------------------------------------------
OverMain == InsertNew \/ SignalThread \/ MainPosts \/ MainCounts
            \/ \E t \in OverThreads : Assign(t) \/ NewThread(t)
IoThread(t) ==
  \/ RenumberEvents(t) \/ CallWait(t) \/ Wake(t) \/ ScanOwn(t) \/ ScanNext(t)
  \/ Handle(t) \/ HandleFails(t) \/ Counted(t) \/ RemoveBuffer(t) \/ CloseOver(t)
OverNetwork == \E b \in OverBuffers : Received(b) \/ Delivered(b)

OverNext == OverMain \/ OverNetwork \/ Arrive \/ \E t \in OverThreads : IoThread(t)

\* The operations of the socket, with the calls that failed and were counted.
Counts ==
  Cardinality({b \in OverBuffers : overOp[b].state \in {"kernel", "done"}})
  + overCount.failed - (IF SockHolder = NOBODY THEN 0 ELSE 1)

\* No event is lost: a buffer of a thread that waits is among the handles it
\* waits for, or the thread is about to be woken to renumber them.
Watches(t) ==
  ipc[t].at = "wait" =>
    \/ ToSet(BufferList[t]) \subseteq ipc[t].waits
    \/ Event[t] = 1
    \/ opc[1] = "signal" /\ opc[3] = t

\* The scan never meets the event of a buffer that its thread has freed
\* (FindBufferObj would return NULL, which HandleIo dereferences); and
\* OutstandingOps, taken down without SockCritSec, is exact but for calls
\* that failed.
OverlappedExact ==
  /\ OutstandingOps = Counts
  /\ \A t \in OverThreads :
       /\ Watches(t)
       /\ ipc[t].at = "scan" /\ 0 < ipc[t].i /\ ipc[t].i < ipc[t].count =>
            Scanned(t) \in ToSet(BufferList[t])

\* The n-th datagram received is echoed, unless a send fails: that closes the
\* socket for good.
DatagramReceived(n) == overCount.received >= n
DatagramEchoed(n) == overCount.echoed >= n \/ overCount.failed > 0
=============================================================================

------------------------------- MODULE QosTcp -------------------------------
(* chapter10/qostcp.cpp: a server for MAX_CONN clients, with an event for  *)
(* each socket, and its clients, which may wait for a reservation before   *)
(* they send (-w).  External: Winsock and the QoS provider.                *)
EXTENDS Integers, Sequences, SequencesExt, FiniteSets

CONSTANTS
  MAX_CONN,
  QosClients,    \* 1 .. n: the clients that connect, in this order
  QosConfigs,    \* runs: -q, -w, whether 585 counts first, and how many clients
  MaxQosFaults   \* bound of the model: ioctls that fail, connections reset

ASSUME QosAssumption ==
  /\ MAX_CONN \in Nat \ {0} /\ MaxQosFaults \in Nat /\ QosClients \subseteq Nat \ {0}
  /\ QosConfigs \subseteq [q : {"before", "during", "after", "event"}, w : {0, 1}, early : {0, 1},
                           clients : QosClients]

VARIABLES
  iSetQos,       \* -q of the server: "before", "during", "after" or "event"
  bWaitToSend,   \* -w of the clients: 0, 1
  early,         \* whether ++nConns comes before the call of WSAAccept (585)
  nConns,
  sc,            \* sc[1] ..: whose socket; 0 is INVALID_SOCKET
  hAllEvents,    \* hAllEvents[1] ..: whose event; its negative once closed
  happened,      \* network events of each client's socket not enumerated yet
  backlog,
  qmain,         \* <<label, index>>
  qclient,       \* each client: [at, reserved, sent]
  inflight,      \* data of each client that the server has not read
  qos,           \* clients whose socket the server gave a QoS
  qcount         \* [faults, refused, middle]: middle, a client not the last one closed

qosVars == <<iSetQos, bWaitToSend, early, nConns, sc, hAllEvents, happened, backlog, qmain,
             qclient, inflight, qos, qcount>>
configVars == <<bWaitToSend, early>>
arrayVars == <<nConns, sc, hAllEvents>>

Slots == 1 .. MAX_CONN

QosInit ==
  /\ \E g \in QosConfigs :
       /\ iSetQos = g.q /\ bWaitToSend = g.w /\ early = g.early
       /\ qclient = [c \in QosClients |-> [at |-> IF c <= g.clients THEN "new" ELSE "absent",
                                           reserved |-> 0, sent |-> 0]]
  /\ nConns = 0 /\ sc = [k \in Slots |-> 0] /\ hAllEvents = [k \in Slots |-> 0]
  /\ happened = [c \in QosClients |-> {}] /\ backlog = <<>>
  /\ qmain = <<"wait", 0>>
  /\ inflight = [c \in QosClients |-> 0] /\ qos = {}
  /\ qcount = [faults |-> 0, refused |-> 0, middle |-> 0]

QosGoto(label, k) == qmain' = <<label, k>>
AtQos(label) == qmain[1] = label
Refuses == qcount' = [qcount EXCEPT !.refused = 1]
Fault == qcount.faults < MaxQosFaults /\ qcount' = [qcount EXCEPT !.faults = @ + 1]

\* The clients whose socket WSAEventSelect has been called for.
Selected == {sc[k] : k \in {j \in 1 .. nConns : ~(AtQos("select") /\ j = nConns)}} \ {0}
Record(c, e) == happened' = IF c \in Selected THEN [happened EXCEPT ![c] = @ \cup e] ELSE happened
-----------------------------------------------------------------------------
(* The clients.                                                            *)

ConnectQos(c) ==
  /\ qclient[c].at = "new" /\ \A d \in QosClients : d < c => qclient[d].at # "new"
  /\ ~AtQos("end")
  /\ qclient' = [qclient EXCEPT ![c].at = "open"]
  /\ backlog' = Append(backlog, c)
  /\ UNCHANGED <<iSetQos, configVars, arrayVars, happened, qmain, inflight, qos, qcount>>

MaySend(c) == bWaitToSend = 0 \/ qclient[c].reserved = 1

\* FD_WRITE, or with -w the FD_QOS that brings the reservation: one buffer.
SendQos(c) ==
  /\ qclient[c].at = "open" /\ qclient[c].sent = 0 /\ MaySend(c)
  /\ qclient' = [qclient EXCEPT ![c].sent = 1]
  /\ inflight' = [inflight EXCEPT ![c] = 1]
  /\ Record(c, {"read"})
  /\ UNCHANGED <<iSetQos, configVars, arrayVars, backlog, qmain, qos, qcount>>

\* The server's receiving flowspec reaches the client as a RESV message; the
\* server learns of the client's PATH message by FD_QOS.
Reserve(c) ==
  /\ qclient[c].at = "open" /\ c \in qos /\ qclient[c].reserved = 0
  /\ qclient' = [qclient EXCEPT ![c].reserved = 1]
  /\ UNCHANGED <<iSetQos, configVars, arrayVars, happened, backlog, qmain, inflight, qos, qcount>>

PathArrives(c) ==
  /\ qclient[c].at = "open" /\ c \in Selected /\ c \notin qos /\ iSetQos = "event"
  /\ "qos" \notin happened[c] /\ Record(c, {"qos"})
  /\ UNCHANGED <<iSetQos, configVars, arrayVars, backlog, qmain, qclient, inflight, qos, qcount>>

\* A client is stopped, or its connection reset.
LeaveQos(c) ==
  /\ qclient[c].at = "open"
  /\ qclient' = [qclient EXCEPT ![c].at = "left"]
  /\ Record(c, {"close"})
  /\ UNCHANGED <<iSetQos, configVars, arrayVars, backlog, qmain, inflight, qos, qcount>>

ResetQos(c) ==
  /\ qclient[c].at = "open" /\ Fault
  /\ qclient' = [qclient EXCEPT ![c].at = "reset"]
  /\ inflight' = [inflight EXCEPT ![c] = 0]
  /\ Record(c, {"close"})
  /\ UNCHANGED <<iSetQos, configVars, arrayVars, backlog, qmain, qos>>
-----------------------------------------------------------------------------
(* The server.                                                             *)

Invalid == \E k \in 1 .. nConns : hAllEvents[k] < 0
Signalled2(k) == hAllEvents[k] > 0 /\ happened[hAllEvents[k]] # {}

\* WSAWaitForMultipleEvents over nConns + 1 events: it fails if one of them
\* is closed, and Server returns; else it names the first that is signalled.
WaitQos ==
  /\ AtQos("wait")
  /\ \/ Invalid /\ QosGoto("end", 0)
     \/ ~Invalid /\ backlog # <<>> /\ QosGoto("accept", 0)
     \/ /\ ~Invalid /\ backlog = <<>>
        /\ \E k \in 1 .. nConns :
             /\ Signalled2(k) /\ \A j \in 1 .. k - 1 : ~Signalled2(j)
             /\ QosGoto("read", k)
  /\ UNCHANGED <<iSetQos, configVars, arrayVars, happened, backlog, qclient, inflight, qos, qcount>>

\* SrvCondAccept refuses a client too many, and with -q e one whose ioctl
\* fails: with ++nConns first it is made on an element of sc not used yet.
Rejects == nConns + early = MAX_CONN \/ (iSetQos = "event" /\ early = 1 /\ sc[nConns + 1] = 0)

\* WSAAccept with SrvCondAccept: whatever is refused ends the server.
AcceptQos ==
  /\ AtQos("accept")
  /\ backlog' = Tail(backlog)
  /\ IF Rejects
     THEN Refuses /\ QosGoto("end", 0) /\ UNCHANGED <<arrayVars, qos>>
     ELSE /\ nConns' = nConns + 1
          /\ sc' = [sc EXCEPT ![nConns + 1] = Head(backlog)]
          /\ hAllEvents' = [hAllEvents EXCEPT ![nConns + 1] = Head(backlog)]
          /\ qos' = IF iSetQos = "before" THEN qos \cup {Head(backlog)} ELSE qos
          /\ QosGoto("select", nConns + 1) /\ UNCHANGED qcount
  /\ UNCHANGED <<iSetQos, configVars, happened, qclient, inflight>>

\* The ioctl in SrvCondAccept fails.
AcceptFails ==
  /\ AtQos("accept") /\ iSetQos = "event" /\ Fault
  /\ backlog' = Tail(backlog) /\ QosGoto("end", 0)
  /\ UNCHANGED <<iSetQos, configVars, arrayVars, happened, qclient, inflight, qos>>

\* Ten seconds later: SIO_SET_QOS with -q a, then WSAEventSelect, which sets
\* the event for what has already happened.
SelectQos ==
  /\ AtQos("select")
  /\ LET c == sc[qmain[2]] IN
     /\ happened' = [happened EXCEPT ![c] =
          {"write"} \cup (IF inflight[c] > 0 THEN {"read"} ELSE {})
                    \cup (IF qclient[c].at # "open" THEN {"close"} ELSE {})]
     /\ qos' = IF iSetQos = "after" THEN qos \cup {c} ELSE qos
  /\ QosGoto("wait", 0)
  /\ UNCHANGED <<iSetQos, configVars, arrayVars, backlog, qclient, inflight, qcount>>

\* HandleClientEvents enumerates, which clears what it returns, and reads
\* once; a receive that fails leaves the close that came with it unseen.
ReadQos ==
  /\ AtQos("read")
  /\ LET k == qmain[2]  c == sc[k]  e == happened[c] IN
     /\ happened' = [happened EXCEPT ![c] = {}]
     /\ inflight' = IF "read" \in e THEN [inflight EXCEPT ![c] = 0] ELSE inflight
     /\ IF "read" \in e /\ qclient[c].at = "reset" THEN QosGoto("wait", 0)
        ELSE IF "close" \in e THEN qmain' = <<"close", k, "qos" \in e>>
        ELSE IF "qos" \in e THEN QosGoto("qos", k)
        ELSE QosGoto("wait", 0)
  /\ UNCHANGED <<iSetQos, configVars, arrayVars, backlog, qclient, qos, qcount>>

\* FD_CLOSE: the sockets behind are moved up, their events are not.
CompactsSockets(k) ==
  sc' = [j \in Slots |-> IF j \in k .. MAX_CONN - 2 THEN sc[j + 1] ELSE IF j = k THEN 0 ELSE sc[j]]
ClosesEvent(k) == hAllEvents' = [hAllEvents EXCEPT ![k] = -hAllEvents[k]]

NothingFreed == UNCHANGED nConns               \* mutant: 382 is missing
OneFreed == nConns' = nConns - 1

CloseQos ==
  /\ AtQos("close")
  /\ CompactsSockets(qmain[2]) /\ ClosesEvent(qmain[2]) /\ OneFreed
  /\ IF qmain[3] THEN QosGoto("qos", qmain[2]) ELSE QosGoto("wait", 0)
  /\ qcount' = IF qmain[2] < nConns THEN [qcount EXCEPT !.middle = 1] ELSE qcount
  /\ UNCHANGED <<iSetQos, configVars, happened, backlog, qclient, inflight, qos>>

\* FD_QOS: with -q e the socket gets its QoS, the first one only (433).
EventQos ==
  /\ AtQos("qos")
  /\ QosGoto("wait", 0)
  /\ \/ /\ qos' = IF iSetQos = "event" /\ sc[qmain[2]] # 0 THEN qos \cup {sc[qmain[2]]} ELSE qos
        /\ iSetQos' = IF iSetQos = "event" /\ sc[qmain[2]] # 0 THEN "before" ELSE iSetQos
        /\ UNCHANGED qcount
     \/ Fault /\ UNCHANGED <<qos, iSetQos>>
  /\ UNCHANGED <<configVars, arrayVars, happened, backlog, qclient, inflight>>
-----------------------------------------------------------------------------
QosServer == WaitQos \/ AcceptQos \/ AcceptFails \/ SelectQos \/ ReadQos \/ CloseQos \/ EventQos

QosNext ==
  \/ QosServer
  \/ \E c \in QosClients :
       ConnectQos(c) \/ SendQos(c) \/ Reserve(c) \/ PathArrives(c) \/ LeaveQos(c) \/ ResetQos(c)

\* Each socket of the server has its own event, until a client other than the
\* last one closes: that, or a client refused, is what ends the server; a
\* client that is to wait sends nothing before the reservation.
QosSound ==
  /\ \A k \in 1 .. nConns : ~Invalid =>
       /\ sc[k] # 0 /\ sc[k] = hAllEvents[k]
       /\ \A j \in 1 .. k - 1 : sc[j] # sc[k]
  /\ AtQos("end") => Invalid \/ qcount.refused = 1 \/ qcount.faults > 0
  /\ Invalid => qcount.middle = 1
  /\ qcount.refused = 1 => nConns + early = MAX_CONN \/ (iSetQos = "event" /\ early = 1)
  /\ bWaitToSend = 1 => \A c \in QosClients : qclient[c].sent = 1 => qclient[c].reserved = 1

\* What a client sent is read, as long as the server runs.
QosOwes(c) == inflight[c] = 1
QosServes(c) == inflight[c] = 0 \/ AtQos("end")
=============================================================================

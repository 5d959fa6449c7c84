--------------------------- MODULE NetBiosSockets ---------------------------
(* chapter04/NetBIOS/wsnbsvr.cpp and wsnbclnt.cpp: an echo server over all *)
(* NetBIOS transports, with an event for each and a thread per client, and *)
(* clients that connect over every transport and keep one connection.      *)
(* External: Winsock.  FD_ACCEPT sets the event when a connection waits,   *)
(* and after that not before the next accept (armed).                      *)
EXTENDS Integers, Sequences, FiniteSets, FiniteSetsExt

CONSTANTS
  NbTransports,   \* wsapi: 0 .. dwNumProtocols - 1
  NbClients,
  dwCount,
  MaxNbFaults     \* bound of the model: failing connects, sends, CreateThread

ASSUME NbAssumption == NbTransports \subseteq Nat /\ dwCount \in Nat \ {0}

VARIABLES
  nbServer,   \* main of the server: <<label, dwIndex>>
  hEvents,    \* the event of each transport
  armed,      \* an arriving connection will set it
  arrived,    \* of each transport the clients that wait for accept
  swallowed,  \* transports whose event was reset with a connection waiting
  nbConn,     \* of <<client, transport>>: "none", "open", "closed"
  nbWorker,   \* ClientThread of each: "none", "recv", "send", "retry", "gone"
  toServer, toClient,   \* messages on their way
  nbPeer,     \* the clients: [at, l, i]
  nbFaults
wsnbVars == <<nbServer, hEvents, armed, arrived, swallowed, nbConn, nbWorker, toServer, toClient, nbPeer, nbFaults>>

NbPairs == NbClients \X NbTransports
NOTRANSPORT == -1

NetBiosSocketsInit ==
  /\ nbServer = <<"wait", NOTRANSPORT>>
  /\ hEvents = [l \in NbTransports |-> 0] /\ armed = [l \in NbTransports |-> 1]
  /\ arrived = [l \in NbTransports |-> <<>>] /\ swallowed = {}
  /\ nbConn = [k \in NbPairs |-> "none"] /\ nbWorker = nbConn
  /\ toServer = [k \in NbPairs |-> 0] /\ toClient = toServer
  /\ nbPeer = [c \in NbClients |-> [at |-> "connect", l |-> Min(NbTransports), i |-> 0]]
  /\ nbFaults = 0

NbFault == nbFaults < MaxNbFaults /\ nbFaults' = nbFaults + 1
ServerAt(label) == nbServer[1] = label
Transport == nbServer[2]
NbRunning == ~ServerAt("end")
eventVars == <<hEvents, armed, arrived, swallowed>>
wireVars == <<toServer, toClient>>
-----------------------------------------------------------------------------
\* The lowest transport whose event is set.
WaitForEvents ==
  LET ready == {l \in NbTransports : hEvents[l] = 1}
  IN /\ ServerAt("wait") /\ ready # {} /\ nbServer' = <<"accept", Min(ready)>>
     /\ UNCHANGED <<eventVars, nbConn, nbWorker, wireVars, nbPeer, nbFaults>>

\* accept, which arms FD_ACCEPT again, and at once if more wait.  A set
\* event has a connection behind it, so WSAEWOULDBLOCK does not happen.
Accepts ==
  LET k == <<Head(arrived[Transport]), Transport>>
      rest == Tail(arrived[Transport])
  IN /\ ServerAt("accept") /\ arrived[Transport] # <<>>
     /\ arrived' = [arrived EXCEPT ![Transport] = rest]
     /\ armed' = [armed EXCEPT ![Transport] = IF rest = <<>> THEN 1 ELSE 0]
     /\ hEvents' = [hEvents EXCEPT ![Transport] = IF rest = <<>> THEN @ ELSE 1]
     /\ \/ /\ nbWorker' = [nbWorker EXCEPT ![k] = "recv"]
           /\ nbServer' = <<"reset", Transport>> /\ UNCHANGED nbFaults
        \/ NbFault /\ nbServer' = <<"end", NOTRANSPORT>> /\ UNCHANGED nbWorker
     /\ UNCHANGED <<swallowed, nbConn, wireVars, nbPeer>>

\* WSAResetEvent, whatever arrived since the accept.
ResetsEvent ==
  /\ ServerAt("reset")
  /\ hEvents' = [hEvents EXCEPT ![Transport] = 0]
  /\ swallowed' = IF arrived[Transport] = <<>> THEN swallowed ELSE swallowed \cup {Transport}
  /\ nbServer' = <<"wait", NOTRANSPORT>>
  /\ UNCHANGED <<armed, arrived, nbConn, nbWorker, wireVars, nbPeer, nbFaults>>
-----------------------------------------------------------------------------
\* ClientThread: recv is tried until something is there; at the end of the
\* connection the thread leaves without closesocket.
Worker(k, label) == NbRunning /\ nbWorker[k] = label
WorkerGoes(k, label) == nbWorker' = [nbWorker EXCEPT ![k] = label]

WorkerReceives(k) ==
  /\ Worker(k, "recv")
  /\ \/ toServer[k] > 0 /\ toServer' = [toServer EXCEPT ![k] = @ - 1] /\ WorkerGoes(k, "send")
     \/ toServer[k] = 0 /\ nbConn[k] = "closed" /\ WorkerGoes(k, "gone") /\ UNCHANGED toServer
  /\ UNCHANGED <<nbServer, eventVars, nbConn, toClient, nbPeer, nbFaults>>

\* A send that would block is tried again, with the result (-1) for length.
WorkerSends(k) ==
  /\ Worker(k, "send")
  /\ \/ toClient' = [toClient EXCEPT ![k] = @ + 1] /\ WorkerGoes(k, "recv") /\ UNCHANGED nbFaults
     \/ NbFault /\ WorkerGoes(k, "retry") /\ UNCHANGED toClient
  /\ UNCHANGED <<nbServer, eventVars, nbConn, toServer, nbPeer>>

WorkerRetries(k) ==
  /\ Worker(k, "retry") /\ WorkerGoes(k, "gone")
  /\ UNCHANGED <<nbServer, eventVars, nbConn, wireVars, nbPeer, nbFaults>>
-----------------------------------------------------------------------------
Client(c, label) == nbPeer[c].at = label
Kept(c) == <<c, nbPeer[c].l>>
NbPeerGoes(c, label) == nbPeer' = [nbPeer EXCEPT ![c].at = label]

\* WSAConnect over each transport in turn; one that fails is left out.
NbPeerConnects(c) ==
  LET l == nbPeer[c].l
      more == {m \in NbTransports : m > l}
  IN /\ Client(c, "connect")
     /\ nbPeer' = IF more = {} THEN [nbPeer EXCEPT ![c].at = "wait"] ELSE [nbPeer EXCEPT ![c].l = Min(more)]
     /\ \/ /\ NbRunning /\ nbConn' = [nbConn EXCEPT ![<<c, l>>] = "open"]
           /\ arrived' = [arrived EXCEPT ![l] = Append(@, c)]
           /\ hEvents' = [hEvents EXCEPT ![l] = IF armed[l] = 1 THEN 1 ELSE @]
           /\ armed' = [armed EXCEPT ![l] = 0]
           /\ UNCHANGED nbFaults
        \/ /\ IF NbRunning THEN NbFault ELSE UNCHANGED nbFaults
           /\ UNCHANGED <<nbConn, arrived, hEvents, armed>>
     /\ UNCHANGED <<nbServer, swallowed, nbWorker, wireVars>>

\* The first that connected is kept.  With none this waits for ever.
NbPeerKeepsOne(c) ==
  LET open == {l \in NbTransports : nbConn[<<c, l>>] = "open"}
  IN /\ Client(c, "wait") /\ open # {}
     /\ nbPeer' = [nbPeer EXCEPT ![c].at = "send", ![c].l = Min(open)]
     /\ nbConn' = [k \in NbPairs |-> IF k[1] = c /\ k[2] \in open \ {Min(open)} THEN "closed" ELSE nbConn[k]]
     /\ UNCHANGED <<nbServer, eventVars, nbWorker, wireVars, nbFaults>>

NbPeerSends(c) ==
  /\ Client(c, "send")
  /\ IF nbPeer[c].i = dwCount \/ ~NbRunning
     THEN nbConn' = [nbConn EXCEPT ![Kept(c)] = "closed"] /\ NbPeerGoes(c, "end") /\ UNCHANGED toServer
     ELSE toServer' = [toServer EXCEPT ![Kept(c)] = @ + 1] /\ NbPeerGoes(c, "recv") /\ UNCHANGED nbConn
  /\ UNCHANGED <<nbServer, eventVars, nbWorker, toClient, nbFaults>>

\* select and recv; fails when the server has ended.
NbPeerReceives(c) ==
  /\ Client(c, "recv")
  /\ \/ /\ toClient[Kept(c)] > 0 /\ toClient' = [toClient EXCEPT ![Kept(c)] = @ - 1]
        /\ nbPeer' = [nbPeer EXCEPT ![c].at = "send", ![c].i = @ + 1]
     \/ toClient[Kept(c)] = 0 /\ ~NbRunning /\ NbPeerGoes(c, "end") /\ UNCHANGED toClient
  /\ UNCHANGED <<nbServer, eventVars, nbConn, nbWorker, toServer, nbFaults>>

NbServerThreads ==
  \/ WaitForEvents \/ Accepts \/ ResetsEvent
NbWorkers == \E k \in NbPairs : WorkerReceives(k) \/ WorkerSends(k) \/ WorkerRetries(k)
NbPeer(c) == NbPeerConnects(c) \/ NbPeerKeepsOne(c) \/ NbPeerSends(c) \/ NbPeerReceives(c)
NetBiosSocketsNext == NbServerThreads \/ NbWorkers \/ \E c \in NbClients : NbPeer(c)
-----------------------------------------------------------------------------
\* A connection that waits for accept wakes main, unless WSAResetEvent (452)
\* came after the event was set for it: from then on that transport takes
\* nobody, since only accept arms the event again.
NoneForgotten ==
  \A l \in NbTransports :
    (ServerAt("wait") /\ arrived[l] # <<>> /\ hEvents[l] = 0) => l \in swallowed

\* The message a client waits for is in one place: on its way, with its
\* thread, or lost with a thread that tried to send it twice (220).
OneMessage ==
  \A c \in NbClients :
    Client(c, "recv") =>
      LET k == Kept(c)
      IN toServer[k] + toClient[k] + (IF nbWorker[k] \in {"send", "retry", "gone"} THEN 1 ELSE 0) = 1

NetBiosSocketsRight == NoneForgotten /\ OneMessage

NetBiosSocketsOwes(c) == Client(c, "send")
NetBiosSocketsServes(c) ==
  \/ Client(c, "end") \/ nbPeer[c].l \in swallowed \/ nbWorker[Kept(c)] = "gone"
=============================================================================

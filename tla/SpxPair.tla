------------------------------ MODULE SpxPair ------------------------------
(* chapter04/IPX-SPX/sockspx.cpp: the echo server and its clients, over    *)
(* SPX ('s', 'p': the server has one connection at a time) or IPX ('d').   *)
(* External: the network; reading what came for a socket gives all of it.  *)
EXTENDS Integers, Sequences, SequencesExt, FiniteSets, FiniteSetsExt

CONSTANTS
  SpxClients,
  SpxSizes,       \* values of -b, dwNumBytes, of the server and of the clients
  dwNumToSend,
  MaxSpxFaults    \* bound of the model: lost datagrams, clients that are killed

ASSUME SpxAssumption == SpxSizes \subseteq Nat \ {0} /\ dwNumToSend \in Nat \ {0}

NOPEER == 0
ASSUME SpxClientAssumption == SpxClients \subseteq Nat \ {NOPEER}

VARIABLES
  spxArgs,     \* [proto, server, client]: -p and the two values of -b
  spxServer,   \* [at, conn, total]: total is iTotal, then what SendData sends
  spxClient,   \* of each client [at, i, total]
  spxUp, spxDown,  \* bytes on their way to the server and to each client
  spxGone,     \* "no", "closed", "killed": how a client left
  spxBacklog,     \* connections that wait for accept
  spxLost      \* clients that lost a datagram
spxVars == <<spxArgs, spxServer, spxClient, spxUp, spxDown, spxGone, spxBacklog, spxLost>>

SpxArgs == [proto : {"s", "d"}, server : SpxSizes, client : SpxSizes]
Datagrams == spxArgs.proto = "d"

SpxInit ==
  /\ spxArgs \in SpxArgs
  /\ spxServer = [at |-> IF spxArgs.proto = "d" THEN "datagram" ELSE "accept", conn |-> NOPEER, total |-> 0]
  /\ spxClient = [c \in SpxClients |-> [at |-> "connect", i |-> 0, total |-> 0]]
  /\ spxUp = [c \in SpxClients |-> 0] /\ spxDown = spxUp
  /\ spxGone = [c \in SpxClients |-> "no"]
  /\ spxBacklog = <<>> /\ spxLost = {}

SpxFaults == Cardinality(spxLost) + Cardinality({c \in SpxClients : spxGone[c] = "killed"})
MayFault == SpxFaults < MaxSpxFaults
ServerIs(label) == spxServer.at = label
ServerGoes(label, total) == spxServer' = [spxServer EXCEPT !.at = label, !.total = total]
Peer == spxServer.conn
ClientIs(c, label) == spxClient[c].at = label
\* The server's end of a connection is closed, or the server has ended.
ServerLeft(c) == ServerIs("end") \/ (~Datagrams /\ Peer # c /\ c \notin ToSet(spxBacklog))
-----------------------------------------------------------------------------
SpxAccept ==
  /\ ServerIs("accept") /\ spxBacklog # <<>> /\ spxBacklog' = Tail(spxBacklog)
  /\ spxServer' = [at |-> "recv", conn |-> Head(spxBacklog), total |-> 0]
  /\ UNCHANGED <<spxArgs, spxClient, spxUp, spxDown, spxGone, spxLost>>

\* ReceiveData reads until it has dwNumBytes, or the client has closed.
Reads(want, got, there) == Min({want - got, there})

ServerReceives ==
  /\ ServerIs("recv")
  /\ LET k == Reads(spxArgs.server, spxServer.total, spxUp[Peer])
         total == spxServer.total + k
     IN /\ spxUp' = [spxUp EXCEPT ![Peer] = @ - k]
        /\ \/ k > 0 /\ spxGone[Peer] # "killed" /\ ServerGoes(IF total = spxArgs.server THEN "send" ELSE "recv", total)
           \/ k = 0 /\ spxGone[Peer] = "closed" /\ ServerGoes(IF total = 0 THEN "close" ELSE "send", total)
           \/ spxGone[Peer] = "killed" /\ ServerGoes("end", 0)
  /\ UNCHANGED <<spxArgs, spxClient, spxDown, spxGone, spxBacklog, spxLost>>

\* SendData; to a client that left it may still work.  A failure ends the
\* server.
ServerSends ==
  /\ ServerIs("send")
  /\ \/ spxDown' = [spxDown EXCEPT ![Peer] = @ + spxServer.total] /\ ServerGoes("recv", 0)
     \/ spxGone[Peer] # "no" /\ ServerGoes("end", 0) /\ UNCHANGED spxDown
  /\ UNCHANGED <<spxArgs, spxClient, spxUp, spxGone, spxBacklog, spxLost>>

ServerCloses ==
  /\ ServerIs("close")
  /\ spxServer' = [at |-> "accept", conn |-> NOPEER, total |-> 0]
  /\ UNCHANGED <<spxArgs, spxClient, spxUp, spxDown, spxGone, spxBacklog, spxLost>>

\* ReceiveDatagram and SendDatagram to whoever sent it.
ServerDatagram(c) ==
  /\ ServerIs("datagram") /\ spxUp[c] > 0 /\ spxUp' = [spxUp EXCEPT ![c] = 0]
  /\ \/ spxDown' = [spxDown EXCEPT ![c] = spxUp[c]] /\ UNCHANGED spxLost
     \/ MayFault /\ spxLost' = spxLost \cup {c} /\ UNCHANGED spxDown
  /\ UNCHANGED <<spxArgs, spxServer, spxClient, spxGone, spxBacklog>>

Server ==
  \/ SpxAccept \/ ServerReceives \/ ServerSends \/ ServerCloses
  \/ \E c \in SpxClients : ServerDatagram(c)
-----------------------------------------------------------------------------
ClientGoes(c, label) == spxClient' = [spxClient EXCEPT ![c].at = label, ![c].total = 0]
SpxConnect(c) ==
  /\ ClientIs(c, "connect")
  /\ \/ Datagrams /\ ClientGoes(c, "send") /\ UNCHANGED spxBacklog
     \/ ~Datagrams /\ ~ServerIs("end") /\ spxBacklog' = Append(spxBacklog, c) /\ ClientGoes(c, "send")
     \/ ~Datagrams /\ ServerIs("end") /\ ClientGoes(c, "end") /\ UNCHANGED spxBacklog
  /\ UNCHANGED <<spxArgs, spxServer, spxUp, spxDown, spxGone, spxLost>>

SpxSend(c) ==
  /\ ClientIs(c, "send")
  /\ \/ ~ServerLeft(c) /\ spxUp' = [spxUp EXCEPT ![c] = @ + spxArgs.client] /\ ClientGoes(c, "recv") /\ UNCHANGED spxLost
     \/ Datagrams /\ MayFault /\ spxLost' = spxLost \cup {c} /\ ClientGoes(c, "recv") /\ UNCHANGED spxUp
     \/ ServerLeft(c) /\ ClientGoes(c, "close") /\ UNCHANGED <<spxUp, spxLost>>
  /\ UNCHANGED <<spxArgs, spxServer, spxDown, spxGone, spxBacklog>>

\* ReceiveData, or ReceiveDatagram; after it the next of dwNumToSend sends.
SpxReceive(c) ==
  LET k == Reads(spxArgs.client, spxClient[c].total, spxDown[c])
      total == spxClient[c].total + k
      i == spxClient[c].i + 1
  IN /\ ClientIs(c, "recv") /\ spxDown' = [spxDown EXCEPT ![c] = @ - k]
     /\ \/ k > 0 /\ total < spxArgs.client /\ spxClient' = [spxClient EXCEPT ![c].total = total]
        \/ /\ k > 0 /\ total = spxArgs.client
           /\ spxClient' = [spxClient EXCEPT ![c] = [at |-> IF i = dwNumToSend THEN "close" ELSE "send",
                                                     i |-> i, total |-> 0]]
        \/ k = 0 /\ ServerLeft(c) /\ ClientGoes(c, "close")
     /\ UNCHANGED <<spxArgs, spxServer, spxUp, spxGone, spxBacklog, spxLost>>

SpxClose(c) ==
  /\ ClientIs(c, "close") /\ ClientGoes(c, "end")
  /\ spxGone' = [spxGone EXCEPT ![c] = "closed"]
  /\ UNCHANGED <<spxArgs, spxServer, spxUp, spxDown, spxBacklog, spxLost>>

SpxKilled(c) ==
  /\ ~ClientIs(c, "connect") /\ ~ClientIs(c, "end") /\ MayFault /\ ClientGoes(c, "end")
  /\ spxGone' = [spxGone EXCEPT ![c] = "killed"]
  /\ UNCHANGED <<spxArgs, spxServer, spxUp, spxDown, spxBacklog, spxLost>>

SpxClient(c) == SpxConnect(c) \/ SpxSend(c) \/ SpxReceive(c) \/ SpxClose(c)
SpxNext == Server \/ \E c \in SpxClients : SpxClient(c) \/ SpxKilled(c)
-----------------------------------------------------------------------------
\* The two ends never wait for each other, except that the server collects
\* its own dwNumBytes (380): it then holds the rest of a message whose size
\* is no multiple of that.
SizesFit == spxArgs.client % spxArgs.server = 0
SpxMoves ==
  \A c \in SpxClients :
    (~Datagrams /\ Peer = c /\ ServerIs("recv") /\ ClientIs(c, "recv") /\ spxUp[c] = 0 /\ spxDown[c] = 0)
      => (~SizesFit /\ spxServer.total > 0)

\* A client that started gets through, unless sizes do not fit, its datagram
\* was lost (nobody sends it again) or it was killed; a killed client takes
\* the server and so everybody's connection with it, and the others end.
SpxOwes(c) == ~ClientIs(c, "connect")
SpxServes(c) == ClientIs(c, "end") \/ c \in spxLost \/ (~Datagrams /\ ~SizesFit)
=============================================================================

----------------------------- MODULE IocpClient -----------------------------
(* chapter05/iocp/client/iocpclient.cpp: the completion port echo client.  *)
(* main connects gConnectionCount sockets, then takes completions one by   *)
(* one; with a rate limit (-r) SendThread walks the list of sockets and    *)
(* posts the sends that main left on Repost.  TransmitFile (-t) differs    *)
(* from WSASend in no step and is the same send here.                      *)
(* A completion that failed is printed and dropped (1403-1414): HandleIo's *)
(* branch for errors (797-831) never runs.                                 *)
EXTENDS Integers, Sequences, SequencesExt, FiniteSets

CONSTANTS
  MaxConnections, \* bound of the model: the largest gConnectionCount
  ClientArgs,     \* command lines: -c, -r given or not, -o and -x
  ClientFaults    \* bound of the model: connections the network may break

ASSUME ClientAssumption ==
  /\ MaxConnections \in Nat \ {0}
  /\ ClientArgs \subseteq 
       [connections : 1 .. MaxConnections, rate : {0, 1}, overlapped : Nat \ {0}, sends : Nat]
  /\ ClientFaults \subseteq 1 .. MaxConnections

VARIABLES
  args,       \* the command line: gConnectionCount, gRateLimit # -1, ...
  sock,       \* the SOCKET_OBJs
  wire,       \* the kernel's and the server's side of each connection
  compPort,   \* the completion port: <<connection, operation, buffers>>
  gCurrentConnections,
  cpc,        \* where main is: <<label, connection, bCleanupSocket>>
  tpc         \* where SendThread is: <<label, connection>>

clientVars == <<args, sock, wire, compPort, gCurrentConnections, cpc, tpc>>

\* The sockets, in the order of gConnectionList.
Connections == 1 .. args.connections

NewSocket == [s |-> "none", OutstandingOps |-> 0, SendCount |-> 0, bClosing |-> 0, Repost |-> 0]

\* posted: sends accepted by the kernel, of which sends are not complete and
\* sent have reached the server; served: of these echoed; got: of these read.
NewWire == [state |-> "new", recvs |-> 0, sends |-> 0, posted |-> 0, sent |-> 0, fin |-> 0,
            served |-> 0, got |-> 0]

ClientInit ==
  /\ args \in ClientArgs
  /\ sock = [c \in Connections |-> NewSocket]
  /\ wire = [c \in Connections |-> NewWire]
  /\ compPort = <<>> /\ gCurrentConnections = 0
  /\ cpc = <<"create", 1, 0>> /\ tpc = <<"off", 1>>

MainDoes(label) == cpc[1] = label
SenderHolds(c) == tpc = <<"posted", c>>
-----------------------------------------------------------------------------
(* The network and the server, an echo server that closes once it has      *)
(* echoed everything after the client's shutdown.                          *)

Connected(c) ==
  /\ wire[c].state = "connecting"
  /\ wire' = [wire EXCEPT ![c].state = "up"]
  /\ compPort' = Append(compPort, <<c, "connect", 0>>)
  /\ UNCHANGED <<args, sock, gCurrentConnections, cpc, tpc>>

Sent(c) ==
  /\ wire[c].sends > 0
  /\ wire' = [wire EXCEPT ![c].sends = @ - 1, ![c].sent = @ + 1]
  /\ compPort' = Append(compPort, <<c, "write", 1>>)
  /\ UNCHANGED <<args, sock, gCurrentConnections, cpc, tpc>>

\* A receive gets some of the data echoed, or 0 at the end.
Echoed(c) ==
  /\ wire[c].state = "up" /\ wire[c].recvs > 0
  /\ \E n \in 0 .. wire[c].sent - wire[c].served :
       /\ n = 0 => wire[c].fin = 1 /\ wire[c].sends = 0 /\ wire[c].served = wire[c].sent
       /\ wire' = [wire EXCEPT ![c].recvs = @ - 1, ![c].served = @ + n]
       /\ compPort' = Append(compPort, <<c, "read", n>>)
  /\ UNCHANGED <<args, sock, gCurrentConnections, cpc, tpc>>

\* The server refuses or resets the connection: what is outstanding
\* completes with an error and main drops it.
Breaks(c) ==
  /\ c \in ClientFaults /\ wire[c].state \in {"connecting", "up"}
  /\ wire' = [wire EXCEPT ![c].state = "broken", ![c].recvs = 0, ![c].sends = 0]
  /\ UNCHANGED <<args, sock, compPort, gCurrentConnections, cpc, tpc>>
-----------------------------------------------------------------------------
(* Posting.  A call succeeds on an open socket of a connection that stands *)
(* and, for a send, was not shut down.                                     *)

CanRecv(c) == sock[c].s = "open" /\ wire[c].state = "up"
CanSend(c) == CanRecv(c) /\ wire[c].fin = 0

\* main creates the sockets and posts a ConnectEx on each; SendThread starts
\* with a rate limit only.
Create ==
  /\ MainDoes("create")
  /\ LET c == cpc[2] IN
     /\ sock' = [sock EXCEPT ![c] = [NewSocket EXCEPT !.s = "open", !.OutstandingOps = 1,
                                                      !.SendCount = args.sends]]
     /\ wire' = [wire EXCEPT ![c].state = "connecting"]
     /\ IF c + 1 \in Connections
        THEN cpc' = <<"create", c + 1, 0>> /\ UNCHANGED tpc
        ELSE cpc' = <<"wait", 0, 0>> /\ tpc' = IF args.rate = 1 THEN <<"walk", 1>> ELSE tpc
  /\ UNCHANGED <<args, compPort, gCurrentConnections>>

\* OP_CONNECT posts gOverlappedCount receives and, until SendCount is 0, as
\* many sends: with -x 0 the counter is negative at once and all are posted.
FirstSends == IF args.sends = 0 \/ args.sends > args.overlapped THEN args.overlapped
              ELSE args.sends

HandleConnect(c) ==
  /\ gCurrentConnections' = gCurrentConnections + 1
  /\ IF CanRecv(c)
     THEN /\ sock' = [sock EXCEPT ![c].OutstandingOps = @ + args.overlapped + FirstSends,
                                  ![c].SendCount = @ - FirstSends]
          /\ wire' = [wire EXCEPT ![c].recvs = args.overlapped, ![c].sends = FirstSends,
                                  ![c].posted = FirstSends]
          /\ cpc' = <<"finish", c, 0>>
     ELSE cpc' = <<"finish", c, 1>> /\ UNCHANGED <<sock, wire>>

\* OP_READ: the buffer receives again, unless the server is done.
HandleRead(c, n) ==
  /\ IF n > 0 /\ sock[c].bClosing = 0
     THEN IF CanRecv(c)
          THEN /\ sock' = [sock EXCEPT ![c].OutstandingOps = @ + 1]
               /\ wire' = [wire EXCEPT ![c].recvs = @ + 1, ![c].got = @ + n]
               /\ cpc' = <<"finish", c, 0>>
          ELSE /\ wire' = [wire EXCEPT ![c].got = @ + n]
               /\ cpc' = <<"finish", c, 1>> /\ UNCHANGED sock
     ELSE /\ sock' = [sock EXCEPT ![c].bClosing = 1]
          /\ cpc' = <<"finish", c, 0>> /\ UNCHANGED wire
  /\ UNCHANGED gCurrentConnections

OneMoreToSend(c) == sock[c].SendCount >= 0       \* mutant
MoreToSend(c) == sock[c].SendCount > 0

\* OP_WRITE and OP_TRANSMIT, with SockCritSec: send the buffer again, leave
\* it to SendThread, or shut the connection down.
HandleWrite(c) ==
  /\ ~SenderHolds(c)
  /\ CASE ~MoreToSend(c) ->
            /\ wire' = [wire EXCEPT ![c].fin = 1]
            /\ cpc' = <<"finish", c, 0>> /\ UNCHANGED sock
       [] MoreToSend(c) /\ args.rate = 1 ->
            /\ sock' = [sock EXCEPT ![c].Repost = @ + 1]
            /\ cpc' = <<"finish", c, 0>> /\ UNCHANGED wire
       [] MoreToSend(c) /\ args.rate = 0 /\ CanSend(c) ->
            /\ sock' = [sock EXCEPT ![c].OutstandingOps = @ + 1, ![c].SendCount = @ - 1]
            /\ wire' = [wire EXCEPT ![c].sends = @ + 1, ![c].posted = @ + 1]
            /\ cpc' = <<"finish", c, 0>>
       [] OTHER -> cpc' = <<"finish", c, 1>> /\ UNCHANGED <<sock, wire>>
  /\ UNCHANGED gCurrentConnections

\* main takes the next completion; HandleIo up to line 1021.
HandleIo ==
  /\ MainDoes("wait") /\ compPort # <<>>
  /\ compPort' = Tail(compPort)
  /\ LET c == Head(compPort)[1] IN
       CASE Head(compPort)[2] = "connect" -> HandleConnect(c)
         [] Head(compPort)[2] = "read" -> HandleRead(c, Head(compPort)[3])
         [] Head(compPort)[2] = "write" -> HandleWrite(c)
  /\ UNCHANGED <<args, tpc>>

\* HandleIo counts the operation off: the last one of a closing socket, like
\* a failed post, leads to the cleanup.
Finish ==
  /\ MainDoes("finish")
  /\ LET c == cpc[2] IN
     /\ sock' = [sock EXCEPT ![c].OutstandingOps = @ - 1]
     /\ IF cpc[3] = 1 \/ (sock[c].OutstandingOps = 1 /\ sock[c].bClosing = 1)
        THEN cpc' = <<"close", c, 0>> /\ gCurrentConnections' = gCurrentConnections - 1
        ELSE cpc' = <<"wait", 0, 0>> /\ UNCHANGED gCurrentConnections
  /\ UNCHANGED <<args, wire, compPort, tpc>>

\* The cleanup closes the socket, whose operations fail and are dropped; no
\* connection that is counted left, main ends, and the process with it.
Close ==
  /\ MainDoes("close") /\ ~SenderHolds(cpc[2])
  /\ sock' = [sock EXCEPT ![cpc[2]].s = "invalid"]
  /\ wire' = [wire EXCEPT ![cpc[2]].recvs = 0, ![cpc[2]].sends = 0]
  /\ cpc' = <<IF gCurrentConnections = 0 THEN "end" ELSE "wait", 0, 0>>
  /\ UNCHANGED <<args, compPort, gCurrentConnections, tpc>>

\* SendThread at one SOCKET_OBJ: it posts one buffer of Repost, whether or
\* not SendCount is 0 by now, and counts it before it leaves SockCritSec.
AfterSocket(c) == <<"walk", IF gCurrentConnections = 0 \/ c + 1 \notin Connections THEN 1 ELSE c + 1>>

SendThread ==
  /\ ~MainDoes("end") /\ tpc[1] = "walk"
  /\ LET c == tpc[2] IN
     IF sock[c].s # "invalid" /\ sock[c].Repost > 0
     THEN /\ sock' = [sock EXCEPT ![c].Repost = @ - 1]
          /\ IF CanSend(c)
             THEN /\ wire' = [wire EXCEPT ![c].sends = @ + 1, ![c].posted = @ + 1]
                  /\ tpc' = <<"posted", c>>
             ELSE tpc' = AfterSocket(c) /\ UNCHANGED wire
     ELSE tpc' = AfterSocket(c) /\ UNCHANGED <<sock, wire>>
  /\ UNCHANGED <<args, compPort, gCurrentConnections, cpc>>

SendPosted ==
  /\ ~MainDoes("end") /\ tpc[1] = "posted"
  /\ sock' = [sock EXCEPT ![tpc[2]].OutstandingOps = @ + 1, ![tpc[2]].SendCount = @ - 1]
  /\ tpc' = AfterSocket(tpc[2])
  /\ UNCHANGED <<args, wire, compPort, gCurrentConnections, cpc>>
-----------------------------------------------------------------------------
ClientMain == Create \/ HandleIo \/ Finish \/ Close
ClientSender == SendThread \/ SendPosted
ClientNetwork(c) == ~MainDoes("end") /\ (Connected(c) \/ Sent(c) \/ Echoed(c))

ClientNext ==
  \/ ClientMain
  \/ ClientSender
  \/ \E c \in Connections : ClientNetwork(c) \/ (~MainDoes("end") /\ Breaks(c))

Intact(c) == wire[c].state # "broken"

\* Sends a connection makes: with a rate limit each further buffer may find
\* its way to Repost before the last send is counted; -x 0 sends them all.
MostSends ==
  IF args.sends = 0 THEN args.overlapped
  ELSE args.sends + (IF args.rate = 1 THEN args.overlapped - 1 ELSE 0)

Operations(c) ==
  wire[c].recvs + wire[c].sends + (IF wire[c].state = "connecting" THEN 1 ELSE 0)
  + Cardinality({i \in DOMAIN compPort : compPort[i][1] = c})
  + (IF cpc[2] = c /\ MainDoes("finish") THEN 1 ELSE 0)
  - (IF SenderHolds(c) THEN 1 ELSE 0)

\* A connection nothing broke has OutstandingOps exact, sends what -x asks
\* for ("Number of sends", 179) or a little more, and is closed when all of
\* it was read back.
ClientSends ==
  \A c \in Connections : Intact(c) =>
    /\ sock[c].OutstandingOps = Operations(c)
    /\ wire[c].posted <= MostSends
    /\ sock[c].s = "invalid" => wire[c].posted >= args.sends /\ wire[c].got = wire[c].posted

\* What the program gets to: its end, where nothing breaks.
ClientEnds == MainDoes("end") \/ \E c \in Connections : ~Intact(c)
=============================================================================

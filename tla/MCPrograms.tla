----------------------------- MODULE MCPrograms -----------------------------
(* One run for fourteen small programs that share nothing: `program' is    *)
(* the one that runs, the variables of the others keep one initial value.  *)
EXTENDS IocpClient, BlockingClient, OverlappedServer, NetBios, Pipes, IcmpTools, IpPackets, QosTcp,
        LspInstaller, Multicast, SpxPair, NetBiosSockets, AppleTalk, NspWire

VARIABLE program

earlierVars == <<clientVars, blockingClientVars, overVars, nbVars, pipeVars, icmpVars, ipVars, qosVars>>
laterVars == <<instVars, multicastVars, spxVars, wsnbVars, atVars, nspVars>>
vars == <<program, earlierVars, laterVars>>

Line(c, r, o, s) == [connections |-> c, rate |-> r, overlapped |-> o, sends |-> s]
MCClientArgs == {Line(1, 0, 2, 3), Line(1, 1, 2, 3), Line(1, 0, 2, 0), Line(2, 0, 1, 2), Line(2, 1, 1, 2)}
Run(q, w, e, n) == [q |-> q, w |-> w, early |-> e, clients |-> n]
MCQosConfigs ==
  {Run("before", 1, 1, 3), Run("before", 0, 0, 2), Run("during", 0, 1, 3), Run("after", 1, 0, 2),
   Run("after", 0, 1, 2), Run("event", 0, 0, 2), Run("event", 1, 0, 2), Run("event", 0, 1, 3)}
Server1(name) == [role |-> "server", name |-> name, delete |-> 0]
Client1(name, d) == [role |-> "client", name |-> name, delete |-> d]
MCNspConfigs ==
  {[apps |-> <<Server1("a"), Server1("b"), Client1("*", 1)>>, faults |-> 0],
   [apps |-> <<Server1("a"), Client1("*", 1), Client1("a", 0)>>, faults |-> 0],
   [apps |-> <<Server1("a"), Server1("a"), Client1("a", 0)>>, faults |-> 0],
   [apps |-> <<Server1("a"), Client1("*", 1)>>, faults |-> 1],
   [apps |-> <<Server1("a"), Server1("a")>>, faults |-> 1],
   [apps |-> <<Client1("a", 0)>>, faults |-> 0]}
MCSourceLists == {<<>>, <<"h1">>, <<"h1", "h2">>}
-----------------------------------------------------------------------------
\* The programs, and the command line of those that do not run.
Idle(p, config) == program = p \/ config

Init ==
  /\ program \in {"iocpclient", "bclient", "overserver", "netbios", "pipes", "icmp", "rawudp", "qostcp",
                 "instlsp", "multicast", "sockspx", "wsnetbios", "atalk", "nsp"}
  /\ ClientInit /\ Idle("iocpclient", args = Line(1, 0, 2, 3))
  /\ BlockingClientInit /\ Idle("bclient", gProtocol = "tcp")
  /\ OverInit
  /\ NetBiosInit /\ Idle("netbios", nbKind = "event")
  /\ PipesInit /\ Idle("pipes", pipeKind = "overlapped")
  /\ IcmpInit /\ Idle("icmp", tool = "ping")
  /\ IpInit /\ Idle("rawudp", gAddressFamily = 6 /\ gMtuSize = 100 /\ gSendSize = 14)
  /\ QosInit /\ Idle("qostcp", iSetQos = "during" /\ early = 1)
  /\ InstallerInit
  /\ MulticastInit /\ Idle("multicast", margs.prog = "ws2" /\ ~margs.small /\ unresolved = {})
  /\ SpxInit /\ Idle("sockspx", spxArgs = [proto |-> "d", server |-> 1, client |-> 1])
  /\ NetBiosSocketsInit
  /\ AppleTalkInit /\ Idle("atalk", iProto = "pap")
  /\ NspInit /\ Idle("nsp", nfaults = 1 /\ nargs[2].role = "client")

\* Which variables a program leaves alone: those of the others.
OnlyClient == program = "iocpclient" /\ UNCHANGED
  <<program, blockingClientVars, overVars, nbVars, pipeVars, icmpVars, ipVars, qosVars, laterVars>>
OnlyBlocking == program = "bclient" /\ UNCHANGED
  <<program, clientVars, overVars, nbVars, pipeVars, icmpVars, ipVars, qosVars, laterVars>>
OnlyOver == program = "overserver" /\ UNCHANGED
  <<program, clientVars, blockingClientVars, nbVars, pipeVars, icmpVars, ipVars, qosVars, laterVars>>
OnlyNetBios == program = "netbios" /\ UNCHANGED
  <<program, clientVars, blockingClientVars, overVars, pipeVars, icmpVars, ipVars, qosVars, laterVars>>
OnlyPipes == program = "pipes" /\ UNCHANGED
  <<program, clientVars, blockingClientVars, overVars, nbVars, icmpVars, ipVars, qosVars, laterVars>>
OnlyIcmp == program = "icmp" /\ UNCHANGED
  <<program, clientVars, blockingClientVars, overVars, nbVars, pipeVars, ipVars, qosVars, laterVars>>
OnlyIp == program = "rawudp" /\ UNCHANGED
  <<program, clientVars, blockingClientVars, overVars, nbVars, pipeVars, icmpVars, qosVars, laterVars>>
OnlyQos == program = "qostcp" /\ UNCHANGED
  <<program, clientVars, blockingClientVars, overVars, nbVars, pipeVars, icmpVars, ipVars, laterVars>>
OnlyInstaller == program = "instlsp" /\ UNCHANGED
  <<program, earlierVars, multicastVars, spxVars, wsnbVars, atVars, nspVars>>
OnlyMulticast == program = "multicast" /\ UNCHANGED
  <<program, earlierVars, instVars, spxVars, wsnbVars, atVars, nspVars>>
OnlySpx == program = "sockspx" /\ UNCHANGED
  <<program, earlierVars, instVars, multicastVars, wsnbVars, atVars, nspVars>>
OnlyNbSockets == program = "wsnetbios" /\ UNCHANGED
  <<program, earlierVars, instVars, multicastVars, spxVars, atVars, nspVars>>
OnlyAppleTalk == program = "atalk" /\ UNCHANGED
  <<program, earlierVars, instVars, multicastVars, spxVars, wsnbVars, nspVars>>
OnlyNsp == program = "nsp" /\ UNCHANGED
  <<program, earlierVars, instVars, multicastVars, spxVars, wsnbVars, atVars>>

Next ==
  \/ OnlyClient /\ ClientNext
  \/ OnlyBlocking /\ BlockingClientNext
  \/ OnlyOver /\ OverNext
  \/ OnlyNetBios /\ NetBiosNext
  \/ OnlyPipes /\ PipesNext
  \/ OnlyIcmp /\ IcmpNext
  \/ OnlyIp /\ IpNext
  \/ OnlyQos /\ QosNext
  \/ OnlyInstaller /\ InstallerNext
  \/ OnlyMulticast /\ MulticastNext
  \/ OnlySpx /\ SpxNext
  \/ OnlyNbSockets /\ NetBiosSocketsNext
  \/ OnlyAppleTalk /\ AppleTalkNext
  \/ OnlyNsp /\ NspNext

\* The variables of the program that runs.
running ==
  CASE program = "iocpclient" -> clientVars
    [] program = "bclient" -> blockingClientVars
    [] program = "overserver" -> overVars
    [] program = "netbios" -> nbVars
    [] program = "pipes" -> pipeVars
    [] program = "icmp" -> icmpVars
    [] program = "rawudp" -> ipVars
    [] program = "qostcp" -> qosVars
    [] program = "instlsp" -> instVars
    [] program = "multicast" -> multicastVars
    [] program = "sockspx" -> spxVars
    [] program = "wsnetbios" -> wsnbVars
    [] program = "atalk" -> atVars
    [] program = "nsp" -> nspVars

\* What is fair, put side by side: the k-th process of whichever program
\* runs.  The threads of a program run and the kernel completes what it can;
\* of the peers only those a program waits for are fair.
Process(k) ==
  /\ UNCHANGED program
  /\ CASE k = 1 ->
         \/ program = "iocpclient" /\ ClientMain
         \/ program = "bclient" /\ BlockingMain
         \/ program = "overserver" /\ OverMain
         \/ program = "netbios" /\ NetBiosMain
         \/ program = "pipes" /\ (PipesMain \/ SlotServer)
         \/ program = "icmp" /\ IcmpMain
         \/ program = "rawudp" /\ IpNext
         \/ program = "qostcp" /\ QosServer
         \/ program = "instlsp" /\ InstallerMain
         \/ program = "multicast" /\ Receiver
         \/ program = "sockspx" /\ Server
         \/ program = "wsnetbios" /\ NbServerThreads
         \/ program = "atalk" /\ AtReceiver
         \/ program = "nsp" /\ NspService
    [] k = 2 ->
         \/ program = "iocpclient" /\ ClientSender
         \/ program = "bclient" /\ BlockingSender
         \/ program = "overserver" /\ OverNetwork
         \/ program = "netbios" /\ NetBiosPeers
         \/ program = "pipes" /\ (Completes(1) \/ PipeInstanceProc(1))
         \/ program = "multicast" /\ \E h \in Sources : Sender(h)
         \/ program = "sockspx" /\ SpxClient(1)
         \/ program = "wsnetbios" /\ NbWorkers
         \/ program = "atalk" /\ AtThread(1)
         \/ program = "nsp" /\ NspApplication(1)
    [] k = 3 ->
         \/ program = "iocpclient" /\ ClientNetwork(1)
         \/ program = "bclient" /\ Receive
         \/ program = "overserver" /\ IoThread(1)
         \/ program = "netbios" /\ 1 \in DOMAIN nbThreads /\ NetBiosThread(1)
         \/ program = "pipes" /\ (Completes(2) \/ PipeInstanceProc(2))
         \/ program = "sockspx" /\ SpxClient(2)
         \/ program = "wsnetbios" /\ NbPeer(1)
         \/ program = "atalk" /\ AtThread(2)
         \/ program = "nsp" /\ NspApplication(2)
    [] k = 4 ->
         \/ program = "iocpclient" /\ 2 \in Connections /\ ClientNetwork(2)
         \/ program = "overserver" /\ IoThread(2)
         \/ program = "netbios" /\ 2 \in DOMAIN nbThreads /\ NetBiosThread(2)
         \/ program = "pipes" /\ PipeClient(1)
         \/ program = "wsnetbios" /\ NbPeer(2)
         \/ program = "atalk" /\ AtSender(1)
         \/ program = "nsp" /\ NspApplication(3)
    [] k = 5 ->
         \/ program = "netbios" /\ 3 \in DOMAIN nbThreads /\ NetBiosThread(3)
         \/ program = "pipes" /\ PipeClient(2)
         \/ program = "atalk" /\ AtSender(2)
    [] k = 6 -> program = "netbios" /\ 4 \in DOMAIN nbThreads /\ NetBiosThread(4)

Spec == Init /\ [][Next]_vars /\ \A k \in 1 .. 6 : WF_running(Process(k))
-----------------------------------------------------------------------------
\* The echo clients send what they were asked to and read it back: see
\* ClientSends (iocpclient.cpp 926-1061) and AllReadBack (bclient.cpp 204-362).
ClientsRight == ClientSends /\ AllReadBack

\* The servers that wait on an array of events keep it in step with their
\* buffers (overserver.cpp, OverlappedExact), their sockets (qostcp.cpp,
\* QosSound) and the connections that wait (wsnbsvr.cpp, NetBiosSocketsRight).
EventArraysRight == OverlappedExact /\ QosSound /\ NetBiosSocketsRight

\* The sessions of the older transports: NetBIOS commands (NetBiosSound),
\* named pipes and mailslots (PipesSound), and the echoes over SPX and
\* AppleTalk, whose ends never wait for each other (SpxMoves, EchoSomewhere).
SessionsSound == NetBiosSound /\ PipesSound /\ SpxMoves /\ EchoSomewhere

\* What is read is what was asked for: ping and traceroute take a reply for
\* the probe it answers (RepliesMatch), the packets of rawudp.cpp can be put
\* together (FragmentsRight), and a receiver of a group hears the sources it
\* chose (MulticastRight).
PacketsRight == RepliesMatch /\ FragmentsRight /\ MulticastRight

\* What is registered with the system: the installer changes nobody else's
\* entries (instlsp.cpp, CatalogRight), and what the name space answers is
\* what was advertised and is still there (rnrcs.cpp, mynsp.cpp, NspRight).
RegistriesRight == CatalogRight /\ NspRight

\* Who waits for something in each program, and what it gets: the programs
\* that end, end; the servers serve session, datagram, client k.
Owes(k) ==
  \/ program \in {"iocpclient", "bclient", "icmp", "rawudp", "nsp"}
  \/ program = "overserver" /\ DatagramReceived(k)
  \/ program = "netbios" /\ NetBiosOwes(k)
  \/ program = "pipes" /\ PipesOwe(k)
  \/ program = "qostcp" /\ QosOwes(k)
  \/ program = "instlsp" /\ commands = MaxCommands
  \/ program = "multicast" /\ MulticastOwes
  \/ program = "sockspx" /\ SpxOwes(k)
  \/ program = "wsnetbios" /\ NetBiosSocketsOwes(k)
  \/ program = "atalk" /\ AppleTalkOwes(k)

Serves(k) ==
  CASE program = "iocpclient" -> ClientEnds
    [] program = "bclient" -> BlockingClientEnds
    [] program = "icmp" -> ToolEnds
    [] program = "rawudp" -> rmain \in {"end", "overrun"}
    [] program = "overserver" -> DatagramEchoed(k)
    [] program = "netbios" -> NetBiosServes(k)
    [] program = "pipes" -> PipesServe(k)
    [] program = "qostcp" -> QosServes(k)
    [] program = "instlsp" -> InstallerEnds
    [] program = "multicast" -> MulticastServes
    [] program = "sockspx" -> SpxServes(k)
    [] program = "wsnetbios" -> NetBiosSocketsServes(k)
    [] program = "atalk" -> AppleTalkServes(k)
    [] program = "nsp" -> NspEnds

\* No program leaves a peer or its user waiting for ever.
ProgramsServe == \A k \in 1 .. 2 : Owes(k) ~> Serves(k)
=============================================================================

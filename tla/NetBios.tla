------------------------------ MODULE NetBios ------------------------------
(* chapter17: the session servers evnbsvr.c (events) and cbnbsvr.c         *)
(* (callbacks), the client nbclient.c and the datagram receiver of         *)
(* nbdgram.c, one of them at a time, on several network adapters (LANAs).  *)
(* External: the NetBIOS driver.  A command accepted is pending; when it   *)
(* completes its cmd_cplt changes and its event is set or its callback     *)
(* runs.  A command refused never was pending and sets no event.           *)
EXTENDS Integers, Sequences, SequencesExt, FiniteSets

CONSTANTS
  Lanas,           \* 1 .. n: the adapters, in the order of the loops
  MaxSessions,     \* bound of the model: sessions clients set up
  MaxMessages,     \* bound of the model: messages of a client, datagrams; 20 in the code
  MaxRefusals      \* bound of the model: commands and threads refused or failed

ASSUME NetBiosAssumption ==
  /\ {MaxSessions, MaxMessages} \subseteq Nat \ {0} /\ MaxRefusals \in Nat
  /\ Lanas \subseteq Nat /\ 1 \in Lanas

VARIABLES
  nbKind,     \* "event", "callback", "client" or "datagram"
  ncb,        \* the NCB of each LANA: [cplt, lsn]
  ncbEvent,   \* its event: 0, 1
  nbMain,     \* where main is: <<label, lana>>
  sessions,   \* the sessions, in the order set up: see NewSession
  nbThreads,  \* the server's threads and callbacks: [at, lana, lsn, msg, frees]
  refusals,
  tally       \* client: [sent, raced]; datagrams: [rounds, printed, raced]

nbVars == <<nbKind, ncb, ncbEvent, nbMain, sessions, nbThreads, refusals, tally>>

\* state: "up", "closed" by the client, "aborted" or "hungup" by the program;
\* sent, got: messages the client sent and got back; inbox: at the program.
NewSession(l) == [lana |-> l, state |-> "up", sent |-> 0, got |-> 0, inbox |-> 0]

NetBiosInit ==
  /\ nbKind \in {"event", "callback", "client", "datagram"}
  /\ ncb = [l \in Lanas |-> [cplt |-> "none", lsn |-> 0]]
  /\ ncbEvent = [l \in Lanas |-> 0]
  /\ nbMain = <<"start", 1>>
  /\ sessions = <<>> /\ nbThreads = <<>> /\ refusals = 0
  /\ tally = [sent |-> 0, rounds |-> 0, printed |-> 0, raced |-> 0]

ServesSessions == nbKind \in {"event", "callback"}
AtLana(label) == nbMain[1] = label
Lana == nbMain[2]
MoreLanas == Lana + 1 \in Lanas
Completed(l) == ncb[l].cplt \notin {"none", "pending"}

\* Netbios(NCBLISTEN, NCBCALL or NCBDGRECV | ASYNCH): accepted, which resets
\* the event, or refused.
Accepted(l) ==
  /\ ncb' = [ncb EXCEPT ![l].cplt = "pending"] /\ ncbEvent' = [ncbEvent EXCEPT ![l] = 0]
  /\ UNCHANGED refusals
Rejected(l) ==
  /\ refusals < MaxRefusals /\ refusals' = refusals + 1
  /\ ncb' = [ncb EXCEPT ![l].cplt = "refused"] /\ UNCHANGED ncbEvent
Submit(l) == Accepted(l) \/ Rejected(l)
-----------------------------------------------------------------------------
(* The driver and the other side.                                          *)

\* A client calls: the listen completes; nbclient's call is answered.
SetUp(l) ==
  /\ nbKind # "datagram" /\ ncb[l].cplt = "pending" /\ Len(sessions) < MaxSessions
  /\ sessions' = Append(sessions, NewSession(l))
  /\ ncb' = [ncb EXCEPT ![l] = [cplt |-> "session", lsn |-> Len(sessions) + 1]]
  /\ IF nbKind = "callback"
     THEN /\ nbThreads' = Append(nbThreads, [at |-> "callback", lana |-> l, lsn |-> Len(sessions) + 1,
                                             msg |-> 0, frees |-> 0])
          /\ UNCHANGED ncbEvent
     ELSE ncbEvent' = [ncbEvent EXCEPT ![l] = 1] /\ UNCHANGED nbThreads
  /\ UNCHANGED <<nbKind, nbMain, refusals, tally>>

\* A pending command fails: the name is gone, nobody listens there.
Fails(l) ==
  /\ ncb[l].cplt = "pending" /\ refusals < MaxRefusals /\ refusals' = refusals + 1
  /\ ncb' = [ncb EXCEPT ![l].cplt = "failed"]
  /\ ncbEvent' = [ncbEvent EXCEPT ![l] = IF nbKind = "callback" THEN 0 ELSE 1]
  /\ UNCHANGED <<nbKind, nbMain, sessions, nbThreads, tally>>

\* A datagram arrives at a LANA with a receive pending.
Datagram(l) ==
  /\ nbKind = "datagram" /\ ncb[l].cplt = "pending"
  /\ ncb' = [ncb EXCEPT ![l].cplt = "datagram"] /\ ncbEvent' = [ncbEvent EXCEPT ![l] = 1]
  /\ UNCHANGED <<nbKind, nbMain, sessions, nbThreads, refusals, tally>>

\* The server's clients, as nbclient: send, read the echo, hang up at last;
\* or their session aborts.
PeerSends(s) ==
  /\ ServesSessions /\ sessions[s].state = "up"
  /\ sessions[s].sent = sessions[s].got /\ sessions[s].sent < MaxMessages
  /\ sessions' = [sessions EXCEPT ![s].sent = @ + 1, ![s].inbox = @ + 1]
  /\ UNCHANGED <<nbKind, ncb, ncbEvent, nbMain, nbThreads, refusals, tally>>

PeerLeaves(s) ==
  /\ ServesSessions /\ sessions[s].state = "up"
  /\ \/ sessions[s].got = MaxMessages /\ sessions' = [sessions EXCEPT ![s].state = "closed"]
        /\ UNCHANGED refusals
     \/ refusals < MaxRefusals /\ refusals' = refusals + 1
        /\ sessions' = [sessions EXCEPT ![s].state = "aborted"]
  /\ UNCHANGED <<nbKind, ncb, ncbEvent, nbMain, nbThreads, tally>>
-----------------------------------------------------------------------------
(* The servers: main adds the name and listens on every LANA.              *)

StartListening ==
  /\ ServesSessions /\ AtLana("start")
  /\ Submit(Lana)
  /\ nbMain' = IF MoreLanas THEN <<"start", Lana + 1>> ELSE <<"wait", 0>>
  /\ UNCHANGED <<nbKind, sessions, nbThreads, tally>>

\* evnbsvr's loop: one event wakes it, then it looks at every LANA.  The
\* thread gets a copy of the NCB, of whatever its command came to; nobody
\* looks whether there is a thread, and main goes on without one.
WaitServer ==
  /\ nbKind = "event" /\ AtLana("wait") /\ \E l \in Lanas : ncbEvent[l] = 1
  /\ nbMain' = <<"look", 1>>
  /\ UNCHANGED <<nbKind, ncb, ncbEvent, sessions, nbThreads, refusals, tally>>

NextLook == IF MoreLanas THEN <<"look", Lana + 1>> ELSE <<"wait", 0>>

\* CreateThread fails.
NoThread == refusals < MaxRefusals /\ refusals' = refusals + 1

LookServer ==
  /\ nbKind = "event" /\ AtLana("look")
  /\ IF Completed(Lana)
     THEN /\ \/ /\ nbThreads' = Append(nbThreads, [at |-> "recv", lana |-> Lana, lsn |-> ncb[Lana].lsn,
                                                   msg |-> 0, frees |-> 0])
                /\ UNCHANGED refusals
             \/ NoThread /\ UNCHANGED nbThreads
          /\ nbMain' = <<"reset", Lana>>
     ELSE nbMain' = NextLook /\ UNCHANGED <<nbThreads, refusals>>
  /\ UNCHANGED <<nbKind, ncb, ncbEvent, sessions, tally>>

ResetServer ==
  /\ AtLana("reset")
  /\ ncbEvent' = [ncbEvent EXCEPT ![Lana] = 0]
  /\ nbMain' = <<"listen", Lana>>
  /\ UNCHANGED <<nbKind, ncb, sessions, nbThreads, refusals, tally>>

ListenAgain ==
  /\ AtLana("listen") /\ Submit(Lana)
  /\ nbMain' = NextLook
  /\ UNCHANGED <<nbKind, sessions, nbThreads, tally>>

\* cbnbsvr's ListenCallback listens with a new NCB, then starts the thread;
\* without one it returns, the session up and the NCB with nobody.
ListenCallback(k) ==
  /\ nbThreads[k].at = "callback"
  /\ Submit(nbThreads[k].lana)
  /\ nbThreads' = [nbThreads EXCEPT ![k].at = "start"]
  /\ UNCHANGED <<nbKind, nbMain, sessions, tally>>

CallbackStarts(k) ==
  /\ nbThreads[k].at = "start"
  /\ \/ nbThreads' = [nbThreads EXCEPT ![k].at = "recv"] /\ UNCHANGED refusals
     \/ NoThread /\ nbThreads' = [nbThreads EXCEPT ![k].at = "end"]
  /\ UNCHANGED <<nbKind, ncb, ncbEvent, nbMain, sessions, tally>>

\* ClientThread: Recv, Send, until one of them fails, as Recv does for a
\* message longer than MAX_BUFFER (NRC_INCOMP).
Session(k) == nbThreads[k].lsn
Stands(s) == s > 0 /\ sessions[s].state = "up"
AfterFailure(k) ==
  IF Session(k) > 0 /\ sessions[Session(k)].state = "closed" THEN "free" ELSE "hangup"

ThreadRecv(k) ==
  /\ nbThreads[k].at = "recv"
  /\ \/ /\ Session(k) > 0 /\ sessions[Session(k)].inbox > 0 /\ Stands(Session(k))
        /\ sessions' = [sessions EXCEPT ![Session(k)].inbox = @ - 1]
        /\ \/ nbThreads' = [nbThreads EXCEPT ![k].at = "send"] /\ UNCHANGED refusals
           \/ /\ refusals < MaxRefusals /\ refusals' = refusals + 1
              /\ nbThreads' = [nbThreads EXCEPT ![k].at = "hangup"]
     \/ /\ ~Stands(Session(k))
        /\ nbThreads' = [nbThreads EXCEPT ![k].at = AfterFailure(k)]
        /\ UNCHANGED <<sessions, refusals>>
  /\ UNCHANGED <<nbKind, ncb, ncbEvent, nbMain, tally>>

ThreadSend(k) ==
  /\ nbThreads[k].at = "send"
  /\ IF Stands(Session(k))
     THEN /\ sessions' = [sessions EXCEPT ![Session(k)].got = @ + 1]
          /\ nbThreads' = [nbThreads EXCEPT ![k].at = "recv"]
     ELSE nbThreads' = [nbThreads EXCEPT ![k].at = AfterFailure(k)] /\ UNCHANGED sessions
  /\ UNCHANGED <<nbKind, ncb, ncbEvent, nbMain, refusals, tally>>

\* NCBHANGUP of a session that is gone fails: then evnbsvr frees the NCB here
\* and once more at 93.
ThreadHangup(k) ==
  /\ nbThreads[k].at = "hangup"
  /\ IF Stands(Session(k))
     THEN /\ sessions' = [sessions EXCEPT ![Session(k)].state = "hungup"]
          /\ nbThreads' = [nbThreads EXCEPT ![k].at = "free"]
     ELSE /\ nbThreads' = [nbThreads EXCEPT ![k].at = "free",
                                            ![k].frees = IF nbKind = "event" THEN @ + 1 ELSE @]
          /\ UNCHANGED sessions
  /\ UNCHANGED <<nbKind, ncb, ncbEvent, nbMain, refusals, tally>>

ThreadFrees(k) ==
  /\ nbThreads[k].at = "free"
  /\ nbThreads' = [nbThreads EXCEPT ![k].at = "end", ![k].frees = @ + 1]
  /\ UNCHANGED <<nbKind, ncb, ncbEvent, nbMain, sessions, refusals, tally>>
-----------------------------------------------------------------------------
(* nbclient: calls the server on every LANA, keeps the first session and   *)
(* drops the rest, then sends and receives.                                *)

StartCalling ==
  /\ nbKind = "client" /\ AtLana("start")
  /\ Submit(Lana)
  /\ nbMain' = IF MoreLanas THEN <<"start", Lana + 1>> ELSE <<"wait", 0>>
  /\ UNCHANGED <<nbKind, sessions, nbThreads, tally>>

\* dwIndex: the first LANA whose event is set, even by a call that failed.
First(l) == ncbEvent[l] = 1 /\ \A m \in Lanas : m < l => ncbEvent[m] = 0

WaitClient(l) ==
  /\ nbKind = "client" /\ AtLana("wait") /\ First(l)
  /\ nbMain' = <<"drop", 1, l>>
  /\ UNCHANGED <<nbKind, ncb, ncbEvent, sessions, nbThreads, refusals, tally>>

dwIndex == nbMain[3]
NextDrop == IF MoreLanas THEN <<"drop", Lana + 1, dwIndex>> ELSE <<"talk", 0, dwIndex>>

HangUp(s) == sessions' = IF Stands(s) THEN [sessions EXCEPT ![s].state = "hungup"] ELSE sessions

\* Each other LANA: pending or not, and then Cancel or Hangup.
DropsLater(l) == l > dwIndex            \* mutant
Drops(l) == l # dwIndex

DropClient ==
  /\ AtLana("drop")
  /\ IF ~Drops(Lana) THEN nbMain' = NextDrop /\ UNCHANGED sessions
     ELSE IF ncb[Lana].cplt = "pending"
     THEN nbMain' = <<"cancel", Lana, dwIndex>> /\ UNCHANGED sessions
     ELSE HangUp(ncb[Lana].lsn) /\ nbMain' = NextDrop
  /\ UNCHANGED <<nbKind, ncb, ncbEvent, nbThreads, refusals, tally>>

\* Cancel; a call that completed meanwhile is not cancelled.
Cancel(l) ==
  IF ncb[l].cplt = "pending"
  THEN /\ ncb' = [ncb EXCEPT ![l].cplt = "cancelled"]
       /\ ncbEvent' = [ncbEvent EXCEPT ![l] = 1] /\ UNCHANGED tally
  ELSE tally' = [tally EXCEPT !.raced = @ + 1] /\ UNCHANGED <<ncb, ncbEvent>>

CancelClient ==
  /\ nbKind = "client" /\ AtLana("cancel") /\ Cancel(Lana)
  /\ nbMain' = NextDrop
  /\ UNCHANGED <<nbKind, sessions, nbThreads, refusals>>

\* Send and Recv; the server may be gone at any time.
TalkClient ==
  /\ AtLana("talk")
  /\ IF Stands(ncb[dwIndex].lsn) /\ tally.sent < MaxMessages
     THEN \/ tally' = [tally EXCEPT !.sent = @ + 1] /\ UNCHANGED <<nbMain, refusals>>
          \/ refusals < MaxRefusals /\ refusals' = refusals + 1
             /\ nbMain' = <<"hangup", 0, dwIndex>> /\ UNCHANGED tally
     ELSE nbMain' = <<"hangup", 0, dwIndex>> /\ UNCHANGED <<tally, refusals>>
  /\ UNCHANGED <<nbKind, ncb, ncbEvent, sessions, nbThreads>>

HangupClient ==
  /\ AtLana("hangup") /\ HangUp(ncb[dwIndex].lsn)
  /\ nbMain' = <<"end", 0>>
  /\ UNCHANGED <<nbKind, ncb, ncbEvent, nbThreads, refusals, tally>>
-----------------------------------------------------------------------------
(* nbdgram receiving on all LANAs: each round posts a receive on each of   *)
(* them, waits for one and then prints or cancels every one.               *)

PostDatagram ==
  /\ nbKind = "datagram" /\ AtLana("start")
  /\ Submit(Lana)
  /\ nbMain' = IF ncb'[Lana].cplt = "refused" THEN <<"end", 0>>
               ELSE IF MoreLanas THEN <<"start", Lana + 1>> ELSE <<"wait", 0>>
  /\ UNCHANGED <<nbKind, sessions, nbThreads, tally>>

WaitDatagram ==
  /\ nbKind = "datagram" /\ AtLana("wait") /\ \E l \in Lanas : ncbEvent[l] = 1
  /\ nbMain' = <<"print", 1>>
  /\ UNCHANGED <<nbKind, ncb, ncbEvent, sessions, nbThreads, refusals, tally>>

\* A command that failed is printed like a datagram.
PrintDatagram ==
  /\ AtLana("print")
  /\ IF ncb[Lana].cplt = "pending"
     THEN nbMain' = <<"cancel", Lana>> /\ UNCHANGED tally
     ELSE /\ tally' = [tally EXCEPT !.printed = @ + 1]
          /\ nbMain' = <<"clear", Lana>>
  /\ UNCHANGED <<nbKind, ncb, ncbEvent, sessions, nbThreads, refusals>>

CancelDatagram ==
  /\ nbKind = "datagram" /\ AtLana("cancel") /\ Cancel(Lana)
  /\ nbMain' = <<"clear", Lana>>
  /\ UNCHANGED <<nbKind, sessions, nbThreads, refusals>>

ClearDatagram ==
  /\ AtLana("clear")
  /\ ncbEvent' = [ncbEvent EXCEPT ![Lana] = 0]
  /\ tally' = IF MoreLanas THEN tally ELSE [tally EXCEPT !.rounds = @ + 1]
  /\ nbMain' = IF MoreLanas THEN <<"print", Lana + 1>>
               ELSE IF tally.rounds + 1 = MaxMessages THEN <<"end", 0>> ELSE <<"start", 1>>
  /\ UNCHANGED <<nbKind, ncb, sessions, nbThreads, refusals>>
-----------------------------------------------------------------------------
NetBiosMain ==
  \/ StartListening \/ WaitServer \/ LookServer \/ ResetServer \/ ListenAgain
  \/ StartCalling \/ DropClient \/ CancelClient \/ TalkClient \/ HangupClient
  \/ PostDatagram \/ WaitDatagram \/ PrintDatagram \/ CancelDatagram \/ ClearDatagram
  \/ \E l \in Lanas : WaitClient(l)
NetBiosThread(k) ==
  \/ ListenCallback(k) \/ CallbackStarts(k)
  \/ ThreadRecv(k) \/ ThreadSend(k) \/ ThreadHangup(k) \/ ThreadFrees(k)
\* What the other side brings about in time: calls and datagrams come.
NetBiosPeers ==
  \/ \E l \in Lanas : SetUp(l) \/ Datagram(l)
  \/ \E s \in DOMAIN sessions : PeerSends(s) \/ PeerLeaves(s)

NetBiosNext ==
  \/ NetBiosMain \/ NetBiosPeers
  \/ \E k \in DOMAIN nbThreads : NetBiosThread(k)
  \/ \E l \in Lanas : Fails(l)

Quiet == refusals = 0

\* evnbsvr: a listen that completed is seen, and with it the session gets one
\* thread, and only one as long as no listen and no CreateThread fails (a copy
\* of a failed NCB holds the session of the one before).  An NCB is freed once unless a
\* hangup fails.
ServersSound ==
  ServesSessions =>
    /\ nbKind = "event" /\ AtLana("wait") =>
         \A l \in Lanas : ncb[l].cplt \in {"session", "failed"} => ncbEvent[l] = 1
    /\ Quiet => \A j, k \in DOMAIN nbThreads :
         /\ nbThreads[j].lsn = nbThreads[k].lsn => j = k
         /\ nbThreads[k].frees <= 1

\* nbclient leaves no session behind but one that was set up after it had
\* seen the call pending.
ClientHangsUp ==
  nbKind = "client" /\ AtLana("end") =>
    Cardinality({s \in DOMAIN sessions : sessions[s].state = "up"}) <= tally.raced

\* nbdgram prints one datagram a round or more, and does not post an NCB that
\* is still pending.
DatagramsPrinted ==
  nbKind = "datagram" =>
    /\ tally.printed >= tally.rounds
    /\ AtLana("start") => ncb[Lana].cplt # "pending"

NetBiosSound == ServersSound /\ ClientHangsUp /\ DatagramsPrinted

IsUp(s) == s \in DOMAIN sessions /\ sessions[s].state = "up"

\* A session set up with a server that met no failure is served to its end;
\* the client and the receiver end, unless a command was refused.
NetBiosOwes(s) == ServesSessions => IsUp(s)
NetBiosServes(s) == ~Quiet \/ (IF ServesSessions THEN ~IsUp(s) ELSE AtLana("end"))
=============================================================================

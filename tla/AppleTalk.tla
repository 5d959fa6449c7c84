----------------------------- MODULE AppleTalk -----------------------------
(* chapter04/AppleTalk/atalk.cpp: a receiver that registers a name and     *)
(* echoes with a thread per sender, and senders that find the name.  All   *)
(* sockets are non-blocking once connected.  External: Winsock; PAP keeps  *)
(* messages apart and may hand out one in pieces (MSG_PARTIAL), ADSP is a  *)
(* stream.  WSAEWOULDBLOCK between two pieces is a fault of the model.     *)
EXTENDS Integers, Sequences, SequencesExt, FiniteSets

CONSTANTS
  AtSenders,
  AtCount,     \* dwCount
  AtSize,      \* dwSendSize, in pieces
  MaxAtFaults  \* bound of the model: calls that fail or would block

ASSUME AtAssumption == AtCount \in Nat \ {0} /\ AtSize \in Nat \ {0} /\ MaxAtFaults \in Nat

VARIABLES
  iProto,     \* "pap" or "adsp"
  atMain,     \* main of the receiver: "register", "select", "end"
  atThread,   \* ClientThread of each sender: [at, i, nRead]
  atPeer,     \* the senders: [at, i]
  atBacklog,  \* connected, not accepted
  atIn, atOut,  \* to the thread, and back: the pieces of each message
  atDropped,  \* senders whose echo would block before its first piece
  atFaults
atVars == <<iProto, atMain, atThread, atPeer, atBacklog, atIn, atOut, atDropped, atFaults>>

AppleTalkInit ==
  /\ iProto \in {"pap", "adsp"}
  /\ atMain = "register"
  /\ atThread = [c \in AtSenders |-> [at |-> "none", i |-> 0, nRead |-> 0]]
  /\ atPeer = [c \in AtSenders |-> [at |-> "connect", i |-> 0]]
  /\ atBacklog = <<>>
  /\ atIn = [c \in AtSenders |-> <<>>] /\ atOut = atIn
  /\ atDropped = {} /\ atFaults = 0

AtFault == atFaults < MaxAtFaults /\ atFaults' = atFaults + 1
AtRuns == atMain # "end"
-----------------------------------------------------------------------------
\* atalksend: all of it, or some pieces and then WSAEWOULDBLOCK, which ends
\* the call.  Each send is a message of PAP.
AtSent(ch, n) ==
  CASE n = 0 -> ch
    [] iProto = "pap" -> Append(ch, n)
    [] OTHER -> <<n + (IF ch = <<>> THEN 0 ELSE Head(ch))>>
atalksend(ch, n) ==
  {[ch |-> AtSent(ch, n), n |-> n, ok |-> TRUE]}
    \cup {[ch |-> AtSent(ch, j), n |-> j, ok |-> FALSE] : j \in 0 .. n - 1}

\* atalkrecv, with something there: a message of PAP, or what has come of
\* the stream.  WSAEWOULDBLOCK in the middle of a message ends the call and
\* the pieces read are thrown away.
atalkrecv(ch) ==
  IF iProto = "pap"
  THEN {[ch |-> Tail(ch), n |-> Head(ch), ok |-> TRUE]}
         \cup {[ch |-> ReplaceAt(ch, 1, Head(ch) - j), n |-> 0, ok |-> FALSE] : j \in 1 .. Head(ch) - 1}
  ELSE {[ch |-> IF n = Head(ch) THEN <<>> ELSE <<Head(ch) - n>>, n |-> n, ok |-> TRUE] : n \in 1 .. Head(ch)}
AtOutcome(r) == IF r.ok THEN UNCHANGED atFaults ELSE AtFault
-----------------------------------------------------------------------------
RegisterName ==
  /\ atMain = "register"
  /\ \/ atMain' = "select" /\ UNCHANGED atFaults
     \/ atMain' = "end" /\ AtFault
  /\ UNCHANGED <<iProto, atThread, atPeer, atBacklog, atIn, atOut, atDropped>>

\* accept and CreateThread; either failing ends the receiver.
AtAccepts ==
  /\ atMain = "select" /\ atBacklog # <<>> /\ atBacklog' = Tail(atBacklog)
  /\ \/ atThread' = [atThread EXCEPT ![Head(atBacklog)].at = "recv"] /\ UNCHANGED <<atMain, atFaults>>
     \/ AtFault /\ atMain' = "end" /\ UNCHANGED atThread
  /\ UNCHANGED <<iProto, atPeer, atIn, atOut, atDropped>>

\* The test of ClientThread's loop, which `continue' reaches too.
AtLoops(i) == IF iProto = "adsp" \/ i <= AtCount THEN "recv" ELSE "end"

AtReceived(c, n) ==
  atThread' = [atThread EXCEPT ![c] = [at |-> "send", i |-> IF @.i > AtCount THEN @.i ELSE @.i + 1, nRead |-> n]]

\* A closed connection reads as a message of no bytes.
ThreadReceives(c) ==
  /\ AtRuns /\ atThread[c].at = "recv"
  /\ \/ /\ atIn[c] # <<>>
        /\ \E r \in atalkrecv(atIn[c]) :
             /\ AtOutcome(r) /\ atIn' = [atIn EXCEPT ![c] = r.ch]
             /\ IF r.ok THEN AtReceived(c, r.n) ELSE UNCHANGED atThread
     \/ /\ atIn[c] = <<>> /\ atPeer[c].at = "end"
        /\ AtReceived(c, 0) /\ UNCHANGED <<atIn, atFaults>>
  /\ UNCHANGED <<iProto, atMain, atPeer, atBacklog, atOut, atDropped>>

ThreadSends(c) ==
  /\ AtRuns /\ atThread[c].at = "send"
  /\ \E r \in atalksend(atOut[c], atThread[c].nRead) :
       /\ AtOutcome(r) /\ atOut' = [atOut EXCEPT ![c] = r.ch]
       /\ atDropped' = IF r.n = 0 /\ ~r.ok THEN atDropped \cup {c} ELSE atDropped
  /\ atThread' = [atThread EXCEPT ![c].at = AtLoops(atThread[c].i), ![c].nRead = 0]
  /\ UNCHANGED <<iProto, atMain, atPeer, atBacklog, atIn>>
-----------------------------------------------------------------------------
SenderLoops(i) == IF i < AtCount THEN "send" ELSE "end"

\* FindName and connect; either failing ends the sender.
FindsAndConnects(c) ==
  /\ atPeer[c].at = "connect" /\ atMain # "register"
  /\ \/ AtRuns /\ atPeer' = [atPeer EXCEPT ![c].at = "send"] /\ atBacklog' = Append(atBacklog, c) /\ UNCHANGED atFaults
     \/ /\ IF AtRuns THEN AtFault ELSE UNCHANGED atFaults
        /\ atPeer' = [atPeer EXCEPT ![c].at = "end"] /\ UNCHANGED atBacklog
  /\ UNCHANGED <<iProto, atMain, atThread, atIn, atOut, atDropped>>

\* A send that would block is done again from the start of the buffer.
SenderSends(c) ==
  /\ AtRuns /\ atPeer[c].at = "send"
  /\ \E r \in atalksend(atIn[c], AtSize) :
       /\ AtOutcome(r) /\ atIn' = [atIn EXCEPT ![c] = r.ch]
       /\ atPeer' = IF r.ok THEN [atPeer EXCEPT ![c] = [at |-> "recv", i |-> @.i + 1]] ELSE atPeer
  /\ UNCHANGED <<iProto, atMain, atThread, atBacklog, atOut, atDropped>>

SenderReceives(c) ==
  /\ AtRuns /\ atPeer[c].at = "recv" /\ atOut[c] # <<>>
  /\ \E r \in atalkrecv(atOut[c]) : AtOutcome(r) /\ atOut' = [atOut EXCEPT ![c] = r.ch]
  /\ atPeer' = [atPeer EXCEPT ![c].at = SenderLoops(atPeer[c].i)]
  /\ UNCHANGED <<iProto, atMain, atThread, atBacklog, atIn, atDropped>>

\* The receiver ended: send or recv fails.
SenderFails(c) ==
  /\ ~AtRuns /\ atPeer[c].at \in {"send", "recv"} /\ atPeer' = [atPeer EXCEPT ![c].at = "end"]
  /\ UNCHANGED <<iProto, atMain, atThread, atBacklog, atIn, atOut, atDropped, atFaults>>

AtReceiver == RegisterName \/ AtAccepts
AtThread(c) == ThreadReceives(c) \/ ThreadSends(c)
AtSender(c) == FindsAndConnects(c) \/ SenderSends(c) \/ SenderReceives(c) \/ SenderFails(c)
AppleTalkNext == AtReceiver \/ \E c \in AtSenders : AtThread(c) \/ AtSender(c)
-----------------------------------------------------------------------------
\* The echo a sender waits for is on its way or with its thread.  Otherwise
\* the whole echo would block and was not tried again (427-432).  A thread of
\* PAP counts to dwCount + 1 (441), so the messages a sender makes of one
\* (536-542) do not use up its loop before the sender has its echoes.
EchoSomewhere ==
  \A c \in AtSenders :
    (AtRuns /\ atPeer[c].at = "recv" /\ atIn[c] = <<>> /\ atOut[c] = <<>>) =>
      atThread[c].at = "send" \/ c \in atDropped

\* A sender that waits for its echo gets one, with the same exception.
AppleTalkOwes(c) == atPeer[c].at = "recv"
AppleTalkServes(c) == atPeer[c].at # "recv" \/ c \in atDropped
=============================================================================

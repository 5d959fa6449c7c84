----------------------------- MODULE Multicast -----------------------------
(* chapter09, the multicast programs: ip-setsockopt/mcastws1.cpp ("ws1"),  *)
(* ip-WSAJoinLeaf/mcastws2.cpp ("ws2"), ip-source/mcastv3.cpp ("v3") and   *)
(* ip-rm/rmcast.cpp ("rm"): one receiver and the senders on the hosts of   *)
(* Sources, all with the arguments margs.  External: the network, which    *)
(* may lose a datagram, and reliable multicast, whose session may break.   *)
EXTENDS Integers, Sequences, SequencesExt, FiniteSets

CONSTANTS
  Sources,             \* hosts that send
  SourceLists,         \* lists of hosts -h may be given for
  gCount,              \* messages each program sends or receives
  MaxMulticastFaults   \* bound of the model: lost datagrams, failing calls

ASSUME MulticastAssumption ==
  /\ gCount \in Nat \ {0} /\ MaxMulticastFaults \in Nat
  /\ \A list \in SourceLists : ToSet(list) \subseteq Sources /\ IsInjective(list)

NOSOURCE == "none"
ASSUME SourceAssumption == NOSOURCE \notin Sources

VARIABLES
  margs,       \* the options: see Args
  unresolved,  \* hosts whose name is not found
  mpc,         \* the receiver: <<label, index>>
  member,      \* the group on its socket: "no", "include" or "exclude" mlist
  mlist,
  minbox,      \* datagrams [from, n, early] on it; early: before the last join call
  mgot,        \* what it read
  missed,      \* sources a call was not made for, or failed
  msender,      \* of each source: messages sent, or gCount + 1 when it is gone
  session,     \* "rm": [from, state]
  mfaults

multicastVars == <<margs, unresolved, mpc, member, mlist, minbox, mgot, missed, msender, session, mfaults>>

\* -j (join), -c (connect), -z (small: the receiver's buffer), -h (sources),
\* -x (exclude), -f (filter) and the number of -i.
Args(progs, joins, connects, smalls, sources, excludes, filters, interfaces) ==
  [prog : progs, join : joins, connect : connects, small : smalls, sources : sources,
   exclude : excludes, filter : filters, interfaces : interfaces]
No == {FALSE}
None == {<<>>}
Ws1Args == Args({"ws1"}, BOOLEAN, BOOLEAN, BOOLEAN, None, No, No, {1})
Ws2Args == Args({"ws2"}, {TRUE}, No, BOOLEAN, None, No, No, {1})
\* Without -f, include mode wants a source.  -j, -c and -z are those of ws1.
V3Args ==
  {a \in Args({"v3"}, {TRUE}, No, No, SourceLists, BOOLEAN, BOOLEAN, {1}) :
     a.exclude \/ a.filter \/ a.sources # <<>>}
RmArgs == Args({"rm"}, {TRUE}, No, No, None, No, No, 0 .. 2)
V3 == margs.prog = "v3"
Rm == margs.prog = "rm"

MulticastInit ==
  /\ margs \in Ws1Args \cup Ws2Args \cup V3Args \cup RmArgs
  /\ unresolved \in {u \in SUBSET ToSet(margs.sources) : Cardinality(u) <= 1}
  /\ mpc = <<"bind", 1>>
  /\ member = "no" /\ mlist = {} /\ minbox = <<>> /\ mgot = <<>> /\ missed = {}
  /\ msender = [h \in Sources |-> 0]
  /\ session = [from |-> NOSOURCE, state |-> "none"]
  /\ mfaults = 0

\* The calls of each main, in order.
Ws1Main == <<"bind", "join", "options", "connect", "recv">>
Ws2Main == <<"bind", "options", "join", "recv">>
V3Main == <<"bind", "join", "options", "connect", "recv">>
RmMain == <<"bind", "interfaces", "listen", "recv">>
Main == CASE margs.prog = "ws1" -> Ws1Main [] margs.prog = "ws2" -> Ws2Main
          [] V3 -> V3Main [] Rm -> RmMain

Label == mpc[1]
Calls(label) == Label = label
Then == mpc' = <<Main[SelectInSeq(Main, LAMBDA l : l = Label) + 1], 1>>
Exit == mpc' = <<"exit", 0>>
McFault == mfaults < MaxMulticastFaults /\ mfaults' = mfaults + 1
NoMcFault == UNCHANGED mfaults
memberVars == <<member, mlist, missed>>
MulticastUnchanged == UNCHANGED <<margs, unresolved, mgot, msender, session>>
-----------------------------------------------------------------------------
\* A call whose failure ends the program.
MustWork == (NoMcFault /\ Then) \/ (McFault /\ Exit)

Bind == Calls("bind") /\ MustWork /\ UNCHANGED <<memberVars, minbox>> /\ MulticastUnchanged

\* Send interface, ttl and loopback.
Ws1Options == margs.prog = "ws1" /\ Calls("options") /\ MustWork
Ws2Options == margs.prog = "ws2" /\ Calls("options") /\ MustWork
V3Options == V3 /\ Calls("options") /\ MustWork
\* Each -i is looked up, which must work, and AddReceiveInterface called,
\* whose result is not looked at.
RmOptions ==
  /\ Rm /\ Calls("interfaces")
  /\ IF margs.interfaces = 0 THEN NoMcFault /\ Then ELSE MustWork \/ (McFault /\ Then)
Options ==
  /\ Ws1Options \/ Ws2Options \/ V3Options \/ RmOptions
  /\ UNCHANGED <<memberVars, minbox>> /\ MulticastUnchanged

\* -c: the socket takes datagrams of the group's address only, that is none.
Connect ==
  /\ Calls("connect")
  /\ IF margs.connect THEN MustWork ELSE NoMcFault /\ Then
  /\ UNCHANGED <<memberVars, minbox>> /\ MulticastUnchanged

Listen == Calls("listen") /\ MustWork /\ UNCHANGED <<memberVars, minbox>> /\ MulticastUnchanged

\* IP_ADD_MEMBERSHIP; WSAJoinLeaf.  Any source is taken.
JoinMulticastGroup ==
  /\ Calls("join") /\ ~V3
  /\ \/ /\ NoMcFault /\ Then
        /\ member' = IF margs.join THEN "exclude" ELSE "no"
     \/ margs.join /\ McFault /\ Exit /\ UNCHANGED member
  /\ UNCHANGED <<mlist, missed, minbox>> /\ MulticastUnchanged

Source == margs.sources[mpc[2]]
NextSource == mpc' = <<"join", mpc[2] + 1>>
AtSource == Calls("join") /\ V3 /\ ~margs.filter /\ mpc[2] <= Len(margs.sources)

\* IP_ADD_SOURCE_MEMBERSHIP of one -h; a failure is printed.
IncludeSource ==
  /\ AtSource /\ ~margs.exclude /\ NextSource
  /\ \/ /\ Source \notin unresolved /\ NoMcFault
        /\ member' = "include" /\ mlist' = mlist \cup {Source} /\ UNCHANGED missed
     \/ /\ missed' = missed \cup {Source} /\ UNCHANGED <<member, mlist>>
        /\ IF Source \in unresolved THEN NoMcFault ELSE McFault
  /\ UNCHANGED minbox /\ MulticastUnchanged

\* IP_ADD_MEMBERSHIP, then IP_BLOCK_SOURCE of one -h after the other.
JoinAll ==
  /\ AtSource \/ (Calls("join") /\ V3 /\ ~margs.filter /\ margs.sources = <<>>)
  /\ margs.exclude /\ member = "no"
  /\ \/ NoMcFault /\ member' = "exclude" /\ UNCHANGED mpc
     \/ McFault /\ Exit /\ UNCHANGED member
  /\ UNCHANGED <<mlist, missed, minbox>> /\ MulticastUnchanged

Blocks(h) == mlist' = mlist \cup {h}
BlockSource ==
  /\ AtSource /\ margs.exclude /\ member = "exclude" /\ NextSource
  /\ \/ Source \notin unresolved /\ NoMcFault /\ Blocks(Source) /\ UNCHANGED missed
     \/ /\ missed' = missed \cup {Source} /\ UNCHANGED mlist
        /\ IF Source \in unresolved THEN NoMcFault ELSE McFault
  /\ UNCHANGED <<member, minbox>> /\ MulticastUnchanged

Joined ==
  /\ Calls("join") /\ V3 /\ ~margs.filter /\ mpc[2] > Len(margs.sources)
  /\ margs.exclude => member = "exclude"
  /\ NoMcFault /\ Then
  /\ UNCHANGED <<memberVars, minbox>> /\ MulticastUnchanged

\* SIO_SET_MULTICAST_FILTER.  The list ends at the first name not found; the
\* count does not, and the rest are zero addresses.
SetFilter ==
  LET bad == SelectInSeq(margs.sources, LAMBDA h : h \in unresolved)
      found == IF bad = 0 THEN margs.sources ELSE SubSeq(margs.sources, 1, bad - 1)
  IN /\ Calls("join") /\ V3 /\ margs.filter
     /\ \/ /\ NoMcFault /\ Then
           /\ member' = IF margs.exclude THEN "exclude" ELSE "include"
           /\ mlist' = ToSet(found) /\ missed' = ToSet(margs.sources) \ ToSet(found)
        \/ McFault /\ Exit /\ UNCHANGED memberVars
     /\ UNCHANGED minbox /\ MulticastUnchanged
-----------------------------------------------------------------------------
Admits(h) ==
  /\ ~(margs.connect /\ Calls("recv"))
  /\ CASE member = "no" -> FALSE
       [] member = "include" -> h \in mlist
       [] member = "exclude" -> h \notin mlist

\* recvfrom, or recv.  A datagram that does not fit ends the program.
RecvDatagram ==
  /\ Calls("recv") /\ ~Rm /\ minbox # <<>> /\ minbox' = Tail(minbox)
  /\ IF margs.small THEN Exit /\ UNCHANGED mgot
     ELSE /\ mgot' = Append(mgot, Head(minbox))
          /\ IF Len(mgot') = gCount THEN Exit ELSE UNCHANGED mpc
  /\ UNCHANGED <<margs, unresolved, memberVars, msender, session, mfaults>>

\* accept, and recv until it fails: with WSAEDISCON when the session is over.
Accept ==
  /\ Calls("recv") /\ Rm /\ session.state \in {"offered", "gone"}
  /\ session' = [session EXCEPT !.state = IF @ = "gone" THEN "closed" ELSE "open"]
  /\ UNCHANGED <<margs, unresolved, mpc, memberVars, minbox, mgot, msender, mfaults>>

RecvSession ==
  /\ Calls("recv") /\ Rm /\ session.state \in {"open", "closed", "broken"}
  /\ IF minbox # <<>> /\ session.state # "broken"
     THEN mgot' = Append(mgot, Head(minbox)) /\ minbox' = Tail(minbox) /\ UNCHANGED mpc
     ELSE session.state # "open" /\ Exit /\ UNCHANGED <<mgot, minbox>>
  /\ UNCHANGED <<margs, unresolved, memberVars, msender, session, mfaults>>

Receiver ==
  \/ Bind \/ Options \/ Connect \/ Listen \/ JoinMulticastGroup
  \/ IncludeSource \/ JoinAll \/ BlockSource \/ Joined \/ SetFilter
  \/ RecvDatagram \/ Accept \/ RecvSession
-----------------------------------------------------------------------------
Message(h) == [from |-> h, n |-> msender[h] + 1, early |-> ~Calls("recv")]
McDelivered(h) == minbox' = Append(minbox, Message(h))

\* sendto; a failure ends the sender.
SendDatagram(h) ==
  /\ ~Rm /\ msender[h] < gCount
  /\ \/ /\ msender' = [msender EXCEPT ![h] = @ + 1]
        /\ IF Admits(h) THEN (NoMcFault /\ McDelivered(h)) \/ (McFault /\ UNCHANGED minbox)
           ELSE NoMcFault /\ UNCHANGED minbox
     \/ McFault /\ msender' = [msender EXCEPT ![h] = gCount + 1] /\ UNCHANGED minbox
  /\ UNCHANGED <<margs, unresolved, mpc, memberVars, mgot, missed, session>>

\* send of "rm": a receiver that listens is offered the first session it
\* hears of, from then on.
SendSession(h) ==
  /\ Rm /\ msender[h] < gCount
  /\ msender' = [msender EXCEPT ![h] = @ + 1]
  /\ LET hears == session.from = h \/ (session.from = NOSOURCE /\ Calls("recv"))
     IN \/ /\ NoMcFault
           /\ IF hears /\ session.state # "broken"
              THEN /\ McDelivered(h)
                   /\ session' = IF session.from = h THEN session
                                 ELSE [from |-> h, state |-> "offered"]
              ELSE UNCHANGED <<minbox, session>>
        \/ McFault /\ session.from = h /\ session' = [session EXCEPT !.state = "broken"] /\ UNCHANGED minbox
  /\ UNCHANGED <<margs, unresolved, mpc, memberVars, mgot, missed>>

SenderEnds(h) ==
  /\ msender[h] = gCount /\ msender' = [msender EXCEPT ![h] = gCount + 1]
  /\ session' = IF session.from # h THEN session
                ELSE [session EXCEPT !.state = CASE @ = "open" -> "closed" [] @ = "offered" -> "gone" [] OTHER -> @]
  /\ UNCHANGED <<margs, unresolved, mpc, memberVars, minbox, mgot, missed, mfaults>>

Sender(h) == SendDatagram(h) \/ SendSession(h) \/ SenderEnds(h)
MulticastNext == Receiver \/ \E h \in Sources : Sender(h)
-----------------------------------------------------------------------------
\* What the receiver reads comes from the sources it asked for.  With a block
\* list there are two ways round: between IP_ADD_MEMBERSHIP (290) and
\* IP_BLOCK_SOURCE (328) any source is taken, which -f avoids, and a source
\* whose name or call failed is not blocked (319, 335, 393).  An include list
\* has none.
OnlyWanted ==
  V3 => \A m \in ToSet(mgot) :
    IF margs.exclude
    THEN m.from \in ToSet(margs.sources) =>
           m.from \in missed \/ (m.early /\ ~margs.filter)
    ELSE m.from \in ToSet(margs.sources)

\* A receiver that waits can be reached: it joined, or it was told not to, or
\* none of its sources worked, which JoinMulticastGroup does not report (430).
Reachable ==
  (Calls("recv") /\ ~Rm) =>
    \/ member = "exclude" \/ mlist # {} \/ ~margs.join
    \/ ToSet(margs.sources) \subseteq missed

\* The reliable session is one sender's messages without a gap.
SessionWhole ==
  Rm => \A i \in 2 .. Len(mgot) : mgot[i].from = mgot[1].from /\ mgot[i].n = mgot[i - 1].n + 1

MulticastRight == OnlyWanted /\ Reachable /\ SessionWhole

\* The receiver of a session ends with it.
MulticastOwes == session.state # "none"
MulticastServes == Calls("exit")
=============================================================================

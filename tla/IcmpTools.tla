----------------------------- MODULE IcmpTools -----------------------------
(* chapter11/ping/ping.cpp and chapter11/tracert/tracert.cpp: probes sent  *)
(* one after the other, with one overlapped receive outstanding on a raw   *)
(* socket.  Neither program looks at the identifier or the sequence number *)
(* of a reply: whatever is read next belongs to the probe sent last.       *)
(* External: the route, Distance hops to the destination, and the socket.  *)
EXTENDS Integers, Sequences, SequencesExt, FiniteSets

CONSTANTS
  DEFAULT_SEND_COUNT, \* ping's requests
  gTtl,               \* tracert -h
  Distance,
  SilentHops,         \* routers that send no time exceeded message
  MaxProbes,          \* bound of the model: tracert sends no more
  MaxStrays           \* bound of the model: ICMP packets for somebody else

ASSUME IcmpAssumption ==
  /\ {DEFAULT_SEND_COUNT, gTtl, Distance, MaxProbes} \subseteq Nat \ {0}
  /\ MaxStrays \in Nat /\ SilentHops \subseteq 1 .. Distance

VARIABLES
  tool,      \* "ping" or "tracert"
  ttl,       \* of tracert
  probes,    \* the hop each probe sent so far gets to
  notdone,
  pending,   \* receives outstanding
  recvEvent, \* recvol.hEvent
  recvbuf,   \* the reply received last: see Reply
  replies,   \* replies on their way
  queue,     \* replies the socket holds
  imain,     \* where main is
  icount,    \* [timeouts, strays, refused]
  reported   \* what main printed: <<the probe sent last, the reply>>

icmpVars == <<tool, ttl, probes, notdone, pending, recvEvent, recvbuf, replies, queue, imain,
              icount, reported>>

\* What a packet says: the probe it answers, 0 for a stray; the hop it comes
\* from; "reply" for time exceeded and echo replies, and for any other type
\* its code.
Reply(probe, hop, type) == [probe |-> probe, hop |-> hop, type |-> type]
NoReply == Reply(0, 0, "none")

\* main posts the first receive before it sends.
IcmpInit ==
  /\ tool \in {"ping", "tracert"}
  /\ ttl = 1 /\ probes = <<>> /\ notdone = 1
  /\ pending = 1 /\ recvEvent = 0 /\ recvbuf = NoReply
  /\ replies = {} /\ queue = <<>>
  /\ imain = "send" /\ icount = [timeouts |-> 0, strays |-> 0, refused |-> 0]
  /\ reported = <<>>

IGoto(label) == imain' = label
netState == <<pending, recvEvent, recvbuf, replies, queue>>

\* A packet completes the receive outstanding or waits in the socket.
Deliver(r) ==
  IF pending > 0
  THEN /\ pending' = pending - 1 /\ recvEvent' = 1 /\ recvbuf' = r
       /\ UNCHANGED queue
  ELSE queue' = Append(queue, r) /\ UNCHANGED <<pending, recvEvent, recvbuf>>

ReplyArrives(r) ==
  /\ imain # "end" /\ r \in replies /\ replies' = replies \ {r}
  /\ Deliver(r)
  /\ UNCHANGED <<tool, ttl, probes, notdone, imain, icount, reported>>

ReplyLost(r) ==
  /\ r \in replies /\ replies' = replies \ {r}
  /\ UNCHANGED <<tool, ttl, probes, notdone, pending, recvEvent, recvbuf, queue, imain, icount,
                 reported>>

StrayArrives ==
  /\ imain # "end" /\ icount.strays < MaxStrays
  /\ \E type \in {"reply", "code 0", "code 1"} : Deliver(Reply(0, 0, type))
  /\ icount' = [icount EXCEPT !.strays = @ + 1]
  /\ UNCHANGED <<tool, ttl, probes, notdone, replies, imain, reported>>

PostRecvfrom ==
  IF queue # <<>>
  THEN recvEvent' = 1 /\ recvbuf' = Head(queue) /\ queue' = Tail(queue) /\ UNCHANGED pending
  ELSE recvEvent' = 0 /\ pending' = pending + 1 /\ UNCHANGED <<recvbuf, queue>>
-----------------------------------------------------------------------------
Reaches == IF tool = "ping" \/ ttl > Distance THEN Distance ELSE ttl
Answers(hop) == hop = Distance \/ hop \notin SilentHops

\* SetTtl, SetIcmpSequence, the checksum and sendto.
SendProbe ==
  /\ imain = "send" /\ Len(probes) < MaxProbes
  /\ probes' = Append(probes, Reaches)
  /\ notdone' = 1
  /\ replies' = IF Answers(Reaches) THEN replies \cup {Reply(Len(probes) + 1, Reaches, "reply")}
                ELSE replies
  /\ IGoto("wait")
  /\ UNCHANGED <<tool, ttl, pending, recvEvent, recvbuf, queue, icount, reported>>

\* sendto fails: main returns, whatever is outstanding.
SendFails ==
  /\ imain = "send"
  /\ icount' = [icount EXCEPT !.refused = 1]
  /\ IGoto("end")
  /\ UNCHANGED <<tool, ttl, probes, notdone, netState, reported>>

\* ping's for loop, and tracert's do loop.
LoopEnds(more, t) == IF tool = "ping" THEN Len(probes) >= DEFAULT_SEND_COUNT
                     ELSE more = 0 \/ t >= gTtl
LoopGoto(more, t) == IGoto(IF LoopEnds(more, t) THEN "end" ELSE "send")

\* The wait times out: the receive stays outstanding for the next probe.
KeepsReceive == UNCHANGED netState

TimesOut ==
  /\ imain = "wait" /\ recvEvent = 0
  /\ icount' = [icount EXCEPT !.timeouts = @ + 1]
  /\ LoopGoto(1, ttl)
  /\ KeepsReceive
  /\ UNCHANGED <<tool, ttl, probes, notdone, reported>>

\* AnalyzePacket (tracert only) refuses another type if its code is not 0.
AnalyzePacket(r) == tool = "ping" \/ r.type # "code 1"

\* 0 when the reply came from the destination.
IsSockaddrEqual(hop) == IF hop = Distance THEN 0 ELSE 1

HandleReply ==
  /\ imain = "wait" /\ recvEvent = 1
  /\ recvEvent' = 0
  /\ IF AnalyzePacket(recvbuf)
     THEN /\ reported' = Append(reported, <<Len(probes), recvbuf>>)
          /\ notdone' = IF tool = "tracert" THEN IsSockaddrEqual(recvbuf.hop) ELSE 1
          /\ ttl' = ttl + 1
     ELSE UNCHANGED <<ttl, notdone, reported>>
  /\ IGoto("post")
  /\ UNCHANGED <<tool, probes, pending, recvbuf, replies, queue, icount>>

PostAgain ==
  /\ imain = "post"
  /\ IF notdone = 1 THEN PostRecvfrom ELSE UNCHANGED <<recvEvent, pending, recvbuf, queue>>
  /\ LoopGoto(notdone, ttl)
  /\ UNCHANGED <<tool, ttl, probes, notdone, replies, icount, reported>>
-----------------------------------------------------------------------------
IcmpMain == SendProbe \/ SendFails \/ TimesOut \/ HandleReply \/ PostAgain
IcmpNext ==
  \/ IcmpMain \/ StrayArrives
  \/ \E r \in replies : ReplyArrives(r) \/ ReplyLost(r)

Clean == icount.timeouts = 0 /\ icount.strays = 0

\* What is printed for a probe answers that probe as long as nothing timed
\* out; later it may answer an earlier one, but no packet is printed twice
\* and none before it was asked for.  tracert prints hop after hop then, and
\* claims to be done only when the destination answered or a send failed.
RepliesMatch ==
  /\ \A k \in DOMAIN reported :
       LET r == reported[k][2] IN
       /\ r.probe <= reported[k][1]
       /\ Clean => r.probe = reported[k][1] /\ r.hop = (IF tool = "ping" \/ k > Distance THEN Distance ELSE k)
       /\ \A j \in DOMAIN reported : reported[j][2].probe = r.probe /\ r.probe > 0 => j = k
  /\ Len(reported) + icount.timeouts <= Len(probes)
  /\ pending <= 1
  /\ imain = "end" /\ Clean /\ icount.refused = 0 =>
       IF tool = "ping" THEN Len(reported) = DEFAULT_SEND_COUNT ELSE notdone = 0 \/ ttl >= gTtl

\* Both programs end; tracert only if each router it has to pass answers it
\* once: the probes are used up otherwise.
ToolEnds == imain = "end" \/ (tool = "tracert" /\ Len(probes) = MaxProbes)
=============================================================================

-------------------------- MODULE EchoLoopsProofs --------------------------
(***************************************************************************)
(* Theorems about EchoLoops, for each of its three servers, either         *)
(* protocol, any number of clients and threads, any room in the kernel and *)
(* every set of faults: the echo is the input, and no event is forgotten.  *)
(***************************************************************************)
EXTENDS EchoLoops, FiniteSetTheorems, SequenceTheorems, WellFoundedInduction, TLAPS

USE DEF At, PcTo, Set, Close, Rearm

(* The types, and what a label says about the socket or the thread at hand. *)

Kinds == {"read", "write", "close", "abort"}
SelectLabels == {"read", "send", "resend", "write", "except"}
IoLabels == {"io", "read", "drain", "send"}
Labels == SelectLabels \cup IoLabels \cup {"none", "wait", "scan", "renumber"}

ConnsTyped ==
  /\ server \in {"select", "async", "event"} /\ gProtocol \in {"tcp", "udp"}
  /\ client \in [Conns -> {"none", "open", "fin", "reset"}]
  /\ inbox \in [Conns -> Seq(Int)] /\ urgent \in [Conns -> 0 .. 1]
  /\ out \in [Conns -> 0 .. Room]
  /\ armed \in [Conns -> SUBSET All] /\ net \in [Conns -> SUBSET Kinds]
  /\ socket \in [Conns -> {"none", "open", "closed", "lost"}]
  /\ received \in [Conns -> Nat] /\ sent \in [Conns -> Seq(Nat)]
  /\ pending \in [Conns -> Seq(Seq(Nat))] /\ closing \in [Conns -> 0 .. 1]
  /\ partial \in [Conns -> 0 .. 1]

LoopsTyped ==
  /\ msgs \in Seq(Conns \X Kinds)
  /\ pc \in [Threads -> Labels] /\ cur \in [Threads -> Conns \cup {0}]
  /\ rest \in Seq(Conns)
  /\ fdread \subseteq Conns /\ fdwrite \subseteq Conns /\ fdexcept \subseteq Conns
  /\ todo \in [Threads -> SUBSET Kinds] /\ i \in [Threads -> Nat]
  /\ SocketList \in [Threads -> Seq(Conns)] /\ Handles \in [Threads -> Seq(Conns)]
  /\ Event \in [Threads -> 0 .. 1] /\ waits \in [Threads -> SUBSET Conns]
  /\ gChildThreads \in Seq(Children)
  /\ mpc \in {"accept", "assign", "insert", "signal"}
  /\ newsock \in Conns \cup {0} /\ mthread \in Threads
  /\ stopped \in 0 .. 1

TypeOK == ConnsTyped /\ LoopsTyped

(* The lists of sockets.  An open socket is in one list at most, once; a   *)
(* listed socket is open; what a thread works on is in its list.           *)

Members(s) == {s[n] : n \in 1 .. Len(s)}
Listed(t, c) == c \in Members(SocketList[t])
Distinct(s) == \A m, n \in 1 .. Len(s) : s[m] = s[n] => m = n
NewSocket == mpc \in {"assign", "insert"}

ListsOK ==
  /\ \A t \in Threads : Distinct(SocketList[t])
  /\ \A t \in Threads, c \in Conns : Listed(t, c) => socket[c] = "open"
  /\ \A t, u \in Threads, c \in Conns : Listed(t, c) /\ Listed(u, c) => t = u
  /\ NewSocket => /\ newsock \in Conns /\ socket[newsock] = "open"
                  /\ \A t \in Threads : ~Listed(t, newsock)
WorkOK ==
  /\ Distinct(rest)
  /\ server = "select" => Members(rest) \subseteq Members(SocketList[0])
  /\ server = "select" /\ pc[0] \in SelectLabels => rest # <<>>
  /\ server # "select" => \A t \in Threads : pc[t] \in IoLabels => Listed(t, cur[t])
  /\ server # "event" => mpc = "accept" /\ \A t \in Children : SocketList[t] = <<>>
  /\ server = "event" => \A t \in Threads : Len(SocketList[t]) <= Len(Handles[t])

(* A record of an abortive close is there only when the client was.        *)
AbortsOK ==
  /\ \A c \in Conns : "abort" \in net[c] => client[c] = "reset"
  /\ \A n \in 1 .. Len(msgs) : msgs[n][2] = "abort" => client[msgs[n][1]] = "reset"
  /\ server = "event" => \A t \in Threads : "abort" \in todo[t] /\ cur[t] \in Conns
                                              => client[cur[t]] = "reset"

(* The bytes of a connection.  f[n] bytes were sent or are queued before   *)
(* the n-th buffer of the queue q; the bytes of the input are their        *)
(* numbers, as long as no send took a part.                                *)

Spans(q, a, b, f) ==
  /\ f \in [1 .. Len(q) + 1 -> Nat] /\ f[1] = a /\ f[Len(q) + 1] = b
  /\ \A n \in 1 .. Len(q) : f[n + 1] = f[n] + Len(q[n])
Numbered(q, f) == \A n \in 1 .. Len(q) : \A k \in 1 .. Len(q[n]) : q[n][k] = f[n] + k
Queued(q, a, b, whole) == \E f : Spans(q, a, b, f) /\ (whole => Numbered(q, f))

(* The units in the kernel: those between the r-th and the u-th, in order,  *)
(* with empty and long datagrams between them.                             *)
Follows(m, r, u, g) ==
  /\ g \in [1 .. Len(m) + 1 -> Nat] /\ g[1] = r /\ g[Len(m) + 1] = u
  /\ \A n \in 1 .. Len(m) : IF m[n] <= 0 THEN g[n + 1] = g[n]
                                         ELSE m[n] = g[n] + 1 /\ g[n + 1] = g[n] + 1
Topmost(m, r, u) ==
  /\ u = r \/ \E n \in 1 .. Len(m) : m[n] = u
  /\ r <= u /\ \A n \in 1 .. Len(m) : m[n] <= u
Mail(m, r, u) == Topmost(m, r, u) /\ \E g : Follows(m, r, u, g)

Finished(c) == Udp \/ server = "async" \/ (inbox[c] = <<>> /\ client[c] \in {"fin", "reset"})

\* Closed, and not because the client aborted.
Left(c) == socket[c] = "closed" /\ client[c] # "reset"

ConnOK(c) ==
  /\ \E u \in Nat : Mail(inbox[c], received[c], u)
  /\ \A n \in 1 .. Len(inbox[c]) : inbox[c][n] <= 0 => Udp
  /\ socket[c] = "none" =>
       received[c] = 0 /\ sent[c] = <<>> /\ pending[c] = <<>> /\ closing[c] = 0
  /\ socket[c] = "open" \/ Left(c) =>
       Queued(pending[c], Len(sent[c]), 2 * received[c], partial[c] = 0)
  /\ partial[c] = 0 => \A k \in 1 .. Len(sent[c]) : sent[c][k] = k
  /\ closing[c] = 1 => Finished(c)
  /\ Left(c) => Finished(c) /\ (pending[c] = <<>> \/ TooLong(c))

AllConns == \A c \in Conns : ConnOK(c)

EchoInv == TypeOK /\ ListsOK /\ WorkOK /\ AbortsOK /\ AllConns

(* The event server's threads. *)

Made == 1 .. Len(gChildThreads)
Matches(t) ==
  /\ Len(Handles[t]) >= Len(SocketList[t])
  /\ \A n \in 1 .. Len(SocketList[t]) : Handles[t][n] = SocketList[t][n]
ThreadOK(t) ==
  /\ pc[t] = "none" <=> t \notin Made
  /\ pc[t] = "none" => SocketList[t] = <<>>
  /\ pc[t] = "renumber" => Len(Handles[t]) >= Len(SocketList[t])
  /\ pc[t] # "renumber" => Matches(t)
  /\ At(t, "wait") => \A n \in 1 .. Len(SocketList[t]) :
       SocketList[t][n] \in waits[t] \/ Event[t] = 1 \/ (mpc = "signal" /\ mthread = t)
WatchOK ==
  /\ \A n \in 1 .. Len(gChildThreads) : gChildThreads[n] \in Made
  /\ mpc \in {"insert", "signal"} => mthread \in Made
  /\ \A t \in Children : ThreadOK(t)
-----------------------------------------------------------------------------
(* The queue of buffers and the queue of units, as data. *)

LEMMA SequenceFacts ==
  ASSUME NEW S, NEW q \in Seq(S)
  PROVE  /\ Len(q) \in Nat
         /\ \A e \in S : /\ Append(q, e) \in Seq(S) /\ Len(Append(q, e)) = Len(q) + 1
                         /\ \A n \in 1 .. Len(q) : Append(q, e)[n] = q[n]
                         /\ Append(q, e)[Len(q) + 1] = e
         /\ q # <<>> => /\ Len(q) >= 1 /\ Head(q) \in S /\ Head(q) = q[1]
                        /\ Tail(q) \in Seq(S) /\ Len(Tail(q)) = Len(q) - 1
                        /\ \A n \in 1 .. Len(q) - 1 : Tail(q)[n] = q[n + 1]
         /\ \A n \in 1 .. Len(q) : q[n] \in S
         /\ q = <<>> <=> Len(q) = 0
OBVIOUS

LEMMA QueuedNone ==
  ASSUME NEW a \in Nat, NEW b \in Nat, NEW whole
  PROVE  Queued(<<>>, a, b, whole) <=> a = b
<1>1. Len(<<>>) = 0
  OBVIOUS
<1>2. ASSUME a = b
      PROVE  Queued(<<>>, a, b, whole)
  <2> DEFINE f == [n \in 1 .. 1 |-> a]
  <2>1. Spans(<<>>, a, b, f) /\ Numbered(<<>>, f)
    BY <1>1, <1>2 DEF Spans, Numbered
  <2> QED
    BY <2>1 DEF Queued
<1>3. ASSUME Queued(<<>>, a, b, whole)
      PROVE  a = b
  BY <1>1, <1>3 DEF Queued, Spans
<1> QED
  BY <1>2, <1>3

\* A buffer joins the queue.
LEMMA QueuedAppend ==
  ASSUME NEW q \in Seq(Seq(Nat)), NEW a \in Nat, NEW b \in Nat, NEW whole \in BOOLEAN,
         NEW buf \in Seq(Nat), Queued(q, a, b, whole),
         whole => \A k \in 1 .. Len(buf) : buf[k] = b + k
  PROVE  Queued(Append(q, buf), a, b + Len(buf), whole)
<1>1. PICK f : Spans(q, a, b, f) /\ (whole => Numbered(q, f))
  BY DEF Queued
<1> DEFINE r == Append(q, buf)
           g == [n \in 1 .. Len(q) + 2 |-> IF n = Len(q) + 2 THEN b + Len(buf) ELSE f[n]]
<1>2. /\ Len(q) \in Nat /\ Len(buf) \in Nat /\ Len(r) = Len(q) + 1
      /\ \A n \in 1 .. Len(q) : r[n] = q[n]
      /\ r[Len(q) + 1] = buf
  BY SequenceFacts
<1>3. /\ f \in [1 .. Len(q) + 1 -> Nat] /\ f[1] = a /\ f[Len(q) + 1] = b
      /\ \A n \in 1 .. Len(q) : f[n + 1] = f[n] + Len(q[n])
  BY <1>1 DEF Spans
<1>4. /\ g \in [1 .. Len(q) + 2 -> Nat] /\ g[Len(q) + 2] = b + Len(buf)
      /\ \A n \in 1 .. Len(q) + 1 : g[n] = f[n]
  BY <1>2, <1>3
<1> HIDE DEF g, r
<1>5. Spans(r, a, b + Len(buf), g)
  <2>1. g[1] = a /\ g[Len(r) + 1] = b + Len(buf) /\ g \in [1 .. Len(r) + 1 -> Nat]
    BY <1>2, <1>3, <1>4
  <2>2. ASSUME NEW n \in 1 .. Len(r)
        PROVE  g[n + 1] = g[n] + Len(r[n])
    <3>1. CASE n = Len(q) + 1
      <4>1. n + 1 = Len(q) + 2 /\ n \in 1 .. Len(q) + 1
        BY <3>1, <1>2
      <4>2. g[n] = b /\ g[n + 1] = b + Len(buf) /\ r[n] = buf
        BY <3>1, <4>1, <1>2, <1>3, <1>4
      <4> QED
        BY <4>2
    <3>2. CASE n \in 1 .. Len(q)
      <4>1. n \in 1 .. Len(q) + 1 /\ n + 1 \in 1 .. Len(q) + 1
        BY <3>2, <1>2
      <4>2. g[n] = f[n] /\ g[n + 1] = f[n + 1] /\ r[n] = q[n]
        BY <3>2, <4>1, <1>2, <1>4
      <4> QED
        BY <3>2, <4>2, <1>3
    <3> QED
      BY <3>1, <3>2, <1>2
  <2> QED
    BY <2>1, <2>2 DEF Spans
<1>6. ASSUME whole
      PROVE  Numbered(r, g)
  <2> SUFFICES ASSUME NEW n \in 1 .. Len(r), NEW k \in 1 .. Len(r[n])
               PROVE  r[n][k] = g[n] + k
    BY DEF Numbered
  <2>1. CASE n = Len(q) + 1
    BY <2>1, <1>2, <1>3, <1>4, <1>6
  <2>2. CASE n \in 1 .. Len(q)
    <3>1. r[n] = q[n] /\ g[n] = f[n]
      BY <2>2, <1>2, <1>4
    <3> QED
      BY <2>2, <3>1, <1>1, <1>6 DEF Numbered
  <2>3. n = Len(q) + 1 \/ n \in 1 .. Len(q)
    BY <1>2
  <2> QED
    BY <2>1, <2>2, <2>3
<1> QED
  BY <1>5, <1>6 DEF Queued, r

\* The buffer at the head leaves the queue, ...
LEMMA QueuedTail ==
  ASSUME NEW q \in Seq(Seq(Nat)), NEW a \in Nat, NEW b \in Nat, NEW whole \in BOOLEAN,
         q # <<>>, Queued(q, a, b, whole)
  PROVE  /\ Queued(Tail(q), a + Len(Head(q)), b, whole)
         /\ whole => \A k \in 1 .. Len(Head(q)) : Head(q)[k] = a + k
<1>1. PICK f : Spans(q, a, b, f) /\ (whole => Numbered(q, f))
  BY DEF Queued
<1> DEFINE r == Tail(q)
           m == Len(q)
           g == [n \in 1 .. m |-> f[n + 1]]
<1>2. /\ m \in Nat /\ m >= 1 /\ Len(r) = m - 1 /\ Head(q) = q[1] /\ Len(Head(q)) \in Nat
      /\ \A n \in 1 .. m - 1 : r[n] = q[n + 1]
  BY SequenceFacts
<1>3. /\ f \in [1 .. m + 1 -> Nat] /\ f[1] = a /\ f[m + 1] = b
      /\ \A n \in 1 .. m : f[n + 1] = f[n] + Len(q[n])
  BY <1>1 DEF Spans
<1> HIDE DEF m, r
<1>4. /\ g \in [1 .. m -> Nat]
      /\ \A n \in 1 .. m : g[n] = f[n + 1]
  BY <1>2, <1>3
<1> HIDE DEF g
<1>5. Spans(r, a + Len(Head(q)), b, g)
  <2>1. g[1] = a + Len(Head(q)) /\ g[Len(r) + 1] = b /\ g \in [1 .. Len(r) + 1 -> Nat]
    BY <1>2, <1>3, <1>4
  <2>2. ASSUME NEW n \in 1 .. Len(r)
        PROVE  g[n + 1] = g[n] + Len(r[n])
    <3>1. n \in 1 .. m /\ n + 1 \in 1 .. m /\ r[n] = q[n + 1]
      BY <1>2
    <3>2. g[n] = f[n + 1] /\ g[n + 1] = f[(n + 1) + 1]
      BY <3>1, <1>4
    <3> QED
      BY <3>1, <3>2, <1>3
  <2> QED
    BY <2>1, <2>2 DEF Spans
<1>6. ASSUME whole
      PROVE  Numbered(r, g)
  <2> SUFFICES ASSUME NEW n \in 1 .. Len(r), NEW k \in 1 .. Len(r[n])
               PROVE  r[n][k] = g[n] + k
    BY DEF Numbered
  <2>1. n \in 1 .. m /\ n + 1 \in 1 .. m /\ r[n] = q[n + 1]
    BY <1>2
  <2> QED
    BY <2>1, <1>1, <1>4, <1>6 DEF Numbered, m
<1>7. ASSUME whole, NEW k \in 1 .. Len(Head(q))
      PROVE  Head(q)[k] = a + k
  BY <1>1, <1>2, <1>3, <1>7 DEF Numbered, m
<1> QED
  BY <1>5, <1>6, <1>7 DEF Queued, r

\* ... or the first part bytes of it do, and what is left of it stays.
LEMMA QueuedPart ==
  ASSUME NEW q \in Seq(Seq(Nat)), NEW a \in Nat, NEW b \in Nat, NEW whole \in BOOLEAN,
         q # <<>>, Queued(q, a, b, whole), NEW some \in BOOLEAN, NEW left \in Seq(Nat),
         NEW part \in 0 .. Len(Head(q)), Len(left) = Len(Head(q)) - part,
         some => whole /\ \A k \in 1 .. Len(left) : left[k] = Head(q)[part + k]
  PROVE  Queued(<<left>> \o Tail(q), a + part, b, some)
<1>1. PICK f : Spans(q, a, b, f) /\ (whole => Numbered(q, f))
  BY DEF Queued
<1> DEFINE r == <<left>> \o Tail(q)
           m == Len(q)
           g == [n \in 1 .. m + 1 |-> IF n = 1 THEN a + part ELSE f[n]]
<1>2. /\ m \in Nat /\ m >= 1 /\ Head(q) = q[1] /\ Len(Head(q)) \in Nat /\ part \in Nat
      /\ Tail(q) \in Seq(Seq(Nat)) /\ Len(Tail(q)) = m - 1
      /\ \A n \in 1 .. m - 1 : Tail(q)[n] = q[n + 1]
  BY SequenceFacts
<1>3. /\ f \in [1 .. m + 1 -> Nat] /\ f[1] = a /\ f[m + 1] = b
      /\ \A n \in 1 .. m : f[n + 1] = f[n] + Len(q[n])
  BY <1>1 DEF Spans
<1>4. /\ Len(r) = m /\ r[1] = left
      /\ \A n \in 2 .. m : r[n] = q[n]
  <2>1. Len(r) = 1 + Len(Tail(q)) /\ r[1] = left
    BY <1>2
  <2>2. ASSUME NEW n \in 2 .. m
        PROVE  r[n] = q[n]
    <3>1. r[n] = Tail(q)[n - 1]
      BY <1>2
    <3>2. n - 1 \in 1 .. m - 1 /\ (n - 1) + 1 = n
      BY <1>2
    <3> QED
      BY <3>1, <3>2, <1>2
  <2> QED
    BY <2>1, <2>2, <1>2
<1> HIDE DEF r, m
<1>5. /\ g \in [1 .. m + 1 -> Nat] /\ g[1] = a + part
      /\ \A n \in 2 .. m + 1 : g[n] = f[n]
  <2>1. a + part \in Nat /\ 1 \in 1 .. m + 1 /\ \A n \in 1 .. m + 1 : f[n] \in Nat
    <3>1. m \in Nat /\ part \in Nat
      BY <1>2
    <3>2. \A n \in 1 .. m + 1 : f[n] \in Nat
      BY <1>3
    <3> QED
      BY <3>1, <3>2
  <2>2. \A n \in 2 .. m + 1 : n \in 1 .. m + 1 /\ n # 1
    BY <1>2
  <2> QED
    BY <2>1, <2>2
<1> HIDE DEF g
<1>6. Spans(r, a + part, b, g)
  <2>1. g[Len(r) + 1] = b /\ g \in [1 .. Len(r) + 1 -> Nat]
    BY <1>2, <1>3, <1>4, <1>5, SMTT(20)
  <2>2. ASSUME NEW n \in 1 .. Len(r)
        PROVE  g[n + 1] = g[n] + Len(r[n])
    <3>1. CASE n = 1
      <4>1. f[2] = a + Len(Head(q)) /\ g[2] = f[2] /\ Len(r[1]) = Len(Head(q)) - part
        BY <1>2, <1>3, <1>4, <1>5
      <4> QED
        BY <3>1, <4>1, <1>2, <1>5
    <3>2. CASE n \in 2 .. m
      BY <3>2, <1>2, <1>3, <1>4, <1>5
    <3> QED
      BY <3>1, <3>2, <1>2, <1>4
  <2> QED
    BY <2>1, <2>2, <1>5 DEF Spans
<1>7. ASSUME some
      PROVE  Numbered(r, g)
  <2> SUFFICES ASSUME NEW n \in 1 .. Len(r), NEW k \in 1 .. Len(r[n])
               PROVE  r[n][k] = g[n] + k
    BY DEF Numbered
  <2>1. \A p \in 1 .. m : \A j \in 1 .. Len(q[p]) : q[p][j] = f[p] + j
    BY <1>1, <1>7 DEF Numbered, m
  <2>2. CASE n = 1
    <3>1. k \in 1 .. Len(left) /\ Len(left) = Len(q[1]) - part /\ Len(q[1]) \in Nat
      BY <2>2, <1>2, <1>4
    <3>2. k \in Nat /\ part + k \in 1 .. Len(q[1]) /\ left[k] = q[1][part + k]
      <4>1. k \in Nat /\ part + k \in 1 .. Len(q[1])
        BY <3>1, <1>2
      <4>2. \A j \in 1 .. Len(left) : left[j] = Head(q)[part + j]
        BY <1>7
      <4>3. left[k] = Head(q)[part + k] /\ Head(q) = q[1]
        BY <3>1, <4>2, <1>2
      <4> QED
        BY <4>1, <4>3
    <3>3. q[1][part + k] = a + (part + k)
      BY <2>1, <3>2, <1>2, <1>3
    <3>4. r[n][k] = left[k] /\ g[n] = a + part
      BY <2>2, <1>4, <1>5
    <3> QED
      BY <3>2, <3>3, <3>4, <1>2
  <2>3. CASE n \in 2 .. m
    <3>1. r[n] = q[n] /\ g[n] = f[n] /\ n \in 1 .. m
      BY <2>3, <1>2, <1>4, <1>5
    <3> QED
      BY <2>1, <3>1
  <2> QED
    BY <2>2, <2>3, <1>2, <1>4
<1> QED
  BY <1>6, <1>7 DEF Queued, r

LEMMA SmallestOf ==
  ASSUME NEW T, T \subseteq Nat, T # {}
  PROVE  \E n \in T : \A m \in T : n <= m
<1> DEFINE Less == OpToRel(<, Nat)
<1>1. \E n \in T : \A m \in T : ~ (<<m, n>> \in Less)
  BY NatLessThanWellFounded, WFMin
<1>2. \A m, n \in Nat : m < n => <<m, n>> \in Less
  BY DEF OpToRel
<1> HIDE DEF Less
<1>3. PICK n \in T : \A m \in T : ~ (<<m, n>> \in Less)
  BY <1>1
<1>4. ASSUME NEW m \in T
      PROVE  n <= m
  <2>1. n \in Nat /\ m \in Nat
    OBVIOUS
  <2>2. ~ (m < n)
    BY <1>2, <1>3, <2>1, Zenon
  <2> QED
    BY <2>1, <2>2
<1> QED
  BY <1>4

\* What the recursive function of BytesPending adds up.
LEMMA BytesQueued ==
  ASSUME NEW c \in Conns, NEW a \in Nat, NEW b \in Nat, NEW whole,
         pending[c] \in Seq(Seq(Nat)), Queued(pending[c], a, b, whole)
  PROVE  BytesPending(c) = b - a
<1> DEFINE q == pending[c]
           m == Len(q)
           bytes == CHOOSE h : h = [n \in 0 .. m |-> IF n = 0 THEN 0 ELSE h[n - 1] + Len(q[n])]
<1>1. PICK f : Spans(q, a, b, f)
  BY DEF Queued
<1>2. m \in Nat /\ \A n \in 1 .. m : Len(q[n]) \in Nat
  BY SequenceFacts
<1>3. BytesPending(c) = bytes[m]
  BY DEF BytesPending
<1> HIDE DEF q, m
<1>4. /\ f \in [1 .. m + 1 -> Nat] /\ f[1] = a /\ f[m + 1] = b
      /\ \A n \in 1 .. m : f[n + 1] = f[n] + Len(q[n])
  BY <1>1 DEF Spans, m
<1> DEFINE g == [n \in 0 .. m |-> f[n + 1] - a]
<1>5. /\ g[0] = 0 /\ g[m] = b - a
      /\ \A n \in 1 .. m : g[n] = g[n - 1] + Len(q[n])
  <2>1. g[0] = 0 /\ g[m] = b - a
    BY <1>2, <1>4
  <2>2. ASSUME NEW n \in 1 .. m
        PROVE  g[n] = g[n - 1] + Len(q[n])
    <3>1. n \in 0 .. m /\ n - 1 \in 0 .. m /\ n \in 1 .. m + 1 /\ n + 1 \in 1 .. m + 1
          /\ (n - 1) + 1 = n
      BY <1>2
    <3>2. f[n + 1] = f[n] + Len(q[n]) /\ f[n] \in Nat /\ f[n + 1] \in Nat /\ Len(q[n]) \in Nat
      BY <1>2, <1>4, <3>1
    <3>3. g[n] = f[n + 1] - a /\ g[n - 1] = f[n] - a
      BY <3>1
    <3> QED
      BY <3>2, <3>3
  <2> QED
    BY <2>1, <2>2
<1>6. g = [n \in 0 .. m |-> g[n]]
  OBVIOUS
<1> HIDE DEF g
<1>7. g = [n \in 0 .. m |-> IF n = 0 THEN 0 ELSE g[n - 1] + Len(q[n])]
  <2>1. ASSUME NEW n \in 0 .. m
        PROVE  g[n] = IF n = 0 THEN 0 ELSE g[n - 1] + Len(q[n])
    <3>1. n = 0 \/ n \in 1 .. m
      BY <1>2
    <3> QED
      BY <3>1, <1>5
  <2> QED
    BY <2>1, <1>6
<1>8. bytes = [n \in 0 .. m |-> IF n = 0 THEN 0 ELSE bytes[n - 1] + Len(q[n])]
  BY <1>7
<1> HIDE DEF bytes
<1>9. bytes[0] = 0 /\ \A n \in 1 .. m : bytes[n] = bytes[n - 1] + Len(q[n])
  BY <1>2, <1>8
<1>10. bytes[m] = g[m]
  <2> DEFINE T == {n \in 0 .. m : bytes[n] # g[n]}
  <2> SUFFICES ASSUME T # {} PROVE FALSE
    BY <1>2
  <2>1. PICK n \in T : \A k \in T : n <= k
    <3>1. T \subseteq Nat
      OBVIOUS
    <3> HIDE DEF T
    <3> QED
      BY <3>1, SmallestOf
  <2>2. n \in 0 .. m /\ bytes[n] # g[n]
    OBVIOUS
  <2>3. n # 0
    BY <2>2, <1>5, <1>9
  <2>4. n \in 1 .. m /\ n - 1 \in 0 .. m /\ ~(n <= n - 1)
    BY <2>2, <2>3, <1>2
  <2>5. bytes[n - 1] = g[n - 1]
    BY <2>1, <2>4
  <2> QED
    BY <2>2, <2>4, <2>5, <1>5, <1>9
<1> QED
  BY <1>3, <1>5, <1>10

LEMMA UnitsOf ==
  ASSUME NEW c \in Conns, NEW u \in Nat, inbox[c] \in Seq(Int), received[c] \in Nat,
         Topmost(inbox[c], received[c], u)
  PROVE  Units(c) = u
<1> DEFINE S == {received[c]} \cup Range(inbox[c])
<1>1. S = {received[c]} \cup {inbox[c][n] : n \in 1 .. Len(inbox[c])}
  BY DEF Range
<1>2. S \subseteq Int /\ u \in S /\ \A x \in S : u >= x
  <2>1. \A n \in 1 .. Len(inbox[c]) : inbox[c][n] \in Int
    BY SequenceFacts
  <2> QED
    BY <1>1, <2>1 DEF Topmost
<1>3. Units(c) = Max(S)
  BY DEF Units
<1> HIDE DEF S
<1>4. Max(S) \in S /\ \A x \in S : Max(S) >= x
  BY <1>2 DEF Max
<1>5. Max(S) \in Nat /\ u >= Max(S) /\ Max(S) >= u
  BY <1>2, <1>4
<1>6. Max(S) = u
  BY <1>5
<1> QED
  BY <1>3, <1>6

\* A unit, or an empty or a long datagram, comes in ...
LEMMA MailAppend ==
  ASSUME NEW m \in Seq(Int), NEW r \in Nat, NEW u \in Nat, Mail(m, r, u)
  PROVE  Mail(Append(m, u + 1), r, u + 1) /\ Mail(Append(m, 0), r, u)
         /\ Mail(Append(m, -1), r, u)
<1>1. PICK g : Follows(m, r, u, g)
  BY DEF Mail
<1> SUFFICES ASSUME NEW x \in {0, -1, u + 1}, NEW v \in Nat, v = IF x <= 0 THEN u ELSE u + 1
             PROVE  Mail(Append(m, x), r, v)
  OBVIOUS
<1> DEFINE p == Append(m, x)
           l == Len(m)
           h == [n \in 1 .. l + 2 |-> IF n = l + 2 THEN v ELSE g[n]]
<1>2. /\ l \in Nat /\ Len(p) = l + 1 /\ p[l + 1] = x
      /\ \A n \in 1 .. l : p[n] = m[n] /\ m[n] \in Int
  BY SequenceFacts
<1>3. /\ g \in [1 .. l + 1 -> Nat] /\ g[1] = r /\ g[l + 1] = u
      /\ \A n \in 1 .. l : IF m[n] <= 0 THEN g[n + 1] = g[n]
                                       ELSE m[n] = g[n] + 1 /\ g[n + 1] = g[n] + 1
  BY <1>1 DEF Follows
<1> HIDE DEF p, l
<1>4. /\ h \in [1 .. l + 2 -> Nat] /\ h[l + 2] = v
      /\ \A n \in 1 .. l + 1 : h[n] = g[n]
  BY <1>2, <1>3
<1> HIDE DEF h
<1>5. ASSUME NEW n \in 1 .. Len(p)
      PROVE  IF p[n] <= 0 THEN h[n + 1] = h[n] ELSE p[n] = h[n] + 1 /\ h[n + 1] = h[n] + 1
  <2>1. CASE n = l + 1
    <3>1. n + 1 = l + 2 /\ n \in 1 .. l + 1
      BY <2>1, <1>2
    <3>2. p[n] = x /\ h[n + 1] = v /\ h[n] = u
      BY <2>1, <3>1, <1>2, <1>3, <1>4
    <3> QED
      BY <3>2
  <2>2. CASE n \in 1 .. l
    <3>1. n \in 1 .. l + 1 /\ n + 1 \in 1 .. l + 1
      BY <2>2, <1>2
    <3>2. p[n] = m[n] /\ h[n + 1] = g[n + 1] /\ h[n] = g[n]
      BY <2>2, <3>1, <1>2, <1>4
    <3> QED
      BY <2>2, <3>2, <1>3
  <2> QED
    BY <2>1, <2>2, <1>2
<1>6. h \in [1 .. Len(p) + 1 -> Nat] /\ h[1] = r /\ h[Len(p) + 1] = v
  BY <1>2, <1>3, <1>4
<1>7. Topmost(p, r, v)
  <2>1. /\ u = r \/ \E n \in 1 .. l : m[n] = u
        /\ r <= u /\ \A n \in 1 .. l : m[n] <= u
    BY DEF Mail, Topmost, l
  <2>2. v = r \/ \E n \in 1 .. Len(p) : p[n] = v
    <3>1. CASE x <= 0
      BY <3>1, <2>1, <1>2
    <3>2. CASE x > 0
      <4>1. l + 1 \in 1 .. Len(p) /\ p[l + 1] = v
        BY <3>2, <1>2
      <4> QED
        BY <4>1
    <3> QED
      BY <3>1, <3>2
  <2>3. ASSUME NEW n \in 1 .. Len(p)
        PROVE  p[n] <= v
    <3>1. n = l + 1 \/ n \in 1 .. l
      BY <1>2
    <3> QED
      BY <3>1, <2>1, <1>2
  <2>4. r <= v
    BY <2>1
  <2> QED
    BY <2>2, <2>3, <2>4 DEF Topmost
<1> QED
  BY <1>5, <1>6, <1>7 DEF Mail, Follows, p

\* ... and is received.
LEMMA MailTail ==
  ASSUME NEW m \in Seq(Int), NEW r \in Nat, NEW u \in Nat, Mail(m, r, u), m # <<>>
  PROVE  /\ Head(m) > 0 => Head(m) = r + 1 /\ Mail(Tail(m), r + 1, u)
         /\ Head(m) = 0 => Mail(Tail(m), r, u)
<1>1. PICK g : Follows(m, r, u, g)
  BY DEF Mail
<1> DEFINE p == Tail(m)
           l == Len(m)
           s == IF Head(m) <= 0 THEN r ELSE r + 1
           h == [n \in 1 .. l |-> g[n + 1]]
<1>2. /\ l \in Nat /\ l >= 1 /\ Len(p) = l - 1 /\ Head(m) = m[1] /\ Head(m) \in Int
      /\ \A n \in 1 .. l - 1 : p[n] = m[n + 1]
  BY SequenceFacts
<1>3. /\ g \in [1 .. l + 1 -> Nat] /\ g[1] = r /\ g[l + 1] = u
      /\ \A n \in 1 .. l : IF m[n] <= 0 THEN g[n + 1] = g[n]
                                       ELSE m[n] = g[n] + 1 /\ g[n + 1] = g[n] + 1
  BY <1>1 DEF Follows
<1>4. /\ u = r \/ \E n \in 1 .. l : m[n] = u
      /\ r <= u /\ \A n \in 1 .. l : m[n] <= u
  BY DEF Mail, Topmost
<1> HIDE DEF p, l
<1>5. g[2] = s /\ (Head(m) > 0 => Head(m) = r + 1)
  <2>1. 1 \in 1 .. l /\ 1 + 1 = 2
    BY <1>2
  <2> QED
    BY <2>1, <1>2, <1>3
<1>6. s \in Nat
  BY DEF s
<1>7. h \in [1 .. l -> Nat] /\ \A n \in 1 .. l : h[n] = g[n + 1]
  BY <1>2, <1>3
<1> HIDE DEF h
<1>8. ASSUME NEW n \in 1 .. Len(p)
      PROVE  IF p[n] <= 0 THEN h[n + 1] = h[n] ELSE p[n] = h[n] + 1 /\ h[n + 1] = h[n] + 1
  <2>1. n \in 1 .. l /\ n + 1 \in 1 .. l /\ p[n] = m[n + 1]
    BY <1>2
  <2>2. h[n] = g[n + 1] /\ h[n + 1] = g[(n + 1) + 1]
    BY <2>1, <1>7
  <2> QED
    BY <2>1, <2>2, <1>3
<1>9. h \in [1 .. Len(p) + 1 -> Nat] /\ h[1] = s /\ h[Len(p) + 1] = u
  BY <1>2, <1>3, <1>5, <1>7
<1>10. Topmost(p, s, u)
  <2>1. ASSUME NEW n \in 1 .. l, m[n] = u, n # 1
        PROVE  \E k \in 1 .. Len(p) : p[k] = u
    <3>1. n - 1 \in 1 .. Len(p) /\ (n - 1) + 1 = n
      BY <2>1, <1>2
    <3>2. p[n - 1] = u
      BY <2>1, <3>1, <1>2
    <3> QED
      BY <3>1, <3>2
  <2>2. m[1] <= u /\ s <= u
    BY <1>2, <1>4, <1>5
  <2>3. u = s \/ \E k \in 1 .. Len(p) : p[k] = u
    BY <2>1, <2>2, <1>2, <1>4, <1>5
  <2>4. ASSUME NEW k \in 1 .. Len(p)
        PROVE  p[k] <= u
    <3>1. k + 1 \in 1 .. l /\ p[k] = m[k + 1]
      BY <1>2
    <3> QED
      BY <3>1, <1>4
  <2> QED
    BY <2>2, <2>3, <2>4 DEF Topmost
<1>11. Mail(p, s, u)
  BY <1>8, <1>9, <1>10 DEF Mail, Follows
<1> QED
  BY <1>5, <1>11 DEF p
-----------------------------------------------------------------------------
(* What a step on connection c does to ConnOK. *)

Fixed == UNCHANGED <<server, gProtocol>>
Same(d) == /\ client'[d] = client[d] /\ inbox'[d] = inbox[d] /\ received'[d] = received[d]
           /\ sent'[d] = sent[d] /\ pending'[d] = pending[d] /\ closing'[d] = closing[d]
           /\ socket'[d] = socket[d] /\ partial'[d] = partial[d]
Working(c) == TypeOK /\ TypeOK' /\ Fixed /\ AllConns /\ socket[c] = "open"

LEMMA ConnSame ==
  ASSUME NEW d \in Conns, Fixed, Same(d), ConnOK(d)
  PROVE  ConnOK(d)'
BY DEF Fixed, Same, ConnOK, Left, TooLong, Finished, Udp

LEMMA OneConn ==
  ASSUME NEW c \in Conns, Fixed, AllConns, ConnOK(c)', \A d \in Conns \ {c} : Same(d)
  PROVE  AllConns'
<1> SUFFICES ASSUME NEW d \in Conns PROVE ConnOK(d)'
  BY DEF AllConns
<1>1. CASE d = c
  BY <1>1
<1>2. CASE d # c
  BY <1>2, ConnSame DEF AllConns
<1> QED
  BY <1>1, <1>2

LEMMA NoConn ==
  ASSUME Fixed, AllConns, \A d \in Conns : Same(d)
  PROVE  AllConns'
BY ConnSame DEF AllConns

(* The types of what belongs to one connection. *)
LEMMA ConnTypes ==
  ASSUME TypeOK, NEW c \in Conns
  PROVE  /\ client[c] \in {"none", "open", "fin", "reset"}
         /\ socket[c] \in {"none", "open", "closed", "lost"}
         /\ inbox[c] \in Seq(Int) /\ received[c] \in Nat /\ sent[c] \in Seq(Nat)
         /\ pending[c] \in Seq(Seq(Nat)) /\ closing[c] \in 0 .. 1 /\ partial[c] \in 0 .. 1
         /\ Len(sent[c]) \in Nat /\ Len(inbox[c]) \in Nat /\ out[c] \in 0 .. Room
BY DEF TypeOK, ConnsTyped

LEMMA PeerConns ==
  ASSUME TypeOK, AllConns, NEW c \in Conns, Peers(c)
  PROVE  AllConns'
<1> USE ConnTypes
<1>1. ConnOK(c)
  BY DEF AllConns
<1>2. CASE Connect(c) \/ Shutdown(c) \/ Reset(c)
  <2>1. /\ Fixed /\ \A d \in Conns \ {c} : Same(d)
        /\ inbox'[c] = inbox[c] /\ received'[c] = received[c]
        /\ sent'[c] = sent[c] /\ pending'[c] = pending[c] /\ closing'[c] = closing[c]
        /\ socket'[c] = socket[c] /\ partial'[c] = partial[c]
        /\ client[c] # "reset" /\ client'[c] # client[c]
        /\ client[c] = "fin" => client'[c] = "reset"
    BY <1>2 DEF Connect, Shutdown, Reset, ServerVars, TypeOK, ConnsTyped, Same, Fixed
  <2>2. ConnOK(c)'
    <3>1. Finished(c) => Finished(c)'
      BY <2>1 DEF Finished, Udp, Fixed
    <3> QED
      BY <2>1, <3>1, <1>1 DEF ConnOK, Left, TooLong, Udp, Fixed
  <2> QED
    BY <2>1, <2>2, OneConn
<1>3. CASE ClientSends(c) \/ ClientSendsEmpty(c) \/ ClientSendsLong(c)
  <2>1. PICK u \in Nat : Mail(inbox[c], received[c], u)
    BY <1>1 DEF ConnOK
  <2>2. Units(c) = u
    BY <2>1, UnitsOf DEF Mail
  <2>3. /\ Fixed /\ \A d \in Conns \ {c} : Same(d)
        /\ client'[c] = client[c] /\ received'[c] = received[c]
        /\ sent'[c] = sent[c] /\ pending'[c] = pending[c] /\ closing'[c] = closing[c]
        /\ socket'[c] = socket[c] /\ partial'[c] = partial[c]
        /\ client[c] = "open"
    BY <1>3 DEF ClientSends, ClientSendsEmpty, ClientSendsLong, Reaches, ServerVars, TypeOK,
      ConnsTyped, Same, Fixed
  <2>4. PICK x \in {0, -1, u + 1} : inbox'[c] = Append(inbox[c], x) /\ (x <= 0 => Udp)
    BY <1>3, <2>2, SMTT(20) DEF ClientSends, ClientSendsEmpty, ClientSendsLong, TypeOK, ConnsTyped
  <2>5. \E v \in Nat : Mail(inbox'[c], received'[c], v)
    <3>1. inbox[c] \in Seq(Int) /\ received[c] \in Nat /\ u + 1 \in Nat
      OBVIOUS
    <3>2. Mail(Append(inbox[c], u + 1), received[c], u + 1)
          /\ Mail(Append(inbox[c], 0), received[c], u)
          /\ Mail(Append(inbox[c], -1), received[c], u)
      BY <2>1, <3>1, MailAppend
    <3> QED
      BY <2>3, <2>4, <3>1, <3>2
  <2>6. \A n \in 1 .. Len(inbox'[c]) : inbox'[c][n] <= 0 => Udp'
    <3>1. x \in Int
      BY <2>4
    <3>2. /\ Len(inbox'[c]) = Len(inbox[c]) + 1 /\ inbox'[c][Len(inbox[c]) + 1] = x
          /\ \A n \in 1 .. Len(inbox[c]) : inbox'[c][n] = inbox[c][n]
      BY <2>4, <3>1, SequenceFacts
    <3>3. Udp' = Udp /\ \A n \in 1 .. Len(inbox[c]) : inbox[c][n] <= 0 => Udp
      BY <1>1, <2>3 DEF ConnOK, Udp, Fixed
    <3>4. ASSUME NEW n \in 1 .. Len(inbox'[c]), inbox'[c][n] <= 0
          PROVE  Udp'
      <4>1. n = Len(inbox[c]) + 1 \/ n \in 1 .. Len(inbox[c])
        BY <3>2
      <4> QED
        BY <4>1, <3>2, <3>3, <3>4, <2>4
    <3> QED
      BY <3>4
  <2>7. Finished(c) => Finished(c)'
    BY <2>3 DEF Finished, Udp, Fixed
  <2>8. TooLong(c) => TooLong(c)'
    <3>1. x \in Int
      BY <2>4
    <3>2. TooLong(c) => Head(Append(inbox[c], x)) = -1 /\ Append(inbox[c], x) # <<>>
      BY <3>1 DEF TooLong
    <3> QED
      BY <2>4, <3>2 DEF TooLong
  <2>9. Left(c)' = Left(c)
    BY <2>3 DEF Left
  <2>10. ConnOK(c)'
    BY <2>3, <2>5, <2>6, <2>7, <2>8, <2>9, <1>1
    DEF ConnOK, Udp, Fixed
  <2> QED
    BY <2>3, <2>10, OneConn
<1>4. CASE ClientSendsUrgent(c) \/ ClientReads(c) \/ Notify(c)
  <2>1. Fixed /\ \A d \in Conns : Same(d)
    BY <1>4 DEF ClientSendsUrgent, ClientReads, Notify, ServerVars, peerVars, Same, Fixed
  <2> QED
    BY <2>1, NoConn
<1> QED
  BY <1>2, <1>3, <1>4 DEF Peers

(* ReceivePendingData. *)

LEMMA BytesOf ==
  ASSUME NEW r \in Nat
  PROVE  /\ Bytes(r + 1) \in Seq(Nat) /\ 2 * r \in Nat
         /\ 2 * r + Len(Bytes(r + 1)) = 2 * (r + 1)
         /\ \A k \in 1 .. Len(Bytes(r + 1)) : Bytes(r + 1)[k] = 2 * r + k
<1> DEFINE x == 2 * (r + 1) - 1
           y == 2 * (r + 1)
<1>1. x \in Nat /\ y \in Nat /\ x = 2 * r + 1 /\ y = 2 * r + 2
  OBVIOUS
<1>2. Bytes(r + 1) = <<x, y>>
  BY DEF Bytes
<1> HIDE DEF x, y
<1>3. \A k \in 1 .. 2 : k = 1 \/ k = 2
  OBVIOUS
<1>4. <<x, y>> \in Seq(Nat) /\ Len(<<x, y>>) = 2 /\ <<x, y>>[1] = x /\ <<x, y>>[2] = y
  BY <1>1
<1>5. \A k \in 1 .. 2 : <<x, y>>[k] = 2 * r + k
  BY <1>1, <1>3, <1>4
<1>6. 2 * r \in Nat /\ 2 * r + 2 = 2 * (r + 1)
  OBVIOUS
<1> QED
  BY <1>2, <1>4, <1>5, <1>6

LEMMA DataConns ==
  ASSUME NEW c \in Conns, Working(c), ReceivesData(c)
  PROVE  AllConns'
<1> USE ConnTypes DEF Working
<1>1. ConnOK(c)
  BY DEF AllConns
<1>2. /\ \A d \in Conns \ {c} : Same(d)
      /\ client'[c] = client[c] /\ sent'[c] = sent[c] /\ closing'[c] = closing[c]
      /\ socket'[c] = socket[c] /\ partial'[c] = partial[c]
      /\ client[c] # "reset" /\ inbox[c] # <<>> /\ Head(inbox[c]) > 0
      /\ inbox'[c] = Tail(inbox[c]) /\ received'[c] = received[c] + 1
      /\ pending'[c] = Append(pending[c], Bytes(Head(inbox[c])))
  BY DEF ReceivesData, Received, Enqueue, TypeOK, ConnsTyped, Same
<1>3. PICK u \in Nat : Mail(inbox[c], received[c], u)
  BY <1>1 DEF ConnOK
<1>4. Head(inbox[c]) = received[c] + 1 /\ Mail(inbox'[c], received'[c], u)
  BY <1>2, <1>3, MailTail
<1>5. \A n \in 1 .. Len(inbox'[c]) : inbox'[c][n] <= 0 => Udp'
  <2>1. /\ \A n \in 1 .. Len(inbox[c]) : inbox[c][n] <= 0 => Udp
        /\ Udp' = Udp
    BY <1>1 DEF ConnOK, Udp, Fixed
  <2>2. /\ Len(inbox'[c]) = Len(inbox[c]) - 1
        /\ \A n \in 1 .. Len(inbox[c]) - 1 : inbox'[c][n] = inbox[c][n + 1]
    BY <1>2, SequenceFacts
  <2>3. \A n \in 1 .. Len(inbox[c]) - 1 : n + 1 \in 1 .. Len(inbox[c])
    OBVIOUS
  <2> QED
    BY <2>1, <2>2, <2>3
<1>6. Queued(pending'[c], Len(sent'[c]), 2 * received'[c], partial'[c] = 0)
  <2> DEFINE buf == Bytes(Head(inbox[c]))
             b == 2 * received[c]
  <2>1. received[c] \in Nat
    OBVIOUS
  <2>2. /\ buf \in Seq(Nat) /\ b \in Nat /\ b + Len(buf) = 2 * (received[c] + 1)
        /\ \A k \in 1 .. Len(buf) : buf[k] = b + k
    BY <2>1, <1>4, BytesOf
  <2>3. Queued(pending[c], Len(sent[c]), b, partial[c] = 0)
    BY <1>1 DEF ConnOK
  <2> HIDE DEF buf, b
  <2>4. Queued(Append(pending[c], buf), Len(sent[c]), b + Len(buf), partial[c] = 0)
    BY <2>2, <2>3, QueuedAppend
  <2>5. b + Len(buf) = 2 * received'[c]
    BY <1>2, <2>2
  <2> QED
    BY <1>2, <2>4, <2>5 DEF buf
<1>7. closing'[c] = 1 => Finished(c)'
  BY <1>1, <1>2 DEF ConnOK, Finished, Udp, Fixed
<1>8. ConnOK(c)'
  BY <1>1, <1>2, <1>4, <1>5, <1>6, <1>7 DEF ConnOK, Left
<1> QED
  BY <1>2, <1>8, OneConn

LEMMA EmptyConns ==
  ASSUME NEW c \in Conns, Working(c), ReceivesEmpty(c)
  PROVE  AllConns'
<1> USE ConnTypes DEF Working
<1>1. ConnOK(c)
  BY DEF AllConns
<1>2. /\ \A d \in Conns \ {c} : Same(d)
      /\ client'[c] = client[c] /\ sent'[c] = sent[c] /\ closing'[c] = 1
      /\ socket'[c] = socket[c] /\ partial'[c] = partial[c]
      /\ inbox[c] # <<>> /\ Head(inbox[c]) = 0
      /\ inbox'[c] = Tail(inbox[c]) /\ received'[c] = received[c]
      /\ pending'[c] = Append(pending[c], <<>>)
  BY DEF ReceivesEmpty, Received, Enqueue, TypeOK, ConnsTyped, Same
<1>3. PICK u \in Nat : Mail(inbox[c], received[c], u)
  BY <1>1 DEF ConnOK
<1>4. Mail(inbox'[c], received'[c], u)
  BY <1>2, <1>3, MailTail
<1>5. Udp'
  <2>1. Len(inbox[c]) \in Nat /\ Len(inbox[c]) >= 1 /\ inbox[c][1] <= 0
    BY <1>2, SequenceFacts
  <2>2. 1 \in 1 .. Len(inbox[c])
    BY <2>1
  <2> QED
    BY <1>1, <2>1, <2>2 DEF ConnOK, Udp, Fixed
<1>6. Queued(pending'[c], Len(sent'[c]), 2 * received'[c], partial'[c] = 0)
  <2>1. Queued(pending[c], Len(sent[c]), 2 * received[c], partial[c] = 0)
    BY <1>1 DEF ConnOK
  <2> DEFINE none == <<>>
             b == 2 * received[c]
  <2>2. none \in Seq(Nat) /\ Len(none) = 0 /\ b \in Nat /\ b + 0 = b
    OBVIOUS
  <2>3. \A k \in 1 .. Len(none) : none[k] = b + k
    BY <2>2
  <2> HIDE DEF none, b
  <2>4. Queued(Append(pending[c], none), Len(sent[c]), b + Len(none), partial[c] = 0)
    BY <2>1, <2>2, <2>3, QueuedAppend DEF b
  <2> QED
    BY <1>2, <2>2, <2>4 DEF none, b
<1>7. Finished(c)'
  BY <1>5 DEF Finished
<1>8. ConnOK(c)'
  BY <1>1, <1>2, <1>4, <1>5, <1>6, <1>7 DEF ConnOK, Left
<1> QED
  BY <1>2, <1>8, OneConn

\* The end of the input, an error, or nothing yet.
LEMMA EndConns ==
  ASSUME NEW c \in Conns, Working(c),
         LateEnd(c) \/ LastEnd(c) \/ ReceivesNothing(c) \/ ReceiveFails(c)
  PROVE  AllConns'
<1> USE ConnTypes DEF Working
<1>1. ConnOK(c)
  BY DEF AllConns
<1>2. /\ \A d \in Conns \ {c} : Same(d)
      /\ client'[c] = client[c] /\ sent'[c] = sent[c] /\ inbox'[c] = inbox[c]
      /\ received'[c] = received[c] /\ partial'[c] = partial[c] /\ pending'[c] = pending[c]
  BY DEF ReceivesEnd, LateEnd, LastEnd, ReceivesNothing, ReceiveFails, Received, TypeOK, ConnsTyped, Same
<1>3. /\ closing'[c] = closing[c] \/ (client[c] = "fin" /\ inbox[c] = <<>>)
      /\ \/ socket'[c] = "open"
         \/ socket'[c] = "closed" /\ client[c] = "reset"
         \/ socket'[c] = "closed" /\ TooLong(c)
         \/ socket'[c] = "closed" /\ client[c] = "fin" /\ inbox[c] = <<>> /\ pending[c] = <<>>
  BY DEF ReceivesEnd, LateEnd, LastEnd, ReceivesNothing, ReceiveFails, Received, TypeOK, ConnsTyped
<1>4. Finished(c)' = Finished(c) /\ TooLong(c)' = TooLong(c)
  BY <1>2 DEF Finished, TooLong, Udp, Fixed
<1>5. TooLong(c) => Finished(c)
  <2>1. TooLong(c) => Len(inbox[c]) >= 1 /\ inbox[c][1] = -1
    BY SequenceFacts DEF TooLong
  <2> QED
    BY <1>1, <2>1 DEF ConnOK, Finished
<1>6. ConnOK(c)'
  <2>1. client[c] = "fin" /\ inbox[c] = <<>> => Finished(c)
    BY DEF Finished
  <2>2. closing'[c] = 1 => Finished(c)'
    BY <1>1, <1>3, <1>4, <2>1 DEF ConnOK
  <2>3. Left(c)' => Finished(c)' /\ (pending'[c] = <<>> \/ TooLong(c)')
    BY <1>2, <1>3, <1>4, <1>5, <2>1 DEF Left
  <2>4. \A n \in 1 .. Len(inbox'[c]) : inbox'[c][n] <= 0 => Udp'
    BY <1>1, <1>2 DEF ConnOK, Udp, Fixed
  <2>5. Queued(pending'[c], Len(sent'[c]), 2 * received'[c], partial'[c] = 0)
    BY <1>1, <1>2 DEF ConnOK
  <2> QED
    BY <1>1, <1>2, <1>3, <2>2, <2>3, <2>4, <2>5 DEF ConnOK
<1> QED
  BY <1>2, <1>6, OneConn

(* SendPendingData. *)

LEMMA SentOn ==
  ASSUME NEW s \in Seq(Nat), NEW p \in Seq(Nat)
  PROVE  /\ Len(s \o p) = Len(s) + Len(p)
         /\ (\A k \in 1 .. Len(s) : s[k] = k) /\ (\A k \in 1 .. Len(p) : p[k] = Len(s) + k)
              => \A k \in 1 .. Len(s \o p) : (s \o p)[k] = k
<1>1. /\ Len(s \o p) = Len(s) + Len(p) /\ Len(s) \in Nat /\ Len(p) \in Nat
      /\ \A k \in 1 .. Len(s) : (s \o p)[k] = s[k]
      /\ \A k \in 1 .. Len(p) : (s \o p)[Len(s) + k] = p[k]
  OBVIOUS
<1>2. ASSUME \A k \in 1 .. Len(s) : s[k] = k, \A k \in 1 .. Len(p) : p[k] = Len(s) + k,
             NEW k \in 1 .. Len(s \o p)
      PROVE  (s \o p)[k] = k
  <2>1. CASE k \in 1 .. Len(s)
    BY <2>1, <1>1, <1>2
  <2>2. CASE k \notin 1 .. Len(s)
    <3>1. k - Len(s) \in 1 .. Len(p) /\ Len(s) + (k - Len(s)) = k
      BY <2>2, <1>1
    <3> QED
      BY <3>1, <1>1, <1>2
  <2> QED
    BY <2>1, <2>2
<1> QED
  BY <1>1, <1>2

LEMMA SendAllConns ==
  ASSUME NEW c \in Conns, Working(c), SendsAll(c)
  PROVE  AllConns'
<1>0. /\ pending[c] \in Seq(Seq(Nat)) /\ sent[c] \in Seq(Nat) /\ Len(sent[c]) \in Nat
      /\ received[c] \in Nat /\ socket[c] = "open"
  BY ConnTypes DEF Working
<1>1. ConnOK(c)
  BY DEF Working, AllConns
<1>2. /\ \A d \in Conns \ {c} : Same(d)
      /\ client'[c] = client[c] /\ inbox'[c] = inbox[c] /\ closing'[c] = closing[c]
      /\ socket'[c] = socket[c] /\ partial'[c] = partial[c] /\ received'[c] = received[c]
      /\ pending[c] # <<>> /\ pending'[c] = Tail(pending[c])
      /\ sent'[c] = sent[c] \o SubSeq(Head(pending[c]), 1, Len(Head(pending[c])))
  BY DEF SendsAll, Sends, peerVars, Working, TypeOK, ConnsTyped, Same
<1> DEFINE buf == Head(pending[c])
           s == sent[c]
<1>3. buf \in Seq(Nat) /\ Len(buf) \in Nat /\ SubSeq(buf, 1, Len(buf)) = buf
  BY <1>0, <1>2, SequenceFacts
<1>4. Queued(pending[c], Len(s), 2 * received[c], partial[c] = 0)
  BY <1>0, <1>1 DEF ConnOK
<1>5. /\ Queued(Tail(pending[c]), Len(s) + Len(buf), 2 * received[c], partial[c] = 0)
      /\ partial[c] = 0 => \A k \in 1 .. Len(buf) : buf[k] = Len(s) + k
  <2>1. 2 * received[c] \in Nat
    BY <1>0
  <2> QED
    BY <1>0, <1>2, <1>4, <2>1, QueuedTail
<1> HIDE DEF buf
<1>6. sent'[c] = s \o buf /\ s \in Seq(Nat)
  BY <1>0, <1>2, <1>3 DEF buf
<1>7. /\ Len(sent'[c]) = Len(s) + Len(buf)
      /\ partial'[c] = 0 => \A k \in 1 .. Len(sent'[c]) : sent'[c][k] = k
  <2>1. partial[c] = 0 => \A k \in 1 .. Len(s) : s[k] = k
    BY <1>1 DEF ConnOK
  <2>2. Len(s \o buf) = Len(s) + Len(buf)
        /\ (partial[c] = 0 => \A k \in 1 .. Len(s \o buf) : (s \o buf)[k] = k)
    BY <2>1, <1>3, <1>5, <1>6, SentOn
  <2> QED
    BY <2>2, <1>2, <1>6
<1>8. Finished(c)' = Finished(c) /\ Udp' = Udp
  BY <1>2 DEF Working, Finished, Udp, Fixed
<1>9. ConnOK(c)'
  <2>1. Queued(pending'[c], Len(sent'[c]), 2 * received'[c], partial'[c] = 0)
    BY <1>2, <1>5, <1>7
  <2> QED
    BY <1>0, <1>1, <1>2, <1>7, <1>8, <2>1 DEF ConnOK, Left
<1> QED
  BY <1>2, <1>9, OneConn DEF Working

\* A part is sent: what stays is the rest of the buffer (nbserver.cpp, where
\* the blocking send goes on), or is not the rest and the history says so.
LEMMA SendPartConns ==
  ASSUME NEW c \in Conns, Working(c), NEW left, SendsSome(c, left),
         \/ left = OtherBytes(c) /\ partial' = partial
         \/ left = FirstBytes(c) /\ partial' = Set(partial, c, 1)
  PROVE  AllConns'
<1>0. /\ pending[c] \in Seq(Seq(Nat)) /\ sent[c] \in Seq(Nat) /\ Len(sent[c]) \in Nat
      /\ received[c] \in Nat /\ Space(c) \in Int /\ partial[c] \in 0 .. 1
      /\ socket[c] = "open"
  BY ConnTypes, ConstAssumption DEF Working, Space
<1>1. ConnOK(c)
  BY DEF Working, AllConns
<1>2. /\ \A d \in Conns \ {c} : Same(d)
      /\ client'[c] = client[c] /\ inbox'[c] = inbox[c] /\ closing'[c] = closing[c]
      /\ socket'[c] = socket[c] /\ received'[c] = received[c]
      /\ pending[c] # <<>> /\ pending'[c] = <<left>> \o Tail(pending[c])
      /\ sent'[c] = sent[c] \o SubSeq(Head(pending[c]), 1, Space(c))
      /\ Space(c) > 0 /\ Space(c) < Len(Head(pending[c]))
  <2>1. pending[c] # <<>> /\ ~Fits(c) /\ Space(c) > 0
    BY DEF SendsSome
  <2>2. Len(Head(pending[c])) \in Nat
    BY <2>1, <1>0, SequenceFacts
  <2>3. Space(c) < Len(Head(pending[c]))
    BY <2>1, <2>2, <1>0 DEF Fits
  <2>4. \A d \in Conns \ {c} : Same(d)
    BY DEF SendsSome, Sends, peerVars, Working, TypeOK, ConnsTyped, Same
  <2>5. /\ client'[c] = client[c] /\ inbox'[c] = inbox[c] /\ closing'[c] = closing[c]
        /\ socket'[c] = socket[c] /\ received'[c] = received[c]
        /\ pending'[c] = <<left>> \o Tail(pending[c])
        /\ sent'[c] = sent[c] \o SubSeq(Head(pending[c]), 1, Space(c))
    BY DEF SendsSome, Sends, peerVars, Working, TypeOK, ConnsTyped
  <2> QED
    BY <2>1, <2>3, <2>4, <2>5
<1> DEFINE buf == Head(pending[c])
           s == sent[c]
           part == Space(c)
           p == SubSeq(buf, 1, part)
<1>3. buf \in Seq(Nat) /\ Len(buf) \in Nat /\ part \in 1 .. Len(buf) /\ s \in Seq(Nat)
  <2>1. Len(buf) \in Nat /\ buf \in Seq(Nat)
    BY <1>0, <1>2, SequenceFacts
  <2> QED
    BY <2>1, <1>0, <1>2
<1>4. /\ p \in Seq(Nat) /\ Len(p) = part
      /\ \A k \in 1 .. part : p[k] = buf[k]
  <2> HIDE DEF buf, part
  <2> QED
    BY <1>3
<1>5. /\ left \in Seq(Nat) /\ Len(left) = Len(buf) - part
      /\ partial'[c] = 0 => /\ partial[c] = 0
                            /\ \A k \in 1 .. Len(left) : left[k] = buf[part + k]
  <2>1. \/ left = SubSeq(buf, part + 1, Len(buf)) /\ partial'[c] = partial[c]
        \/ left = SubSeq(buf, 1, Len(buf) - part) /\ partial'[c] # 0
    <3>1. partial \in [Conns -> 0 .. 1]
      BY DEF Working, TypeOK, ConnsTyped
    <3>2. CASE left = OtherBytes(c) /\ partial' = partial
      <4>1. partial'[c] = partial[c]
        BY <3>2
      <4>2. left = SubSeq(buf, part + 1, Len(buf))
        BY <3>2, Zenon DEF OtherBytes
      <4> QED
        BY <4>1, <4>2
    <3>3. CASE left = FirstBytes(c) /\ partial' = Set(partial, c, 1)
      <4>1. partial'[c] = 1
        BY <3>1, <3>3
      <4> QED
        BY <3>3, <4>1 DEF FirstBytes
    <3> QED
      BY <3>2, <3>3
  <2> HIDE DEF buf, part
  <2>2. CASE left = SubSeq(buf, part + 1, Len(buf)) /\ partial'[c] = partial[c]
    <3>1. /\ SubSeq(buf, part + 1, Len(buf)) \in Seq(Nat)
          /\ Len(SubSeq(buf, part + 1, Len(buf))) = Len(buf) - part
          /\ \A k \in 1 .. Len(buf) - part : SubSeq(buf, part + 1, Len(buf))[k] = buf[part + k]
      BY <1>3
    <3> QED
      BY <2>2, <3>1
  <2>3. CASE left = SubSeq(buf, 1, Len(buf) - part) /\ partial'[c] # 0
    BY <2>3, <1>3
  <2> QED
    BY <2>1, <2>2, <2>3
<1>6. Queued(pending[c], Len(s), 2 * received[c], partial[c] = 0)
  BY <1>0, <1>1 DEF ConnOK
<1>7. 2 * received[c] \in Nat /\ Len(s) \in Nat
  BY <1>0
<1>8. partial[c] = 0 => \A k \in 1 .. Len(buf) : buf[k] = Len(s) + k
  BY <1>0, <1>2, <1>6, <1>7, QueuedTail
<1>9. Queued(pending'[c], Len(s) + part, 2 * received[c], partial'[c] = 0)
  <2>1. part \in 0 .. Len(buf)
    BY <1>3
  <2>2. Queued(<<left>> \o Tail(pending[c]), Len(s) + part, 2 * received[c], partial'[c] = 0)
    <3> HIDE DEF part, s
    <3> QED
      BY <2>1, <1>0, <1>2, <1>5, <1>6, <1>7, QueuedPart
  <2> QED
    BY <2>2, <1>2
<1>10. sent'[c] = s \o p
  BY <1>2
<1> HIDE DEF buf, part, p
<1>11. /\ Len(sent'[c]) = Len(s) + part
       /\ partial'[c] = 0 => \A k \in 1 .. Len(sent'[c]) : sent'[c][k] = k
  <2>1. partial[c] = 0 => \A k \in 1 .. Len(s) : s[k] = k
    BY <1>1 DEF ConnOK
  <2>2. partial[c] = 0 => \A k \in 1 .. Len(p) : p[k] = Len(s) + k
    <3>1. \A k \in 1 .. part : k \in 1 .. Len(buf)
      BY <1>3
    <3> QED
      BY <3>1, <1>4, <1>8
  <2>3. Len(s \o p) = Len(s) + part
        /\ (partial[c] = 0 => \A k \in 1 .. Len(s \o p) : (s \o p)[k] = k)
    BY <2>1, <2>2, <1>3, <1>4, SentOn
  <2> QED
    BY <2>3, <1>5, <1>10
<1>12. Finished(c)' = Finished(c) /\ Udp' = Udp
  BY <1>2 DEF Working, Finished, Udp, Fixed
<1>13. ConnOK(c)'
  <2>1. Queued(pending'[c], Len(sent'[c]), 2 * received'[c], partial'[c] = 0)
    BY <1>2, <1>9, <1>11
  <2> QED
    BY <1>0, <1>1, <1>2, <1>11, <1>12, <2>1 DEF ConnOK, Left
<1> QED
  BY <1>2, <1>13, OneConn DEF Working

\* The send would block, fails, or there is nothing left to send.
LEMMA IdleConns ==
  ASSUME NEW c \in Conns, Working(c),
         WouldBlock(c) \/ (SentAll(c) /\ socket' = socket)
  PROVE  AllConns'
<1>1. \A d \in Conns : Same(d)
  BY DEF WouldBlock, SentAll, AtHead, Unsent, peerVars, Same
<1> QED
  BY <1>1, NoConn DEF Working

LEMMA SendFailsConns ==
  ASSUME NEW c \in Conns, Working(c), SendFails(c),
         NEW state \in {"closed", "lost"}, socket' = Set(socket, c, state)
  PROVE  AllConns'
<1> USE ConnTypes DEF Working
<1>1. ConnOK(c)
  BY DEF AllConns
<1>2. /\ \A d \in Conns \ {c} : Same(d)
      /\ client'[c] = "reset" /\ inbox'[c] = inbox[c] /\ closing'[c] = closing[c]
      /\ socket'[c] = state /\ received'[c] = received[c] /\ client[c] = "reset"
      /\ sent'[c] = sent[c] /\ partial'[c] = partial[c]
  BY DEF SendFails, peerVars, TypeOK, ConnsTyped, Same
<1>3. Finished(c)' = Finished(c) /\ Udp' = Udp
  BY <1>2 DEF Finished, Udp, Fixed
<1>4. ConnOK(c)'
  BY <1>1, <1>2, <1>3 DEF ConnOK, Left
<1> QED
  BY <1>2, <1>4, OneConn

LEMMA SentLastConns ==
  ASSUME NEW c \in Conns, Working(c), SentLast(c)
  PROVE  AllConns'
<1> USE ConnTypes DEF Working
<1>1. ConnOK(c)
  BY DEF AllConns
<1>2. /\ \A d \in Conns \ {c} : Same(d)
      /\ client'[c] = client[c] /\ inbox'[c] = inbox[c] /\ closing'[c] = closing[c]
      /\ socket'[c] = "closed" /\ received'[c] = received[c]
      /\ sent'[c] = sent[c] /\ partial'[c] = partial[c] /\ pending[c] = <<>> /\ closing[c] = 1
      /\ pending'[c] = pending[c]
  BY DEF SentLast, Closes, Unsent, peerVars, TypeOK, ConnsTyped, Same
<1>3. Finished(c)' = Finished(c) /\ Udp' = Udp
  BY <1>2 DEF Finished, Udp, Fixed
<1>4. ConnOK(c)'
  BY <1>1, <1>2, <1>3 DEF ConnOK, Left
<1> QED
  BY <1>2, <1>4, OneConn

\* A socket opens for a client that waits, or is closed or lost at its abort.
LEMMA SocketConns ==
  ASSUME TypeOK, AllConns, Fixed, NEW c \in Conns,
         UNCHANGED <<client, inbox, received, sent, pending, partial>>,
         NEW state, socket' = Set(socket, c, state),
         \/ state = "open" /\ socket[c] = "none" /\ closing' = closing
         \/ state = "closed" /\ client[c] = "reset" /\ closing' = closing
         \/ state = "lost" /\ closing' = closing
  PROVE  AllConns'
<1> USE ConnTypes
<1>1. ConnOK(c)
  BY DEF AllConns
<1>2. /\ \A d \in Conns \ {c} : Same(d)
      /\ socket'[c] = state
  BY DEF TypeOK, ConnsTyped, Same
<1>3. Finished(c)' = Finished(c) /\ Udp' = Udp
  BY DEF Finished, Udp, Fixed
<1>4. CASE state = "open" /\ socket[c] = "none"
  <2>1. received[c] = 0 /\ sent[c] = <<>> /\ pending[c] = <<>>
    BY <1>1, <1>4 DEF ConnOK
  <2>2. Queued(<<>>, 0, 0, partial[c] = 0)
    BY QueuedNone
  <2>3. Len(sent[c]) = 0 /\ 2 * received[c] = 0
    BY <2>1
  <2>4. Queued(pending[c], Len(sent[c]), 2 * received[c], partial[c] = 0)
    BY <2>1, <2>2, <2>3
  <2>5. ConnOK(c)'
    BY <1>1, <1>2, <1>3, <1>4, <2>4 DEF ConnOK, Left
  <2> QED
    BY <1>2, <2>5, OneConn
<1>5. CASE (state = "closed" /\ client[c] = "reset") \/ state = "lost"
  <2>1. ConnOK(c)'
    BY <1>1, <1>2, <1>3, <1>5 DEF ConnOK, Left
  <2> QED
    BY <1>2, <2>1, OneConn
<1> QED
  BY <1>4, <1>5
-----------------------------------------------------------------------------
(* The types of one connection's steps. *)

LEMMA PeerTyped ==
  ASSUME TypeOK, AllConns, NEW c \in Conns, Peers(c)
  PROVE  TypeOK' /\ Fixed
<1> USE DEF TypeOK, ConnsTyped, Fixed
<1>0. Room \in Nat
  BY ConstAssumption
<1>1. ASSUME UNCHANGED ServerVars, msgs' = msgs
      PROVE  /\ Fixed /\ LoopsTyped'
             /\ UNCHANGED <<socket, received, sent, pending, closing, partial>>
  BY <1>1 DEF ServerVars, LoopsTyped, threadVars, setVars
<1>2. CASE Connect(c)
  BY <1>1, <1>2 DEF Connect, eventVars
<1>3. CASE Shutdown(c)
  BY <1>1, <1>3 DEF Shutdown, eventVars
<1>4. CASE Reset(c)
  BY <1>0, <1>1, <1>4 DEF Reset, eventVars
<1>5. CASE ClientSends(c)
  <2>1. Units(c) + 1 \in Nat
    BY UnitsOf DEF AllConns, ConnOK, Mail
  <2>2. Append(inbox[c], Units(c) + 1) \in Seq(Int)
    BY <2>1
  <2> QED
    BY <1>1, <1>5, <2>2 DEF ClientSends, eventVars
<1>6. CASE ClientSendsEmpty(c) \/ ClientSendsLong(c)
  <2>1. Append(inbox[c], 0) \in Seq(Int) /\ Append(inbox[c], -1) \in Seq(Int)
    OBVIOUS
  <2> QED
    BY <1>1, <1>6, <2>1 DEF ClientSendsEmpty, ClientSendsLong, eventVars
<1>7. CASE ClientSendsUrgent(c)
  BY <1>1, <1>7 DEF ClientSendsUrgent, eventVars
<1>8. CASE ClientReads(c)
  <2>1. out[c] - 1 \in 0 .. Room
    BY <1>0, <1>8 DEF ClientReads
  <2> QED
    BY <1>1, <1>8, <2>1 DEF ClientReads, peerVars, eventVars
<1>9. CASE Notify(c)
  <2>1. PICK ev \in armed[c] :
          /\ armed' = [armed EXCEPT ![c] = armed[c] \ {ev}]
          /\ IF server = "async"
             THEN msgs' = Append(msgs, <<c, Kind(c, ev)>>) /\ UNCHANGED net
             ELSE net' = [net EXCEPT ![c] = net[c] \cup {Kind(c, ev)}] /\ UNCHANGED msgs
    BY <1>9 DEF Notify
  <2>2. Kind(c, ev) \in Kinds
    BY DEF Kind, Kinds, All
  <2> HIDE DEF All, Kinds
  <2>3. armed' \in [Conns -> SUBSET All]
    BY <2>1
  <2>4. net' \in [Conns -> SUBSET Kinds]
    <3>1. net \in [Conns -> SUBSET Kinds] /\ net[c] \cup {Kind(c, ev)} \in SUBSET Kinds
      BY <2>2
    <3>2. net' = net \/ net' = [net EXCEPT ![c] = net[c] \cup {Kind(c, ev)}]
      BY <2>1
    <3> QED
      BY <3>1, <3>2
  <2>5. <<c, Kind(c, ev)>> \in Conns \X Kinds
    BY <2>2
  <2>6. msgs' \in Seq(Conns \X Kinds)
    <3>1. msgs' = msgs \/ msgs' = Append(msgs, <<c, Kind(c, ev)>>)
      BY <2>1
    <3>2. msgs \in Seq(Conns \X Kinds)
      BY DEF LoopsTyped
    <3> DEFINE K == Conns \X Kinds
               m == <<c, Kind(c, ev)>>
    <3> HIDE DEF K, m
    <3>3. Append(msgs, m) \in Seq(K)
      BY <3>2, <2>5, SequenceFacts DEF K, m
    <3> QED
      BY <3>1, <3>2, <3>3 DEF K, m
  <2>7. Fixed /\ LoopsTyped' /\ UNCHANGED <<socket, received, sent, pending, closing, partial>>
    BY <1>9, <2>6 DEF Notify, ServerVars, LoopsTyped, threadVars, setVars
  <2> QED
    BY <1>9, <2>3, <2>4, <2>7 DEF Notify, peerVars
<1> QED
  BY <1>2, <1>3, <1>4, <1>5, <1>6, <1>7, <1>8, <1>9 DEF Peers

Receives(c) == \/ ReceivesData(c) \/ ReceivesEmpty(c)
               \/ LateEnd(c) \/ LastEnd(c) \/ ReceivesNothing(c) \/ ReceiveFails(c)

LEMMA ReceiveTyped ==
  ASSUME ConnsTyped, Fixed, NEW c \in Conns, Receives(c)
  PROVE  ConnsTyped'
<1> USE DEF ConnsTyped, Fixed, All
<1>1. CASE ReceivesData(c) \/ ReceivesEmpty(c)
  <2>1. inbox[c] # <<>> /\ Head(inbox[c]) \in Int /\ Tail(inbox[c]) \in Seq(Int)
    <3>1. inbox[c] # <<>> /\ inbox[c] \in Seq(Int)
      BY <1>1 DEF ReceivesData, ReceivesEmpty
    <3> QED
      BY <3>1
  <2>2. ReceivesData(c) => Bytes(Head(inbox[c])) \in Seq(Nat)
    <3>1. ASSUME NEW u \in Nat, u > 0
          PROVE  Bytes(u) \in Seq(Nat)
      <4>1. 2 * u - 1 \in Nat /\ 2 * u \in Nat
        BY <3>1
      <4> QED
        BY <4>1 DEF Bytes
    <3> QED
      BY <3>1, <2>1 DEF ReceivesData
  <2>3. pending' \in [Conns -> Seq(Seq(Nat))]
    <3>1. <<>> \in Seq(Nat)
      OBVIOUS
    <3>2. PICK buf \in Seq(Nat) : pending' = [pending EXCEPT ![c] = Append(pending[c], buf)]
      BY <1>1, <2>2, <3>1 DEF ReceivesData, ReceivesEmpty, Enqueue
    <3>3. Append(pending[c], buf) \in Seq(Seq(Nat))
      OBVIOUS
    <3> QED
      BY <3>2, <3>3
  <2>4. CASE ReceivesData(c)
    BY <2>1, <2>3, <2>4, SMTT(20) DEF ReceivesData, Received
  <2>5. CASE ReceivesEmpty(c)
    BY <2>1, <2>3, <2>5 DEF ReceivesEmpty, Received
  <2> QED
    BY <1>1, <2>4, <2>5
<1>2. CASE LateEnd(c)
  BY <1>2 DEF LateEnd, ReceivesEnd, Received
<1>3. CASE LastEnd(c)
  BY <1>3 DEF LastEnd, ReceivesEnd, Received
<1>4. CASE ReceivesNothing(c)
  BY <1>4 DEF ReceivesNothing, Received
<1>5. CASE ReceiveFails(c)
  BY <1>5 DEF ReceiveFails, Received
<1> QED
  BY <1>1, <1>2, <1>3, <1>4, <1>5 DEF Receives

SendsPart(c) == SendsSome(c, OtherBytes(c)) \/ SendsSome(c, FirstBytes(c))

LEMMA SendTyped ==
  ASSUME ConnsTyped, Fixed, NEW c \in Conns,
         \/ SendsAll(c) \/ SendsPart(c) \/ WouldBlock(c) \/ SentAll(c) \/ SentLast(c)
         \/ SendFails(c),
         socket' \in [Conns -> {"none", "open", "closed", "lost"}],
         partial' \in [Conns -> 0 .. 1]
  PROVE  ConnsTyped'
<1> USE DEF ConnsTyped, Fixed, All
<1>1. CASE SendsAll(c) \/ SendsPart(c)
  <2>1. pending[c] # <<>> /\ pending[c] \in Seq(Seq(Nat)) /\ out[c] \in 0 .. Room /\ Room \in Nat
    BY <1>1, ConstAssumption DEF SendsAll, SendsPart, SendsSome
  <2> DEFINE buf == Head(pending[c])
  <2>2. buf \in Seq(Nat) /\ Len(buf) \in Nat /\ Tail(pending[c]) \in Seq(Seq(Nat))
    BY <2>1, SequenceFacts
  <2> HIDE DEF buf
  <2>3. PICK n \in 0 .. Len(buf) : /\ sent' = [sent EXCEPT ![c] = sent[c] \o SubSeq(buf, 1, n)]
                                   /\ out' = [out EXCEPT ![c] = out[c] + n]
                                   /\ n <= Room - out[c]
    <3>1. CASE SendsAll(c)
      <4>1. /\ sent' = [sent EXCEPT ![c] = sent[c] \o SubSeq(buf, 1, Len(buf))]
            /\ out' = [out EXCEPT ![c] = out[c] + Len(buf)]
            /\ Len(buf) <= Room - out[c]
        BY <2>1, <2>2, <3>1 DEF SendsAll, Sends, Fits, Space, buf
      <4>2. Len(buf) \in 0 .. Len(buf)
        BY <2>2
      <4> QED
        BY <4>1, <4>2
    <3>2. CASE SendsPart(c)
      <4>1. ~Fits(c) /\ Space(c) > 0 /\ Sends(c, Space(c)) /\ Space(c) = Room - out[c]
        BY <3>2 DEF SendsPart, SendsSome, Space
      <4>2. Space(c) \in 0 .. Len(buf)
        BY <2>1, <2>2, <4>1 DEF Fits, buf
      <4>3. /\ sent' = [sent EXCEPT ![c] = sent[c] \o SubSeq(buf, 1, Space(c))]
            /\ out' = [out EXCEPT ![c] = out[c] + Space(c)]
            /\ Space(c) <= Room - out[c]
        BY <2>1, <4>1 DEF Sends, buf
      <4> QED
        BY <4>2, <4>3
    <3> QED
      BY <1>1, <3>1, <3>2
  <2>4. sent' \in [Conns -> Seq(Nat)] /\ out' \in [Conns -> 0 .. Room]
    <3>1. SubSeq(buf, 1, n) \in Seq(Nat) /\ out[c] + n \in 0 .. Room
      BY <2>1, <2>2, <2>3, SMTT(20)
    <3>2. sent[c] \o SubSeq(buf, 1, n) \in Seq(Nat)
      BY <3>1
    <3> QED
      BY <2>3, <3>1, <3>2
  <2>5. pending' \in [Conns -> Seq(Seq(Nat))]
    <3>1. CASE SendsAll(c)
      BY <2>2, <3>1 DEF SendsAll
    <3>2. ASSUME NEW left, left \in {OtherBytes(c), FirstBytes(c)}, SendsSome(c, left)
          PROVE  pending' \in [Conns -> Seq(Seq(Nat))]
      <4>1. Space(c) \in Int /\ Space(c) > 0 /\ ~Fits(c)
        BY <2>1, <3>2 DEF SendsSome, Space
      <4>2. Space(c) < Len(buf)
        BY <2>2, <4>1 DEF Fits, buf
      <4>3. OtherBytes(c) \in Seq(Nat) /\ FirstBytes(c) \in Seq(Nat)
        <5>1. OtherBytes(c) = SubSeq(buf, Space(c) + 1, Len(buf))
              /\ FirstBytes(c) = SubSeq(buf, 1, Len(buf) - Space(c))
          BY DEF OtherBytes, FirstBytes, buf
        <5>2. SubSeq(buf, Space(c) + 1, Len(buf)) \in Seq(Nat)
              /\ SubSeq(buf, 1, Len(buf) - Space(c)) \in Seq(Nat)
          <6>1. ASSUME NEW q \in Nat, q <= Len(buf)
                PROVE  SubSeq(buf, 1, q) \in Seq(Nat)
            <7>1. buf \in Seq(Nat)
              BY <2>2
            <7>2. \A j \in 1 .. q : buf[j] \in Nat
              BY <6>1, <7>1
            <7> HIDE DEF buf
            <7> QED
              BY <6>1, <7>1, <7>2
          <6>2. ASSUME NEW p \in Nat, p >= 1
                PROVE  SubSeq(buf, p, Len(buf)) \in Seq(Nat)
            BY <2>2, <6>2
          <6>3. PICK q \in Nat : q = Len(buf) - Space(c) /\ q <= Len(buf)
            BY <2>2, <4>1, <4>2
          <6>4. PICK p \in Nat : p = Space(c) + 1 /\ p >= 1
            BY <4>1, <4>2
          <6> QED
            BY <6>1, <6>2, <6>3, <6>4
        <5> QED
          BY <5>1, <5>2
      <4>4. <<left>> \o Tail(pending[c]) \in Seq(Seq(Nat))
        BY <2>2, <3>2, <4>3
      <4> QED
        BY <3>2, <4>4 DEF SendsSome
    <3> QED
      BY <1>1, <3>1, <3>2 DEF SendsPart
  <2>6. UNCHANGED <<client, inbox, urgent, received, closing, armed, net>>
    BY <1>1 DEF SendsAll, SendsPart, SendsSome, Sends, peerVars
  <2> QED
    BY <2>4, <2>5, <2>6
<1>2. CASE SentAll(c) \/ SentLast(c)
  BY <1>2 DEF SentAll, SentLast, Closes, Unsent, peerVars
<1>4. CASE WouldBlock(c)
  BY <1>4 DEF WouldBlock, AtHead, peerVars
<1>3. CASE SendFails(c)
  <2>1. Tail(pending[c]) \in Seq(Seq(Nat))
    <3>1. pending[c] # <<>> /\ pending[c] \in Seq(Seq(Nat))
      BY <1>3 DEF SendFails
    <3> QED
      BY <3>1
  <2> QED
    BY <1>3, <2>1 DEF SendFails, peerVars
<1> QED
  BY <1>1, <1>2, <1>3, <1>4
-----------------------------------------------------------------------------
(* The lists of sockets. *)

LEMMA Dropped ==
  ASSUME NEW S, NEW s \in Seq(S), NEW n \in 1 .. Len(s), Distinct(s)
  PROVE  /\ RemoveAt(s, n) \in Seq(S) /\ Len(RemoveAt(s, n)) = Len(s) - 1
         /\ Distinct(RemoveAt(s, n)) /\ Members(RemoveAt(s, n)) = Members(s) \ {s[n]}
<1> DEFINE r == RemoveAt(s, n)
<1>1. /\ r \in Seq(S) /\ Len(r) = Len(s) - 1
      /\ \A k \in 1 .. Len(s) - 1 : r[k] = s[IF k < n THEN k ELSE k + 1]
  <2> DEFINE front == SubSeq(s, 1, n - 1)
             back == SubSeq(s, n + 1, Len(s))
  <2>1. Len(s) \in Nat /\ n \in Nat /\ 1 <= n /\ n <= Len(s)
    OBVIOUS
  <2>2. /\ front \in Seq(S) /\ Len(front) = n - 1
        /\ \A k \in 1 .. n - 1 : front[k] = s[k]
    BY <2>1
  <2>3. /\ back \in Seq(S) /\ Len(back) = Len(s) - n
        /\ \A k \in 1 .. Len(s) - n : back[k] = s[k + n]
    BY <2>1
  <2>4. r = front \o back
    BY DEF RemoveAt
  <2> HIDE DEF front, back, r
  <2>5. ASSUME NEW p \in Seq(S), NEW q \in Seq(S)
        PROVE  /\ p \o q \in Seq(S) /\ Len(p \o q) = Len(p) + Len(q)
               /\ \A k \in 1 .. Len(p) : (p \o q)[k] = p[k]
               /\ \A k \in 1 .. Len(q) : (p \o q)[Len(p) + k] = q[k]
    OBVIOUS
  <2>6. /\ r \in Seq(S) /\ Len(r) = (n - 1) + (Len(s) - n)
        /\ \A k \in 1 .. n - 1 : r[k] = front[k]
        /\ \A k \in 1 .. Len(s) - n : r[(n - 1) + k] = back[k]
    <3>1. /\ front \o back \in Seq(S) /\ Len(front \o back) = Len(front) + Len(back)
          /\ \A k \in 1 .. Len(front) : (front \o back)[k] = front[k]
          /\ \A k \in 1 .. Len(back) : (front \o back)[Len(front) + k] = back[k]
      BY <2>2, <2>3, <2>5
    <3> QED
      BY <2>2, <2>3, <2>4, <3>1
  <2>7. ASSUME NEW k \in 1 .. Len(s) - 1
        PROVE  r[k] = s[IF k < n THEN k ELSE k + 1]
    <3>1. CASE k < n
      <4>1. k \in 1 .. n - 1
        BY <3>1, <2>1
      <4>2. r[k] = s[k]
        BY <4>1, <2>2, <2>6
      <4> QED
        BY <3>1, <4>2
    <3>2. CASE ~(k < n)
      <4>1. k - (n - 1) \in 1 .. Len(s) - n /\ (n - 1) + (k - (n - 1)) = k
            /\ (k - (n - 1)) + n = k + 1
        BY <3>2, <2>1
      <4>2. r[(n - 1) + (k - (n - 1))] = back[k - (n - 1)]
        BY <4>1, <2>6
      <4>3. back[k - (n - 1)] = s[(k - (n - 1)) + n]
        BY <4>1, <2>3
      <4> QED
        BY <3>2, <4>1, <4>2, <4>3
    <3> QED
      BY <3>1, <3>2
  <2> QED
    BY <2>1, <2>6, <2>7
<1> HIDE DEF r
<1> DEFINE at(k) == IF k < n THEN k ELSE k + 1
<1>2. /\ Len(s) \in Nat /\ n \in 1 .. Len(s)
      /\ \A k \in 1 .. Len(s) - 1 : at(k) \in 1 .. Len(s) /\ at(k) # n /\ r[k] = s[at(k)]
      /\ \A j, k \in 1 .. Len(s) - 1 : at(j) = at(k) => j = k
      /\ \A m \in 1 .. Len(s) : m # n => \E k \in 1 .. Len(s) - 1 : at(k) = m
  <2>1. Len(s) \in Nat /\ n \in 1 .. Len(s)
    OBVIOUS
  <2>2. ASSUME NEW m \in 1 .. Len(s), m # n
        PROVE  \E k \in 1 .. Len(s) - 1 : at(k) = m
    <3>1. CASE m < n
      <4>1. m \in 1 .. Len(s) - 1 /\ at(m) = m
        BY <2>1, <3>1
      <4> QED
        BY <4>1
    <3>2. CASE ~(m < n)
      <4>1. m - 1 \in 1 .. Len(s) - 1 /\ at(m - 1) = m
        BY <2>1, <2>2, <3>2
      <4> QED
        BY <4>1
    <3> QED
      BY <3>1, <3>2
  <2>3. \A j, k \in 1 .. Len(s) - 1 : at(j) = at(k) => j = k
    BY <2>1
  <2>4. \A k \in 1 .. Len(s) - 1 : at(k) \in 1 .. Len(s) /\ at(k) # n
    BY <2>1
  <2> QED
    BY <1>1, <2>1, <2>2, <2>3, <2>4
<1> HIDE DEF at
<1>3. Distinct(r)
  <2>1. ASSUME NEW j \in 1 .. Len(r), NEW k \in 1 .. Len(r), r[j] = r[k]
        PROVE  j = k
    <3>1. /\ at(j) \in 1 .. Len(s) /\ r[j] = s[at(j)]
          /\ at(k) \in 1 .. Len(s) /\ r[k] = s[at(k)]
      BY <1>1, <1>2
    <3>2. at(j) = at(k)
      BY <2>1, <3>1 DEF Distinct
    <3> QED
      BY <1>1, <1>2, <3>2
  <2> QED
    BY <2>1 DEF Distinct
<1>4. Members(r) = Members(s) \ {s[n]}
  <2>1. ASSUME NEW x \in Members(r)
        PROVE  x \in Members(s) /\ x # s[n]
    <3>1. PICK k \in 1 .. Len(s) - 1 : x = r[k]
      BY <1>1 DEF Members
    <3>2. at(k) \in 1 .. Len(s) /\ at(k) # n /\ x = s[at(k)]
      BY <1>2, <3>1
    <3> QED
      BY <3>2 DEF Members, Distinct
  <2>2. ASSUME NEW x \in Members(s), x # s[n]
        PROVE  x \in Members(r)
    <3>1. PICK m \in 1 .. Len(s) : x = s[m]
      BY DEF Members
    <3>2. PICK k \in 1 .. Len(s) - 1 : at(k) = m
      BY <1>2, <2>2, <3>1
    <3> QED
      BY <1>1, <1>2, <3>1, <3>2 DEF Members
  <2> QED
    BY <2>1, <2>2
<1> QED
  BY <1>1, <1>3, <1>4 DEF r

LEMMA Joined ==
  ASSUME NEW S, NEW s \in Seq(S), NEW x \in S, Distinct(s), x \notin Members(s)
  PROVE  /\ Append(s, x) \in Seq(S) /\ Len(Append(s, x)) = Len(s) + 1
         /\ Distinct(Append(s, x)) /\ Members(Append(s, x)) = Members(s) \cup {x}
<1> DEFINE r == Append(s, x)
<1>1. /\ r \in Seq(S) /\ Len(r) = Len(s) + 1 /\ r[Len(s) + 1] = x /\ Len(s) \in Nat
      /\ \A n \in 1 .. Len(s) : r[n] = s[n]
  BY SequenceFacts
<1> HIDE DEF r
<1>2. \A n \in 1 .. Len(s) + 1 : n = Len(s) + 1 \/ n \in 1 .. Len(s)
  BY <1>1
<1>3. Distinct(r)
  BY <1>1, <1>2 DEF Distinct, Members
<1>4. Members(r) = Members(s) \cup {x}
  <2>1. \A n \in 1 .. Len(s) : n \in 1 .. Len(s) + 1
    BY <1>1
  <2>2. Len(s) + 1 \in 1 .. Len(s) + 1
    BY <1>1
  <2> QED
    BY <1>1, <1>2, <2>1, <2>2 DEF Members
<1> QED
  BY <1>1, <1>3, <1>4 DEF r

\* RemoveSocketObj takes c off the list and changes nothing else.
LEMMA WithoutIt ==
  ASSUME LoopsTyped, NEW t \in Threads, NEW c \in Conns, Distinct(SocketList[t]), Without(t, c)
  PROVE  /\ SocketList' \in [Threads -> Seq(Conns)]
         /\ \A u \in Threads \ {t} : SocketList'[u] = SocketList[u]
         /\ Distinct(SocketList'[t]) /\ Len(SocketList'[t]) <= Len(SocketList[t])
         /\ Members(SocketList'[t]) = Members(SocketList[t]) \ {c}
<1> DEFINE s == SocketList[t]
<1>1. s \in Seq(Conns) /\ Len(s) \in Nat /\ SocketList \in [Threads -> Seq(Conns)]
      /\ DOMAIN s = 1 .. Len(s)
  BY DEF LoopsTyped
<1>2. ASSUME NEW n \in DOMAIN s, s[n] = c, SocketList' = [SocketList EXCEPT ![t] = RemoveAt(s, n)]
      PROVE  /\ SocketList' \in [Threads -> Seq(Conns)]
             /\ \A u \in Threads \ {t} : SocketList'[u] = SocketList[u]
             /\ Distinct(SocketList'[t]) /\ Len(SocketList'[t]) <= Len(s)
             /\ Members(SocketList'[t]) = Members(s) \ {c}
  <2>1. n \in 1 .. Len(s)
    BY <1>1
  <2>2. /\ RemoveAt(s, n) \in Seq(Conns) /\ Len(RemoveAt(s, n)) = Len(s) - 1
        /\ Distinct(RemoveAt(s, n)) /\ Members(RemoveAt(s, n)) = Members(s) \ {s[n]}
    BY <1>1, <2>1, Dropped
  <2>3. SocketList'[t] = RemoveAt(s, n)
    BY <1>1, <1>2
  <2> HIDE DEF s
  <2> QED
    BY <1>1, <1>2, <2>2, <2>3
<1>3. ASSUME c \notin Range(s), SocketList' = SocketList
      PROVE  /\ SocketList' \in [Threads -> Seq(Conns)]
             /\ \A u \in Threads \ {t} : SocketList'[u] = SocketList[u]
             /\ Distinct(SocketList'[t]) /\ Len(SocketList'[t]) <= Len(s)
             /\ Members(SocketList'[t]) = Members(s) \ {c}
  <2>1. c \notin Members(s)
    BY <1>1, <1>3 DEF Range, Members
  <2> QED
    BY <1>1, <1>3, <2>1
<1> QED
  BY <1>2, <1>3 DEF Without

LEMMA ThreadFacts == 0 \in Threads /\ 0 \notin Children /\ Children \subseteq Threads
BY ConstAssumption, FS_CardinalityType DEF Threads

LEMMA ListedConn ==
  ASSUME LoopsTyped, NEW t \in Threads, NEW c, Listed(t, c)
  PROVE  c \in Conns
BY SequenceFacts DEF LoopsTyped, Listed, Members

LEMMA Skipped ==
  ASSUME NEW S, NEW s \in Seq(S), NEW n \in Nat \ {0}, s # <<>>, Distinct(s)
  PROVE  /\ Head(s) \in Members(s) /\ Head(s) \in S
         /\ Tail(s) \in Seq(S) /\ Distinct(Tail(s)) /\ Members(Tail(s)) = Members(s) \ {Head(s)}
         /\ SubSeq(s, n + 1, Len(s)) \in Seq(S) /\ Distinct(SubSeq(s, n + 1, Len(s)))
         /\ Members(SubSeq(s, n + 1, Len(s))) \subseteq Members(s) \ {Head(s)}
<1>1. /\ Len(s) \in Nat /\ Len(s) >= 1 /\ Head(s) \in S /\ Head(s) = s[1] /\ Tail(s) \in Seq(S)
      /\ Len(Tail(s)) = Len(s) - 1 /\ \A k \in 1 .. Len(s) - 1 : Tail(s)[k] = s[k + 1]
  BY SequenceFacts
<1>2. \A j, k \in 1 .. Len(s) : s[j] = s[k] => j = k
  BY DEF Distinct
<1>3. Head(s) \in Members(s)
  BY <1>1 DEF Members
<1>4. ASSUME NEW r \in Seq(S), NEW m \in Nat \ {0}, Len(r) <= Len(s) - m \/ Len(r) = 0,
             \A k \in 1 .. Len(r) : r[k] = s[k + m]
      PROVE  Distinct(r) /\ Members(r) \subseteq Members(s) \ {Head(s)}
  <2>1. \A k \in 1 .. Len(r) : k + m \in 1 .. Len(s) /\ k + m # 1 /\ r[k] = s[k + m]
    BY <1>1, <1>4
  <2>2. \A j, k \in 1 .. Len(r) : j + m = k + m => j = k
    OBVIOUS
  <2>3. Distinct(r)
    BY <2>1, <2>2, <1>2 DEF Distinct
  <2>4. ASSUME NEW k \in 1 .. Len(r)
        PROVE  r[k] \in Members(s) /\ r[k] # Head(s)
    <3>1. k + m \in 1 .. Len(s) /\ k + m # 1 /\ r[k] = s[k + m] /\ 1 \in 1 .. Len(s)
      BY <2>1, <1>1
    <3> QED
      BY <3>1, <1>1, <1>2 DEF Members
  <2> QED
    BY <2>3, <2>4 DEF Members
<1>5. Distinct(Tail(s)) /\ Members(Tail(s)) \subseteq Members(s) \ {Head(s)}
  <2> DEFINE r == Tail(s)
             m == 1
  <2>1. r \in Seq(S) /\ m \in Nat \ {0} /\ Len(r) <= Len(s) - m
        /\ \A k \in 1 .. Len(r) : r[k] = s[k + m]
    BY <1>1
  <2> HIDE DEF r, m
  <2>2. Distinct(r) /\ Members(r) \subseteq Members(s) \ {Head(s)}
    BY <2>1, <1>4
  <2> QED
    BY <2>2 DEF r
<1>6. Members(s) \ {Head(s)} \subseteq Members(Tail(s))
  <2>1. ASSUME NEW k \in 1 .. Len(s), s[k] # Head(s)
        PROVE  s[k] \in Members(Tail(s))
    <3>1. k - 1 \in 1 .. Len(s) - 1 /\ (k - 1) + 1 = k
      BY <2>1, <1>1
    <3>2. Tail(s)[k - 1] = s[k] /\ k - 1 \in 1 .. Len(Tail(s))
      BY <3>1, <1>1
    <3> QED
      BY <3>2 DEF Members
  <2> QED
    BY <2>1 DEF Members
<1>7. /\ SubSeq(s, n + 1, Len(s)) \in Seq(S)
      /\ Distinct(SubSeq(s, n + 1, Len(s)))
      /\ Members(SubSeq(s, n + 1, Len(s))) \subseteq Members(s) \ {Head(s)}
  <2> DEFINE r == SubSeq(s, n + 1, Len(s))
  <2>1. /\ r \in Seq(S) /\ Len(r) = IF n + 1 <= Len(s) THEN Len(s) - n ELSE 0
        /\ \A k \in 1 .. Len(r) : r[k] = s[k + n]
    BY <1>1
  <2> HIDE DEF r
  <2>2. Len(r) <= Len(s) - n \/ Len(r) = 0
    <3>1. CASE n + 1 <= Len(s)
      BY <3>1, <2>1, <1>1
    <3>2. CASE ~(n + 1 <= Len(s))
      BY <3>2, <2>1, <1>1
    <3> QED
      BY <3>1, <3>2
  <2>3. Distinct(r) /\ Members(r) \subseteq Members(s) \ {Head(s)}
    BY <2>1, <2>2, <1>4
  <2> QED
    BY <2>1, <2>3 DEF r
<1> QED
  BY <1>1, <1>3, <1>5, <1>6, <1>7

\* The lists stay; what is listed stays open.
LEMMA ListsKeep ==
  ASSUME ListsOK, SocketList' = SocketList,
         \A t \in Threads, c \in Conns : Listed(t, c) => socket'[c] = "open",
         NewSocket' => NewSocket /\ newsock' = newsock /\ socket'[newsock] = "open"
  PROVE  ListsOK'
<1>1. \A t, c : Listed(t, c)' <=> Listed(t, c)
  BY DEF Listed, Members
<1>2. \A t : Distinct(SocketList[t])' <=> Distinct(SocketList[t])
  BY DEF Distinct
<1> QED
  BY <1>1, <1>2 DEF ListsOK

\* c is taken off the list of t.
LEMMA ListsDrop ==
  ASSUME TypeOK, ListsOK, NEW t \in Threads, NEW c \in Conns, Listed(t, c), Without(t, c),
         \A d \in Conns \ {c} : socket'[d] = socket[d], UNCHANGED <<mpc, newsock>>
  PROVE  /\ ListsOK' /\ SocketList' \in [Threads -> Seq(Conns)]
         /\ \A u \in Threads, d \in Conns : Listed(u, d)' <=> Listed(u, d) /\ d # c
         /\ \A u \in Threads \ {t} : SocketList'[u] = SocketList[u]
         /\ Len(SocketList'[t]) <= Len(SocketList[t])
<1>1. /\ SocketList' \in [Threads -> Seq(Conns)]
      /\ \A u \in Threads \ {t} : SocketList'[u] = SocketList[u]
      /\ Distinct(SocketList'[t]) /\ Len(SocketList'[t]) <= Len(SocketList[t])
      /\ Members(SocketList'[t]) = Members(SocketList[t]) \ {c}
  BY WithoutIt DEF TypeOK, ListsOK
<1>2. ASSUME NEW u \in Threads, NEW d \in Conns
      PROVE  Listed(u, d)' <=> Listed(u, d) /\ d # c
  <2>1. Listed(u, d)' <=> d \in Members(SocketList'[u])
    BY DEF Listed, Members
  <2>2. CASE u = t
    BY <1>1, <2>1, <2>2 DEF Listed
  <2>3. CASE u # t
    BY <1>1, <2>1, <2>3 DEF Listed, ListsOK
  <2> QED
    BY <2>2, <2>3
<1>3. \A u \in Threads : Distinct(SocketList'[u])
  BY <1>1 DEF ListsOK
<1>4. \A u \in Threads, d \in Conns : Listed(u, d)' => socket'[d] = "open"
  BY <1>2 DEF ListsOK
<1>5. \A u, v \in Threads, d \in Conns : Listed(u, d)' /\ Listed(v, d)' => u = v
  BY <1>2 DEF ListsOK
<1>6. NewSocket' => /\ newsock' \in Conns /\ socket'[newsock'] = "open"
                    /\ \A u \in Threads : ~Listed(u, newsock)'
  <2> SUFFICES ASSUME NewSocket
               PROVE  /\ newsock \in Conns /\ socket'[newsock] = "open"
                      /\ \A u \in Threads : ~Listed(u, newsock)'
    BY DEF NewSocket
  <2>1. newsock \in Conns /\ socket[newsock] = "open" /\ \A u \in Threads : ~Listed(u, newsock)
    BY DEF ListsOK
  <2>2. \A u \in Threads : Listed(u, newsock)' <=> newsock \in Members(SocketList'[u])
    BY DEF Listed, Members
  <2>3. \A u \in Threads : newsock \notin Members(SocketList'[u])
    BY <1>1, <2>1 DEF Listed
  <2>4. newsock # c
    BY <2>1
  <2> QED
    BY <2>1, <2>2, <2>3, <2>4
<1> QED
  BY <1>1, <1>2, <1>3, <1>4, <1>5, <1>6 DEF ListsOK, Distinct

\* c joins the list of t.
LEMMA ListsJoin ==
  ASSUME TypeOK, ListsOK, NEW t \in Threads, NEW c \in Conns, \A u \in Threads : ~Listed(u, c),
         SocketList' = Set(SocketList, t, Append(SocketList[t], c)), ~NewSocket',
         socket'[c] = "open", \A d \in Conns : socket[d] = "open" => socket'[d] = "open"
  PROVE  /\ ListsOK' /\ SocketList' \in [Threads -> Seq(Conns)]
         /\ \A u \in Threads, d \in Conns : Listed(u, d) => Listed(u, d)'
         /\ \A u \in Threads \ {t} : SocketList'[u] = SocketList[u]
         /\ SocketList'[t] = Append(SocketList[t], c) /\ Distinct(SocketList'[t])
         /\ Len(SocketList'[t]) = Len(SocketList[t]) + 1
<1>1. /\ SocketList \in [Threads -> Seq(Conns)] /\ SocketList[t] \in Seq(Conns)
      /\ Distinct(SocketList[t])
  BY DEF TypeOK, LoopsTyped, ListsOK
<1>2. /\ Append(SocketList[t], c) \in Seq(Conns)
      /\ Len(Append(SocketList[t], c)) = Len(SocketList[t]) + 1
      /\ Distinct(Append(SocketList[t], c))
      /\ Members(Append(SocketList[t], c)) = Members(SocketList[t]) \cup {c}
  <2>1. c \notin Members(SocketList[t])
    BY DEF Listed
  <2> QED
    BY <1>1, <2>1, Joined
<1>3. /\ SocketList' \in [Threads -> Seq(Conns)]
      /\ \A u \in Threads \ {t} : SocketList'[u] = SocketList[u]
      /\ SocketList'[t] = Append(SocketList[t], c)
  BY <1>1, <1>2
<1>4. ASSUME NEW u \in Threads, NEW d \in Conns
      PROVE  Listed(u, d)' <=> Listed(u, d) \/ (u = t /\ d = c)
  <2>1. Listed(u, d)' <=> d \in Members(SocketList'[u])
    BY DEF Listed, Members
  <2>2. CASE u = t
    BY <1>2, <1>3, <2>1, <2>2 DEF Listed
  <2>3. CASE u # t
    BY <1>3, <2>1, <2>3 DEF Listed
  <2> QED
    BY <2>2, <2>3
<1>5. \A u \in Threads : Distinct(SocketList'[u])
  BY <1>2, <1>3 DEF ListsOK
<1>6. \A u \in Threads, d \in Conns : Listed(u, d)' => socket'[d] = "open"
  BY <1>4 DEF ListsOK
<1>7. \A u, v \in Threads, d \in Conns : Listed(u, d)' /\ Listed(v, d)' => u = v
  BY <1>4 DEF ListsOK
<1> QED
  BY <1>2, <1>3, <1>4, <1>5, <1>6, <1>7 DEF ListsOK, Distinct
-----------------------------------------------------------------------------
(* The invariant holds at first, and whatever the clients and Winsock do. *)

LEMMA EchoInit == Init => EchoInv
<1> SUFFICES ASSUME Init PROVE EchoInv
  OBVIOUS
<1>1. 1 \in Conns /\ Room \in Nat /\ 0 \in Threads /\ 0 \notin Children
  BY ConstAssumption, ThreadFacts
<1>2. server \in {"select", "async", "event"} /\ gProtocol \in {"tcp", "udp"}
  BY ConstAssumption DEF Init
<1>3. ConnsTyped
  BY <1>1, <1>2 DEF Init, ConnsTyped, All
<1>4. LoopsTyped
  <2>1. <<1>> \in Seq(Conns) /\ <<>> \in Seq(Conns) /\ <<>> \in Seq(Children)
        /\ <<>> \in Seq(Conns \X Kinds)
    BY <1>1
  <2>2. \A t \in Threads : /\ SocketList[t] \in Seq(Conns) /\ Handles[t] \in Seq(Conns)
                           /\ pc[t] \in Labels
    BY <2>1 DEF Init, Labels
  <2>3. SocketList \in [Threads -> Seq(Conns)] /\ Handles \in [Threads -> Seq(Conns)]
        /\ pc \in [Threads -> Labels]
    BY <2>2 DEF Init
  <2> QED
    BY <1>1, <2>1, <2>3 DEF Init, LoopsTyped
<1>5. ASSUME NEW t \in Threads, NEW c, Listed(t, c)
      PROVE  t = 0 /\ c = 1 /\ Udp
  <2>1. SocketList[t] = IF Udp /\ t = 0 THEN <<1>> ELSE <<>>
    BY DEF Init
  <2>2. Members(<<>>) = {} /\ Members(<<1>>) = {1}
    BY DEF Members
  <2> QED
    BY <1>5, <2>1, <2>2 DEF Listed
<1>6. ListsOK
  <2>1. \A t \in Threads : Distinct(SocketList[t])
    <3>1. Distinct(<<>>) /\ Distinct(<<1>>)
      BY DEF Distinct
    <3> QED
      BY <3>1 DEF Init
  <2>2. \A t \in Threads, c \in Conns : Listed(t, c) => socket[c] = "open"
    BY <1>5 DEF Init
  <2>3. ~NewSocket
    BY DEF Init, NewSocket
  <2> QED
    BY <2>1, <2>2, <2>3, <1>5 DEF ListsOK
<1>7. WorkOK
  <2>1. rest = <<>> /\ Distinct(<<>>) /\ Members(<<>>) = {}
    BY DEF Init, Distinct, Members
  <2>2. \A t \in Threads : pc[t] \notin IoLabels /\ pc[0] \notin SelectLabels
    BY <1>1 DEF Init, IoLabels, SelectLabels
  <2>3. \A t \in Children : SocketList[t] = <<>>
    BY <1>1, ThreadFacts DEF Init
  <2>4. \A t \in Threads : SocketList[t] = Handles[t] /\ Len(SocketList[t]) \in Nat
    BY <1>4 DEF Init, LoopsTyped
  <2>5. mpc = "accept"
    BY DEF Init
  <2>6. Distinct(rest) /\ Members(rest) = {} /\ pc[0] \notin SelectLabels
    BY <1>1, <2>1, <2>2
  <2>7. \A t \in Threads : Len(SocketList[t]) <= Len(Handles[t])
    BY <2>4
  <2>8. Members(rest) \subseteq Members(SocketList[0])
    BY <2>6
  <2> QED
    BY <2>2, <2>3, <2>5, <2>6, <2>7, <2>8 DEF WorkOK
<1>8. AbortsOK
  BY DEF Init, AbortsOK
<1>9. ASSUME NEW c \in Conns
      PROVE  ConnOK(c)
  <2>1. /\ inbox[c] = <<>> /\ received[c] = 0 /\ sent[c] = <<>> /\ pending[c] = <<>>
        /\ closing[c] = 0 /\ socket[c] # "closed" /\ Len(<<>>) = 0
    BY DEF Init
  <2>2. Mail(<<>>, 0, 0)
    <3> DEFINE g == [n \in 1 .. 1 |-> 0]
    <3>1. Follows(<<>>, 0, 0, g) /\ Topmost(<<>>, 0, 0)
      BY <2>1 DEF Follows, Topmost
    <3> QED
      BY <3>1 DEF Mail
  <2>3. Queued(<<>>, 0, 0, partial[c] = 0)
    BY QueuedNone
  <2> QED
    BY <2>1, <2>2, <2>3 DEF ConnOK, Left
<1> QED
  BY <1>3, <1>4, <1>6, <1>7, <1>8, <1>9 DEF EchoInv, TypeOK, AllConns

LEMMA AbortsKeep ==
  ASSUME AbortsOK, UNCHANGED <<client, net, msgs, todo>>, server' = server,
         cur' = cur \/ server # "event"
  PROVE  AbortsOK'
BY DEF AbortsOK

LEMMA PeersStep ==
  ASSUME EchoInv, NEW c \in Conns, Peers(c)
  PROVE  EchoInv'
<1>1. TypeOK /\ TypeOK' /\ Fixed /\ AllConns /\ AllConns'
  BY PeerTyped, PeerConns DEF EchoInv
<1>2. UNCHANGED <<server, socket, pc, cur, rest, todo, SocketList, Handles, mpc, newsock>>
  BY DEF Peers, Connect, ClientSends, ClientSendsEmpty, ClientSendsLong, ClientSendsUrgent, Shutdown, Reset,
         ClientReads, Notify, ServerVars, threadVars
<1>3. ListsOK'
  BY <1>2, ListsKeep DEF EchoInv, NewSocket, ListsOK
<1>4. WorkOK'
  BY <1>2 DEF EchoInv, WorkOK, Distinct, Members, Listed
<1>5. AbortsOK'
  <2>1. \A d \in Conns : client[d] = "reset" => client'[d] = "reset"
    BY <1>1 DEF Peers, Connect, ClientSends, ClientSendsEmpty, ClientSendsLong, ClientSendsUrgent,
      Shutdown, Reset,
                ClientReads, Notify, peerVars, TypeOK, ConnsTyped
  <2>2. CASE ~Notify(c)
    <3>1. UNCHANGED <<net, msgs>>
      BY <2>2 DEF Peers, Connect, ClientSends, ClientSendsEmpty, ClientSendsLong, ClientSendsUrgent, Shutdown,
                  Reset, ClientReads, eventVars
    <3>2. \A n \in 1 .. Len(msgs) : msgs[n][1] \in Conns
      BY <1>1, SMTT(20) DEF TypeOK, LoopsTyped
    <3> QED
      BY <1>2, <2>1, <3>1, <3>2 DEF EchoInv, AbortsOK
  <2>3. CASE Notify(c)
    <3>1. UNCHANGED client
      BY <2>3 DEF Notify, peerVars
    <3>2. PICK ev \in {"read", "write", "close"} :
            \/ msgs' = Append(msgs, <<c, Kind(c, ev)>>) /\ net' = net
            \/ net' = [net EXCEPT ![c] = net[c] \cup {Kind(c, ev)}] /\ msgs' = msgs
      <4>1. armed[c] \subseteq {"read", "write", "close"}
        BY <1>1 DEF TypeOK, ConnsTyped, All
      <4> QED
        BY <2>3, <4>1 DEF Notify
    <3>3. Kind(c, ev) = "abort" => client[c] = "reset"
      BY DEF Kind
    <3>4. \A d \in Conns : "abort" \in net'[d] => client[d] = "reset"
      <4>1. \A d \in Conns : "abort" \in net[d] => client[d] = "reset"
        BY DEF EchoInv, AbortsOK
      <4>2. net \in [Conns -> SUBSET Kinds]
        BY <1>1 DEF TypeOK, ConnsTyped
      <4>3. CASE net' = [net EXCEPT ![c] = net[c] \cup {Kind(c, ev)}]
        <5>1. net'[c] = net[c] \cup {Kind(c, ev)} /\ \A d \in Conns \ {c} : net'[d] = net[d]
          BY <4>2, <4>3
        <5> QED
          BY <5>1, <4>1, <3>3
      <4> QED
        BY <4>1, <4>3, <3>2
    <3>5. ASSUME NEW n \in 1 .. Len(msgs'), msgs'[n][2] = "abort"
          PROVE  client[msgs'[n][1]] = "reset"
      <4> DEFINE K == Conns \X Kinds
                 m == <<c, Kind(c, ev)>>
      <4>1. msgs \in Seq(K) /\ m \in K /\ m[1] = c /\ m[2] = Kind(c, ev)
        BY <1>1 DEF TypeOK, LoopsTyped, Kind, Kinds
      <4>2. \A k \in 1 .. Len(msgs) : msgs[k][2] = "abort" => client[msgs[k][1]] = "reset"
        BY DEF EchoInv, AbortsOK
      <4>3. msgs' = msgs \/ msgs' = Append(msgs, m)
        BY <3>2
      <4> HIDE DEF K, m
      <4>4. CASE msgs' = Append(msgs, m)
        <5>1. /\ Len(msgs') = Len(msgs) + 1 /\ msgs'[Len(msgs) + 1] = m
              /\ \A k \in 1 .. Len(msgs) : msgs'[k] = msgs[k]
          BY <4>1, <4>4, SequenceFacts
        <5>2. n = Len(msgs) + 1 \/ n \in 1 .. Len(msgs)
          BY <4>1, <5>1
        <5> QED
          BY <5>1, <5>2, <4>1, <4>2, <3>3, <3>5
      <4> QED
        BY <4>2, <4>3, <4>4, <3>5
    <3> QED
      BY <1>2, <3>1, <3>4, <3>5 DEF EchoInv, AbortsOK
  <2> QED
    BY <2>2, <2>3
<1> QED
  BY <1>1, <1>3, <1>4, <1>5 DEF EchoInv
-----------------------------------------------------------------------------
(* The select server. *)

LEMMA SelectTyped ==
  ASSUME LoopsTyped, UNCHANGED <<msgs, cur, todo, i, threadVars>>,
         pc' \in [Threads -> Labels], rest' \in Seq(Conns),
         SocketList' \in [Threads -> Seq(Conns)], stopped' \in 0 .. 1,
         fdread' \subseteq Conns, fdwrite' \subseteq Conns, fdexcept' \subseteq Conns
  PROVE  LoopsTyped'
BY DEF LoopsTyped, threadVars

LEMMA SelectWork ==
  ASSUME WorkOK, server = "select", Fixed, mpc' = mpc,
         Distinct(rest'), Members(rest') \subseteq Members(SocketList'[0]),
         \A t \in Children : SocketList'[t] = SocketList[t],
         pc'[0] \in SelectLabels => rest' # <<>>
  PROVE  WorkOK'
BY DEF WorkOK, Fixed, Distinct, Members

\* In the loop, sptr is a socket of the list.
LEMMA SelectAt ==
  ASSUME EchoInv, server = "select", pc[0] \in SelectLabels
  PROVE  /\ rest \in Seq(Conns) /\ rest # <<>> /\ Distinct(rest)
         /\ sptr \in Conns /\ Listed(0, sptr) /\ socket[sptr] = "open" /\ mpc = "accept"
         /\ Members(rest) \subseteq Members(SocketList[0])
<1>1. rest \in Seq(Conns) /\ rest # <<>> /\ Distinct(rest) /\ mpc = "accept"
      /\ Members(rest) \subseteq Members(SocketList[0])
  BY DEF EchoInv, TypeOK, LoopsTyped, WorkOK
<1>2. sptr \in Members(rest) /\ sptr \in Conns
  BY <1>1, Skipped DEF sptr
<1> QED
  BY <1>1, <1>2, ThreadFacts DEF Listed, EchoInv, ListsOK

\* sptr stays where it is.
LEMMA SelectStays ==
  ASSUME EchoInv, server = "select", Fixed, pc[0] \in SelectLabels,
         NEW l \in SelectLabels, Stage(l), UNCHANGED <<socket, mpc, newsock>>
  PROVE  /\ ListsOK' /\ WorkOK' /\ pc' \in [Threads -> Labels]
         /\ rest' \in Seq(Conns) /\ SocketList' \in [Threads -> Seq(Conns)]
<1>1. UNCHANGED <<rest, SocketList>> /\ pc' = [pc EXCEPT ![0] = l]
  BY DEF Stage
<1>2. /\ rest \in Seq(Conns) /\ rest # <<>> /\ Distinct(rest)
      /\ Members(rest) \subseteq Members(SocketList[0])
  BY SelectAt
<1>3. ListsOK'
  BY <1>1, ListsKeep DEF EchoInv, NewSocket, ListsOK
<1>4. WorkOK'
  BY <1>1, <1>2, SelectWork DEF EchoInv
<1> QED
  BY <1>1, <1>3, <1>4 DEF EchoInv, TypeOK, LoopsTyped, Labels

\* sptr is removed, and the loop goes on to the next socket but one or so.
LEMMA SelectDrops ==
  ASSUME EchoInv, server = "select", Fixed, pc[0] \in SelectLabels, NEW l \in SelectLabels,
         Without(0, sptr), \A d \in Conns \ {sptr} : socket'[d] = socket[d],
         rest' \in Seq(Conns), Distinct(rest'), Members(rest') \subseteq Members(rest) \ {sptr},
         PcTo(0, IF rest' = <<>> THEN "wait" ELSE l), UNCHANGED <<mpc, newsock>>
  PROVE  /\ ListsOK' /\ WorkOK' /\ pc' \in [Threads -> Labels]
         /\ SocketList' \in [Threads -> Seq(Conns)]
<1>1. /\ sptr \in Conns /\ Listed(0, sptr) /\ Members(rest) \subseteq Members(SocketList[0])
      /\ TypeOK /\ ListsOK /\ 0 \in Threads /\ 0 \notin Children /\ Children \subseteq Threads
  BY SelectAt, ThreadFacts DEF EchoInv
<1>2. /\ ListsOK' /\ SocketList' \in [Threads -> Seq(Conns)]
      /\ \A d \in Conns : Listed(0, d)' <=> Listed(0, d) /\ d # sptr
      /\ \A u \in Threads \ {0} : SocketList'[u] = SocketList[u]
  BY <1>1, ListsDrop
<1>3. Members(rest') \subseteq Conns
  BY SequenceFacts DEF Members
<1>4. Members(rest') \subseteq Members(SocketList'[0])
  <2>1. \A d : Listed(0, d)' <=> d \in Members(SocketList'[0])
    BY DEF Listed, Members
  <2> QED
    BY <1>1, <1>2, <1>3, <2>1 DEF Listed
<1>5. pc \in [Threads -> Labels]
  BY <1>1 DEF TypeOK, LoopsTyped
<1>6. pc' \in [Threads -> Labels] /\ (pc'[0] \in SelectLabels => rest' # <<>>)
  BY <1>1, <1>5 DEF Labels, SelectLabels
<1>7. WorkOK'
  BY <1>1, <1>2, <1>4, <1>6, SelectWork DEF EchoInv
<1> QED
  BY <1>2, <1>6, <1>7

LEMMA SelectRemoves ==
  ASSUME EchoInv, server = "select", Fixed, pc[0] \in SelectLabels, NEW l \in SelectLabels,
         Removed(l), \A d \in Conns \ {sptr} : socket'[d] = socket[d], UNCHANGED <<mpc, newsock>>
  PROVE  /\ ListsOK' /\ WorkOK' /\ pc' \in [Threads -> Labels]
         /\ rest' \in Seq(Conns) /\ SocketList' \in [Threads -> Seq(Conns)]
<1>1. rest \in Seq(Conns) /\ rest # <<>> /\ Distinct(rest)
  BY SelectAt
<1>2. rest' \in Seq(Conns) /\ Distinct(rest') /\ Members(rest') \subseteq Members(rest) \ {sptr}
  <2>1. 1 \in Nat \ {0} /\ rest' = Tail(rest)
    BY DEF Removed
  <2>2. /\ Tail(rest) \in Seq(Conns) /\ Distinct(Tail(rest))
        /\ Members(Tail(rest)) = Members(rest) \ {Head(rest)}
    BY <1>1, <2>1, Skipped
  <2> QED
    BY <2>1, <2>2 DEF sptr
<1> QED
  BY <1>2, SelectDrops DEF Removed

LEMMA SelectReceivesStep ==
  ASSUME EchoInv, SelectReceives
  PROVE  EchoInv'
<1> DEFINE c == sptr
<1>1. /\ TypeOK /\ ConnsTyped /\ LoopsTyped /\ AllConns /\ AbortsOK /\ ListsOK /\ WorkOK
      /\ server = "select" /\ pc[0] = "read" /\ pc[0] \in SelectLabels /\ Fixed
      /\ "send" \in SelectLabels /\ "write" \in SelectLabels
  BY DEF EchoInv, TypeOK, SelectReceives, SelectLabels, Fixed
<1>2. c \in Conns /\ socket[c] = "open"
  BY <1>1, SelectAt
<1>3. UNCHANGED <<msgs, setVars, cur, todo, i, threadVars, stopped, mpc, newsock>>
  BY DEF SelectReceives, threadVars
<1> HIDE DEF c
<1>4. CASE (ReceivesData(c) \/ ReceivesEmpty(c)) /\ Stage("send")
  <2>1. ConnsTyped' /\ client' = client /\ net' = net /\ socket' = socket
    BY <1>1, <1>2, <1>4, ReceiveTyped DEF Receives, ReceivesData, ReceivesEmpty, Received
  <2>2. /\ ListsOK' /\ WorkOK' /\ pc' \in [Threads -> Labels]
        /\ rest' \in Seq(Conns) /\ SocketList' \in [Threads -> Seq(Conns)]
    BY <1>1, <1>3, <1>4, <2>1, SelectStays
  <2>3. LoopsTyped'
    BY <1>1, <1>3, <2>2, SelectTyped DEF LoopsTyped, setVars
  <2>4. AllConns'
    BY <1>1, <1>2, <1>4, <2>1, <2>3, DataConns, EmptyConns DEF Working, TypeOK
  <2>5. AbortsOK'
    BY <1>1, <1>3, <2>1, AbortsKeep DEF Fixed
  <2> QED
    BY <2>1, <2>2, <2>3, <2>4, <2>5 DEF EchoInv, TypeOK
<1>5. CASE (LastEnd(c) \/ ReceiveFails(c)) /\ Removed("send")
  <2>1. /\ ConnsTyped' /\ client' = client /\ net' = net
        /\ \A d \in Conns \ {c} : socket'[d] = socket[d]
    BY <1>1, <1>2, <1>5, ReceiveTyped
    DEF Receives, LastEnd, ReceivesEnd, ReceiveFails, Received, ConnsTyped
  <2>2. /\ ListsOK' /\ WorkOK' /\ pc' \in [Threads -> Labels]
        /\ rest' \in Seq(Conns) /\ SocketList' \in [Threads -> Seq(Conns)]
    BY <1>1, <1>3, <1>5, <2>1, SelectRemoves DEF c
  <2>3. LoopsTyped'
    BY <1>1, <1>3, <2>2, SelectTyped DEF LoopsTyped, setVars
  <2>4. AllConns'
    BY <1>1, <1>2, <1>5, <2>1, <2>3, EndConns DEF Working, TypeOK
  <2>5. AbortsOK'
    BY <1>1, <1>3, <2>1, AbortsKeep DEF Fixed
  <2> QED
    BY <2>1, <2>2, <2>3, <2>4, <2>5 DEF EchoInv, TypeOK
<1>6. CASE Stage("write") /\ UNCHANGED <<peerVars, connVars, armed, net>>
  <2>1. ConnsTyped' /\ client' = client /\ net' = net /\ socket' = socket
    BY <1>1, <1>6 DEF ConnsTyped, peerVars, connVars, Fixed
  <2>2. /\ ListsOK' /\ WorkOK' /\ pc' \in [Threads -> Labels]
        /\ rest' \in Seq(Conns) /\ SocketList' \in [Threads -> Seq(Conns)]
    BY <1>1, <1>3, <1>6, <2>1, SelectStays
  <2>3. LoopsTyped'
    BY <1>1, <1>3, <2>2, SelectTyped DEF LoopsTyped, setVars
  <2>4. AllConns'
    BY <1>1, <1>6, NoConn DEF Same, peerVars, connVars
  <2>5. AbortsOK'
    BY <1>1, <1>3, <2>1, AbortsKeep DEF Fixed
  <2> QED
    BY <2>1, <2>2, <2>3, <2>4, <2>5 DEF EchoInv, TypeOK
<1> QED
  BY <1>4, <1>5, <1>6 DEF SelectReceives, c

LEMMA SelectSendsStep ==
  ASSUME EchoInv, SelectSends
  PROVE  EchoInv'
<1> DEFINE c == sptr
           next == IF At(0, "send") THEN "write" ELSE "except"
<1>1. /\ TypeOK /\ ConnsTyped /\ LoopsTyped /\ AllConns /\ AbortsOK /\ ListsOK /\ WorkOK
      /\ server = "select" /\ pc[0] \in SelectLabels /\ Fixed /\ next \in SelectLabels
  BY DEF EchoInv, TypeOK, SelectSends, SelectLabels, Fixed
<1>2. c \in Conns /\ socket[c] = "open" /\ c = sptr
  BY <1>1, SelectAt
<1>3. UNCHANGED <<msgs, setVars, cur, todo, i, threadVars, stopped, mpc, newsock>>
  BY DEF SelectSends, threadVars
<1>4. /\ socket \in [Conns -> {"none", "open", "closed", "lost"}]
      /\ partial \in [Conns -> 0 .. 1]
  BY <1>1 DEF ConnsTyped
<1>5. \/ SendsAll(c) /\ Stage(pc[0])
      \/ SendsSome(c, OtherBytes(c)) /\ Stage(pc[0]) /\ UNCHANGED partial
      \/ SentAll(c) /\ Stage(next)
      \/ SentLast(c) /\ Removed(next)
      \/ /\ SendFails(c) /\ Removed(next)
         /\ socket' = Set(socket, c, IF pending'[c] = <<>> /\ closing[c] = 1
                                     THEN "closed" ELSE "lost")
  BY DEF SelectSends
<1> HIDE DEF c, next
<1>6. CASE \E l \in SelectLabels : /\ Stage(l)
                                   /\ \/ SendsAll(c) \/ SentAll(c)
                                      \/ SendsSome(c, OtherBytes(c)) /\ UNCHANGED partial
  <2>0. PICK l \in SelectLabels : Stage(l)
    BY <1>6
  <2>1. client' = client /\ net' = net /\ socket' = socket /\ partial' = partial
    BY <1>6 DEF SendsAll, SentAll, SendsSome, Sends, Unsent, peerVars
  <2>2. ConnsTyped'
    BY <1>1, <1>2, <1>4, <1>6, <2>1, SendTyped DEF SendsPart
  <2>3. /\ ListsOK' /\ WorkOK' /\ pc' \in [Threads -> Labels]
        /\ rest' \in Seq(Conns) /\ SocketList' \in [Threads -> Seq(Conns)]
    BY <1>1, <1>3, <2>0, <2>1, SelectStays
  <2>4. LoopsTyped'
    BY <1>1, <1>3, <2>3, SelectTyped DEF LoopsTyped, setVars
  <2>5. Working(c)
    BY <1>1, <1>2, <2>2, <2>4 DEF Working, TypeOK
  <2>6. AllConns'
    BY <1>2, <1>6, <2>1, <2>5, SendAllConns, SendPartConns, IdleConns
  <2>7. AbortsOK'
    BY <1>1, <1>3, <2>1, AbortsKeep DEF Fixed
  <2> QED
    BY <2>2, <2>3, <2>4, <2>6, <2>7 DEF EchoInv, TypeOK
<1>7. CASE \E state \in {"closed", "lost"} :
             /\ Removed(next) /\ socket' = Set(socket, c, state)
             /\ SendFails(c) \/ (SentLast(c) /\ state = "closed")
  <2>0. PICK state \in {"closed", "lost"} :
          /\ Removed(next) /\ socket' = Set(socket, c, state)
          /\ SendFails(c) \/ (SentLast(c) /\ state = "closed")
    BY <1>7
  <2>1. client' = client /\ net' = net /\ partial' = partial
    BY <2>0 DEF SendFails, SentLast, Unsent, peerVars
  <2>2. /\ socket' \in [Conns -> {"none", "open", "closed", "lost"}]
        /\ \A d \in Conns \ {c} : socket'[d] = socket[d]
    BY <1>2, <1>4, <2>0
  <2>3. ConnsTyped'
    BY <1>1, <1>2, <1>4, <2>0, <2>1, <2>2, SendTyped
  <2>4. /\ ListsOK' /\ WorkOK' /\ pc' \in [Threads -> Labels]
        /\ rest' \in Seq(Conns) /\ SocketList' \in [Threads -> Seq(Conns)]
    BY <1>1, <1>2, <1>3, <2>0, <2>2, SelectRemoves
  <2>5. LoopsTyped'
    BY <1>1, <1>3, <2>4, SelectTyped DEF LoopsTyped, setVars
  <2>6. Working(c)
    BY <1>1, <1>2, <2>3, <2>5 DEF Working, TypeOK
  <2>7. AllConns'
    BY <1>2, <2>0, <2>6, SendFailsConns, SentLastConns
  <2>8. AbortsOK'
    BY <1>1, <1>3, <2>1, AbortsKeep DEF Fixed
  <2> QED
    BY <2>3, <2>4, <2>5, <2>7, <2>8 DEF EchoInv, TypeOK
<1>8. SentLast(c) => socket' = Set(socket, c, "closed")
  BY DEF SentLast
<1>9. next \in SelectLabels /\ pc[0] \in SelectLabels
  BY <1>1
<1> QED
  <2>1. CASE SendsAll(c) /\ Stage(pc[0])
    BY <2>1, <1>6, <1>9
  <2>2. CASE SendsSome(c, OtherBytes(c)) /\ Stage(pc[0]) /\ UNCHANGED partial
    BY <2>2, <1>6, <1>9
  <2>3. CASE SentAll(c) /\ Stage(next)
    BY <2>3, <1>6, <1>9
  <2>4. CASE SentLast(c) /\ Removed(next)
    BY <2>4, <1>7, <1>8
  <2>5. CASE /\ SendFails(c) /\ Removed(next)
             /\ socket' = Set(socket, c, IF pending'[c] = <<>> /\ closing[c] = 1
                                         THEN "closed" ELSE "lost")
    BY <2>5, <1>7
  <2> QED
    BY <1>5, <2>1, <2>2, <2>3, <2>4, <2>5

LEMMA SelectWritesStep ==
  ASSUME EchoInv, SelectWrites
  PROVE  EchoInv'
<1>1. /\ TypeOK /\ ConnsTyped /\ LoopsTyped /\ AllConns /\ AbortsOK /\ ListsOK /\ WorkOK
      /\ server = "select" /\ pc[0] \in SelectLabels /\ Fixed
  BY DEF EchoInv, TypeOK, SelectWrites, SelectLabels, Fixed, NotSelect
<1>2. UNCHANGED <<msgs, setVars, cur, todo, i, threadVars, stopped, mpc, newsock, armed, net,
                  peerVars, connVars, client, socket>>
  BY DEF SelectWrites, NotSelect, threadVars, eventVars, peerVars, connVars
<1>3. PICK l \in SelectLabels : Stage(l)
  BY DEF SelectWrites, SelectLabels
<1>4. ConnsTyped'
  BY <1>1, <1>2 DEF ConnsTyped, peerVars, connVars, Fixed
<1>5. /\ ListsOK' /\ WorkOK' /\ pc' \in [Threads -> Labels]
      /\ rest' \in Seq(Conns) /\ SocketList' \in [Threads -> Seq(Conns)]
  BY <1>1, <1>2, <1>3, SelectStays
<1>6. LoopsTyped'
  BY <1>1, <1>2, <1>5, SelectTyped DEF LoopsTyped, setVars
<1>7. AllConns'
  BY <1>1, <1>2, NoConn DEF Same, peerVars, connVars
<1>8. AbortsOK'
  BY <1>1, <1>2, AbortsKeep DEF Fixed
<1> QED
  BY <1>4, <1>5, <1>6, <1>7, <1>8 DEF EchoInv, TypeOK

LEMMA SelectExceptStep ==
  ASSUME EchoInv, SelectExcept
  PROVE  EchoInv'
<1> DEFINE c == sptr
<1>1. /\ TypeOK /\ ConnsTyped /\ LoopsTyped /\ AllConns /\ AbortsOK /\ ListsOK /\ WorkOK
      /\ server = "select" /\ pc[0] \in SelectLabels /\ Fixed /\ "read" \in SelectLabels
  BY DEF EchoInv, TypeOK, SelectExcept, SelectLabels, Fixed, NotSelect
<1>2. /\ c \in Conns /\ socket[c] = "open" /\ c = sptr /\ rest \in Seq(Conns) /\ rest # <<>>
      /\ Distinct(rest) /\ Members(rest) \subseteq Members(SocketList[0])
  BY <1>1, SelectAt
<1>3. UNCHANGED <<msgs, setVars, cur, todo, i, threadVars, stopped, mpc, newsock, armed, net,
                  peerVars, client, received, sent, out, pending, closing, partial>>
  BY DEF SelectExcept, NotSelect, threadVars, eventVars, peerVars
<1>4. ASSUME NEW n \in Nat \ {0}, NextSocket(n)
      PROVE  /\ rest' \in Seq(Conns) /\ Distinct(rest')
             /\ Members(rest') \subseteq Members(rest) \ {sptr}
             /\ PcTo(0, IF rest' = <<>> THEN "wait" ELSE "read")
  BY <1>2, <1>4, Skipped DEF NextSocket, sptr
<1>5. socket \in [Conns -> {"none", "open", "closed", "lost"}] /\ pc \in [Threads -> Labels]
  BY <1>1 DEF ConnsTyped, LoopsTyped
<1> HIDE DEF c
<1>6. CASE Without(0, c) /\ NextSocket(2) /\ socket' = Set(socket, c, "lost")
  <2>1. /\ socket' \in [Conns -> {"none", "open", "closed", "lost"}]
        /\ \A d \in Conns \ {c} : socket'[d] = socket[d]
    BY <1>2, <1>5, <1>6
  <2>2. ConnsTyped'
    BY <1>1, <1>3, <2>1 DEF ConnsTyped, peerVars, Fixed
  <2>3. /\ rest' \in Seq(Conns) /\ Distinct(rest')
        /\ Members(rest') \subseteq Members(rest) \ {sptr}
        /\ PcTo(0, IF rest' = <<>> THEN "wait" ELSE "read")
    BY <1>4, <1>6
  <2>4. /\ ListsOK' /\ WorkOK' /\ pc' \in [Threads -> Labels]
        /\ SocketList' \in [Threads -> Seq(Conns)]
    BY <1>1, <1>2, <1>3, <1>6, <2>1, <2>3, SelectDrops
  <2>5. LoopsTyped'
    BY <1>1, <1>3, <2>3, <2>4, SelectTyped DEF LoopsTyped, setVars
  <2>6. AllConns'
    BY <1>1, <1>2, <1>3, <1>6, SocketConns DEF peerVars
  <2>7. AbortsOK'
    BY <1>1, <1>3, AbortsKeep DEF Fixed
  <2> QED
    BY <2>2, <2>4, <2>5, <2>6, <2>7 DEF EchoInv, TypeOK
<1>7. CASE NextSocket(1) /\ UNCHANGED <<SocketList, socket>>
  <2>1. ConnsTyped'
    BY <1>1, <1>3, <1>7 DEF ConnsTyped, peerVars, Fixed
  <2>2. /\ rest' \in Seq(Conns) /\ Distinct(rest')
        /\ Members(rest') \subseteq Members(rest) \ {sptr}
        /\ pc' = [pc EXCEPT ![0] = IF rest' = <<>> THEN "wait" ELSE "read"]
    BY <1>4, <1>7
  <2>3. pc' \in [Threads -> Labels] /\ (pc'[0] \in SelectLabels => rest' # <<>>)
    BY <1>5, <2>2, ThreadFacts DEF Labels, SelectLabels
  <2>4. WorkOK'
    BY <1>1, <1>2, <1>3, <1>7, <2>2, <2>3, SelectWork
  <2>5. ListsOK'
    BY <1>1, <1>3, <1>7, ListsKeep DEF NewSocket, ListsOK
  <2>6. LoopsTyped'
    BY <1>1, <1>3, <1>7, <2>2, <2>3, SelectTyped DEF LoopsTyped, setVars
  <2>7. AllConns'
    BY <1>1, <1>3, <1>7, NoConn DEF Same, peerVars
  <2>8. AbortsOK'
    BY <1>1, <1>3, AbortsKeep DEF Fixed
  <2> QED
    BY <2>1, <2>4, <2>5, <2>6, <2>7, <2>8 DEF EchoInv, TypeOK
<1> QED
  BY <1>6, <1>7 DEF SelectExcept, c

LEMMA SelectStep ==
  ASSUME EchoInv, Select
  PROVE  EchoInv'
<1>1. /\ TypeOK /\ ConnsTyped /\ LoopsTyped /\ AllConns /\ AbortsOK /\ ListsOK /\ WorkOK
      /\ server = "select" /\ Fixed /\ mpc = "accept"
      /\ 0 \in Threads /\ 0 \notin Children /\ Children \subseteq Threads
  BY ThreadFacts DEF EchoInv, TypeOK, Select, NotSelect, Fixed, WorkOK
<1>2. UNCHANGED <<msgs, cur, todo, i, threadVars, mpc, newsock, armed, net,
                  peerVars, client, received, sent, out, pending, closing, partial>>
  BY DEF Select, NotSelect, threadVars, eventVars, peerVars
<1>3. /\ socket \in [Conns -> {"none", "open", "closed", "lost"}]
      /\ SocketList \in [Threads -> Seq(Conns)] /\ pc \in [Threads -> Labels]
  BY <1>1 DEF ConnsTyped, LoopsTyped
<1>4. fdread' \subseteq Conns /\ fdwrite' \subseteq Conns /\ fdexcept' \subseteq Conns
  <2>1. Watched \subseteq Conns
    <3>1. \A n \in DOMAIN SocketList[0] : SocketList[0][n] \in Conns
      BY <1>1, <1>3
    <3> QED
      BY <3>1 DEF Watched
  <2> QED
    BY <2>1 DEF Select
<1>5. pc' \in [Threads -> Labels] /\ (pc'[0] \in SelectLabels => rest' # <<>>)
  BY <1>1, <1>3 DEF Select, Labels, SelectLabels
<1>6. /\ ListsOK' /\ AllConns' /\ SocketList' \in [Threads -> Seq(Conns)]
      /\ socket' \in [Conns -> {"none", "open", "closed", "lost"}] /\ stopped' \in 0 .. 1
      /\ \A t \in Threads \ {0} : SocketList'[t] = SocketList[t]
      /\ rest' \in Seq(Conns) /\ Distinct(rest') /\ Members(rest') \subseteq Members(SocketList'[0])
  <2>1. CASE UNCHANGED <<socket, SocketList>> /\ rest' = SocketList[0] /\ stopped' \in 0 .. 1
    <3>1. ListsOK'
      BY <1>1, <1>2, <2>1, ListsKeep DEF NewSocket, ListsOK
    <3>2. AllConns'
      BY <1>1, <1>2, <2>1, NoConn DEF Same, peerVars
    <3> QED
      BY <1>1, <1>3, <2>1, <3>1, <3>2 DEF ListsOK
  <2>2. ASSUME NEW c \in Conns, Backlog(c), socket' = Set(socket, c, "open"), UNCHANGED stopped,
               SocketList' = Set(SocketList, 0, Append(SocketList[0], c)), rest' = SocketList'[0]
        PROVE  /\ ListsOK' /\ AllConns' /\ SocketList' \in [Threads -> Seq(Conns)]
               /\ socket' \in [Conns -> {"none", "open", "closed", "lost"}] /\ stopped' \in 0 .. 1
               /\ \A t \in Threads \ {0} : SocketList'[t] = SocketList[t]
               /\ rest' \in Seq(Conns) /\ Distinct(rest')
               /\ Members(rest') \subseteq Members(SocketList'[0])
    <3>1. socket[c] = "none" /\ \A t \in Threads : ~Listed(t, c)
      BY <1>1, <2>2 DEF Backlog, ListsOK
    <3>2. /\ socket' \in [Conns -> {"none", "open", "closed", "lost"}] /\ socket'[c] = "open"
          /\ \A d \in Conns : socket[d] = "open" => socket'[d] = "open"
      BY <1>3, <2>2
    <3>3. ~NewSocket'
      BY <1>1, <1>2 DEF NewSocket
    <3>4. /\ ListsOK' /\ SocketList' \in [Threads -> Seq(Conns)]
          /\ \A u \in Threads \ {0} : SocketList'[u] = SocketList[u]
          /\ Distinct(SocketList'[0])
      BY <1>1, <2>2, <3>1, <3>2, <3>3, ListsJoin
    <3>5. AllConns'
      BY <1>1, <1>2, <2>2, <3>1, SocketConns DEF peerVars
    <3>6. stopped \in 0 .. 1
      BY <1>1 DEF LoopsTyped
    <3> QED
      BY <1>1, <2>2, <3>2, <3>4, <3>5, <3>6
  <2>3. stopped \in 0 .. 1
    BY <1>1 DEF LoopsTyped
  <2>4. SelectAccepts
    BY DEF Select
  <2> QED
    BY <2>1, <2>2, <2>3, <2>4 DEF SelectAccepts
<1>7. ConnsTyped'
  BY <1>1, <1>2, <1>6 DEF ConnsTyped, peerVars, Fixed
<1>8. LoopsTyped'
  BY <1>1, <1>2, <1>4, <1>5, <1>6, SelectTyped
<1>9. WorkOK'
  BY <1>1, <1>2, <1>5, <1>6, SelectWork
<1>10. AbortsOK'
  BY <1>1, <1>2, AbortsKeep DEF Fixed
<1> QED
  BY <1>6, <1>7, <1>8, <1>9, <1>10 DEF EchoInv, TypeOK
-----------------------------------------------------------------------------
(* The window procedure. *)

Calm(m) == \A n \in 1 .. Len(m) : m[n][2] = "abort" => client[m[n][1]] = "reset"

LEMMA CalmTail ==
  ASSUME NEW m \in Seq(Conns \X Kinds), Calm(m), m # <<>>
  PROVE  /\ Tail(m) \in Seq(Conns \X Kinds) /\ Calm(Tail(m))
         /\ Head(m)[1] \in Conns /\ Head(m)[2] \in Kinds
         /\ Head(m)[2] = "abort" => client[Head(m)[1]] = "reset"
<1> DEFINE K == Conns \X Kinds
<1>1. m \in Seq(K)
  OBVIOUS
<1>2. \A e \in K : e[1] \in Conns /\ e[2] \in Kinds
  OBVIOUS
<1> HIDE DEF K
<1>3. /\ Len(m) \in Nat /\ Len(m) >= 1 /\ Head(m) \in K /\ Head(m) = m[1] /\ Tail(m) \in Seq(K)
      /\ Len(Tail(m)) = Len(m) - 1 /\ \A n \in 1 .. Len(m) - 1 : Tail(m)[n] = m[n + 1]
  BY <1>1, SequenceFacts
<1>4. ASSUME NEW n \in 1 .. Len(Tail(m))
      PROVE  Tail(m)[n] = m[n + 1] /\ n + 1 \in 1 .. Len(m)
  BY <1>3
<1> QED
  BY <1>2, <1>3, <1>4 DEF Calm, K

LEMMA CalmPost ==
  ASSUME NEW m \in Seq(Conns \X Kinds), Calm(m), NEW c \in Conns, NEW ev \in Kinds, ev # "abort"
  PROVE  Post(m, c, ev) \in Seq(Conns \X Kinds) /\ Calm(Post(m, c, ev))
<1> DEFINE K == Conns \X Kinds
           e == <<c, ev>>
<1>1. m \in Seq(K) /\ e \in K /\ e[2] = ev
  OBVIOUS
<1> HIDE DEF K, e
<1>2. /\ Len(m) \in Nat /\ Append(m, e) \in Seq(K) /\ Len(Append(m, e)) = Len(m) + 1
      /\ Append(m, e)[Len(m) + 1] = e /\ \A n \in 1 .. Len(m) : Append(m, e)[n] = m[n]
  BY <1>1, SequenceFacts
<1>3. \A n \in 1 .. Len(Append(m, e)) : n = Len(m) + 1 \/ n \in 1 .. Len(m)
  BY <1>2
<1>4. Calm(Append(m, e))
  BY <1>1, <1>2, <1>3 DEF Calm
<1> QED
  BY <1>2, <1>4 DEF Post, K, e

LEMMA AsyncTyped ==
  ASSUME LoopsTyped, UNCHANGED NotAsync, msgs' \in Seq(Conns \X Kinds),
         pc' \in [Threads -> Labels], cur' \in [Threads -> Conns \cup {0}],
         SocketList' \in [Threads -> Seq(Conns)]
  PROVE  LoopsTyped'
BY DEF LoopsTyped, NotAsync, threadVars, setVars

LEMMA AsyncWork ==
  ASSUME WorkOK, server = "async", Fixed, UNCHANGED <<rest, mpc>>,
         \A t \in Threads \ {0} : /\ SocketList'[t] = SocketList[t] /\ pc'[t] = pc[t]
                                  /\ cur'[t] = cur[t],
         pc'[0] \in IoLabels => Listed(0, cur[0])'
  PROVE  WorkOK'
<1>1. \A t \in Threads \ {0} : Listed(t, cur[t])' <=> Listed(t, cur[t])
  BY DEF Listed, Members
<1> QED
  BY <1>1, ThreadFacts DEF WorkOK, Fixed, Distinct

LEMMA AsyncAborts ==
  ASSUME AbortsOK, server = "async", Fixed, UNCHANGED <<client, net>>, Calm(msgs')
  PROVE  AbortsOK'
BY DEF AbortsOK, Fixed, Calm

\* The message of the moment is about a socket of the list.
LEMMA AsyncAt ==
  ASSUME EchoInv, server = "async", pc[0] \in IoLabels
  PROVE  cur[0] \in Conns /\ Listed(0, cur[0]) /\ socket[cur[0]] = "open"
<1>1. Listed(0, cur[0])
  BY ThreadFacts DEF EchoInv, WorkOK
<1>2. cur[0] \in Conns
  BY <1>1, ThreadFacts, ListedConn DEF EchoInv, TypeOK
<1> QED
  BY <1>1, <1>2, ThreadFacts DEF EchoInv, ListsOK

LEMMA AsyncStays ==
  ASSUME EchoInv, server = "async", UNCHANGED NotAsync, pc[0] \in IoLabels,
         NEW l \in Labels, PcTo(0, l), UNCHANGED <<cur, SocketList, socket>>
  PROVE  /\ ListsOK' /\ WorkOK' /\ pc' \in [Threads -> Labels]
         /\ SocketList' \in [Threads -> Seq(Conns)]
<1>1. UNCHANGED <<rest, mpc, newsock>> /\ Fixed
  BY DEF NotAsync, threadVars, Fixed
<1>2. ListsOK'
  BY <1>1, ListsKeep DEF EchoInv, NewSocket, ListsOK
<1>3. Listed(0, cur[0])'
  BY AsyncAt DEF Listed, Members
<1>4. pc \in [Threads -> Labels] /\ SocketList \in [Threads -> Seq(Conns)]
  BY DEF EchoInv, TypeOK, LoopsTyped
<1>5. WorkOK'
  BY <1>1, <1>3, <1>4, AsyncWork DEF EchoInv
<1> QED
  BY <1>2, <1>4, <1>5

LEMMA AsyncDrops ==
  ASSUME EchoInv, server = "async", UNCHANGED NotAsync, NEW c \in Conns, Listed(0, c),
         AsyncRemoves(c), \A d \in Conns \ {c} : socket'[d] = socket[d],
         \A t \in Threads \ {0} : cur'[t] = cur[t]
  PROVE  /\ ListsOK' /\ WorkOK' /\ pc' \in [Threads -> Labels]
         /\ SocketList' \in [Threads -> Seq(Conns)]
<1>1. UNCHANGED <<rest, mpc, newsock>> /\ Fixed /\ TypeOK /\ ListsOK /\ 0 \in Threads
  BY ThreadFacts DEF NotAsync, threadVars, Fixed, EchoInv
<1>2. Without(0, c) /\ pc' = [pc EXCEPT ![0] = "wait"] /\ pc \in [Threads -> Labels]
  BY <1>1 DEF AsyncRemoves, TypeOK, LoopsTyped
<1>3. /\ ListsOK' /\ SocketList' \in [Threads -> Seq(Conns)]
      /\ \A u \in Threads \ {0} : SocketList'[u] = SocketList[u]
  BY <1>1, <1>2, ListsDrop
<1>4. pc' \in [Threads -> Labels] /\ pc'[0] \notin IoLabels
      /\ \A t \in Threads \ {0} : pc'[t] = pc[t]
  BY <1>1, <1>2 DEF Labels, IoLabels
<1>5. WorkOK'
  BY <1>1, <1>3, <1>4, AsyncWork DEF EchoInv
<1> QED
  BY <1>3, <1>4, <1>5

LEMMA AsyncReceivesStep ==
  ASSUME EchoInv, AsyncReceives
  PROVE  EchoInv'
<1> DEFINE c == cur[0]
<1>1. /\ TypeOK /\ ConnsTyped /\ LoopsTyped /\ AllConns /\ AbortsOK /\ ListsOK /\ WorkOK
      /\ server = "async" /\ pc[0] \in IoLabels /\ Fixed /\ UNCHANGED NotAsync
      /\ "send" \in Labels /\ UNCHANGED cur
  BY DEF EchoInv, TypeOK, AsyncReceives, IoLabels, Labels, Fixed, NotAsync
<1>2. c \in Conns /\ socket[c] = "open" /\ Listed(0, c)
  BY <1>1, AsyncAt
<1>3. Receives(c)
  BY DEF AsyncReceives, Receives
<1>4. ConnsTyped' /\ client' = client /\ net' = net
  BY <1>1, <1>2, <1>3, ReceiveTyped
  DEF Receives, ReceivesData, ReceivesEmpty, LateEnd, LastEnd, ReceivesEnd, ReceivesNothing,
      ReceiveFails, Received
<1>5. msgs \in Seq(Conns \X Kinds) /\ Calm(msgs) /\ cur \in [Threads -> Conns \cup {0}]
      /\ "read" \in Kinds
  BY <1>1 DEF LoopsTyped, AbortsOK, Calm, Kinds
<1>6. msgs' \in Seq(Conns \X Kinds) /\ Calm(msgs')
  <2>1. msgs' = msgs \/ msgs' = Post(msgs, c, "read")
    BY DEF AsyncReceives
  <2> QED
    BY <1>2, <1>5, <2>1, CalmPost
<1>7. AbortsOK'
  BY <1>1, <1>4, <1>6, AsyncAborts
<1>8. /\ ListsOK' /\ WorkOK' /\ pc' \in [Threads -> Labels]
      /\ SocketList' \in [Threads -> Seq(Conns)]
  <2>1. CASE /\ ReceivesData(c) \/ ReceivesEmpty(c) \/ LateEnd(c) \/ ReceivesNothing(c)
             /\ PcTo(0, "send") /\ UNCHANGED SocketList
    <3>1. socket' = socket
      BY <2>1 DEF ReceivesData, ReceivesEmpty, LateEnd, ReceivesNothing
    <3> QED
      BY <1>1, <2>1, <3>1, AsyncStays
  <2>2. CASE (LastEnd(c) \/ ReceiveFails(c)) /\ AsyncRemoves(c)
    <3>1. \A d \in Conns \ {c} : socket'[d] = socket[d]
      BY <1>1, <2>2 DEF LastEnd, ReceiveFails, ConnsTyped
    <3> QED
      BY <1>1, <1>2, <2>2, <3>1, AsyncDrops
  <2> QED
    BY <2>1, <2>2 DEF AsyncReceives
<1>9. LoopsTyped'
  BY <1>1, <1>5, <1>6, <1>8, AsyncTyped
<1>10. Working(c)
  BY <1>1, <1>2, <1>4, <1>9 DEF Working, TypeOK
<1>11. AllConns'
  BY <1>2, <1>3, <1>10, DataConns, EmptyConns, EndConns DEF Receives
<1> QED
  BY <1>4, <1>7, <1>8, <1>9, <1>11 DEF EchoInv, TypeOK

LEMMA AsyncSendsStep ==
  ASSUME EchoInv, AsyncSends
  PROVE  EchoInv'
<1> DEFINE c == cur[0]
<1>1. /\ TypeOK /\ ConnsTyped /\ LoopsTyped /\ AllConns /\ AbortsOK /\ ListsOK /\ WorkOK
      /\ server = "async" /\ pc[0] \in IoLabels /\ Fixed /\ UNCHANGED NotAsync
      /\ pc[0] \in Labels /\ "wait" \in Labels /\ UNCHANGED <<msgs, cur>>
  BY DEF EchoInv, TypeOK, AsyncSends, IoLabels, Labels, Fixed, NotAsync
<1>2. c \in Conns /\ socket[c] = "open" /\ Listed(0, c)
  BY <1>1, AsyncAt
<1>3. /\ socket \in [Conns -> {"none", "open", "closed", "lost"}]
      /\ partial \in [Conns -> 0 .. 1] /\ pc \in [Threads -> Labels] /\ 0 \in Threads
  BY <1>1, ThreadFacts DEF ConnsTyped, LoopsTyped
<1>4. msgs \in Seq(Conns \X Kinds) /\ Calm(msgs) /\ cur \in [Threads -> Conns \cup {0}]
  BY <1>1 DEF LoopsTyped, AbortsOK, Calm
<1>5. \/ SendsAll(c) /\ UNCHANGED <<pc, SocketList>>
      \/ SendsSome(c, FirstBytes(c)) /\ partial' = Set(partial, c, 1) /\ UNCHANGED <<pc, SocketList>>
      \/ (WouldBlock(c) \/ SentAll(c)) /\ PcTo(0, "wait") /\ UNCHANGED <<SocketList, socket>>
      \/ SentLast(c) /\ AsyncRemoves(c)
      \/ /\ SendFails(c) /\ AsyncRemoves(c)
         /\ socket' = Set(socket, c, IF pending'[c] = <<>> /\ closing[c] = 1
                                     THEN "closed" ELSE "lost")
  BY DEF AsyncSends
<1> HIDE DEF c
<1>6. client' = client /\ net' = net
  BY <1>5 DEF SendsAll, SendsSome, Sends, WouldBlock, SentAll, SentLast, SendFails, Unsent, peerVars
<1>7. AbortsOK'
  BY <1>1, <1>4, <1>6, AsyncAborts
<1>8. CASE \/ SendsAll(c) /\ UNCHANGED <<pc, SocketList>>
           \/ /\ SendsSome(c, FirstBytes(c)) /\ partial' = Set(partial, c, 1)
              /\ UNCHANGED <<pc, SocketList>>
           \/ (WouldBlock(c) \/ SentAll(c)) /\ PcTo(0, "wait") /\ UNCHANGED <<SocketList, socket>>
  <2>1. socket' = socket /\ partial' \in [Conns -> 0 .. 1]
    BY <1>2, <1>3, <1>8 DEF SendsAll, SendsSome, Sends, WouldBlock, SentAll, Unsent
  <2>2. SendsAll(c) \/ SendsPart(c) \/ WouldBlock(c) \/ SentAll(c)
    BY <1>8 DEF SendsPart
  <2>3. ConnsTyped'
    BY <1>1, <1>2, <1>3, <2>1, <2>2, SendTyped
  <2>4. PICK l \in Labels : PcTo(0, l) /\ UNCHANGED SocketList
    <3>1. pc' = pc => pc' = [pc EXCEPT ![0] = pc[0]]
      BY <1>3
    <3> QED
      BY <1>1, <1>8, <3>1
  <2>5. /\ ListsOK' /\ WorkOK' /\ pc' \in [Threads -> Labels]
        /\ SocketList' \in [Threads -> Seq(Conns)]
    BY <1>1, <2>1, <2>4, AsyncStays
  <2>6. LoopsTyped'
    BY <1>1, <1>4, <2>5, AsyncTyped
  <2>7. Working(c)
    BY <1>1, <1>2, <2>3, <2>6 DEF Working, TypeOK
  <2>8. AllConns'
    <3>1. CASE SendsAll(c)
      BY <1>2, <2>7, <3>1, SendAllConns
    <3>2. CASE SendsSome(c, FirstBytes(c)) /\ partial' = Set(partial, c, 1)
      BY <1>2, <2>7, <3>2, SendPartConns
    <3>3. CASE WouldBlock(c) \/ SentAll(c)
      BY <1>2, <2>1, <2>7, <3>3, IdleConns
    <3> QED
      BY <1>8, <3>1, <3>2, <3>3
  <2> QED
    BY <1>7, <2>3, <2>5, <2>6, <2>8 DEF EchoInv, TypeOK
<1>9. CASE \E state \in {"closed", "lost"} :
             /\ AsyncRemoves(c) /\ socket' = Set(socket, c, state)
             /\ SendFails(c) \/ (SentLast(c) /\ state = "closed")
  <2>0. PICK state \in {"closed", "lost"} :
          /\ AsyncRemoves(c) /\ socket' = Set(socket, c, state)
          /\ SendFails(c) \/ (SentLast(c) /\ state = "closed")
    BY <1>9
  <2>1. partial' = partial
    BY <2>0 DEF SendFails, SentLast, Unsent
  <2>2. /\ socket' \in [Conns -> {"none", "open", "closed", "lost"}]
        /\ \A d \in Conns \ {c} : socket'[d] = socket[d]
    BY <1>2, <1>3, <2>0
  <2>3. ConnsTyped'
    BY <1>1, <1>2, <1>3, <2>0, <2>1, <2>2, SendTyped
  <2>4. /\ ListsOK' /\ WorkOK' /\ pc' \in [Threads -> Labels]
        /\ SocketList' \in [Threads -> Seq(Conns)]
    BY <1>1, <1>2, <2>0, <2>2, AsyncDrops
  <2>5. LoopsTyped'
    BY <1>1, <1>4, <2>4, AsyncTyped
  <2>6. Working(c)
    BY <1>1, <1>2, <2>3, <2>5 DEF Working, TypeOK
  <2>7. AllConns'
    BY <1>2, <2>0, <2>6, SendFailsConns, SentLastConns
  <2> QED
    BY <1>7, <2>3, <2>4, <2>5, <2>7 DEF EchoInv, TypeOK
<1>10. SentLast(c) => socket' = Set(socket, c, "closed")
  BY DEF SentLast
<1> QED
  <2>1. CASE SentLast(c) /\ AsyncRemoves(c)
    BY <2>1, <1>9, <1>10
  <2>2. CASE /\ SendFails(c) /\ AsyncRemoves(c)
             /\ socket' = Set(socket, c, IF pending'[c] = <<>> /\ closing[c] = 1
                                         THEN "closed" ELSE "lost")
    BY <2>2, <1>9
  <2> QED
    BY <1>5, <1>8, <2>1, <2>2

\* A socket that was accepted is not in a list yet.
LEMMA NotListed ==
  ASSUME ListsOK, NEW c \in Conns, socket[c] # "open"
  PROVE  \A t \in Threads : ~Listed(t, c)
BY DEF ListsOK

LEMMA AsyncAcceptsStep ==
  ASSUME EchoInv, NEW c \in Conns, AsyncAccepts(c)
  PROVE  EchoInv'
<1>1. /\ TypeOK /\ ConnsTyped /\ LoopsTyped /\ AllConns /\ AbortsOK /\ ListsOK /\ WorkOK
      /\ server = "async" /\ Fixed /\ UNCHANGED NotAsync /\ mpc = "accept" /\ pc[0] = "wait"
      /\ 0 \in Threads /\ 0 \notin Children /\ Children \subseteq Threads
  BY ThreadFacts DEF EchoInv, TypeOK, AsyncAccepts, NotAsync, Fixed, WorkOK
<1>2. UNCHANGED <<msgs, cur, pc, rest, todo, mpc, newsock, net, peerVars, client, inbox, received,
                  sent, out, pending, closing, partial>>
  BY DEF AsyncAccepts, NotAsync, threadVars, peerVars
<1>3. /\ socket \in [Conns -> {"none", "open", "closed", "lost"}]
      /\ armed \in [Conns -> SUBSET All] /\ All \in SUBSET All
      /\ SocketList \in [Threads -> Seq(Conns)]
  BY <1>1 DEF ConnsTyped, LoopsTyped
<1>4. socket[c] = "none" /\ (\A t \in Threads : ~Listed(t, c)) /\ ~NewSocket /\ ~NewSocket'
  BY <1>1, <1>2, NotListed DEF AsyncAccepts, Backlog, NewSocket
<1>5. AbortsOK'
  BY <1>1, <1>2, AbortsKeep DEF Fixed
<1>6. CASE client[c] = "reset"
  <2>1. socket' = Set(socket, c, "closed") /\ UNCHANGED <<SocketList, armed>>
    BY <1>6 DEF AsyncAccepts
  <2>2. /\ socket' \in [Conns -> {"none", "open", "closed", "lost"}]
        /\ \A d \in Conns \ {c} : socket'[d] = socket[d]
    BY <1>3, <2>1
  <2>3. ListsOK'
    BY <1>1, <1>4, <2>1, <2>2, ListsKeep DEF ListsOK
  <2>4. WorkOK'
    BY <1>1, <1>2, <2>1, AsyncWork DEF IoLabels
  <2>5. AllConns'
    BY <1>1, <1>2, <1>6, <2>1, SocketConns
  <2>6. ConnsTyped' /\ LoopsTyped'
    <3>1. ConnsTyped'
      BY <1>1, <1>2, <2>1, <2>2 DEF ConnsTyped, peerVars, Fixed
    <3>2. LoopsTyped'
      BY <1>1, <1>2, <2>1, AsyncTyped DEF LoopsTyped
    <3> QED
      BY <3>1, <3>2
  <2> QED
    BY <1>5, <2>3, <2>4, <2>5, <2>6 DEF EchoInv, TypeOK
<1>7. CASE client[c] # "reset"
  <2>1. /\ socket' = Set(socket, c, "open") /\ armed' = Set(armed, c, All)
        /\ SocketList' = Set(SocketList, 0, Append(SocketList[0], c))
    BY <1>7 DEF AsyncAccepts
  <2>2. /\ socket' \in [Conns -> {"none", "open", "closed", "lost"}] /\ socket'[c] = "open"
        /\ \A d \in Conns : socket[d] = "open" => socket'[d] = "open"
        /\ armed' \in [Conns -> SUBSET All]
    BY <1>3, <2>1
  <2>3. /\ ListsOK' /\ SocketList' \in [Threads -> Seq(Conns)]
        /\ \A u \in Threads \ {0} : SocketList'[u] = SocketList[u]
    BY <1>1, <1>4, <2>1, <2>2, ListsJoin
  <2>4. WorkOK'
    BY <1>1, <1>2, <2>3, AsyncWork DEF IoLabels
  <2>5. AllConns'
    BY <1>1, <1>2, <1>4, <2>1, SocketConns
  <2>6. ConnsTyped' /\ LoopsTyped'
    <3>1. ConnsTyped'
      BY <1>1, <1>2, <2>2 DEF ConnsTyped, peerVars, Fixed
    <3>2. LoopsTyped'
      BY <1>1, <1>2, <2>3, AsyncTyped DEF LoopsTyped
    <3> QED
      BY <3>1, <3>2
  <2> QED
    BY <1>5, <2>3, <2>4, <2>5, <2>6 DEF EchoInv, TypeOK
<1> QED
  BY <1>6, <1>7

LEMMA WindowProcStep ==
  ASSUME EchoInv, WindowProc
  PROVE  EchoInv'
<1> DEFINE c == Head(msgs)[1]
           ev == Head(msgs)[2]
           known == c \in Range(SocketList[0])
<1>1. /\ TypeOK /\ ConnsTyped /\ LoopsTyped /\ AllConns /\ AbortsOK /\ ListsOK /\ WorkOK
      /\ server = "async" /\ Fixed /\ UNCHANGED NotAsync /\ mpc = "accept" /\ pc[0] = "wait"
      /\ 0 \in Threads /\ 0 \notin Children /\ Children \subseteq Threads
      /\ msgs \in Seq(Conns \X Kinds) /\ Calm(msgs) /\ msgs # <<>>
  BY ThreadFacts DEF EchoInv, TypeOK, WindowProc, NotAsync, Fixed, WorkOK, LoopsTyped, AbortsOK, Calm
<1>2. UNCHANGED <<rest, todo, mpc, newsock, armed, net, peerVars, client, inbox, received, sent,
                  out, pending, partial>>
  BY DEF WindowProc, NotAsync, threadVars, peerVars
<1>3. /\ socket \in [Conns -> {"none", "open", "closed", "lost"}]
      /\ closing \in [Conns -> 0 .. 1] /\ pc \in [Threads -> Labels]
      /\ cur \in [Threads -> Conns \cup {0}] /\ SocketList \in [Threads -> Seq(Conns)]
  BY <1>1 DEF ConnsTyped, LoopsTyped
<1>4. /\ Tail(msgs) \in Seq(Conns \X Kinds) /\ Calm(Tail(msgs)) /\ c \in Conns /\ ev \in Kinds
      /\ ev = "abort" => client[c] = "reset"
  BY <1>1, CalmTail
<1>5. known <=> Listed(0, c)
  <2>1. DOMAIN SocketList[0] = 1 .. Len(SocketList[0])
    BY <1>1, <1>3
  <2> QED
    BY <2>1 DEF Range, Listed, Members
<1>6. cur' = [cur EXCEPT ![0] = c]
  BY DEF WindowProc
<1>7. \/ ev = "abort" /\ Close(c) /\ AsyncRemoves(c) /\ msgs' = Tail(msgs) /\ UNCHANGED closing
      \/ ~known /\ msgs' = Tail(msgs) /\ UNCHANGED <<SocketList, socket, closing, pc>>
      \/ /\ known /\ closing' = Set(closing, c, 1) /\ msgs' = Post(Tail(msgs), c, "read")
         /\ UNCHANGED <<SocketList, socket, pc>>
      \/ /\ known /\ (\E l \in IoLabels : PcTo(0, l)) /\ msgs' = Tail(msgs)
         /\ UNCHANGED <<SocketList, socket, closing>>
  <2>1. "read" \in IoLabels /\ "send" \in IoLabels
    BY DEF IoLabels
  <2>2. ev \in {"read", "write", "close", "abort"}
    BY <1>4 DEF Kinds
  <2> QED
    BY <2>1, <2>2 DEF WindowProc
<1> HIDE DEF c, ev, known
<1>8. cur' \in [Threads -> Conns \cup {0}] /\ \A t \in Threads \ {0} : cur'[t] = cur[t]
  BY <1>1, <1>3, <1>4, <1>6
<1>9. msgs' \in Seq(Conns \X Kinds) /\ Calm(msgs')
  <2>1. "read" \in Kinds
    BY DEF Kinds
  <2>2. msgs' = Tail(msgs) \/ msgs' = Post(Tail(msgs), c, "read")
    BY <1>7
  <2> QED
    BY <1>4, <2>1, <2>2, CalmPost
<1>10. AbortsOK'
  BY <1>1, <1>2, <1>9, AsyncAborts
<1>11. ~NewSocket /\ ~NewSocket'
  BY <1>1, <1>2 DEF NewSocket
<1>12. /\ ListsOK' /\ WorkOK' /\ pc' \in [Threads -> Labels]
       /\ SocketList' \in [Threads -> Seq(Conns)]
       /\ socket' \in [Conns -> {"none", "open", "closed", "lost"}]
       /\ closing' \in [Conns -> 0 .. 1] /\ AllConns'
  <2>1. CASE ev = "abort" /\ Close(c) /\ AsyncRemoves(c) /\ UNCHANGED closing
    <3>1. /\ socket' = Set(socket, c, "closed")
          /\ socket' \in [Conns -> {"none", "open", "closed", "lost"}]
          /\ \A d \in Conns \ {c} : socket'[d] = socket[d]
      BY <1>3, <1>4, <2>1
    <3>2. AllConns'
      BY <1>1, <1>2, <1>4, <2>1, <3>1, SocketConns
    <3>3. CASE Listed(0, c)
      <4>1. /\ ListsOK' /\ WorkOK' /\ pc' \in [Threads -> Labels]
            /\ SocketList' \in [Threads -> Seq(Conns)]
        BY <1>1, <1>4, <1>8, <2>1, <3>1, <3>3, AsyncDrops
      <4> QED
        BY <1>3, <2>1, <3>1, <3>2, <4>1
    <3>4. CASE ~Listed(0, c)
      <4>1. SocketList' = SocketList
        BY <1>1, <1>3, <3>4, <2>1 DEF AsyncRemoves, Without, Listed, Members
      <4>2. \A t \in Threads : ~Listed(t, c)
        <5>1. \A t \in Children : Members(SocketList[t]) = {}
          BY <1>1 DEF WorkOK, Members
        <5> QED
          BY <5>1, <3>4 DEF Listed, Threads
      <4>3. ListsOK'
        BY <1>1, <1>11, <3>1, <4>1, <4>2, ListsKeep DEF ListsOK
      <4>4. pc' = [pc EXCEPT ![0] = "wait"]
        BY <2>1 DEF AsyncRemoves
      <4>5. pc' \in [Threads -> Labels] /\ pc'[0] \notin IoLabels
            /\ \A t \in Threads \ {0} : pc'[t] = pc[t]
        BY <1>1, <1>3, <4>4 DEF Labels, IoLabels
      <4>6. WorkOK'
        BY <1>1, <1>2, <1>8, <4>1, <4>5, AsyncWork
      <4> QED
        BY <1>3, <2>1, <3>1, <3>2, <4>1, <4>3, <4>5, <4>6
    <3> QED
      BY <3>3, <3>4
  <2>2. ASSUME UNCHANGED <<SocketList, socket>>,
               pc' = pc \/ (known /\ \E l \in IoLabels : PcTo(0, l))
        PROVE  ListsOK' /\ WorkOK' /\ pc' \in [Threads -> Labels]
    <3>1. ListsOK'
      BY <1>1, <1>11, <2>2, ListsKeep DEF ListsOK
    <3>2. pc' \in [Threads -> Labels] /\ (\A t \in Threads \ {0} : pc'[t] = pc[t])
          /\ (pc'[0] \in IoLabels => known)
      <4>1. CASE pc' = pc
        BY <1>1, <1>3, <4>1 DEF IoLabels
      <4>2. CASE known /\ \E l \in IoLabels : PcTo(0, l)
        <5>1. PICK l \in IoLabels : PcTo(0, l)
          BY <4>2
        <5>2. l \in Labels
          BY <5>1 DEF Labels
        <5> QED
          BY <1>1, <1>3, <4>2, <5>1, <5>2
      <4> QED
        BY <2>2, <4>1, <4>2
    <3>3. known => Listed(0, cur[0])'
      BY <1>1, <1>3, <1>5, <1>6, <2>2 DEF Listed, Members
    <3>4. WorkOK'
      BY <1>1, <1>2, <1>8, <2>2, <3>2, <3>3, AsyncWork
    <3> QED
      BY <3>1, <3>2, <3>4
  <2>3. CASE UNCHANGED <<SocketList, socket, closing>>
             /\ (pc' = pc \/ (known /\ \E l \in IoLabels : PcTo(0, l)))
    <3>1. AllConns'
      BY <1>1, <1>2, <2>3, NoConn DEF Same
    <3> QED
      BY <1>3, <2>2, <2>3, <3>1
  <2>4. CASE known /\ closing' = Set(closing, c, 1) /\ UNCHANGED <<SocketList, socket, pc>>
    <3>0. PICK e \in Conns : e = c
      BY <1>4
    <3>1. /\ closing' \in [Conns -> 0 .. 1] /\ closing'[e] = 1
          /\ \A d \in Conns \ {e} : closing'[d] = closing[d]
      BY <1>3, <2>4, <3>0
    <3>2. ConnOK(e) /\ socket[e] = "open" /\ Finished(e)'
      BY <1>1, <1>5, <2>4, <3>0 DEF AllConns, Finished, ListsOK, Fixed
    <3>3. \A d \in Conns :
            /\ client'[d] = client[d] /\ inbox'[d] = inbox[d] /\ received'[d] = received[d]
            /\ sent'[d] = sent[d] /\ pending'[d] = pending[d] /\ socket'[d] = socket[d]
            /\ partial'[d] = partial[d]
      BY <1>2, <2>4
    <3>4. ConnOK(e)'
      BY <1>1, <3>2, <3>3 DEF ConnOK, Left, TooLong, Udp, Fixed
    <3>5. \A d \in Conns \ {e} : Same(d)
      BY <3>1, <3>3 DEF Same
    <3>6. AllConns'
      BY <1>1, <3>4, <3>5, OneConn
    <3> QED
      BY <1>3, <2>2, <2>4, <3>1, <3>6
  <2> QED
    BY <1>7, <2>1, <2>3, <2>4
<1>13. ConnsTyped'
  BY <1>1, <1>2, <1>12 DEF ConnsTyped, Fixed, peerVars
<1>14. LoopsTyped'
  BY <1>1, <1>8, <1>9, <1>12, AsyncTyped
<1> QED
  BY <1>10, <1>12, <1>13, <1>14 DEF EchoInv, TypeOK
-----------------------------------------------------------------------------
(* The threads of the event server, and main. *)

LEMMA Concatenated ==
  ASSUME NEW S, NEW s \in Seq(S), NEW r \in Seq(S)
  PROVE  /\ s \o r \in Seq(S) /\ Len(s \o r) = Len(s) + Len(r)
         /\ \A k \in 1 .. Len(s) : (s \o r)[k] = s[k]
         /\ \A k \in 1 .. Len(r) : (s \o r)[Len(s) + k] = r[k]
<1>1. Len(s) \in Nat /\ Len(r) \in Nat
  OBVIOUS
<1>2. s \o r \in Seq(S) /\ Len(s \o r) = Len(s) + Len(r)
  OBVIOUS
<1>3. \A k \in 1 .. Len(s) + Len(r) :
        (s \o r)[k] = IF k <= Len(s) THEN s[k] ELSE r[k - Len(s)]
  OBVIOUS
<1>4. \A k \in 1 .. Len(r) : ~(Len(s) + k <= Len(s)) /\ (Len(s) + k) - Len(s) = k
                            /\ Len(s) + k \in 1 .. Len(s) + Len(r)
  BY <1>1
<1>5. \A k \in 1 .. Len(s) : k <= Len(s) /\ k \in 1 .. Len(s) + Len(r)
  BY <1>1
<1> QED
  BY <1>2, <1>3, <1>4, <1>5

\* What InsertSocketObj and RenumberThreadArray make of Handles.
WithNew(h, n, c) == SubSeq(h, 1, n) \o <<c>> \o SubSeq(h, n + 2, Len(h))
LEMMA Inserted ==
  ASSUME NEW S, NEW h \in Seq(S), NEW n \in Nat, n <= Len(h), NEW c \in S
  PROVE  /\ WithNew(h, n, c) \in Seq(S) /\ Len(WithNew(h, n, c)) >= n + 1
         /\ WithNew(h, n, c)[n + 1] = c
         /\ \A k \in 1 .. n : WithNew(h, n, c)[k] = h[k]
<1> DEFINE first == SubSeq(h, 1, n)
           last == SubSeq(h, n + 2, Len(h))
           one == <<c>>
           front == first \o one
<1>1. /\ first \in Seq(S) /\ Len(first) = n /\ \A k \in 1 .. n : first[k] = h[k]
  <2>1. \A k \in 1 .. n : h[k] \in S
    OBVIOUS
  <2> QED
    BY <2>1
<1>2. last \in Seq(S)
  OBVIOUS
<1>3. one \in Seq(S) /\ Len(one) = 1 /\ one[1] = c
  OBVIOUS
<1> HIDE DEF first, last, one, front
<1>4. /\ front \in Seq(S) /\ Len(front) = n + 1 /\ front[n + 1] = c
      /\ \A k \in 1 .. n : front[k] = h[k]
  <2>1. /\ front \in Seq(S) /\ Len(front) = Len(first) + Len(one)
        /\ \A k \in 1 .. Len(first) : front[k] = first[k]
        /\ \A k \in 1 .. Len(one) : front[Len(first) + k] = one[k]
    <3>1. /\ first \o one \in Seq(S) /\ Len(first \o one) = Len(first) + Len(one)
          /\ \A k \in 1 .. Len(first) : (first \o one)[k] = first[k]
          /\ \A k \in 1 .. Len(one) : (first \o one)[Len(first) + k] = one[k]
      <4>1. first \in Seq(S) /\ one \in Seq(S)
        BY <1>1, <1>3
      <4> QED
        BY <4>1, Concatenated
    <3> QED
      BY <3>1 DEF front
  <2>2. 1 \in 1 .. Len(one)
    BY <1>3
  <2>3. front[n + 1] = c
    BY <1>1, <1>3, <2>1, <2>2
  <2> QED
    BY <1>1, <1>3, <2>1, <2>3
<1>5. /\ front \o last \in Seq(S) /\ Len(front \o last) = Len(front) + Len(last)
      /\ \A k \in 1 .. Len(front) : (front \o last)[k] = front[k]
  BY <1>2, <1>4, Concatenated
<1>6. Len(last) \in Nat /\ n + 1 \in 1 .. Len(front) /\ \A k \in 1 .. n : k \in 1 .. Len(front)
  BY <1>2, <1>4
<1>7. /\ front \o last \in Seq(S) /\ Len(front \o last) >= n + 1 /\ (front \o last)[n + 1] = c
      /\ \A k \in 1 .. n : (front \o last)[k] = h[k]
  BY <1>4, <1>5, <1>6
<1> QED
  BY <1>7 DEF WithNew, front, first, last, one

LEMMA Renumbered ==
  ASSUME NEW S, NEW s \in Seq(S), NEW h \in Seq(S)
  PROVE  LET new == s \o SubSeq(h, Len(s) + 1, Len(h)) IN
         /\ new \in Seq(S) /\ Len(new) >= Len(s) /\ \A k \in 1 .. Len(s) : new[k] = s[k]
<1> DEFINE last == SubSeq(h, Len(s) + 1, Len(h))
<1>1. Len(s) \in Nat /\ last \in Seq(S)
  OBVIOUS
<1> HIDE DEF last
<1>2. /\ s \o last \in Seq(S) /\ Len(s \o last) = Len(s) + Len(last) /\ Len(last) \in Nat
      /\ \A k \in 1 .. Len(s) : (s \o last)[k] = s[k]
  BY <1>1, Concatenated
<1> QED
  BY <1>1, <1>2 DEF last

LEMMA EventTyped ==
  ASSUME LoopsTyped, UNCHANGED NotEvent,
         pc' \in [Threads -> Labels], cur' \in [Threads -> Conns \cup {0}],
         todo' \in [Threads -> SUBSET Kinds], i' \in [Threads -> Nat],
         SocketList' \in [Threads -> Seq(Conns)], Handles' \in [Threads -> Seq(Conns)],
         Event' \in [Threads -> 0 .. 1], waits' \in [Threads -> SUBSET Conns],
         gChildThreads' \in Seq(Children), mpc' \in {"accept", "assign", "insert", "signal"},
         newsock' \in Conns \cup {0}, mthread' \in Threads, stopped' \in 0 .. 1
  PROVE  LoopsTyped'
BY DEF LoopsTyped, NotEvent, setVars

LEMMA EventWork ==
  ASSUME WorkOK, server = "event", Fixed, rest' = rest,
         \A t \in Threads : pc'[t] \in IoLabels => Listed(t, cur[t])',
         \A t \in Threads : Len(SocketList'[t]) <= Len(Handles'[t])
  PROVE  WorkOK'
BY DEF WorkOK, Fixed, Distinct

LEMMA EventAborts ==
  ASSUME AbortsOK, server = "event", Fixed, UNCHANGED <<client, msgs>>,
         \A c \in Conns : net'[c] \subseteq net[c],
         \A t \in Threads : "abort" \in todo'[t] /\ cur'[t] \in Conns
                              => client[cur'[t]] = "reset"
  PROVE  AbortsOK'
BY DEF AbortsOK, Fixed

LEMMA EventAcceptsStep ==
  ASSUME EchoInv, NEW c \in Conns, EventAccepts(c)
  PROVE  EchoInv'
<1>1. /\ TypeOK /\ ConnsTyped /\ LoopsTyped /\ AllConns /\ AbortsOK /\ ListsOK /\ WorkOK
      /\ server = "event" /\ Fixed /\ mpc = "accept"
  BY DEF EchoInv, TypeOK, EventAccepts, NotMain, NotEvent, Fixed
<1>2. UNCHANGED <<msgs, cur, pc, rest, todo, net, peerVars, client, inbox, received, sent, out,
                  pending, closing, partial, SocketList, Handles, NotEvent>>
  BY DEF EventAccepts, NotMain, NotEvent, peerVars
<1>3. /\ socket \in [Conns -> {"none", "open", "closed", "lost"}]
      /\ armed \in [Conns -> SUBSET All] /\ All \in SUBSET All
  BY <1>1 DEF ConnsTyped
<1>4. socket[c] = "none" /\ (\A t \in Threads : ~Listed(t, c)) /\ ~NewSocket
  BY <1>1, NotListed DEF EventAccepts, Backlog, NewSocket
<1>5. AbortsOK'
  BY <1>1, <1>2, AbortsKeep DEF Fixed
<1>6. WorkOK'
  BY <1>1, <1>2 DEF WorkOK, Distinct, Listed, Fixed
<1>7. socket' \in [Conns -> {"none", "open", "closed", "lost"}] /\ armed' \in [Conns -> SUBSET All]
  BY <1>3 DEF EventAccepts
<1>8. LoopsTyped'
  <2>1. /\ UNCHANGED <<i, Event, waits, gChildThreads, mthread, stopped>>
        /\ mpc' \in {"accept", "assign", "insert", "signal"} /\ newsock' \in Conns \cup {0}
    BY <1>1 DEF EventAccepts, NotMain, LoopsTyped
  <2> QED
    BY <1>1, <1>2, <2>1, EventTyped DEF LoopsTyped
<1>9. ConnsTyped'
  BY <1>1, <1>2, <1>7 DEF ConnsTyped, peerVars, Fixed
<1>10. CASE client[c] = "reset"
  <2>1. socket' = Set(socket, c, "closed") /\ UNCHANGED <<mpc, newsock>>
    BY <1>10 DEF EventAccepts
  <2>2. \A d \in Conns \ {c} : socket'[d] = socket[d]
    BY <1>3, <2>1
  <2>3. ListsOK'
    BY <1>1, <1>2, <1>4, <2>1, <2>2, ListsKeep DEF ListsOK, NewSocket
  <2>4. AllConns'
    BY <1>1, <1>2, <1>10, <2>1, SocketConns
  <2> QED
    BY <1>5, <1>6, <1>8, <1>9, <2>3, <2>4 DEF EchoInv, TypeOK
<1>11. CASE client[c] # "reset"
  <2>1. socket' = Set(socket, c, "open") /\ newsock' = c
    BY <1>11 DEF EventAccepts
  <2>2. socket'[c] = "open" /\ \A d \in Conns \ {c} : socket'[d] = socket[d]
    BY <1>3, <2>1
  <2>3. \A t, d : Listed(t, d)' <=> Listed(t, d)
    BY <1>2 DEF Listed
  <2>4. ListsOK'
    BY <1>1, <1>2, <1>4, <2>1, <2>2, <2>3 DEF ListsOK, NewSocket, Distinct
  <2>5. AllConns'
    BY <1>1, <1>2, <1>4, <2>1, SocketConns
  <2> QED
    BY <1>5, <1>6, <1>8, <1>9, <2>4, <2>5 DEF EchoInv, TypeOK
<1> QED
  BY <1>10, <1>11

\* What main does next, with the socket it has accepted.
LEMMA MainKeeps ==
  ASSUME EchoInv, UNCHANGED NotMain, UNCHANGED <<armed, socket>>
  PROVE  /\ ConnsTyped' /\ AllConns' /\ AbortsOK' /\ Fixed
         /\ UNCHANGED <<NotEvent, rest, cur, todo, i, waits, stopped>>
<1>1. UNCHANGED <<msgs, cur, rest, todo, i, waits, stopped, net, peerVars, client, inbox, received,
                  sent, out, pending, closing, partial, NotEvent>> /\ Fixed
  BY DEF NotMain, NotEvent, peerVars, Fixed
<1>2. ConnsTyped'
  BY <1>1 DEF EchoInv, TypeOK, ConnsTyped, peerVars, Fixed
<1>3. AllConns'
  BY <1>1, NoConn DEF EchoInv, Same
<1>4. AbortsOK'
  BY <1>1, AbortsKeep DEF EchoInv, Fixed
<1> QED
  BY <1>1, <1>2, <1>3, <1>4

LEMMA InsertStep ==
  ASSUME EchoInv, NewSocket, NEW t \in Threads, InsertSocketObj(t, newsock), mpc' = "signal",
         UNCHANGED <<NotMain, armed, socket, pc, Event, gChildThreads, newsock>>,
         mthread' \in Threads
  PROVE  EchoInv'
<1>1. /\ TypeOK /\ ConnsTyped /\ LoopsTyped /\ AllConns /\ AbortsOK /\ ListsOK /\ WorkOK
      /\ server = "event" /\ UNCHANGED NotMain /\ UNCHANGED <<armed, socket>>
  BY DEF EchoInv, TypeOK, NewSocket, WorkOK
<1>2. /\ ConnsTyped' /\ AllConns' /\ AbortsOK' /\ Fixed
      /\ UNCHANGED <<NotEvent, rest, cur, todo, i, waits, stopped>>
  BY <1>1, MainKeeps
<1>3. PICK c \in Conns : c = newsock
  BY <1>1 DEF ListsOK
<1>4. socket[c] = "open" /\ \A u \in Threads : ~Listed(u, c)
  BY <1>1, <1>3 DEF ListsOK
<1>5. /\ SocketList' = [SocketList EXCEPT ![t] = Append(SocketList[t], c)]
      /\ Handles' = [Handles EXCEPT ![t] =
           SubSeq(Handles[t], 1, Len(SocketList[t])) \o <<c>>
             \o SubSeq(Handles[t], Len(SocketList[t]) + 2, Len(Handles[t]))]
  BY <1>3 DEF InsertSocketObj
<1>6. /\ ListsOK' /\ SocketList' \in [Threads -> Seq(Conns)]
      /\ \A u \in Threads, d \in Conns : Listed(u, d) => Listed(u, d)'
      /\ \A u \in Threads \ {t} : SocketList'[u] = SocketList[u]
      /\ Len(SocketList'[t]) = Len(SocketList[t]) + 1
  <2>1. ~NewSocket'
    BY DEF NewSocket
  <2>2. socket'[c] = "open" /\ \A d \in Conns : socket[d] = "open" => socket'[d] = "open"
    BY <1>1, <1>4
  <2> QED
    BY <1>1, <1>4, <1>5, <2>1, <2>2, ListsJoin
<1>7. /\ Handles' \in [Threads -> Seq(Conns)] /\ Len(Handles'[t]) >= Len(SocketList[t]) + 1
      /\ \A u \in Threads \ {t} : Handles'[u] = Handles[u]
  <2> DEFINE h == Handles[t]
             n == Len(SocketList[t])
             new == WithNew(h, n, c)
  <2>1. h \in Seq(Conns) /\ n \in Nat /\ n <= Len(h) /\ Handles \in [Threads -> Seq(Conns)]
    BY <1>1 DEF LoopsTyped, WorkOK
  <2>2. Handles' = [Handles EXCEPT ![t] = new]
    BY <1>5 DEF WithNew
  <2> HIDE DEF h, n
  <2>3. new \in Seq(Conns) /\ Len(new) >= n + 1
    BY <2>1, Inserted
  <2> HIDE DEF new
  <2> QED
    BY <2>1, <2>2, <2>3 DEF n
<1>8. WorkOK'
  <2>1. \A u \in Threads : pc'[u] \in IoLabels => Listed(u, cur[u])'
    <3> SUFFICES ASSUME NEW u \in Threads, pc[u] \in IoLabels PROVE Listed(u, cur[u])'
      OBVIOUS
    <3>1. Listed(u, cur[u])
      BY <1>1 DEF WorkOK
    <3>2. cur[u] \in Conns
      BY <1>1, <3>1, ListedConn
    <3>3. PICK d \in Conns : d = cur[u]
      BY <3>2
    <3>4. Listed(u, d)' /\ cur' = cur
      BY <1>2, <1>6, <3>1, <3>3
    <3> QED
      BY <3>3, <3>4
  <2>2. ASSUME NEW u \in Threads
        PROVE  Len(SocketList'[u]) <= Len(Handles'[u])
    <3>1. Len(SocketList[u]) <= Len(Handles[u])
      BY <1>1 DEF WorkOK
    <3>2. CASE u = t
      BY <1>6, <1>7, <3>2
    <3>3. CASE u # t
      BY <1>6, <1>7, <3>1, <3>3
    <3> QED
      BY <3>2, <3>3
  <2> QED
    BY <1>1, <1>2, <2>1, <2>2, EventWork
<1>9. LoopsTyped'
  BY <1>1, <1>2, <1>6, <1>7, EventTyped DEF LoopsTyped
<1> QED
  BY <1>2, <1>6, <1>8, <1>9 DEF EchoInv, TypeOK

LEMMA MainStep ==
  ASSUME EchoInv, Assign \/ CreateChild \/ InsertFirst \/ Signal
  PROVE  EchoInv'
<1>1. /\ TypeOK /\ ConnsTyped /\ LoopsTyped /\ AllConns /\ AbortsOK /\ ListsOK /\ WorkOK
      /\ Children \subseteq Threads /\ gChildThreads \in Seq(Children) /\ mthread \in Threads
  BY ThreadFacts DEF EchoInv, TypeOK, LoopsTyped
<1>2. CASE Assign
  <2>1. NewSocket /\ mpc' = "signal"
        /\ UNCHANGED <<NotMain, armed, socket, pc, Event, gChildThreads, newsock>>
    BY <1>2 DEF Assign, NewSocket
  <2>2. PICK n \in DOMAIN gChildThreads :
          InsertSocketObj(gChildThreads[n], newsock) /\ mthread' = gChildThreads[n]
    BY <1>2 DEF Assign
  <2>3. gChildThreads[n] \in Threads
    BY <1>1
  <2> QED
    BY <2>1, <2>2, <2>3, InsertStep
<1>3. CASE InsertFirst
  <2>1. NewSocket /\ mpc' = "signal" /\ InsertSocketObj(mthread, newsock) /\ mthread' = mthread
        /\ UNCHANGED <<NotMain, armed, socket, pc, Event, gChildThreads, newsock>>
    BY <1>3 DEF InsertFirst, NewSocket
  <2> QED
    BY <1>1, <2>1, InsertStep
<1>4. CASE CreateChild \/ Signal
  <2>1. /\ UNCHANGED NotMain /\ UNCHANGED <<armed, socket, SocketList, Handles, newsock>>
        /\ server = "event" /\ mpc' \in {"accept", "insert"} /\ (NewSocket' => NewSocket)
    BY <1>1, <1>4 DEF CreateChild, Signal, WorkOK, NewSocket
  <2>2. /\ ConnsTyped' /\ AllConns' /\ AbortsOK' /\ Fixed
        /\ UNCHANGED <<NotEvent, rest, cur, todo, i, waits, stopped>>
    BY <2>1, MainKeeps
  <2>3. ListsOK'
    BY <1>1, <2>1, ListsKeep DEF ListsOK
  <2>4. /\ pc' \in [Threads -> Labels] /\ Event' \in [Threads -> 0 .. 1] /\ mthread' \in Threads
        /\ gChildThreads' \in Seq(Children)
        /\ \A t \in Threads : pc'[t] \in IoLabels => pc[t] \in IoLabels
    <3>1. pc \in [Threads -> Labels] /\ Event \in [Threads -> 0 .. 1]
      BY <1>1 DEF LoopsTyped
    <3>2. CASE CreateChild
      <4>1. PICK t \in Children : mthread' = t /\ pc' = [pc EXCEPT ![t] = "wait"]
                                  /\ gChildThreads' = <<t>> \o gChildThreads
        BY <3>2 DEF CreateChild
      <4>2. <<t>> \in Seq(Children)
        BY <4>1
      <4>3. gChildThreads' \in Seq(Children)
        BY <1>1, <4>1, <4>2, Concatenated
      <4>4. pc' \in [Threads -> Labels]
            /\ \A u \in Threads : pc'[u] \in IoLabels => pc[u] \in IoLabels
        BY <1>1, <3>1, <4>1 DEF Labels, IoLabels
      <4>5. Event' = Event
        BY <3>2 DEF CreateChild
      <4> QED
        BY <1>1, <3>1, <4>1, <4>3, <4>4, <4>5
    <3>3. CASE Signal
      BY <1>1, <3>1, <3>3 DEF Signal, SignalThread
    <3> QED
      BY <1>4, <3>2, <3>3
  <2>5. WorkOK'
    <3>1. \A t \in Threads : pc'[t] \in IoLabels => Listed(t, cur[t])'
      BY <1>1, <2>1, <2>2, <2>4 DEF WorkOK, Listed
    <3>2. \A t \in Threads : Len(SocketList'[t]) <= Len(Handles'[t])
      BY <1>1, <2>1 DEF WorkOK
    <3> QED
      BY <1>1, <2>1, <2>2, <3>1, <3>2, EventWork
  <2>6. LoopsTyped'
    BY <1>1, <2>1, <2>2, <2>4, EventTyped DEF LoopsTyped
  <2> QED
    BY <2>2, <2>3, <2>5, <2>6 DEF EchoInv, TypeOK
<1> QED
  BY <1>2, <1>3, <1>4

\* What a thread works on is a socket of its list.
LEMMA EventAt ==
  ASSUME EchoInv, server = "event", NEW t \in Threads, pc[t] \in IoLabels
  PROVE  cur[t] \in Conns /\ Listed(t, cur[t]) /\ socket[cur[t]] = "open"
<1>1. Listed(t, cur[t])
  BY DEF EchoInv, WorkOK
<1>2. cur[t] \in Conns
  BY <1>1, ListedConn DEF EchoInv, TypeOK
<1> QED
  BY <1>1, <1>2 DEF EchoInv, ListsOK

\* Nothing is added to or taken off the lists.
LEMMA EventKeeps ==
  ASSUME EchoInv, server = "event", UNCHANGED NotThread, NEW t \in Threads,
         UNCHANGED <<SocketList, socket>>, NEW l \in Labels, PcTo(t, l),
         l \in IoLabels => Listed(t, cur'[t]), \A u \in Threads \ {t} : cur'[u] = cur[u],
         \A u \in Threads : Len(SocketList[u]) <= Len(Handles'[u])
  PROVE  ListsOK' /\ WorkOK' /\ pc' \in [Threads -> Labels]
<1>1. /\ TypeOK /\ LoopsTyped /\ ListsOK /\ WorkOK /\ UNCHANGED <<mpc, newsock, rest>> /\ Fixed
  BY DEF EchoInv, TypeOK, NotThread, NotEvent, Fixed
<1>2. pc \in [Threads -> Labels]
  BY <1>1 DEF LoopsTyped
<1>3. \A u, d : Members(SocketList'[u]) = Members(SocketList[u])
  OBVIOUS
<1>4. ListsOK'
  BY <1>1, ListsKeep DEF ListsOK, NewSocket
<1>5. pc' \in [Threads -> Labels] /\ pc'[t] = l /\ \A u \in Threads \ {t} : pc'[u] = pc[u]
  BY <1>2
<1>6. \A u \in Threads : pc'[u] \in IoLabels => Listed(u, cur[u])'
  <2>1. ASSUME NEW u \in Threads \ {t}, pc[u] \in IoLabels
        PROVE  Listed(u, cur[u]) /\ cur'[u] = cur[u]
    BY <1>1, <2>1 DEF WorkOK
  <2> QED
    BY <1>5, <2>1 DEF Listed
<1>7. WorkOK'
  BY <1>1, <1>6, EventWork
<1> QED
  BY <1>4, <1>5, <1>7

\* The socket at hand is taken off the list.
LEMMA EventDrops ==
  ASSUME EchoInv, server = "event", UNCHANGED NotThread, NEW t \in Threads, NEW c \in Conns,
         Listed(t, c), RemoveSocketObj(t, c), \A d \in Conns \ {c} : socket'[d] = socket[d],
         UNCHANGED <<cur, Handles>>
  PROVE  /\ ListsOK' /\ WorkOK' /\ pc' \in [Threads -> Labels]
         /\ SocketList' \in [Threads -> Seq(Conns)] /\ Event' \in [Threads -> 0 .. 1]
<1>1. /\ TypeOK /\ LoopsTyped /\ ListsOK /\ WorkOK /\ UNCHANGED <<mpc, newsock, rest>> /\ Fixed
  BY DEF EchoInv, TypeOK, NotThread, NotEvent, Fixed
<1>2. pc \in [Threads -> Labels] /\ Event \in [Threads -> 0 .. 1]
  BY <1>1 DEF LoopsTyped
<1>3. Without(t, c) /\ Event' = [Event EXCEPT ![t] = 1] /\ pc' = [pc EXCEPT ![t] = "renumber"]
  BY DEF RemoveSocketObj
<1>4. /\ ListsOK' /\ SocketList' \in [Threads -> Seq(Conns)]
      /\ \A u \in Threads, d \in Conns : Listed(u, d)' <=> Listed(u, d) /\ d # c
      /\ \A u \in Threads \ {t} : SocketList'[u] = SocketList[u]
      /\ Len(SocketList'[t]) <= Len(SocketList[t])
  BY <1>1, <1>3, ListsDrop
<1>5. /\ pc' \in [Threads -> Labels] /\ Event' \in [Threads -> 0 .. 1] /\ pc'[t] \notin IoLabels
      /\ \A u \in Threads \ {t} : pc'[u] = pc[u]
  BY <1>2, <1>3 DEF Labels, IoLabels
<1>6. ASSUME NEW u \in Threads, pc'[u] \in IoLabels
      PROVE  Listed(u, cur[u])'
  <2>1. u # t /\ pc[u] \in IoLabels
    BY <1>5, <1>6
  <2>2. Listed(u, cur[u])
    BY <1>1, <2>1 DEF WorkOK
  <2>3. SocketList'[u] = SocketList[u]
    BY <1>4, <2>1
  <2> QED
    BY <2>2, <2>3 DEF Listed
<1>7. ASSUME NEW u \in Threads
      PROVE  Len(SocketList'[u]) <= Len(Handles'[u])
  <2>1. Len(SocketList[u]) <= Len(Handles[u]) /\ Len(Handles[u]) \in Nat
        /\ Len(SocketList[u]) \in Nat /\ Len(SocketList'[u]) \in Nat
    BY <1>1, <1>4 DEF WorkOK, LoopsTyped
  <2>2. CASE u = t
    BY <1>4, <2>1, <2>2
  <2>3. CASE u # t
    BY <1>4, <2>1, <2>3
  <2> QED
    BY <2>2, <2>3
<1>8. WorkOK'
  BY <1>1, <1>6, <1>7, EventWork
<1> QED
  BY <1>4, <1>5, <1>8

\* The steps that touch no connection.
LEMMA QuietKeeps ==
  ASSUME EchoInv, server = "event", UNCHANGED Quiet, net' \in [Conns -> SUBSET Kinds]
  PROVE  /\ ConnsTyped' /\ AllConns' /\ Fixed /\ client' = client /\ socket' = socket
         /\ UNCHANGED NotThread
         /\ UNCHANGED <<NotEvent, msgs, gChildThreads, mpc, newsock, mthread>>
<1>1. /\ UNCHANGED <<server, gProtocol, client, inbox, urgent, socket, received, sent, out, pending,
                     closing, partial, armed, msgs, NotThread, NotEvent, gChildThreads, mpc,
                     newsock, mthread>>
  BY DEF Quiet, NotThread, NotEvent, peerVars, connVars
<1>2. ConnsTyped'
  BY <1>1 DEF EchoInv, TypeOK, ConnsTyped
<1>3. AllConns'
  BY <1>1, NoConn DEF EchoInv, Same, Fixed
<1> QED
  BY <1>1, <1>2, <1>3 DEF Fixed

LEMMA WakesStep ==
  ASSUME EchoInv, NEW t \in Threads, Wakes(t)
  PROVE  EchoInv'
<1>1. /\ TypeOK /\ ConnsTyped /\ LoopsTyped /\ AllConns /\ AbortsOK /\ ListsOK /\ WorkOK
      /\ server = "event" /\ UNCHANGED Quiet
      /\ UNCHANGED <<net, cur, todo, SocketList, Handles, Event, waits, stopped>>
      /\ pc' = [pc EXCEPT ![t] = "scan"] /\ i' = [i EXCEPT ![t] = 0]
      /\ "scan" \in Labels /\ "scan" \notin IoLabels
  BY DEF EchoInv, TypeOK, Wakes, Labels, IoLabels
<1>2. /\ ConnsTyped' /\ AllConns' /\ Fixed /\ client' = client /\ socket' = socket
      /\ UNCHANGED NotThread
      /\ UNCHANGED <<NotEvent, msgs, gChildThreads, mpc, newsock, mthread>>
  BY <1>1, QuietKeeps DEF ConnsTyped
<1>3. \A u \in Threads : Len(SocketList[u]) <= Len(Handles'[u])
  BY <1>1 DEF WorkOK
<1>4. ListsOK' /\ WorkOK' /\ pc' \in [Threads -> Labels]
  BY <1>1, <1>2, <1>3, EventKeeps
<1>5. LoopsTyped'
  <2>1. i' \in [Threads -> Nat]
    BY <1>1 DEF LoopsTyped
  <2> QED
    BY <1>1, <1>2, <1>4, <2>1, EventTyped DEF LoopsTyped
<1>6. AbortsOK'
  BY <1>1, <1>2, AbortsKeep DEF Fixed
<1> QED
  BY <1>2, <1>4, <1>5, <1>6 DEF EchoInv, TypeOK

\* WSAEnumNetworkEvents, for the socket at some index of the list.
LEMMA EnumeratesStep ==
  ASSUME EchoInv, server = "event", NEW t \in Threads, NEW c \in Conns, Listed(t, c),
         Enumerates(t, c), UNCHANGED Quiet,
         UNCHANGED <<i, SocketList, Handles, Event, waits, stopped>>
  PROVE  EchoInv'
<1>1. /\ TypeOK /\ ConnsTyped /\ LoopsTyped /\ AllConns /\ AbortsOK /\ ListsOK /\ WorkOK
      /\ cur' = [cur EXCEPT ![t] = c] /\ todo' = [todo EXCEPT ![t] = net[c]]
      /\ net' = [net EXCEPT ![c] = {}] /\ PcTo(t, "io") /\ "io" \in Labels
  BY DEF EchoInv, TypeOK, Enumerates, Labels, IoLabels
<1>2. /\ net \in [Conns -> SUBSET Kinds] /\ todo \in [Threads -> SUBSET Kinds]
      /\ cur \in [Threads -> Conns \cup {0}]
  BY <1>1 DEF ConnsTyped, LoopsTyped
<1>3. /\ net' \in [Conns -> SUBSET Kinds] /\ todo' \in [Threads -> SUBSET Kinds]
      /\ cur' \in [Threads -> Conns \cup {0}] /\ cur'[t] = c /\ todo'[t] = net[c]
      /\ \A u \in Threads \ {t} : cur'[u] = cur[u] /\ todo'[u] = todo[u]
      /\ \A d \in Conns : net'[d] \subseteq net[d]
  BY <1>1, <1>2
<1>4. /\ ConnsTyped' /\ AllConns' /\ Fixed /\ client' = client /\ socket' = socket
      /\ UNCHANGED NotThread
      /\ UNCHANGED <<NotEvent, msgs, gChildThreads, mpc, newsock, mthread>>
  BY <1>3, QuietKeeps
<1>5. \A u \in Threads : Len(SocketList[u]) <= Len(Handles'[u])
  BY <1>1 DEF WorkOK
<1>6. ListsOK' /\ WorkOK' /\ pc' \in [Threads -> Labels]
  BY <1>1, <1>3, <1>4, <1>5, EventKeeps
<1>7. LoopsTyped'
  BY <1>1, <1>3, <1>4, <1>6, EventTyped DEF LoopsTyped
<1>8. AbortsOK'
  <2>1. \A u \in Threads : "abort" \in todo'[u] /\ cur'[u] \in Conns => client[cur'[u]] = "reset"
    <3>1. "abort" \in net[c] => client[c] = "reset"
      BY <1>1 DEF AbortsOK
    <3>2. ASSUME NEW u \in Threads \ {t}, "abort" \in todo[u], cur[u] \in Conns
          PROVE  client[cur[u]] = "reset"
      BY <1>1, <3>2 DEF AbortsOK
    <3> QED
      BY <1>3, <3>1, <3>2
  <2> QED
    BY <1>1, <1>3, <1>4, <2>1, EventAborts
<1> QED
  BY <1>4, <1>6, <1>7, <1>8 DEF EchoInv, TypeOK

LEMMA MainWakesStep ==
  ASSUME EchoInv, MainWakes
  PROVE  EchoInv'
<1>1. /\ TypeOK /\ ConnsTyped /\ LoopsTyped /\ AllConns /\ AbortsOK /\ ListsOK /\ WorkOK
      /\ server = "event" /\ UNCHANGED Quiet /\ 0 \in Threads
      /\ UNCHANGED <<i, SocketList, Handles, Event, waits>>
  BY ThreadFacts DEF EchoInv, TypeOK, MainWakes
<1>2. CASE SocketList[0] # <<>>
  <2>1. SocketList[0] \in Seq(Conns) /\ Distinct(SocketList[0])
    BY <1>1 DEF LoopsTyped, ListsOK
  <2>2. 1 \in Nat \ {0}
    OBVIOUS
  <2>3. Head(SocketList[0]) \in Members(SocketList[0]) /\ Head(SocketList[0]) \in Conns
    BY <1>2, <2>1, <2>2, Skipped
  <2>4. Enumerates(0, Head(SocketList[0])) /\ UNCHANGED stopped
    BY <1>2 DEF MainWakes
  <2> QED
    BY <1>1, <2>3, <2>4, EnumeratesStep DEF Listed
<1>3. CASE SocketList[0] = <<>>
  <2>1. stopped' = 1 /\ UNCHANGED <<cur, todo, net, pc>>
    BY <1>3 DEF MainWakes
  <2>2. /\ ConnsTyped' /\ AllConns' /\ Fixed /\ client' = client /\ socket' = socket
        /\ UNCHANGED NotThread
        /\ UNCHANGED <<NotEvent, msgs, gChildThreads, mpc, newsock, mthread>>
    BY <1>1, <2>1, QuietKeeps DEF ConnsTyped
  <2>3. ListsOK'
    BY <1>1, <2>2, ListsKeep DEF ListsOK, NewSocket
  <2>4. WorkOK'
    <3>1. rest' = rest /\ \A u \in Threads : pc'[u] \in IoLabels => Listed(u, cur[u])'
      BY <1>1, <2>1, <2>2 DEF WorkOK, Listed, NotEvent
    <3>2. \A u \in Threads : Len(SocketList'[u]) <= Len(Handles'[u])
      BY <1>1 DEF WorkOK
    <3> QED
      BY <1>1, <2>2, <3>1, <3>2, EventWork
  <2>5. LoopsTyped'
    BY <1>1, <2>1, <2>2, EventTyped DEF LoopsTyped
  <2>6. AbortsOK'
    BY <1>1, <2>1, <2>2, AbortsKeep DEF Fixed
  <2> QED
    BY <2>2, <2>3, <2>4, <2>5, <2>6 DEF EchoInv, TypeOK
<1> QED
  BY <1>2, <1>3

LEMMA ScanStep ==
  ASSUME EchoInv, NEW t \in Threads, Scan(t)
  PROVE  EchoInv'
<1>1. /\ TypeOK /\ ConnsTyped /\ LoopsTyped /\ AllConns /\ AbortsOK /\ ListsOK /\ WorkOK
      /\ server = "event" /\ UNCHANGED Quiet /\ UNCHANGED <<SocketList, stopped>>
      /\ pc[t] = "scan" /\ "scan" \in Labels /\ "scan" \notin IoLabels
      /\ "wait" \in Labels /\ "wait" \notin IoLabels
  BY DEF EchoInv, TypeOK, Scan, Labels, IoLabels
<1>2. /\ pc \in [Threads -> Labels] /\ i \in [Threads -> Nat] /\ Event \in [Threads -> 0 .. 1]
      /\ SocketList \in [Threads -> Seq(Conns)] /\ Handles \in [Threads -> Seq(Conns)]
      /\ waits \in [Threads -> SUBSET Conns]
      /\ \A u \in Threads : Len(SocketList[u]) <= Len(Handles[u])
  BY <1>1 DEF LoopsTyped, WorkOK
<1>3. ASSUME UNCHANGED <<cur, todo, net>>, NEW l \in {"scan", "wait"}, PcTo(t, l),
             i' \in [Threads -> Nat], Event' \in [Threads -> 0 .. 1],
             Handles' \in [Threads -> Seq(Conns)], waits' \in [Threads -> SUBSET Conns],
             \A u \in Threads : Len(SocketList[u]) <= Len(Handles'[u])
      PROVE  EchoInv'
  <2>1. /\ ConnsTyped' /\ AllConns' /\ Fixed /\ client' = client /\ socket' = socket
        /\ UNCHANGED NotThread
        /\ UNCHANGED <<NotEvent, msgs, gChildThreads, mpc, newsock, mthread>>
    BY <1>1, <1>3, QuietKeeps DEF ConnsTyped
  <2>2. ListsOK' /\ WorkOK' /\ pc' \in [Threads -> Labels]
    BY <1>1, <1>3, <2>1, EventKeeps
  <2>3. LoopsTyped'
    BY <1>1, <1>3, <2>1, <2>2, EventTyped DEF LoopsTyped
  <2>4. AbortsOK'
    BY <1>1, <1>3, <2>1, AbortsKeep DEF Fixed
  <2> QED
    BY <2>1, <2>2, <2>3, <2>4 DEF EchoInv, TypeOK
<1>4. pc' = pc => PcTo(t, "scan")
  BY <1>1, <1>2
<1>5. CASE /\ Event' = Set(Event, t, 0) /\ RenumberThreadArray(t) /\ i' = Set(i, t, 2)
           /\ UNCHANGED <<pc, cur, todo, net, waits>>
  <2> DEFINE s == SocketList[t]
             h == Handles[t]
             new == s \o SubSeq(h, Len(s) + 1, Len(h))
  <2>1. new \in Seq(Conns) /\ Len(new) >= Len(s)
    BY <1>2, Renumbered
  <2>2. Handles' = [Handles EXCEPT ![t] = new]
    BY <1>5 DEF RenumberThreadArray
  <2> HIDE DEF new
  <2>3. Handles' \in [Threads -> Seq(Conns)]
        /\ \A u \in Threads : Len(SocketList[u]) <= Len(Handles'[u])
    BY <1>2, <2>1, <2>2
  <2>4. i' \in [Threads -> Nat] /\ Event' \in [Threads -> 0 .. 1]
    BY <1>2, <1>5
  <2> QED
    BY <1>2, <1>3, <1>4, <1>5, <2>3, <2>4
<1>6. CASE /\ i[t] > 0 /\ i[t] <= Len(SocketList[t]) /\ Enumerates(t, SocketList[t][i[t]])
           /\ UNCHANGED <<i, Event, Handles, waits>>
  <2> DEFINE c == SocketList[t][i[t]]
  <2>1. i[t] \in 1 .. Len(SocketList[t])
    BY <1>2, <1>6
  <2>2. c \in Conns /\ Listed(t, c)
    BY <1>2, <2>1 DEF Listed, Members
  <2> QED
    BY <1>1, <1>6, <2>2, EnumeratesStep
<1>7. CASE i' = Set(i, t, i[t] + 1) /\ UNCHANGED <<pc, cur, todo, net, Event, Handles, waits>>
  <2>1. i' \in [Threads -> Nat]
    BY <1>2, <1>7
  <2> QED
    BY <1>2, <1>3, <1>4, <1>7, <2>1
<1>8. CASE /\ PcTo(t, "wait") /\ waits' = Set(waits, t, Waits(t))
           /\ UNCHANGED <<i, cur, todo, net, Event, Handles>>
  <2>1. Waits(t) \subseteq Conns
    <3> DEFINE h == Handles[t]
               n == Len(SocketList[t])
    <3>1. h \in Seq(Conns) /\ n \in Nat /\ n <= Len(h)
      BY <1>2
    <3> HIDE DEF h, n
    <3>2. \A k \in 1 .. n : h[k] \in Conns
      BY <3>1
    <3>3. DOMAIN SubSeq(h, 1, n) = 1 .. n /\ \A k \in 1 .. n : SubSeq(h, 1, n)[k] = h[k]
      BY <3>1, <3>2
    <3> QED
      BY <3>2, <3>3 DEF Waits, Range, h, n
  <2>2. waits' \in [Threads -> SUBSET Conns]
    BY <1>2, <1>8, <2>1
  <2> QED
    BY <1>2, <1>3, <1>8, <2>2
<1> QED
  BY <1>5, <1>6, <1>7, <1>8 DEF Scan

LEMMA RenumberStep ==
  ASSUME EchoInv, NEW t \in Threads, Renumber(t)
  PROVE  EchoInv'
<1>1. /\ TypeOK /\ ConnsTyped /\ LoopsTyped /\ AllConns /\ AbortsOK /\ ListsOK /\ WorkOK
      /\ server = "event" /\ UNCHANGED Quiet
      /\ UNCHANGED <<net, cur, SocketList, Event, waits, stopped>>
      /\ todo' = [todo EXCEPT ![t] = {}] /\ RenumberThreadArray(t)
      /\ i' = [i EXCEPT ![t] = IF t = 0 THEN 0 ELSE i[t] + 1]
  BY DEF EchoInv, TypeOK, Renumber
<1>2. PICK l \in {"wait", "scan"} : PcTo(t, l)
  BY DEF Renumber
<1>3. l \in Labels /\ l \notin IoLabels
  BY <1>2 DEF Labels, IoLabels
<1>4. /\ pc \in [Threads -> Labels] /\ i \in [Threads -> Nat] /\ todo \in [Threads -> SUBSET Kinds]
      /\ SocketList \in [Threads -> Seq(Conns)] /\ Handles \in [Threads -> Seq(Conns)]
      /\ \A u \in Threads : Len(SocketList[u]) <= Len(Handles[u])
  BY <1>1 DEF LoopsTyped, WorkOK
<1>5. /\ ConnsTyped' /\ AllConns' /\ Fixed /\ client' = client /\ socket' = socket
      /\ UNCHANGED NotThread
      /\ UNCHANGED <<NotEvent, msgs, gChildThreads, mpc, newsock, mthread>>
  BY <1>1, QuietKeeps DEF ConnsTyped
<1>6. /\ Handles' \in [Threads -> Seq(Conns)]
      /\ \A u \in Threads : Len(SocketList[u]) <= Len(Handles'[u])
  <2> DEFINE s == SocketList[t]
             h == Handles[t]
             new == s \o SubSeq(h, Len(s) + 1, Len(h))
  <2>1. new \in Seq(Conns) /\ Len(new) >= Len(s)
    BY <1>4, Renumbered
  <2>2. Handles' = [Handles EXCEPT ![t] = new]
    BY <1>1 DEF RenumberThreadArray
  <2> HIDE DEF new
  <2> QED
    BY <1>4, <2>1, <2>2
<1>7. ListsOK' /\ WorkOK' /\ pc' \in [Threads -> Labels]
  BY <1>1, <1>2, <1>3, <1>5, <1>6, EventKeeps
<1>8. /\ todo' \in [Threads -> SUBSET Kinds] /\ i' \in [Threads -> Nat]
      /\ todo'[t] = {} /\ \A u \in Threads \ {t} : todo'[u] = todo[u]
  BY <1>1, <1>4
<1>9. LoopsTyped'
  BY <1>1, <1>5, <1>6, <1>7, <1>8, EventTyped DEF LoopsTyped
<1>10. AbortsOK'
  <2>1. \A c \in Conns : net'[c] \subseteq net[c]
    BY <1>1
  <2>2. \A u \in Threads : "abort" \in todo'[u] /\ cur'[u] \in Conns => client[cur'[u]] = "reset"
    BY <1>1, <1>8 DEF AbortsOK
  <2> QED
    BY <1>1, <1>5, <2>1, <2>2, EventAborts
<1> QED
  BY <1>5, <1>7, <1>9, <1>10 DEF EchoInv, TypeOK

LEMMA HandleIoStep ==
  ASSUME EchoInv, NEW t \in Threads, HandleIo(t)
  PROVE  EchoInv'
<1>1. /\ TypeOK /\ ConnsTyped /\ LoopsTyped /\ AllConns /\ AbortsOK /\ ListsOK /\ WorkOK
      /\ server = "event" /\ pc[t] \in IoLabels /\ Fixed /\ UNCHANGED NotThread
      /\ UNCHANGED <<NotEvent, rest, msgs, gChildThreads, mpc, newsock, mthread, peerVars, client,
                     inbox, urgent, received, sent, out, pending, partial, closing, armed, net, cur,
                     Handles, waits, stopped>>
  BY DEF EchoInv, TypeOK, HandleIo, IoLabels, NotThread, NotEvent, peerVars, Fixed
<1>2. /\ pc \in [Threads -> Labels] /\ i \in [Threads -> Nat] /\ todo \in [Threads -> SUBSET Kinds]
      /\ SocketList \in [Threads -> Seq(Conns)] /\ Event \in [Threads -> 0 .. 1]
      /\ socket \in [Conns -> {"none", "open", "closed", "lost"}]
      /\ \A u \in Threads : Len(SocketList[u]) <= Len(Handles'[u])
  BY <1>1 DEF LoopsTyped, ConnsTyped, WorkOK
<1>3. PICK c \in Conns : c = cur[t] /\ Listed(t, c)
  BY <1>1, EventAt
<1>4. /\ todo' \in [Threads -> SUBSET Kinds] /\ i' \in [Threads -> Nat]
      /\ \A u \in Threads : todo'[u] \subseteq todo[u]
  <2>1. CASE UNCHANGED todo /\ i' = Set(i, t, IF t = 0 THEN 0 ELSE i[t] + 1)
    BY <1>2, <2>1
  <2>2. CASE UNCHANGED i /\ \E ev \in todo[t] : todo' = Set(todo, t, todo[t] \ {ev})
    BY <1>2, <2>2
  <2> QED
    BY <2>1, <2>2 DEF HandleIo
<1>5. AbortsOK'
  <2>1. \A u \in Threads : "abort" \in todo'[u] /\ cur'[u] \in Conns => client[cur'[u]] = "reset"
    BY <1>1, <1>4 DEF AbortsOK
  <2>2. \A d \in Conns : net'[d] \subseteq net[d]
    BY <1>1
  <2> QED
    BY <1>1, <2>1, <2>2, EventAborts
<1>6. CASE UNCHANGED socket /\ \E l \in Labels : Stays(t, l)
  <2>1. PICK l \in Labels : Stays(t, l)
    BY <1>6
  <2>2. PcTo(t, l) /\ UNCHANGED <<SocketList, Event, socket>>
    BY <1>6, <2>1 DEF Stays
  <2>3. ListsOK' /\ WorkOK' /\ pc' \in [Threads -> Labels]
    BY <1>1, <1>2, <1>3, <2>2, EventKeeps
  <2>4. ConnsTyped'
    BY <1>1, <2>2 DEF ConnsTyped, Fixed
  <2>5. LoopsTyped'
    BY <1>1, <1>4, <2>2, <2>3, EventTyped DEF LoopsTyped
  <2>6. AllConns'
    BY <1>1, <2>2, NoConn DEF Same
  <2> QED
    BY <1>5, <2>3, <2>4, <2>5, <2>6 DEF EchoInv, TypeOK
<1>7. CASE "abort" \in todo[t] /\ RemoveSocketObj(t, c) /\ Close(c)
  <2>1. client[c] = "reset"
    BY <1>1, <1>3, <1>7 DEF AbortsOK
  <2>2. /\ socket' \in [Conns -> {"none", "open", "closed", "lost"}]
        /\ \A d \in Conns \ {c} : socket'[d] = socket[d]
    BY <1>2, <1>7
  <2>3. /\ ListsOK' /\ WorkOK' /\ pc' \in [Threads -> Labels]
        /\ SocketList' \in [Threads -> Seq(Conns)] /\ Event' \in [Threads -> 0 .. 1]
    BY <1>1, <1>3, <1>7, <2>2, EventDrops
  <2>4. ConnsTyped'
    BY <1>1, <2>2 DEF ConnsTyped, Fixed
  <2>5. LoopsTyped'
    BY <1>1, <1>4, <2>3, EventTyped DEF LoopsTyped
  <2>6. AllConns'
    BY <1>1, <1>3, <1>7, <2>1, SocketConns
  <2> QED
    BY <1>5, <2>3, <2>4, <2>5, <2>6 DEF EchoInv, TypeOK
<1>8. \A l : l \in {"wait", "scan", "read", "send", "drain"} => l \in Labels
  BY DEF Labels, IoLabels
<1> QED
  <2>1. CASE todo[t] = {} /\ Stays(t, IF t = 0 THEN "wait" ELSE "scan") /\ UNCHANGED socket
    BY <1>6, <1>8, <2>1
  <2>2. ASSUME NEW ev \in todo[t],
               IF ev = "abort" THEN RemoveSocketObj(t, cur[t]) /\ Close(cur[t])
               ELSE Stays(t, CASE ev = "read" -> "read" [] ev = "write" -> "send"
                               [] ev = "close" -> "drain") /\ UNCHANGED socket
        PROVE  EchoInv'
    <3>1. ev \in {"read", "write", "close", "abort"}
      BY <1>2 DEF Kinds
    <3>2. CASE ev = "abort"
      BY <1>3, <1>7, <2>2, <3>2
    <3>3. CASE ev = "read"
      BY <1>6, <1>8, <2>2, <3>3
    <3>4. CASE ev = "write"
      BY <1>6, <1>8, <2>2, <3>4
    <3>5. CASE ev = "close"
      BY <1>6, <1>8, <2>2, <3>5
    <3> QED
      BY <3>1, <3>2, <3>3, <3>4, <3>5
  <2> QED
    BY <2>1, <2>2 DEF HandleIo

LEMMA EventReceivesStep ==
  ASSUME EchoInv, NEW t \in Threads, EventReceives(t)
  PROVE  EchoInv'
<1>1. /\ TypeOK /\ ConnsTyped /\ LoopsTyped /\ AllConns /\ AbortsOK /\ ListsOK /\ WorkOK
      /\ server = "event" /\ pc[t] \in IoLabels /\ Fixed /\ UNCHANGED NotThread
      /\ UNCHANGED <<NotEvent, rest, msgs, gChildThreads, mpc, newsock, mthread, cur, i, Handles,
                     waits, stopped, todo>>
  BY DEF EchoInv, TypeOK, EventReceives, IoLabels, Thread, NotThread, NotEvent, Fixed
<1>2. /\ SocketList \in [Threads -> Seq(Conns)] /\ Event \in [Threads -> 0 .. 1]
      /\ socket \in [Conns -> {"none", "open", "closed", "lost"}]
      /\ \A u \in Threads : Len(SocketList[u]) <= Len(Handles'[u])
  BY <1>1 DEF LoopsTyped, ConnsTyped, WorkOK
<1>3. PICK c \in Conns : c = cur[t] /\ Listed(t, c) /\ socket[c] = "open"
  BY <1>1, EventAt
<1>4. Receives(c)
  BY <1>3 DEF EventReceives, Receives
<1>5. ConnsTyped' /\ client' = client /\ net' = net
  BY <1>1, <1>4, ReceiveTyped
  DEF Receives, ReceivesData, ReceivesEmpty, LateEnd, LastEnd, ReceivesEnd, ReceivesNothing,
      ReceiveFails, Received
<1>6. AbortsOK'
  BY <1>1, <1>5, AbortsKeep DEF Fixed
<1>7. /\ ListsOK' /\ WorkOK' /\ pc' \in [Threads -> Labels]
      /\ SocketList' \in [Threads -> Seq(Conns)] /\ Event' \in [Threads -> 0 .. 1]
  <2>1. CASE /\ ReceivesData(c) \/ ReceivesEmpty(c) \/ LateEnd(c)
             /\ \E l \in IoLabels : Stays(t, l)
    <3>1. socket' = socket
      BY <2>1 DEF ReceivesData, ReceivesEmpty, LateEnd
    <3>2. PICK l \in Labels : PcTo(t, l) /\ UNCHANGED <<SocketList, Event>>
      BY <2>1 DEF Stays, Labels
    <3> QED
      BY <1>1, <1>2, <1>3, <3>1, <3>2, EventKeeps
  <2>2. CASE (LastEnd(c) \/ ReceiveFails(c)) /\ RemoveSocketObj(t, c)
    <3>1. \A d \in Conns \ {c} : socket'[d] = socket[d]
      BY <1>2, <2>2 DEF LastEnd, ReceiveFails
    <3> QED
      BY <1>1, <1>3, <2>2, <3>1, EventDrops
  <2>3. "send" \in IoLabels /\ "drain" \in IoLabels
    BY DEF IoLabels
  <2> QED
    BY <1>3, <2>1, <2>2, <2>3 DEF EventReceives
<1>8. LoopsTyped'
  BY <1>1, <1>7, EventTyped DEF LoopsTyped
<1>9. Working(c)
  BY <1>1, <1>3, <1>5, <1>8 DEF Working, TypeOK
<1>10. AllConns'
  BY <1>4, <1>9, DataConns, EmptyConns, EndConns DEF Receives
<1> QED
  BY <1>5, <1>6, <1>7, <1>8, <1>10 DEF EchoInv, TypeOK

LEMMA EventSendsStep ==
  ASSUME EchoInv, NEW t \in Threads, EventSends(t)
  PROVE  EchoInv'
<1>1. /\ TypeOK /\ ConnsTyped /\ LoopsTyped /\ AllConns /\ AbortsOK /\ ListsOK /\ WorkOK
      /\ server = "event" /\ pc[t] \in IoLabels /\ Fixed /\ UNCHANGED NotThread
      /\ UNCHANGED <<NotEvent, rest, msgs, gChildThreads, mpc, newsock, mthread, cur, i, Handles,
                     waits, stopped, todo>>
  BY DEF EchoInv, TypeOK, EventSends, IoLabels, Thread, NotThread, NotEvent, Fixed
<1>2. /\ SocketList \in [Threads -> Seq(Conns)] /\ Event \in [Threads -> 0 .. 1]
      /\ socket \in [Conns -> {"none", "open", "closed", "lost"}]
      /\ partial \in [Conns -> 0 .. 1]
      /\ \A u \in Threads : Len(SocketList[u]) <= Len(Handles'[u])
  BY <1>1 DEF LoopsTyped, ConnsTyped, WorkOK
<1>3. PICK c \in Conns : c = cur[t] /\ Listed(t, c) /\ socket[c] = "open"
  BY <1>1, EventAt
<1>4. \/ SendsAll(c) /\ Stays(t, "send")
      \/ SendsSome(c, FirstBytes(c)) /\ partial' = Set(partial, c, 1) /\ Stays(t, "send")
      \/ (WouldBlock(c) \/ SentAll(c)) /\ Stays(t, "io") /\ UNCHANGED socket
      \/ SentLast(c) /\ RemoveSocketObj(t, c)
      \/ SendFails(c) /\ RemoveSocketObj(t, c) /\ Close(c)
  BY <1>3 DEF EventSends
<1>5. client' = client /\ net' = net
  BY <1>4 DEF SendsAll, SendsSome, Sends, WouldBlock, SentAll, SentLast, SendFails, Unsent, peerVars
<1>6. AbortsOK'
  BY <1>1, <1>5, AbortsKeep DEF Fixed
<1>7. CASE \/ SendsAll(c) /\ Stays(t, "send")
           \/ SendsSome(c, FirstBytes(c)) /\ partial' = Set(partial, c, 1) /\ Stays(t, "send")
           \/ (WouldBlock(c) \/ SentAll(c)) /\ Stays(t, "io") /\ UNCHANGED socket
  <2>1. socket' = socket /\ partial' \in [Conns -> 0 .. 1]
    <3>1. socket' = socket
      BY <1>7 DEF SendsAll, SendsSome, Sends
    <3>2. partial' = partial \/ partial' = Set(partial, c, 1)
      BY <1>7 DEF SendsAll, WouldBlock, SentAll, Unsent
    <3> QED
      BY <1>2, <3>1, <3>2, SMTT(20)
  <2>2. SendsAll(c) \/ SendsPart(c) \/ WouldBlock(c) \/ SentAll(c)
    BY <1>7 DEF SendsPart
  <2>3. ConnsTyped'
    BY <1>1, <1>2, <2>1, <2>2, SendTyped
  <2>4. PICK l \in Labels : PcTo(t, l) /\ UNCHANGED <<SocketList, Event>>
    BY <1>7 DEF Stays, Labels, IoLabels
  <2>5. ListsOK' /\ WorkOK' /\ pc' \in [Threads -> Labels]
    BY <1>1, <1>2, <1>3, <2>1, <2>4, EventKeeps
  <2>6. LoopsTyped'
    BY <1>1, <1>2, <2>4, <2>5, EventTyped DEF LoopsTyped
  <2>7. Working(c)
    BY <1>1, <1>3, <2>3, <2>6 DEF Working, TypeOK
  <2>8. AllConns'
    <3>1. CASE SendsAll(c)
      BY <2>7, <3>1, SendAllConns
    <3>2. CASE SendsSome(c, FirstBytes(c)) /\ partial' = Set(partial, c, 1)
      BY <2>7, <3>2, SendPartConns
    <3>3. CASE WouldBlock(c) \/ SentAll(c)
      BY <2>1, <2>7, <3>3, IdleConns
    <3> QED
      BY <1>7, <3>1, <3>2, <3>3
  <2> QED
    BY <1>6, <2>3, <2>5, <2>6, <2>8 DEF EchoInv, TypeOK
<1>8. CASE SentLast(c) \/ SendFails(c)
  <2>1. /\ RemoveSocketObj(t, c) /\ socket' = Set(socket, c, "closed") /\ partial' = partial
    BY <1>4, <1>8 DEF SendsAll, SendsSome, Sends, WouldBlock, SentAll, SentLast, SendFails,
                      Closes, Unsent
  <2>2. /\ socket' \in [Conns -> {"none", "open", "closed", "lost"}]
        /\ \A d \in Conns \ {c} : socket'[d] = socket[d]
    BY <1>2, <2>1
  <2>3. ConnsTyped'
    BY <1>1, <1>2, <1>8, <2>1, <2>2, SendTyped
  <2>4. /\ ListsOK' /\ WorkOK' /\ pc' \in [Threads -> Labels]
        /\ SocketList' \in [Threads -> Seq(Conns)] /\ Event' \in [Threads -> 0 .. 1]
    BY <1>1, <1>3, <2>1, <2>2, EventDrops
  <2>5. LoopsTyped'
    BY <1>1, <2>4, EventTyped DEF LoopsTyped
  <2>6. Working(c)
    BY <1>1, <1>3, <2>3, <2>5 DEF Working, TypeOK
  <2>7. AllConns'
    BY <1>8, <2>1, <2>6, SendFailsConns, SentLastConns
  <2> QED
    BY <1>6, <2>3, <2>4, <2>5, <2>7 DEF EchoInv, TypeOK
<1> QED
  BY <1>4, <1>7, <1>8

\* A step of anybody, and a step of nobody.
LEMMA EchoStep == EchoInv /\ [Next]_vars => EchoInv'
<1> SUFFICES ASSUME EchoInv, [Next]_vars PROVE EchoInv'
  OBVIOUS
<1>1. ASSUME NEW c \in Conns, Peers(c)
      PROVE  EchoInv'
  BY <1>1, PeersStep
<1>2. CASE SelectLoop
  BY <1>2, SelectStep, SelectReceivesStep, SelectSendsStep, SelectWritesStep, SelectExceptStep
  DEF SelectLoop
<1>3. CASE AsyncLoop
  BY <1>3, AsyncAcceptsStep, WindowProcStep, AsyncReceivesStep, AsyncSendsStep DEF AsyncLoop
<1>4. CASE EventMain
  BY <1>4, EventAcceptsStep, MainStep DEF EventMain
<1>5. CASE MainWakes
  BY <1>5, MainWakesStep
<1>6. ASSUME NEW t \in Threads, EventLoop(t)
      PROVE  EchoInv'
  BY <1>6, WakesStep, ScanStep, HandleIoStep, EventReceivesStep, EventSendsStep, RenumberStep
  DEF EventLoop
<1>7. CASE UNCHANGED vars
  <2>1. UNCHANGED <<server, gProtocol, client, inbox, urgent, armed, net, msgs, socket, received,
                    sent, out, pending, closing, partial, pc, cur, rest, fdread, fdwrite, fdexcept,
                    todo, i, SocketList, Handles, Event, waits, gChildThreads, mpc, newsock,
                    mthread, stopped>>
    BY <1>7 DEF vars, peerVars, eventVars, connVars, setVars, threadVars
  <2>2. TypeOK' /\ Fixed
    BY <2>1 DEF EchoInv, TypeOK, ConnsTyped, LoopsTyped, Fixed
  <2>3. AllConns'
    BY <2>1, <2>2, NoConn DEF EchoInv, Same
  <2>4. ListsOK'
    BY <2>1, ListsKeep DEF EchoInv, ListsOK, NewSocket
  <2>5. WorkOK' /\ AbortsOK'
    BY <2>1 DEF EchoInv, WorkOK, AbortsOK, Listed, Distinct, Members
  <2> QED
    BY <2>2, <2>3, <2>4, <2>5 DEF EchoInv
<1> QED
  BY <1>1, <1>2, <1>3, <1>4, <1>5, <1>6, <1>7 DEF Next

LEMMA EchoAlways == Spec => []EchoInv
<1>1. Init => EchoInv
  BY EchoInit
<1>2. EchoInv /\ [Next]_vars => EchoInv'
  BY EchoStep
<1> QED
  BY <1>1, <1>2, PTL DEF Spec
-----------------------------------------------------------------------------
(* The theorems. *)

\* While no send took a part of a buffer, the bytes sent are the bytes 1 .. n.
LEMMA InOrder ==
  ASSUME NEW s \in Seq(Nat), \A k \in 1 .. Len(s) : s[k] = k
  PROVE  s = [n \in 1 .. Len(s) |-> n]
<1>1. s = [n \in 1 .. Len(s) |-> s[n]]
  OBVIOUS
<1> QED
  BY <1>1

LEMMA EchoOf == EchoInv => EchoFaithful
<1> SUFFICES ASSUME EchoInv, NEW c \in Conns
             PROVE  /\ partial[c] = 0 => sent[c] = [n \in 1 .. Len(sent[c]) |-> n]
                    /\ socket[c] = "open" \/ Left(c) =>
                         Len(sent[c]) + BytesPending(c) = 2 * received[c]
                    /\ Left(c) => /\ BytesPending(c) = 0 \/ TooLong(c)
                                  /\ inbox[c] = <<>> \/ server = "async" \/ Udp
  BY DEF EchoFaithful, Left
<1>1. TypeOK /\ ConnOK(c)
  BY DEF EchoInv, AllConns
<1>2. /\ pending[c] \in Seq(Seq(Nat)) /\ sent[c] \in Seq(Nat) /\ Len(sent[c]) \in Nat
      /\ received[c] \in Nat /\ 2 * received[c] \in Nat
  BY <1>1, ConnTypes
<1>3. ASSUME socket[c] = "open" \/ Left(c)
      PROVE  /\ Len(sent[c]) + BytesPending(c) = 2 * received[c]
             /\ pending[c] = <<>> => BytesPending(c) = 0
  <2>1. Queued(pending[c], Len(sent[c]), 2 * received[c], partial[c] = 0)
    BY <1>1, <1>3 DEF ConnOK
  <2>2. BytesPending(c) = 2 * received[c] - Len(sent[c])
    BY <1>2, <2>1, BytesQueued
  <2>3. pending[c] = <<>> => Len(sent[c]) = 2 * received[c]
    <3>1. SUFFICES ASSUME pending[c] = <<>> PROVE Len(sent[c]) = 2 * received[c]
      OBVIOUS
    <3>2. Queued(<<>>, Len(sent[c]), 2 * received[c], partial[c] = 0)
      BY <2>1, <3>1
    <3> QED
      BY <1>2, <3>2, QueuedNone
  <2> QED
    BY <1>2, <2>2, <2>3
<1>4. ASSUME partial[c] = 0
      PROVE  sent[c] = [n \in 1 .. Len(sent[c]) |-> n]
  <2>1. \A k \in 1 .. Len(sent[c]) : sent[c][k] = k
    BY <1>1, <1>4 DEF ConnOK
  <2> QED
    BY <1>2, <2>1, InOrder
<1>5. ASSUME Left(c)
      PROVE  /\ BytesPending(c) = 0 \/ TooLong(c)
             /\ inbox[c] = <<>> \/ server = "async" \/ Udp
  BY <1>1, <1>3, <1>5 DEF ConnOK, Finished
<1> QED
  BY <1>3, <1>4, <1>5

\* Every reachable state of the three servers satisfies the types: the buffers
\* of a connection are in the room the kernel has, every list and array of a
\* thread holds sockets that exist.
THEOREM TypesKept == Spec => []TypeOK
<1>1. EchoInv => TypeOK
  BY DEF EchoInv
<1> QED
  BY <1>1, EchoAlways, PTL

\* EchoFaithful, of ReceivePendingData and SendPendingData of the three
\* servers: a connection the client did not abort, open or closed, has sent
\* what it received but for what its pending list holds; as long as no send
\* took a part of a buffer what was sent is what was received, in order; and
\* it is closed with echoes pending only when a datagram was longer than the
\* buffer and recvfrom failed.
THEOREM EchoIsFaithful == Spec => []EchoFaithful
<1>1. EchoInv => EchoFaithful
  BY EchoOf
<1> QED
  BY <1>1, EchoAlways, PTL
-----------------------------------------------------------------------------
(* The event server's threads watch the sockets they have.  What a step     *)
(* leaves alone stays in order.                                             *)

LEMMA ThreadKeeps ==
  ASSUME NEW t \in Children, ThreadOK(t), pc'[t] = pc[t], SocketList'[t] = SocketList[t],
         Handles'[t] = Handles[t], waits'[t] = waits[t], t \in Made' <=> t \in Made,
         Event[t] = 1 => Event'[t] = 1,
         mpc = "signal" /\ mthread = t => Event'[t] = 1 \/ (mpc' = "signal" /\ mthread' = t)
  PROVE  ThreadOK(t)'
BY DEF ThreadOK, Matches

LEMMA WatchKeeps ==
  ASSUME WatchOK, UNCHANGED <<gChildThreads, mpc, mthread, Event, Handles, waits>>,
         \A t \in Children : pc'[t] = pc[t] /\ SocketList'[t] = SocketList[t]
  PROVE  WatchOK'
<1>1. Made' = Made
  BY DEF Made
<1>2. \A t \in Children : ThreadOK(t)'
  BY <1>1, ThreadKeeps DEF WatchOK
<1> QED
  BY <1>1, <1>2 DEF WatchOK

LEMMA ThreadStep ==
  ASSUME WatchOK, UNCHANGED NotThread, NEW t \in Threads,
         \A u \in Children \ {t} : /\ pc'[u] = pc[u] /\ SocketList'[u] = SocketList[u]
                                   /\ Handles'[u] = Handles[u] /\ waits'[u] = waits[u]
                                   /\ Event'[u] = Event[u],
         t \in Children => ThreadOK(t)'
  PROVE  WatchOK'
<1>1. Made' = Made /\ UNCHANGED <<gChildThreads, mpc, mthread>>
  BY DEF Made, NotThread
<1>2. \A u \in Children : ThreadOK(u)'
  <2> SUFFICES ASSUME NEW u \in Children, u # t PROVE ThreadOK(u)'
    OBVIOUS
  <2> QED
    BY <1>1, ThreadKeeps DEF WatchOK
<1> QED
  BY <1>1, <1>2 DEF WatchOK

LEMMA WatchInit == Init => WatchOK
<1> SUFFICES ASSUME Init PROVE WatchOK
  OBVIOUS
<1>1. gChildThreads = <<>> /\ mpc = "accept" /\ Made = {}
  BY DEF Init, Made
<1>2. ASSUME NEW t \in Children
      PROVE  pc[t] = "none" /\ SocketList[t] = <<>> /\ Handles[t] = <<>>
  BY ThreadFacts DEF Init
<1>3. \A t \in Children : ThreadOK(t)
  BY <1>1, <1>2 DEF ThreadOK, Matches
<1> QED
  BY <1>1, <1>3 DEF WatchOK

\* The other servers and the clients do not come near the threads.
LEMMA WithoutOthers ==
  ASSUME SocketList \in [Threads -> Seq(Conns)], NEW t \in Threads, NEW c, Without(t, c)
  PROVE  \A u \in Threads \ {t} : SocketList'[u] = SocketList[u]
BY DEF Without

LEMMA OthersWatch ==
  ASSUME EchoInv, WatchOK, SelectLoop \/ AsyncLoop
  PROVE  WatchOK'
<1>1. /\ pc \in [Threads -> Labels] /\ SocketList \in [Threads -> Seq(Conns)]
      /\ 0 \in Threads /\ 0 \notin Children /\ Children \subseteq Threads
  BY ThreadFacts DEF EchoInv, TypeOK, LoopsTyped
<1>2. ASSUME UNCHANGED threadVars, pc' = pc \/ (\E l : PcTo(0, l)),
             \/ SocketList' = SocketList
             \/ \E s : SocketList' = Set(SocketList, 0, s)
             \/ \E c : Without(0, c)
      PROVE  WatchOK'
  <2>1. UNCHANGED <<gChildThreads, mpc, mthread, Event, Handles, waits>>
    BY <1>2 DEF threadVars
  <2>2. \A t \in Children : pc'[t] = pc[t]
    BY <1>1, <1>2
  <2>3. \A t \in Threads \ {0} : SocketList'[t] = SocketList[t]
    BY <1>1, <1>2, WithoutOthers
  <2> QED
    BY <1>1, <2>1, <2>2, <2>3, WatchKeeps
<1>3. CASE Select
  BY <1>2, <1>3 DEF Select, SelectAccepts, NotSelect
<1>4. CASE SelectReceives
  BY <1>2, <1>4 DEF SelectReceives, Stage, Removed
<1>5. CASE SelectSends
  BY <1>2, <1>5 DEF SelectSends, Stage, Removed
<1>6. CASE SelectWrites
  BY <1>2, <1>6 DEF SelectWrites, Stage, NotSelect
<1>7. CASE SelectExcept
  BY <1>2, <1>7 DEF SelectExcept, NextSocket, NotSelect
<1>8. ASSUME NEW c \in Conns, AsyncAccepts(c)
      PROVE  WatchOK'
  BY <1>2, <1>8 DEF AsyncAccepts, NotAsync
<1>9. CASE WindowProc
  <2>1. UNCHANGED threadVars
    BY <1>9 DEF WindowProc, NotAsync
  <2>2. Head(msgs)[2] \in {"read", "write", "close", "abort"}
    BY CalmTail, <1>9 DEF EchoInv, TypeOK, LoopsTyped, AbortsOK, Calm, WindowProc, Kinds
  <2>3. (pc' = pc \/ \E l : PcTo(0, l)) /\ (SocketList' = SocketList \/ \E c : Without(0, c))
    BY <1>9, <2>2 DEF WindowProc, AsyncRemoves
  <2> QED
    BY <1>2, <2>1, <2>3
<1>10. CASE AsyncReceives
  BY <1>2, <1>10 DEF AsyncReceives, AsyncRemoves, NotAsync
<1>11. CASE AsyncSends
  BY <1>2, <1>11 DEF AsyncSends, AsyncRemoves, NotAsync
<1> QED
  BY <1>3, <1>4, <1>5, <1>6, <1>7, <1>8, <1>9, <1>10, <1>11 DEF SelectLoop, AsyncLoop

LEMMA PeersWatch ==
  ASSUME WatchOK, NEW c \in Conns, Peers(c)
  PROVE  WatchOK'
<1>1. UNCHANGED ServerVars
  BY DEF Peers, Connect, ClientSends, ClientSendsEmpty, ClientSendsLong, ClientSendsUrgent, Shutdown, Reset,
         ClientReads, Notify
<1> QED
  BY <1>1, WatchKeeps DEF ServerVars, threadVars

\* Main inserts the socket: the thread's next wait, or its own event, has it.
LEMMA InsertWatch ==
  ASSUME EchoInv, WatchOK, NEW t \in Children, t \in Made, InsertSocketObj(t, newsock),
         newsock \in Conns, mpc \in {"assign", "insert"}, mpc' = "signal", mthread' = t,
         UNCHANGED <<pc, waits, Event, gChildThreads>>
  PROVE  WatchOK'
<1> DEFINE h == Handles[t]
           n == Len(SocketList[t])
           new == WithNew(h, n, newsock)
<1>1. /\ SocketList \in [Threads -> Seq(Conns)] /\ Handles \in [Threads -> Seq(Conns)]
      /\ t \in Threads /\ Children \subseteq Threads /\ SocketList[t] \in Seq(Conns)
  BY ThreadFacts DEF EchoInv, TypeOK, LoopsTyped
<1>2. Made' = Made
  BY DEF Made
<1>3. pc[t] # "none" /\ ThreadOK(t) /\ h \in Seq(Conns) /\ n \in Nat /\ n <= Len(h)
  BY <1>1 DEF WatchOK, ThreadOK, Matches
<1>4. /\ SocketList'[t] = Append(SocketList[t], newsock) /\ Handles'[t] = new
      /\ \A u \in Children \ {t} : SocketList'[u] = SocketList[u] /\ Handles'[u] = Handles[u]
  BY <1>1 DEF InsertSocketObj, WithNew
<1>5. new \in Seq(Conns) /\ Len(new) >= n + 1 /\ new[n + 1] = newsock
      /\ \A k \in 1 .. n : new[k] = h[k]
  <2>1. PICK c \in Conns : c = newsock
    OBVIOUS
  <2> HIDE DEF h, n
  <2>2. /\ WithNew(h, n, c) \in Seq(Conns) /\ Len(WithNew(h, n, c)) >= n + 1
        /\ WithNew(h, n, c)[n + 1] = c
        /\ \A k \in 1 .. n : WithNew(h, n, c)[k] = h[k]
    <3>1. h \in Seq(Conns) /\ n \in Nat /\ n <= Len(h)
      BY <1>3
    <3> QED
      BY <3>1, Inserted
  <2> QED
    BY <2>1, <2>2
<1>6. /\ Len(SocketList'[t]) = n + 1 /\ SocketList'[t][n + 1] = newsock
      /\ \A k \in 1 .. n : SocketList'[t][k] = SocketList[t][k]
  BY <1>1, <1>4, SequenceFacts
<1> HIDE DEF new
<1>7. pc[t] # "renumber" => Matches(t)'
  <2> SUFFICES ASSUME pc[t] # "renumber", NEW k \in 1 .. n + 1
               PROVE  Handles'[t][k] = SocketList'[t][k]
    BY <1>4, <1>5, <1>6 DEF Matches
  <2>1. \A j \in 1 .. n : h[j] = SocketList[t][j]
    BY <1>3 DEF ThreadOK, Matches
  <2>2. k = n + 1 \/ k \in 1 .. n
    BY <1>3
  <2> QED
    BY <1>4, <1>5, <1>6, <2>1, <2>2
<1>8. ThreadOK(t)'
  <2>1. Len(Handles'[t]) >= Len(SocketList'[t])
    BY <1>4, <1>5, <1>6
  <2> QED
    BY <1>2, <1>3, <1>7, <2>1 DEF ThreadOK
<1>9. ASSUME NEW u \in Children, u # t
      PROVE  ThreadOK(u)'
  BY <1>2, <1>4, <1>9, ThreadKeeps DEF WatchOK
<1>10. \A u \in Children : ThreadOK(u)'
  BY <1>8, <1>9
<1>11. UNCHANGED gChildThreads /\ mthread' \in Made'
  BY <1>2
<1> QED
  BY <1>2, <1>10, <1>11 DEF WatchOK

LEMMA MainWatch ==
  ASSUME EchoInv, WatchOK, EventMain
  PROVE  WatchOK'
<1>1. /\ mthread \in Threads /\ gChildThreads \in Seq(Children)
      /\ pc \in [Threads -> Labels] /\ Event \in [Threads -> 0 .. 1]
      /\ SocketList \in [Threads -> Seq(Conns)] /\ Handles \in [Threads -> Seq(Conns)]
      /\ Children \subseteq Threads /\ 0 \notin Made /\ Made \subseteq Nat
      /\ mpc \in {"assign", "insert"} => newsock \in Conns
  BY ThreadFacts DEF EchoInv, TypeOK, LoopsTyped, ListsOK, NewSocket, Made
<1>2. mpc \in {"insert", "signal"} => mthread \in Children
  BY <1>1 DEF WatchOK, Threads
<1>3. ASSUME NEW c \in Conns, EventAccepts(c)
      PROVE  WatchOK'
  <2>1. /\ UNCHANGED <<gChildThreads, mthread, Event, Handles, waits, pc, SocketList>>
        /\ mpc = "accept" /\ mpc' \in {"accept", "assign"}
    BY <1>3 DEF EventAccepts, NotMain
  <2>2. Made' = Made
    BY <2>1 DEF Made
  <2>3. \A t \in Children : ThreadOK(t)'
    BY <2>1, <2>2, ThreadKeeps DEF WatchOK
  <2> QED
    BY <2>1, <2>2, <2>3 DEF WatchOK
<1>4. CASE Assign
  <2>1. PICK n \in DOMAIN gChildThreads :
          InsertSocketObj(gChildThreads[n], newsock) /\ mthread' = gChildThreads[n]
    BY <1>4 DEF Assign
  <2>2. /\ mpc = "assign" /\ mpc' = "signal" /\ UNCHANGED <<pc, waits, Event, gChildThreads>>
    BY <1>4 DEF Assign, NotMain
  <2>3. gChildThreads[n] \in Children /\ gChildThreads[n] \in Made
    BY <1>1 DEF WatchOK
  <2> QED
    BY <1>1, <2>1, <2>2, <2>3, InsertWatch
<1>5. CASE CreateChild
  <2>1. PICK t \in Children : /\ t = Len(gChildThreads) + 1 /\ mthread' = t
                              /\ pc' = [pc EXCEPT ![t] = "wait"]
                              /\ gChildThreads' = <<t>> \o gChildThreads
    BY <1>5 DEF CreateChild
  <2>2. /\ mpc = "assign" /\ mpc' = "insert" /\ UNCHANGED <<waits, SocketList, Handles, Event>>
    BY <1>5 DEF CreateChild, NotMain
  <2>3. /\ Len(gChildThreads') = Len(gChildThreads) + 1 /\ Len(gChildThreads) \in Nat
        /\ \A k \in 1 .. Len(gChildThreads') :
             gChildThreads'[k] = t \/ \E j \in 1 .. Len(gChildThreads) : gChildThreads'[k] = gChildThreads[j]
    <3>1. <<t>> \in Seq(Children) /\ Len(<<t>>) = 1 /\ <<t>>[1] = t
      OBVIOUS
    <3>2. /\ Len(gChildThreads') = 1 + Len(gChildThreads)
          /\ \A k \in 1 .. 1 : gChildThreads'[k] = <<t>>[k]
          /\ \A k \in 1 .. Len(gChildThreads) : gChildThreads'[1 + k] = gChildThreads[k]
      BY <1>1, <2>1, <3>1, Concatenated
    <3>3. Len(gChildThreads) \in Nat
      BY <1>1
    <3>4. ASSUME NEW k \in 1 .. Len(gChildThreads'), k # 1
          PROVE  \E j \in 1 .. Len(gChildThreads) : gChildThreads'[k] = gChildThreads[j]
      <4>1. k - 1 \in 1 .. Len(gChildThreads) /\ 1 + (k - 1) = k
        BY <3>2, <3>3, <3>4
      <4> QED
        BY <3>2, <4>1
    <3>5. gChildThreads'[1] = t
      BY <3>1, <3>2
    <3>6. Len(gChildThreads') = Len(gChildThreads) + 1
      BY <3>2, <3>3
    <3> QED
      BY <3>3, <3>4, <3>5, <3>6
  <2>4. Made' = Made \cup {t} /\ t \notin Made
    <3>1. Made' = 1 .. Len(gChildThreads) + 1
      BY <2>3 DEF Made
    <3> QED
      BY <2>1, <2>3, <3>1 DEF Made
  <2>5. \A k \in 1 .. Len(gChildThreads') : gChildThreads'[k] \in Made'
    BY <2>3, <2>4 DEF WatchOK
  <2>6. ASSUME NEW u \in Children, u # t
        PROVE  ThreadOK(u)'
    BY <1>1, <2>1, <2>2, <2>4, <2>6, ThreadKeeps DEF WatchOK
  <2>7. ThreadOK(t)'
    <3>1. ThreadOK(t) /\ SocketList[t] = <<>>
      BY <2>4 DEF WatchOK, ThreadOK
    <3>2. pc'[t] = "wait" /\ t \in Made' /\ SocketList'[t] = <<>> /\ Len(SocketList'[t]) = 0
      BY <1>1, <2>1, <2>2, <2>4, <3>1
    <3>3. Len(Handles'[t]) >= 0
      BY <1>1, <2>2
    <3> QED
      BY <3>2, <3>3 DEF ThreadOK, Matches
  <2>8. \A u \in Children : ThreadOK(u)'
    BY <2>6, <2>7
  <2> QED
    BY <2>1, <2>4, <2>5, <2>8 DEF WatchOK
<1>6. CASE InsertFirst
  <2>1. /\ mpc = "insert" /\ mpc' = "signal" /\ UNCHANGED <<pc, waits, Event, gChildThreads, mthread>>
        /\ InsertSocketObj(mthread, newsock)
    BY <1>6 DEF InsertFirst, NotMain
  <2>2. mthread \in Made /\ mthread \in Children /\ newsock \in Conns
    BY <1>1, <1>2, <2>1 DEF WatchOK
  <2> QED
    BY <2>1, <2>2, InsertWatch
<1>7. CASE Signal
  <2>1. /\ mpc = "signal" /\ mpc' = "accept" /\ Event' = [Event EXCEPT ![mthread] = 1]
        /\ UNCHANGED <<pc, waits, gChildThreads, mthread, SocketList, Handles>>
    BY <1>7 DEF Signal, SignalThread, NotMain
  <2>2. Made' = Made
    BY <2>1 DEF Made
  <2>3. \A t \in Children : ThreadOK(t)'
    <3>1. ASSUME NEW t \in Children
          PROVE  (Event[t] = 1 => Event'[t] = 1) /\ (mthread = t => Event'[t] = 1)
      BY <1>1, <2>1
    <3> QED
      BY <2>1, <2>2, <3>1, ThreadKeeps DEF WatchOK
  <2> QED
    BY <2>1, <2>2, <2>3 DEF WatchOK
<1> QED
  BY <1>3, <1>4, <1>5, <1>6, <1>7 DEF EventMain

\* A thread's step that leaves its arrays alone; one that takes a socket off
\* the list; one that renumbers; and the start of a wait.
LEMMA StaysWatch ==
  ASSUME EchoInv, WatchOK, UNCHANGED NotThread, NEW t \in Threads, NEW l \in Labels, PcTo(t, l),
         l \notin {"none", "renumber"}, pc[t] \notin {"none", "renumber"}, t = 0 \/ l # "wait",
         UNCHANGED <<SocketList, Handles, Event, waits>>
  PROVE  WatchOK'
<1>1. pc \in [Threads -> Labels] /\ 0 \notin Children /\ Made' = Made
  BY ThreadFacts DEF EchoInv, TypeOK, LoopsTyped, NotThread, Made
<1>2. pc'[t] = l /\ \A u \in Threads \ {t} : pc'[u] = pc[u]
  BY <1>1
<1>3. t \in Children => ThreadOK(t)'
  BY <1>1, <1>2 DEF WatchOK, ThreadOK, Matches
<1> QED
  BY <1>2, <1>3, ThreadFacts, ThreadStep

LEMMA RemovesWatch ==
  ASSUME EchoInv, EchoInv', server = "event", WatchOK, UNCHANGED NotThread, NEW t \in Threads,
         NEW c, RemoveSocketObj(t, c), pc[t] \notin {"none", "renumber"},
         UNCHANGED <<Handles, waits>>
  PROVE  WatchOK'
<1>1. /\ pc \in [Threads -> Labels] /\ Event \in [Threads -> 0 .. 1]
      /\ SocketList \in [Threads -> Seq(Conns)]
      /\ Handles \in [Threads -> Seq(Conns)] /\ SocketList' \in [Threads -> Seq(Conns)]
      /\ Made' = Made /\ Children \subseteq Threads /\ server' = server
  BY ThreadFacts DEF EchoInv, TypeOK, LoopsTyped, NotThread, NotEvent, Made
<1>2. /\ pc'[t] = "renumber" /\ \A u \in Threads \ {t} : pc'[u] = pc[u] /\ Event'[u] = Event[u]
  BY <1>1 DEF RemoveSocketObj
<1>3. \A u \in Threads \ {t} : SocketList'[u] = SocketList[u]
  BY <1>1, WithoutOthers DEF RemoveSocketObj
<1>4. Len(SocketList'[t]) <= Len(Handles'[t])
  BY <1>1 DEF EchoInv, WorkOK
<1>5. Len(Handles'[t]) >= Len(SocketList'[t])
  BY <1>1, <1>4
<1>6. t \in Children => ThreadOK(t)'
  BY <1>1, <1>2, <1>5 DEF WatchOK, ThreadOK
<1> QED
  BY <1>1, <1>2, <1>3, <1>6, ThreadStep

LEMMA RenumbersWatch ==
  ASSUME EchoInv, WatchOK, UNCHANGED NotThread, NEW t \in Threads, RenumberThreadArray(t),
         pc'[t] = "scan" \/ t = 0, pc[t] # "none", UNCHANGED <<SocketList, waits>>,
         \A u \in Threads \ {t} : pc'[u] = pc[u] /\ Event'[u] = Event[u]
  PROVE  WatchOK'
<1>1. /\ SocketList \in [Threads -> Seq(Conns)] /\ Handles \in [Threads -> Seq(Conns)]
      /\ Made' = Made /\ Children \subseteq Threads /\ 0 \notin Children
  BY ThreadFacts DEF EchoInv, TypeOK, LoopsTyped, NotThread, Made
<1> DEFINE s == SocketList[t]
           h == Handles[t]
           new == s \o SubSeq(h, Len(s) + 1, Len(h))
<1>2. new \in Seq(Conns) /\ Len(new) >= Len(s) /\ \A k \in 1 .. Len(s) : new[k] = s[k]
  BY <1>1, Renumbered
<1>3. Handles' = [Handles EXCEPT ![t] = new]
  BY DEF RenumberThreadArray
<1> HIDE DEF new
<1>4. Handles'[t] = new /\ \A u \in Threads \ {t} : Handles'[u] = Handles[u]
  BY <1>1, <1>3
<1>5. Matches(t)'
  BY <1>2, <1>4 DEF Matches
<1>6. t \in Children => ThreadOK(t)'
  BY <1>1, <1>5 DEF WatchOK, ThreadOK
<1> QED
  BY <1>1, <1>4, <1>6, ThreadStep

LEMMA WaitsWatch ==
  ASSUME EchoInv, WatchOK, UNCHANGED NotThread, NEW t \in Children, pc[t] = "scan",
         PcTo(t, "wait"), waits' = Set(waits, t, Waits(t)),
         UNCHANGED <<SocketList, Handles, Event>>
  PROVE  WatchOK'
<1>1. /\ pc \in [Threads -> Labels] /\ waits \in [Threads -> SUBSET Conns]
      /\ SocketList \in [Threads -> Seq(Conns)] /\ Handles \in [Threads -> Seq(Conns)]
      /\ Made' = Made /\ Children \subseteq Threads /\ t \in Threads
  BY ThreadFacts DEF EchoInv, TypeOK, LoopsTyped, NotThread, Made
<1>2. /\ pc'[t] = "wait" /\ waits'[t] = Waits(t)
      /\ \A u \in Threads \ {t} : pc'[u] = pc[u] /\ waits'[u] = waits[u]
  BY <1>1
<1>3. Matches(t) /\ t \in Made
  BY DEF WatchOK, ThreadOK
<1>4. \A k \in 1 .. Len(SocketList[t]) : SocketList[t][k] \in Waits(t)
  <2> DEFINE h == Handles[t]
             n == Len(SocketList[t])
  <2>1. h \in Seq(Conns) /\ n \in Nat /\ n <= Len(h) /\ \A k \in 1 .. n : h[k] = SocketList[t][k]
    BY <1>1, <1>3 DEF Matches
  <2> HIDE DEF h, n
  <2>2. \A k \in 1 .. n : h[k] \in Conns
    BY <2>1
  <2>3. DOMAIN SubSeq(h, 1, n) = 1 .. n /\ \A k \in 1 .. n : SubSeq(h, 1, n)[k] = h[k]
    BY <2>1, <2>2
  <2> QED
    BY <2>1, <2>3 DEF Waits, Range, h, n
<1>5. ThreadOK(t)'
  BY <1>1, <1>2, <1>3, <1>4 DEF ThreadOK, Matches
<1> QED
  BY <1>1, <1>2, <1>5, ThreadStep

LEMMA EventWatch ==
  ASSUME EchoInv, EchoInv', WatchOK, NEW t \in Threads, EventLoop(t)
  PROVE  WatchOK'
<1>1. /\ pc \in [Threads -> Labels] /\ Event \in [Threads -> 0 .. 1]
      /\ Children \subseteq Threads /\ 0 \notin Children /\ server = "event" /\ UNCHANGED NotThread
      /\ {"scan", "io", "read", "send", "drain", "wait"} \subseteq Labels
  BY ThreadFacts DEF EchoInv, TypeOK, LoopsTyped, Labels, IoLabels, EventLoop, Wakes, Scan, HandleIo, EventReceives,
                     EventSends, Renumber, Quiet, Thread
<1>2. ASSUME NEW l \in Labels, Stays(t, l), l \notin {"none", "renumber"}, t = 0 \/ l # "wait",
             pc[t] \notin {"none", "renumber"}, UNCHANGED <<Handles, waits>>
      PROVE  WatchOK'
  BY <1>1, <1>2, StaysWatch DEF Stays
<1>3. CASE Wakes(t)
  <2>1. PcTo(t, "scan") /\ pc[t] = "wait" /\ UNCHANGED <<SocketList, Handles, Event, waits>>
    BY <1>3 DEF Wakes
  <2> QED
    BY <1>1, <2>1, StaysWatch
<1>4. CASE Scan(t)
  <2>1. /\ pc[t] = "scan" /\ t \in Children /\ UNCHANGED SocketList
        /\ pc' = pc => PcTo(t, "scan")
    BY <1>1, <1>4 DEF Scan
  <2>2. CASE Event' = Set(Event, t, 0) /\ RenumberThreadArray(t) /\ UNCHANGED <<pc, waits>>
    BY <1>1, <2>1, <2>2, RenumbersWatch
  <2>3. CASE PcTo(t, "io") /\ UNCHANGED <<Event, Handles, waits>>
    BY <1>1, <2>1, <2>3, StaysWatch
  <2>4. CASE UNCHANGED <<pc, Event, Handles, waits>>
    BY <1>1, <2>1, <2>4, StaysWatch
  <2>5. CASE PcTo(t, "wait") /\ waits' = Set(waits, t, Waits(t)) /\ UNCHANGED <<Event, Handles>>
    BY <1>1, <2>1, <2>5, WaitsWatch
  <2> QED
    BY <1>4, <2>2, <2>3, <2>4, <2>5 DEF Scan, Enumerates
<1>5. CASE HandleIo(t)
  <2>1. pc[t] = "io" /\ UNCHANGED <<Handles, waits>>
    BY <1>5 DEF HandleIo
  <2>2. todo[t] \subseteq {"read", "write", "close", "abort"}
    BY DEF EchoInv, TypeOK, LoopsTyped, Kinds
  <2>3. CASE Stays(t, IF t = 0 THEN "wait" ELSE "scan")
    <3>1. CASE t = 0
      BY <1>1, <1>2, <2>1, <2>3, <3>1
    <3>2. CASE t # 0
      BY <1>1, <1>2, <2>1, <2>3, <3>2
    <3> QED
      BY <3>1, <3>2
  <2>4. CASE Stays(t, "read") \/ Stays(t, "send") \/ Stays(t, "drain")
    BY <1>1, <1>2, <2>1, <2>4
  <2>5. CASE RemoveSocketObj(t, cur[t])
    BY <1>1, <2>1, <2>5, RemovesWatch
  <2>6. ASSUME NEW ev \in todo[t],
               IF ev = "abort" THEN RemoveSocketObj(t, cur[t]) /\ Close(cur[t])
               ELSE Stays(t, CASE ev = "read" -> "read" [] ev = "write" -> "send"
                               [] ev = "close" -> "drain") /\ UNCHANGED socket
        PROVE  WatchOK'
    BY <2>2, <2>4, <2>5, <2>6
  <2> QED
    BY <1>5, <2>3, <2>6 DEF HandleIo
<1>6. CASE EventReceives(t) \/ EventSends(t)
  <2>1. pc[t] \in {"read", "drain", "send"} /\ UNCHANGED <<Handles, waits>>
    BY <1>6 DEF EventReceives, EventSends, Thread
  <2>2. \/ Stays(t, "send") \/ Stays(t, "drain") \/ Stays(t, "io")
        \/ RemoveSocketObj(t, cur[t])
    BY <1>6 DEF EventReceives, EventSends
  <2>3. CASE Stays(t, "send") \/ Stays(t, "drain") \/ Stays(t, "io")
    BY <1>1, <1>2, <2>1, <2>3
  <2>4. CASE RemoveSocketObj(t, cur[t])
    BY <1>1, <2>1, <2>4, RemovesWatch
  <2> QED
    BY <2>2, <2>3, <2>4
<1>7. CASE Renumber(t)
  <2>1. /\ RenumberThreadArray(t) /\ pc[t] = "renumber" /\ UNCHANGED <<SocketList, Event, waits>>
        /\ PcTo(t, IF t = 0 THEN "wait" ELSE "scan")
    BY <1>7 DEF Renumber
  <2>2. (pc'[t] = "scan" \/ t = 0) /\ \A u \in Threads \ {t} : pc'[u] = pc[u]
    BY <1>1, <2>1
  <2> QED
    BY <1>1, <2>1, <2>2, RenumbersWatch
<1> QED
  BY <1>3, <1>4, <1>5, <1>6, <1>7 DEF EventLoop

LEMMA WatchStep == EchoInv /\ EchoInv' /\ WatchOK /\ [Next]_vars => WatchOK'
<1> SUFFICES ASSUME EchoInv, EchoInv', WatchOK, [Next]_vars PROVE WatchOK'
  OBVIOUS
<1>1. ASSUME NEW c \in Conns, Peers(c)
      PROVE  WatchOK'
  BY <1>1, PeersWatch
<1>2. CASE SelectLoop \/ AsyncLoop
  BY <1>2, OthersWatch
<1>3. CASE EventMain
  BY <1>3, MainWatch
<1>4. CASE MainWakes
  <2>1. /\ pc \in [Threads -> Labels] /\ 0 \notin Children /\ Children \subseteq Threads
        /\ UNCHANGED <<SocketList, Handles, Event, waits, gChildThreads, mpc, mthread>>
        /\ pc' = pc \/ PcTo(0, "io")
    BY <1>4, ThreadFacts
    DEF EchoInv, TypeOK, LoopsTyped, MainWakes, Enumerates, Quiet, NotThread
  <2> QED
    BY <2>1, WatchKeeps
<1>5. ASSUME NEW t \in Threads, EventLoop(t)
      PROVE  WatchOK'
  BY <1>5, EventWatch
<1>6. CASE UNCHANGED vars
  BY <1>6, WatchKeeps DEF vars, threadVars
<1> QED
  BY <1>1, <1>2, <1>3, <1>4, <1>5, <1>6 DEF Next

\* EventsWatched, of ChildThread, AssignToFreeThread and RenumberThreadArray:
\* a thread that waits, waits for each of its sockets, or its own event will
\* wake it; and the event it finds at an index is that of the socket there.
THEOREM EventsAreWatched == Spec => []EventsWatched
<1>1. Init => WatchOK
  BY WatchInit
<1>2. EchoInv /\ EchoInv' /\ WatchOK /\ [Next]_vars => WatchOK'
  BY WatchStep
<1>3. EchoInv /\ WatchOK => EventsWatched
  <2> SUFFICES ASSUME EchoInv, WatchOK, NEW t \in Children, NEW n \in DOMAIN SocketList[t]
               PROVE  /\ At(t, "wait") => \/ SocketList[t][n] \in waits[t] \/ Event[t] = 1
                                          \/ mpc = "signal" /\ mthread = t
                      /\ At(t, "scan") => Handles[t][n] = SocketList[t][n]
    BY DEF EventsWatched
  <2>1. SocketList[t] \in Seq(Conns) /\ ThreadOK(t)
    BY ThreadFacts DEF EchoInv, TypeOK, LoopsTyped, WatchOK
  <2>2. n \in 1 .. Len(SocketList[t])
    BY <2>1
  <2> QED
    BY <2>1, <2>2 DEF ThreadOK, Matches
<1> QED
  BY <1>1, <1>2, <1>3, EchoAlways, PTL DEF Spec
=============================================================================

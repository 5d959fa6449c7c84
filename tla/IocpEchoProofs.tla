--------------------------- MODULE IocpEchoProofs ---------------------------
(***************************************************************************)
(* Theorems about IocpEcho, for any number of connections, completion      *)
(* threads and receives per socket, and both protocols.                    *)
(*                                                                         *)
(* OrdersContiguous is about a socket that receives data.  Its inductive   *)
(* form, Ordered, splits the IoOrders in play by where they are: each is   *)
(* in one place only, so the step that takes the buffer DoSends waits for  *)
(* takes the last trace of its number.  What brings a socket into that     *)
(* state is the accept path, and Phases says that nothing else touches a   *)
(* client before its first send.                                           *)
(***************************************************************************)
EXTENDS IocpEcho, FiniteSetTheorems, TLAPS

Ops == {"none", "accept", "recv", "send"}
Item == [sock : Objs, conn : Conns, op : {"accept", "recv", "send"}, ord : Nat,
         unit : Nat, err : 0 .. 1]
Pending == [ord : Int, unit : Nat]

Labels == {"wait", "error", "enter", "sends", "incSend", "again", "incRecv", "dec",
           "decLast", "tail", "close", "free", "firstSend", "countSend", "receives",
           "countRecv", "reaccept", "countAccept", "check"}

TypeOK ==
  /\ client \in [Conns -> {"none", "open", "fin", "reset"}]
  /\ received \in [Conns -> Nat]
  /\ recvs \in [Conns -> Seq(Nat)]
  /\ sends \in [Conns -> Seq(Nat)]
  /\ echoed \in [Conns -> Seq(Nat)]
  /\ port \in Seq(Item)
  /\ mem \in [Objs -> {"heap", "live", "freed"}]
  /\ handle \in [Objs -> {"open", "closed"}]
  /\ bClosing \in [Objs -> 0 .. 1]
  /\ IoCountIssued \in [Objs -> Nat]
  /\ LastSendIssued \in [Objs -> Nat]
  /\ OutOfOrderSends \in [Objs -> Seq(Pending)]
  /\ pc \in [Threads -> Labels]
  /\ io \in [Threads -> Item \cup {NoIo}]
  /\ failed \in [Threads -> 0 .. 1]
  /\ gaps \in 0 .. 1

Busy(w) == pc[w] # "wait"

\* An operation is on the socket of its connection, an accept on the
\* listener, and the steps of a thread are those of its operation.
WellFormed(o) ==
  /\ o.op = "accept" => o.sock = Listener /\ o.ord = 0
  /\ o.op \in {"recv", "send"} => o.sock = o.conn
AcceptPcs == {"firstSend", "countSend", "receives", "countRecv", "reaccept",
              "countAccept", "check"}
SocketPcs == {"sends", "incSend", "again", "incRecv", "decLast"}
Shape ==
  /\ \A n \in DOMAIN port : WellFormed(port[n])
  /\ \A w \in Threads :
       /\ Busy(w) => io[w] \in Item /\ WellFormed(io[w])
       /\ pc[w] \in AcceptPcs => io[w].op = "accept"
       /\ pc[w] \in SocketPcs => io[w].op # "accept"

\* A receive without data: the client is gone, or leaves, or a datagram was
\* too long.
Empty(o) ==
  o.op = "recv" =>
    /\ o.err = 1 => o.unit = 0 /\ (client[o.conn] = "reset" \/ handle[o.conn] = "closed" \/ gaps = 1)
    /\ o.err = 0 /\ o.unit = 0 => client[o.conn] \in {"fin", "reset"}

\* What is permanent of a connection that is given up is known when its
\* socket is closed.
Steps(w) ==
  /\ pc[w] \in {"close", "decLast"} /\ io[w].op # "accept" => bClosing[conn(w)] = 1
  /\ pc[w] \in {"sends", "incSend"} /\ io[w].op = "recv" /\ io[w].unit = 0 => Udp \/ bClosing[conn(w)] = 1
  /\ pc[w] \in {"firstSend", "countSend", "receives", "countRecv"} => failed[w] = 0
  /\ pc[w] \in {"reaccept", "countAccept", "check"} /\ failed[w] = 1 => Gone(conn(w))
  /\ pc[w] = "enter" => Empty(io[w])
Leaving(c) ==
  /\ Udp => client[c] = "open"
  /\ handle[c] = "closed" => bClosing[c] = 1 \/ client[c] = "reset"
  /\ \A n \in DOMAIN port : port[n].conn = c => Empty(port[n])
  /\ \A w \in Threads : Busy(w) /\ conn(w) = c => Steps(w)

\* Nothing has been posted on c.
Quiet(c) ==
  /\ recvs[c] = <<>> /\ sends[c] = <<>> /\ OutOfOrderSends[c] = <<>>
  /\ LastSendIssued[c] = 0 /\ IoCountIssued[c] = 1 /\ echoed[c] = <<>>
\* w has accepted its client, and has not sent.
Opens(w) == pc[w] = "firstSend" \/ (pc[w] = "enter" /\ io[w].op = "accept")
NoItem(c) == \A n \in DOMAIN port : port[n].conn # c
NoThread(c) == \A w \in Threads : Busy(w) => io[w].conn # c

\* Until the first send on c only its accept is about c.
Phases(c) ==
  /\ client[c] = "none" => /\ Quiet(c) /\ mem[c] = "heap" /\ NoItem(c) /\ NoThread(c)
                           /\ received[c] = 0 /\ handle[c] = "open"
  /\ \A n \in DOMAIN port : port[n].op = "accept" /\ port[n].conn = c =>
       /\ Quiet(c) /\ mem[c] = "heap" /\ NoThread(c)
       /\ \A m \in DOMAIN port : port[m].conn = c => m = n
  /\ \A w \in Threads : Opens(w) /\ io[w].conn = c =>
       /\ pc[w] = "enter" => mem[c] = "heap"
       /\ Quiet(c) /\ NoItem(c)
       /\ \A v \in Threads : Busy(v) /\ io[v].conn = c => v = w

\* The places an IoOrder of c that is in play can be.
InRecvs(c) == Range(recvs[c])
AtPort(c) == {n \in DOMAIN port : port[n].op = "recv" /\ port[n].conn = c}
InPort(c) == {port[n].ord : n \in AtPort(c)}
Entering(c) == {w \in Threads : At(w, "enter") /\ io[w].op = "recv" /\ conn(w) = c}
InThreads(c) == {io[w].ord : w \in Entering(c)}
InPending(c) == {OutOfOrderSends[c][n].ord : n \in DOMAIN OutOfOrderSends[c]}

\* No receive of c has completed without data, and its first unit was sent.
Sound(c) ==
  /\ Live(c) /\ bClosing[c] = 0 /\ client[c] # "reset" /\ gaps = 0 /\ leaked = NULL
  /\ \A n \in AtPort(c) : port[n].unit # 0
  /\ \A w \in Entering(c) : io[w].unit # 0
  /\ ~\E w \in Threads : At(w, "firstSend") /\ conn(w) = c

Sorted(list) == \A m, n \in DOMAIN list : m < n => list[m].ord < list[n].ord

Distinct(c) ==
  /\ \A m, n \in DOMAIN recvs[c] : recvs[c][m] = recvs[c][n] => m = n
  /\ \A m, n \in AtPort(c) : port[m].ord = port[n].ord => m = n
  /\ \A v, w \in Entering(c) : io[v].ord = io[w].ord => v = w
  /\ Sorted(OutOfOrderSends[c])
Apart(c) ==
  /\ InRecvs(c) \cap InPort(c) = {} /\ InRecvs(c) \cap InThreads(c) = {}
  /\ InRecvs(c) \cap InPending(c) = {} /\ InPort(c) \cap InThreads(c) = {}
  /\ InPort(c) \cap InPending(c) = {} /\ InThreads(c) \cap InPending(c) = {}
Ordered(c) ==
  /\ InRecvs(c) \cup InPort(c) \cup InThreads(c) \cup InPending(c)
       = LastSendIssued[c] .. (IoCountIssued[c] - 1)
  /\ LastSendIssued[c] <= IoCountIssued[c]
  /\ Distinct(c) /\ Apart(c)

-----------------------------------------------------------------------------
(* What is sent back.  A receive with data that has not been echoed is an  *)
(* item of the port, of a thread, or a pending send; its unit is one more  *)
(* than its IoOrder, until a number is lost.                               *)

Buf(o) == [ord |-> o.ord, unit |-> o.unit]
Data(c) ==
  {Buf(port[n]) : n \in {m \in AtPort(c) : port[m].unit > 0}}
  \cup {Buf(io[w]) : w \in {v \in Entering(c) : io[v].unit > 0}}
  \cup Range(OutOfOrderSends[c])

Over(c) == client[c] \in {"fin", "reset"} \/ handle[c] = "closed"
\* No data of c is left to echo and no more comes ...
Dead(c) == Over(c) /\ Data(c) = {}
\* ... or the pending list is stuck at the buffer that PostSend freed.
Stuck(c) == OutOfOrderSends[c] # <<>> /\ Head(OutOfOrderSends[c]).ord = Freed

\* The receives of c are numbered on from what it has received ...
NoHole(c) ==
  /\ \A b \in Data(c) : b.unit = b.ord + 1
  /\ ~Over(c) /\ client[c] = "open" =>
       /\ \A n \in DOMAIN recvs[c] : recvs[c][n] = received[c] + n - 1
       /\ IoCountIssued[c] = received[c] + Len(recvs[c])
\* ... or the number of a datagram that was too long is missing.
Hole(c) ==
  \E g \in LastSendIssued[c] .. (IoCountIssued[c] - 1) :
    /\ \A n \in DOMAIN recvs[c] : recvs[c][n] > g
    /\ \A b \in Data(c) : b.ord # g /\ (b.ord < g => b.unit = b.ord + 1)
Flows(c) ==
  /\ \A b \in Data(c) : b.unit \in 1 .. received[c]
  /\ Dead(c) \/ Len(echoed[c]) = LastSendIssued[c]
  /\ NoHole(c) \/ Hole(c)

\* An accept delivers the first unit, or a client that has ended.
FirstData(o) ==
  o.op = "accept" => /\ o.unit <= received[o.conn] /\ o.unit <= 1
                     /\ o.unit = 0 => client[o.conn] \in {"fin", "reset"}
                     /\ client[o.conn] = "open" => received[o.conn] = 1
IsPrefix1(s, n) == Len(s) <= n /\ \A k \in DOMAIN s : s[k] = k
EchoInv(c) ==
  /\ IsPrefix1(echoed[c], received[c])
  /\ Stuck(c) \/ Flows(c)
  /\ \A n \in DOMAIN port : port[n].conn = c => FirstData(port[n])
  /\ \A w \in Threads : Opens(w) /\ conn(w) = c => FirstData(io[w])

ConnInv(c) == Leaving(c) /\ Phases(c) /\ EchoInv(c) /\ (Sound(c) => Ordered(c))
Inv == TypeOK /\ Shape /\ \A c \in Conns : ConnInv(c)
-----------------------------------------------------------------------------
(* InsertPendingSend. *)

Inserted(list, b, r) ==
  /\ r \in Seq(Pending) /\ Len(r) = Len(list) + 1
  /\ \E k \in 1 .. Len(list) + 1 :
       \A n \in 1 .. Len(list) + 1 :
         r[n] = IF n < k THEN list[n] ELSE IF n = k THEN b ELSE list[n - 1]

LEMMA InsertAtElements ==
  ASSUME NEW list \in Seq(Pending), NEW b \in Pending, NEW k \in 1 .. Len(list) + 1
  PROVE  /\ InsertAt(list, k, b) \in Seq(Pending)
         /\ Len(InsertAt(list, k, b)) = Len(list) + 1
         /\ \A n \in 1 .. Len(list) + 1 :
              InsertAt(list, k, b)[n]
                = IF n < k THEN list[n] ELSE IF n = k THEN b ELSE list[n - 1]
<1> DEFINE front == SubSeq(list, 1, k - 1)
           back == SubSeq(list, k, Len(list))
<1>1. /\ front \in Seq(Pending) /\ Len(front) = k - 1
      /\ \A n \in 1 .. k - 1 : front[n] = list[n]
  OBVIOUS
<1>2. /\ back \in Seq(Pending) /\ Len(back) = Len(list) - k + 1
      /\ \A n \in 1 .. Len(list) - k + 1 : back[n] = list[k + n - 1]
  OBVIOUS
<1>3. InsertAt(list, k, b) = front \o <<b>> \o back
  BY DEF InsertAt
<1> HIDE DEF front, back
<1>4. /\ front \o <<b>> \in Seq(Pending) /\ Len(front \o <<b>>) = k
      /\ \A n \in 1 .. k - 1 : (front \o <<b>>)[n] = list[n]
      /\ (front \o <<b>>)[k] = b
  BY <1>1
<1> DEFINE head == front \o <<b>>
<1> HIDE DEF head
<1>5. /\ head \in Seq(Pending) /\ Len(head) = k /\ head[k] = b
      /\ \A n \in 1 .. k - 1 : head[n] = list[n]
  BY <1>4 DEF head
<1>6. /\ head \o back \in Seq(Pending) /\ Len(head \o back) = Len(list) + 1
      /\ \A n \in 1 .. Len(list) + 1 :
           (head \o back)[n] = IF n <= k THEN head[n] ELSE back[n - k]
  BY <1>2, <1>5
<1>7. \A n \in 1 .. Len(list) + 1 : n > k => back[n - k] = list[n - 1]
  BY <1>2
<1> QED
  BY <1>3, <1>5, <1>6, <1>7 DEF head

\* The position it takes is between 1 and one more than the length ...
LEMMA InsertInserts ==
  ASSUME NEW list \in Seq(Pending), NEW b \in Pending
  PROVE  Inserted(list, b, InsertPendingSend(list, b))
<1> DEFINE below == {n \in DOMAIN list : list[n].ord <= b.ord}
<1>1. IsFiniteSet(1 .. Len(list)) /\ Cardinality(1 .. Len(list)) = Len(list)
  <2>1. Len(list) \in Nat
    OBVIOUS
  <2> QED
    BY <2>1, FS_Interval
<1>2. below \subseteq 1 .. Len(list)
  OBVIOUS
<1>3. IsFiniteSet(below) /\ Cardinality(below) <= Len(list)
  BY <1>1, <1>2, FS_Subset
<1>4. Cardinality(below) \in Nat
  BY <1>3, FS_CardinalityType
<1> HIDE DEF below
<1>5. Cardinality(below) + 1 \in 1 .. Len(list) + 1
  BY <1>3, <1>4
<1>6. InsertPendingSend(list, b) = InsertAt(list, Cardinality(below) + 1, b)
  BY DEF InsertPendingSend, below
<1> DEFINE k == Cardinality(below) + 1
<1> HIDE DEF k
<1>7. k \in 1 .. Len(list) + 1 /\ InsertPendingSend(list, b) = InsertAt(list, k, b)
  BY <1>5, <1>6 DEF k
<1>0. list \in Seq(Pending) /\ b \in Pending
  OBVIOUS
<1> DEFINE r == InsertPendingSend(list, b)
<1>8. /\ r \in Seq(Pending) /\ Len(r) = Len(list) + 1
      /\ \A n \in 1 .. Len(list) + 1 :
           r[n] = IF n < k THEN list[n] ELSE IF n = k THEN b ELSE list[n - 1]
  <2>1. r = InsertAt(list, k, b)
    BY <1>7
  <2> HIDE DEF r
  <2> QED
    BY <1>0, <1>7, <2>1, InsertAtElements, SMTT(20)
<1> HIDE DEF r
<1>9. Inserted(list, b, r)
  BY <1>7, <1>8 DEF Inserted
<1> QED
  BY <1>9 DEF r

\* ... and keeps a sorted list sorted, since the smaller numbers come first.
LEMMA InsertSorts ==
  ASSUME NEW list \in Seq(Pending), NEW b \in Pending, Sorted(list),
         \A n \in DOMAIN list : list[n].ord # b.ord
  PROVE  Sorted(InsertPendingSend(list, b))
<1> DEFINE below == {n \in DOMAIN list : list[n].ord <= b.ord}
           k == Cardinality(below)
           r == InsertPendingSend(list, b)
<1>0. \A n \in DOMAIN list : list[n].ord \in Int
  <2>1. \A n \in 1 .. Len(list) : list[n] \in Pending
    OBVIOUS
  <2> QED
    BY <2>1 DEF Pending
<1>1. IsFiniteSet(1 .. Len(list)) /\ Cardinality(1 .. Len(list)) = Len(list)
  <2>1. Len(list) \in Nat
    OBVIOUS
  <2> QED
    BY <2>1, FS_Interval
<1>2. below \subseteq 1 .. Len(list)
  OBVIOUS
<1>3. IsFiniteSet(below) /\ k <= Len(list) /\ k \in Nat
  BY <1>1, <1>2, FS_Subset, FS_CardinalityType
<1>13. b.ord \in Int
  BY DEF Pending
<1>4. ASSUME NEW n \in below  PROVE n \in 1 .. k
  <2>1. ASSUME NEW m \in 1 .. n  PROVE m \in below
    <3>1. m \in DOMAIN list /\ n \in DOMAIN list /\ list[n].ord <= b.ord
      OBVIOUS
    <3>2. list[m].ord <= list[n].ord
      BY <1>0, <3>1 DEF Sorted
    <3> QED
      BY <3>1, <3>2, <1>0, <1>13
  <2>2. n \in Nat /\ Cardinality(1 .. n) = n
    <3>1. n \in 1 .. Len(list)
      BY <1>2
    <3> QED
      BY <3>1, FS_Interval
  <2>3. n <= k
    BY <2>1, <2>2, <1>3, FS_Subset
  <2> QED
    BY <2>3, <1>2, <1>3
<1>5. below = 1 .. k
  <2>1. below \subseteq 1 .. k
    BY <1>4
  <2>2. IsFiniteSet(1 .. k) /\ Cardinality(1 .. k) = k
    BY <1>3, FS_Interval
  <2> QED
    BY <2>1, <2>2, FS_Subset
<1>6. \A n \in DOMAIN list : (n <= k <=> list[n].ord < b.ord)
  <2>1. TAKE n \in DOMAIN list
  <2>2. n <= k <=> n \in below
    BY <1>5, <1>3
  <2>3. n \in below <=> list[n].ord < b.ord
    BY <1>0, <1>13
  <2> QED
    BY <2>2, <2>3
<1>7. k + 1 \in 1 .. Len(list) + 1
  BY <1>3
<1>8. r = InsertAt(list, k + 1, b)
  BY DEF InsertPendingSend
<1>9. /\ r \in Seq(Pending) /\ Len(r) = Len(list) + 1
      /\ \A n \in 1 .. Len(list) + 1 :
           r[n] = IF n < k + 1 THEN list[n] ELSE IF n = k + 1 THEN b ELSE list[n - 1]
  <2> DEFINE q == k + 1
  <2> HIDE DEF q
  <2>1. q \in 1 .. Len(list) + 1 /\ r = InsertAt(list, q, b)
    BY <1>7, <1>8 DEF q
  <2>2. /\ r \in Seq(Pending) /\ Len(r) = Len(list) + 1
        /\ \A n \in 1 .. Len(list) + 1 :
             r[n] = IF n < q THEN list[n] ELSE IF n = q THEN b ELSE list[n - 1]
    BY <2>1, InsertAtElements, SMTT(20)
  <2> QED
    BY <2>2 DEF q
<1> HIDE DEF r, below, k
<1>10. SUFFICES ASSUME NEW m \in 1 .. Len(list) + 1, NEW n \in 1 .. Len(list) + 1, m < n
                PROVE  r[m].ord < r[n].ord
  BY <1>9 DEF Sorted, r
<1>11. /\ m < k + 1 => r[m] = list[m]
       /\ m = k + 1 => r[m] = b
       /\ m > k + 1 => r[m] = list[m - 1]
  BY <1>9, <1>3
<1>12. /\ n < k + 1 => r[n] = list[n]
       /\ n = k + 1 => r[n] = b
       /\ n > k + 1 => r[n] = list[n - 1]
  BY <1>9, <1>3
<1>14. CASE n < k + 1
  <2>1. m < k + 1 /\ m \in DOMAIN list /\ n \in DOMAIN list
    BY <1>14, <1>10, <1>3
  <2>2. list[m].ord < list[n].ord
    BY <2>1, <1>10 DEF Sorted
  <2> QED
    BY <2>1, <2>2, <1>14, <1>11, <1>12
<1>15. CASE n = k + 1
  <2>1. m < k + 1 /\ m <= k /\ m \in DOMAIN list
    BY <1>15, <1>10, <1>3
  <2> QED
    BY <2>1, <1>15, <1>11, <1>12, <1>6
<1>16. CASE n > k + 1
  <2>1. CASE m < k + 1
    BY <2>1, <1>16, <1>11, <1>12, <1>3 DEF Sorted
  <2>2. CASE m = k + 1
    <3>1. n - 1 \in DOMAIN list /\ n - 1 > k
      BY <1>16, <1>3
    <3>2. list[n - 1].ord > b.ord
      BY <3>1, <1>0, <1>6, <1>13, <1>3
    <3> QED
      BY <3>2, <2>2, <1>16, <1>11, <1>12, <1>13, <1>0, <3>1
  <2>3. CASE m > k + 1
    <3>1. m - 1 \in DOMAIN list /\ n - 1 \in DOMAIN list /\ m - 1 < n - 1
      BY <2>3, <1>16, <1>10, <1>3
    <3>2. list[m - 1].ord < list[n - 1].ord
      BY <3>1 DEF Sorted
    <3> QED
      BY <3>2, <2>3, <1>16, <1>11, <1>12
  <2> QED
    BY <2>1, <2>2, <2>3, <1>3
<1> QED
  BY <1>14, <1>15, <1>16, <1>3
-----------------------------------------------------------------------------
(* Types. *)

LEMMA Sockets ==
  /\ Conns \subseteq Objs /\ Listener \in Objs /\ Listener \notin Conns /\ NULL \notin Objs
  /\ NULL \notin Threads
BY ConstAssumption DEF Objs, Threads

LEMMA TypeInit == Init => TypeOK
<1> SUFFICES ASSUME Init  PROVE TypeOK
  OBVIOUS
<1> USE Sockets DEF Init
<1>1. /\ client \in [Conns -> {"none", "open", "fin", "reset"}]
      /\ received \in [Conns -> Nat] /\ sends \in [Conns -> Seq(Nat)] /\ port \in Seq(Item)
      /\ echoed \in [Conns -> Seq(Nat)]
  OBVIOUS
<1>2. recvs \in [Conns -> Seq(Nat)]
  <2>1. [n \in 1 .. gOverlappedCount |-> n - 1] \in Seq(Nat)
    BY ConstAssumption
  <2> DEFINE first == [n \in 1 .. gOverlappedCount |-> n - 1]
  <2>2. recvs = [c \in Conns |-> IF Udp THEN first ELSE <<>>]
    OBVIOUS
  <2> HIDE DEF first
  <2>3. first \in Seq(Nat) /\ <<>> \in Seq(Nat)
    BY <2>1 DEF first
  <2>4. (IF Udp THEN first ELSE <<>>) \in Seq(Nat)
    BY <2>3
  <2> QED
    BY <2>2, <2>4
<1>3. /\ mem \in [Objs -> {"heap", "live", "freed"}] /\ handle \in [Objs -> {"open", "closed"}]
      /\ bClosing \in [Objs -> 0 .. 1] /\ IoCountIssued \in [Objs -> Nat]
      /\ LastSendIssued \in [Objs -> Nat] /\ OutOfOrderSends \in [Objs -> Seq(Pending)]
  BY ConstAssumption
<1>4. /\ pc \in [Threads -> Labels] /\ io \in [Threads -> Item \cup {NoIo}]
      /\ failed \in [Threads -> 0 .. 1]
  BY DEF Labels
<1> QED
  BY <1>1, <1>2, <1>3, <1>4 DEF TypeOK

\* What the kernel puts in the port.
LEMMA DoneItem ==
  ASSUME NEW op \in {"accept", "recv", "send"}, NEW c \in Conns, NEW n \in Nat, NEW u \in Nat,
         NEW e \in 0 .. 1
  PROVE  /\ Done(op, c, n, u, e) \in Item /\ Done(op, c, n, u, e).op = op
         /\ Done(op, c, n, u, e).conn = c /\ Done(op, c, n, u, e).ord = n
         /\ Done(op, c, n, u, e).unit = u /\ Done(op, c, n, u, e).err = e
BY Sockets DEF Done, Item

LEMMA Places ==
  ASSUME NEW S, NEW s \in Seq(S)
  PROVE  \A n \in DOMAIN s : n \in Nat /\ n - 0 = n /\ n + 0 = n
OBVIOUS

LEMMA TailOf ==
  ASSUME NEW S, NEW s \in Seq(S), s # <<>>
  PROVE  /\ Tail(s) \in Seq(S) /\ Len(Tail(s)) = Len(s) - 1 /\ Len(s) \in Nat \ {0}
         /\ Head(s) = s[1] /\ Head(s) \in S /\ 1 \in DOMAIN s
         /\ \A n \in DOMAIN Tail(s) : n \in Nat \ {0} /\ n + 1 \in DOMAIN s /\ Tail(s)[n] = s[n + 1]
         /\ \A n \in DOMAIN s :
              n \in Nat \ {0} /\ (n # 1 => n - 1 \in DOMAIN Tail(s) /\ Tail(s)[n - 1] = s[n])
OBVIOUS

LEMMA PortAppend ==
  ASSUME TypeOK, NEW x \in Item, Queue(x)
  PROVE  /\ port' \in Seq(Item) /\ Len(port') = Len(port) + 1
         /\ port'[Len(port) + 1] = x
         /\ \A n \in DOMAIN port : n \in DOMAIN port' /\ port'[n] = port[n]
         /\ \A n \in DOMAIN port' : n \in DOMAIN port \/ n = Len(port) + 1
BY DEF TypeOK, Queue

LEMMA PortTail ==
  ASSUME TypeOK, port # <<>>, port' = Tail(port)
  PROVE  /\ port' \in Seq(Item) /\ Head(port) \in Item
         /\ Head(port) = port[1] /\ 1 \in DOMAIN port
         /\ \A n \in DOMAIN port' : n + 1 \in DOMAIN port /\ port'[n] = port[n + 1] /\ n \in Nat
         /\ \A n \in DOMAIN port : n # 1 => n - 1 \in DOMAIN port' /\ port'[n - 1] = port[n]
BY DEF TypeOK

LEMMA TypeKernel ==
  ASSUME TypeOK, NEW c \in Conns, Shutdown(c) \/ Reset(c) \/ Kernel(c)
  PROVE  TypeOK'
<1> USE Sockets
<1>1. CASE Shutdown(c)
  BY <1>1 DEF Shutdown, TypeOK, Outside, orderVars, lifeVars, threadVars
<1>2. CASE Reset(c)
  BY <1>2 DEF Reset, TypeOK, Outside, orderVars, lifeVars, threadVars
<1>3. CASE AcceptDone(c)
  <2>1. PICK n \in 0 .. 1 :
          /\ client' = [client EXCEPT ![c] = IF n = 0 THEN "fin" ELSE "open"]
          /\ received' = [received EXCEPT ![c] = n]
          /\ Queue(Done("accept", c, 0, n, 0))
    BY <1>3 DEF AcceptDone
  <2>2. port' \in Seq(Item)
    <3>1. n \in Nat /\ Done("accept", c, 0, n, 0) \in Item
      BY DoneItem
    <3> QED
      BY <2>1, <3>1, PortAppend
  <2> QED
    BY <1>3, <2>1, <2>2 DEF AcceptDone, TypeOK, Outside, orderVars, lifeVars, threadVars
<1>4. CASE AcceptFails(c)
  <2>1. Done("accept", c, 0, 0, 1) \in Item /\ Queue(Done("accept", c, 0, 0, 1))
    BY <1>4, DoneItem DEF AcceptFails
  <2>2. port' \in Seq(Item)
    BY <2>1, PortAppend
  <2> QED
    BY <1>4, <2>2 DEF AcceptFails, TypeOK, Outside, orderVars, lifeVars, threadVars
<1>5. ASSUME NEW u \in Nat, NEW e \in 0 .. 1, RecvCompletes(c, u, e), received' \in [Conns -> Nat],
             gaps' \in 0 .. 1
      PROVE  TypeOK'
  <2>1. Head(recvs[c]) \in Nat /\ Tail(recvs[c]) \in Seq(Nat)
    <3>1. recvs[c] \in Seq(Nat) /\ recvs[c] # <<>>
      BY <1>5 DEF RecvCompletes, TypeOK
    <3> QED
      BY <3>1, TailOf
  <2>2. port' \in Seq(Item)
    <3>1. Done("recv", c, Head(recvs[c]), u, e) \in Item
      BY <1>5, <2>1, DoneItem
    <3>2. Queue(Done("recv", c, Head(recvs[c]), u, e))
      BY <1>5 DEF RecvCompletes
    <3> QED
      BY <3>1, <3>2, PortAppend
  <2>3. recvs' \in [Conns -> Seq(Nat)]
    BY <1>5, <2>1 DEF RecvCompletes, TypeOK
  <2>4. UNCHANGED <<client, sends, echoed, mem, handle, bClosing, IoCountIssued, LastSendIssued,
                    OutOfOrderSends, pc, io, failed>>
    BY <1>5 DEF RecvCompletes, Outside, orderVars, lifeVars, threadVars
  <2> QED
    BY <1>5, <2>2, <2>3, <2>4 DEF TypeOK
<1>6. CASE RecvDone(c)
  <2>1. received[c] + 1 \in Nat /\ received' \in [Conns -> Nat] /\ gaps' \in 0 .. 1
    BY <1>6 DEF RecvDone, TypeOK
  <2> QED
    BY <1>5, <1>6, <2>1 DEF RecvDone
<1>7. CASE RecvZero(c) \/ RecvError(c) \/ RecvTooLong(c)
  <2>1. received' = received /\ (gaps' = gaps \/ gaps' = 1)
    BY <1>7 DEF RecvZero, RecvError, RecvTooLong
  <2>2. received' \in [Conns -> Nat] /\ gaps' \in 0 .. 1
    BY <2>1 DEF TypeOK
  <2> QED
    BY <1>5, <1>7, <2>1, <2>2 DEF RecvZero, RecvError, RecvTooLong
<1>8. CASE SendDone(c)
  <2>1. Head(sends[c]) \in Nat /\ Tail(sends[c]) \in Seq(Nat)
    BY <1>8 DEF SendDone, TypeOK
  <2>2. port' \in Seq(Item)
    BY <1>8, <2>1, DoneItem, PortAppend DEF SendDone
  <2> QED
    BY <1>8, <2>1, <2>2 DEF SendDone, TypeOK, Outside, orderVars, lifeVars, threadVars
<1> QED
  BY <1>1, <1>2, <1>3, <1>4, <1>6, <1>7, <1>8 DEF Kernel

\* The three outcomes of the first DoSends.
SendRefused(w) ==
  DoSendFails(w) /\ SetClosing(sock(w)) /\ Goto(w, "dec") /\ UNCHANGED SockCritSec
NoneInOrder(w) ==
  /\ NoSend(w, "sends")
  /\ Goto(w, IF io[w].op = "recv" /\ (io[w].unit > 0 \/ Udp) THEN "again"
             ELSE IF NoneCounted(w) THEN "decLast" ELSE "dec")
  /\ UNCHANGED <<Rest, Kernels, orderVars, lifeVars, OutstandingOps, bClosing,
                 SockCritSec, io, i, failed, sendFailed>>

LEMMA SendsCases ==
  ASSUME NEW w, Sends(w)  PROVE DoSend(w) \/ SendRefused(w) \/ NoneInOrder(w)
BY DEF Sends, SendRefused, NoneInOrder

LEMMA PcType ==
  ASSUME TypeOK, NEW w \in Threads, Take(w) \/ HandleIo(w)
  PROVE  pc' \in [Threads -> Labels]
<1>1. pc \in [Threads -> Labels]
  BY DEF TypeOK
<1>2. pc' = pc \/ \E l \in Labels : pc' = [pc EXCEPT ![w] = l]
  <2> USE DEF Goto, Labels
  <2>1. CASE Take(w)
    BY <2>1 DEF Take
  <2>2. CASE ErrorPath(w) \/ Dispatch(w) \/ SendCompleted(w)
    BY <2>2 DEF ErrorPath, Dispatch, SendCompleted
  <2>3. CASE Sends(w)
    BY <2>3 DEF Sends, DoSend
  <2>4. CASE ReceiveAgain(w) \/ CountPost(w) \/ CountOff(w) \/ TailSends(w)
    BY <2>4 DEF ReceiveAgain, CountPost, CountOff, TailSends
  <2>5. CASE CloseSocket(w) \/ Free(w)
    BY <2>5 DEF CloseSocket, Free
  <2>6. CASE AcceptPath(w)
    BY <2>6 DEF AcceptPath, Accepted, FirstSend, FirstReceives, PostAccept, CountAccept, CheckAccepted
  <2>7. CASE UseAfterFree(w)
    BY <2>7 DEF UseAfterFree, threadVars
  <2> QED
    BY <2>1, <2>2, <2>3, <2>4, <2>5, <2>6, <2>7 DEF HandleIo
<1> QED
  BY <1>1, <1>2

LEMMA TypeThread ==
  ASSUME TypeOK, Shape, NEW w \in Threads, Take(w) \/ HandleIo(w)
  PROVE  TypeOK'
<1> USE Sockets DEF Rest, Kernels, clientVars, orderVars, lifeVars
<1>0. pc' \in [Threads -> Labels]
  BY PcType
<1>20. /\ bClosing \in [Objs -> 0 .. 1] /\ failed \in [Threads -> 0 .. 1]
       /\ mem \in [Objs -> {"heap", "live", "freed"}] /\ handle \in [Objs -> {"open", "closed"}]
       /\ OutOfOrderSends \in [Objs -> Seq(Pending)] /\ 0 \in 0 .. 1 /\ 1 \in 0 .. 1
  BY DEF TypeOK
<1>21. ASSUME NEW o, SetClosing(o)  PROVE bClosing' \in [Objs -> 0 .. 1]
  BY <1>20, <1>21 DEF SetClosing
<1>1. CASE Take(w)
  <2>1. Head(port) \in Item /\ port' \in Seq(Item)
    BY <1>1, PortTail DEF Take
  <2> QED
    BY <1>0, <1>1, <2>1 DEF Take, TypeOK
<1>2. CASE ErrorPath(w)
  BY <1>0, <1>2 DEF ErrorPath, TypeOK
<1>3. ASSUME Busy(w)
      PROVE  /\ io[w] \in Item /\ conn(w) \in Conns /\ conn(w) \in Objs /\ sock(w) \in Objs
             /\ sock(w) \in Conns <=> io[w].op # "accept"
             /\ io[w].op # "accept" => sock(w) = conn(w)
  BY <1>3 DEF Shape, WellFormed, Item, conn, sock
<1>4. CASE Dispatch(w)
  <2>0. Busy(w)
    BY <1>4 DEF Dispatch, Busy, At
  <2>1. OutOfOrderSends' \in [Objs -> Seq(Pending)] /\ bClosing' \in [Objs -> 0 .. 1]
    <3> DEFINE b == [ord |-> io[w].ord, unit |-> io[w].unit]
    <3>1. b \in Pending
      BY <2>0, <1>3 DEF Item, Pending
    <3>2. OutOfOrderSends[sock(w)] \in Seq(Pending)
      BY <1>0, <2>0, <1>3 DEF TypeOK
    <3>3. InsertPendingSend(OutOfOrderSends[sock(w)], b) \in Seq(Pending)
      BY <3>1, <3>2, InsertInserts DEF Inserted
    <3>4. \/ /\ OutOfOrderSends' = [OutOfOrderSends EXCEPT ![sock(w)] = InsertPendingSend(@, b)]
             /\ UNCHANGED bClosing
          \/ SetClosing(sock(w)) /\ UNCHANGED OutOfOrderSends
      BY <1>4 DEF Dispatch
    <3> QED
      <4>1. OutOfOrderSends' \in [Objs -> Seq(Pending)]
        BY <1>20, <3>3, <3>4
      <4>2. bClosing' \in [Objs -> 0 .. 1]
        BY <1>20, <1>21, <3>4
      <4> QED
        BY <4>1, <4>2
  <2> QED
    BY <1>0, <1>4, <2>1 DEF Dispatch, TypeOK
<1>5. CASE SendCompleted(w)
  BY <1>0, <1>5 DEF SendCompleted, TypeOK
<1>6. ASSUME NEW c \in Conns, NEW u \in Nat, PostSend(c, u) \/ PostSendFails(c)
      PROVE  /\ LastSendIssued' \in [Objs -> Nat] /\ sends' \in [Conns -> Seq(Nat)]
                 /\ echoed' \in [Conns -> Seq(Nat)]
             /\ recvs' = recvs /\ port' = port
  <2>1. LastSendIssued' \in [Objs -> Nat]
    <3>1. LastSendIssued' = [LastSendIssued EXCEPT ![c] = @ + 1]
      BY <1>6 DEF PostSend, PostSendFails, CountSend
    <3> QED
      BY <3>1 DEF TypeOK
  <2>2. sends' \in [Conns -> Seq(Nat)]
    <3>1. sends' = [sends EXCEPT ![c] = Append(@, u)] \/ sends' = sends
      BY <1>6 DEF PostSend, PostSendFails
    <3>2. sends[c] \in Seq(Nat) /\ Append(sends[c], u) \in Seq(Nat)
      BY DEF TypeOK
    <3> QED
      BY <3>1, <3>2 DEF TypeOK
  <2>3. echoed' \in [Conns -> Seq(Nat)]
    <3>1. echoed' = [echoed EXCEPT ![c] = IF u > 0 THEN Append(@, u) ELSE @] \/ echoed' = echoed
      BY <1>6 DEF PostSend, PostSendFails, Kernels
    <3>2. echoed[c] \in Seq(Nat) /\ Append(echoed[c], u) \in Seq(Nat)
      BY DEF TypeOK
    <3> QED
      BY <3>1, <3>2 DEF TypeOK
  <2> QED
    BY <1>6, <2>1, <2>2, <2>3 DEF PostSend, PostSendFails
<1>7. ASSUME NEW c \in Conns, PostRecv(c) \/ PostRecvFails(c)
      PROVE  /\ IoCountIssued' \in [Objs -> Nat] /\ recvs' \in [Conns -> Seq(Nat)]
             /\ UNCHANGED <<sends, port, echoed, LastSendIssued, OutOfOrderSends>>
  <2>1. IoCountIssued' = [IoCountIssued EXCEPT ![c] = @ + 1]
    BY <1>7 DEF PostRecv, PostRecvFails, CountRecv
  <2>2. IoCountIssued' \in [Objs -> Nat]
    BY <2>1 DEF TypeOK
  <2>3. recvs' \in [Conns -> Seq(Nat)]
    <3>1. recvs' = [recvs EXCEPT ![c] = Append(@, IoCountIssued[c])] \/ recvs' = recvs
      BY <1>7 DEF PostRecv, PostRecvFails
    <3>2. Append(recvs[c], IoCountIssued[c]) \in Seq(Nat)
      BY DEF TypeOK
    <3> QED
      BY <3>1, <3>2 DEF TypeOK
  <2> QED
    BY <1>7, <2>2, <2>3 DEF PostRecv, PostRecvFails, CountRecv
<1>8. CASE Sends(w)
  <2>0. Busy(w) /\ pc[w] = "sends" /\ sock(w) \in Conns
    BY <1>8, <1>3, SendsCases DEF SendRefused, NoneInOrder, DoSend, DoSendFails, NoSend, At, Busy, Shape, SocketPcs
  <2>1. CASE DoSend(w)
    <3>1. OutOfOrderSends[sock(w)] \in Seq(Pending) /\ OutOfOrderSends[sock(w)] # <<>>
      BY <1>0, <2>0, <2>1 DEF TypeOK, DoSend, InOrder
    <3>2. /\ Head(OutOfOrderSends[sock(w)]).unit \in Nat
          /\ Tail(OutOfOrderSends[sock(w)]) \in Seq(Pending)
      <4>1. Head(OutOfOrderSends[sock(w)]) \in Pending
        BY <3>1
      <4> QED
        BY <3>1, <4>1 DEF Pending
    <3>3. /\ LastSendIssued' \in [Objs -> Nat] /\ sends' \in [Conns -> Seq(Nat)]
          /\ recvs' = recvs /\ port' = port /\ echoed' \in [Conns -> Seq(Nat)]
      BY <2>0, <2>1, <3>2, <1>6 DEF DoSend
    <3> QED
      BY <1>0, <2>1, <3>2, <3>3 DEF DoSend, TypeOK
  <2>2. CASE SendRefused(w)
    <3>1. OutOfOrderSends[sock(w)] \in Seq(Pending) /\ OutOfOrderSends[sock(w)] # <<>>
      BY <1>0, <2>0, <2>2 DEF TypeOK, SendRefused, DoSendFails, InOrder
    <3>2. [OutOfOrderSends[sock(w)] EXCEPT ![1].ord = Freed] \in Seq(Pending)
      <4> DEFINE list == OutOfOrderSends[sock(w)]
      <4>1. 1 \in DOMAIN list /\ list[1] \in Pending
        BY <3>1
      <4>2. [list[1] EXCEPT !.ord = Freed] \in Pending
        BY <4>1 DEF Pending, Freed
      <4>3. [list EXCEPT ![1].ord = Freed] = [list EXCEPT ![1] = [list[1] EXCEPT !.ord = Freed]]
        BY <4>1
      <4> HIDE DEF list
      <4> QED
        BY <3>1, <4>1, <4>2, <4>3 DEF list
    <3>3. /\ LastSendIssued' \in [Objs -> Nat] /\ sends' = sends /\ recvs' = recvs /\ port' = port
          /\ echoed' = echoed
        BY <2>0, <2>2, <1>6 DEF SendRefused, DoSendFails, PostSendFails
      <3>4. bClosing' \in [Objs -> 0 .. 1]
        BY <1>21, <2>2 DEF SendRefused
      <3>5. OutOfOrderSends' \in [Objs -> Seq(Pending)]
        BY <1>20, <2>2, <3>2 DEF SendRefused, DoSendFails
      <3>6. UNCHANGED <<client, received, gaps, mem, handle, IoCountIssued, io, failed>>
        BY <2>2 DEF SendRefused, DoSendFails
    <3> QED
      BY <1>0, <3>3, <3>4, <3>5, <3>6 DEF TypeOK
  <2>3. CASE NoneInOrder(w)
    BY <1>0, <2>3 DEF NoneInOrder, TypeOK
  <2> QED
    BY <1>8, <2>1, <2>2, <2>3, SendsCases
<1>9. CASE ReceiveAgain(w)
  <2>0. sock(w) \in Conns
    BY <1>9, <1>3 DEF ReceiveAgain, At, Busy, Shape, SocketPcs
  <2>1. /\ IoCountIssued' \in [Objs -> Nat] /\ recvs' \in [Conns -> Seq(Nat)]
        /\ UNCHANGED <<sends, port, echoed, LastSendIssued, OutOfOrderSends>>
    BY <1>9, <2>0, <1>7 DEF ReceiveAgain
  <2>2. bClosing' \in [Objs -> 0 .. 1]
    BY <1>20, <1>21, <1>9 DEF ReceiveAgain
  <2> QED
    BY <1>0, <1>9, <2>1, <2>2 DEF ReceiveAgain, TypeOK
<1>10. CASE CountPost(w)
  BY <1>0, <1>10 DEF CountPost, TypeOK
<1>11. CASE CountOff(w)
  BY <1>0, <1>11 DEF CountOff, TypeOK
<1>12. CASE TailSends(w)
  BY <1>0, <1>12 DEF TailSends, TypeOK
<1>13. CASE CloseSocket(w) \/ Free(w)
  <2>1. mem' \in [Objs -> {"heap", "live", "freed"}]
    BY <1>20, <1>13 DEF CloseSocket, Free, FreeSocketObj
  <2>2. handle' \in [Objs -> {"open", "closed"}]
    BY <1>20, <1>13 DEF CloseSocket, Free
  <2> QED
    BY <1>0, <1>13, <2>1, <2>2 DEF CloseSocket, Free, TypeOK
<1>14. CASE Accepted(w)
  <2>1. mem' \in [Objs -> {"heap", "live", "freed"}]
    BY <1>20, <1>14 DEF Accepted
  <2>2. failed' \in [Threads -> 0 .. 1]
    BY <1>20, <1>14 DEF Accepted
  <2> QED
    BY <1>0, <1>14, <2>1, <2>2 DEF Accepted, TypeOK
<1>15. CASE FirstSend(w)
  <2>0. conn(w) \in Conns /\ io[w].unit \in Nat
    BY <1>15, <1>3 DEF FirstSend, At, Busy, Item
  <2>1. /\ LastSendIssued' \in [Objs -> Nat] /\ sends' \in [Conns -> Seq(Nat)]
        /\ recvs' = recvs /\ port' = port /\ echoed' \in [Conns -> Seq(Nat)]
    BY <1>15, <2>0, <1>6 DEF FirstSend
  <2>2. failed' \in [Threads -> 0 .. 1]
    BY <1>20, <1>15 DEF FirstSend, Fail
  <2> QED
    BY <1>0, <1>15, <2>1, <2>2 DEF FirstSend, TypeOK
<1>16. CASE FirstReceives(w)
  <2>0. conn(w) \in Conns
    BY <1>16, <1>3 DEF FirstReceives, At, Busy
  <2>1. failed' \in [Threads -> 0 .. 1]
    BY <1>16 DEF FirstReceives, Fail, TypeOK
  <2>2. /\ IoCountIssued' \in [Objs -> Nat] /\ recvs' \in [Conns -> Seq(Nat)]
        /\ UNCHANGED <<sends, port, echoed, LastSendIssued, OutOfOrderSends>>
    <3>1. CASE PostRecv(conn(w)) \/ PostRecvFails(conn(w))
      BY <2>0, <3>1, <1>7
    <3>2. CASE UNCHANGED <<Kernels, orderVars>>
      BY <3>2 DEF TypeOK
    <3> QED
      BY <1>16, <3>1, <3>2 DEF FirstReceives
  <2> QED
    BY <1>0, <1>16, <2>1, <2>2 DEF FirstReceives, TypeOK
<1>17. CASE PostAccept(w) \/ CountAccept(w)
  BY <1>0, <1>17 DEF PostAccept, CountAccept, TypeOK
<1>18. CASE CheckAccepted(w)
  <2>1. mem' \in [Objs -> {"heap", "live", "freed"}] /\ handle' \in [Objs -> {"open", "closed"}]
    BY <1>20, <1>18 DEF CheckAccepted, FreeSocketObj
  <2>2. bClosing' \in [Objs -> 0 .. 1]
    BY <1>20, <1>21, <1>18 DEF CheckAccepted
  <2> QED
    BY <1>0, <1>18, <2>1, <2>2 DEF CheckAccepted, TypeOK
<1>19. CASE UseAfterFree(w)
  BY <1>0, <1>19 DEF UseAfterFree, TypeOK, kernelVars, threadVars
<1> QED
  BY <1>1, <1>2, <1>4, <1>5, <1>8, <1>9, <1>10, <1>11, <1>12, <1>13, <1>14, <1>15, <1>16,
     <1>17, <1>18, <1>19 DEF HandleIo, AcceptPath

\* Shape.
LEMMA ShapeInit == Init => Shape
BY DEF Init, Shape, Busy, AcceptPcs, SocketPcs

LEMMA DoneShape ==
  ASSUME TypeOK, Shape, NEW x \in Item, Queue(x), WellFormed(x), UNCHANGED <<pc, io>>
  PROVE  Shape'
<1>1. \A n \in DOMAIN port' : WellFormed(port'[n])
  BY PortAppend DEF Shape
<1> QED
  BY <1>1 DEF Shape, Busy, WellFormed

LEMMA ShapeKernel ==
  ASSUME TypeOK, Shape, NEW c \in Conns, Shutdown(c) \/ Reset(c) \/ Kernel(c)
  PROVE  Shape'
<1>1. CASE Shutdown(c) \/ Reset(c)
  BY <1>1 DEF Shutdown, Reset, Shape, Outside, threadVars, Busy, WellFormed
<1>2. ASSUME NEW op \in {"accept", "recv", "send"}, NEW n \in Nat, NEW u \in Nat, NEW e \in 0 .. 1,
             op = "accept" => n = 0, Queue(Done(op, c, n, u, e)), UNCHANGED <<pc, io>>
      PROVE  Shape'
  <2>1. WellFormed(Done(op, c, n, u, e))
    BY <1>2 DEF WellFormed, Done
  <2> QED
    BY <1>2, <2>1, DoneItem, DoneShape
<1>3. CASE Kernel(c)
  <2>0. UNCHANGED <<pc, io>>
    BY <1>3 DEF Kernel, AcceptDone, AcceptFails, RecvDone, RecvZero, RecvError, RecvTooLong,
                RecvCompletes, SendDone, Outside, threadVars
  <2>1. recvs[c] # <<>> => Head(recvs[c]) \in Nat
    BY DEF TypeOK
  <2>2. sends[c] # <<>> => Head(sends[c]) \in Nat
    BY DEF TypeOK
  <2>3. CASE AcceptDone(c)
    BY <2>0, <2>3, <1>2 DEF AcceptDone
  <2>4. CASE AcceptFails(c)
    BY <2>0, <2>4, <1>2 DEF AcceptFails
  <2>5. CASE RecvDone(c)
    <3>1. received[c] + 1 \in Nat
      BY DEF TypeOK
    <3> QED
      BY <2>0, <2>1, <2>5, <3>1, <1>2 DEF RecvDone, RecvCompletes
  <2>6. CASE RecvZero(c) \/ RecvError(c) \/ RecvTooLong(c)
    BY <2>0, <2>1, <2>6, <1>2 DEF RecvZero, RecvError, RecvTooLong, RecvCompletes
  <2>7. CASE SendDone(c)
    BY <2>0, <2>2, <2>7, <1>2 DEF SendDone
  <2> QED
    BY <1>3, <2>3, <2>4, <2>5, <2>6, <2>7 DEF Kernel
<1> QED
  BY <1>1, <1>3

\* What a step of a thread other than Take leaves alone.
LEMMA Stays ==
  ASSUME NEW w \in Threads, HandleIo(w)
  PROVE  UNCHANGED <<clientVars, port, io, gaps>>
<1> USE DEF Rest, Kernels, clientVars
<1>1. CASE ErrorPath(w) \/ Dispatch(w) \/ SendCompleted(w)
  BY <1>1 DEF ErrorPath, Dispatch, SendCompleted
<1>2. CASE Sends(w)
  BY <1>2, SendsCases DEF SendRefused, NoneInOrder, DoSend, DoSendFails, PostSend, PostSendFails
<1>3. CASE ReceiveAgain(w)
  BY <1>3 DEF ReceiveAgain, PostRecv, PostRecvFails, CountRecv
<1>4. CASE CountPost(w) \/ CountOff(w) \/ TailSends(w) \/ CloseSocket(w) \/ Free(w)
  BY <1>4 DEF CountPost, CountOff, TailSends, CloseSocket, Free
<1>5. CASE Accepted(w) \/ PostAccept(w) \/ CountAccept(w) \/ CheckAccepted(w)
  BY <1>5 DEF Accepted, PostAccept, CountAccept, CheckAccepted
<1>6. CASE FirstSend(w)
  BY <1>6 DEF FirstSend, PostSend, PostSendFails
<1>7. CASE FirstReceives(w)
  BY <1>7 DEF FirstReceives, PostRecv, PostRecvFails, CountRecv
<1>8. CASE UseAfterFree(w)
  BY <1>8 DEF UseAfterFree, kernelVars, threadVars
<1> QED
  BY <1>1, <1>2, <1>3, <1>4, <1>5, <1>6, <1>7, <1>8 DEF HandleIo, AcceptPath

\* The steps of a thread that handles a completion.
LEMMA Moves ==
  ASSUME TypeOK, Shape, NEW w \in Threads, HandleIo(w)
  PROVE  /\ Busy(w) /\ \A v \in Threads \ {w} : pc'[v] = pc[v] /\ failed'[v] = failed[v]
         /\ pc'[w] \in AcceptPcs => io[w].op = "accept"
         /\ pc'[w] \in SocketPcs => io[w].op # "accept"
         /\ pc'[w] = "enter" => pc[w] = "enter"
         /\ pc'[w] = "firstSend" => pc[w] \in {"enter", "firstSend"}
<1>1. /\ pc[w] \in AcceptPcs => io[w].op = "accept"
      /\ pc[w] \in SocketPcs => io[w].op # "accept"
      /\ Busy(w) => io[w].op \in {"accept", "recv", "send"}
  BY DEF Shape, Item
<1>2. pc \in [Threads -> Labels] /\ failed \in [Threads -> 0 .. 1]
  BY DEF TypeOK
<1> USE <1>1, <1>2 DEF Busy, AcceptPcs, SocketPcs, At, Goto
<1>3. CASE ErrorPath(w)
  BY <1>3 DEF ErrorPath
<1>4. CASE Dispatch(w) \/ SendCompleted(w)
  BY <1>4 DEF Dispatch, SendCompleted
<1>5. CASE Sends(w)
  BY <1>5, SendsCases DEF SendRefused, NoneInOrder, DoSend, DoSendFails, NoSend
<1>6. CASE ReceiveAgain(w)
  BY <1>6 DEF ReceiveAgain
<1>7. CASE CountPost(w)
  BY <1>7 DEF CountPost
<1>8. CASE CountOff(w) \/ TailSends(w) \/ CloseSocket(w) \/ Free(w)
  BY <1>8 DEF CountOff, TailSends, NoSend, CloseSocket, Free
<1>9. CASE Accepted(w)
  BY <1>9 DEF Accepted
<1>10. CASE FirstSend(w)
  BY <1>10 DEF FirstSend, Fail
<1>11. CASE FirstReceives(w)
  BY <1>11 DEF FirstReceives, Fail
<1>12. CASE PostAccept(w) \/ CountAccept(w) \/ CheckAccepted(w)
  BY <1>12 DEF PostAccept, CountAccept, CheckAccepted
<1>13. CASE UseAfterFree(w)
  BY <1>13 DEF UseAfterFree, threadVars, Dangling, UsesSock, UsesConn
<1> QED
  BY <1>3, <1>4, <1>5, <1>6, <1>7, <1>8, <1>9, <1>10, <1>11, <1>12, <1>13 DEF HandleIo, AcceptPath

LEMMA ShapeThread ==
  ASSUME TypeOK, TypeOK', Shape, NEW w \in Threads, Take(w) \/ HandleIo(w)
  PROVE  Shape'
<1>1. CASE Take(w)
  <2>1. /\ port # <<>> /\ port' = Tail(port) /\ pc[w] = "wait"
        /\ io' = [io EXCEPT ![w] = Head(port)]
        /\ \E l \in {"error", "enter"} : pc' = [pc EXCEPT ![w] = l]
    BY <1>1 DEF Take, At, Goto
  <2>2. Head(port) \in Item /\ WellFormed(Head(port)) /\ \A n \in DOMAIN port' : WellFormed(port'[n])
    BY <2>1, PortTail DEF Shape
  <2>3. \A v \in Threads : v # w => pc'[v] = pc[v] /\ io'[v] = io[v]
    BY <2>1 DEF TypeOK
  <2>4. pc'[w] \in {"error", "enter"} /\ io'[w] = Head(port)
    BY <2>1 DEF TypeOK
  <2>5. ASSUME NEW v \in Threads
        PROVE  /\ Busy(v)' => io'[v] \in Item /\ WellFormed(io'[v])
               /\ pc'[v] \in AcceptPcs => io'[v].op = "accept"
               /\ pc'[v] \in SocketPcs => io'[v].op # "accept"
    <3>1. CASE v = w
      BY <3>1, <2>2, <2>4 DEF AcceptPcs, SocketPcs
    <3>2. CASE v # w
      BY <3>2, <2>3 DEF Shape, Busy
    <3> QED
      BY <3>1, <3>2
  <2> QED
    BY <2>2, <2>5 DEF Shape, WellFormed
<1>2. CASE HandleIo(w)
  <2>1. UNCHANGED <<port, io>>
    BY <1>2, Stays
  <2>2. ASSUME NEW v \in Threads
        PROVE  /\ Busy(v)' => io[v] \in Item /\ WellFormed(io[v])
               /\ pc'[v] \in AcceptPcs => io[v].op = "accept"
               /\ pc'[v] \in SocketPcs => io[v].op # "accept"
    <3>1. CASE v = w
      BY <1>2, <3>1, Moves DEF Shape
    <3>2. CASE v # w
      BY <1>2, <3>2, Moves DEF Shape, Busy
    <3> QED
      BY <3>1, <3>2
  <2> QED
    BY <2>1, <2>2 DEF Shape, WellFormed
<1> QED
  BY <1>1, <1>2
-----------------------------------------------------------------------------
(* A step is about one connection. *)

Same(c) ==
  UNCHANGED <<client[c], received[c], recvs[c], sends[c], OutOfOrderSends[c],
              LastSendIssued[c], IoCountIssued[c], echoed[c], mem[c], handle[c], bClosing[c]>>

LEMMA Local ==
  ASSUME TypeOK, Shape, NEW w \in Threads, HandleIo(w), NEW c \in Conns, c # conn(w)
  PROVE  Same(c) /\ (leaked' = NULL => leaked = NULL)
<1>1. Busy(w)
  BY Moves
<1>2. conn(w) \in Conns /\ sock(w) # c /\ w # NULL /\ Listener # c /\ c \in Objs
  BY <1>1, Sockets DEF Shape, WellFormed, Item, conn, sock
<1>3. UNCHANGED <<client, received>>
  BY Stays DEF clientVars
<1>4. /\ DOMAIN recvs = Conns /\ DOMAIN sends = Conns /\ DOMAIN echoed = Conns
      /\ DOMAIN OutOfOrderSends = Objs /\ DOMAIN LastSendIssued = Objs /\ DOMAIN IoCountIssued = Objs
      /\ DOMAIN mem = Objs /\ DOMAIN handle = Objs /\ DOMAIN bClosing = Objs
  BY DEF TypeOK
<1> USE <1>2, <1>3, <1>4 DEF Same, Rest, Kernels, orderVars, lifeVars
<1>5. CASE ErrorPath(w) \/ SendCompleted(w)
  BY <1>5 DEF ErrorPath, SendCompleted
<1>6. CASE Dispatch(w)
  BY <1>6 DEF Dispatch, SetClosing
<1>7. ASSUME NEW d \in Conns, d # c, NEW u, PostSend(d, u) \/ PostSendFails(d)
      PROVE  UNCHANGED <<recvs[c], sends[c], LastSendIssued[c], echoed[c]>>
  BY <1>7 DEF PostSend, PostSendFails, CountSend
<1>8. ASSUME NEW d \in Conns, d # c, PostRecv(d) \/ PostRecvFails(d)
      PROVE  UNCHANGED <<recvs[c], sends[c], LastSendIssued[c], echoed[c], OutOfOrderSends[c],
                         IoCountIssued[c]>>
  BY <1>8 DEF PostRecv, PostRecvFails, CountRecv
<1>9. pc[w] \in SocketPcs => sock(w) \in Conns
  BY <1>1 DEF Shape, WellFormed, Item, conn, sock
<1>10. CASE Sends(w)
  <2>0. sock(w) \in Conns
    BY <1>10, <1>9, SendsCases DEF SendRefused, NoneInOrder, DoSend, DoSendFails, NoSend, At, SocketPcs
  <2>1. CASE DoSend(w)
    BY <2>0, <2>1, <1>7 DEF DoSend
  <2>2. CASE SendRefused(w)
    BY <2>0, <2>2, <1>7 DEF SendRefused, DoSendFails, SetClosing
  <2>3. CASE NoneInOrder(w)
    BY <2>3 DEF NoneInOrder
  <2> QED
    BY <1>10, <2>1, <2>2, <2>3, SendsCases
<1>11. CASE ReceiveAgain(w)
  <2>0. sock(w) \in Conns
    BY <1>11, <1>9 DEF ReceiveAgain, At, SocketPcs
  <2> QED
    BY <1>11, <2>0, <1>8 DEF ReceiveAgain, SetClosing
<1>12. CASE CountPost(w) \/ CountOff(w) \/ TailSends(w)
  BY <1>12 DEF CountPost, CountOff, TailSends
<1>13. CASE CloseSocket(w) \/ Free(w)
  <2>1. sock(w) \in Objs /\ sock(w) # c
    BY <1>1, <1>2, Sockets DEF Shape, WellFormed, Item, conn, sock
  <2>2. mem'[c] = mem[c] /\ handle'[c] = handle[c]
    BY <1>13, <2>1 DEF CloseSocket, Free, FreeSocketObj
  <2> QED
    BY <1>13, <2>2 DEF CloseSocket, Free
<1>14. CASE Accepted(w)
  BY <1>14 DEF Accepted
<1>15. CASE FirstSend(w)
  BY <1>15, <1>7 DEF FirstSend
<1>16. CASE FirstReceives(w)
  BY <1>16, <1>8 DEF FirstReceives
<1>17. CASE PostAccept(w) \/ CountAccept(w)
  BY <1>17 DEF PostAccept, CountAccept
<1>18. CASE CheckAccepted(w)
  <2>1. mem'[c] = mem[c] /\ handle'[c] = handle[c] /\ bClosing'[c] = bClosing[c]
    BY <1>18 DEF CheckAccepted, FreeSocketObj, SetClosing
  <2> QED
    BY <1>18, <2>1 DEF CheckAccepted
<1>19. CASE UseAfterFree(w)
  BY <1>19 DEF UseAfterFree, clientVars, kernelVars
<1> QED
  BY <1>5, <1>6, <1>10, <1>11, <1>12, <1>13, <1>14, <1>15, <1>16, <1>17, <1>18, <1>19
     DEF HandleIo, AcceptPath

\* The items of c in the port are the same, d places further on.
SameItems(c, d) ==
  /\ \A n \in DOMAIN port : port[n].conn = c => n - d \in DOMAIN port' /\ port'[n - d] = port[n]
  /\ \A n \in DOMAIN port' : port'[n].conn = c => n + d \in DOMAIN port /\ port[n + d] = port'[n]
SameThreads(c) ==
  \A v \in Threads :
    /\ Busy(v) /\ conn(v) = c => pc'[v] = pc[v] /\ io'[v] = io[v] /\ failed'[v] = failed[v]
    /\ Busy(v)' /\ conn(v)' = c => Busy(v) /\ conn(v) = c
SameWorld ==
  /\ UNCHANGED gProtocol /\ gaps \in {gaps', 0} /\ gaps' \in 0 .. 1
  /\ leaked' = NULL => leaked = NULL

LEMMA OtherLeaving ==
  ASSUME NEW c \in Conns, NEW d \in {0, 1}, Same(c), SameItems(c, d), SameThreads(c), SameWorld,
         Leaving(c)
  PROVE  Leaving(c)'
<1>2. \A n \in DOMAIN port' : (port[n].conn = c => Empty(port[n]))'
  <2>1. SUFFICES ASSUME NEW n \in DOMAIN port', port'[n].conn = c
                 PROVE  Empty(port[n])'
    OBVIOUS
  <2>2. n + d \in DOMAIN port /\ port[n + d] = port'[n]
    BY <2>1 DEF SameItems
  <2>3. Empty(port[n + d]) /\ port[n + d].conn = c
    BY <2>1, <2>2 DEF Leaving
  <2> QED
    BY <2>2, <2>3 DEF Empty, Same, SameWorld
<1>3. \A v \in Threads : Busy(v)' /\ conn(v)' = c => Steps(v)'
  <2>1. SUFFICES ASSUME NEW v \in Threads, Busy(v)', conn(v)' = c  PROVE Steps(v)'
    OBVIOUS
  <2>2. Busy(v) /\ conn(v) = c /\ pc'[v] = pc[v] /\ io'[v] = io[v] /\ failed'[v] = failed[v]
    BY <2>1 DEF SameThreads
  <2>3. Steps(v)
    BY <2>2 DEF Leaving
  <2> QED
    BY <2>2, <2>3 DEF Steps, Gone, Same, SameWorld, Empty, conn, Udp
<1> QED
  BY <1>2, <1>3 DEF Leaving, Same, SameWorld, Udp

LEMMA OtherPhases ==
  ASSUME NEW c \in Conns, NEW d \in {0, 1}, Same(c), SameItems(c, d), SameThreads(c), SameWorld,
         Phases(c), TypeOK, TypeOK'
  PROVE  Phases(c)'
<1>1. Quiet(c) => Quiet(c)'
  BY DEF Quiet, Same
<1>2. NoItem(c) => NoItem(c)'
  BY DEF NoItem, SameItems
<1>3. NoThread(c) => NoThread(c)'
  BY DEF NoThread, SameThreads, conn
<1>4. client'[c] = "none" => /\ Quiet(c)' /\ mem'[c] = "heap" /\ NoItem(c)' /\ NoThread(c)'
                             /\ received'[c] = 0 /\ handle'[c] = "open"
  BY <1>1, <1>2, <1>3 DEF Phases, Same
<1>5. ASSUME NEW n \in DOMAIN port', port'[n].op = "accept", port'[n].conn = c
      PROVE  /\ Quiet(c)' /\ mem'[c] = "heap" /\ NoThread(c)'
             /\ \A m \in DOMAIN port' : port'[m].conn = c => m = n
  <2>1. n + d \in DOMAIN port /\ port[n + d].op = "accept" /\ port[n + d].conn = c
    BY <1>5 DEF SameItems
  <2>2. /\ Quiet(c) /\ mem[c] = "heap" /\ NoThread(c)
        /\ \A m \in DOMAIN port : port[m].conn = c => m = n + d
    BY <2>1 DEF Phases
  <2>3. \A m \in DOMAIN port' : port'[m].conn = c => m + d \in DOMAIN port /\ port[m + d].conn = c
    BY DEF SameItems
  <2>4. \A m \in DOMAIN port' : m \in Nat
    <3>1. port' \in Seq(Item)
      BY DEF TypeOK
    <3> QED
      BY <3>1, Places
  <2> QED
    BY <2>2, <2>3, <2>4, <1>1, <1>3 DEF Same
<1>6. ASSUME NEW w \in Threads, Opens(w)', io'[w].conn = c
      PROVE  /\ pc'[w] = "enter" => mem'[c] = "heap"
             /\ Quiet(c)' /\ NoItem(c)'
             /\ \A v \in Threads : Busy(v)' /\ io'[v].conn = c => v = w
  <2>1. /\ Busy(w) /\ io[w].conn = c /\ pc'[w] = pc[w] /\ io'[w] = io[w]
    BY <1>6 DEF SameThreads, Opens, Busy, conn
  <2>2. Opens(w)
    BY <1>6, <2>1 DEF Opens
  <2>3. /\ pc[w] = "enter" => mem[c] = "heap"
        /\ Quiet(c) /\ NoItem(c)
        /\ \A v \in Threads : Busy(v) /\ io[v].conn = c => v = w
    BY <2>1, <2>2 DEF Phases
  <2> QED
    BY <2>1, <2>3, <1>1, <1>2 DEF Same, SameThreads, conn
<1> QED
  BY <1>4, <1>5, <1>6 DEF Phases

\* What is in play of another connection is the same.
LEMMA OtherData ==
  ASSUME NEW c \in Conns, NEW d \in {0, 1}, Same(c), SameItems(c, d), SameThreads(c),
         TypeOK, TypeOK'
  PROVE  /\ Entering(c)' = Entering(c) /\ \A w \in Entering(c) : io'[w] = io[w]
         /\ \A n \in AtPort(c) : n - d \in AtPort(c)' /\ port'[n - d] = port[n]
         /\ \A n \in AtPort(c)' : n + d \in AtPort(c) /\ port[n + d] = port'[n] /\ n \in Nat
         /\ InPort(c)' = InPort(c) /\ InThreads(c)' = InThreads(c) /\ Data(c)' = Data(c)
         /\ InRecvs(c)' = InRecvs(c) /\ InPending(c)' = InPending(c)
<1>1. Entering(c)' = Entering(c) /\ \A w \in Entering(c) : io'[w] = io[w]
  BY DEF Entering, SameThreads, At, Busy, conn
<1>2. \A n \in AtPort(c) : n - d \in AtPort(c)' /\ port'[n - d] = port[n]
  BY DEF AtPort, SameItems
<1>3. \A n \in AtPort(c)' : n + d \in AtPort(c) /\ port[n + d] = port'[n] /\ n \in Nat
  <2>1. port' \in Seq(Item)
    BY DEF TypeOK
  <2>2. \A n \in DOMAIN port' : n \in Nat
    BY <2>1, Places
  <2> QED
    BY <2>2 DEF AtPort, SameItems
<1>4. InThreads(c)' = InThreads(c)
  BY <1>1 DEF InThreads
<1>5. InPort(c)' = InPort(c)
  BY <1>2, <1>3 DEF InPort
<1>6. InRecvs(c)' = InRecvs(c) /\ InPending(c)' = InPending(c)
  BY DEF InRecvs, InPending, Same
<1>7. Data(c)' = Data(c)
  <2>1. {Buf(port[n]) : n \in {m \in AtPort(c) : port[m].unit > 0}}'
          = {Buf(port[n]) : n \in {m \in AtPort(c) : port[m].unit > 0}}
    BY <1>2, <1>3 DEF Buf
  <2>2. {Buf(io[w]) : w \in {v \in Entering(c) : io[v].unit > 0}}'
          = {Buf(io[w]) : w \in {v \in Entering(c) : io[v].unit > 0}}
    BY <1>1 DEF Buf
  <2>3. Range(OutOfOrderSends[c])' = Range(OutOfOrderSends[c])
    BY DEF Same
  <2> QED
    BY <2>1, <2>2, <2>3 DEF Data
<1> QED
  BY <1>1, <1>2, <1>3, <1>4, <1>5, <1>6, <1>7

LEMMA OtherOrdered ==
  ASSUME NEW c \in Conns, NEW d \in {0, 1}, Same(c), SameItems(c, d), SameThreads(c), SameWorld,
         TypeOK, TypeOK', Sound(c) => Ordered(c)
  PROVE  (Sound(c) => Ordered(c))'
<1> SUFFICES ASSUME Sound(c)'  PROVE Ordered(c)'
  OBVIOUS
<1>1. Sound(c)
  <2>1. Live(c) /\ bClosing[c] = 0 /\ client[c] # "reset" /\ gaps = 0 /\ leaked = NULL
    BY DEF Sound, Same, SameWorld, Live
  <2>2. \A n \in AtPort(c) : port[n].unit # 0
    BY OtherData DEF Sound
  <2>3. \A w \in Entering(c) : io[w].unit # 0
    BY OtherData DEF Sound
  <2>4. ~\E w \in Threads : At(w, "firstSend") /\ conn(w) = c
    BY DEF Sound, SameThreads, At, Busy, conn
  <2> QED
    BY <2>1, <2>2, <2>3, <2>4 DEF Sound
<1>2. Ordered(c)
  BY <1>1
<1>3. Distinct(c)'
  <2>1. \A m, n \in AtPort(c)' : port'[m].ord = port'[n].ord => m = n
    BY <1>2, OtherData DEF Ordered, Distinct
  <2>2. \A v, w \in Entering(c)' : io'[v].ord = io'[w].ord => v = w
    BY <1>2, OtherData DEF Ordered, Distinct
  <2> QED
    BY <1>2, <2>1, <2>2 DEF Ordered, Distinct, Same, Sorted
<1>4. Apart(c)'
  BY <1>2, OtherData DEF Ordered, Apart
<1> QED
  BY <1>2, <1>3, <1>4, OtherData DEF Ordered, Same

LEMMA OtherEcho ==
  ASSUME NEW c \in Conns, NEW d \in {0, 1}, Same(c), SameItems(c, d), SameThreads(c),
         TypeOK, TypeOK', EchoInv(c)
  PROVE  EchoInv(c)'
<1>1. IsPrefix1(echoed[c], received[c])'
  BY DEF EchoInv, Same
<1>2. Stuck(c) => Stuck(c)'
  BY DEF Stuck, Same
<1>3. Flows(c) => Flows(c)'
  BY OtherData DEF Flows, Same, Dead, Over, NoHole, Hole
<1>4. \A n \in DOMAIN port' : (port[n].conn = c => FirstData(port[n]))'
  <2>1. SUFFICES ASSUME NEW n \in DOMAIN port', port'[n].conn = c
                 PROVE  FirstData(port[n])'
    OBVIOUS
  <2>2. n + d \in DOMAIN port /\ port[n + d] = port'[n]
    BY <2>1 DEF SameItems
  <2>3. FirstData(port[n + d]) /\ port[n + d].conn = c
    BY <2>1, <2>2 DEF EchoInv
  <2> QED
    BY <2>2, <2>3 DEF FirstData, Same
<1>5. \A w \in Threads : (Opens(w) /\ conn(w) = c => FirstData(io[w]))'
  <2>1. SUFFICES ASSUME NEW w \in Threads, Opens(w)', conn(w)' = c
                 PROVE  FirstData(io[w])'
    OBVIOUS
  <2>2. /\ Busy(w) /\ conn(w) = c /\ pc'[w] = pc[w] /\ io'[w] = io[w]
    BY <2>1 DEF SameThreads, Opens, Busy
  <2>3. FirstData(io[w]) /\ io[w].conn = c
    BY <2>1, <2>2 DEF EchoInv, Opens, conn
  <2> QED
    BY <2>2, <2>3 DEF FirstData, Same
<1> QED
  BY <1>1, <1>2, <1>3, <1>4, <1>5 DEF EchoInv

LEMMA OtherConn ==
  ASSUME NEW c \in Conns, NEW d \in {0, 1}, Same(c), SameItems(c, d), SameThreads(c), SameWorld,
         TypeOK, TypeOK', ConnInv(c)
  PROVE  ConnInv(c)'
<1>1. Leaving(c)' /\ Phases(c)'
  BY OtherLeaving, OtherPhases DEF ConnInv
<1>2. EchoInv(c)'
  BY OtherEcho DEF ConnInv
<1>3. (Sound(c) => Ordered(c))'
  BY OtherOrdered DEF ConnInv
<1> QED
  BY <1>1, <1>2, <1>3 DEF ConnInv
-----------------------------------------------------------------------------
(* The clients and the kernel. *)

\* Something has been posted on c, or its accept is over.
Opened(c) ==
  /\ client[c] # "none"
  /\ \A n \in DOMAIN port : port[n].op = "accept" => port[n].conn # c
  /\ \A w \in Threads : Opens(w) => io[w].conn # c

LEMMA NotQuiet ==
  ASSUME NEW c \in Conns, Phases(c), ~Quiet(c)  PROVE Opened(c)
BY DEF Phases, Opened

\* A completed receive is new data of c, if it has any.
LEMMA Arrives ==
  ASSUME TypeOK, NEW c \in Conns, NEW x \in Item, x.op = "recv", x.conn = c, Queue(x),
         UNCHANGED <<pc, io, OutOfOrderSends>>
  PROVE  /\ Entering(c)' = Entering(c) /\ AtPort(c)' = AtPort(c) \cup {Len(port) + 1}
         /\ Len(port) + 1 \notin AtPort(c) /\ port'[Len(port) + 1] = x
         /\ \A n \in AtPort(c) : port'[n] = port[n]
         /\ InPort(c)' = InPort(c) \cup {x.ord}
         /\ InThreads(c)' = InThreads(c) /\ InPending(c)' = InPending(c)
         /\ Data(c)' = Data(c) \cup {b \in {Buf(x)} : x.unit > 0}
<1>1. Entering(c)' = Entering(c)
  BY DEF Entering, At, conn
<1>2. /\ AtPort(c)' = AtPort(c) \cup {Len(port) + 1} /\ port'[Len(port) + 1] = x
      /\ Len(port) + 1 \notin AtPort(c)
      /\ \A n \in AtPort(c) : port'[n] = port[n]
  <2>1. Len(port) + 1 \notin DOMAIN port /\ Len(port) + 1 \in DOMAIN port'
    BY PortAppend DEF TypeOK
  <2> QED
    BY <2>1, PortAppend DEF AtPort
<1>3. InPort(c)' = InPort(c) \cup {x.ord}
  BY <1>2 DEF InPort
<1>4. InThreads(c)' = InThreads(c) /\ InPending(c)' = InPending(c)
  BY <1>1 DEF InThreads, InPending
<1>5. {Buf(port[n]) : n \in {m \in AtPort(c) : port[m].unit > 0}}'
        = {Buf(port[n]) : n \in {m \in AtPort(c) : port[m].unit > 0}}
            \cup {b \in {Buf(x)} : x.unit > 0}
  BY <1>2 DEF Buf
<1>6. Data(c)' = Data(c) \cup {b \in {Buf(x)} : x.unit > 0}
  BY <1>1, <1>5 DEF Data, Buf
<1> QED
  BY <1>1, <1>2, <1>3, <1>4, <1>6

\* Another completion is not.
LEMMA ArrivesElse ==
  ASSUME TypeOK, NEW c \in Conns, NEW x \in Item, x.op # "recv", Queue(x),
         UNCHANGED <<pc, io, OutOfOrderSends>>
  PROVE  /\ Entering(c)' = Entering(c) /\ AtPort(c)' = AtPort(c)
         /\ \A n \in AtPort(c) : port'[n] = port[n]
         /\ InPort(c)' = InPort(c) /\ InThreads(c)' = InThreads(c) /\ InPending(c)' = InPending(c)
         /\ Data(c)' = Data(c)
<1>1. Entering(c)' = Entering(c)
  BY DEF Entering, At, conn
<1>2. AtPort(c)' = AtPort(c) /\ \A n \in AtPort(c) : port'[n] = port[n]
  BY PortAppend DEF AtPort
<1>3. InPort(c)' = InPort(c) /\ InThreads(c)' = InThreads(c) /\ InPending(c)' = InPending(c)
  BY <1>1, <1>2 DEF InPort, InThreads, InPending
<1>4. Data(c)' = Data(c)
  BY <1>1, <1>2 DEF Data, Buf
<1> QED
  BY <1>1, <1>2, <1>3, <1>4

\* An operation completes on a connection that is open.
LEMMA KernelLeaving ==
  ASSUME TypeOK, NEW c \in Conns, NEW x \in Item, x.conn = c, Queue(x), Empty(x)', Leaving(c),
         UNCHANGED <<pc, io, failed, handle, bClosing, client, gProtocol>>, gaps \in {gaps', 0},
         gaps' \in 0 .. 1
  PROVE  Leaving(c)'
<1>1. \A n \in DOMAIN port' : (port[n].conn = c => Empty(port[n]))'
  <2>1. SUFFICES ASSUME NEW n \in DOMAIN port', port'[n].conn = c
                 PROVE  Empty(port[n])'
    OBVIOUS
  <2>2. CASE n \in DOMAIN port
    <3>1. port'[n] = port[n] /\ Empty(port[n])
      BY <2>1, <2>2, PortAppend DEF Leaving
    <3> QED
      BY <3>1 DEF Empty
  <2>3. CASE port'[n] = x
    BY <2>3 DEF Empty
  <2> QED
    BY <2>2, <2>3, PortAppend
<1>2. \A v \in Threads : (Busy(v) /\ conn(v) = c => Steps(v))'
  <2>1. SUFFICES ASSUME NEW v \in Threads, Busy(v)', conn(v)' = c  PROVE Steps(v)'
    OBVIOUS
  <2>2. Busy(v) /\ conn(v) = c /\ Steps(v)
    BY <2>1 DEF Busy, conn, Leaving
  <2> QED
    BY <2>2 DEF Steps, Gone, Empty, conn, Udp
<1> QED
  BY <1>1, <1>2 DEF Leaving, Udp

LEMMA KernelOpened ==
  ASSUME TypeOK, NEW c \in Conns, NEW x \in Item, x.op # "accept", Queue(x), Opened(c),
         UNCHANGED <<pc, io, client>>
  PROVE  Opened(c)'
BY PortAppend DEF Opened, Opens

LEMMA OpenedRest ==
  ASSUME NEW c \in Conns, Opened(c)'
  PROVE  /\ Phases(c)'
         /\ \A n \in DOMAIN port' : (port[n].conn = c => FirstData(port[n]))'
         /\ \A w \in Threads : (Opens(w) /\ conn(w) = c => FirstData(io[w]))'
BY DEF Opened, Phases, FirstData, conn

\* The client shuts its connection down, or resets it.
LEMMA ClientOwn ==
  ASSUME TypeOK, NEW c \in Conns, ConnInv(c), Shutdown(c) \/ Reset(c)
  PROVE  ConnInv(c)'
<1>0. /\ UNCHANGED <<gProtocol, received, recvs, sends, port, echoed, IoCountIssued, LastSendIssued,
                     OutOfOrderSends, mem, handle, bClosing, pc, io, failed, leaked, gaps>>
      /\ client[c] \in {"open", "fin"} /\ client'[c] \in {"fin", "reset"} /\ Tcp
      /\ client[c] = "fin" => client'[c] = "reset"
  BY DEF Shutdown, Reset, Outside, orderVars, lifeVars, threadVars, TypeOK
<1>1. Leaving(c)'
  <2>1. \A n \in DOMAIN port : port[n].conn = c => Empty(port[n])'
    BY <1>0 DEF ConnInv, Leaving, Empty
  <2>2. \A v \in Threads : Busy(v) /\ conn(v) = c => Steps(v)'
    BY <1>0 DEF ConnInv, Leaving, Steps, Gone, Empty, Udp, conn
  <2> QED
    BY <1>0, <2>1, <2>2 DEF ConnInv, Leaving, Udp, Tcp, Busy, conn
<1>2. Phases(c)'
  BY <1>0 DEF ConnInv, Phases, Quiet, NoItem, NoThread, Busy, Opens
<1>3. Data(c)' = Data(c) /\ AtPort(c)' = AtPort(c) /\ Entering(c)' = Entering(c)
  BY <1>0 DEF Data, AtPort, Entering, At, Buf, conn
<1>4. EchoInv(c)'
  <2>1. Flows(c) => Flows(c)'
    BY <1>0, <1>3 DEF Flows, Dead, Over, NoHole, Hole
  <2>2. \A n \in DOMAIN port : port[n].conn = c => FirstData(port[n])'
    BY <1>0 DEF ConnInv, EchoInv, FirstData
  <2>3. \A w \in Threads : Opens(w) /\ conn(w) = c => FirstData(io[w])'
    BY <1>0 DEF ConnInv, EchoInv, FirstData, conn
  <2> QED
    BY <1>0, <2>1, <2>2, <2>3 DEF ConnInv, EchoInv, Stuck, Opens, conn
<1>5. (Sound(c) => Ordered(c))'
  <2>1. Sound(c)' => Sound(c)
    BY <1>0, <1>3 DEF Sound, Live, At, conn
  <2>2. InPort(c)' = InPort(c) /\ InThreads(c)' = InThreads(c)
    BY <1>0, <1>3 DEF InPort, InThreads
  <2>3. Ordered(c) => Ordered(c)'
    BY <1>0, <1>3, <2>2 DEF Ordered, Distinct, Apart, InRecvs, InPending, Sorted
  <2> QED
    BY <2>1, <2>3 DEF ConnInv
<1> QED
  BY <1>1, <1>2, <1>4, <1>5 DEF ConnInv

LEMMA AcceptOwn ==
  ASSUME TypeOK, TypeOK', NEW c \in Conns, ConnInv(c), AcceptDone(c) \/ AcceptFails(c)
  PROVE  ConnInv(c)'
<1>1. PICK n \in 0 .. 1, x \in Item :
        /\ Queue(x) /\ x.op = "accept" /\ x.conn = c /\ x.unit = n
        /\ client[c] = "none" /\ client'[c] \in {"reset", "fin", "open"}
        /\ n = 0 => client'[c] # "open"
        /\ n <= received'[c] /\ (client'[c] = "open" => received'[c] = 1)
  <2>1. CASE AcceptDone(c)
    <3>1. PICK n \in 0 .. 1 :
            /\ client' = [client EXCEPT ![c] = IF n = 0 THEN "fin" ELSE "open"]
            /\ received' = [received EXCEPT ![c] = n]
            /\ Queue(Done("accept", c, 0, n, 0))
      BY <2>1 DEF AcceptDone
    <3>2. PICK x \in Item : x.op = "accept" /\ x.conn = c /\ x.unit = n /\ Queue(x)
      BY <3>1, DoneItem
    <3>3. /\ client[c] = "none" /\ client'[c] \in {"reset", "fin", "open"} /\ received'[c] = n
          /\ client'[c] = "open" <=> n # 0
      BY <2>1, <3>1 DEF AcceptDone, TypeOK
    <3> QED
      BY <3>2, <3>3
  <2>2. CASE AcceptFails(c)
    <3>1. Done("accept", c, 0, 0, 1) \in Item /\ Queue(Done("accept", c, 0, 0, 1))
      BY <2>2, DoneItem DEF AcceptFails
    <3>2. 0 <= received'[c] /\ client'[c] = "reset" /\ client[c] = "none"
      BY <2>2 DEF AcceptFails, TypeOK
    <3> QED
      BY <3>1, <3>2 DEF Done
  <2> QED
    BY <2>1, <2>2
<1>2. UNCHANGED <<gProtocol, recvs, sends, echoed, IoCountIssued, LastSendIssued,
                  OutOfOrderSends, mem, handle, bClosing, pc, io, failed, leaked, gaps>>
  BY DEF AcceptDone, AcceptFails, Outside, orderVars, lifeVars, threadVars
<1>3. /\ Quiet(c) /\ mem[c] = "heap" /\ NoItem(c) /\ NoThread(c) /\ ~Udp
  BY <1>1 DEF ConnInv, Phases, Leaving
<1>5. /\ \A m \in DOMAIN port' : port'[m].conn = c => m = Len(port) + 1 /\ port'[m] = x
      /\ Quiet(c)' /\ mem'[c] = "heap" /\ NoThread(c)'
  <2>1. \A m \in DOMAIN port' : port'[m].conn = c => m = Len(port) + 1 /\ port'[m] = x
    BY <1>1, <1>3, PortAppend DEF NoItem
  <2> QED
    BY <2>1, <1>2, <1>3 DEF Quiet, NoThread, Busy
<1>7. Leaving(c)'
  <2>1. handle'[c] = "closed" => bClosing'[c] = 1 \/ client'[c] = "reset"
    BY <1>1, <1>2 DEF ConnInv, Leaving
  <2>2. \A m \in DOMAIN port' : (port[m].conn = c => Empty(port[m]))'
    BY <1>1, <1>5 DEF Empty
  <2>3. \A v \in Threads : (Busy(v) /\ conn(v) = c => Steps(v))'
    BY <1>5 DEF NoThread, conn
  <2> QED
    BY <1>2, <1>3, <2>1, <2>2, <2>3 DEF Leaving, Udp
<1>8. Phases(c)'
  <2>1. \A w \in Threads : Opens(w)' => io'[w].conn # c
    BY <1>5 DEF NoThread, Opens, Busy
  <2>2. \A m \in DOMAIN port' : port'[m].op = "accept" /\ port'[m].conn = c =>
         /\ Quiet(c)' /\ mem'[c] = "heap" /\ NoThread(c)'
         /\ \A k \in DOMAIN port' : port'[k].conn = c => k = m
    BY <1>5
  <2> QED
    BY <1>1, <2>1, <2>2 DEF Phases
<1>9. Data(c)' = {}
  <2>1. AtPort(c)' = {} /\ Entering(c)' = {}
    BY <1>1, <1>5 DEF AtPort, Entering, NoThread, Busy, At, conn
  <2>2. Range(<<>>) = {}
    BY DEF Range
  <2> QED
    BY <2>1, <2>2, <1>5 DEF Data, Quiet
<1>10. EchoInv(c)'
  <2>1. IsPrefix1(echoed[c], received[c])'
    BY <1>5, <1>1 DEF IsPrefix1, Quiet, TypeOK
  <2>2. Flows(c)'
    BY <1>1, <1>5, <1>9 DEF Flows, NoHole, Over, Quiet
  <2>3. \A m \in DOMAIN port' : (port[m].conn = c => FirstData(port[m]))'
    BY <1>1, <1>5 DEF FirstData
  <2>4. \A w \in Threads : (Opens(w) /\ conn(w) = c => FirstData(io[w]))'
    BY <1>5 DEF NoThread, Opens, Busy, conn
  <2> QED
    BY <2>1, <2>2, <2>3, <2>4 DEF EchoInv
<1>11. ~Sound(c)'
  BY <1>5 DEF Sound, Live
<1> QED
  BY <1>7, <1>8, <1>10, <1>11 DEF ConnInv

LEMMA SendDoneOwn ==
  ASSUME TypeOK, TypeOK', NEW c \in Conns, ConnInv(c), SendDone(c)
  PROVE  ConnInv(c)'
<1>1. PICK x \in Item : Queue(x) /\ x.op = "send" /\ x.conn = c
  <2>1. PICK e \in 0 .. 1 : Queue(Done("send", c, 0, Head(sends[c]), e))
    BY DEF SendDone
  <2>2. Head(sends[c]) \in Nat
    BY DEF TypeOK, SendDone
  <2> QED
    BY <2>1, <2>2, DoneItem
<1>2. /\ UNCHANGED <<gProtocol, client, received, recvs, echoed, IoCountIssued, LastSendIssued,
                     OutOfOrderSends, mem, handle, bClosing, pc, io, failed, leaked, gaps>>
      /\ sends[c] # <<>> /\ gaps \in 0 .. 1
  BY DEF SendDone, Outside, orderVars, lifeVars, threadVars, TypeOK
<1>4. Opened(c)'
  BY <1>1, <1>2, NotQuiet, KernelOpened DEF ConnInv, Quiet
<1>5. Leaving(c)'
  <2>1. Empty(x)' /\ gaps \in {gaps', 0} /\ gaps' \in 0 .. 1
    BY <1>1, <1>2 DEF Empty
  <2> QED
    BY <1>1, <1>2, <2>1, KernelLeaving DEF ConnInv
<1>6. /\ Entering(c)' = Entering(c) /\ AtPort(c)' = AtPort(c) /\ \A n \in AtPort(c) : port'[n] = port[n]
      /\ InPort(c)' = InPort(c) /\ InThreads(c)' = InThreads(c) /\ InPending(c)' = InPending(c)
      /\ Data(c)' = Data(c)
  BY <1>1, <1>2, ArrivesElse
<1>7. EchoInv(c)'
  <2>1. Flows(c) => Flows(c)'
    BY <1>2, <1>6 DEF Flows, Dead, Over, NoHole, Hole
  <2> QED
    BY <1>2, <2>1, <1>4, OpenedRest DEF ConnInv, EchoInv, Stuck
<1>8. (Sound(c) => Ordered(c))'
  BY <1>2, <1>6 DEF ConnInv, Sound, Ordered, Distinct, Apart, InRecvs, Live, Sorted, At, conn
<1> QED
  BY <1>4, <1>5, <1>7, <1>8, OpenedRest DEF ConnInv

\* A receive completes: what it leaves alone, and what it moves.
LEMMA RecvFacts ==
  ASSUME TypeOK, NEW c \in Conns, NEW u \in Nat, NEW e \in 0 .. 1, RecvCompletes(c, u, e),
         ConnInv(c)
  PROVE  /\ UNCHANGED <<gProtocol, client, echoed, sends, IoCountIssued, LastSendIssued,
                        OutOfOrderSends, mem, handle, bClosing, pc, io, failed, leaked>>
         /\ \E x \in Item : /\ Queue(x) /\ x.op = "recv" /\ x.conn = c /\ x.unit = u /\ x.err = e
                            /\ x.ord = recvs[c][1]
         /\ recvs[c] \in Seq(Nat) /\ recvs[c] # <<>> /\ recvs'[c] = Tail(recvs[c])
         /\ Opened(c)
<1>1. recvs[c] \in Seq(Nat) /\ recvs[c] # <<>> /\ recvs'[c] = Tail(recvs[c])
  BY DEF RecvCompletes, TypeOK
<1>2. Head(recvs[c]) = recvs[c][1] /\ Head(recvs[c]) \in Nat
  BY <1>1, TailOf
<1>3. \E x \in Item : /\ Queue(x) /\ x.op = "recv" /\ x.conn = c /\ x.unit = u /\ x.err = e
                      /\ x.ord = recvs[c][1]
  <2>1. Queue(Done("recv", c, Head(recvs[c]), u, e))
    BY DEF RecvCompletes
  <2> DEFINE x == Done("recv", c, Head(recvs[c]), u, e)
  <2>2. x \in Item /\ x.op = "recv" /\ x.conn = c /\ x.unit = u /\ x.err = e /\ x.ord = recvs[c][1]
    BY <1>2, DoneItem
  <2> HIDE DEF x
  <2>3. Queue(x)
    BY <2>1 DEF x
  <2> QED
    BY <2>2, <2>3
<1>4. Opened(c)
  BY <1>1, NotQuiet DEF ConnInv, Quiet
<1> QED
  BY <1>1, <1>3, <1>4 DEF RecvCompletes, Outside, orderVars, lifeVars, threadVars

\* With data.
LEMMA RecvDoneOwn ==
  ASSUME TypeOK, TypeOK', NEW c \in Conns, ConnInv(c), RecvDone(c)
  PROVE  ConnInv(c)'
<1> DEFINE u == received[c] + 1
<1>1. /\ u \in Nat \ {0} /\ RecvCompletes(c, u, 0) /\ received'[c] = u /\ ~Over(c)
      /\ client[c] = "open" /\ UNCHANGED gaps /\ received[c] \in Nat
  BY DEF RecvDone, Over, TypeOK
<1>2. /\ UNCHANGED <<gProtocol, client, echoed, sends, IoCountIssued, LastSendIssued,
                     OutOfOrderSends, mem, handle, bClosing, pc, io, failed, leaked>>
      /\ recvs[c] \in Seq(Nat) /\ recvs[c] # <<>> /\ recvs'[c] = Tail(recvs[c])
      /\ Opened(c)
  BY <1>1, RecvFacts
<1>3. PICK x \in Item : /\ Queue(x) /\ x.op = "recv" /\ x.conn = c /\ x.unit = u /\ x.err = 0
                        /\ x.ord = recvs[c][1]
  BY <1>1, RecvFacts
<1>4. Opened(c)'
  BY <1>2, <1>3, KernelOpened
<1>5. Leaving(c)'
  <2>1. Empty(x)' /\ gaps \in {gaps', 0} /\ gaps' \in 0 .. 1
    BY <1>1, <1>3 DEF Empty, TypeOK
  <2> QED
    BY <1>2, <1>3, <2>1, KernelLeaving DEF ConnInv
<1>6. /\ Entering(c)' = Entering(c) /\ AtPort(c)' = AtPort(c) \cup {Len(port) + 1}
      /\ Len(port) + 1 \notin AtPort(c) /\ port'[Len(port) + 1] = x
      /\ \A n \in AtPort(c) : port'[n] = port[n]
      /\ InPort(c)' = InPort(c) \cup {x.ord}
      /\ InThreads(c)' = InThreads(c) /\ InPending(c)' = InPending(c)
      /\ Data(c)' = Data(c) \cup {Buf(x)}
  BY <1>1, <1>2, <1>3, Arrives
<1>7. /\ Len(recvs'[c]) = Len(recvs[c]) - 1 /\ Len(recvs[c]) \in Nat \ {0} /\ 1 \in DOMAIN recvs[c]
      /\ \A n \in DOMAIN recvs'[c] : n \in Nat \ {0} /\ n + 1 \in DOMAIN recvs[c] /\ recvs'[c][n] = recvs[c][n + 1]
      /\ \A n \in DOMAIN recvs[c] :
           n \in Nat \ {0} /\ (n # 1 => n - 1 \in DOMAIN recvs'[c] /\ recvs'[c][n - 1] = recvs[c][n])
  BY <1>2, TailOf
<1>8. Flows(c) => Flows(c)'
  <2>1. SUFFICES ASSUME Flows(c)  PROVE Flows(c)'
    OBVIOUS
  <2>2. \A b \in Data(c)' : b.unit \in 1 .. received'[c]
    BY <2>1, <1>1, <1>3, <1>6 DEF Flows, Buf
  <2>3. Len(echoed'[c]) = LastSendIssued'[c]
    BY <2>1, <1>1, <1>2 DEF Flows, Dead
  <2>4. CASE NoHole(c)
    <3>1. /\ \A n \in DOMAIN recvs[c] : recvs[c][n] = received[c] + n - 1
          /\ IoCountIssued[c] = received[c] + Len(recvs[c])
      BY <2>4, <1>1 DEF NoHole
    <3>2. x.ord = received[c]
      BY <3>1, <1>3, <1>7, <1>1
    <3>3. \A b \in Data(c)' : b.unit = b.ord + 1
      <4>1. Buf(x).unit = Buf(x).ord + 1
        BY <3>2, <1>1, <1>3 DEF Buf
      <4>2. \A b \in Data(c) : b.unit = b.ord + 1
        BY <2>4 DEF NoHole
      <4> QED
        BY <4>1, <4>2, <1>6
    <3>4. \A n \in DOMAIN recvs'[c] : recvs'[c][n] = received'[c] + n - 1
      <4>1. SUFFICES ASSUME NEW n \in DOMAIN recvs'[c]  PROVE recvs'[c][n] = received'[c] + n - 1
        OBVIOUS
      <4>2. n \in Nat \ {0} /\ recvs'[c][n] = received[c] + (n + 1) - 1
        BY <3>1, <1>7
      <4> QED
        BY <4>2, <1>1
    <3>5. IoCountIssued'[c] = received'[c] + Len(recvs'[c])
      BY <3>1, <1>7, <1>1, <1>2
    <3> QED
      BY <2>2, <2>3, <3>3, <3>4, <3>5 DEF Flows, NoHole
  <2>5. CASE Hole(c)
    <3>1. PICK g \in LastSendIssued[c] .. (IoCountIssued[c] - 1) :
            /\ \A n \in DOMAIN recvs[c] : recvs[c][n] > g
            /\ \A b \in Data(c) : b.ord # g /\ (b.ord < g => b.unit = b.ord + 1)
      BY <2>5 DEF Hole
    <3>2. g < x.ord /\ g \in Int /\ x.ord \in Nat
      <4>1. LastSendIssued[c] \in Nat /\ IoCountIssued[c] \in Nat /\ recvs[c][1] \in Nat
        <5>1. LastSendIssued[c] \in Nat /\ IoCountIssued[c] \in Nat
          BY Sockets DEF TypeOK
        <5> QED
          BY <5>1, <1>2, <1>7
      <4> QED
        BY <4>1, <3>1, <1>3, <1>7
    <3>3. \A b \in Data(c)' : b.ord # g /\ (b.ord < g => b.unit = b.ord + 1)
      BY <3>1, <3>2, <1>6 DEF Buf
    <3>4. \A n \in DOMAIN recvs'[c] : recvs'[c][n] > g
      BY <3>1, <1>7
    <3>5. Hole(c)'
      BY <3>3, <3>4, <1>2 DEF Hole
    <3> QED
      BY <2>2, <2>3, <3>5 DEF Flows
  <2> QED
    BY <2>1, <2>4, <2>5 DEF Flows
<1>9. EchoInv(c)'
  <2>1. IsPrefix1(echoed[c], received[c])'
    <3>1. Len(echoed[c]) \in Nat
      BY DEF TypeOK
    <3> QED
      BY <3>1, <1>1, <1>2 DEF ConnInv, EchoInv, IsPrefix1
  <2> QED
    BY <1>2, <1>4, <1>8, <2>1, OpenedRest DEF ConnInv, EchoInv, Stuck
<1>10. Sound(c)' => Sound(c)
  BY <1>1, <1>2, <1>6 DEF Sound, Live, At, conn
<1>11. Ordered(c) => Ordered(c)'
  <2>1. SUFFICES ASSUME Ordered(c)  PROVE Ordered(c)'
    OBVIOUS
  <2>2. InRecvs(c)' = InRecvs(c) \ {x.ord} /\ x.ord \in InRecvs(c)
    <3>1. \A n \in DOMAIN recvs[c] : recvs[c][n] = x.ord => n = 1
      BY <2>1, <1>3, <1>7 DEF Ordered, Distinct
    <3>2. InRecvs(c) = {recvs[c][n] : n \in DOMAIN recvs[c]}
      BY DEF InRecvs, Range
    <3>3. InRecvs(c)' = {recvs'[c][n] : n \in DOMAIN recvs'[c]}
      BY DEF InRecvs, Range
    <3>4. \A n \in DOMAIN recvs'[c] : recvs'[c][n] \in InRecvs(c) \ {x.ord}
      BY <3>1, <3>2, <1>7
    <3>5. \A n \in DOMAIN recvs[c] : recvs[c][n] # x.ord => recvs[c][n] \in InRecvs(c)'
      <4>1. SUFFICES ASSUME NEW n \in DOMAIN recvs[c], recvs[c][n] # x.ord
                     PROVE  recvs[c][n] \in InRecvs(c)'
        OBVIOUS
      <4>2. n - 1 \in DOMAIN recvs'[c] /\ recvs'[c][n - 1] = recvs[c][n]
        BY <4>1, <1>3, <1>7
      <4> QED
        BY <4>2, <3>3
    <3>6. x.ord \in InRecvs(c)
      BY <3>2, <1>3, <1>7
    <3>7. InRecvs(c)' \subseteq InRecvs(c) \ {x.ord}
      BY <3>3, <3>4
    <3>8. InRecvs(c) \ {x.ord} \subseteq InRecvs(c)'
      BY <3>2, <3>5
    <3> QED
      BY <3>6, <3>7, <3>8
  <2>3. Distinct(c)'
    <3>1. \A m, n \in DOMAIN recvs'[c] : recvs'[c][m] = recvs'[c][n] => m = n
      BY <2>1, <1>7 DEF Ordered, Distinct
    <3>2. \A n \in AtPort(c) : port[n].ord # x.ord
      BY <2>1, <2>2 DEF Ordered, Apart, InPort
    <3>3. \A m, n \in AtPort(c)' : port'[m].ord = port'[n].ord => m = n
      BY <2>1, <3>2, <1>6 DEF Ordered, Distinct
    <3> QED
      BY <2>1, <3>1, <3>3, <1>2, <1>6 DEF Ordered, Distinct, Sorted
  <2>4. Apart(c)'
    BY <2>1, <2>2, <1>6 DEF Ordered, Apart
  <2>5. InRecvs(c)' \cup InPort(c)' = InRecvs(c) \cup InPort(c)
    BY <2>2, <1>6
  <2> QED
    BY <2>1, <2>3, <2>4, <2>5, <1>2, <1>6 DEF Ordered
<1> QED
  BY <1>4, <1>5, <1>9, <1>10, <1>11, OpenedRest DEF ConnInv

\* Without data: what comes after it is lost, or numbered one too high.
LEMMA RecvEmptyOwn ==
  ASSUME TypeOK, TypeOK', NEW c \in Conns, ConnInv(c), RecvZero(c) \/ RecvError(c) \/ RecvTooLong(c)
  PROVE  ConnInv(c)'
<1>1. PICK e \in 0 .. 1 :
        /\ RecvCompletes(c, 0, e) /\ UNCHANGED received
        /\ e = 0 => client[c] \in {"fin", "reset"}
        /\ e = 1 => client[c] = "reset" \/ handle[c] = "closed" \/ gaps' = 1
        /\ gaps \in {gaps', 0} /\ gaps' \in 0 .. 1
  BY DEF RecvZero, RecvError, RecvTooLong, TypeOK
<1>2. /\ UNCHANGED <<gProtocol, client, echoed, sends, IoCountIssued, LastSendIssued,
                     OutOfOrderSends, mem, handle, bClosing, pc, io, failed, leaked>>
      /\ recvs[c] \in Seq(Nat) /\ recvs[c] # <<>> /\ recvs'[c] = Tail(recvs[c])
      /\ Opened(c)
  BY <1>1, RecvFacts
<1>3. PICK x \in Item : /\ Queue(x) /\ x.op = "recv" /\ x.conn = c /\ x.unit = 0 /\ x.err = e
                        /\ x.ord = recvs[c][1]
  BY <1>1, RecvFacts
<1>4. Opened(c)'
  BY <1>2, <1>3, KernelOpened
<1>5. Leaving(c)'
  <2>1. Empty(x)'
    BY <1>1, <1>2, <1>3 DEF Empty
  <2> QED
    BY <1>1, <1>2, <1>3, <2>1, KernelLeaving DEF ConnInv
<1>6. /\ Entering(c)' = Entering(c) /\ AtPort(c)' = AtPort(c) \cup {Len(port) + 1}
      /\ port'[Len(port) + 1] = x /\ Data(c)' = Data(c)
  <2>1. {b \in {Buf(x)} : x.unit > 0} = {}
    BY <1>3
  <2>2. /\ Entering(c)' = Entering(c) /\ AtPort(c)' = AtPort(c) \cup {Len(port) + 1}
        /\ port'[Len(port) + 1] = x
        /\ Data(c)' = Data(c) \cup {b \in {Buf(x)} : x.unit > 0}
    BY <1>2, <1>3, Arrives
  <2> QED
    BY <2>1, <2>2
<1>7. /\ Len(recvs[c]) \in Nat \ {0} /\ 1 \in DOMAIN recvs[c]
      /\ \A n \in DOMAIN recvs'[c] : n \in Nat \ {0} /\ n + 1 \in DOMAIN recvs[c] /\ recvs'[c][n] = recvs[c][n + 1]
  BY <1>2, TailOf
<1>8. Over(c)' = Over(c)
  BY <1>2 DEF Over
<1>9. Flows(c) => Flows(c)'
  <2>1. SUFFICES ASSUME Flows(c)  PROVE Flows(c)'
    OBVIOUS
  <2>2. /\ \A b \in Data(c)' : b.unit \in 1 .. received'[c]
        /\ (Dead(c) \/ Len(echoed[c]) = LastSendIssued[c])'
    BY <2>1, <1>1, <1>2, <1>6, <1>8 DEF Flows, Dead
  <2>3. CASE NoHole(c) /\ (Over(c) \/ client[c] # "open")
    BY <2>2, <2>3, <1>2, <1>6, <1>8 DEF Flows, NoHole
  <2>4. CASE NoHole(c) /\ ~Over(c) /\ client[c] = "open"
    <3> DEFINE g == received[c]
    <3>1. /\ \A n \in DOMAIN recvs[c] : recvs[c][n] = g + n - 1
          /\ IoCountIssued[c] = g + Len(recvs[c])
      BY <2>4 DEF NoHole
    <3>2. g \in Nat /\ LastSendIssued[c] \in Nat /\ LastSendIssued[c] <= g
      BY <2>1, <2>4, Sockets DEF Flows, Dead, ConnInv, EchoInv, IsPrefix1, TypeOK
    <3>3. \A n \in DOMAIN recvs'[c] : recvs'[c][n] > g
      <4>1. SUFFICES ASSUME NEW n \in DOMAIN recvs'[c]  PROVE recvs'[c][n] > g
        OBVIOUS
      <4>2. n \in Nat \ {0} /\ recvs'[c][n] = g + (n + 1) - 1
        BY <3>1, <1>7
      <4> QED
        BY <4>2, <3>2
    <3>4. \A b \in Data(c) : b.ord # g /\ (b.ord < g => b.unit = b.ord + 1)
      <4>1. SUFFICES ASSUME NEW b \in Data(c)  PROVE b.ord # g /\ (b.ord < g => b.unit = b.ord + 1)
        OBVIOUS
      <4>2. b.unit \in 1 .. g /\ b.unit = b.ord + 1
        BY <2>1, <2>4 DEF Flows, NoHole
      <4> QED
        BY <4>2, <3>2
    <3>5. g \in LastSendIssued[c] .. (IoCountIssued[c] - 1)
      BY <3>1, <3>2, <1>7
    <3> HIDE DEF g
    <3>6. Hole(c)'
      BY <3>3, <3>4, <3>5, <1>2, <1>6 DEF Hole
    <3> QED
      BY <2>2, <3>6 DEF Flows
  <2>5. CASE Hole(c)
    BY <2>2, <2>5, <1>2, <1>6, <1>7 DEF Flows, Hole
  <2> QED
    BY <2>1, <2>3, <2>4, <2>5 DEF Flows
<1>10. EchoInv(c)'
  BY <1>1, <1>2, <1>4, <1>9, OpenedRest DEF ConnInv, EchoInv, Stuck, IsPrefix1
<1>11. ~Sound(c)'
  BY <1>3, <1>6 DEF Sound
<1> QED
  BY <1>4, <1>5, <1>10, <1>11, OpenedRest DEF ConnInv

\* What they do is about one connection.
LEMMA KernelStep ==
  ASSUME TypeOK, TypeOK', NEW d \in Conns, Shutdown(d) \/ Reset(d) \/ Kernel(d),
         NEW c \in Conns, ConnInv(c)
  PROVE  ConnInv(c)'
<1>1. CASE c = d
  BY <1>1, ClientOwn, AcceptOwn, RecvDoneOwn, RecvEmptyOwn, SendDoneOwn DEF Kernel
<1>2. CASE c # d
  <2>1. \/ UNCHANGED port
        \/ \E x \in Item : Queue(x) /\ x.conn = d
    <3>1. CASE Shutdown(d) \/ Reset(d)
      BY <3>1 DEF Shutdown, Reset
    <3>2. CASE AcceptDone(d)
      <4>1. PICK n \in 0 .. 1 : Queue(Done("accept", d, 0, n, 0))
        BY <3>2 DEF AcceptDone
      <4>2. Done("accept", d, 0, n, 0) \in Item /\ Done("accept", d, 0, n, 0).conn = d
        BY DoneItem
      <4> QED
        BY <4>1, <4>2
    <3>3. CASE AcceptFails(d)
      <4>1. Done("accept", d, 0, 0, 1) \in Item /\ Done("accept", d, 0, 0, 1).conn = d
        BY DoneItem
      <4> QED
        BY <4>1, <3>3 DEF AcceptFails
    <3>4. CASE RecvDone(d) \/ RecvZero(d) \/ RecvError(d) \/ RecvTooLong(d)
      <4>0. received[d] + 1 \in Nat
        BY DEF TypeOK
      <4>1. PICK u \in Nat, e \in 0 .. 1 : RecvCompletes(d, u, e)
        <5>1. CASE RecvDone(d)
          BY <4>0, <5>1 DEF RecvDone
        <5>2. CASE RecvZero(d)
          BY <5>2 DEF RecvZero
        <5>3. CASE RecvError(d)
          BY <5>3 DEF RecvError
        <5>4. CASE RecvTooLong(d)
          BY <5>4 DEF RecvTooLong
        <5> QED
          BY <3>4, <5>1, <5>2, <5>3, <5>4
      <4>2. Head(recvs[d]) \in Nat /\ Queue(Done("recv", d, Head(recvs[d]), u, e))
        <5>1. recvs[d] \in Seq(Nat) /\ recvs[d] # <<>> /\ Queue(Done("recv", d, Head(recvs[d]), u, e))
          BY <4>1 DEF RecvCompletes, TypeOK
        <5> QED
          BY <5>1, TailOf
      <4>3. /\ Done("recv", d, Head(recvs[d]), u, e) \in Item
            /\ Done("recv", d, Head(recvs[d]), u, e).conn = d
        <5>1. Head(recvs[d]) \in Nat /\ u \in Nat /\ e \in 0 .. 1
          BY <4>1, <4>2
        <5>2. ASSUME NEW n \in Nat
              PROVE  Done("recv", d, n, u, e) \in Item /\ Done("recv", d, n, u, e).conn = d
          BY <5>1, DoneItem
        <5> QED
          BY <5>1, <5>2
      <4> QED
        BY <4>2, <4>3
    <3>5. CASE SendDone(d)
      <4>1. PICK e \in 0 .. 1 : Queue(Done("send", d, 0, Head(sends[d]), e))
        BY <3>5 DEF SendDone
      <4>2. Head(sends[d]) \in Nat
        <5>1. sends[d] \in Seq(Nat) /\ sends[d] # <<>>
          BY <3>5 DEF SendDone, TypeOK
        <5> QED
          BY <5>1, TailOf
      <4>3. /\ Done("send", d, 0, Head(sends[d]), e) \in Item
            /\ Done("send", d, 0, Head(sends[d]), e).conn = d
        BY <4>2, DoneItem
      <4> QED
        BY <4>1, <4>3
    <3> QED
      BY <3>1, <3>2, <3>3, <3>4, <3>5 DEF Kernel
  <2>2. SameItems(c, 0)
    <3>1. CASE UNCHANGED port
      BY <3>1 DEF SameItems, TypeOK
    <3>2. CASE \E x \in Item : Queue(x) /\ x.conn = d
      <4>1. PICK x \in Item : Queue(x) /\ x.conn = d
        BY <3>2
      <4>2. \A n \in DOMAIN port : n \in Nat /\ n - 0 = n /\ n \in DOMAIN port' /\ port'[n] = port[n]
        <5>0. port \in Seq(Item)
          BY DEF TypeOK
        <5>1. \A n \in DOMAIN port : n \in Nat
          BY <5>0, Places
        <5> QED
          BY <4>1, <5>1, PortAppend
      <4>3. \A n \in DOMAIN port' : port'[n].conn = c => n \in DOMAIN port /\ n + 0 = n
        <5>0. port' \in Seq(Item)
          BY DEF TypeOK
        <5>1. \A n \in DOMAIN port' : n \in Nat
          BY <5>0, Places
        <5>2. \A n \in DOMAIN port' : n \in DOMAIN port \/ port'[n] = x
          BY <4>1, PortAppend
        <5> QED
          BY <4>1, <5>1, <5>2, <1>2
      <4> QED
        BY <4>2, <4>3 DEF SameItems
    <3> QED
      BY <2>1, <3>1, <3>2
  <2>3. UNCHANGED <<pc, io, failed, gProtocol, leaked, mem, handle, bClosing, echoed,
                    IoCountIssued, LastSendIssued, OutOfOrderSends>>
    <3> USE DEF Outside, orderVars, lifeVars, threadVars
    <3>1. CASE Shutdown(d) \/ Reset(d) \/ SendDone(d)
      BY <3>1 DEF Shutdown, Reset, SendDone
    <3>2. CASE AcceptDone(d) \/ AcceptFails(d)
      BY <3>2 DEF AcceptDone, AcceptFails
    <3>3. CASE RecvDone(d) \/ RecvZero(d) \/ RecvError(d) \/ RecvTooLong(d)
      BY <3>3 DEF RecvDone, RecvZero, RecvError, RecvTooLong, RecvCompletes
    <3> QED
      BY <3>1, <3>2, <3>3 DEF Kernel
  <2>4. UNCHANGED <<client[c], received[c], recvs[c], sends[c]>>
    <3> USE <1>2 DEF TypeOK
    <3>1. CASE Shutdown(d) \/ Reset(d) \/ SendDone(d)
      BY <3>1 DEF Shutdown, Reset, SendDone
    <3>2. CASE AcceptDone(d) \/ AcceptFails(d)
      BY <3>2 DEF AcceptDone, AcceptFails
    <3>3. CASE RecvDone(d) \/ RecvZero(d) \/ RecvError(d) \/ RecvTooLong(d)
      BY <3>3 DEF RecvDone, RecvZero, RecvError, RecvTooLong, RecvCompletes, Outside
    <3> QED
      BY <3>1, <3>2, <3>3 DEF Kernel
  <2>5. gaps \in {gaps', 0} /\ gaps' \in 0 .. 1
    BY DEF Shutdown, Reset, Kernel, AcceptDone, AcceptFails, RecvDone, RecvZero, RecvError,
           RecvTooLong, SendDone, TypeOK
  <2>6. Same(c) /\ SameThreads(c) /\ SameWorld
    BY <2>3, <2>4, <2>5 DEF Same, SameThreads, SameWorld, Busy, conn
  <2> QED
    BY <2>2, <2>6, OtherConn
<1> QED
  BY <1>1, <1>2
-----------------------------------------------------------------------------
(* A thread takes a completion. *)

LEMMA TakeFacts ==
  ASSUME TypeOK, NEW w \in Threads, Take(w)
  PROVE  /\ UNCHANGED <<clientVars, accepts, leaked, gaps, undefined, recvs, sends, echoed, orderVars,
                        lifeVars, bClosing, failed>>
         /\ Head(port) = port[1] /\ 1 \in DOMAIN port /\ port[1] \in Item
         /\ \A n \in DOMAIN port' : n + 1 \in DOMAIN port /\ port'[n] = port[n + 1] /\ n \in Nat \ {0}
         /\ \A n \in DOMAIN port : n # 1 => n - 1 \in DOMAIN port' /\ port'[n - 1] = port[n]
         /\ \A n \in DOMAIN port : n \in Nat \ {0}
         /\ pc[w] = "wait" /\ pc'[w] \in {"enter", "error"} /\ io'[w] = port[1]
         /\ pc'[w] = "error" => Tcp /\ port[1].err = 1
         /\ \A v \in Threads : v # w => pc'[v] = pc[v] /\ io'[v] = io[v]
<1>1. /\ port # <<>> /\ port' = Tail(port) /\ port \in Seq(Item)
  BY DEF Take, TypeOK
<1>2. /\ Head(port) = port[1] /\ 1 \in DOMAIN port /\ port[1] \in Item
      /\ \A n \in DOMAIN port' : n + 1 \in DOMAIN port /\ port'[n] = port[n + 1] /\ n \in Nat \ {0}
      /\ \A n \in DOMAIN port : n # 1 => n - 1 \in DOMAIN port' /\ port'[n - 1] = port[n]
      /\ \A n \in DOMAIN port : n \in Nat \ {0}
  BY <1>1, TailOf
<1>3. pc \in [Threads -> Labels] /\ io \in [Threads -> Item \cup {NoIo}]
  BY DEF TypeOK
<1>4. /\ pc[w] = "wait" /\ pc'[w] \in {"enter", "error"} /\ io'[w] = Head(port)
      /\ pc'[w] = "error" => Tcp /\ Head(port).err = 1
      /\ \A v \in Threads : v # w => pc'[v] = pc[v] /\ io'[v] = io[v]
  BY <1>3 DEF Take, Goto, At
<1> QED
  BY <1>2, <1>4 DEF Take, Rest, clientVars

\* What was first in the port is now in the thread.
LEMMA TakeData ==
  ASSUME TypeOK, NEW w \in Threads, Take(w), NEW c \in Conns, port[1].conn = c,
         Empty(port[1])
  PROVE  /\ Data(c)' = Data(c) /\ InPending(c)' = InPending(c) /\ InRecvs(c)' = InRecvs(c)
         /\ \A n \in AtPort(c) : n # 1 => n - 1 \in AtPort(c)' /\ port'[n - 1] = port[n]
         /\ \A n \in AtPort(c)' : n + 1 \in AtPort(c) /\ port[n + 1] = port'[n] /\ n \in Nat \ {0}
         /\ Entering(c)' = Entering(c) \cup {v \in {w} : port[1].op = "recv" /\ pc'[w] = "enter"}
         /\ w \notin Entering(c) /\ \A v \in Entering(c) : io'[v] = io[v]
<1>1. \A n \in AtPort(c) : n # 1 => n - 1 \in AtPort(c)' /\ port'[n - 1] = port[n]
  BY TakeFacts DEF AtPort
<1>2. \A n \in AtPort(c)' : n + 1 \in AtPort(c) /\ port[n + 1] = port'[n] /\ n \in Nat \ {0}
  BY TakeFacts DEF AtPort
<1>3. Entering(c)' = Entering(c) \cup {v \in {w} : port[1].op = "recv" /\ pc'[w] = "enter"}
  BY TakeFacts DEF Entering, At, conn
<1>4. w \notin Entering(c) /\ \A v \in Entering(c) : io'[v] = io[v]
  BY TakeFacts DEF Entering, At
<1>5. /\ 1 \in AtPort(c) <=> port[1].op = "recv"
      /\ port[1].op = "recv" /\ pc'[w] = "error" => port[1].unit = 0
      /\ io'[w] = port[1] /\ pc'[w] \in {"enter", "error"}
      /\ UNCHANGED <<OutOfOrderSends, recvs>>
  BY TakeFacts DEF AtPort, Empty, orderVars
<1> DEFINE P == {Buf(port[n]) : n \in {m \in AtPort(c) : port[m].unit > 0}}
           T == {Buf(io[v]) : v \in {u \in Entering(c) : io[u].unit > 0}}
           X == {b \in {Buf(port[1])} : port[1].unit > 0 /\ port[1].op = "recv"}
           Q == {n \in AtPort(c) : n # 1}
<1>6. P = {Buf(port[n]) : n \in {m \in Q : port[m].unit > 0}} \cup X
  BY <1>5
<1>7. P' = {Buf(port[n]) : n \in {m \in Q : port[m].unit > 0}}
  <2>1. \A n \in AtPort(c)' : n + 1 \in Q /\ port[n + 1] = port'[n]
    BY <1>2
  <2>2. \A n \in Q : n - 1 \in AtPort(c)' /\ port'[n - 1] = port[n]
    BY <1>1
  <2> QED
    BY <2>1, <2>2 DEF Buf
<1>8. T' = T \cup X
  <2>1. CASE port[1].op = "recv" /\ pc'[w] = "enter"
    <3>1. Entering(c)' = Entering(c) \cup {w}
      BY <2>1, <1>3
    <3> QED
      BY <2>1, <3>1, <1>4, <1>5 DEF Buf
  <2>2. CASE ~(port[1].op = "recv" /\ pc'[w] = "enter")
    <3>1. Entering(c)' = Entering(c) /\ X = {}
      BY <2>2, <1>3, <1>5
    <3> QED
      BY <3>1, <1>4 DEF Buf
  <2> QED
    BY <2>1, <2>2
<1>9. Data(c) = P \cup T \cup Range(OutOfOrderSends[c]) /\ Data(c)' = P' \cup T' \cup Range(OutOfOrderSends[c])
  BY <1>5 DEF Data
<1> HIDE DEF P, T, X, Q
<1>10. Data(c)' = Data(c)
  BY <1>6, <1>7, <1>8, <1>9
<1> QED
  BY <1>1, <1>2, <1>3, <1>4, <1>5, <1>10 DEF InPending, InRecvs

LEMMA TakeOwn ==
  ASSUME TypeOK, TypeOK', NEW w \in Threads, Take(w), NEW c \in Conns, port[1].conn = c, ConnInv(c)
  PROVE  ConnInv(c)'
<1>1. /\ UNCHANGED <<gProtocol, client, received, recvs, sends, echoed, IoCountIssued, LastSendIssued,
                     OutOfOrderSends, mem, handle, bClosing, failed, leaked, gaps>>
      /\ 1 \in DOMAIN port /\ port[1] \in Item
      /\ \A n \in DOMAIN port' : n + 1 \in DOMAIN port /\ port'[n] = port[n + 1] /\ n \in Nat \ {0}
      /\ \A n \in DOMAIN port : n # 1 => n - 1 \in DOMAIN port' /\ port'[n - 1] = port[n]
      /\ pc[w] = "wait" /\ pc'[w] \in {"enter", "error"} /\ io'[w] = port[1]
      /\ pc'[w] = "error" => Tcp /\ port[1].err = 1
      /\ \A v \in Threads : v # w => pc'[v] = pc[v] /\ io'[v] = io[v]
  BY TakeFacts DEF clientVars, orderVars, lifeVars
<1>2. Empty(port[1]) /\ FirstData(port[1])
  BY <1>1 DEF ConnInv, Leaving, EchoInv
<1>3. Leaving(c)'
  <2>1. \A n \in DOMAIN port' : (port[n].conn = c => Empty(port[n]))'
    BY <1>1 DEF ConnInv, Leaving, Empty
  <2>2. \A v \in Threads : (Busy(v) /\ conn(v) = c => Steps(v))'
    <3>1. ASSUME NEW v \in Threads, v # w, Busy(v)', conn(v)' = c  PROVE Steps(v)'
      <4>1. Busy(v) /\ conn(v) = c /\ Steps(v)
        BY <3>1, <1>1 DEF Busy, conn, ConnInv, Leaving
      <4> QED
        BY <3>1, <4>1, <1>1 DEF Steps, Gone, Empty, conn, Udp
    <3>2. Steps(w)'
      BY <1>1, <1>2 DEF Steps, Empty
    <3> QED
      BY <3>1, <3>2
  <2> QED
    BY <1>1, <2>1, <2>2 DEF ConnInv, Leaving, Udp
<1>4. Phases(c)'
  <2>1. client'[c] # "none"
    BY <1>1 DEF ConnInv, Phases, NoItem
  <2>2. \A n \in DOMAIN port' : ~(port'[n].op = "accept" /\ port'[n].conn = c)
    <3>1. SUFFICES ASSUME NEW n \in DOMAIN port', port'[n].op = "accept", port'[n].conn = c  PROVE FALSE
      OBVIOUS
    <3>2. n + 1 \in DOMAIN port /\ port[n + 1].op = "accept" /\ port[n + 1].conn = c /\ n \in Nat \ {0}
      BY <3>1, <1>1
    <3>3. \A m \in DOMAIN port : port[m].conn = c => m = n + 1
      BY <3>2 DEF ConnInv, Phases
    <3> QED
      BY <3>2, <3>3, <1>1
  <2>3. ASSUME NEW v \in Threads, Opens(v)', io'[v].conn = c
        PROVE  /\ pc'[v] = "enter" => mem'[c] = "heap"
               /\ Quiet(c)' /\ NoItem(c)'
               /\ \A u \in Threads : Busy(u)' /\ io'[u].conn = c => u = v
    <3>1. v = w
      <4>1. SUFFICES ASSUME v # w  PROVE FALSE
        OBVIOUS
      <4>2. Opens(v) /\ io[v].conn = c
        BY <2>3, <4>1, <1>1 DEF Opens
      <4> QED
        BY <4>2, <1>1 DEF ConnInv, Phases, NoItem
    <3>2. port[1].op = "accept"
      BY <2>3, <3>1, <1>1 DEF Opens
    <3>3. /\ Quiet(c) /\ mem[c] = "heap" /\ NoThread(c)
          /\ \A m \in DOMAIN port : port[m].conn = c => m = 1
      BY <3>2, <1>1 DEF ConnInv, Phases
    <3>4. NoItem(c)'
      <4>1. SUFFICES ASSUME NEW n \in DOMAIN port', port'[n].conn = c  PROVE FALSE
        BY DEF NoItem
      <4>2. n + 1 = 1 /\ n \in Nat \ {0}
        BY <3>3, <4>1, <1>1
      <4> QED
        BY <4>2
    <3>5. Quiet(c)'
      BY <3>3, <1>1 DEF Quiet
    <3> QED
      BY <3>1, <3>3, <3>4, <3>5, <1>1 DEF NoThread, Busy
  <2> QED
    BY <2>1, <2>2, <2>3 DEF Phases
<1>5. /\ Data(c)' = Data(c) /\ InPending(c)' = InPending(c) /\ InRecvs(c)' = InRecvs(c)
      /\ \A n \in AtPort(c) : n # 1 => n - 1 \in AtPort(c)' /\ port'[n - 1] = port[n]
      /\ \A n \in AtPort(c)' : n + 1 \in AtPort(c) /\ port[n + 1] = port'[n] /\ n \in Nat \ {0}
      /\ Entering(c)' = Entering(c) \cup {v \in {w} : port[1].op = "recv" /\ pc'[w] = "enter"}
      /\ w \notin Entering(c) /\ \A v \in Entering(c) : io'[v] = io[v]
  BY <1>2, TakeData
<1>6. EchoInv(c)'
  <2>1. Flows(c) => Flows(c)'
    BY <1>1, <1>5 DEF Flows, Dead, Over, NoHole, Hole
  <2>2. \A n \in DOMAIN port' : (port[n].conn = c => FirstData(port[n]))'
    BY <1>1 DEF ConnInv, EchoInv, FirstData
  <2>3. \A v \in Threads : (Opens(v) /\ conn(v) = c => FirstData(io[v]))'
    <3>1. ASSUME NEW v \in Threads, v # w, Opens(v)', conn(v)' = c  PROVE FirstData(io[v])'
      <4>1. Opens(v) /\ conn(v) = c /\ FirstData(io[v])
        BY <3>1, <1>1 DEF Opens, conn, ConnInv, EchoInv
      <4> QED
        BY <3>1, <4>1, <1>1 DEF FirstData
    <3>2. FirstData(io[w])'
      BY <1>1, <1>2 DEF FirstData
    <3> QED
      BY <3>1, <3>2
  <2> QED
    BY <1>1, <2>1, <2>2, <2>3 DEF ConnInv, EchoInv, Stuck
<1>7. (Sound(c) => Ordered(c))'
  <2>1. SUFFICES ASSUME Sound(c)'  PROVE Ordered(c)'
    OBVIOUS
  <2>2. Live(c) /\ bClosing[c] = 0 /\ client[c] # "reset" /\ gaps = 0 /\ leaked = NULL
    BY <2>1, <1>1 DEF Sound, Live
  <2>3. port[1].op = "recv" => pc'[w] = "enter"
    <3>1. handle[c] # "closed"
      BY <2>2 DEF ConnInv, Leaving
    <3> QED
      BY <2>2, <3>1, <1>1, <1>2 DEF Empty
  <2>4. CASE port[1].op # "recv"
    <3>1. Entering(c)' = Entering(c) /\ 1 \notin AtPort(c)
      BY <2>4, <1>5 DEF AtPort
    <3>2. Sound(c)
      BY <2>1, <2>2, <3>1, <1>1, <1>5 DEF Sound, At, conn
    <3>3. InPort(c)' = InPort(c) /\ InThreads(c)' = InThreads(c)
      BY <3>1, <1>5 DEF InPort, InThreads
    <3>4. Ordered(c)
      BY <3>2 DEF ConnInv
    <3>5. \A m, n \in AtPort(c)' : port'[m].ord = port'[n].ord => m = n
      BY <3>4, <1>5 DEF Ordered, Distinct
    <3>6. Distinct(c)'
      BY <3>1, <3>4, <3>5, <1>1, <1>5 DEF Ordered, Distinct, Sorted
    <3> QED
      BY <3>3, <3>4, <3>6, <1>1, <1>5 DEF Ordered, Apart
  <2>5. CASE port[1].op = "recv"
    <3>1. Entering(c)' = Entering(c) \cup {w} /\ 1 \in AtPort(c)
      BY <2>3, <2>5, <1>1, <1>5 DEF AtPort
    <3>2. Sound(c)
      <4>1. \A n \in AtPort(c) : port[n].unit # 0
        BY <2>1, <3>1, <1>1, <1>5 DEF Sound
      <4>2. \A v \in Entering(c) : io[v].unit # 0
        BY <2>1, <3>1, <1>5 DEF Sound
      <4>3. ~\E v \in Threads : At(v, "firstSend") /\ conn(v) = c
        BY <2>1, <1>1 DEF Sound, At, conn
      <4> QED
        BY <2>2, <4>1, <4>2, <4>3 DEF Sound
    <3>4. Ordered(c)
      BY <3>2 DEF ConnInv
    <3>5. InPort(c)' = InPort(c) \ {port[1].ord} /\ port[1].ord \in InPort(c)
      <4>1. \A n \in AtPort(c) : port[n].ord = port[1].ord => n = 1
        BY <3>1, <3>4 DEF Ordered, Distinct
      <4>2. \A n \in AtPort(c)' : port'[n].ord \in InPort(c) \ {port[1].ord}
        <5>1. SUFFICES ASSUME NEW n \in AtPort(c)'  PROVE port'[n].ord \in InPort(c) \ {port[1].ord}
          OBVIOUS
        <5>2. n + 1 \in AtPort(c) /\ port[n + 1] = port'[n] /\ n + 1 # 1
          BY <1>5
        <5> QED
          BY <4>1, <5>2 DEF InPort
      <4>3. \A n \in AtPort(c) : port[n].ord # port[1].ord => port[n].ord \in InPort(c)'
        <5>1. SUFFICES ASSUME NEW n \in AtPort(c), port[n].ord # port[1].ord
                       PROVE  port[n].ord \in InPort(c)'
          OBVIOUS
        <5>2. n - 1 \in AtPort(c)' /\ port'[n - 1] = port[n]
          BY <5>1, <1>5
        <5> QED
          BY <5>2 DEF InPort
      <4>4. InPort(c)' \subseteq InPort(c) \ {port[1].ord}
        BY <4>2 DEF InPort
      <4>5. InPort(c) \ {port[1].ord} \subseteq InPort(c)'
        BY <4>3 DEF InPort
      <4>6. port[1].ord \in InPort(c)
        BY <3>1 DEF InPort
      <4> QED
        BY <4>4, <4>5, <4>6
    <3>6. InThreads(c)' = InThreads(c) \cup {port[1].ord}
      BY <3>1, <1>1, <1>5 DEF InThreads
    <3>7. Distinct(c)'
      <4>1. \A m, n \in AtPort(c)' : port'[m].ord = port'[n].ord => m = n
        <5>1. SUFFICES ASSUME NEW m \in AtPort(c)', NEW n \in AtPort(c)', port'[m].ord = port'[n].ord
                       PROVE  m = n
          OBVIOUS
        <5>2. m + 1 \in AtPort(c) /\ n + 1 \in AtPort(c) /\ port[m + 1].ord = port[n + 1].ord
              /\ m \in Nat /\ n \in Nat
          BY <5>1, <1>5
        <5>3. m + 1 = n + 1
          BY <3>4, <5>2 DEF Ordered, Distinct
        <5> QED
          BY <5>2, <5>3
      <4>2. \A v \in Entering(c) : io[v].ord # port[1].ord
        BY <3>4, <3>5 DEF Ordered, Apart, InThreads
      <4>3. \A u, v \in Entering(c)' : io'[u].ord = io'[v].ord => u = v
        BY <3>1, <3>4, <4>2, <1>1, <1>5 DEF Ordered, Distinct
      <4> QED
        BY <3>4, <4>1, <4>3, <1>1 DEF Ordered, Distinct, Sorted
    <3>8. Apart(c)'
      BY <3>4, <3>5, <3>6, <1>5 DEF Ordered, Apart
    <3>9. InPort(c)' \cup InThreads(c)' = InPort(c) \cup InThreads(c)
      BY <3>5, <3>6
    <3> QED
      BY <3>4, <3>7, <3>8, <3>9, <1>1, <1>5 DEF Ordered
  <2> QED
    BY <2>4, <2>5
<1> QED
  BY <1>3, <1>4, <1>6, <1>7 DEF ConnInv

LEMMA TakeStep ==
  ASSUME TypeOK, TypeOK', NEW w \in Threads, Take(w), NEW c \in Conns, ConnInv(c)
  PROVE  ConnInv(c)'
<1>1. CASE port[1].conn = c
  BY <1>1, TakeOwn
<1>2. CASE port[1].conn # c
  <2>1. SameItems(c, 1)
    BY <1>2, TakeFacts DEF SameItems
  <2>2. SameThreads(c)
    BY <1>2, TakeFacts DEF SameThreads, Busy, conn
  <2>3. Same(c) /\ SameWorld
    BY TakeFacts DEF Same, SameWorld, clientVars, orderVars, lifeVars, TypeOK
  <2> QED
    BY <2>1, <2>2, <2>3, OtherConn
<1> QED
  BY <1>1, <1>2
-----------------------------------------------------------------------------
(* A step of a thread, for its own connection. *)

LEMMA OwnSocket ==
  ASSUME Shape, NEW w \in Threads, Busy(w)
  PROVE  /\ io[w] \in Item /\ conn(w) \in Conns /\ conn(w) \in Objs /\ conn(w) # Listener
         /\ io[w].op \in {"accept", "recv", "send"} /\ io[w].ord \in Nat /\ io[w].unit \in Nat
         /\ io[w].op = "accept" => sock(w) = Listener
         /\ io[w].op # "accept" => sock(w) = conn(w)
BY Sockets DEF Shape, WellFormed, Item, conn, sock

\* A socket that closes stays so, and only the accept makes its object.
LEMMA Onward ==
  ASSUME TypeOK, Shape, NEW w \in Threads, HandleIo(w), NEW c \in Conns, c = conn(w)
  PROVE  /\ bClosing[c] = 1 => bClosing'[c] = 1
         /\ handle[c] = "closed" => handle'[c] = "closed"
         /\ mem'[c] = "live" => mem[c] = "live" \/ Accepted(w)
         /\ leaked' = NULL => leaked = NULL
<1>1. /\ DOMAIN mem = Objs /\ DOMAIN handle = Objs /\ DOMAIN bClosing = Objs
      /\ c \in Objs /\ w # NULL
  BY Sockets DEF TypeOK
<1> USE <1>1 DEF Rest, Kernels, orderVars, lifeVars
<1>5. CASE ErrorPath(w) \/ SendCompleted(w)
  BY <1>5 DEF ErrorPath, SendCompleted
<1>6. CASE Dispatch(w)
  BY <1>6 DEF Dispatch, SetClosing
<1>10. CASE Sends(w)
  BY <1>10, SendsCases DEF SendRefused, NoneInOrder, DoSend, DoSendFails, SetClosing
<1>11. CASE ReceiveAgain(w)
  BY <1>11 DEF ReceiveAgain, SetClosing
<1>12. CASE CountPost(w) \/ CountOff(w) \/ TailSends(w)
  BY <1>12 DEF CountPost, CountOff, TailSends
<1>13. CASE CloseSocket(w) \/ Free(w)
  BY <1>13 DEF CloseSocket, Free, FreeSocketObj
<1>14. CASE Accepted(w)
  BY <1>14 DEF Accepted
<1>15. CASE FirstSend(w)
  BY <1>15 DEF FirstSend
<1>16. CASE FirstReceives(w)
  BY <1>16 DEF FirstReceives
<1>17. CASE PostAccept(w) \/ CountAccept(w)
  BY <1>17 DEF PostAccept, CountAccept
<1>18. CASE CheckAccepted(w)
  BY <1>18 DEF CheckAccepted, FreeSocketObj, SetClosing
<1>19. CASE UseAfterFree(w)
  BY <1>19 DEF UseAfterFree
<1> QED
  BY <1>5, <1>6, <1>10, <1>11, <1>12, <1>13, <1>14, <1>15, <1>16, <1>17, <1>18, <1>19
     DEF HandleIo, AcceptPath

\* What a thread does next, and what it knows of its connection.
LEMMA StepsOwn ==
  ASSUME TypeOK, Shape, NEW w \in Threads, HandleIo(w), NEW c \in Conns, c = conn(w), Steps(w)
  PROVE  Steps(w)'
<1>1. /\ UNCHANGED <<gProtocol, client, io, gaps>> /\ pc \in [Threads -> Labels]
      /\ failed \in [Threads -> 0 .. 1] /\ bClosing \in [Objs -> 0 .. 1] /\ c \in Objs /\ Busy(w)
      /\ handle[c] = "closed" => handle'[c] = "closed"
      /\ bClosing[c] = 1 => bClosing'[c] = 1
  BY Stays, Moves, Onward, Sockets DEF TypeOK, clientVars
<1>2. /\ io[w].op \in {"accept", "recv", "send"} /\ io[w].unit \in Nat
      /\ io[w].op # "accept" => sock(w) = c
      /\ pc[w] \in SocketPcs => io[w].op # "accept"
      /\ pc[w] \in AcceptPcs => io[w].op = "accept"
  BY <1>1, OwnSocket DEF Shape
<1> USE <1>1, <1>2 DEF At, Goto, conn, Gone, Udp, Busy
<1>3. ASSUME pc'[w] \in {"wait", "error", "again", "incRecv", "dec", "tail", "free"}  PROVE Steps(w)'
  BY <1>3 DEF Steps
<1>4. CASE ErrorPath(w) \/ TailSends(w) \/ CloseSocket(w) \/ Free(w) \/ CheckAccepted(w) \/ ReceiveAgain(w)
  <2>1. pc'[w] \in {"wait", "error", "again", "incRecv", "dec", "tail", "free"}
    BY <1>4 DEF ErrorPath, TailSends, CloseSocket, Free, CheckAccepted, ReceiveAgain
  <2> QED
    BY <2>1, <1>3
<1>5. CASE Dispatch(w)
  <2>1. CASE io[w].err = 0 /\ (io[w].unit > 0 \/ Udp)
    <3>1. pc'[w] = "sends" /\ (io[w].unit = 0 => Udp)
      BY <1>5, <2>1 DEF Dispatch
    <3> QED
      BY <3>1 DEF Steps
  <2>2. CASE ~(io[w].err = 0 /\ (io[w].unit > 0 \/ Udp))
    <3>1. pc'[w] \in {"sends", "again"} /\ io[w].op = "recv" /\ SetClosing(sock(w))
      BY <1>5, <2>2 DEF Dispatch
    <3>2. bClosing'[c] = 1
      BY <3>1 DEF SetClosing
    <3> QED
      BY <3>1, <3>2 DEF Steps
  <2> QED
    BY <2>1, <2>2
<1>6. CASE SendCompleted(w)
  BY <1>6 DEF SendCompleted, Steps
<1>7. CASE DoSend(w)
  <2>1. pc[w] = "sends" /\ pc'[w] = "incSend" /\ UNCHANGED bClosing
    BY <1>7 DEF DoSend
  <2> QED
    BY <2>1 DEF Steps
<1>8. CASE SendRefused(w)
  BY <1>3, <1>8 DEF SendRefused
<1>9. CASE NoneInOrder(w)
  <2>1. CASE io[w].op = "recv" /\ (io[w].unit > 0 \/ Udp)
    BY <1>3, <1>9, <2>1 DEF NoneInOrder
  <2>2. CASE NoneCounted(w) /\ ~(io[w].op = "recv" /\ (io[w].unit > 0 \/ Udp))
    <3>1. pc[w] = "sends" /\ pc'[w] = "decLast" /\ UNCHANGED bClosing
      BY <1>9, <2>2 DEF NoneInOrder, NoSend
    <3>2. io[w].op = "recv" /\ io[w].unit = 0
      BY <2>2 DEF NoneCounted
    <3>3. bClosing[c] = 1
      BY <2>2, <3>1, <3>2 DEF Steps
    <3> QED
      BY <3>1, <3>3 DEF Steps
  <2>3. CASE ~NoneCounted(w) /\ ~(io[w].op = "recv" /\ (io[w].unit > 0 \/ Udp))
    BY <1>3, <1>9, <2>3 DEF NoneInOrder
  <2> QED
    BY <2>1, <2>2, <2>3
<1>10. CASE CountPost(w)
  <2>1. UNCHANGED <<failed, bClosing>>
    BY <1>10 DEF CountPost
  <2>2. CASE pc'[w] = "dec"
    BY <2>2, <1>3
  <2>3. CASE pc[w] = "incSend" /\ pc'[w] = "sends"
    BY <2>1, <2>3 DEF Steps
  <2>4. CASE pc[w] \in {"countSend", "countRecv"} /\ pc'[w] = "receives"
    BY <2>1, <2>4 DEF Steps
  <2> QED
    BY <1>10, <2>2, <2>3, <2>4 DEF CountPost
<1>11. CASE CountOff(w)
  <2>1. UNCHANGED bClosing
    BY <1>11 DEF CountOff
  <2>2. CASE pc[w] = "decLast" \/ IsLast(sock(w))
    <3>1. pc'[w] = "close"
      BY <1>11, <2>2 DEF CountOff
    <3>2. io[w].op # "accept" => bClosing[c] = 1
      BY <2>2 DEF Steps, IsLast
    <3> QED
      BY <2>1, <3>1, <3>2 DEF Steps
  <2>3. CASE ~(pc[w] = "decLast" \/ IsLast(sock(w)))
    BY <1>3, <1>11, <2>3 DEF CountOff
  <2> QED
    BY <2>2, <2>3
<1>12. CASE Accepted(w)
  <2>1. pc'[w] \in {"firstSend", "wait"} /\ failed'[w] = 0
    BY <1>12 DEF Accepted
  <2> QED
    BY <2>1 DEF Steps
<1>13. CASE FirstSend(w)
  <2>1. pc[w] = "firstSend" /\ UNCHANGED handle /\ failed[w] = 0
    BY <1>13 DEF FirstSend, lifeVars, Steps
  <2>2. \/ pc'[w] = "countSend" /\ failed'[w] = 0
        \/ pc'[w] = "reaccept" /\ Gone(c)
    BY <1>13, <2>1 DEF FirstSend, PostSendFails
  <2> QED
    BY <2>1, <2>2 DEF Steps
<1>14. CASE FirstReceives(w)
  <2>1. pc[w] = "receives" /\ UNCHANGED handle /\ failed[w] = 0
    BY <1>14 DEF FirstReceives, lifeVars, Steps
  <2>2. \/ pc'[w] = "countRecv" /\ failed'[w] = 0
        \/ pc'[w] = "reaccept" /\ (Gone(c) \/ failed'[w] = 0)
    BY <1>14, <2>1 DEF FirstReceives, PostRecvFails
  <2> QED
    BY <2>1, <2>2 DEF Steps
<1>15. CASE PostAccept(w) \/ CountAccept(w)
  <2>1. /\ pc[w] \in {"reaccept", "countAccept"} /\ pc'[w] \in {"countAccept", "check"}
        /\ UNCHANGED failed
    BY <1>15 DEF PostAccept, CountAccept
  <2> QED
    BY <2>1 DEF Steps
<1>16. CASE UseAfterFree(w)
  BY <1>16 DEF UseAfterFree, threadVars, lifeVars, Steps, Empty
<1> QED
  BY <1>4, <1>5, <1>6, <1>7, <1>8, <1>9, <1>10, <1>11, <1>12, <1>13, <1>14, <1>15, <1>16, SendsCases
     DEF HandleIo, AcceptPath

LEMMA HandleLeaving ==
  ASSUME TypeOK, TypeOK', Shape, NEW w \in Threads, HandleIo(w), NEW c \in Conns, c = conn(w),
         Leaving(c)
  PROVE  Leaving(c)'
<1>1. /\ UNCHANGED <<gProtocol, client, io, port, gaps>> /\ Busy(w)
      /\ handle[c] = "closed" => handle'[c] = "closed"
      /\ bClosing[c] = 1 => bClosing'[c] = 1
      /\ \A v \in Threads \ {w} : pc'[v] = pc[v] /\ failed'[v] = failed[v]
  BY Stays, Moves, Onward DEF clientVars
<1>2. handle'[c] = "closed" => bClosing'[c] = 1 \/ client'[c] = "reset"
  <2>1. SUFFICES ASSUME handle'[c] = "closed", handle[c] # "closed"
                 PROVE  bClosing'[c] = 1 \/ client'[c] = "reset"
    BY <1>1 DEF Leaving
  <2>2. Steps(w)
    BY <1>1 DEF Leaving
  <2>3. /\ io[w].op # "accept" => sock(w) = c
        /\ io[w].op = "accept" => sock(w) = Listener /\ Listener # c
    BY <1>1, OwnSocket
  <2>4. CASE CloseSocket(w)
    <3>1. pc[w] = "close" /\ sock(w) = c
      BY <2>1, <2>3, <2>4 DEF CloseSocket, TypeOK, At
    <3>2. bClosing[c] = 1
      BY <2>2, <2>3, <3>1 DEF Steps
    <3> QED
      BY <3>2, <1>1
  <2>5. CASE CheckAccepted(w)
    <3>1. pc[w] = "check" /\ failed[w] = 1
      BY <2>1, <2>5 DEF CheckAccepted, At, lifeVars
    <3> QED
      BY <2>1, <2>2, <3>1, <1>1 DEF Steps, Gone
  <2>6. CASE ~CloseSocket(w) /\ ~CheckAccepted(w)
    <3>1. UNCHANGED handle
      <4> USE <2>6 DEF HandleIo, lifeVars
      <4>1. CASE ErrorPath(w) \/ Dispatch(w) \/ SendCompleted(w) \/ ReceiveAgain(w)
        BY <4>1 DEF ErrorPath, Dispatch, SendCompleted, ReceiveAgain
      <4>2. CASE Sends(w)
        BY <4>2, SendsCases DEF DoSend, SendRefused, DoSendFails, NoneInOrder
      <4>3. CASE CountPost(w) \/ CountOff(w) \/ TailSends(w) \/ Free(w) \/ UseAfterFree(w)
        BY <4>3 DEF CountPost, CountOff, TailSends, Free, UseAfterFree
      <4>4. CASE AcceptPath(w)
        BY <4>4 DEF AcceptPath, Accepted, FirstSend, FirstReceives, PostAccept, CountAccept
      <4> QED
        BY <4>1, <4>2, <4>3, <4>4
    <3> QED
      BY <2>1, <3>1
  <2> QED
    BY <2>4, <2>5, <2>6
<1>3. \A n \in DOMAIN port' : (port[n].conn = c => Empty(port[n]))'
  BY <1>1 DEF Leaving, Empty
<1>4. \A v \in Threads : (Busy(v) /\ conn(v) = c => Steps(v))'
  <2>1. ASSUME NEW v \in Threads, v # w, Busy(v)', conn(v)' = c  PROVE Steps(v)'
    <3>1. pc'[v] = pc[v] /\ failed'[v] = failed[v] /\ io'[v] = io[v]
      BY <2>1, <1>1
    <3>2. Steps(v) /\ conn(v) = c
      BY <2>1, <3>1, <1>1 DEF Leaving, Busy, conn
    <3> QED
      BY <3>1, <3>2, <1>1 DEF Steps, Gone, Empty, conn, Udp
  <2>2. Steps(w)'
    BY <1>1, StepsOwn DEF Leaving
  <2> QED
    BY <2>1, <2>2
<1> QED
  BY <1>1, <1>2, <1>3, <1>4 DEF Leaving, Udp

\* The first send of w opens c; after it nothing is about the accept of c.
LEMMA HandleOpened ==
  ASSUME TypeOK, Shape, Shape', NEW w \in Threads, HandleIo(w), NEW c \in Conns, c = conn(w),
         Phases(c), ~Opens(w)'
  PROVE  Opened(c)'
<1>1. /\ UNCHANGED <<client, io, port>> /\ Busy(w)
      /\ \A v \in Threads \ {w} : pc'[v] = pc[v]
  BY Stays, Moves DEF clientVars
<1>2. io[w].conn = c /\ ~NoThread(c)
  BY <1>1 DEF NoThread, conn
<1>3. client[c] # "none" /\ \A n \in DOMAIN port : port[n].op = "accept" => port[n].conn # c
  BY <1>2 DEF Phases
<1>4. ASSUME NEW v \in Threads, Opens(v)', io'[v].conn = c  PROVE FALSE
  <2>1. v # w /\ Opens(v) /\ io[v].conn = c
    BY <1>1, <1>4 DEF Opens
  <2> QED
    BY <2>1, <1>1, <1>2 DEF Phases
<1> QED
  BY <1>1, <1>3, <1>4 DEF Opened

\* The steps of w that move no receive of c.
Keeps(c) ==
  UNCHANGED <<recvs[c], OutOfOrderSends[c], LastSendIssued[c], IoCountIssued[c], echoed[c]>>

\* The first send and Dispatch aside, a connection that is sound was so.
LEMMA SoundBefore ==
  ASSUME TypeOK, Shape, NEW w \in Threads, HandleIo(w), NEW c \in Conns, c = conn(w),
         ~Accepted(w), pc[w] # "firstSend", w \in Entering(c) => w \in Entering(c)' \/ io[w].unit # 0,
         Sound(c)'
  PROVE  Sound(c)
<1>1. /\ UNCHANGED <<client, io, port, gaps>> /\ Busy(w)
      /\ \A v \in Threads \ {w} : pc'[v] = pc[v]
      /\ bClosing[c] = 1 => bClosing'[c] = 1
      /\ mem'[c] = "live" => mem[c] = "live"
      /\ leaked' = NULL => leaked = NULL
  BY Stays, Moves, Onward DEF clientVars
<1>2. bClosing[c] \in {0, 1}
  BY Sockets DEF TypeOK
<1>3. AtPort(c)' = AtPort(c)
  BY <1>1 DEF AtPort
<1>4. \A v \in Entering(c) : v # w => v \in Entering(c)'
  BY <1>1 DEF Entering, At, conn
<1>5. Live(c) /\ bClosing[c] = 0 /\ client[c] # "reset" /\ gaps = 0 /\ leaked = NULL
  BY <1>1, <1>2 DEF Sound, Live
<1>6. \A n \in AtPort(c) : port[n].unit # 0
  BY <1>1, <1>3 DEF Sound
<1>7. \A v \in Entering(c) : io[v].unit # 0
  BY <1>1, <1>4 DEF Sound
<1>8. ~\E v \in Threads : At(v, "firstSend") /\ conn(v) = c
  BY <1>1 DEF Sound, At, conn
<1> QED
  BY <1>5, <1>6, <1>7, <1>8 DEF Sound

\* A step of w that is not Dispatch leaves the completions of c where they are.
LEMMA Unmoved ==
  ASSUME TypeOK, Shape, NEW w \in Threads, HandleIo(w), NEW c \in Conns, c = conn(w),
         w \notin Entering(c)
  PROVE  /\ AtPort(c)' = AtPort(c) /\ Entering(c)' = Entering(c)
         /\ UNCHANGED <<port, io>>
         /\ InPort(c)' = InPort(c) /\ InThreads(c)' = InThreads(c)
         /\ UNCHANGED OutOfOrderSends[c] => Data(c)' = Data(c)
         /\ Range(OutOfOrderSends[c])' \subseteq Range(OutOfOrderSends[c]) => Data(c)' \subseteq Data(c)
<1>1. /\ UNCHANGED <<io, port>> /\ Busy(w)
      /\ \A v \in Threads \ {w} : pc'[v] = pc[v]
      /\ pc'[w] = "enter" => pc[w] = "enter"
  BY Stays, Moves
<1>2. AtPort(c)' = AtPort(c)
  BY <1>1 DEF AtPort
<1>3. Entering(c)' = Entering(c)
  BY <1>1 DEF Entering, At, conn
<1>4. InPort(c)' = InPort(c) /\ InThreads(c)' = InThreads(c)
  BY <1>1, <1>2, <1>3 DEF InPort, InThreads
<1> DEFINE P == {Buf(port[n]) : n \in {m \in AtPort(c) : port[m].unit > 0}}
           T == {Buf(io[v]) : v \in {u \in Entering(c) : io[u].unit > 0}}
<1>5. P' = P /\ T' = T
  BY <1>1, <1>2, <1>3 DEF Buf
<1>6. Data(c) = P \cup T \cup Range(OutOfOrderSends[c]) /\ Data(c)' = P' \cup T' \cup Range(OutOfOrderSends[c])'
  BY DEF Data
<1> HIDE DEF P, T
<1> QED
  BY <1>1, <1>2, <1>3, <1>4, <1>5, <1>6

\* What holds of c while nothing of it is sent, received or posted.
LEMMA Quietly ==
  ASSUME TypeOK, TypeOK', Shape, NEW w \in Threads, HandleIo(w), NEW c \in Conns, c = conn(w),
         w \notin Entering(c), Keeps(c), EchoInv(c)
  PROVE  /\ IsPrefix1(echoed[c], received[c])' /\ (Stuck(c) \/ Flows(c))'
         /\ Ordered(c) => Ordered(c)'
<1>1. /\ UNCHANGED <<client, received, port, io, echoed[c], recvs[c], LastSendIssued[c],
                     IoCountIssued[c], OutOfOrderSends[c]>>
      /\ handle[c] = "closed" => handle'[c] = "closed"
  BY Stays, Onward DEF clientVars, Keeps
<1>2. /\ AtPort(c)' = AtPort(c) /\ Entering(c)' = Entering(c) /\ Data(c)' = Data(c)
      /\ InPort(c)' = InPort(c) /\ InThreads(c)' = InThreads(c)
  BY <1>1, Unmoved
<1>3. Flows(c) => Flows(c)'
  <2>1. SUFFICES ASSUME Flows(c)  PROVE Flows(c)'
    OBVIOUS
  <2>2. Over(c) => Over(c)'
    BY <1>1 DEF Over
  <2>3. NoHole(c) => NoHole(c)'
    BY <1>1, <1>2, <2>2 DEF NoHole
  <2>4. Hole(c) => Hole(c)'
    BY <1>1, <1>2 DEF Hole
  <2> QED
    BY <2>1, <2>2, <2>3, <2>4, <1>1, <1>2 DEF Flows, Dead
<1>4. Ordered(c) => Ordered(c)'
  BY <1>1, <1>2 DEF Ordered, Distinct, Apart, InRecvs, InPending, Sorted
<1> QED
  BY <1>1, <1>3, <1>4 DEF EchoInv, Stuck, IsPrefix1

\* The steps that touch no number of c.
Plain(w) ==
  \/ ErrorPath(w) \/ SendCompleted(w) \/ NoneInOrder(w) \/ CountPost(w) \/ CountOff(w)
  \/ TailSends(w) \/ CloseSocket(w) \/ Free(w) \/ PostAccept(w) \/ CountAccept(w)
  \/ CheckAccepted(w)
  \/ FirstReceives(w) /\ UNCHANGED <<Kernels, orderVars>>

LEMMA PlainOwn ==
  ASSUME TypeOK, TypeOK', Shape, Shape', NEW w \in Threads, HandleIo(w), Plain(w),
         NEW c \in Conns, c = conn(w), ConnInv(c)
  PROVE  ConnInv(c)'
<1> USE DEF At, Goto
<1>0. pc \in [Threads -> Labels]
  BY DEF TypeOK
<1>1. /\ Keeps(c) /\ ~(pc[w] = "enter" /\ io[w].op # "send") /\ pc[w] # "firstSend"
      /\ pc'[w] \notin {"enter", "firstSend"}
  <2> USE <1>0 DEF Keeps, Rest, Kernels, orderVars
  <2>1. CASE ErrorPath(w) \/ SendCompleted(w)
    BY <2>1 DEF ErrorPath, SendCompleted
  <2>2. CASE NoneInOrder(w) \/ TailSends(w)
    BY <2>2 DEF NoneInOrder, NoSend, TailSends
  <2>3. CASE CountPost(w) \/ CountOff(w)
    BY <2>3 DEF CountPost, CountOff
  <2>4. CASE CloseSocket(w) \/ Free(w)
    BY <2>4 DEF CloseSocket, Free
  <2>5. CASE PostAccept(w) \/ CountAccept(w) \/ CheckAccepted(w)
    BY <2>5 DEF PostAccept, CountAccept, CheckAccepted
  <2>6. CASE FirstReceives(w) /\ UNCHANGED <<Kernels, orderVars>>
    BY <2>6 DEF FirstReceives
  <2> QED
    BY <2>1, <2>2, <2>3, <2>4, <2>5, <2>6 DEF Plain
<1>2. w \notin Entering(c) /\ ~Opens(w) /\ ~Opens(w)'
  BY <1>1 DEF Entering, Opens
<1>3. ~Accepted(w)
  BY <1>1 DEF Accepted
<1>4. Leaving(c)' /\ Opened(c)'
  BY <1>2, HandleLeaving, HandleOpened DEF ConnInv
<1>5. /\ IsPrefix1(echoed[c], received[c])' /\ (Stuck(c) \/ Flows(c))'
      /\ Ordered(c) => Ordered(c)'
  BY <1>1, <1>2, Quietly DEF ConnInv
<1>6. (Sound(c) => Ordered(c))'
  BY <1>1, <1>2, <1>3, <1>5, SoundBefore DEF ConnInv
<1> QED
  BY <1>4, <1>5, <1>6, OpenedRest DEF ConnInv, EchoInv

LEMMA AcceptedOwn ==
  ASSUME TypeOK, TypeOK', Shape, Shape', NEW w \in Threads, Accepted(w), HandleIo(w),
         NEW c \in Conns, c = conn(w), ConnInv(c)
  PROVE  ConnInv(c)'
<1>1. /\ UNCHANGED <<client, received, port, io, gaps>> /\ Busy(w)
      /\ \A v \in Threads \ {w} : pc'[v] = pc[v]
  BY Stays, Moves DEF clientVars
<1>2. /\ pc[w] = "enter" /\ io[w].op = "accept" /\ Keeps(c)
      /\ UNCHANGED <<sends, OutOfOrderSends, recvs, LastSendIssued, IoCountIssued, echoed>>
      /\ pc'[w] = "firstSend" \/ (pc'[w] = "wait" /\ leaked' = w)
  BY DEF Accepted, At, Goto, TypeOK, Kernels, orderVars, Keeps
<1>3. Opens(w) /\ io[w].conn = c /\ w \notin Entering(c)
  BY <1>2 DEF Opens, Entering, conn
<1>4. Quiet(c) /\ NoItem(c) /\ \A v \in Threads : Busy(v) /\ io[v].conn = c => v = w
  BY <1>3 DEF ConnInv, Phases
<1>5. Leaving(c)'
  BY HandleLeaving DEF ConnInv
<1>6. Phases(c)'
  <2>1. client[c] # "none"
    BY <1>1, <1>3 DEF ConnInv, Phases, NoThread
  <2>2. Quiet(c)' /\ NoItem(c)'
    BY <1>1, <1>2, <1>4 DEF Quiet, NoItem
  <2>3. \A v \in Threads : Busy(v)' /\ io'[v].conn = c => v = w
    BY <1>1, <1>4 DEF Busy
  <2>4. pc'[w] # "enter"
    BY <1>2
  <2> QED
    BY <1>1, <2>1, <2>2, <2>3, <2>4 DEF Phases, NoItem, Opens, Busy
<1>7. EchoInv(c)'
  <2>1. IsPrefix1(echoed[c], received[c])' /\ (Stuck(c) \/ Flows(c))'
    BY <1>2, <1>3, Quietly DEF ConnInv
  <2>2. \A n \in DOMAIN port' : (port[n].conn = c => FirstData(port[n]))'
    BY <1>1 DEF ConnInv, EchoInv, FirstData
  <2>3. \A v \in Threads : (Opens(v) /\ conn(v) = c => FirstData(io[v]))'
    <3>1. ASSUME NEW v \in Threads, Opens(v)', conn(v)' = c  PROVE FirstData(io[v])'
      <4>1. v = w
        BY <3>1, <1>1, <1>4 DEF Opens, Busy, conn
      <4>2. FirstData(io[w])
        BY <1>3 DEF ConnInv, EchoInv, conn
      <4> QED
        BY <4>1, <4>2, <1>1 DEF FirstData
    <3> QED
      BY <3>1
  <2> QED
    BY <2>1, <2>2, <2>3 DEF EchoInv
<1>8. ~Sound(c)'
  BY <1>1, <1>2, Sockets DEF Sound, At, conn
<1> QED
  BY <1>5, <1>6, <1>7, <1>8 DEF ConnInv

LEMMA UseAfterFreeOwn ==
  ASSUME TypeOK, TypeOK', NEW w \in Threads, UseAfterFree(w), NEW c \in Conns, ConnInv(c)
  PROVE  ConnInv(c)'
<1>1. UNCHANGED <<clientVars, kernelVars, orderVars, lifeVars, bClosing, threadVars, leaked, gaps>>
  BY DEF UseAfterFree
<1>2. Same(c) /\ SameThreads(c) /\ SameWorld
  BY <1>1 DEF Same, SameThreads, SameWorld, clientVars, kernelVars, orderVars, lifeVars, threadVars,
              TypeOK, Busy, conn
<1>3. SameItems(c, 0)
  <2>0. port \in Seq(Item)
    BY DEF TypeOK
  <2>1. \A n \in DOMAIN port : n - 0 = n /\ n + 0 = n
    BY <2>0, Places
  <2> QED
    BY <1>1, <2>1 DEF SameItems, kernelVars
<1> QED
  BY <1>2, <1>3, OtherConn

\* A step after which w no longer enters, and c closes or cannot be reached.
LEMMA ClosingOwn ==
  ASSUME TypeOK, TypeOK', Shape, Shape', NEW w \in Threads, HandleIo(w), NEW c \in Conns,
         c = conn(w), ConnInv(c), pc[w] # "enter" \/ io[w].op # "accept", pc'[w] # "firstSend",
         bClosing'[c] = 1 \/ Gone(c), IsPrefix1(echoed[c], received[c])', (Stuck(c) \/ Flows(c))'
  PROVE  ConnInv(c)'
<1>1. ~Opens(w)'
  BY Moves, Stays DEF Opens
<1>2. Leaving(c)' /\ Opened(c)'
  BY <1>1, HandleLeaving, HandleOpened DEF ConnInv
<1>3. ~Sound(c)'
  <2>1. bClosing'[c] = 1 \/ client'[c] = "reset"
    <3>1. UNCHANGED client /\ (bClosing[c] = 1 => bClosing'[c] = 1)
      BY Stays, Onward DEF clientVars
    <3> QED
      BY <3>1 DEF Gone, ConnInv, Leaving
  <2> QED
    BY <2>1 DEF Sound
<1> QED
  BY <1>2, <1>3, OpenedRest DEF ConnInv, EchoInv

\* A receive without data closes its socket.
LEMMA DispatchCloses ==
  ASSUME TypeOK, TypeOK', Shape, Shape', NEW w \in Threads, Dispatch(w), HandleIo(w), NEW c \in Conns,
         c = conn(w), ConnInv(c), ~(io[w].err = 0 /\ (io[w].unit > 0 \/ Udp))
  PROVE  ConnInv(c)'
<1>1. /\ UNCHANGED <<client, received, port, io, gaps>> /\ Busy(w)
      /\ \A v \in Threads \ {w} : pc'[v] = pc[v]
      /\ handle[c] = "closed" => handle'[c] = "closed"
  BY Stays, Moves, Onward DEF clientVars
<1>2. /\ pc[w] = "enter" /\ io[w].op = "recv" /\ pc'[w] \in {"sends", "again"} /\ sock(w) = c
      /\ SetClosing(c) /\ UNCHANGED <<Kernels, orderVars>> /\ c \in Objs /\ io[w].err \in 0 .. 1
      /\ io[w].unit \in Nat
  <2>1. /\ io[w].err \in 0 .. 1 /\ io[w].unit \in Nat /\ sock(w) = c /\ c \in Objs
        /\ pc[w] = "enter" /\ io[w].op = "recv"
    BY <1>1, OwnSocket DEF Dispatch, At, Item
  <2> QED
    BY <2>1 DEF Dispatch, Goto, TypeOK, orderVars
<1>3. io[w].unit = 0
  <2>1. Empty(io[w])
    BY <1>1, <1>2 DEF ConnInv, Leaving, Steps
  <2> QED
    BY <1>2, <2>1 DEF Empty
<1>4. AtPort(c)' = AtPort(c) /\ Entering(c)' = Entering(c) \ {w}
  BY <1>1, <1>2 DEF AtPort, Entering, At, conn
<1>5. Data(c)' = Data(c)
  <2>1. {v \in Entering(c)' : io'[v].unit > 0} = {v \in Entering(c) : io[v].unit > 0}
    BY <1>1, <1>3, <1>4
  <2> QED
    BY <1>1, <1>2, <1>4, <2>1 DEF Data, Buf, orderVars
<1>6. Flows(c) => Flows(c)'
  <2>1. Over(c) => Over(c)'
    BY <1>1 DEF Over
  <2>2. NoHole(c) => NoHole(c)'
    BY <1>1, <1>2, <1>5, <2>1 DEF NoHole, Kernels, orderVars
  <2>3. Hole(c) => Hole(c)'
    BY <1>1, <1>2, <1>5 DEF Hole, Kernels, orderVars
  <2> QED
    BY <2>1, <2>2, <2>3, <1>1, <1>2, <1>5 DEF Flows, Dead, Kernels, orderVars
<1>7. (Stuck(c) \/ Flows(c))' /\ IsPrefix1(echoed[c], received[c])'
  BY <1>1, <1>2, <1>6 DEF ConnInv, EchoInv, Stuck, IsPrefix1, Kernels, orderVars
<1>8. bClosing'[c] = 1
  BY <1>2 DEF SetClosing, TypeOK
<1> QED
  BY <1>2, <1>7, <1>8, ClosingOwn

\* A receive with data becomes a pending send.
LEMMA DispatchInserts ==
  ASSUME TypeOK, TypeOK', Shape, Shape', NEW w \in Threads, Dispatch(w), HandleIo(w), NEW c \in Conns,
         c = conn(w), ConnInv(c), io[w].err = 0, io[w].unit > 0 \/ Udp
  PROVE  ConnInv(c)'
<1>1. /\ UNCHANGED <<client, received, port, io, gaps>> /\ Busy(w)
      /\ \A v \in Threads \ {w} : pc'[v] = pc[v]
      /\ handle[c] = "closed" => handle'[c] = "closed"
  BY Stays, Moves, Onward DEF clientVars
<1> DEFINE b == Buf(io[w])
<1>2. /\ pc[w] = "enter" /\ io[w].op = "recv" /\ pc'[w] = "sends" /\ sock(w) = c
      /\ c \in Objs /\ io[w].unit \in Nat /\ io[w].ord \in Nat
  BY <1>1, OwnSocket DEF Dispatch, At, Goto, TypeOK
<1>3. /\ UNCHANGED <<Kernels, IoCountIssued, LastSendIssued, bClosing>>
      /\ OutOfOrderSends'[c] = InsertPendingSend(OutOfOrderSends[c], b)
      /\ ~\E n \in DOMAIN OutOfOrderSends[c] : OutOfOrderSends[c][n].ord = Freed
      /\ OutOfOrderSends[c] \in Seq(Pending) /\ b \in Pending /\ b.ord = io[w].ord /\ b.unit = io[w].unit
  BY <1>2 DEF Dispatch, TypeOK, Buf, Pending
<1>4. io[w].unit > 0
  <2>1. Empty(io[w]) /\ (Udp => client[c] = "open")
    BY <1>1, <1>2 DEF ConnInv, Leaving, Steps
  <2> QED
    BY <1>2, <2>1 DEF Empty, conn
<1>5. AtPort(c)' = AtPort(c) /\ Entering(c)' = Entering(c) \ {w} /\ w \in Entering(c)
  BY <1>1, <1>2 DEF AtPort, Entering, At, conn
<1>6. Inserted(OutOfOrderSends[c], b, OutOfOrderSends'[c])
  BY <1>3, InsertInserts
<1> HIDE DEF b
<1>7. /\ Range(OutOfOrderSends[c])' = Range(OutOfOrderSends[c]) \cup {b}
      /\ InPending(c)' = InPending(c) \cup {b.ord}
  <2> DEFINE s == OutOfOrderSends[c]
             r == OutOfOrderSends'[c]
  <2>1. PICK k \in 1 .. Len(s) + 1 :
          /\ r \in Seq(Pending) /\ Len(r) = Len(s) + 1
          /\ \A n \in 1 .. Len(s) + 1 : r[n] = IF n < k THEN s[n] ELSE IF n = k THEN b ELSE s[n - 1]
    BY <1>6 DEF Inserted
  <2>2. s \in Seq(Pending) /\ Len(s) \in Nat /\ DOMAIN s = 1 .. Len(s) /\ DOMAIN r = 1 .. Len(s) + 1
    BY <1>3, <2>1
  <2> HIDE DEF s, r
  <2>3. \A n \in DOMAIN r : r[n] = b \/ \E m \in DOMAIN s : r[n] = s[m]
    <3>1. SUFFICES ASSUME NEW n \in DOMAIN r, n # k  PROVE \E m \in DOMAIN s : r[n] = s[m]
      BY <2>1, <2>2
    <3>2. CASE n < k
      BY <3>1, <3>2, <2>1, <2>2
    <3>3. CASE n > k
      <4>1. n - 1 \in DOMAIN s /\ r[n] = s[n - 1]
        BY <3>1, <3>3, <2>1, <2>2
      <4> QED
        BY <4>1
    <3> QED
      BY <3>1, <3>2, <3>3, <2>1, <2>2
  <2>4. \A m \in DOMAIN s : \E n \in DOMAIN r : r[n] = s[m]
    <3>1. SUFFICES ASSUME NEW m \in DOMAIN s  PROVE \E n \in DOMAIN r : r[n] = s[m]
      OBVIOUS
    <3>2. CASE m < k
      <4>1. m \in DOMAIN r /\ r[m] = s[m]
        BY <3>2, <2>1, <2>2
      <4> QED
        BY <4>1
    <3>3. CASE m >= k
      <4>1. m + 1 \in DOMAIN r /\ r[m + 1] = s[m]
        BY <3>3, <2>1, <2>2
      <4> QED
        BY <4>1
    <3> QED
      BY <3>2, <3>3, <2>1, <2>2
  <2>5. k \in DOMAIN r /\ r[k] = b
    BY <2>1, <2>2
  <2>6. Range(r) = Range(s) \cup {b}
    BY <2>3, <2>4, <2>5 DEF Range
  <2>7. {r[n].ord : n \in DOMAIN r} = {s[n].ord : n \in DOMAIN s} \cup {b.ord}
    BY <2>3, <2>4, <2>5
  <2> QED
    BY <2>6, <2>7 DEF s, r, InPending
<1>8. Data(c)' = Data(c)
  <2> DEFINE P == {Buf(port[n]) : n \in {m \in AtPort(c) : port[m].unit > 0}}
             T == {Buf(io[v]) : v \in {u \in Entering(c) : io[u].unit > 0}}
  <2>1. P' = P
    BY <1>1, <1>5 DEF Buf
  <2>2. T = T' \cup {b}
    BY <1>1, <1>4, <1>5 DEF Buf, b
  <2>3. Data(c) = P \cup T \cup Range(OutOfOrderSends[c]) /\ Data(c)' = P' \cup T' \cup Range(OutOfOrderSends[c])'
    BY DEF Data
  <2> HIDE DEF P, T
  <2> QED
    BY <2>1, <2>2, <2>3, <1>7
<1>9. ~Stuck(c)
  <2>1. OutOfOrderSends[c] # <<>> => 1 \in DOMAIN OutOfOrderSends[c] /\ Head(OutOfOrderSends[c]) = OutOfOrderSends[c][1]
    BY <1>3
  <2> QED
    BY <1>3, <2>1 DEF Stuck
<1>10. Flows(c)'
  <2>0. Flows(c)
    BY <1>9 DEF ConnInv, EchoInv
  <2>1. Over(c) => Over(c)'
    BY <1>1 DEF Over
  <2>2. NoHole(c) => NoHole(c)'
    BY <1>1, <1>3, <1>8, <2>1 DEF NoHole, Kernels
  <2>3. Hole(c) => Hole(c)'
    BY <1>1, <1>3, <1>8 DEF Hole, Kernels
  <2> QED
    BY <2>0, <2>1, <2>2, <2>3, <1>1, <1>3, <1>8 DEF Flows, Dead, Kernels
<1>11. ~Opens(w)' /\ ~Accepted(w) /\ pc[w] # "firstSend"
  BY <1>2, <1>1 DEF Opens, Accepted
<1>12. Leaving(c)' /\ Opened(c)'
  BY <1>11, HandleLeaving, HandleOpened DEF ConnInv
<1>13. EchoInv(c)'
  BY <1>1, <1>3, <1>10, <1>12, OpenedRest DEF ConnInv, EchoInv, IsPrefix1, Kernels
<1>14. (Sound(c) => Ordered(c))'
  <2>1. SUFFICES ASSUME Sound(c)'  PROVE Ordered(c)'
    OBVIOUS
  <2>2. Ordered(c)
    BY <2>1, <1>2, <1>4, <1>11, SoundBefore DEF ConnInv
  <2>3. InThreads(c)' = InThreads(c) \ {b.ord} /\ b.ord \in InThreads(c)
    <3>1. \A v \in Entering(c) : io[v].ord = b.ord => v = w
      BY <2>2, <1>3, <1>5 DEF Ordered, Distinct
    <3> QED
      BY <3>1, <1>1, <1>3, <1>5 DEF InThreads
  <2>4. InPort(c)' = InPort(c) /\ InRecvs(c)' = InRecvs(c)
    BY <1>1, <1>3, <1>5 DEF InPort, InRecvs, Kernels
  <2>5. b.ord \notin InPending(c)
    BY <2>2, <2>3 DEF Ordered, Apart
  <2>6. Sorted(OutOfOrderSends'[c])
    <3>1. Sorted(OutOfOrderSends[c]) /\ \A n \in DOMAIN OutOfOrderSends[c] : OutOfOrderSends[c][n].ord # b.ord
      BY <2>2, <2>5 DEF Ordered, Distinct, InPending
    <3> QED
      BY <3>1, <1>3, InsertSorts
  <2>7. Distinct(c)'
    <3>1. Sorted(OutOfOrderSends[c])'
      BY <2>6 DEF Sorted
    <3> QED
      BY <2>2, <3>1, <1>1, <1>3, <1>5 DEF Ordered, Distinct, Kernels
  <2>8. Apart(c)'
    BY <2>2, <2>3, <2>4, <2>5, <1>7 DEF Ordered, Apart
  <2>9. (InThreads(c) \cup InPending(c))' = InThreads(c) \cup InPending(c)
    BY <2>3, <1>7
  <2> QED
    BY <2>2, <2>4, <2>7, <2>8, <2>9, <1>3 DEF Ordered
<1> QED
  BY <1>12, <1>13, <1>14, OpenedRest DEF ConnInv

\* The buffer DoSends waits for goes out: its unit is the next to be echoed.
LEMMA DoSendOwn ==
  ASSUME TypeOK, TypeOK', Shape, Shape', NEW w \in Threads, DoSend(w), HandleIo(w), NEW c \in Conns,
         c = conn(w), ConnInv(c)
  PROVE  ConnInv(c)'
<1>1. /\ UNCHANGED <<client, received, port, io, gaps>> /\ Busy(w)
      /\ handle[c] = "closed" => handle'[c] = "closed"
  BY Stays, Moves, Onward DEF clientVars
<1>2. /\ pc[w] = "sends" /\ pc'[w] = "incSend" /\ io[w].op # "accept"
  BY DEF DoSend, At, Goto, TypeOK, Shape, SocketPcs
<1>3. sock(w) = c /\ c \in Objs
  BY <1>1, <1>2, OwnSocket
<1> DEFINE s == OutOfOrderSends[c]
           b == Head(s)
           last == LastSendIssued[c]
<1>4. /\ s # <<>> /\ b.ord = last
      /\ OutOfOrderSends'[c] = Tail(s) /\ LastSendIssued'[c] = last + 1
      /\ echoed'[c] = IF b.unit > 0 THEN Append(echoed[c], b.unit) ELSE echoed[c]
      /\ UNCHANGED <<recvs, IoCountIssued, mem, handle, bClosing>>
  BY <1>3 DEF DoSend, InOrder, PostSend, CountSend, TypeOK, lifeVars
<1>5. /\ s \in Seq(Pending) /\ last \in Nat /\ IoCountIssued[c] \in Nat /\ echoed[c] \in Seq(Nat)
      /\ Len(echoed[c]) \in Nat /\ received[c] \in Nat
  BY <1>3 DEF TypeOK
<1> HIDE DEF last
<1>6. /\ Tail(s) \in Seq(Pending) /\ 1 \in DOMAIN s /\ b = s[1] /\ b \in Pending
      /\ \A n \in DOMAIN Tail(s) : n \in Nat \ {0} /\ n + 1 \in DOMAIN s /\ Tail(s)[n] = s[n + 1]
      /\ \A n \in DOMAIN s : n \in Nat \ {0} /\ (n # 1 => n - 1 \in DOMAIN Tail(s) /\ Tail(s)[n - 1] = s[n])
  BY <1>4, <1>5, TailOf
<1>7. Range(s)' \subseteq Range(s) /\ b \in Range(s)
  <2>1. \A n \in DOMAIN Tail(s) : \E m \in DOMAIN s : Tail(s)[n] = s[m]
    BY <1>6
  <2>2. Range(s)' = {Tail(s)[n] : n \in DOMAIN Tail(s)} /\ Range(s) = {s[n] : n \in DOMAIN s}
    BY <1>4 DEF Range
  <2> QED
    BY <2>1, <2>2, <1>6
<1>8. w \notin Entering(c) /\ ~Opens(w)' /\ ~Accepted(w)
  BY <1>2 DEF Entering, Opens, Accepted, At
<1>9. /\ AtPort(c)' = AtPort(c) /\ Entering(c)' = Entering(c) /\ Data(c)' \subseteq Data(c)
      /\ InPort(c)' = InPort(c) /\ InThreads(c)' = InThreads(c)
  BY <1>7, <1>8, Unmoved
<1>10. b \in Data(c)
  BY <1>7 DEF Data
<1>11. Flows(c)
  <2>1. ~Stuck(c)
    BY <1>4, <1>5 DEF Stuck, Freed
  <2> QED
    BY <2>1 DEF ConnInv, EchoInv
<1> HIDE DEF s, b
<1>12. b.unit \in 1 .. received[c] /\ Len(echoed[c]) = last
  BY <1>10, <1>11 DEF Flows, Dead, last
<1>13. b.unit = last + 1 /\ (Hole(c) => Hole(c)')
  <2>1. CASE NoHole(c) /\ ~Hole(c)
    BY <2>1, <1>4, <1>10 DEF NoHole
  <2>2. CASE Hole(c)
    <3>1. PICK g \in last .. (IoCountIssued[c] - 1) :
            /\ \A n \in DOMAIN recvs[c] : recvs[c][n] > g
            /\ \A x \in Data(c) : x.ord # g /\ (x.ord < g => x.unit = x.ord + 1)
      BY <2>2 DEF Hole, last
    <3>2. last # g /\ g \in Int /\ last <= g
      BY <3>1, <1>4, <1>5, <1>10
    <3>3. last < g
      BY <3>2, <1>5
    <3>4. b.unit = last + 1
      BY <3>1, <3>3, <1>4, <1>10
    <3>5. g \in (last + 1) .. (IoCountIssued[c] - 1)
      BY <3>1, <3>3, <1>5
    <3>6. Hole(c)'
      BY <3>1, <3>5, <1>4, <1>9 DEF Hole
    <3> QED
      BY <3>4, <3>6
  <2> QED
    BY <2>1, <2>2, <1>11 DEF Flows
<1>14. echoed'[c] = Append(echoed[c], last + 1)
  BY <1>4, <1>12, <1>13, <1>5
<1>15. IsPrefix1(echoed[c], received[c])'
  <2>1. last + 1 \in Nat /\ last + 1 <= received[c]
    BY <1>5, <1>12, <1>13
  <2>2. /\ Len(echoed'[c]) = last + 1 /\ DOMAIN echoed'[c] = 1 .. last + 1
        /\ echoed'[c][last + 1] = last + 1
        /\ \A n \in 1 .. last : echoed'[c][n] = echoed[c][n]
    BY <1>5, <1>12, <1>14, <2>1
  <2>3. \A n \in 1 .. last : echoed[c][n] = n
    BY <1>5, <1>12 DEF ConnInv, EchoInv, IsPrefix1
  <2>4. \A n \in 1 .. last + 1 : n = last + 1 \/ n \in 1 .. last
    BY <1>5
  <2> QED
    BY <1>1, <2>1, <2>2, <2>3, <2>4 DEF IsPrefix1
<1>16. Flows(c)'
  <2>1. Len(echoed'[c]) = LastSendIssued'[c]
    BY <1>4, <1>5, <1>12, <1>14
  <2>2. Over(c)' = Over(c)
    BY <1>1, <1>4 DEF Over
  <2>3. NoHole(c) => NoHole(c)'
    BY <1>1, <1>4, <1>9, <2>2 DEF NoHole
  <2> QED
    BY <1>1, <1>9, <1>11, <1>13, <2>1, <2>3 DEF Flows
<1>17. Leaving(c)' /\ Opened(c)'
  BY <1>8, HandleLeaving, HandleOpened DEF ConnInv
<1>18. (Sound(c) => Ordered(c))'
  <2>1. SUFFICES ASSUME Sound(c)'  PROVE Ordered(c)'
    OBVIOUS
  <2>2. Ordered(c)
    BY <2>1, <1>2, <1>8, SoundBefore DEF ConnInv
  <2>3. \A n \in DOMAIN s : n # 1 => s[n].ord # last
    <3>1. SUFFICES ASSUME NEW n \in DOMAIN s, n # 1  PROVE s[n].ord # last
      OBVIOUS
    <3>2. 1 < n
      BY <3>1, <1>6
    <3>3. s[1].ord < s[n].ord
      BY <3>2, <2>2, <1>6 DEF Ordered, Distinct, Sorted, s
    <3> QED
      BY <3>3, <1>4, <1>5, <1>6
  <2>4. InPending(c)' = InPending(c) \ {last} /\ last \in InPending(c)
    <3>1. InPending(c) = {s[n].ord : n \in DOMAIN s}
      BY DEF InPending, s
    <3>2. InPending(c)' = {Tail(s)[n].ord : n \in DOMAIN Tail(s)}
      BY <1>4 DEF InPending
    <3>3. \A n \in DOMAIN Tail(s) : Tail(s)[n].ord \in InPending(c) /\ Tail(s)[n].ord # last
      <4>1. SUFFICES ASSUME NEW n \in DOMAIN Tail(s)
                     PROVE  Tail(s)[n].ord \in InPending(c) /\ Tail(s)[n].ord # last
        OBVIOUS
      <4>2. n + 1 \in DOMAIN s /\ n + 1 # 1 /\ Tail(s)[n] = s[n + 1]
        BY <1>6
      <4> QED
        BY <4>2, <3>1, <2>3
    <3>4. \A n \in DOMAIN s : s[n].ord # last => s[n].ord \in InPending(c)'
      <4>1. SUFFICES ASSUME NEW n \in DOMAIN s, n # 1  PROVE s[n].ord \in InPending(c)'
        BY <1>4, <1>6
      <4>2. n - 1 \in DOMAIN Tail(s) /\ Tail(s)[n - 1] = s[n]
        BY <4>1, <1>6
      <4> QED
        BY <4>2, <3>2
    <3>5. InPending(c)' \subseteq InPending(c) \ {last}
      BY <3>2, <3>3
    <3>6. InPending(c) \ {last} \subseteq InPending(c)'
      BY <3>1, <3>4
    <3>7. last \in InPending(c)
      BY <3>1, <1>4, <1>6
    <3> QED
      BY <3>5, <3>6, <3>7
  <2>5. InRecvs(c)' = InRecvs(c)
    BY <1>4 DEF InRecvs
  <2>6. Distinct(c)'
    <3>1. Sorted(OutOfOrderSends[c])'
      <4>1. SUFFICES ASSUME NEW m \in DOMAIN Tail(s), NEW n \in DOMAIN Tail(s), m < n
                     PROVE  Tail(s)[m].ord < Tail(s)[n].ord
        BY <1>4 DEF Sorted
      <4>2. m + 1 \in DOMAIN s /\ n + 1 \in DOMAIN s /\ m + 1 < n + 1
        BY <4>1, <1>6
      <4>3. s[m + 1].ord < s[n + 1].ord
        BY <4>2, <2>2 DEF Ordered, Distinct, Sorted, s
      <4> QED
        BY <4>3, <1>6
    <3> QED
      BY <2>2, <3>1, <1>1, <1>4, <1>9 DEF Ordered, Distinct
  <2>7. Apart(c)'
    BY <2>2, <2>4, <2>5, <1>9 DEF Ordered, Apart
  <2>8. /\ InRecvs(c)' \cup InPort(c)' \cup InThreads(c)' \cup InPending(c)'
            = (last .. (IoCountIssued[c] - 1)) \ {last}
        /\ last \in last .. (IoCountIssued[c] - 1)
    BY <2>2, <2>4, <2>5, <1>9 DEF Ordered, Apart, last
  <2>9. (last .. (IoCountIssued[c] - 1)) \ {last} = (last + 1) .. (IoCountIssued[c] - 1)
    BY <1>5
  <2>10. last + 1 <= IoCountIssued[c]
    BY <2>8, <1>5
  <2> QED
    BY <2>6, <2>7, <2>8, <2>9, <2>10, <1>4 DEF Ordered
<1> QED
  BY <1>1, <1>15, <1>16, <1>17, <1>18, OpenedRest DEF ConnInv, EchoInv

\* A send that fails leaves the head of the list freed, and the socket closing.
LEMMA RefusedOwn ==
  ASSUME TypeOK, TypeOK', Shape, Shape', NEW w \in Threads, SendRefused(w), HandleIo(w),
         NEW c \in Conns, c = conn(w), ConnInv(c)
  PROVE  ConnInv(c)'
<1>1. UNCHANGED received /\ Busy(w) /\ pc \in [Threads -> Labels]
  BY Stays, Moves DEF clientVars, TypeOK
<1>2. pc[w] = "sends" /\ pc'[w] = "dec" /\ io[w].op # "accept"
  BY <1>1 DEF SendRefused, DoSendFails, At, Goto, Shape, SocketPcs
<1>3. sock(w) = c /\ c \in Objs
  BY <1>1, <1>2, OwnSocket
<1>4. /\ OutOfOrderSends[c] # <<>> /\ OutOfOrderSends[c] \in Seq(Pending)
      /\ OutOfOrderSends'[c] = [OutOfOrderSends[c] EXCEPT ![1].ord = Freed]
      /\ bClosing'[c] = 1 /\ UNCHANGED echoed
  BY <1>3 DEF SendRefused, DoSendFails, InOrder, PostSendFails, Kernels, SetClosing, TypeOK
<1>5. Stuck(c)'
  <2> DEFINE s == OutOfOrderSends[c]
  <2>1. 1 \in DOMAIN s /\ s[1] \in Pending /\ s \in [1 .. Len(s) -> Pending] /\ Len(s) \in Nat
    BY <1>4
  <2> HIDE DEF s
  <2>2. [s[1] EXCEPT !.ord = Freed] \in Pending /\ [s[1] EXCEPT !.ord = Freed].ord = Freed
    BY <2>1 DEF Pending, Freed
  <2>3. [s EXCEPT ![1].ord = Freed] = [s EXCEPT ![1] = [s[1] EXCEPT !.ord = Freed]]
    BY <2>1
  <2>4. /\ OutOfOrderSends'[c][1].ord = Freed /\ 1 \in DOMAIN OutOfOrderSends'[c]
    BY <2>1, <2>2, <2>3, <1>4 DEF s
  <2>5. OutOfOrderSends'[c] \in Seq(Pending)
    BY <1>3 DEF TypeOK
  <2>6. OutOfOrderSends'[c] # <<>> /\ Head(OutOfOrderSends'[c]) = OutOfOrderSends'[c][1]
    BY <2>4, <2>5
  <2> QED
    BY <2>4, <2>6 DEF Stuck
<1> QED
  BY <1>1, <1>2, <1>4, <1>5, ClosingOwn DEF ConnInv, EchoInv, IsPrefix1

\* A receive gets the next number.
LEMMA PostRecvOwn ==
  ASSUME TypeOK, TypeOK', Shape, Shape', NEW w \in Threads, ReceiveAgain(w) \/ FirstReceives(w),
         HandleIo(w), NEW c \in Conns, c = conn(w), ConnInv(c), PostRecv(c)
  PROVE  ConnInv(c)'
<1>1. /\ UNCHANGED <<client, received, port, io, gaps>> /\ Busy(w)
      /\ handle[c] = "closed" => handle'[c] = "closed"
  BY Stays, Moves, Onward DEF clientVars
<1>2. /\ pc[w] \in {"again", "receives"}
      /\ pc'[w] \in {"incRecv", "dec", "countRecv", "reaccept"}
  BY DEF ReceiveAgain, FirstReceives, At, Goto, TypeOK
<1>3. w \notin Entering(c) /\ ~Opens(w)' /\ ~Accepted(w)
  BY <1>2 DEF Entering, Opens, Accepted, At
<1> DEFINE k == IoCountIssued[c]
           s == recvs[c]
<1>4. /\ UNCHANGED <<echoed, LastSendIssued, OutOfOrderSends>> /\ handle[c] = "open"
      /\ recvs'[c] = Append(s, k) /\ IoCountIssued'[c] = k + 1
      /\ s \in Seq(Nat) /\ k \in Nat /\ Len(s) \in Nat /\ LastSendIssued[c] \in Nat
  BY Sockets DEF PostRecv, CountRecv, TypeOK
<1> HIDE DEF k, s
<1>5. /\ Len(recvs'[c]) = Len(s) + 1 /\ DOMAIN recvs'[c] = 1 .. Len(s) + 1
      /\ recvs'[c][Len(s) + 1] = k /\ DOMAIN s = 1 .. Len(s)
      /\ \A n \in DOMAIN s : n \in DOMAIN recvs'[c] /\ recvs'[c][n] = s[n]
      /\ \A n \in DOMAIN recvs'[c] : n \in DOMAIN s \/ n = Len(s) + 1
  BY <1>4
<1>6. /\ AtPort(c)' = AtPort(c) /\ Entering(c)' = Entering(c) /\ Data(c)' = Data(c)
      /\ InPort(c)' = InPort(c) /\ InThreads(c)' = InThreads(c)
  BY <1>3, <1>4, Unmoved
<1>7. Flows(c) => Flows(c)'
  <2>1. SUFFICES ASSUME Flows(c)  PROVE Flows(c)'
    OBVIOUS
  <2>2. Over(c) => Over(c)'
    BY <1>1 DEF Over
  <2>3. NoHole(c) => NoHole(c)'
    <3>1. SUFFICES ASSUME NoHole(c), ~Over(c), client[c] = "open"  PROVE NoHole(c)'
      BY <1>1, <1>6, <2>2 DEF NoHole
    <3>2. /\ \A n \in DOMAIN s : s[n] = received[c] + n - 1
          /\ k = received[c] + Len(s) /\ received[c] \in Nat
      BY <3>1 DEF NoHole, k, s, TypeOK
    <3>3. \A n \in DOMAIN recvs'[c] : recvs'[c][n] = received[c] + n - 1
      <4>1. k = received[c] + (Len(s) + 1) - 1
        BY <3>2, <1>4
      <4> QED
        BY <3>2, <4>1, <1>5
    <3>4. IoCountIssued'[c] = received[c] + Len(recvs'[c])
      <4>1. Len(recvs'[c]) = Len(s) + 1 /\ IoCountIssued'[c] = k + 1
        BY <1>4, <1>5
      <4>2. k = received[c] + Len(s) /\ received[c] \in Nat /\ Len(s) \in Nat
        BY <3>2, <1>4
      <4> QED
        BY <4>1, <4>2
    <3> QED
      BY <3>1, <3>3, <3>4, <1>1, <1>6 DEF NoHole
  <2>4. Hole(c) => Hole(c)'
    <3>1. SUFFICES ASSUME Hole(c)  PROVE Hole(c)'
      OBVIOUS
    <3>2. PICK g \in LastSendIssued[c] .. (k - 1) :
            /\ \A n \in DOMAIN s : s[n] > g
            /\ \A x \in Data(c) : x.ord # g /\ (x.ord < g => x.unit = x.ord + 1)
      BY <3>1 DEF Hole, k, s
    <3>3. k > g /\ g \in LastSendIssued'[c] .. (IoCountIssued'[c] - 1)
      BY <3>2, <1>4
    <3>4. \A n \in DOMAIN recvs'[c] : recvs'[c][n] > g
      BY <3>2, <3>3, <1>5
    <3> QED
      BY <3>2, <3>3, <3>4, <1>6 DEF Hole
  <2> QED
    BY <2>1, <2>2, <2>3, <2>4, <1>1, <1>4, <1>6 DEF Flows, Dead
<1>8. Leaving(c)' /\ Opened(c)'
  BY <1>3, HandleLeaving, HandleOpened DEF ConnInv
<1>9. EchoInv(c)'
  BY <1>1, <1>4, <1>7, <1>8, OpenedRest DEF ConnInv, EchoInv, Stuck, IsPrefix1
<1>10. (Sound(c) => Ordered(c))'
  <2>1. SUFFICES ASSUME Sound(c)'  PROVE Ordered(c)'
    OBVIOUS
  <2>2. Ordered(c)
    BY <2>1, <1>2, <1>3, SoundBefore DEF ConnInv
  <2>3. InRecvs(c)' = InRecvs(c) \cup {k}
    <3>1. InRecvs(c) = {s[n] : n \in DOMAIN s} /\ InRecvs(c)' = {recvs'[c][n] : n \in DOMAIN recvs'[c]}
      BY DEF InRecvs, Range, s
    <3>2. Len(s) + 1 \in DOMAIN recvs'[c]
      BY <1>4, <1>5
    <3> QED
      BY <3>1, <3>2, <1>5
  <2>4. k \notin InRecvs(c) \cup InPort(c) \cup InThreads(c) \cup InPending(c)
    <3>1. k \notin LastSendIssued[c] .. (k - 1)
      BY <1>4
    <3> QED
      BY <3>1, <2>2 DEF Ordered, k
  <2>5. InPending(c)' = InPending(c)
    BY <1>4 DEF InPending
  <2>6. Distinct(c)'
    <3>1. \A n \in DOMAIN s : s[n] # k
      BY <2>4 DEF InRecvs, Range, s
    <3>2. \A m, n \in DOMAIN recvs'[c] : recvs'[c][m] = recvs'[c][n] => m = n
      BY <2>2, <3>1, <1>5 DEF Ordered, Distinct, s
    <3> QED
      BY <2>2, <3>2, <1>1, <1>4, <1>6 DEF Ordered, Distinct, Sorted
  <2>7. Apart(c)'
    BY <2>2, <2>3, <2>4, <2>5, <1>6 DEF Ordered, Apart
  <2>8. LastSendIssued[c] <= k
    BY <2>2 DEF Ordered, k
  <2>9. (LastSendIssued[c] .. (k - 1)) \cup {k} = LastSendIssued[c] .. ((k + 1) - 1)
    BY <2>8, <1>4
  <2>10. InRecvs(c)' \cup InPort(c)' \cup InThreads(c)' \cup InPending(c)'
           = (LastSendIssued[c] .. (k - 1)) \cup {k}
    BY <2>2, <2>3, <2>5, <1>6 DEF Ordered, k
  <2>11. LastSendIssued[c] <= k + 1
    BY <2>8, <1>4
  <2> QED
    BY <2>6, <2>7, <2>9, <2>10, <2>11, <1>4 DEF Ordered
<1> QED
  BY <1>8, <1>9, <1>10, OpenedRest DEF ConnInv

\* The number of a receive that fails is lost, on a connection that is gone.
LEMMA PostRecvFailsOwn ==
  ASSUME TypeOK, TypeOK', Shape, Shape', NEW w \in Threads, ReceiveAgain(w) \/ FirstReceives(w),
         HandleIo(w), NEW c \in Conns, c = conn(w), ConnInv(c), PostRecvFails(c)
  PROVE  ConnInv(c)'
<1>1. /\ UNCHANGED <<client, received, port, io, gaps>> /\ Busy(w)
      /\ handle[c] = "closed" => handle'[c] = "closed"
  BY Stays, Moves, Onward DEF clientVars
<1>2. /\ pc[w] \in {"again", "receives"}
      /\ pc'[w] \in {"incRecv", "dec", "countRecv", "reaccept"}
  BY DEF ReceiveAgain, FirstReceives, At, Goto, TypeOK
<1>3. w \notin Entering(c)
  BY <1>2 DEF Entering, At
<1>4. /\ UNCHANGED <<echoed, LastSendIssued, OutOfOrderSends, recvs>> /\ Gone(c)
      /\ IoCountIssued'[c] = IoCountIssued[c] + 1
      /\ IoCountIssued[c] \in Nat /\ LastSendIssued[c] \in Nat
  BY Sockets DEF PostRecvFails, CountRecv, TypeOK
<1>5. Data(c)' = Data(c)
  BY <1>3, <1>4, Unmoved
<1>6. Flows(c) => Flows(c)'
  <2>1. SUFFICES ASSUME Flows(c)  PROVE Flows(c)'
    OBVIOUS
  <2>2. Over(c) /\ Over(c)'
    BY <1>1, <1>4 DEF Over, Gone
  <2>3. NoHole(c) => NoHole(c)'
    BY <1>5, <2>2 DEF NoHole
  <2>4. LastSendIssued[c] .. (IoCountIssued[c] - 1) \subseteq (LastSendIssued[c] .. (IoCountIssued[c] - 1))'
    BY <1>4
  <2>5. Hole(c) => Hole(c)'
    BY <1>4, <1>5, <2>4 DEF Hole
  <2> QED
    BY <2>1, <2>2, <2>3, <2>5, <1>1, <1>4, <1>5 DEF Flows, Dead
<1>7. (Stuck(c) \/ Flows(c))' /\ IsPrefix1(echoed[c], received[c])'
  BY <1>1, <1>4, <1>6 DEF ConnInv, EchoInv, Stuck, IsPrefix1
<1> QED
  BY <1>2, <1>4, <1>7, ClosingOwn

\* The data of the accept is the first unit, and the first receive is number 1.
LEMMA FirstSendOwn ==
  ASSUME TypeOK, TypeOK', Shape, Shape', NEW w \in Threads, FirstSend(w), HandleIo(w),
         NEW c \in Conns, c = conn(w), ConnInv(c)
  PROVE  ConnInv(c)'
<1>1. /\ UNCHANGED <<client, received, port, io, gaps>> /\ Busy(w)
      /\ \A v \in Threads \ {w} : pc'[v] = pc[v]
  BY Stays, Moves DEF clientVars
<1>2. /\ pc[w] = "firstSend" /\ pc'[w] \in {"countSend", "reaccept"}
      /\ UNCHANGED <<IoCountIssued, OutOfOrderSends, recvs, handle>> /\ LastSendIssued'[c] = LastSendIssued[c] + 1
  BY Sockets DEF FirstSend, PostSend, PostSendFails, CountSend, At, Goto, TypeOK, Kernels, lifeVars
<1>3. Opens(w) /\ io[w].conn = c
  BY <1>2 DEF Opens, conn
<1>4. Quiet(c) /\ NoItem(c) /\ \A v \in Threads : Busy(v) /\ io[v].conn = c => v = w
  BY <1>3 DEF ConnInv, Phases
<1>5. io[w].op = "accept" /\ FirstData(io[w]) /\ io[w].unit \in Nat
  BY <1>1, <1>2, <1>3, OwnSocket DEF ConnInv, EchoInv, conn, Shape, AcceptPcs
<1>6. /\ recvs'[c] = <<>> /\ OutOfOrderSends'[c] = <<>> /\ LastSendIssued'[c] = 1
      /\ IoCountIssued'[c] = 1
  BY <1>2, <1>4 DEF Quiet
<1>7. AtPort(c)' = {} /\ Entering(c)' = {}
  <2>1. AtPort(c)' = {}
    BY <1>1, <1>4 DEF AtPort, NoItem
  <2>2. Entering(c)' = {}
    BY <1>1, <1>2, <1>4 DEF Entering, At, Busy, conn
  <2> QED
    BY <2>1, <2>2
<1>8. Data(c)' = {} /\ InRecvs(c)' = {} /\ InPending(c)' = {} /\ InPort(c)' = {} /\ InThreads(c)' = {}
  <2>1. Range(<<>>) = {}
    BY DEF Range
  <2> QED
    BY <2>1, <1>6, <1>7 DEF Data, InRecvs, InPending, InPort, InThreads
<1>9. ~Opens(w)'
  BY <1>2 DEF Opens
<1>10. Leaving(c)' /\ Opened(c)'
  BY <1>9, HandleLeaving, HandleOpened DEF ConnInv
<1>11. client[c] \in {"open", "fin", "reset"} /\ received[c] \in Nat
  BY <1>10, <1>1 DEF Opened, TypeOK
<1>12. NoHole(c)'
  <2>1. client[c] = "open" => received[c] = 1
    BY <1>3, <1>5 DEF FirstData
  <2>2. Len(<<>>) = 0 /\ DOMAIN <<>> = {}
    OBVIOUS
  <2> QED
    BY <2>1, <2>2, <1>1, <1>6, <1>8 DEF NoHole
<1>13. IsPrefix1(echoed[c], received[c])' /\ Flows(c)'
  <2>1. CASE PostSend(c, io[w].unit) /\ io[w].unit > 0
    <3>1. io[w].unit = 1 /\ 1 <= received[c]
      BY <2>1, <1>3, <1>5, <1>11 DEF FirstData
    <3>2. echoed'[c] = Append(<<>>, 1)
      BY <2>1, <3>1, <1>4 DEF PostSend, Quiet, TypeOK
    <3>3. Len(echoed'[c]) = 1 /\ \A k \in DOMAIN echoed'[c] : echoed'[c][k] = k
      BY <3>2
    <3> QED
      BY <3>1, <3>3, <1>1, <1>6, <1>8, <1>12 DEF IsPrefix1, Flows
  <2>2. CASE PostSend(c, io[w].unit) /\ io[w].unit = 0
    <3>1. echoed'[c] = <<>> /\ Over(c)'
      BY <2>2, <1>1, <1>3, <1>4, <1>5 DEF PostSend, Quiet, TypeOK, FirstData, Over
    <3> QED
      BY <3>1, <1>1, <1>8, <1>11, <1>12 DEF IsPrefix1, Flows, Dead
  <2>3. CASE PostSendFails(c)
    <3>1. echoed'[c] = <<>> /\ Over(c)'
      BY <2>3, <1>1, <1>2, <1>4 DEF PostSendFails, Quiet, Over, Gone, Kernels
    <3> QED
      BY <3>1, <1>1, <1>8, <1>11, <1>12 DEF IsPrefix1, Flows, Dead
  <2> QED
    BY <2>1, <2>2, <2>3, <1>5 DEF FirstSend
<1>14. Ordered(c)'
  <2>1. 1 .. (1 - 1) = {}
    OBVIOUS
  <2>2. DOMAIN <<>> = {}
    OBVIOUS
  <2> QED
    BY <2>1, <2>2, <1>6, <1>7, <1>8 DEF Ordered, Distinct, Apart, Sorted
<1> QED
  BY <1>10, <1>13, <1>14, OpenedRest DEF ConnInv, EchoInv

LEMMA HandleOwn ==
  ASSUME TypeOK, TypeOK', Shape, Shape', NEW w \in Threads, HandleIo(w), NEW c \in Conns, c = conn(w),
         ConnInv(c)
  PROVE  ConnInv(c)'
<1>1. CASE Dispatch(w)
  BY <1>1, DispatchCloses, DispatchInserts
<1>2. CASE Sends(w)
  <2>1. DoSend(w) \/ SendRefused(w) \/ NoneInOrder(w)
    BY <1>2, SendsCases
  <2>2. NoneInOrder(w) => Plain(w)
    BY DEF Plain
  <2> QED
    BY <2>1, <2>2, DoSendOwn, RefusedOwn, PlainOwn
<1>3. CASE ReceiveAgain(w)
  <2>1. sock(w) = c
    <3>1. Busy(w) /\ pc[w] = "again"
      BY <1>3, Moves DEF ReceiveAgain, At
    <3> QED
      BY <3>1, OwnSocket DEF Shape, SocketPcs
  <2>2. PostRecv(c) \/ PostRecvFails(c)
    BY <1>3, <2>1 DEF ReceiveAgain
  <2> QED
    BY <1>3, <2>2, PostRecvOwn, PostRecvFailsOwn
<1>4. CASE FirstReceives(w)
  <2>1. PostRecv(c) \/ PostRecvFails(c) \/ UNCHANGED <<Kernels, orderVars>>
    BY <1>4 DEF FirstReceives
  <2> QED
    BY <1>4, <2>1, PostRecvOwn, PostRecvFailsOwn, PlainOwn DEF Plain
<1>5. CASE Accepted(w) \/ FirstSend(w) \/ UseAfterFree(w)
  BY <1>5, AcceptedOwn, FirstSendOwn, UseAfterFreeOwn
<1>6. CASE ~(Dispatch(w) \/ Sends(w) \/ ReceiveAgain(w) \/ FirstReceives(w) \/ Accepted(w)
             \/ FirstSend(w) \/ UseAfterFree(w))
  <2>1. Plain(w)
    BY <1>6 DEF HandleIo, AcceptPath, Plain
  <2> QED
    BY <2>1, PlainOwn
<1> QED
  BY <1>1, <1>2, <1>3, <1>4, <1>5, <1>6

LEMMA HandleStep ==
  ASSUME TypeOK, TypeOK', Shape, Shape', NEW w \in Threads, HandleIo(w), NEW c \in Conns, ConnInv(c)
  PROVE  ConnInv(c)'
<1>1. CASE c = conn(w)
  BY <1>1, HandleOwn
<1>2. CASE c # conn(w)
  <2>1. /\ UNCHANGED <<gProtocol, port, io, gaps>> /\ gaps' \in 0 .. 1
        /\ Busy(w) /\ \A v \in Threads \ {w} : pc'[v] = pc[v] /\ failed'[v] = failed[v]
    BY Stays, Moves DEF clientVars, TypeOK
  <2>2. Same(c) /\ (leaked' = NULL => leaked = NULL)
    BY <1>2, Local
  <2>3. SameItems(c, 0)
    <3>0. port \in Seq(Item)
      BY DEF TypeOK
    <3>1. \A n \in DOMAIN port : n - 0 = n /\ n + 0 = n
      BY <3>0, Places
    <3> QED
      BY <2>1, <3>1 DEF SameItems
  <2>4. SameThreads(c)
    BY <1>2, <2>1 DEF SameThreads, Busy, conn
  <2>5. SameWorld
    BY <2>1, <2>2 DEF SameWorld
  <2> QED
    BY <2>2, <2>3, <2>4, <2>5, OtherConn
<1> QED
  BY <1>1, <1>2
-----------------------------------------------------------------------------
(* The theorems. *)

LEMMA InvInit == Init => Inv
<1> SUFFICES ASSUME Init  PROVE Inv
  OBVIOUS
<1>1. TypeOK /\ Shape
  BY TypeInit, ShapeInit
<1>2. SUFFICES ASSUME NEW c \in Conns  PROVE ConnInv(c)
  BY <1>1 DEF Inv
<1>3. /\ port = <<>> /\ DOMAIN port = {} /\ \A w \in Threads : pc[w] = "wait"
      /\ OutOfOrderSends[c] = <<>> /\ sends[c] = <<>> /\ echoed[c] = <<>> /\ received[c] = 0
      /\ LastSendIssued[c] = 0 /\ handle[c] = "open"
      /\ Range(<<>>) = {} /\ DOMAIN <<>> = {} /\ Len(<<>>) = 0
  BY Sockets DEF Init, Range
<1>4. /\ ~Udp => recvs[c] = <<>> /\ client[c] = "none" /\ IoCountIssued[c] = 1
      /\ Udp => client[c] = "open" /\ IoCountIssued[c] = gOverlappedCount
      /\ Udp => recvs[c] = [n \in 1 .. gOverlappedCount |-> n - 1]
  BY Sockets DEF Init
<1>5. ~Udp => mem[c] = "heap"
  <2>1. Tcp \/ Udp
    BY ConstAssumption DEF Init, Tcp, Udp
  <2> QED
    BY <2>1, Sockets DEF Init
<1>6. Leaving(c) /\ Phases(c)
  BY <1>3, <1>4, <1>5 DEF Leaving, Phases, Quiet, NoItem, NoThread, Busy, Opens
<1>7. AtPort(c) = {} /\ Entering(c) = {}
  BY <1>3 DEF AtPort, Entering, At
<1>8. Data(c) = {} /\ InPort(c) = {} /\ InThreads(c) = {} /\ InPending(c) = {}
  BY <1>3, <1>7 DEF Data, InPort, InThreads, InPending
<1>9. Udp => /\ Len(recvs[c]) = gOverlappedCount /\ DOMAIN recvs[c] = 1 .. gOverlappedCount
             /\ \A n \in DOMAIN recvs[c] : recvs[c][n] = n - 1
  BY <1>4, ConstAssumption
<1>10. EchoInv(c)
  <2>1. NoHole(c)
    <3>1. Udp => IoCountIssued[c] = received[c] + Len(recvs[c])
      BY <1>3, <1>4, <1>9, ConstAssumption
    <3>2. Udp => \A n \in DOMAIN recvs[c] : recvs[c][n] = received[c] + n - 1
      BY <1>3, <1>9, ConstAssumption
    <3> QED
      BY <3>1, <3>2, <1>4, <1>8 DEF NoHole
  <2> QED
    BY <2>1, <1>3, <1>8 DEF EchoInv, IsPrefix1, Flows, Opens
<1>11. Sound(c) => Ordered(c)
  <2>1. SUFFICES ASSUME Udp  PROVE Ordered(c)
    BY <1>5 DEF Sound, Live
  <2>2. InRecvs(c) = 0 .. gOverlappedCount - 1
    <3>1. InRecvs(c) = {recvs[c][n] : n \in DOMAIN recvs[c]}
      BY DEF InRecvs, Range
    <3>2. InRecvs(c) = {n - 1 : n \in 1 .. gOverlappedCount}
      BY <2>1, <3>1, <1>9
    <3>3. \A k \in 0 .. gOverlappedCount - 1 : k + 1 \in 1 .. gOverlappedCount /\ k = (k + 1) - 1
      BY ConstAssumption
    <3>4. \A n \in 1 .. gOverlappedCount : n - 1 \in 0 .. gOverlappedCount - 1
      BY ConstAssumption
    <3>5. 0 .. gOverlappedCount - 1 \subseteq {n - 1 : n \in 1 .. gOverlappedCount}
      BY <3>3
    <3> QED
      BY <3>2, <3>4, <3>5
  <2>3. Distinct(c)
    <3>1. \A m, n \in DOMAIN recvs[c] : recvs[c][m] = recvs[c][n] => m = n
      BY <2>1, <1>9, ConstAssumption
    <3> QED
      BY <3>1, <1>3, <1>7 DEF Distinct, Sorted
  <2>4. Apart(c)
    BY <1>8 DEF Apart
  <2>5. 0 <= gOverlappedCount
    BY ConstAssumption
  <2> QED
    BY <2>1, <2>2, <2>3, <2>4, <2>5, <1>3, <1>4, <1>8 DEF Ordered
<1> QED
  BY <1>6, <1>10, <1>11 DEF ConnInv

LEMMA InvNext == Inv /\ [Next]_vars => Inv'
<1> SUFFICES ASSUME Inv, [Next]_vars  PROVE Inv'
  OBVIOUS
<1> USE DEF Inv
<1>1. ASSUME NEW d \in Conns, Shutdown(d) \/ Reset(d) \/ Kernel(d)  PROVE Inv'
  <2>1. TypeOK'
    BY <1>1, TypeKernel
  <2>2. Shape'
    BY <1>1, ShapeKernel
  <2>3. \A c \in Conns : ConnInv(c)'
    BY <1>1, <2>1, KernelStep
  <2> QED
    BY <2>1, <2>2, <2>3
<1>2. ASSUME NEW w \in Threads, Take(w) \/ HandleIo(w)  PROVE Inv'
  <2>1. TypeOK'
    BY <1>2, TypeThread
  <2>2. Shape'
    BY <1>2, <2>1, ShapeThread
  <2>3. \A c \in Conns : ConnInv(c)'
    BY <1>2, <2>1, <2>2, TakeStep, HandleStep
  <2> QED
    BY <2>1, <2>2, <2>3
<1>3. CASE Sweep \/ UNCHANGED vars
  <2>1. /\ UNCHANGED <<gProtocol, client, received, recvs, sends, port, echoed, IoCountIssued,
                       LastSendIssued, OutOfOrderSends, mem, handle, bClosing, pc, io, failed,
                       leaked, gaps>>
    BY <1>3 DEF Sweep, vars, clientVars, kernelVars, orderVars, lifeVars, threadVars, history
  <2>2. TypeOK' /\ Shape'
    BY <2>1 DEF TypeOK, Shape, Busy, WellFormed
  <2>3. ASSUME NEW c \in Conns  PROVE ConnInv(c)'
    <3>0. port \in Seq(Item)
      BY DEF TypeOK
    <3>1. \A n \in DOMAIN port : n - 0 = n /\ n + 0 = n
      BY <3>0, Places
    <3>2. Same(c) /\ SameItems(c, 0) /\ SameThreads(c) /\ SameWorld
      BY <2>1, <3>1 DEF Same, SameItems, SameThreads, SameWorld, Busy, conn, TypeOK
    <3> QED
      BY <2>2, <3>2, OtherConn
  <2> QED
    BY <2>2, <2>3
<1> QED
  BY <1>1, <1>2, <1>3 DEF Next

\* The inductive invariant holds for every value of the constants.
THEOREM Invariance == Spec => []Inv
BY InvInit, InvNext, PTL DEF Spec

\* Types: in particular what the port holds is an operation on a socket of
\* its connection, or an accept on the listener.
THEOREM TypeCorrect == Spec => [](TypeOK /\ Shape)
<1>1. Inv => TypeOK /\ Shape
  BY DEF Inv
<1> QED
  BY <1>1, Invariance, PTL

\* With any number of completion threads the IoOrders between LastSendIssued
\* and IoCountIssued are each on one receive or buffer, and the pending list
\* is sorted, so the buffer DoSends (644) waits for exists.
THEOREM OrdersStayContiguous == Spec => []OrdersContiguous
<1>1. Inv => OrdersContiguous
  <2>1. SUFFICES ASSUME Inv, NEW c \in Conns, Receiving(c)
                 PROVE  /\ InPlay(c) = LastSendIssued[c] .. (IoCountIssued[c] - 1)
                        /\ \A m, n \in DOMAIN OutOfOrderSends[c] :
                             m < n => OutOfOrderSends[c][m].ord < OutOfOrderSends[c][n].ord
    BY DEF OrdersContiguous
  <2>2. Sound(c)
    BY <2>1 DEF Receiving, Sound, AtPort, Entering
  <2>3. Ordered(c)
    BY <2>1, <2>2 DEF Inv, ConnInv
  <2>4. InPlay(c) = InRecvs(c) \cup InPort(c) \cup InThreads(c) \cup InPending(c)
    BY DEF InPlay, InRecvs, InPort, AtPort, InThreads, Entering, InPending
  <2> QED
    BY <2>3, <2>4 DEF Ordered, Distinct, Sorted
<1> QED
  BY <1>1, Invariance, PTL

\* "Once data is received on a client socket, it is echoed back": whatever
\* order the completions are handled in, and whatever fails, what has been
\* echoed to a client is what it sent, in order and without a gap or a repeat.
THEOREM EchoedInOrder ==
  Spec => [](\A c \in Conns : /\ Len(echoed[c]) <= received[c]
                              /\ \A k \in DOMAIN echoed[c] : echoed[c][k] = k)
<1>1. Inv => \A c \in Conns : /\ Len(echoed[c]) <= received[c]
                              /\ \A k \in DOMAIN echoed[c] : echoed[c][k] = k
  BY DEF Inv, ConnInv, EchoInv, IsPrefix1
<1> QED
  BY <1>1, Invariance, PTL
-----------------------------------------------------------------------------
(* The promise of Echo, step by step, but for the steps that close a       *)
(* socket: IocpEchoLifeProofs has those.                                   *)

Broken(c) == client[c] = "reset" \/ c \in miscounted

\* WSASend is given one unit, on a socket that is open.
SendsUnit(c) ==
  handle[c] = "open" /\ \E u \in Nat : echoed' = [echoed EXCEPT ![c] = Append(@, u)]

LEMMA HandleEchoes ==
  ASSUME TypeOK, Shape, NEW w \in Threads, HandleIo(w)
  PROVE  UNCHANGED echoed \/ \E c \in Conns : SendsUnit(c)
<1>0. Busy(w)
  BY Moves
<1>1. ASSUME NEW c \in Conns, NEW u \in Nat, PostSend(c, u)
      PROVE  UNCHANGED echoed \/ SendsUnit(c)
  <2>1. CASE u > 0
    BY <1>1, <2>1 DEF PostSend, SendsUnit
  <2>2. CASE ~(u > 0)
    BY <1>1, <2>2 DEF PostSend, TypeOK
  <2> QED
    BY <2>1, <2>2
<1> USE DEF Kernels
<1>2. CASE Sends(w)
  <2>1. CASE DoSend(w)
    <3>1. sock(w) \in Conns /\ sock(w) \in Objs
      BY <1>0, <2>1, OwnSocket DEF DoSend, At, Shape, SocketPcs
    <3>2. Head(OutOfOrderSends[sock(w)]).unit \in Nat
      <4>1. OutOfOrderSends[sock(w)] \in Seq(Pending) /\ OutOfOrderSends[sock(w)] # <<>>
        BY <2>1, <3>1 DEF DoSend, InOrder, TypeOK
      <4>2. Head(OutOfOrderSends[sock(w)]) \in Pending
        BY <4>1, TailOf
      <4> QED
        BY <4>2 DEF Pending
    <3> QED
      BY <2>1, <3>1, <3>2, <1>1 DEF DoSend
  <2>2. CASE SendRefused(w) \/ NoneInOrder(w)
    BY <2>2 DEF SendRefused, DoSendFails, PostSendFails, NoneInOrder
  <2> QED
    BY <1>2, <2>1, <2>2, SendsCases
<1>3. CASE FirstSend(w)
  <2>1. conn(w) \in Conns /\ io[w].unit \in Nat
    BY <1>0, OwnSocket
  <2> QED
    BY <1>1, <1>3, <2>1 DEF FirstSend, PostSendFails
<1>4. CASE ErrorPath(w) \/ Dispatch(w) \/ SendCompleted(w)
  BY <1>4 DEF ErrorPath, Dispatch, SendCompleted
<1>5. CASE ReceiveAgain(w) \/ FirstReceives(w)
  BY <1>5 DEF ReceiveAgain, FirstReceives, PostRecv, PostRecvFails, CountRecv
<1>6. CASE CountPost(w) \/ CountOff(w) \/ TailSends(w) \/ CloseSocket(w) \/ Free(w)
  BY <1>6 DEF CountPost, CountOff, TailSends, CloseSocket, Free
<1>7. CASE Accepted(w) \/ PostAccept(w) \/ CountAccept(w) \/ CheckAccepted(w)
  BY <1>7 DEF Accepted, PostAccept, CountAccept, CheckAccepted
<1>8. CASE UseAfterFree(w)
  BY <1>8 DEF UseAfterFree, kernelVars
<1> QED
  BY <1>2, <1>3, <1>4, <1>5, <1>6, <1>7, <1>8 DEF HandleIo, AcceptPath

\* The unit is the next one, so it is a Send of Echo.
LEMMA UnitIsNext ==
  ASSUME Inv, Inv', NEW c \in Conns, SendsUnit(c),
         UNCHANGED <<client, received, handle, miscounted>>
  PROVE  Echoes!Step
<1>1. /\ echoed \in [Conns -> Seq(Nat)] /\ received \in [Conns -> Nat] /\ handle[c] = "open"
  BY DEF Inv, TypeOK, SendsUnit
<1>2. PICK u \in Nat : echoed' = [echoed EXCEPT ![c] = Append(@, u)]
  BY DEF SendsUnit
<1> DEFINE s == echoed[c]
           n == Len(s) + 1
<1>3. /\ s \in Seq(Nat) /\ Len(s) \in Nat /\ echoed'[c] = Append(s, u)
      /\ Len(Append(s, u)) = n /\ Append(s, u)[n] = u /\ n \in DOMAIN Append(s, u)
  BY <1>1, <1>2
<1>4. IsPrefix1(echoed'[c], received[c])
  BY DEF Inv, ConnInv, EchoInv, IsPrefix1
<1>5. n <= received[c] /\ u = n /\ received[c] \in Nat
  BY <1>1, <1>3, <1>4 DEF IsPrefix1
<1>6. [i_ \in 1 .. (n - Len(s)) |-> Len(s) + i_] = <<n>>
  <2>1. n - Len(s) = 1 /\ 1 .. 1 = {1}
    BY <1>3
  <2> QED
    BY <2>1
<1>7. Append(s, u) = s \o <<n>>
  <2>1. ASSUME NEW t \in Seq(Nat), NEW e \in Nat  PROVE Append(t, e) = t \o <<e>>
    OBVIOUS
  <2> QED
    BY <2>1, <1>3, <1>5
<1>8. /\ echoed' = [echoed EXCEPT ![c] = s \o [i_ \in 1 .. (n - Len(s)) |-> Len(s) + i_]]
      /\ n \in (Len(s) + 1) .. received[c]
  <2>1. n \in (Len(s) + 1) .. received[c]
    BY <1>3, <1>5
  <2>2. Append(s, u) = s \o [i_ \in 1 .. (n - Len(s)) |-> Len(s) + i_]
    BY <1>6, <1>7
  <2>3. echoed' = [echoed EXCEPT ![c] = Append(s, u)]
    BY <1>2
  <2> HIDE DEF s, n
  <2> QED
    BY <2>1, <2>2, <2>3
<1>9. Echoes!Send(c)
  BY <1>1, <1>8 DEF Echoes!Send
<1> QED
  BY <1>9 DEF Echoes!Step

\* Only the count of a completion miscounts.
LEMMA CountsApart ==
  ASSUME NEW w \in Threads, HandleIo(w), ~CountOff(w)
  PROVE  UNCHANGED miscounted
<1> USE DEF Rest
<1>1. CASE Sends(w)
  BY <1>1, SendsCases DEF DoSend, SendRefused, DoSendFails, NoneInOrder
<1>2. CASE ErrorPath(w) \/ Dispatch(w) \/ SendCompleted(w)
  BY <1>2 DEF ErrorPath, Dispatch, SendCompleted
<1>3. CASE ReceiveAgain(w) \/ FirstReceives(w) \/ FirstSend(w)
  BY <1>3 DEF ReceiveAgain, FirstReceives, FirstSend
<1>4. CASE CountPost(w) \/ TailSends(w) \/ CloseSocket(w) \/ Free(w)
  BY <1>4 DEF CountPost, TailSends, CloseSocket, Free
<1>5. CASE Accepted(w) \/ PostAccept(w) \/ CountAccept(w) \/ CheckAccepted(w)
  BY <1>5 DEF Accepted, PostAccept, CountAccept, CheckAccepted
<1>6. CASE UseAfterFree(w)
  BY <1>6 DEF UseAfterFree
<1> QED
  BY <1>1, <1>2, <1>3, <1>4, <1>5, <1>6 DEF HandleIo, AcceptPath

LEMMA EchoStep ==
  Inv /\ Inv' /\ [Next]_vars => (UNCHANGED handle => Echoes!Step \/ UNCHANGED Echoes!vars)
<1> SUFFICES ASSUME Inv, Inv', [Next]_vars, UNCHANGED handle
             PROVE  Echoes!Step \/ UNCHANGED Echoes!vars
  OBVIOUS
<1>0. /\ client \in [Conns -> {"none", "open", "fin", "reset"}] /\ received \in [Conns -> Nat]
  BY DEF Inv, TypeOK
<1>1. ASSUME UNCHANGED <<client, received, echoed, miscounted>>  PROVE UNCHANGED Echoes!vars
  BY <1>1 DEF Echoes!vars
<1>2. ASSUME NEW c \in Conns, UNCHANGED <<received, echoed>>,
             \A d \in Conns : Broken(d)' <=> Broken(d) \/ d = c
      PROVE  Echoes!Step \/ UNCHANGED Echoes!vars
  <2> DEFINE broken == [d \in Conns |-> client[d] = "reset" \/ d \in miscounted]
  <2>0. UNCHANGED [d \in Conns |-> handle[d] = "open"]
    OBVIOUS
  <2>1. ASSUME NEW d \in Conns  PROVE broken[d]' = Broken(d)'
    BY DEF Broken
  <2>2. CASE Broken(c)
    <3>1. \A d \in Conns : (client'[d] = "reset" \/ d \in miscounted')
                             = (client[d] = "reset" \/ d \in miscounted)
      BY <1>2, <2>2 DEF Broken
    <3>2. UNCHANGED broken
      BY <3>1, Zenon
    <3> QED
      BY <1>2, <2>0, <3>2 DEF Echoes!vars
  <2>3. CASE ~Broken(c)
    <3>1. ~broken[c]
      BY <2>3 DEF Broken
    <3>2. ASSUME NEW d \in Conns
          PROVE  (client'[d] = "reset" \/ d \in miscounted') = [broken EXCEPT ![c] = TRUE][d]
      <4>1. CASE d = c
        <5>1. [broken EXCEPT ![c] = TRUE][d] = TRUE
          BY <4>1
        <5>2. client'[d] = "reset" \/ d \in miscounted'
          BY <1>2, <4>1 DEF Broken
        <5> QED
          BY <5>1, <5>2
      <4>2. CASE d # c
        <5>1. [broken EXCEPT ![c] = TRUE][d] = (client[d] = "reset" \/ d \in miscounted)
          BY <4>2
        <5>2. (client'[d] = "reset" \/ d \in miscounted') <=> (client[d] = "reset" \/ d \in miscounted)
          BY <1>2, <4>2 DEF Broken
        <5> QED
          BY <5>1, <5>2
      <4> QED
        BY <4>1, <4>2
    <3>3. [broken EXCEPT ![c] = TRUE] = [d \in Conns |-> [broken EXCEPT ![c] = TRUE][d]]
      OBVIOUS
    <3>4. broken' = [broken EXCEPT ![c] = TRUE]
      BY <3>2, <3>3, Zenon
    <3> QED
      BY <1>2, <2>0, <3>1, <3>4 DEF Echoes!Step, Echoes!Break
  <2> QED
    BY <2>2, <2>3
<1>3. ASSUME NEW c \in Conns, handle[c] = "open", NEW n \in Nat, n > received[c],
             received' = [received EXCEPT ![c] = n], UNCHANGED echoed,
             \A d \in Conns : Broken(d)' <=> Broken(d)
      PROVE  Echoes!Step
  <2>1. received'[c] = n
    BY <1>0, <1>3
  <2>2. /\ UNCHANGED [d \in Conns |-> handle[d] = "open"]
        /\ UNCHANGED [d \in Conns |-> client[d] = "reset" \/ d \in miscounted]
    <3>1. \A d \in Conns : (client'[d] = "reset" \/ d \in miscounted')
                             = (client[d] = "reset" \/ d \in miscounted)
      BY <1>3 DEF Broken
    <3> QED
      BY <3>1, Zenon
  <2> QED
    BY <1>3, <2>1, <2>2 DEF Echoes!Step, Echoes!Receive
<1>4. ASSUME NEW c \in Conns, Shutdown(c) \/ Reset(c) \/ Kernel(c)
      PROVE  Echoes!Step \/ UNCHANGED Echoes!vars
  <2> USE DEF Outside, Broken
  <2>1. CASE Shutdown(c)
    <3>1. \A d \in Conns : (client'[d] = "reset" \/ d \in miscounted')
                             = (client[d] = "reset" \/ d \in miscounted)
      BY <1>0, <2>1 DEF Shutdown
    <3>2. UNCHANGED [d \in Conns |-> client[d] = "reset" \/ d \in miscounted]
      BY <3>1, Zenon
    <3> QED
      BY <2>1, <3>2 DEF Shutdown, Echoes!vars
  <2>2. CASE Reset(c)
    BY <1>0, <1>2, <2>2 DEF Reset
  <2>3. CASE AcceptDone(c)
    <3>1. received[c] = 0 /\ handle[c] = "open" /\ client[c] = "none"
      BY <2>3 DEF AcceptDone, Inv, ConnInv, Phases
    <3>2. PICK n \in 0 .. 1 : /\ received' = [received EXCEPT ![c] = n]
                              /\ client' = [client EXCEPT ![c] = IF n = 0 THEN "fin" ELSE "open"]
      BY <2>3 DEF AcceptDone
    <3>3. UNCHANGED echoed
      BY <2>3 DEF AcceptDone
    <3>4. \A d \in Conns : Broken(d)' <=> Broken(d)
      <4>1. UNCHANGED miscounted
        BY <2>3 DEF AcceptDone
      <4> QED
        BY <1>0, <3>1, <3>2, <4>1
    <3>5. CASE n = 0
      <4>1. UNCHANGED received
        BY <1>0, <3>1, <3>2, <3>5
      <4> QED
        <5>1. \A d \in Conns : (client'[d] = "reset" \/ d \in miscounted')
                                 = (client[d] = "reset" \/ d \in miscounted)
          BY <3>4
        <5>2. UNCHANGED [d \in Conns |-> client[d] = "reset" \/ d \in miscounted]
          BY <5>1, Zenon
        <5> QED
          BY <3>3, <4>1, <5>2 DEF Echoes!vars
    <3>6. CASE n = 1
      <4>1. 1 \in Nat /\ 1 > received[c] /\ received' = [received EXCEPT ![c] = 1]
        BY <3>1, <3>2, <3>6
      <4> QED
        BY <1>3, <3>1, <3>3, <3>4, <4>1
    <3> QED
      BY <3>5, <3>6, <3>2
  <2>4. CASE AcceptFails(c)
    BY <1>0, <1>2, <2>4 DEF AcceptFails
  <2>5. CASE RecvDone(c)
    <3>1. received[c] + 1 \in Nat /\ received[c] + 1 > received[c]
      BY <1>0
    <3> QED
      BY <1>3, <2>5, <3>1 DEF RecvDone, RecvCompletes
  <2>6. CASE RecvZero(c) \/ RecvError(c) \/ RecvTooLong(c)
    BY <1>1, <2>6 DEF RecvZero, RecvError, RecvTooLong, RecvCompletes
  <2>7. CASE SendDone(c)
    BY <1>1, <2>7 DEF SendDone
  <2> QED
    BY <1>4, <2>1, <2>2, <2>3, <2>4, <2>5, <2>6, <2>7 DEF Kernel
<1>5. ASSUME NEW w \in Threads, Take(w)  PROVE UNCHANGED Echoes!vars
  BY <1>1, <1>5 DEF Take, Rest, clientVars
<1>6. ASSUME NEW w \in Threads, HandleIo(w)  PROVE Echoes!Step \/ UNCHANGED Echoes!vars
  <2>1. UNCHANGED <<client, received>>
    BY <1>6, Stays DEF clientVars
  <2>2. CASE CountOff(w)
    <3>1. PICK o : miscounted' = miscounted \cup {o} \/ UNCHANGED miscounted
      BY <2>2 DEF CountOff
    <3>2. UNCHANGED echoed
      BY <2>2 DEF CountOff, Kernels
    <3>3. CASE UNCHANGED miscounted
      BY <1>1, <2>1, <3>2, <3>3
    <3>4. CASE miscounted' = miscounted \cup {o} /\ o \in Conns
      BY <1>2, <2>1, <3>2, <3>4 DEF Broken
    <3>5. CASE miscounted' = miscounted \cup {o} /\ o \notin Conns
      <4>1. \A d \in Conns : (client'[d] = "reset" \/ d \in miscounted')
                               = (client[d] = "reset" \/ d \in miscounted)
        BY <2>1, <3>5
      <4>2. UNCHANGED [d \in Conns |-> client[d] = "reset" \/ d \in miscounted]
        BY <4>1, Zenon
      <4> QED
        BY <2>1, <3>2, <4>2 DEF Echoes!vars
    <3> QED
      BY <3>1, <3>3, <3>4, <3>5
  <2>3. CASE ~CountOff(w)
    <3>1. UNCHANGED miscounted
      BY <1>6, <2>3, CountsApart
    <3>2. CASE UNCHANGED echoed
      BY <1>1, <2>1, <3>1, <3>2
    <3>3. CASE \E c \in Conns : SendsUnit(c)
      BY <2>1, <3>1, <3>3, UnitIsNext
    <3> QED
      BY <1>6, <3>2, <3>3, HandleEchoes DEF Inv
  <2> QED
    BY <2>2, <2>3
<1>7. CASE Sweep \/ UNCHANGED vars
  BY <1>1, <1>7 DEF Sweep, vars, clientVars, kernelVars, history
<1> QED
  BY <1>4, <1>5, <1>6, <1>7 DEF Next

LEMMA EchoInitially == Init => Echoes!Init
<1> SUFFICES ASSUME Init  PROVE Echoes!Init
  OBVIOUS
<1>1. \A c \in Conns : handle[c] = "open" /\ client[c] # "reset" /\ c \notin miscounted
  BY Sockets DEF Init
<1>2. /\ [c \in Conns |-> handle[c] = "open"] = [c \in Conns |-> TRUE]
      /\ [c \in Conns |-> client[c] = "reset" \/ c \in miscounted] = [c \in Conns |-> FALSE]
  BY <1>1
<1> QED
  BY <1>2 DEF Init, Echoes!Init
=============================================================================

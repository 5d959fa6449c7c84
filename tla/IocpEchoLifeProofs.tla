------------------------- MODULE IocpEchoLifeProofs -------------------------
(***************************************************************************)
(* OutstandingOps of IocpEcho, on any number of threads: what it covers is *)
(* Work, the operations of a socket in the kernel and in the port, and     *)
(* Dues, the completions in the hands of threads less the operations they  *)
(* have posted and not counted yet.                                        *)
(*                                                                         *)
(* FreeSocketObj relies on the count, so with one thread, until a WSASend  *)
(* has failed at once, no SOCKET_OBJ and no pending buffer is used after   *)
(* it was freed.  HandleIo closes by the count, so the server implements   *)
(* Echo, but where an operation that was not counted yet made the count    *)
(* fall short.                                                             *)
(***************************************************************************)
EXTENDS IocpEchoProofs

One == \A v, w \in threads : v = w

\* From taking a completion to counting it off.
InHand == {"error", "enter", "sends", "incSend", "again", "incRecv", "dec", "decLast"}
          \cup AcceptPcs
\* The socket of an operation that is posted and not counted.
Owing(w) == IF pc[w] \in {"incRecv", "incSend", "countSend", "countRecv"} THEN conn(w)
                ELSE IF pc[w] = "countAccept" THEN Listener ELSE NULL
Due(w, o) == (IF pc[w] \in InHand /\ sock(w) = o THEN 1 ELSE 0)
             - (IF Owing(w) = o THEN 1 ELSE 0)
Hands(o) == {w \in threads : pc[w] \in InHand /\ sock(w) = o}
Owings(o) == {w \in threads : Owing(w) = o}
Dues(o) == Cardinality(Hands(o)) - Cardinality(Owings(o))

OnPort(o) == Cardinality({n \in DOMAIN port : port[n].sock = o})
Posts(o) == IF o = Listener THEN accepts ELSE Len(recvs[o]) + Len(sends[o])
Work(o) == Posts(o) + OnPort(o)

Counts == \A o \in Objs : Work(o) + Dues(o) <= OutstandingOps[o]
\* A SOCKET_OBJ was freed when nothing was counted, and nothing is since.
FreedIdle == \A o \in Objs : mem[o] = "freed" => OutstandingOps[o] = 0
Refers(w) == /\ Busy(w) => mem[sock(w)] # "freed"
             /\ pc[w] \in AcceptPcs => mem[conn(w)] # "freed"
NoFreedSend == \A c \in Conns : \A n \in DOMAIN OutOfOrderSends[c] :
                 OutOfOrderSends[c][n].ord # Freed

Counters == OutstandingOps \in [Objs -> Int] /\ accepts \in Nat /\ threads \in ThreadSets
Idle == \A w \in Threads \ threads : ~Busy(w)
CountInv == Inv /\ Counters /\ Idle /\ Counts

Life == undefined = 0 /\ (\A w \in threads : Refers(w)) /\ FreedIdle /\ NoFreedSend

LifeInv == CountInv /\ sendFailed \in 0 .. 1 /\ (One /\ sendFailed = 0 => Life)
-----------------------------------------------------------------------------
(* The operations in the port. *)

LEMMA OnPortIs ==
  ASSUME TypeOK, NEW o
  PROVE  /\ IsFiniteSet({n \in DOMAIN port : port[n].sock = o})
         /\ OnPort(o) \in Nat
<1>1. Len(port) \in Nat /\ DOMAIN port = 1 .. Len(port)
  BY DEF TypeOK
<1>2. IsFiniteSet(1 .. Len(port))
  BY <1>1, FS_Interval
<1>3. IsFiniteSet({n \in DOMAIN port : port[n].sock = o})
  BY <1>1, <1>2, FS_Subset
<1> QED
  BY <1>3, FS_CardinalityType DEF OnPort

LEMMA OnPortAppend ==
  ASSUME TypeOK, NEW x \in Item, Queue(x), NEW o
  PROVE  OnPort(o)' = OnPort(o) + (IF x.sock = o THEN 1 ELSE 0)
<1> DEFINE A == {n \in DOMAIN port : port[n].sock = o}
           B == {n \in DOMAIN port' : port'[n].sock = o}
<1>0. OnPort(o) = Cardinality(A) /\ OnPort(o)' = Cardinality(B)
  BY DEF OnPort
<1>1. IsFiniteSet(A) /\ Cardinality(A) \in Nat
  BY OnPortIs DEF OnPort
<1>2. /\ port'[Len(port) + 1] = x /\ Len(port) + 1 \in DOMAIN port' /\ Len(port) + 1 \notin DOMAIN port
      /\ \A n \in DOMAIN port : n \in DOMAIN port' /\ port'[n] = port[n]
      /\ \A n \in DOMAIN port' : n \in DOMAIN port \/ n = Len(port) + 1
  BY DEF TypeOK, Queue
<1>3. CASE x.sock = o
  <2>1. B = A \cup {Len(port) + 1} /\ Len(port) + 1 \notin A
    BY <1>2, <1>3
  <2> HIDE DEF A, B
  <2>2. Cardinality(B) = Cardinality(A) + 1
    BY <1>1, <2>1, FS_AddElement
  <2> QED
    BY <1>0, <1>3, <2>2 DEF A, B
<1>4. CASE x.sock # o
  <2>1. B = A
    BY <1>2, <1>4
  <2> HIDE DEF A, B
  <2> QED
    BY <1>0, <1>1, <1>4, <2>1
<1> QED
  BY <1>3, <1>4

LEMMA OnPortTail ==
  ASSUME TypeOK, port # <<>>, port' = Tail(port), NEW o
  PROVE  OnPort(o) = OnPort(o)' + (IF Head(port).sock = o THEN 1 ELSE 0)
<1> DEFINE A == {n \in DOMAIN port : port[n].sock = o}
           C == A \ {1}
           B == {n \in DOMAIN port' : port'[n].sock = o}
<1>0. OnPort(o) = Cardinality(A) /\ OnPort(o)' = Cardinality(B)
  BY DEF OnPort
<1>1. IsFiniteSet(A) /\ Cardinality(A) \in Nat
  BY OnPortIs DEF OnPort
<1>2. /\ Head(port) = port[1] /\ 1 \in DOMAIN port
      /\ \A n \in DOMAIN port' : n + 1 \in DOMAIN port /\ port'[n] = port[n + 1] /\ n \in Nat \ {0}
      /\ \A n \in DOMAIN port : n \in Nat \ {0}
                                /\ (n # 1 => n - 1 \in DOMAIN port' /\ port'[n - 1] = port[n])
  BY DEF TypeOK
<1>3. Cardinality(B) = Cardinality(C)
  <2> DEFINE f == [n \in C |-> n - 1]
  <2>1. IsFiniteSet(C)
    BY <1>1, FS_Subset
  <2>2. \A n \in C : n \in Nat \ {0} /\ n - 1 \in B
    BY <1>2
  <2>3. \A m \in B : m + 1 \in C /\ m \in Nat /\ (m + 1) - 1 = m
    BY <1>2
  <2> HIDE DEF B, C
  <2>4. f \in [C -> B]
    BY <2>2
  <2>5. \A m, n \in C : f[m] = f[n] => m = n
    BY <2>2
  <2>6. \A m \in B : \E n \in C : f[n] = m
    BY <2>3
  <2>7. f \in Bijection(C, B)
    BY <2>4, <2>5, <2>6 DEF Bijection, Injection, Surjection, IsInjective
  <2> QED
    BY <2>1, <2>7, FS_Bijection DEF ExistsBijection
<1>4. CASE Head(port).sock = o
  <2>1. 1 \in A
    BY <1>2, <1>4
  <2>2. Cardinality(C) = Cardinality(A) - 1
    BY <1>1, <2>1, FS_RemoveElement
  <2> HIDE DEF A, B, C
  <2> QED
    BY <1>0, <1>1, <1>3, <1>4, <2>2
<1>5. CASE Head(port).sock # o
  <2>1. C = A
    BY <1>2, <1>5
  <2> HIDE DEF A, B, C
  <2> QED
    BY <1>0, <1>1, <1>3, <1>5, <2>1
<1> QED
  BY <1>4, <1>5

LEMMA PostsType ==
  ASSUME TypeOK, Counters, NEW o \in Objs
  PROVE  Posts(o) \in Nat
<1>1. CASE o = Listener
  BY <1>1 DEF Posts, Counters
<1>2. CASE o # Listener
  <2>1. recvs[o] \in Seq(Nat) /\ sends[o] \in Seq(Nat)
    BY <1>2 DEF Objs, TypeOK
  <2>2. Len(recvs[o]) \in Nat /\ Len(sends[o]) \in Nat
    BY <2>1
  <2>3. Posts(o) = Len(recvs[o]) + Len(sends[o])
    BY <1>2 DEF Posts
  <2>4. ASSUME NEW a \in Nat, NEW b \in Nat  PROVE a + b \in Nat
    OBVIOUS
  <2>5. Len(recvs[o]) + Len(sends[o]) \in Nat
    BY <2>2, <2>4
  <2> QED
    BY <2>3, <2>5, Zenon
<1> QED
  BY <1>1, <1>2

LEMMA OneMember ==
  ASSUME NEW S, NEW T, NEW w, IsFiniteSet(S), IsFiniteSet(T), S \ {w} = T \ {w}
  PROVE  Cardinality(T) - Cardinality(S)
           = (IF w \in T THEN 1 ELSE 0) - (IF w \in S THEN 1 ELSE 0)
<1> DEFINE R == S \ {w}
<1>1. IsFiniteSet(R) /\ Cardinality(R) \in Nat
  BY FS_Subset, FS_CardinalityType
<1>2. Cardinality(S) = Cardinality(R) + (IF w \in S THEN 1 ELSE 0)
  <2>1. CASE w \in S
    <3>1. S = R \cup {w} /\ w \notin R
      BY <2>1
    <3> HIDE DEF R
    <3>2. Cardinality(R \cup {w}) = Cardinality(R) + 1
      BY <1>1, <3>1, FS_AddElement
    <3> QED
      BY <2>1, <3>1, <3>2
  <2>2. CASE w \notin S
    <3>1. S = R
      BY <2>2
    <3> HIDE DEF R
    <3> QED
      BY <1>1, <2>2, <3>1
  <2> QED
    BY <2>1, <2>2
<1>3. Cardinality(T) = Cardinality(R) + (IF w \in T THEN 1 ELSE 0)
  <2>1. CASE w \in T
    <3>1. T = R \cup {w} /\ w \notin R
      BY <2>1
    <3> HIDE DEF R
    <3>2. Cardinality(R \cup {w}) = Cardinality(R) + 1
      BY <1>1, <3>1, FS_AddElement
    <3> QED
      BY <2>1, <3>1, <3>2
  <2>2. CASE w \notin T
    <3>1. T = R
      BY <2>2
    <3> HIDE DEF R
    <3> QED
      BY <1>1, <2>2, <3>1
  <2> QED
    BY <2>1, <2>2
<1> HIDE DEF R
<1> QED
  BY <1>1, <1>2, <1>3

LEMMA Sums ==
  ASSUME TypeOK, Counters, NEW o \in Objs
  PROVE  /\ Posts(o) \in Nat /\ OnPort(o) \in Nat /\ Work(o) \in Nat /\ OutstandingOps[o] \in Int
         /\ IsFiniteSet(Hands(o)) /\ IsFiniteSet(Owings(o)) /\ Dues(o) \in Int
<1>1. OnPort(o) \in Nat
  BY OnPortIs
<1>2. Posts(o) \in Nat
  BY PostsType
<1>3. IsFiniteSet(Hands(o)) /\ IsFiniteSet(Owings(o))
  <2>1. IsFiniteSet(threads)
    BY ConstAssumption DEF Counters
  <2> QED
    BY <2>1, FS_Subset DEF Hands, Owings
<1>4. Dues(o) \in Int
  <2>1. Cardinality(Hands(o)) \in Nat /\ Cardinality(Owings(o)) \in Nat
    BY <1>3, FS_CardinalityType
  <2> QED
    BY <2>1 DEF Dues
<1> QED
  BY <1>1, <1>2, <1>3, <1>4 DEF Work, Counters

\* Of what the threads owe a step of w changes w's part.
LEMMA DuesMove ==
  ASSUME TypeOK, Counters, NEW w \in threads, UNCHANGED threads,
         \A v \in threads : v # w => pc'[v] = pc[v] /\ io'[v] = io[v],
         NEW o \in Objs
  PROVE  Dues(o)' - Dues(o) = Due(w, o)' - Due(w, o) /\ Dues(o)' \in Int
<1> DEFINE S == Hands(o)
           T == Hands(o)'
           U == Owings(o)
           V == Owings(o)'
<1>1. IsFiniteSet(threads)
  BY ConstAssumption DEF Counters
<1>2. IsFiniteSet(S) /\ IsFiniteSet(U) /\ IsFiniteSet(T) /\ IsFiniteSet(V)
  BY <1>1, FS_Subset DEF Hands, Owings
<1>3. S \ {w} = T \ {w} /\ U \ {w} = V \ {w}
  BY DEF Hands, Owings, Owing, sock, conn
<1>4. /\ w \in S <=> pc[w] \in InHand /\ sock(w) = o
      /\ w \in T <=> pc'[w] \in InHand /\ sock(w)' = o
      /\ w \in U <=> Owing(w) = o
      /\ w \in V <=> Owing(w)' = o
  BY DEF Hands, Owings
<1>5. Cardinality(T) - Cardinality(S) = (IF w \in T THEN 1 ELSE 0) - (IF w \in S THEN 1 ELSE 0)
  BY <1>2, <1>3, OneMember, Zenon
<1>6. Cardinality(V) - Cardinality(U) = (IF w \in V THEN 1 ELSE 0) - (IF w \in U THEN 1 ELSE 0)
  BY <1>2, <1>3, OneMember, Zenon
<1>7. /\ Cardinality(S) \in Nat /\ Cardinality(T) \in Nat
      /\ Cardinality(U) \in Nat /\ Cardinality(V) \in Nat
  BY <1>2, FS_CardinalityType
<1>8. /\ Dues(o) = Cardinality(S) - Cardinality(U)
      /\ Dues(o)' = Cardinality(T) - Cardinality(V)
  BY DEF Dues
<1>9. /\ Due(w, o) = (IF w \in S THEN 1 ELSE 0) - (IF w \in U THEN 1 ELSE 0)
      /\ Due(w, o)' = (IF w \in T THEN 1 ELSE 0) - (IF w \in V THEN 1 ELSE 0)
  BY <1>4 DEF Due
<1> HIDE DEF S, T, U, V
<1> QED
  BY <1>5, <1>6, <1>7, <1>8, <1>9

\* With one thread there is its part only.
LEMMA DuesOfOne ==
  ASSUME TypeOK, Counters, NEW w \in threads, One, NEW o \in Objs
  PROVE  Dues(o) = Due(w, o)
<1>1. threads = {w}
  BY DEF One
<1>2. Hands(o) = IF pc[w] \in InHand /\ sock(w) = o THEN {w} ELSE {}
  BY <1>1 DEF Hands
<1>3. Owings(o) = IF Owing(w) = o THEN {w} ELSE {}
  BY <1>1 DEF Owings
<1>4. Cardinality({w}) = 1 /\ Cardinality({}) = 0
  BY FS_Singleton, FS_EmptySet
<1> QED
  BY <1>2, <1>3, <1>4 DEF Dues, Due

LEMMA LifeInit == Init => LifeInv
<1> SUFFICES ASSUME Init PROVE LifeInv
  OBVIOUS
<1>1. Inv
  BY InvInit
<1>2. TypeOK
  BY <1>1 DEF Inv
<1>3. gOverlappedCount \in Nat
  BY ConstAssumption
<1>4. Counters
  BY <1>3, Sockets DEF Init, Counters
<1>5. \A o \in Objs : OnPort(o) = 0
  <2>1. \A o \in Objs : {n \in DOMAIN port : port[n].sock = o} = {}
    BY DEF Init
  <2> QED
    BY <2>1, FS_EmptySet DEF OnPort
<1>7. /\ \A w \in threads : w \in Threads
      /\ \A w \in Threads : pc[w] = "wait"
  BY <1>4 DEF Init, Counters, Threads
<1>6. ASSUME NEW o \in Objs  PROVE Work(o) + Dues(o) <= OutstandingOps[o]
  <2>2. Dues(o) = 0
    <3>1. Hands(o) = {} /\ Owings(o) = {}
      BY <1>7, Sockets DEF Hands, Owings, Owing, InHand, AcceptPcs
    <3> QED
      BY <3>1, FS_EmptySet DEF Dues
  <2>3. Posts(o) = OutstandingOps[o]
    <3>1. CASE o = Listener
      BY <1>3, <3>1, Sockets DEF Init, Posts, Tcp, Udp, ConstAssumption
    <3>2. CASE o # Listener
      <4>1. o \in Conns
        BY <3>2 DEF Objs
      <4>2. Len(sends[o]) = 0 /\ Len(recvs[o]) = IF Udp THEN gOverlappedCount ELSE 0
        BY <1>3, <4>1 DEF Init
      <4>3. Tcp <=> ~Udp
        BY ConstAssumption DEF Init, Tcp, Udp
      <4> QED
        BY <1>3, <3>2, <4>2, <4>3 DEF Init, Posts
    <3> QED
      BY <3>1, <3>2
  <2> QED
    BY <1>2, <1>4, <1>5, <2>2, <2>3, Sums DEF Work
<1>8. \A w \in threads : Refers(w)
  BY <1>7 DEF Refers, Busy, AcceptPcs
<1>9. FreedIdle /\ NoFreedSend /\ undefined = 0
  BY DEF Init, FreedIdle, NoFreedSend, Objs
<1>10. sendFailed \in 0 .. 1
  BY DEF Init
<1> QED
  BY <1>1, <1>4, <1>6, <1>7, <1>8, <1>9, <1>10 DEF LifeInv, CountInv, Idle, Life, Counts, Busy
-----------------------------------------------------------------------------
(* The clients and the kernel: what completes is in the port instead.      *)

LEMMA KernelCounters ==
  ASSUME Counters, NEW c \in Conns, Shutdown(c) \/ Reset(c) \/ Kernel(c)
  PROVE  /\ Counters'
         /\ UNCHANGED <<OutstandingOps, pc, io, mem, OutOfOrderSends, threads, sendFailed, undefined>>
<1> USE DEF Outside, orderVars, lifeVars, threadVars, Counters
<1>1. CASE Shutdown(c) \/ Reset(c)
  BY <1>1 DEF Shutdown, Reset
<1>2. CASE AcceptDone(c) \/ AcceptFails(c)
  BY <1>2 DEF AcceptDone, AcceptFails
<1>3. CASE RecvDone(c) \/ RecvZero(c) \/ RecvError(c) \/ RecvTooLong(c)
  BY <1>3 DEF RecvDone, RecvZero, RecvError, RecvTooLong, RecvCompletes
<1>4. CASE SendDone(c)
  BY <1>4 DEF SendDone
<1> QED
  BY <1>1, <1>2, <1>3, <1>4 DEF Kernel

LEMMA KernelWork ==
  ASSUME TypeOK, TypeOK', Counters, NEW c \in Conns, Shutdown(c) \/ Reset(c) \/ Kernel(c),
         NEW o \in Objs
  PROVE  Work(o)' = Work(o)
<1>0. OnPort(o) \in Nat /\ c # Listener
  BY OnPortIs, Sockets
<1>1. ASSUME NEW x \in Item, Queue(x), Posts(o) \in Int, Posts(o)' \in Int,
             Posts(o) = Posts(o)' + (IF x.sock = o THEN 1 ELSE 0)
      PROVE  Work(o)' = Work(o)
  <2>1. OnPort(o)' = OnPort(o) + (IF x.sock = o THEN 1 ELSE 0)
    BY <1>1, OnPortAppend
  <2> DEFINE a == OnPort(o)
             b == OnPort(o)'
             p == Posts(o)
             q == Posts(o)'
  <2>2. Work(o) = p + a /\ Work(o)' = q + b
    BY DEF Work
  <2>3. a \in Nat /\ p \in Int /\ q \in Int /\ p = q + (IF x.sock = o THEN 1 ELSE 0)
        /\ b = a + (IF x.sock = o THEN 1 ELSE 0)
    BY <1>0, <1>1, <2>1
  <2> HIDE DEF a, b, p, q
  <2> QED
    BY <2>2, <2>3
<1>2. CASE Shutdown(c) \/ Reset(c)
  <2>1. UNCHANGED <<accepts, recvs, sends, port>>
    BY <1>2 DEF Shutdown, Reset
  <2> QED
    BY <2>1 DEF Work, Posts, OnPort
<1>3. CASE AcceptDone(c) \/ AcceptFails(c)
  <2>1. PICK n \in 0 .. 1, e \in 0 .. 1 : Queue(Done("accept", c, 0, n, e))
    BY <1>3 DEF AcceptDone, AcceptFails
  <2>2. Done("accept", c, 0, n, e) \in Item /\ Done("accept", c, 0, n, e).sock = Listener
    <3>1. 0 \in Nat /\ n \in Nat
      OBVIOUS
    <3>2. Done("accept", c, 0, n, e) \in Item
      BY <3>1, DoneItem
    <3> QED
      BY <3>2 DEF Done
  <2>3. accepts' = accepts - 1 /\ accepts \in Nat /\ UNCHANGED <<recvs, sends>>
    BY <1>3 DEF AcceptDone, AcceptFails, Counters
  <2>4. Posts(o) \in Int /\ Posts(o)' \in Int
        /\ Posts(o) = Posts(o)' + (IF Listener = o THEN 1 ELSE 0)
    <3>1. CASE o = Listener
      BY <2>3, <3>1 DEF Posts
    <3>2. CASE o # Listener
      <4>1. recvs[o] \in Seq(Nat) /\ sends[o] \in Seq(Nat)
        BY <3>2 DEF Objs, TypeOK
      <4>2. Len(recvs[o]) + Len(sends[o]) \in Int
        BY <4>1
      <4>3. Posts(o) = Len(recvs[o]) + Len(sends[o]) /\ Posts(o)' = Posts(o)
        BY <2>3, <3>2 DEF Posts
      <4>4. Posts(o) \in Int /\ (IF Listener = o THEN 1 ELSE 0) = 0
        BY <3>2, <4>2, <4>3, Zenon
      <4> DEFINE p == Posts(o)
                 q == Posts(o)'
      <4>5. p \in Int /\ q = p /\ (IF Listener = o THEN 1 ELSE 0) = 0
        BY <4>3, <4>4
      <4> HIDE DEF p, q
      <4>6. p \in Int /\ q \in Int /\ p = q + (IF Listener = o THEN 1 ELSE 0)
        BY <4>5
      <4> QED
        BY <4>6 DEF p, q
    <3> QED
      BY <3>1, <3>2
  <2> QED
    BY <1>1, <2>1, <2>2, <2>4
<1>4. ASSUME NEW op \in {"recv", "send"}, NEW n \in Nat, NEW u \in Nat, NEW e \in 0 .. 1,
             Queue(Done(op, c, n, u, e)), UNCHANGED accepts,
             \A d \in Conns : Len(recvs[d]) + Len(sends[d])
                = Len(recvs'[d]) + Len(sends'[d]) + (IF d = c THEN 1 ELSE 0)
      PROVE  Work(o)' = Work(o)
  <2>1. Done(op, c, n, u, e) \in Item /\ Done(op, c, n, u, e).sock = c
    BY DoneItem DEF Done
  <2>2. Posts(o) \in Int /\ Posts(o)' \in Int /\ Posts(o) = Posts(o)' + (IF c = o THEN 1 ELSE 0)
    <3>1. CASE o = Listener
      BY <1>0, <1>4, <3>1 DEF Posts, Counters
    <3>2. CASE o # Listener
      <4>1. recvs[o] \in Seq(Nat) /\ sends[o] \in Seq(Nat) /\ recvs'[o] \in Seq(Nat)
            /\ sends'[o] \in Seq(Nat) /\ o \in Conns
        BY <3>2 DEF Objs, TypeOK
      <4>2. Len(recvs[o]) + Len(sends[o]) \in Int /\ Len(recvs'[o]) + Len(sends'[o]) \in Int
        BY <4>1
      <4>3. Posts(o) = Len(recvs[o]) + Len(sends[o]) /\ Posts(o)' = Len(recvs'[o]) + Len(sends'[o])
        BY <3>2 DEF Posts
      <4>4. Len(recvs[o]) + Len(sends[o])
              = Len(recvs'[o]) + Len(sends'[o]) + (IF o = c THEN 1 ELSE 0)
        BY <1>4, <4>1
      <4> QED
        BY <4>2, <4>3, <4>4
    <3> QED
      BY <3>1, <3>2
  <2> QED
    BY <1>1, <1>4, <2>1, <2>2
<1>5. \A d \in Conns : /\ recvs[d] \in Seq(Nat) /\ sends[d] \in Seq(Nat)
                       /\ Len(recvs[d]) \in Nat /\ Len(sends[d]) \in Nat
  <2>1. \A d \in Conns : recvs[d] \in Seq(Nat) /\ sends[d] \in Seq(Nat)
    BY DEF TypeOK
  <2>2. ASSUME NEW q \in Seq(Nat)  PROVE Len(q) \in Nat
    OBVIOUS
  <2> QED
    BY <2>1, <2>2
<1>6. ASSUME NEW u \in Nat, NEW e \in 0 .. 1, RecvCompletes(c, u, e)  PROVE Work(o)' = Work(o)
  <2>1. /\ recvs[c] # <<>> /\ recvs' = [recvs EXCEPT ![c] = Tail(@)]
        /\ Queue(Done("recv", c, Head(recvs[c]), u, e)) /\ UNCHANGED <<accepts, sends>>
    BY <1>6 DEF RecvCompletes
  <2>2. Head(recvs[c]) \in Nat /\ Len(Tail(recvs[c])) = Len(recvs[c]) - 1
    BY <1>5, <2>1, TailOf
  <2>3. /\ recvs'[c] = Tail(recvs[c]) /\ sends'[c] = sends[c]
        /\ \A d \in Conns : d # c => recvs'[d] = recvs[d] /\ sends'[d] = sends[d]
    BY <2>1 DEF TypeOK
  <2>4. \A d \in Conns : Len(recvs[d]) + Len(sends[d])
           = Len(recvs'[d]) + Len(sends'[d]) + (IF d = c THEN 1 ELSE 0)
    <3>1. TAKE d \in Conns
    <3>2. Len(recvs[d]) \in Nat /\ Len(sends[d]) \in Nat
      BY <1>5
    <3> DEFINE x == Len(recvs[d])
               y == Len(sends[d])
               x1 == Len(recvs'[d])
               y1 == Len(sends'[d])
    <3>3. d = c => x1 = x - 1 /\ y1 = y
      BY <2>2, <2>3
    <3>4. d # c => x1 = x /\ y1 = y
      BY <2>3
    <3>5. x \in Nat /\ y \in Nat
      BY <3>2
    <3> HIDE DEF x, y, x1, y1
    <3>6. x + y = x1 + y1 + (IF d = c THEN 1 ELSE 0)
      BY <3>3, <3>4, <3>5
    <3> QED
      BY <3>6 DEF x, y, x1, y1
  <2> QED
    BY <1>4, <1>6, <2>1, <2>2, <2>4
<1>7. CASE RecvDone(c) \/ RecvZero(c) \/ RecvError(c) \/ RecvTooLong(c)
  <2>1. received[c] + 1 \in Nat
    BY DEF TypeOK
  <2> QED
    BY <1>6, <1>7, <2>1 DEF RecvDone, RecvZero, RecvError, RecvTooLong
<1>8. CASE SendDone(c)
  <2>1. PICK e \in 0 .. 1 : Queue(Done("send", c, 0, Head(sends[c]), e))
    BY <1>8 DEF SendDone
  <2>2. /\ sends[c] # <<>> /\ sends' = [sends EXCEPT ![c] = Tail(@)]
        /\ UNCHANGED <<accepts, recvs>>
    BY <1>8 DEF SendDone
  <2>3. Head(sends[c]) \in Nat /\ Len(Tail(sends[c])) = Len(sends[c]) - 1
    BY <1>5, <2>2, TailOf
  <2>4. /\ sends'[c] = Tail(sends[c]) /\ recvs'[c] = recvs[c]
        /\ \A d \in Conns : d # c => recvs'[d] = recvs[d] /\ sends'[d] = sends[d]
    BY <2>2 DEF TypeOK
  <2>5. \A d \in Conns : Len(recvs[d]) + Len(sends[d])
           = Len(recvs'[d]) + Len(sends'[d]) + (IF d = c THEN 1 ELSE 0)
    <3>1. TAKE d \in Conns
    <3>2. Len(recvs[d]) \in Nat /\ Len(sends[d]) \in Nat
      BY <1>5
    <3> DEFINE x == Len(recvs[d])
               y == Len(sends[d])
               x1 == Len(recvs'[d])
               y1 == Len(sends'[d])
    <3>3. d = c => x1 = x /\ y1 = y - 1
      BY <2>3, <2>4
    <3>4. d # c => x1 = x /\ y1 = y
      BY <2>4
    <3>5. x \in Nat /\ y \in Nat
      BY <3>2
    <3> HIDE DEF x, y, x1, y1
    <3>6. x + y = x1 + y1 + (IF d = c THEN 1 ELSE 0)
      BY <3>3, <3>4, <3>5
    <3> QED
      BY <3>6 DEF x, y, x1, y1
  <2> QED
    BY <1>4, <2>1, <2>2, <2>3, <2>5
<1> QED
  BY <1>2, <1>3, <1>7, <1>8 DEF Kernel

LEMMA KernelCounts ==
  ASSUME CountInv, TypeOK', NEW c \in Conns, Shutdown(c) \/ Reset(c) \/ Kernel(c)
  PROVE  Counters' /\ Idle' /\ Counts'
<1>1. TypeOK /\ Counters
  BY DEF CountInv, Inv
<1>2. Counters' /\ UNCHANGED <<OutstandingOps, pc, io, threads>>
  BY <1>1, KernelCounters
<1>3. \A o \in Objs : Work(o)' = Work(o)
  BY <1>1, KernelWork
<1>4. \A o : Dues(o)' = Dues(o)
  BY <1>2 DEF Dues, Hands, Owings, Owing, sock, conn
<1> QED
  BY <1>2, <1>3, <1>4 DEF CountInv, Counts, Idle, Busy

LEMMA KernelLife ==
  ASSUME LifeInv, NEW c \in Conns, Shutdown(c) \/ Reset(c) \/ Kernel(c)
  PROVE  (One /\ sendFailed = 0 => Life)'
<1>1. UNCHANGED <<OutstandingOps, pc, io, mem, OutOfOrderSends, threads, sendFailed, undefined>>
  BY KernelCounters DEF LifeInv, CountInv
<1>2. SUFFICES ASSUME One, sendFailed = 0  PROVE Life'
  BY <1>1 DEF One
<1>3. Life
  BY <1>2 DEF LifeInv
<1>4. \A w \in threads : Refers(w)'
  BY <1>1, <1>3 DEF Life, Refers, Busy, sock, conn
<1> QED
  BY <1>1, <1>3, <1>4 DEF Life, FreedIdle, NoFreedSend
-----------------------------------------------------------------------------
(* A completion is taken.                                                  *)

LEMMA TakeCounts ==
  ASSUME CountInv, NEW w \in Threads, Take(w)
  PROVE  Counters' /\ Idle' /\ Counts'
<1>0. TypeOK /\ Counters /\ OutstandingOps \in [Objs -> Int]
  BY DEF CountInv, Inv, Counters
<1>1. /\ w \in threads /\ pc[w] = "wait" /\ port # <<>> /\ port' = Tail(port)
      /\ io' = [io EXCEPT ![w] = Head(port)]
      /\ \E l \in {"error", "enter"} : pc' = [pc EXCEPT ![w] = l]
      /\ UNCHANGED <<threads, accepts, recvs, sends, OutstandingOps>>
  BY DEF Take, At, Goto, Rest, clientVars
<1>2. /\ io'[w] = Head(port) /\ pc'[w] \in {"error", "enter"}
      /\ \A v \in Threads : v # w => pc'[v] = pc[v] /\ io'[v] = io[v]
      /\ \A v \in threads : v \in Threads
  BY <1>0, <1>1 DEF TypeOK, Counters, Threads
<1>3. \A o \in Objs : /\ Due(w, o) = 0
                      /\ Due(w, o)' = IF Head(port).sock = o THEN 1 ELSE 0
  <2>1. TAKE o \in Objs
  <2>2. o # NULL
    BY Sockets
  <2>3. Owing(w) = NULL /\ Owing(w)' = NULL
    BY <1>1, <1>2 DEF Owing
  <2>4. pc[w] \notin InHand /\ pc'[w] \in InHand
    BY <1>1, <1>2 DEF InHand, AcceptPcs
  <2> QED
    BY <1>2, <2>2, <2>3, <2>4 DEF Due, sock
<1>4. ASSUME NEW o \in Objs  PROVE Work(o)' + Dues(o)' <= OutstandingOps[o]
  <2> DEFINE p == Posts(o)
             a == OnPort(o)
             b == OnPort(o)'
             n == OutstandingOps[o]
             k == IF Head(port).sock = o THEN 1 ELSE 0
             d == Dues(o)
             e == Dues(o)'
  <2>1. Work(o) = p + a /\ Work(o)' = p + b
    <3>1. Posts(o)' = Posts(o)
      BY <1>1 DEF Posts
    <3> QED
      BY <3>1 DEF Work
  <2>2. a = b + k
    BY <1>0, <1>1, OnPortTail
  <2>3. p \in Nat /\ a \in Nat /\ n \in Int /\ d \in Int
    BY <1>0, Sums
  <2>4. b \in Nat
    <3>1. port' \in Seq(Item)
      BY <1>0, <1>1, PortTail
    <3>2. Len(port') \in Nat /\ DOMAIN port' = 1 .. Len(port')
      BY <3>1
    <3>3. IsFiniteSet(1 .. Len(port'))
      BY <3>2, FS_Interval
    <3>4. IsFiniteSet({m \in DOMAIN port' : port'[m].sock = o})
      BY <3>2, <3>3, FS_Subset
    <3> QED
      BY <3>4, FS_CardinalityType DEF OnPort
  <2>5. (p + a) + d <= n
    BY <2>1 DEF CountInv, Counts
  <2>6. e - d = k /\ e \in Int
    <3>1. Dues(o)' - Dues(o) = Due(w, o)' - Due(w, o) /\ Dues(o)' \in Int
      BY <1>0, <1>1, <1>2, DuesMove
    <3> QED
      BY <1>3, <3>1
  <2> HIDE DEF p, a, b, n, d, e
  <2>7. (p + b) + e <= n
    BY <2>2, <2>3, <2>4, <2>5, <2>6
  <2> QED
    BY <2>1, <2>7 DEF n, e
<1>5. Idle'
  BY <1>1, <1>2 DEF CountInv, Idle, Busy
<1> QED
  BY <1>0, <1>1, <1>4, <1>5 DEF Counts, Counters

\* With one thread what it takes was counted, so its socket is not freed.
LEMMA TakeCounted ==
  ASSUME CountInv, One, NEW w \in Threads, Take(w)
  PROVE  Head(port).sock \in Objs /\ OutstandingOps[Head(port).sock] # 0
<1>0. TypeOK /\ Counters
  BY DEF CountInv, Inv
<1>1. w \in threads /\ pc[w] = "wait" /\ port # <<>>
  BY DEF Take, At
<1> DEFINE x == Head(port)
           o == x.sock
<1>2. x \in Item /\ x = port[1] /\ 1 \in DOMAIN port
  <2>1. x \in Item
    BY <1>0, <1>1 DEF TypeOK
  <2>2. x = port[1] /\ 1 \in DOMAIN port
    BY <1>0, <1>1 DEF TypeOK
  <2> QED
    BY <2>1, <2>2
<1> HIDE DEF x
<1>o. o \in Objs
  BY <1>2 DEF Item
<1> HIDE DEF o
<1>3. Work(o) \in Nat /\ Posts(o) \in Nat /\ OnPort(o) \in Nat /\ OutstandingOps[o] \in Int
  BY <1>0, <1>o, Sums
<1>4. OnPort(o) # 0
  <2> DEFINE S == {n \in DOMAIN port : port[n].sock = o}
  <2>1. 1 \in S
    BY <1>2 DEF o
  <2>2. IsFiniteSet(S) /\ OnPort(o) = Cardinality(S)
    BY <1>0, OnPortIs DEF OnPort
  <2> HIDE DEF S
  <2> QED
    BY <2>1, <2>2, FS_EmptySet
<1>5. Dues(o) = 0
  <2>1. Due(w, o) = 0
    BY <1>1, <1>o, Sockets DEF Due, InHand, AcceptPcs, Owing
  <2> QED
    BY <1>0, <1>1, <1>o, <2>1, DuesOfOne
<1>6. Work(o) + Dues(o) <= OutstandingOps[o]
  BY <1>o DEF CountInv, Counts
<1>7. OutstandingOps[o] # 0
  <2> DEFINE p == Posts(o)
             a == OnPort(o)
             d == Dues(o)
             n == OutstandingOps[o]
  <2>1. p \in Nat /\ a \in Nat /\ a # 0 /\ d = 0 /\ n \in Int /\ (p + a) + d <= n
    BY <1>3, <1>4, <1>5, <1>6 DEF Work
  <2> HIDE DEF p, a, d, n
  <2>2. n # 0
    BY <2>1
  <2> QED
    BY <2>2 DEF n
<1> QED
  BY <1>o, <1>7 DEF o, x

LEMMA TakeLife ==
  ASSUME LifeInv, NEW w \in Threads, Take(w)
  PROVE  (One /\ sendFailed = 0 => Life)'
<1>1. TypeOK /\ Counters /\ CountInv
  BY DEF LifeInv, CountInv, Inv
<1>2. /\ w \in threads /\ pc[w] = "wait" /\ port # <<>> /\ port' = Tail(port)
      /\ io' = [io EXCEPT ![w] = Head(port)]
      /\ \E l \in {"error", "enter"} : pc' = [pc EXCEPT ![w] = l]
      /\ UNCHANGED <<threads, OutstandingOps, mem, OutOfOrderSends, sendFailed, undefined>>
  BY DEF Take, At, Goto, Rest, clientVars, orderVars, lifeVars
<1>3. SUFFICES ASSUME One, sendFailed = 0  PROVE Life'
  BY <1>2 DEF One
<1>4. Life /\ \A v \in threads : v = w
  BY <1>2, <1>3 DEF LifeInv, One
<1>5. io'[w] = Head(port) /\ pc'[w] \in {"error", "enter"}
  BY <1>1, <1>2 DEF TypeOK
<1>6. Refers(w)'
  <2>1. mem[Head(port).sock] # "freed"
    BY <1>1, <1>3, <1>4, TakeCounted DEF Life, FreedIdle
  <2> QED
    BY <1>2, <1>5, <2>1 DEF Refers, AcceptPcs, sock
<1> QED
  BY <1>2, <1>4, <1>6 DEF Life, FreedIdle, NoFreedSend
-----------------------------------------------------------------------------
(* The steps of HandleIo, by what they do to the operations of a socket:   *)
(* they leave them alone, post one, count the one they posted, or count    *)
(* the completion off.                                                     *)

NotCounted == {"incRecv", "incSend", "countSend", "countRecv", "countAccept"}

SameWork == UNCHANGED <<accepts, recvs, sends>>
Still(w) ==
  /\ SameWork /\ UNCHANGED OutstandingOps
  /\ pc[w] \notin NotCounted /\ pc'[w] \notin NotCounted
  /\ pc'[w] \in InHand => pc[w] \in InHand
Posting(w, x) ==
  /\ \A o \in Objs : Posts(o)' = Posts(o) + (IF o = x THEN 1 ELSE 0)
  /\ UNCHANGED OutstandingOps
  /\ pc[w] \in InHand \ NotCounted
  /\ \/ pc'[w] = "countAccept" /\ x = Listener
     \/ pc'[w] \in NotCounted \ {"countAccept"} /\ x = conn(w)
Counting(w, x) ==
  /\ SameWork /\ AddOps(x, 1) /\ Live(x)
  /\ \/ pc[w] = "countAccept" /\ x = Listener
     \/ pc[w] \in NotCounted \ {"countAccept"} /\ x = conn(w)
  /\ pc'[w] \in InHand \ NotCounted
CountingOff(w) ==
  /\ SameWork /\ AddOps(sock(w), -1) /\ Live(sock(w))
  /\ pc[w] \in InHand \ NotCounted /\ pc'[w] \notin InHand

LEMMA PostingRecv ==
  ASSUME TypeOK, Counters, NEW c \in Conns, PostRecv(c), UNCHANGED accepts
  PROVE  \A o \in Objs : Posts(o)' = Posts(o) + (IF o = c THEN 1 ELSE 0)
<1>1. /\ recvs' = [recvs EXCEPT ![c] = Append(@, IoCountIssued[c])] /\ UNCHANGED sends
      /\ IoCountIssued[c] \in Nat /\ c # Listener
  BY Sockets DEF PostRecv, CountRecv, TypeOK
<1>2. recvs'[c] = Append(recvs[c], IoCountIssued[c]) /\ \A d \in Conns : d # c => recvs'[d] = recvs[d]
  BY <1>1 DEF TypeOK
<1>3. ASSUME NEW q \in Seq(Nat), NEW e \in Nat  PROVE Len(Append(q, e)) = Len(q) + 1 /\ Len(q) \in Nat
  OBVIOUS
<1>4. Len(recvs'[c]) = Len(recvs[c]) + 1 /\ Len(recvs[c]) \in Nat /\ Len(sends[c]) \in Nat
  BY <1>1, <1>2, <1>3 DEF TypeOK
<1>5. ASSUME NEW o \in Objs  PROVE Posts(o)' = Posts(o) + (IF o = c THEN 1 ELSE 0)
  <2>1. CASE o = c
    <3>1. Posts(o)' = Len(recvs'[c]) + Len(sends[c]) /\ Posts(o) = Len(recvs[c]) + Len(sends[c])
      BY <1>1, <2>1 DEF Posts
    <3> DEFINE x == Len(recvs[c])
               y == Len(sends[c])
    <3>2. Posts(o)' = (x + 1) + y /\ Posts(o) = x + y /\ x \in Nat /\ y \in Nat
      BY <1>4, <3>1
    <3> HIDE DEF x, y
    <3>3. (x + 1) + y = (x + y) + 1
      BY <3>2
    <3> QED
      BY <2>1, <3>2, <3>3
  <2>2. CASE o # c
    <3>1. Posts(o)' = Posts(o)
      BY <1>1, <1>2, <1>5, <2>2 DEF Posts, Objs
    <3>2. Posts(o) \in Int
      BY PostsType, <1>5
    <3> QED
      BY <2>2, <3>1, <3>2
  <2> QED
    BY <2>1, <2>2
<1> QED
  BY <1>5

LEMMA PostingSend ==
  ASSUME TypeOK, Counters, NEW c \in Conns, NEW u \in Nat, PostSend(c, u), UNCHANGED accepts
  PROVE  \A o \in Objs : Posts(o)' = Posts(o) + (IF o = c THEN 1 ELSE 0)
<1>1. /\ sends' = [sends EXCEPT ![c] = Append(@, u)] /\ UNCHANGED recvs /\ c # Listener
  BY Sockets DEF PostSend
<1>2. sends'[c] = Append(sends[c], u) /\ \A d \in Conns : d # c => sends'[d] = sends[d]
  BY <1>1 DEF TypeOK
<1>3. ASSUME NEW q \in Seq(Nat), NEW e \in Nat  PROVE Len(Append(q, e)) = Len(q) + 1 /\ Len(q) \in Nat
  OBVIOUS
<1>4. Len(sends'[c]) = Len(sends[c]) + 1 /\ Len(recvs[c]) \in Nat /\ Len(sends[c]) \in Nat
  BY <1>1, <1>2, <1>3 DEF TypeOK
<1>5. ASSUME NEW o \in Objs  PROVE Posts(o)' = Posts(o) + (IF o = c THEN 1 ELSE 0)
  <2>1. CASE o = c
    <3>1. Posts(o)' = Len(recvs[c]) + Len(sends'[c]) /\ Posts(o) = Len(recvs[c]) + Len(sends[c])
      BY <1>1, <2>1 DEF Posts
    <3> DEFINE x == Len(recvs[c])
               y == Len(sends[c])
    <3>2. Posts(o)' = x + (y + 1) /\ Posts(o) = x + y /\ x \in Nat /\ y \in Nat
      BY <1>4, <3>1
    <3> HIDE DEF x, y
    <3>3. x + (y + 1) = (x + y) + 1
      BY <3>2
    <3> QED
      BY <2>1, <3>2, <3>3
  <2>2. CASE o # c
    <3>1. Posts(o)' = Posts(o)
      BY <1>1, <1>2, <1>5, <2>2 DEF Posts, Objs
    <3>2. Posts(o) \in Int
      BY PostsType, <1>5
    <3> QED
      BY <2>2, <3>1, <3>2
  <2> QED
    BY <2>1, <2>2
<1> QED
  BY <1>5

LEMMA PostingAccept ==
  ASSUME TypeOK, Counters, accepts' = accepts + 1, UNCHANGED <<recvs, sends>>
  PROVE  \A o \in Objs : Posts(o)' = Posts(o) + (IF o = Listener THEN 1 ELSE 0)
<1>1. TAKE o \in Objs
<1>2. CASE o = Listener
  BY <1>2 DEF Posts, Counters
<1>3. CASE o # Listener
  <2>1. Posts(o)' = Posts(o)
    BY <1>3 DEF Posts
  <2>2. Posts(o) \in Int
    BY PostsType
  <2> QED
    BY <1>3, <2>1, <2>2
<1> QED
  BY <1>2, <1>3

LEMMA HandleKinds ==
  ASSUME TypeOK, Shape, Counters, NEW w \in Threads, HandleIo(w)
  PROVE  \/ Still(w) \/ CountingOff(w) \/ UseAfterFree(w)
         \/ \E x \in Objs : Posting(w, x) \/ Counting(w, x)
<1>0. /\ conn(w) \in Conns /\ conn(w) \in Objs /\ io[w].unit \in Nat
      /\ io[w].op # "accept" => sock(w) = conn(w)
      /\ pc[w] \in SocketPcs => io[w].op # "accept"
  BY Moves, OwnSocket DEF Shape
<1>p. pc \in [Threads -> Labels]
  BY DEF TypeOK
<1> USE DEF Rest, Kernels, SameWork, At, Goto, InHand, AcceptPcs, NotCounted
<1>1. CASE ErrorPath(w)
  <2>1. CountingOff(w)
    BY <1>p, <1>1 DEF ErrorPath, CountingOff
  <2> QED
    BY <2>1
<1>2. CASE Dispatch(w)
  <2>1. Still(w)
    BY <1>p, <1>2 DEF Dispatch, Still
  <2> QED
    BY <2>1
<1>3. CASE SendCompleted(w)
  <2>1. Still(w)
    BY <1>p, <1>3 DEF SendCompleted, Still
  <2> QED
    BY <2>1
<1>4. CASE DoSend(w)
  <2>1. pc[w] = "sends" /\ pc'[w] = "incSend" /\ sock(w) = conn(w)
        /\ UNCHANGED <<accepts, OutstandingOps>>
    BY <1>p, <1>0, <1>4 DEF DoSend, SocketPcs
  <2>2. Head(OutOfOrderSends[sock(w)]).unit \in Nat
    <3>1. OutOfOrderSends[sock(w)] \in Seq(Pending) /\ OutOfOrderSends[sock(w)] # <<>>
      BY <1>0, <1>4, <2>1 DEF DoSend, InOrder, TypeOK
    <3>2. Head(OutOfOrderSends[sock(w)]) \in Pending
      BY <3>1, TailOf
    <3> QED
      BY <3>2 DEF Pending
  <2>3. PostSend(sock(w), Head(OutOfOrderSends[sock(w)]).unit)
    BY <1>4 DEF DoSend
  <2>4. Posting(w, conn(w))
    BY <1>0, <2>1, <2>2, <2>3, PostingSend DEF Posting
  <2> QED
    BY <1>0, <2>4
<1>5. CASE SendRefused(w)
  <2>1. Still(w)
    BY <1>p, <1>5 DEF SendRefused, DoSendFails, PostSendFails, Still
  <2> QED
    BY <2>1
<1>6. CASE NoneInOrder(w)
  <2>1. Still(w)
    BY <1>p, <1>6 DEF NoneInOrder, NoSend, Still
  <2> QED
    BY <2>1
<1>7. CASE ReceiveAgain(w)
  <2>1. pc[w] = "again" /\ UNCHANGED <<accepts, OutstandingOps>> /\ sock(w) = conn(w)
    BY <1>0, <1>7 DEF ReceiveAgain, SocketPcs
  <2>2. CASE PostRecv(sock(w)) /\ Goto(w, "incRecv")
    <3>1. Posting(w, conn(w))
      BY <1>p, <1>0, <2>1, <2>2, PostingRecv DEF Posting
    <3> QED
      BY <1>0, <3>1
  <2>3. CASE PostRecvFails(sock(w)) /\ Goto(w, "dec")
    <3>1. Still(w)
      BY <1>p, <2>1, <2>3 DEF PostRecvFails, CountRecv, Still
    <3> QED
      BY <3>1
  <2> QED
    BY <1>7, <2>2, <2>3 DEF ReceiveAgain
<1>8. CASE CountPost(w)
  <2>1. Counting(w, conn(w))
    BY <1>p, <1>8 DEF CountPost, Posted, Counting
  <2> QED
    BY <1>0, <2>1
<1>9. CASE CountOff(w)
  <2>1. CountingOff(w)
    BY <1>p, <1>9 DEF CountOff, CountingOff
  <2> QED
    BY <2>1
<1>10. CASE TailSends(w) \/ CloseSocket(w) \/ Free(w)
  <2>1. Still(w)
    BY <1>p, <1>10 DEF TailSends, NoSend, CloseSocket, Free, Still
  <2> QED
    BY <2>1
<1>11. CASE Accepted(w)
  <2>1. Still(w)
    BY <1>p, <1>11 DEF Accepted, Still
  <2> QED
    BY <2>1
<1>12. CASE FirstSend(w)
  <2>1. pc[w] = "firstSend" /\ UNCHANGED <<accepts, OutstandingOps>>
    BY <1>12 DEF FirstSend
  <2>2. CASE PostSend(conn(w), io[w].unit) /\ Goto(w, "countSend")
    <3>1. Posting(w, conn(w))
      BY <1>p, <1>0, <2>1, <2>2, PostingSend DEF Posting
    <3> QED
      BY <1>0, <3>1
  <2>3. CASE PostSendFails(conn(w)) /\ Goto(w, "reaccept")
    <3>1. Still(w)
      BY <1>p, <2>1, <2>3 DEF PostSendFails, Still
    <3> QED
      BY <3>1
  <2> QED
    BY <1>12, <2>2, <2>3 DEF FirstSend
<1>13. CASE FirstReceives(w)
  <2>1. pc[w] = "receives" /\ UNCHANGED <<accepts, OutstandingOps>>
    BY <1>13 DEF FirstReceives
  <2>2. CASE PostRecv(conn(w)) /\ Goto(w, "countRecv")
    <3>1. Posting(w, conn(w))
      BY <1>p, <1>0, <2>1, <2>2, PostingRecv DEF Posting
    <3> QED
      BY <1>0, <3>1
  <2>3. CASE Goto(w, "reaccept") /\ UNCHANGED <<recvs, sends>>
    <3>1. Still(w)
      BY <1>p, <2>1, <2>3 DEF Still
    <3> QED
      BY <3>1
  <2> QED
    BY <1>13, <2>2, <2>3 DEF FirstReceives, PostRecvFails, CountRecv
<1>14. CASE PostAccept(w)
  <2>1. pc[w] = "reaccept" /\ UNCHANGED <<recvs, sends, OutstandingOps>>
    BY <1>14 DEF PostAccept
  <2>2. CASE accepts' = accepts + 1 /\ Goto(w, "countAccept")
    <3>1. \A o \in Objs : Posts(o)' = Posts(o) + (IF o = Listener THEN 1 ELSE 0)
      BY <2>1, <2>2, PostingAccept
    <3>2. pc'[w] = "countAccept"
      BY <1>p, <2>2
    <3>3. Posting(w, Listener)
      BY <2>1, <3>1, <3>2 DEF Posting
    <3> QED
      BY Sockets, <3>3
  <2>3. CASE Goto(w, "check") /\ UNCHANGED accepts
    <3>1. Still(w)
      BY <1>p, <2>1, <2>3 DEF Still
    <3> QED
      BY <3>1
  <2> QED
    BY <1>14, <2>2, <2>3 DEF PostAccept
<1>15. CASE CountAccept(w)
  <2>1. pc[w] = "countAccept" /\ pc'[w] = "check"
    BY <1>p, <1>15 DEF CountAccept
  <2>2. SameWork /\ AddOps(Listener, 1) /\ Live(Listener)
    BY <1>15 DEF CountAccept
  <2>3. Counting(w, Listener)
    BY <2>1, <2>2 DEF Counting
  <2> QED
    BY Sockets, <2>3
<1>16. CASE CheckAccepted(w)
  <2>1. Still(w)
    BY <1>p, <1>16 DEF CheckAccepted, Still
  <2> QED
    BY <2>1
<1> QED
  BY <1>1, <1>2, <1>3, <1>4, <1>5, <1>6, <1>7, <1>8, <1>9, <1>10, <1>11, <1>12, <1>13, <1>14,
     <1>15, <1>16, SendsCases DEF HandleIo, AcceptPath

\* None of them takes from a socket what is not counted.
LEMMA CountsKept ==
  ASSUME CountInv, NEW w \in Threads, HandleIo(w)
  PROVE  Counters' /\ Idle' /\ Counts'
<1>t. TypeOK /\ Shape /\ Counters
  BY DEF CountInv, Inv
<1>0. /\ UNCHANGED <<threads, port, io>> /\ sock(w) \in Objs
      /\ conn(w) \in Objs /\ conn(w) # Listener
      /\ pc[w] \in AcceptPcs => sock(w) = Listener
      /\ \A v \in Threads : v # w => pc'[v] = pc[v]
      /\ w \in threads /\ threads \subseteq Threads
  <2>1. Busy(w) /\ UNCHANGED <<threads, port, io>> /\ \A v \in Threads : v # w => pc'[v] = pc[v]
    BY <1>t, Stays, Moves DEF clientVars
  <2>2. w \in threads /\ threads \subseteq Threads
    BY <1>t, <2>1 DEF CountInv, Idle, Counters, Threads
  <2> QED
    BY <1>t, <2>1, <2>2, OwnSocket, Sockets DEF Shape
<1>1. OutstandingOps \in [Objs -> Int] /\ accepts \in Nat /\ threads \in ThreadSets
  BY <1>t DEF Counters
<1>2. NULL \notin Objs
  BY Sockets
<1>3. ASSUME NEW o \in Objs, Posts(o)' \in Int, OutstandingOps'[o] \in Int,
             Due(w, o) \in Int, Due(w, o)' \in Int,
             Posts(o)' - Posts(o) + Due(w, o)' - Due(w, o) <= OutstandingOps'[o] - OutstandingOps[o]
      PROVE  Work(o)' + Dues(o)' <= OutstandingOps'[o]
  <2> DEFINE p == Posts(o)
             a == OnPort(o)
             n == OutstandingOps[o]
             d == Due(w, o)
             p1 == Posts(o)'
             n1 == OutstandingOps'[o]
             d1 == Due(w, o)'
             e == Dues(o)
             e1 == Dues(o)'
  <2>1. OnPort(o)' = a
    BY <1>0 DEF OnPort
  <2>2. Work(o) = p + a /\ Work(o)' = p1 + a
    BY <2>1 DEF Work
  <2>3. /\ p \in Int /\ a \in Int /\ n \in Int /\ d \in Int /\ p1 \in Int /\ n1 \in Int
        /\ d1 \in Int /\ e \in Int
    BY <1>t, <1>3, Sums
  <2>4. e1 - e = d1 - d /\ e1 \in Int
    BY <1>t, <1>0, DuesMove
  <2>5. (p + a) + e <= n /\ p1 - p + d1 - d <= n1 - n
    BY <1>3, <2>2 DEF CountInv, Counts
  <2> HIDE DEF p, a, n, d, p1, n1, d1, e, e1
  <2>6. (p1 + a) + e1 <= n1
    BY <2>3, <2>4, <2>5
  <2> QED
    BY <2>2, <2>6 DEF e1, n1
<1>4. \A o \in Objs : Due(w, o) \in Int /\ Due(w, o)' \in Int /\ Posts(o) \in Int
  BY <1>t, PostsType DEF Due
<1> DEFINE Kept == \A o \in Objs :
      /\ Posts(o)' \in Int /\ OutstandingOps'[o] \in Int
      /\ Posts(o)' - Posts(o) + Due(w, o)' - Due(w, o) <= OutstandingOps'[o] - OutstandingOps[o]
<1>5. \A o \in Objs : /\ pc[w] \notin NotCounted => Due(w, o) = IF pc[w] \in InHand /\ sock(w) = o THEN 1 ELSE 0
                      /\ pc'[w] \notin NotCounted => Due(w, o)' = IF pc'[w] \in InHand /\ sock(w) = o THEN 1 ELSE 0
  BY <1>0, <1>2 DEF Due, Owing, NotCounted, sock
<1>6. NotCounted \subseteq InHand
  BY DEF NotCounted, InHand, AcceptPcs
<1>7. /\ pc[w] \in NotCounted \ {"countAccept"} => Owing(w) = conn(w)
      /\ pc[w] = "countAccept" => Owing(w) = Listener
      /\ pc'[w] \in NotCounted \ {"countAccept"} => Owing(w)' = conn(w)
      /\ pc'[w] = "countAccept" => Owing(w)' = Listener
  BY <1>0 DEF Owing, NotCounted, conn
<1>8. ASSUME Still(w)  PROVE Kept /\ Counters'
  <2>1. \A o \in Objs : Posts(o)' = Posts(o)
    BY <1>8 DEF Still, SameWork, Posts
  <2>2. \A o \in Objs : Due(w, o)' <= Due(w, o)
    BY <1>5, <1>8 DEF Still
  <2>3. Kept
    <3>1. TAKE o \in Objs
    <3> DEFINE a == Posts(o)
               d == Due(w, o)
               e == Due(w, o)'
               n == OutstandingOps[o]
    <3>2. a \in Int /\ d \in Int /\ e \in Int /\ n \in Int /\ e <= d
      BY <1>1, <1>4, <2>2
    <3>3. Posts(o)' = a /\ OutstandingOps'[o] = n
      BY <1>8, <2>1 DEF Still
    <3> HIDE DEF a, d, e, n
    <3>4. a - a + e - d <= n - n
      BY <3>2
    <3> QED
      BY <3>2, <3>3, <3>4 DEF a, d, e, n
  <2>4. Counters'
    BY <1>0, <1>1, <1>8 DEF Still, SameWork, Counters
  <2> QED
    BY <2>3, <2>4
<1>9. ASSUME NEW x \in Objs, Posting(w, x)  PROVE Kept /\ Counters'
  <2>1. \A o \in Objs : Due(w, o)' = Due(w, o) - (IF x = o THEN 1 ELSE 0)
    <3>1. TAKE o \in Objs
    <3>2. Owing(w)' = x /\ pc[w] \notin NotCounted /\ pc[w] \in InHand /\ pc'[w] \in InHand
      BY <1>6, <1>7, <1>9 DEF Posting, NotCounted
    <3>3. Due(w, o)' = (IF sock(w) = o THEN 1 ELSE 0) - (IF x = o THEN 1 ELSE 0)
      BY <1>0, <3>2 DEF Due, sock
    <3>4. Due(w, o) = IF sock(w) = o THEN 1 ELSE 0
      BY <1>5, <3>2
    <3> QED
      BY <3>3, <3>4
  <2>2. Kept
    <3>1. TAKE o \in Objs
    <3> DEFINE a == Posts(o)
               b == Posts(o)'
               d == Due(w, o)
               e == Due(w, o)'
               n == OutstandingOps[o]
    <3>2. a \in Int /\ d \in Int /\ e \in Int /\ n \in Int /\ e = d - (IF x = o THEN 1 ELSE 0)
      BY <1>1, <1>4, <2>1
    <3>3. b = a + (IF o = x THEN 1 ELSE 0) /\ OutstandingOps'[o] = n
      BY <1>9 DEF Posting
    <3> HIDE DEF a, b, d, e, n
    <3>4. b \in Int /\ b - a + e - d <= n - n
      BY <3>2, <3>3
    <3> QED
      BY <3>2, <3>3, <3>4 DEF a, b, d, e, n
  <2>3. accepts' \in Nat
    <3>1. Posts(Listener) = accepts /\ Posts(Listener)' = accepts'
      BY DEF Posts
    <3>2. accepts' = accepts + (IF Listener = x THEN 1 ELSE 0)
      BY <1>9, <3>1, Sockets DEF Posting
    <3> QED
      BY <1>1, <3>2
  <2>4. Counters'
    BY <1>0, <1>1, <1>9, <2>3 DEF Counters, Posting
  <2> QED
    BY <2>2, <2>4
<1>10. ASSUME NEW x \in Objs, Counting(w, x)  PROVE Kept /\ Counters'
  <2>1. \A o \in Objs : Due(w, o)' = Due(w, o) + (IF x = o THEN 1 ELSE 0)
    <3>1. TAKE o \in Objs
    <3>2. Owing(w) = x /\ pc'[w] \notin NotCounted /\ pc[w] \in InHand /\ pc'[w] \in InHand
      BY <1>6, <1>7, <1>10 DEF Counting, NotCounted
    <3>3. Due(w, o) = (IF sock(w) = o THEN 1 ELSE 0) - (IF x = o THEN 1 ELSE 0)
      BY <3>2 DEF Due
    <3>4. Due(w, o)' = IF sock(w) = o THEN 1 ELSE 0
      BY <1>5, <3>2
    <3> QED
      BY <3>3, <3>4
  <2>2. \A o \in Objs : OutstandingOps'[o] = OutstandingOps[o] + (IF o = x THEN 1 ELSE 0)
    BY <1>1, <1>10 DEF Counting, AddOps
  <2>3. \A o \in Objs : Posts(o)' = Posts(o)
    BY <1>10 DEF Counting, SameWork, Posts
  <2>4. Kept
    <3>1. TAKE o \in Objs
    <3> DEFINE a == Posts(o)
               d == Due(w, o)
               e == Due(w, o)'
               n == OutstandingOps[o]
               m == OutstandingOps'[o]
    <3>2. a \in Int /\ d \in Int /\ e \in Int /\ n \in Int /\ e = d + (IF x = o THEN 1 ELSE 0)
      BY <1>1, <1>4, <2>1
    <3>3. Posts(o)' = a /\ m = n + (IF o = x THEN 1 ELSE 0)
      BY <2>2, <2>3
    <3> HIDE DEF a, d, e, n, m
    <3>4. m \in Int /\ a - a + e - d <= m - n
      BY <3>2, <3>3
    <3> QED
      BY <3>2, <3>3, <3>4 DEF a, d, e, n, m
  <2>5. Counters'
    BY <1>0, <1>1, <1>10 DEF Counters, Counting, SameWork, AddOps
  <2> QED
    BY <2>4, <2>5
<1>11. ASSUME CountingOff(w)  PROVE Kept /\ Counters'
  <2>1. \A o \in Objs : Due(w, o)' = Due(w, o) - (IF sock(w) = o THEN 1 ELSE 0)
    <3>1. TAKE o \in Objs
    <3>2. pc[w] \notin NotCounted /\ pc'[w] \notin NotCounted /\ pc[w] \in InHand /\ pc'[w] \notin InHand
      BY <1>6, <1>11 DEF CountingOff
    <3> QED
      BY <1>5, <3>2
  <2>2. \A o \in Objs : OutstandingOps'[o] = OutstandingOps[o] - (IF o = sock(w) THEN 1 ELSE 0)
    BY <1>0, <1>1, <1>11 DEF CountingOff, AddOps
  <2>3. \A o \in Objs : Posts(o)' = Posts(o)
    BY <1>11 DEF CountingOff, SameWork, Posts
  <2>4. Kept
    <3>1. TAKE o \in Objs
    <3> DEFINE a == Posts(o)
               d == Due(w, o)
               e == Due(w, o)'
               n == OutstandingOps[o]
               m == OutstandingOps'[o]
               x == sock(w)
    <3>2. a \in Int /\ d \in Int /\ e \in Int /\ n \in Int /\ e = d - (IF x = o THEN 1 ELSE 0)
      BY <1>1, <1>4, <2>1
    <3>3. Posts(o)' = a /\ m = n - (IF o = x THEN 1 ELSE 0)
      BY <2>2, <2>3
    <3> HIDE DEF a, d, e, n, m, x
    <3>4. m \in Int /\ a - a + e - d <= m - n
      BY <3>2, <3>3
    <3> QED
      BY <3>2, <3>3, <3>4 DEF a, d, e, n, m
  <2>5. Counters'
    BY <1>0, <1>1, <1>11 DEF Counters, CountingOff, SameWork, AddOps
  <2> QED
    BY <2>4, <2>5
<1>12. ASSUME UseAfterFree(w)  PROVE Kept /\ Counters'
  <2>1. UNCHANGED <<accepts, recvs, sends, OutstandingOps, pc, io>>
    BY <1>12 DEF UseAfterFree, kernelVars, threadVars
  <2>2. \A o \in Objs : Posts(o)' = Posts(o) /\ Due(w, o)' = Due(w, o)
    BY <2>1 DEF Posts, Due, Owing, sock, conn
  <2>3. Kept
    <3>1. TAKE o \in Objs
    <3> DEFINE a == Posts(o)
               d == Due(w, o)
               n == OutstandingOps[o]
    <3>2. a \in Int /\ d \in Int /\ n \in Int
      BY <1>1, <1>4
    <3>3. Posts(o)' = a /\ OutstandingOps'[o] = n /\ Due(w, o)' = d
      BY <2>1, <2>2
    <3> HIDE DEF a, d, n
    <3>4. a - a + d - d <= n - n
      BY <3>2
    <3> QED
      BY <3>2, <3>3, <3>4 DEF a, d, n
  <2>4. Counters'
    BY <1>0, <1>1, <2>1 DEF Counters
  <2> QED
    BY <2>3, <2>4
<1>13. Kept => Counts'
  BY <1>3, <1>4 DEF Counts
<1>14. Idle'
  BY <1>0 DEF CountInv, Idle, Busy
<1> HIDE DEF Kept
<1> QED
  BY <1>t, <1>8, <1>9, <1>10, <1>11, <1>12, <1>13, <1>14, HandleKinds
-----------------------------------------------------------------------------
(* What a step of HandleIo does to the memory.                             *)

\* Only FreeSocketObj frees, and it refuses while operations are counted.
LEMMA IdleKept ==
  ASSUME TypeOK, Shape, Counters, NEW w \in Threads, HandleIo(w), FreedIdle
  PROVE  FreedIdle'
<1>0. /\ conn(w) \in Objs /\ sock(w) \in Objs
      /\ OutstandingOps \in [Objs -> Int] /\ mem \in [Objs -> {"heap", "live", "freed"}]
  <2>1. Busy(w)
    BY Moves
  <2>2. conn(w) \in Objs /\ sock(w) \in Objs
    BY <2>1, OwnSocket, Sockets
  <2> QED
    BY <2>2 DEF Counters, TypeOK
<1> USE DEF Rest, Kernels, lifeVars
<1>1. ASSUME UNCHANGED <<mem, OutstandingOps>>  PROVE FreedIdle'
  BY <1>1 DEF FreedIdle
<1>2. ASSUME NEW o \in Objs, NEW n \in Int, Live(o), AddOps(o, n), UNCHANGED mem  PROVE FreedIdle'
  BY <1>0, <1>2 DEF FreedIdle, Live, AddOps
<1>3. ASSUME NEW o \in Objs, FreeSocketObj(o), UNCHANGED OutstandingOps  PROVE FreedIdle'
  BY <1>0, <1>3 DEF FreedIdle, FreeSocketObj
<1>4. CASE ErrorPath(w) \/ CountOff(w)
  BY <1>0, <1>2, <1>4 DEF ErrorPath, CountOff
<1>5. CASE CountPost(w) \/ CountAccept(w)
  BY <1>0, <1>2, <1>5, Sockets DEF CountPost, Posted, CountAccept
<1>6. CASE Dispatch(w) \/ SendCompleted(w) \/ TailSends(w) \/ CloseSocket(w)
  BY <1>1, <1>6 DEF Dispatch, SendCompleted, TailSends, CloseSocket
<1>7. CASE Sends(w)
  BY <1>1, <1>7, SendsCases DEF DoSend, SendRefused, DoSendFails, NoneInOrder
<1>8. CASE ReceiveAgain(w) \/ FirstSend(w) \/ FirstReceives(w) \/ PostAccept(w)
  BY <1>1, <1>8 DEF ReceiveAgain, FirstSend, FirstReceives, PostAccept
<1>9. CASE Accepted(w)
  BY <1>0, <1>9 DEF Accepted, FreedIdle
<1>10. CASE Free(w)
  BY <1>0, <1>3, <1>10 DEF Free
<1>11. CASE CheckAccepted(w)
  <2>1. UNCHANGED OutstandingOps /\ (UNCHANGED mem \/ FreeSocketObj(conn(w)))
    BY <1>11 DEF CheckAccepted
  <2> QED
    BY <1>0, <1>1, <1>3, <2>1
<1>12. CASE UseAfterFree(w)
  BY <1>1, <1>12 DEF UseAfterFree
<1> QED
  BY <1>4, <1>5, <1>6, <1>7, <1>8, <1>9, <1>10, <1>11, <1>12 DEF HandleIo, AcceptPath

\* A thread frees the SOCKET_OBJ of its completion, or of the client it has
\* accepted, in the last step that uses it.
LEMMA RefersKept ==
  ASSUME TypeOK, Shape, NEW w \in Threads, HandleIo(w), Refers(w)
  PROVE  Refers(w)'
<1>b. Busy(w)
  BY Moves
<1>0. /\ conn(w) \in Objs /\ sock(w) \in Objs /\ conn(w) # Listener /\ Busy(w)
      /\ io[w].op = "accept" => sock(w) = Listener
      /\ io' = io /\ (pc[w] \in AcceptPcs => io[w].op = "accept")
      /\ mem \in [Objs -> {"heap", "live", "freed"}] /\ pc \in [Threads -> Labels]
  BY <1>b, OwnSocket, Sockets, Stays DEF TypeOK, Shape
<1> USE DEF Rest, Kernels, lifeVars, At, Goto
<1>1. ASSUME UNCHANGED mem, pc'[w] \in AcceptPcs => pc[w] \in AcceptPcs  PROVE Refers(w)'
  BY <1>0, <1>1 DEF Refers, Busy, sock, conn
<1>2. CASE ErrorPath(w) \/ CountOff(w) \/ Dispatch(w) \/ SendCompleted(w) \/ TailSends(w) \/ CloseSocket(w)
  BY <1>0, <1>1, <1>2 DEF ErrorPath, CountOff, Dispatch, SendCompleted, TailSends, NoSend, CloseSocket, AcceptPcs
<1>3. CASE CountPost(w) \/ CountAccept(w)
  BY <1>0, <1>1, <1>3 DEF CountPost, CountAccept, AcceptPcs
<1>4. CASE Sends(w)
  BY <1>0, <1>1, <1>4, SendsCases DEF DoSend, SendRefused, DoSendFails, NoneInOrder, AcceptPcs
<1>5. CASE ReceiveAgain(w) \/ FirstSend(w) \/ FirstReceives(w) \/ PostAccept(w)
  BY <1>0, <1>1, <1>5 DEF ReceiveAgain, FirstSend, FirstReceives, PostAccept, AcceptPcs
<1>6. CASE Accepted(w)
  <2>1. io[w].op = "accept" /\ mem' = [mem EXCEPT ![conn(w)] = "live"]
    BY <1>6 DEF Accepted
  <2>2. mem'[conn(w)] = "live" /\ mem'[sock(w)] = mem[sock(w)]
    BY <1>0, <2>1
  <2> QED
    BY <1>0, <2>2 DEF Refers, Busy, sock, conn
<1>7. CASE Free(w)
  <2>1. pc'[w] = "wait"
    BY <1>0, <1>7 DEF Free
  <2> QED
    BY <2>1 DEF Refers, Busy, AcceptPcs
<1>8. CASE CheckAccepted(w)
  <2>1. /\ pc[w] = "check" /\ pc'[w] = "dec"
        /\ UNCHANGED mem \/ FreeSocketObj(conn(w))
    BY <1>0, <1>8 DEF CheckAccepted
  <2>2. sock(w) = Listener /\ mem'[sock(w)] = mem[sock(w)]
    BY <1>0, <2>1 DEF AcceptPcs, FreeSocketObj
  <2> QED
    BY <1>0, <2>1, <2>2 DEF Refers, Busy, sock, AcceptPcs
<1>9. CASE UseAfterFree(w)
  BY <1>1, <1>9 DEF UseAfterFree, threadVars
<1> QED
  BY <1>2, <1>3, <1>4, <1>5, <1>6, <1>7, <1>8, <1>9 DEF HandleIo, AcceptPath

LEMMA RefusalStays ==
  ASSUME NEW w \in Threads, HandleIo(w)
  PROVE  UNCHANGED sendFailed \/ sendFailed' = 1
<1> USE DEF Rest, Kernels
<1>1. CASE Sends(w)
  BY <1>1, SendsCases DEF SendRefused, NoneInOrder, DoSend, DoSendFails, PostSend, PostSendFails
<1>2. CASE ErrorPath(w) \/ Dispatch(w) \/ SendCompleted(w)
  BY <1>2 DEF ErrorPath, Dispatch, SendCompleted
<1>3. CASE ReceiveAgain(w) \/ FirstReceives(w)
  BY <1>3 DEF ReceiveAgain, FirstReceives, PostRecv, PostRecvFails, CountRecv
<1>4. CASE FirstSend(w)
  BY <1>4 DEF FirstSend, PostSend, PostSendFails
<1>5. CASE CountPost(w) \/ CountOff(w) \/ TailSends(w) \/ CloseSocket(w) \/ Free(w)
  BY <1>5 DEF CountPost, CountOff, TailSends, CloseSocket, Free
<1>6. CASE Accepted(w) \/ PostAccept(w) \/ CountAccept(w) \/ CheckAccepted(w)
  BY <1>6 DEF Accepted, PostAccept, CountAccept, CheckAccepted
<1>7. CASE UseAfterFree(w)
  BY <1>7 DEF UseAfterFree
<1> QED
  BY <1>1, <1>2, <1>3, <1>4, <1>5, <1>6, <1>7 DEF HandleIo, AcceptPath

LEMMA StillDefined ==
  ASSUME NEW w \in Threads, HandleIo(w), ~UseAfterFree(w)
  PROVE  UNCHANGED undefined
<1> USE DEF Rest, Kernels
<1>1. CASE Sends(w)
  BY <1>1, SendsCases DEF SendRefused, NoneInOrder, DoSend, DoSendFails
<1>2. CASE ErrorPath(w) \/ Dispatch(w) \/ SendCompleted(w)
  BY <1>2 DEF ErrorPath, Dispatch, SendCompleted
<1>3. CASE ReceiveAgain(w) \/ FirstReceives(w) \/ FirstSend(w)
  BY <1>3 DEF ReceiveAgain, FirstReceives, FirstSend
<1>4. CASE CountPost(w) \/ CountOff(w) \/ TailSends(w) \/ CloseSocket(w) \/ Free(w)
  BY <1>4 DEF CountPost, CountOff, TailSends, CloseSocket, Free
<1>5. CASE Accepted(w) \/ PostAccept(w) \/ CountAccept(w) \/ CheckAccepted(w)
  BY <1>5 DEF Accepted, PostAccept, CountAccept, CheckAccepted
<1> QED
  BY <1>1, <1>2, <1>3, <1>4, <1>5 DEF HandleIo, AcceptPath

\* A pending buffer is freed only when WSASend has failed.
LEMMA SendsKept ==
  ASSUME TypeOK, Shape, NEW w \in Threads, HandleIo(w), NoFreedSend, sendFailed' = 0
  PROVE  NoFreedSend'
<1> USE DEF Rest, Kernels, orderVars, lifeVars
<1>0. OutOfOrderSends \in [Objs -> Seq(Pending)]
  BY DEF TypeOK
<1>1. ASSUME UNCHANGED OutOfOrderSends  PROVE NoFreedSend'
  BY <1>1 DEF NoFreedSend
<1>2. CASE Dispatch(w)
  <2>1. /\ UNCHANGED sendFailed /\ pc[w] = "enter" /\ io[w].op = "recv"
        /\ \/ UNCHANGED OutOfOrderSends
           \/ OutOfOrderSends' = [OutOfOrderSends EXCEPT ![sock(w)] =
                InsertPendingSend(@, [ord |-> io[w].ord, unit |-> io[w].unit])]
    BY <1>2 DEF Dispatch, At
  <2>2. sock(w) \in Conns /\ sock(w) \in Objs /\ io[w].ord \in Nat /\ io[w].unit \in Nat
    BY <2>1, OwnSocket DEF Busy
  <2> DEFINE b == [ord |-> io[w].ord, unit |-> io[w].unit]
             c == sock(w)
             list == OutOfOrderSends[c]
             r == InsertPendingSend(list, b)
  <2>3. b \in Pending /\ b.ord # Freed
    BY <2>2 DEF Pending, Freed
  <2>4. list \in Seq(Pending)
    BY <1>0, <2>2
  <2>5. Inserted(list, b, r)
    BY <2>3, <2>4, InsertInserts
  <2>6. \A n \in DOMAIN list : list[n].ord # Freed
    BY <2>2 DEF NoFreedSend
  <2> HIDE DEF b, list, r
  <2>7. \A n \in DOMAIN r : r[n].ord # Freed
    <3>1. Len(r) = Len(list) + 1 /\ DOMAIN r = 1 .. Len(list) + 1 /\ Len(list) \in Nat
          /\ DOMAIN list = 1 .. Len(list)
      BY <2>4, <2>5 DEF Inserted
    <3>2. PICK k \in 1 .. Len(list) + 1 :
            \A n \in 1 .. Len(list) + 1 :
              r[n] = IF n < k THEN list[n] ELSE IF n = k THEN b ELSE list[n - 1]
      BY <2>5 DEF Inserted
    <3>3. ASSUME NEW n \in DOMAIN r  PROVE r[n].ord # Freed
      <4>1. n < k => n \in DOMAIN list /\ r[n] = list[n]
        BY <3>1, <3>2
      <4>2. n = k => r[n] = b
        BY <3>1, <3>2
      <4>3. n > k => n - 1 \in DOMAIN list /\ r[n] = list[n - 1]
        BY <3>1, <3>2
      <4>4. n < k \/ n = k \/ n > k
        BY <3>1
      <4> QED
        BY <2>3, <2>6, <4>1, <4>2, <4>3, <4>4
    <3> QED
      BY <3>3
  <2>8. CASE OutOfOrderSends' = [OutOfOrderSends EXCEPT ![c] = r]
    <3>1. OutOfOrderSends'[c] = r /\ \A d \in Conns : d # c => OutOfOrderSends'[d] = OutOfOrderSends[d]
      BY <1>0, <2>2, <2>8, Sockets
    <3> HIDE DEF c
    <3>2. ASSUME NEW d \in Conns, NEW n \in DOMAIN OutOfOrderSends'[d]
          PROVE  OutOfOrderSends'[d][n].ord # Freed
      <4>1. CASE d = c
        BY <2>7, <3>1, <3>2, <4>1
      <4>2. CASE d # c
        BY <3>1, <3>2, <4>2 DEF NoFreedSend
      <4> QED
        BY <4>1, <4>2
    <3> QED
      BY <3>2 DEF NoFreedSend
  <2>9. UNCHANGED OutOfOrderSends \/ OutOfOrderSends' = [OutOfOrderSends EXCEPT ![c] = r]
    BY <2>1 DEF r, list, b
  <2> QED
    BY <1>1, <2>1, <2>8, <2>9
<1>3. CASE DoSend(w)
  <2>1. /\ UNCHANGED sendFailed /\ OutOfOrderSends[sock(w)] # <<>>
        /\ OutOfOrderSends' = [OutOfOrderSends EXCEPT ![sock(w)] = Tail(@)]
    BY <1>3 DEF DoSend, PostSend, InOrder
  <2>2. sock(w) \in Objs /\ (sock(w) \in Conns \/ sock(w) = Listener)
    BY <1>3, OwnSocket, Sockets DEF DoSend, At, Busy
  <2> DEFINE c == sock(w)
             list == OutOfOrderSends[c]
             r == Tail(list)
  <2>3. list \in Seq(Pending) /\ list # <<>>
    BY <1>0, <2>1, <2>2
  <2> HIDE DEF list
  <2>4. \A n \in DOMAIN r : n + 1 \in DOMAIN list /\ r[n] = list[n + 1]
    BY <2>3, TailOf
  <2> HIDE DEF r
  <2>5. c \in Conns => \A n \in DOMAIN r : r[n].ord # Freed
    <3>1. c \in Conns => \A n \in DOMAIN list : list[n].ord # Freed
      BY DEF NoFreedSend, list
    <3> QED
      BY <2>4, <3>1
  <2>6. OutOfOrderSends'[c] = r /\ \A d \in Conns : d # c => OutOfOrderSends'[d] = OutOfOrderSends[d]
    BY <1>0, <2>1, <2>2, Sockets DEF r, list
  <2> HIDE DEF c
  <2> QED
    BY <2>1, <2>5, <2>6 DEF NoFreedSend
<1>4. CASE SendRefused(w)
  BY <1>4 DEF SendRefused, DoSendFails, PostSendFails
<1>5. CASE NoneInOrder(w)
  BY <1>1, <1>5 DEF NoneInOrder
<1>6. CASE ErrorPath(w) \/ SendCompleted(w) \/ CountOff(w) \/ TailSends(w) \/ CloseSocket(w) \/ Free(w)
  BY <1>1, <1>6 DEF ErrorPath, SendCompleted, CountOff, TailSends, CloseSocket, Free
<1>7. CASE ReceiveAgain(w) \/ FirstReceives(w)
  BY <1>1, <1>7 DEF ReceiveAgain, FirstReceives, PostRecv, PostRecvFails, CountRecv
<1>8. CASE FirstSend(w)
  BY <1>1, <1>8 DEF FirstSend, PostSend, PostSendFails
<1>9. CASE CountPost(w) \/ Accepted(w) \/ PostAccept(w) \/ CountAccept(w) \/ CheckAccepted(w)
  BY <1>1, <1>9 DEF CountPost, Accepted, PostAccept, CountAccept, CheckAccepted
<1>10. CASE UseAfterFree(w)
  BY <1>1, <1>10 DEF UseAfterFree
<1> QED
  BY <1>2, <1>3, <1>4, <1>5, <1>6, <1>7, <1>8, <1>9, <1>10, SendsCases DEF HandleIo, AcceptPath

\* Nothing a thread uses has been freed.
LEMMA NoneDangles ==
  ASSUME TypeOK, Shape, NEW w \in Threads, Refers(w), NoFreedSend
  PROVE  ~Dangling(w)
<1>1. UsesConn \cup {"check"} \subseteq AcceptPcs /\ \A l \in UsesSock : l # "wait"
  BY DEF UsesConn, UsesSock, AcceptPcs
<1>2. sock(w) \in Conns /\ OutOfOrderSends[sock(w)] # <<>> => Head(OutOfOrderSends[sock(w)]).ord # Freed
  <2>1. SUFFICES ASSUME sock(w) \in Conns, OutOfOrderSends[sock(w)] # <<>>
                 PROVE  Head(OutOfOrderSends[sock(w)]).ord # Freed
    OBVIOUS
  <2> DEFINE list == OutOfOrderSends[sock(w)]
  <2>2. list \in Seq(Pending) /\ list # <<>> /\ \A n \in DOMAIN list : list[n].ord # Freed
    BY <2>1, Sockets DEF TypeOK, NoFreedSend
  <2> HIDE DEF list
  <2>3. Head(list) = list[1] /\ 1 \in DOMAIN list
    BY <2>2, TailOf
  <2> QED
    BY <2>2, <2>3 DEF list
<1> QED
  BY <1>1, <1>2 DEF Dangling, Refers, Busy, At

LEMMA HandleLife ==
  ASSUME LifeInv, NEW w \in Threads, HandleIo(w)
  PROVE  (One /\ sendFailed = 0 => Life)'
<1>0. /\ TypeOK /\ Shape /\ Counters /\ Busy(w) /\ UNCHANGED <<threads, io>>
      /\ w \in threads
  <2>1. TypeOK /\ Shape /\ Counters /\ Idle
    BY DEF LifeInv, CountInv, Inv
  <2>2. Busy(w) /\ UNCHANGED <<threads, io>>
    BY <2>1, Moves, Stays DEF clientVars
  <2> QED
    BY <2>1, <2>2 DEF Idle
<1>1. SUFFICES ASSUME One, (sendFailed = 0)'  PROVE Life'
  BY <1>0 DEF One
<1>2. sendFailed = 0
  BY <1>1, RefusalStays
<1>3. Life /\ \A v \in threads : v = w
  BY <1>0, <1>1, <1>2 DEF LifeInv, One
<1>4. FreedIdle' /\ Refers(w)' /\ NoFreedSend'
  BY <1>0, <1>1, <1>3, IdleKept, RefersKept, SendsKept DEF Life
<1>5. ~UseAfterFree(w)
  BY <1>0, <1>3, NoneDangles DEF Life, UseAfterFree
<1>6. undefined' = 0
  BY <1>3, <1>5, StillDefined DEF Life
<1> QED
  BY <1>0, <1>3, <1>4, <1>6 DEF Life
-----------------------------------------------------------------------------
LEMMA CountNext == CountInv /\ [Next]_vars => CountInv'
<1> SUFFICES ASSUME CountInv, [Next]_vars  PROVE CountInv'
  OBVIOUS
<1>1. Inv' /\ TypeOK'
  BY InvNext DEF CountInv, Inv
<1>2. ASSUME NEW c \in Conns, Shutdown(c) \/ Reset(c) \/ Kernel(c)  PROVE CountInv'
  BY <1>1, <1>2, KernelCounts DEF CountInv
<1>3. ASSUME NEW w \in Threads, Take(w) \/ HandleIo(w)  PROVE CountInv'
  BY <1>1, <1>3, TakeCounts, CountsKept DEF CountInv
<1>4. CASE Sweep \/ UNCHANGED vars
  <2>1. UNCHANGED <<threads, accepts, recvs, sends, port, OutstandingOps, pc, io>>
    BY <1>4 DEF Sweep, vars, clientVars, kernelVars, threadVars
  <2>2. \A o : Work(o)' = Work(o) /\ Dues(o)' = Dues(o)
    BY <2>1 DEF Work, Posts, OnPort, Dues, Hands, Owings, Owing, sock, conn
  <2> QED
    BY <1>1, <2>1, <2>2 DEF CountInv, Counters, Counts, Idle, Busy
<1> QED
  BY <1>2, <1>3, <1>4 DEF Next

LEMMA LifeNext == LifeInv /\ [Next]_vars => LifeInv'
<1> SUFFICES ASSUME LifeInv, [Next]_vars  PROVE LifeInv'
  OBVIOUS
<1>1. CountInv /\ CountInv'
  BY CountNext DEF LifeInv
<1>2. ASSUME NEW c \in Conns, Shutdown(c) \/ Reset(c) \/ Kernel(c)  PROVE LifeInv'
  <2>1. (One /\ sendFailed = 0 => Life)'
    BY <1>2, KernelLife
  <2>2. (sendFailed \in 0 .. 1)'
    BY <1>1, <1>2, KernelCounters DEF LifeInv, CountInv
  <2> QED
    BY <1>1, <2>1, <2>2 DEF LifeInv
<1>3. ASSUME NEW w \in Threads, Take(w) \/ HandleIo(w)  PROVE LifeInv'
  <2>1. (One /\ sendFailed = 0 => Life)'
    BY <1>3, TakeLife, HandleLife
  <2>2. (sendFailed \in 0 .. 1)'
    BY <1>3, RefusalStays DEF LifeInv, Take
  <2> QED
    BY <1>1, <2>1, <2>2 DEF LifeInv
<1>4. CASE Sweep \/ UNCHANGED vars
  <2>1. UNCHANGED <<threads, OutstandingOps, mem, OutOfOrderSends, pc, io, sendFailed, undefined>>
    BY <1>4 DEF Sweep, vars, clientVars, orderVars, lifeVars, threadVars, history
  <2>2. One' => One
    BY <2>1 DEF One
  <2>3. ASSUME Life  PROVE Life'
    <3>1. \A w \in threads : Refers(w)'
      BY <2>1, <2>3 DEF Life, Refers, Busy, sock, conn
    <3> QED
      BY <2>1, <2>3, <3>1 DEF Life, FreedIdle, NoFreedSend
  <2> QED
    BY <1>1, <2>1, <2>2, <2>3 DEF LifeInv
<1> QED
  BY <1>2, <1>3, <1>4 DEF Next

LEMMA FewThreads ==
  ASSUME threads \in ThreadSets, ~(Cardinality(threads) > 1)
  PROVE  One
<1>0. IsFiniteSet(threads)
  BY ConstAssumption
<1>1. SUFFICES ASSUME NEW v \in threads, NEW w \in threads, v # w  PROVE FALSE
  BY DEF One
<1> DEFINE A == threads \ {v}
           B == A \ {w}
           n == Cardinality(threads)
<1>2. n \in Nat /\ Cardinality(A) = n - 1 /\ IsFiniteSet(A)
  BY <1>0, FS_CardinalityType, FS_RemoveElement
<1>3. w \in A
  BY <1>1
<1> HIDE DEF A, n
<1>4. Cardinality(B) = (n - 1) - 1 /\ IsFiniteSet(B)
  BY <1>2, <1>3, FS_RemoveElement
<1>5. Cardinality(B) \in Nat
  BY <1>4, FS_CardinalityType
<1>6. ~(n > 1)
  BY <1>0 DEF n
<1> HIDE DEF B
<1> QED
  BY <1>2, <1>4, <1>5, <1>6

\* FreeSocketObj counts on OutstandingOps: with one completion thread, until
\* a WSASend has failed at once, nothing that was freed is used again,
\* whatever the clients do and in whatever order completions arrive.
THEOREM FreedOnlyOnce == Spec => []FreedOnce
<1>1. LifeInv => FreedOnce
  <2>1. SUFFICES ASSUME LifeInv, undefined = 1, ~(Cardinality(threads) > 1)
                 PROVE  sendFailed = 1
    BY DEF FreedOnce
  <2>2. One
    BY <2>1, FewThreads DEF LifeInv, CountInv, Counters
  <2>3. sendFailed # 0
    BY <2>1, <2>2 DEF LifeInv, Life
  <2> QED
    BY <2>1, <2>3 DEF LifeInv
<1> QED
  BY <1>1, LifeInit, LifeNext, PTL DEF Spec
-----------------------------------------------------------------------------
(* The refinement of Echo.  What c has received is echoed or carried,      *)
(* whatever the threads do.  A count that falls to the thread's own        *)
(* completion while all that is posted is counted leaves nothing that      *)
(* carries a unit of c: then everything is echoed, and the socket may be   *)
(* closed.  A count that leaves something out is in miscounted.            *)

\* The unit u of c is in a receive that has completed and is not echoed yet.
Carried(c, u) ==
  \/ \E n \in DOMAIN port : port[n].op = "recv" /\ port[n].conn = c /\ port[n].unit = u
  \/ \E w \in Threads : pc[w] = "enter" /\ io[w].op = "recv" /\ conn(w) = c /\ io[w].unit = u
  \/ \E n \in DOMAIN OutOfOrderSends[c] : OutOfOrderSends[c][n].unit = u

\* What is posted on a client of TCP, or is about to be, comes after the
\* first send.
First == {"countSend", "receives", "countRecv"}
UsedBy(w, c) == Busy(w) /\ conn(w) = c /\ (io[w].op # "accept" \/ pc[w] \in First)
Used(c) ==
  \/ recvs[c] # <<>> \/ sends[c] # <<>>
  \/ \E n \in DOMAIN port : port[n].op # "accept" /\ port[n].conn = c
  \/ \E w \in Threads : UsedBy(w, c)
Begun(c) == ~Udp /\ Used(c) => LastSendIssued[c] # 0

\* The accept carries all that has been received.
Exact(c) ==
  /\ \A n \in DOMAIN port : port[n].op = "accept" /\ port[n].conn = c => port[n].unit = received[c]
  /\ \A w \in Threads : Opens(w) /\ conn(w) = c => io[w].unit = received[c]

Unsent(c) == ~Udp /\ LastSendIssued[c] = 0
Covers(c) == \A u \in 1 .. received[c] : u <= Len(echoed[c]) \/ Carried(c, u)
Covered(c) == Gone(c) \/ Unsent(c) \/ Covers(c)

UnitInv(c) == Begun(c) /\ Exact(c) /\ Covered(c)

\* Nothing is at work for c, so it receives no more.
Drained(c) ==
  /\ recvs[c] = <<>> /\ sends[c] = <<>> /\ NoItem(c)
  /\ \A w \in Threads : pc[w] \in InHand => conn(w) # c
\* All that c will ever have received is echoed.
Settled(c) ==
  Gone(c) \/ (Len(echoed[c]) = received[c] /\ (client[c] = "fin" \/ Drained(c)))

\* A client of TCP is marked closing when it has ended; UDP accepts none.
Ending ==
  /\ ~Udp => gaps = 0 /\ \A c \in Conns : bClosing[c] = 1 => Over(c)
  /\ Udp => /\ \A n \in DOMAIN port : port[n].op # "accept"
            /\ \A w \in Threads : Busy(w) => io[w].op # "accept"
Closes(w) ==
  pc[w] = "close" /\ sock(w) \in Conns => Settled(sock(w)) \/ sock(w) \in miscounted
EchoesInv ==
  CountInv /\ Ending /\ (\A w \in threads : Closes(w)) /\ \A c \in Conns : UnitInv(c)

\* The kernel adds at most one completion to the port, of something posted.
KernelAdds(d, x) ==
  /\ Queue(x) /\ x.conn = d
  /\ \/ x.op = "accept" /\ client[d] = "none" /\ received'[d] = x.unit
     \/ /\ x.op = "recv" /\ recvs[d] # <<>>
        /\ received'[d] = received[d] \/ (received'[d] = received[d] + 1 /\ x.unit = received'[d])
     \/ x.op = "send" /\ sends[d] # <<>> /\ received'[d] = received[d]
KernelKeeps(d) ==
  /\ UNCHANGED <<pc, io, OutOfOrderSends, LastSendIssued, echoed, handle, gProtocol, threads>>
  /\ \A c \in Conns : /\ client[c] = "reset" => client'[c] = "reset"
                      /\ recvs[c] = <<>> => recvs'[c] = <<>>
                      /\ sends[c] = <<>> => sends'[c] = <<>>
                      /\ c # d => received'[c] = received[c]

LEMMA KernelItem ==
  ASSUME TypeOK, NEW d \in Conns, Shutdown(d) \/ Reset(d) \/ Kernel(d), Phases(d)
  PROVE  /\ KernelKeeps(d)
         /\ UNCHANGED <<port, received>> \/ \E x \in Item : KernelAdds(d, x)
<1>0. /\ client \in [Conns -> {"none", "open", "fin", "reset"}] /\ received \in [Conns -> Nat]
      /\ recvs \in [Conns -> Seq(Nat)] /\ sends \in [Conns -> Seq(Nat)]
  BY DEF TypeOK
<1> USE DEF Outside, orderVars, lifeVars, threadVars
<1>1. CASE Shutdown(d) \/ Reset(d)
  BY <1>0, <1>1 DEF Shutdown, Reset, KernelKeeps
<1>2. CASE AcceptDone(d)
  <2>1. PICK n \in 0 .. 1 : /\ received' = [received EXCEPT ![d] = n]
                            /\ client' = [client EXCEPT ![d] = IF n = 0 THEN "fin" ELSE "open"]
                            /\ Queue(Done("accept", d, 0, n, 0))
    BY <1>2 DEF AcceptDone
  <2>2. KernelKeeps(d) /\ client[d] = "none" /\ received'[d] = n
    BY <1>0, <1>2, <2>1 DEF AcceptDone, KernelKeeps
  <2>3. KernelAdds(d, Done("accept", d, 0, n, 0)) /\ Done("accept", d, 0, n, 0) \in Item
    BY <2>1, <2>2, DoneItem DEF KernelAdds
  <2> QED
    BY <2>2, <2>3
<1>3. CASE AcceptFails(d)
  <2> DEFINE x == Done("accept", d, 0, 0, 1)
  <2>1. x \in Item /\ x.conn = d /\ x.op = "accept" /\ x.unit = 0
    BY DoneItem
  <2>2. KernelKeeps(d) /\ client[d] = "none" /\ received'[d] = 0 /\ Queue(x)
    BY <1>0, <1>3 DEF AcceptFails, KernelKeeps, Phases
  <2> QED
    BY <2>1, <2>2 DEF KernelAdds
<1>4. ASSUME NEW u \in Nat, NEW e \in 0 .. 1, RecvCompletes(d, u, e),
             \A c \in Conns : c # d => received'[c] = received[c],
             received'[d] = received[d] \/ (received'[d] = received[d] + 1 /\ u = received'[d])
      PROVE  KernelKeeps(d) /\ \E x \in Item : KernelAdds(d, x)
  <2>1. recvs[d] \in Seq(Nat) /\ recvs[d] # <<>> /\ recvs' = [recvs EXCEPT ![d] = Tail(@)]
    BY <1>0, <1>4 DEF RecvCompletes
  <2>2. Head(recvs[d]) \in Nat
    BY <2>1, TailOf
  <2>3. PICK n \in Nat : Queue(Done("recv", d, n, u, e))
    BY <1>4, <2>2 DEF RecvCompletes
  <2>4. Done("recv", d, n, u, e) \in Item /\ KernelAdds(d, Done("recv", d, n, u, e))
    BY <1>4, <2>1, <2>3, DoneItem DEF KernelAdds
  <2>5. \A c \in Conns : recvs[c] = <<>> => recvs'[c] = <<>>
    BY <1>0, <2>1
  <2>6. KernelKeeps(d)
    BY <1>4, <2>5 DEF RecvCompletes, KernelKeeps
  <2> QED
    BY <2>4, <2>6
<1>5. CASE RecvDone(d)
  <2> DEFINE u == received[d] + 1
  <2>1. u \in Nat /\ received' = [received EXCEPT ![d] = u] /\ RecvCompletes(d, u, 0)
    BY <1>0, <1>5 DEF RecvDone
  <2>2. received'[d] = u /\ \A c \in Conns : c # d => received'[c] = received[c]
    BY <1>0, <2>1
  <2> QED
    BY <1>4, <2>1, <2>2
<1>6. CASE RecvZero(d) \/ RecvError(d) \/ RecvTooLong(d)
  <2>1. UNCHANGED received /\ \E e \in 0 .. 1 : RecvCompletes(d, 0, e)
    BY <1>6 DEF RecvZero, RecvError, RecvTooLong
  <2> QED
    BY <1>4, <2>1
<1>7. CASE SendDone(d)
  <2>1. sends[d] \in Seq(Nat) /\ sends[d] # <<>> /\ sends' = [sends EXCEPT ![d] = Tail(@)]
    BY <1>0, <1>7 DEF SendDone
  <2>2. Head(sends[d]) \in Nat
    BY <2>1, TailOf
  <2>3. PICK e \in 0 .. 1, u \in Nat : Queue(Done("send", d, 0, u, e))
    BY <1>7, <2>2 DEF SendDone
  <2>4. UNCHANGED received
    BY <1>7 DEF SendDone
  <2>5. Done("send", d, 0, u, e) \in Item /\ KernelAdds(d, Done("send", d, 0, u, e))
    BY <2>1, <2>3, <2>4, DoneItem DEF KernelAdds
  <2>6. \A c \in Conns : sends[c] = <<>> => sends'[c] = <<>>
    BY <1>0, <2>1
  <2>7. KernelKeeps(d)
    BY <1>7, <2>6 DEF SendDone, KernelKeeps
  <2> QED
    BY <2>5, <2>7
<1> QED
  BY <1>1, <1>2, <1>3, <1>5, <1>6, <1>7 DEF Kernel

LEMMA KernelUnits ==
  ASSUME Inv, NEW d \in Conns, Shutdown(d) \/ Reset(d) \/ Kernel(d), NEW c \in Conns, UnitInv(c)
  PROVE  UnitInv(c)'
<1>0. /\ TypeOK /\ \A k \in Conns : Phases(k) /\ Leaving(k)
      /\ received \in [Conns -> Nat] /\ LastSendIssued[c] = LastSendIssued'[c]
  BY KernelItem DEF Inv, ConnInv, TypeOK, KernelKeeps
<1>1. KernelKeeps(d)
  BY <1>0, KernelItem
<1>2. /\ UNCHANGED <<pc, io, OutOfOrderSends, LastSendIssued, echoed, handle, gProtocol>>
      /\ recvs[c] = <<>> => recvs'[c] = <<>>
      /\ sends[c] = <<>> => sends'[c] = <<>>
      /\ c # d => received'[c] = received[c]
      /\ client[c] = "reset" => client'[c] = "reset"
  BY <1>1 DEF KernelKeeps
<1>3. \A w \in Threads : UsedBy(w, c)' <=> UsedBy(w, c)
  BY <1>2 DEF UsedBy, Busy, conn
<1>4. \A w \in Threads : Opens(w)' <=> Opens(w)
  BY <1>2 DEF Opens
<1>5. CASE UNCHANGED <<port, received>>
  <2>1. Used(c)' => Used(c)
    BY <1>2, <1>3, <1>5 DEF Used
  <2>2. \A u : Carried(c, u)' <=> Carried(c, u)
    BY <1>2, <1>5 DEF Carried, conn
  <2>3. Begun(c)'
    BY <1>2, <2>1 DEF UnitInv, Begun, Udp
  <2>4. Exact(c)'
    BY <1>2, <1>4, <1>5 DEF UnitInv, Exact, conn
  <2>5. Covered(c)'
    BY <1>2, <1>5, <2>2 DEF UnitInv, Covered, Gone, Unsent, Udp, Covers
  <2> QED
    BY <2>3, <2>4, <2>5 DEF UnitInv
<1>6. ASSUME NEW x \in Item, KernelAdds(d, x)  PROVE UnitInv(c)'
  <2>1. /\ port'[Len(port) + 1] = x /\ Len(port) + 1 \in DOMAIN port' /\ x.conn = d
        /\ \A n \in DOMAIN port : n \in DOMAIN port' /\ port'[n] = port[n]
        /\ \A n \in DOMAIN port' : n \in DOMAIN port \/ port'[n] = x
    <3>1. Queue(x) /\ x.conn = d
      BY <1>6 DEF KernelAdds
    <3>2. Len(port) + 1 \in DOMAIN port'
      <4>1. Len(port') = Len(port) + 1 /\ port' \in Seq(Item)
        BY <1>0, <3>1, PortAppend
      <4> QED
        BY <4>1
    <3> QED
      BY <1>0, <3>1, <3>2, PortAppend
  <2>2. Begun(c)'
    <3>1. SUFFICES ASSUME Used(c)'  PROVE Used(c)
      BY <1>2 DEF UnitInv, Begun, Udp
    <3>2. x.conn = c /\ x.op # "accept" => recvs[c] # <<>> \/ sends[c] # <<>>
      BY <1>6, <2>1 DEF KernelAdds
    <3> QED
      BY <1>2, <1>3, <2>1, <3>1, <3>2 DEF Used
  <2>3. c = d /\ received'[c] # received[c] =>
          /\ \A n \in DOMAIN port : ~(port[n].op = "accept" /\ port[n].conn = c)
          /\ \A w \in Threads : ~(Opens(w) /\ conn(w) = c)
    <3>1. SUFFICES ASSUME c = d, received'[c] # received[c]
                   PROVE  /\ \A n \in DOMAIN port : ~(port[n].op = "accept" /\ port[n].conn = c)
                          /\ \A w \in Threads : ~(Opens(w) /\ conn(w) = c)
      OBVIOUS
    <3>2. client[c] = "none" \/ recvs[c] # <<>>
      BY <1>6, <3>1 DEF KernelAdds
    <3> QED
      BY <1>0, <3>2 DEF Phases, Quiet, NoItem, NoThread, Opens, Busy, conn
  <2>4. Exact(c)'
    <3>1. ASSUME NEW n \in DOMAIN port', port'[n].op = "accept", port'[n].conn = c
          PROVE  port'[n].unit = received'[c]
      <4>1. CASE n \in DOMAIN port
        BY <1>2, <2>1, <2>3, <3>1, <4>1 DEF UnitInv, Exact
      <4>2. CASE port'[n] = x
        BY <1>6, <2>1, <3>1, <4>2 DEF KernelAdds
      <4> QED
        BY <2>1, <4>1, <4>2
    <3>2. ASSUME NEW w \in Threads, Opens(w)', conn(w)' = c  PROVE io'[w].unit = received'[c]
      BY <1>2, <1>4, <2>3, <3>2 DEF UnitInv, Exact, conn
    <3> QED
      BY <3>1, <3>2 DEF Exact
  <2>5. \A u : Carried(c, u) => Carried(c, u)'
    BY <1>2, <2>1 DEF Carried, conn
  <2>6. Covered(c)'
    <3>1. CASE Gone(c) \/ Unsent(c)
      BY <1>2, <3>1 DEF Gone, Unsent, Covered, Udp
    <3>2. CASE Covers(c) /\ received'[c] = received[c]
      BY <1>2, <2>5, <3>2 DEF Covers, Covered
    <3>3. CASE Covers(c) /\ received'[c] # received[c] /\ x.op = "recv"
      <4>1. c = d /\ received'[c] = received[c] + 1 /\ x.unit = received'[c]
        BY <1>2, <1>6, <3>3 DEF KernelAdds
      <4>2. \A u : u = x.unit => Carried(c, u)'
        BY <2>1, <3>3, <4>1 DEF Carried
      <4>3. ASSUME NEW u \in 1 .. received'[c]  PROVE u <= Len(echoed'[c]) \/ Carried(c, u)'
        <5>1. CASE u = received'[c]
          BY <4>1, <4>2, <5>1
        <5>2. CASE u # received'[c]
          <6>1. u \in 1 .. received[c]
            BY <1>0, <4>1, <5>2
          <6> QED
            BY <1>2, <2>5, <3>3, <6>1 DEF Covers
        <5> QED
          BY <5>1, <5>2
      <4> QED
        BY <4>3 DEF Covered, Covers
    <3>4. CASE received'[c] # received[c] /\ x.op # "recv"
      <4>1. c = d /\ client[c] = "none"
        BY <1>2, <1>6, <3>4 DEF KernelAdds
      <4>2. Unsent(c)
        BY <1>0, <4>1 DEF Phases, Quiet, Leaving, Unsent
      <4> QED
        BY <1>2, <4>2 DEF Unsent, Covered, Udp
    <3> QED
      BY <3>1, <3>2, <3>3, <3>4 DEF UnitInv, Covered
  <2> QED
    BY <2>2, <2>4, <2>6 DEF UnitInv
<1> QED
  BY <1>0, <1>5, <1>6, KernelItem

\* A completion goes from the port to the thread.
LEMMA TakeUnits ==
  ASSUME Inv, NEW w \in Threads, Take(w), NEW c \in Conns, UnitInv(c)
  PROVE  UnitInv(c)'
<1>0. TypeOK /\ Leaving(c)
  BY DEF Inv, ConnInv
<1>1. /\ UNCHANGED <<gProtocol, client, received, recvs, sends, echoed, LastSendIssued,
                     OutOfOrderSends, handle>>
      /\ 1 \in DOMAIN port /\ pc[w] = "wait" /\ io'[w] = port[1] /\ pc'[w] \in {"enter", "error"}
      /\ \A v \in Threads : v # w => pc'[v] = pc[v] /\ io'[v] = io[v]
      /\ \A n \in DOMAIN port' : n + 1 \in DOMAIN port /\ port'[n] = port[n + 1]
      /\ \A n \in DOMAIN port : n # 1 => n - 1 \in DOMAIN port' /\ port'[n - 1] = port[n]
      /\ pc'[w] = "error" => port[1].err = 1
  BY <1>0, TakeFacts DEF clientVars, orderVars, lifeVars
<1>2. \A n \in DOMAIN port' : \E m \in DOMAIN port : port'[n] = port[m]
  BY <1>1
<1>3. Begun(c)'
  <2>1. ASSUME NEW v \in Threads, UsedBy(v, c)'  PROVE Used(c)
    <3>1. CASE v = w
      BY <1>1, <2>1, <3>1 DEF UsedBy, Used, First, conn
    <3>2. CASE v # w
      BY <1>1, <2>1, <3>2 DEF UsedBy, Used, Busy, conn
    <3> QED
      BY <3>1, <3>2
  <2>2. Used(c)' => Used(c)
    BY <1>1, <1>2, <2>1 DEF Used
  <2> QED
    BY <1>1, <2>2 DEF UnitInv, Begun, Udp
<1>4. Exact(c)'
  BY <1>1, <1>2 DEF UnitInv, Exact, Opens, conn
<1>5. ASSUME NEW u \in Nat, u # 0, Carried(c, u)  PROVE Carried(c, u)'
  <2>1. CASE \E n \in DOMAIN port : port[n].op = "recv" /\ port[n].conn = c /\ port[n].unit = u
    <3>1. PICK n \in DOMAIN port : port[n].op = "recv" /\ port[n].conn = c /\ port[n].unit = u
      BY <2>1
    <3>2. CASE n = 1
      <4>1. pc'[w] = "enter"
        BY <1>0, <1>1, <1>5, <3>1, <3>2 DEF Leaving, Empty
      <4> QED
        BY <1>1, <3>1, <3>2, <4>1 DEF Carried, conn
    <3>3. CASE n # 1
      BY <1>1, <3>1, <3>3 DEF Carried
    <3> QED
      BY <3>2, <3>3
  <2>2. CASE \E v \in Threads :
               pc[v] = "enter" /\ io[v].op = "recv" /\ conn(v) = c /\ io[v].unit = u
    BY <1>1, <2>2 DEF Carried, conn
  <2>3. CASE \E n \in DOMAIN OutOfOrderSends[c] : OutOfOrderSends[c][n].unit = u
    BY <1>1, <2>3 DEF Carried
  <2> QED
    BY <1>5, <2>1, <2>2, <2>3 DEF Carried
<1>6. Covered(c)'
  <2>1. \A u \in 1 .. received[c] : u \in Nat /\ u # 0
    BY <1>0 DEF TypeOK
  <2> QED
    BY <1>1, <1>5, <2>1 DEF UnitInv, Covered, Gone, Unsent, Udp, Covers
<1> QED
  BY <1>3, <1>4, <1>6 DEF UnitInv

-----------------------------------------------------------------------------
(* A step of a thread. *)

\* A thread touches the socket of another connection in no way.
LEMMA ElseUnits ==
  ASSUME Inv, NEW w \in Threads, HandleIo(w), NEW c \in Conns, c # conn(w), UnitInv(c)
  PROVE  UnitInv(c)'
<1>0. TypeOK /\ Shape
  BY DEF Inv
<1>1. /\ Same(c) /\ UNCHANGED <<gProtocol, port, io>>
      /\ \A v \in Threads : v # w => pc'[v] = pc[v]
  BY <1>0, Local, Stays, Moves DEF clientVars
<1>2. \A v \in Threads : conn(v) = c => pc'[v] = pc[v] /\ conn(v)' = c
  BY <1>1 DEF conn
<1>3. \A v \in Threads : conn(v)' = c => conn(v) = c
  BY <1>1 DEF conn
<1>4. Begun(c)'
  <2>1. Used(c)' => Used(c)
    BY <1>1, <1>2, <1>3 DEF Used, UsedBy, Busy, Same
  <2> QED
    BY <1>1, <2>1 DEF UnitInv, Begun, Udp, Same
<1>5. Exact(c)'
  BY <1>1, <1>2, <1>3 DEF UnitInv, Exact, Opens, Same
<1>6. \A u : Carried(c, u) => Carried(c, u)'
  BY <1>1, <1>2 DEF Carried, Same
<1> QED
  BY <1>1, <1>4, <1>5, <1>6 DEF UnitInv, Covered, Covers, Gone, Unsent, Udp, Same

\* The steps of the accept path that post nothing, and the first send.
LEMMA AcceptUse ==
  ASSUME TypeOK, Shape, NEW w \in Threads, HandleIo(w), io[w].op = "accept",
         pc[w] \notin First, NEW c \in Conns, c = conn(w)
  PROVE  \/ FirstSend(w) /\ LastSendIssued'[c] = LastSendIssued[c] + 1
         \/ UNCHANGED <<recvs, sends, LastSendIssued>> /\ pc'[w] \notin First
<1>0. /\ pc \in [Threads -> Labels] /\ LastSendIssued \in [Objs -> Nat] /\ c \in Objs
      /\ pc[w] \notin SocketPcs /\ Busy(w)
  BY Moves, Sockets DEF TypeOK, Shape
<1> USE DEF At, Goto, Rest, Kernels, orderVars, lifeVars, First, SocketPcs
<1>1. CASE FirstSend(w)
  BY <1>0, <1>1 DEF FirstSend, PostSend, PostSendFails, CountSend
<1>2. CASE ErrorPath(w) \/ Dispatch(w) \/ SendCompleted(w) \/ ReceiveAgain(w) \/ Sends(w)
  BY <1>0, <1>2, SendsCases DEF ErrorPath, Dispatch, SendCompleted, ReceiveAgain, DoSend,
     SendRefused, DoSendFails, NoneInOrder, NoSend
<1>3. CASE CountPost(w) \/ CountOff(w) \/ TailSends(w) \/ CloseSocket(w) \/ Free(w)
  BY <1>0, <1>3 DEF CountPost, CountOff, TailSends, NoSend, CloseSocket, Free
<1>4. CASE Accepted(w) \/ FirstReceives(w) \/ PostAccept(w) \/ CountAccept(w) \/ CheckAccepted(w)
  BY <1>0, <1>4 DEF Accepted, FirstReceives, PostAccept, CountAccept, CheckAccepted
<1>5. CASE UseAfterFree(w)
  BY <1>0, <1>5 DEF UseAfterFree, kernelVars, threadVars
<1> QED
  BY <1>1, <1>2, <1>3, <1>4, <1>5 DEF HandleIo, AcceptPath

LEMMA SendsGrow ==
  ASSUME TypeOK, NEW w \in Threads, HandleIo(w), NEW c \in Conns, LastSendIssued[c] # 0
  PROVE  LastSendIssued'[c] # 0
<1>0. LastSendIssued \in [Objs -> Nat] /\ c \in Objs
  BY Sockets DEF TypeOK
<1> USE DEF Rest, Kernels, orderVars
<1>1. ASSUME NEW d, CountSend(d)  PROVE LastSendIssued'[c] # 0
  BY <1>0, <1>1 DEF CountSend
<1>2. CASE FirstSend(w)
  BY <1>1, <1>2 DEF FirstSend, PostSend, PostSendFails
<1>3. CASE Sends(w)
  BY <1>1, <1>3, SendsCases DEF DoSend, PostSend, SendRefused, DoSendFails, PostSendFails,
     NoneInOrder
<1>4. CASE ErrorPath(w) \/ Dispatch(w) \/ SendCompleted(w)
  BY <1>4 DEF ErrorPath, Dispatch, SendCompleted
<1>5. CASE ReceiveAgain(w) \/ FirstReceives(w)
  BY <1>5 DEF ReceiveAgain, FirstReceives, PostRecv, PostRecvFails, CountRecv
<1>6. CASE CountPost(w) \/ CountOff(w) \/ TailSends(w) \/ CloseSocket(w) \/ Free(w)
  BY <1>6 DEF CountPost, CountOff, TailSends, CloseSocket, Free
<1>7. CASE Accepted(w) \/ PostAccept(w) \/ CountAccept(w) \/ CheckAccepted(w)
  BY <1>7 DEF Accepted, PostAccept, CountAccept, CheckAccepted
<1>8. CASE UseAfterFree(w)
  BY <1>8 DEF UseAfterFree
<1> QED
  BY <1>2, <1>3, <1>4, <1>5, <1>6, <1>7, <1>8 DEF HandleIo, AcceptPath

LEMMA PendingMoves ==
  ASSUME TypeOK, Shape, NEW w \in Threads, HandleIo(w)
  PROVE  \/ Dispatch(w) \/ DoSend(w) \/ Gone(conn(w)) \/ UseAfterFree(w)
         \/ UNCHANGED OutOfOrderSends /\ ~(pc[w] = "enter" /\ io[w].op = "recv")
<1> USE DEF At, Rest, Kernels, orderVars
<1>1. CASE Sends(w)
  <2>1. CASE SendRefused(w)
    <3>1. sock(w) = conn(w)
      BY <2>1, Moves, OwnSocket DEF SendRefused, DoSendFails, SocketPcs, Shape
    <3> QED
      BY <2>1, <3>1 DEF SendRefused, DoSendFails, PostSendFails
  <2>2. CASE NoneInOrder(w)
    BY <2>2 DEF NoneInOrder, NoSend
  <2> QED
    BY <1>1, <2>1, <2>2, SendsCases
<1>2. CASE ErrorPath(w) \/ SendCompleted(w)
  BY <1>2 DEF ErrorPath, SendCompleted
<1>3. CASE ReceiveAgain(w) \/ FirstReceives(w) \/ FirstSend(w)
  BY <1>3 DEF ReceiveAgain, FirstReceives, FirstSend, PostRecv, PostRecvFails, CountRecv
<1>4. CASE CountPost(w) \/ CountOff(w) \/ TailSends(w) \/ CloseSocket(w) \/ Free(w)
  BY <1>4 DEF CountPost, CountOff, TailSends, NoSend, CloseSocket, Free
<1>5. CASE Accepted(w) \/ PostAccept(w) \/ CountAccept(w) \/ CheckAccepted(w)
  BY <1>5 DEF Accepted, PostAccept, CountAccept, CheckAccepted
<1> QED
  BY <1>1, <1>2, <1>3, <1>4, <1>5 DEF HandleIo, AcceptPath

\* A unit that is carried goes to the pending list, and from its head to the
\* client.
LEMMA UnitMoves ==
  ASSUME Inv, Inv', NEW w \in Threads, HandleIo(w), NEW c \in Conns, c = conn(w), ~Gone(c),
         NEW u \in Nat, u # 0, Carried(c, u)
  PROVE  u <= Len(echoed'[c]) \/ Carried(c, u)'
<1>0. /\ TypeOK /\ Shape /\ Leaving(c) /\ EchoInv(c)' /\ Busy(w)
      /\ UNCHANGED <<port, io>> /\ c \in Objs
      /\ \A v \in Threads : v # w => pc'[v] = pc[v]
      /\ OutOfOrderSends \in [Objs -> Seq(Pending)]
  <2>1. TypeOK /\ Shape /\ Leaving(c)
    BY DEF Inv, ConnInv
  <2>2. EchoInv(c)'
    BY DEF Inv, ConnInv
  <2>3. Busy(w) /\ \A v \in Threads : v # w => pc'[v] = pc[v]
    BY <2>1, Moves
  <2>4. UNCHANGED <<port, io>>
    BY Stays
  <2>5. OutOfOrderSends \in [Objs -> Seq(Pending)] /\ c \in Objs
    BY <2>1, Sockets DEF TypeOK
  <2> QED
    BY <2>1, <2>2, <2>3, <2>4, <2>5
<1>1. CASE \E n \in DOMAIN port : port[n].op = "recv" /\ port[n].conn = c /\ port[n].unit = u
  BY <1>0, <1>1 DEF Carried
<1>2. CASE \E v \in Threads : /\ v # w /\ pc[v] = "enter" /\ io[v].op = "recv"
                            /\ conn(v) = c /\ io[v].unit = u
  BY <1>0, <1>2 DEF Carried, conn
<1>3. CASE UseAfterFree(w)
  BY <1>3 DEF UseAfterFree, Carried, conn, kernelVars, orderVars, threadVars
<1>4. CASE UNCHANGED OutOfOrderSends /\ ~(pc[w] = "enter" /\ io[w].op = "recv")
  BY <1>0, <1>1, <1>2, <1>4 DEF Carried
<1>5. CASE Dispatch(w)
  <2>1. sock(w) = c /\ io[w] \in Item /\ pc[w] = "enter" /\ io[w].op = "recv"
    BY <1>0, <1>5, OwnSocket DEF Dispatch, At
  <2>2. io[w].unit = u => io[w].err = 0
    BY <1>0, <2>1 DEF Leaving, Steps, Empty, Item
  <2> DEFINE b == [ord |-> io[w].ord, unit |-> io[w].unit]
             list == OutOfOrderSends[c]
             new == InsertPendingSend(list, b)
  <2>3. b \in Pending /\ list \in Seq(Pending) /\ b.unit = io[w].unit
    BY <1>0, <2>1 DEF Pending, Item
  <2>4. Inserted(list, b, new)
    BY <2>3, InsertInserts
  <2> HIDE DEF b, list, new
  <2>5. /\ \E n \in DOMAIN new : new[n] = b
        /\ \A m \in DOMAIN list : \E n \in DOMAIN new : new[n] = list[m]
    <3>1. PICK k \in 1 .. Len(list) + 1 : \A n \in 1 .. Len(list) + 1 :
            new[n] = IF n < k THEN list[n] ELSE IF n = k THEN b ELSE list[n - 1]
      BY <2>4 DEF Inserted
    <3>2. DOMAIN new = 1 .. Len(list) + 1 /\ DOMAIN list = 1 .. Len(list) /\ Len(list) \in Nat
      BY <2>3, <2>4 DEF Inserted
    <3>3. \E n \in DOMAIN new : new[n] = b
      BY <3>1, <3>2
    <3>4. ASSUME NEW m \in DOMAIN list  PROVE \E n \in DOMAIN new : new[n] = list[m]
      <4>1. CASE m < k
        BY <3>1, <3>2, <4>1
      <4>2. CASE ~(m < k)
        <5>1. m + 1 \in DOMAIN new /\ ~(m + 1 < k) /\ m + 1 # k /\ (m + 1) - 1 = m
          BY <3>2, <4>2
        <5> QED
          BY <3>1, <3>2, <5>1
      <4> QED
        BY <4>1, <4>2
    <3> QED
      BY <3>3, <3>4
  <2>6. \/ UNCHANGED OutOfOrderSends /\ io[w].unit # u
        \/ OutOfOrderSends'[c] = new
    BY <1>0, <1>5, <2>1, <2>2 DEF Dispatch, b, list, new
  <2>7. CASE \E n \in DOMAIN list : list[n].unit = u
    BY <2>5, <2>6, <2>7 DEF Carried, list
  <2>8. CASE io[w].unit = u
    BY <2>3, <2>5, <2>6, <2>8 DEF Carried
  <2> QED
    BY <1>1, <1>2, <2>7, <2>8 DEF Carried, list
<1>6. CASE DoSend(w)
  <2> DEFINE list == OutOfOrderSends[c]
  <2>1. sock(w) = c /\ pc[w] = "sends"
    BY <1>0, <1>6, OwnSocket DEF DoSend, At, Shape, SocketPcs
  <2>2. /\ list \in Seq(Pending) /\ list # <<>> /\ OutOfOrderSends'[c] = Tail(list)
        /\ PostSend(c, Head(list).unit)
    BY <1>0, <1>6, <2>1 DEF DoSend, InOrder
  <2> HIDE DEF list
  <2>0. SUFFICES ASSUME \E n \in DOMAIN list : list[n].unit = u
                 PROVE  u <= Len(echoed'[c]) \/ Carried(c, u)'
    BY <1>1, <1>2, <2>1 DEF Carried, list
  <2>3. PICK n \in DOMAIN list : list[n].unit = u
    BY <2>0
  <2>4. CASE n = 1
    <3>1. Head(list).unit = u /\ u > 0
      BY <2>2, <2>3, <2>4, TailOf
    <3>2. echoed \in [Conns -> Seq(Nat)] /\ echoed' = [echoed EXCEPT ![c] = Append(@, u)]
      BY <1>0, <2>2, <3>1 DEF PostSend, TypeOK
    <3>3. echoed'[c] = Append(echoed[c], u) /\ echoed[c] \in Seq(Nat)
      BY <3>2
    <3>4. /\ Len(echoed'[c]) \in DOMAIN echoed'[c] /\ echoed'[c][Len(echoed'[c])] = u
          /\ Len(echoed'[c]) \in Nat
      <4>1. ASSUME NEW s \in Seq(Nat)
            PROVE  LET a == Append(s, u)
                   IN /\ Len(a) \in DOMAIN a /\ a[Len(a)] = u /\ Len(a) \in Nat
        OBVIOUS
      <4> QED
        BY <3>3, <4>1
    <3>5. u = Len(echoed'[c])
      BY <1>0, <3>4 DEF EchoInv, IsPrefix1
    <3> QED
      BY <3>4, <3>5
  <2>5. CASE n # 1
    <3>1. n - 1 \in DOMAIN Tail(list) /\ Tail(list)[n - 1] = list[n]
      BY <2>2, <2>5, TailOf
    <3> QED
      BY <2>2, <2>3, <3>1 DEF Carried
  <2> QED
    BY <2>4, <2>5
<1> QED
  BY <1>0, <1>3, <1>4, <1>5, <1>6, PendingMoves

LEMMA OwnUnits ==
  ASSUME Inv, Inv', NEW w \in Threads, HandleIo(w), NEW c \in Conns, c = conn(w), UnitInv(c)
  PROVE  UnitInv(c)'
<1>0. /\ TypeOK /\ Shape /\ Leaving(c) /\ Phases(c) /\ EchoInv(c) /\ EchoInv(c)' /\ Busy(w)
      /\ UNCHANGED <<gProtocol, client, received, port, io>>
      /\ \A v \in Threads : v # w => pc'[v] = pc[v]
      /\ received[c] \in Nat /\ LastSendIssued[c] \in Nat
  <2>1. TypeOK /\ Shape /\ Leaving(c) /\ Phases(c) /\ EchoInv(c)
    BY DEF Inv, ConnInv
  <2>2. EchoInv(c)'
    BY DEF Inv, ConnInv
  <2>3. received[c] \in Nat /\ LastSendIssued[c] \in Nat
    BY <2>1, Sockets DEF TypeOK
  <2> QED
    BY <2>1, <2>2, <2>3, Moves, Stays DEF clientVars
<1>1. /\ Gone(c) => Gone(c)'
      /\ LastSendIssued[c] # 0 => LastSendIssued'[c] # 0
  BY <1>0, Onward, SendsGrow DEF Gone
<1>2. Begun(c)'
  <2>1. SUFFICES ASSUME ~Udp, Used(c)', ~Used(c)  PROVE LastSendIssued'[c] # 0
    BY <1>0, <1>1 DEF UnitInv, Begun, Udp
  <2>2. io[w].op = "accept" /\ pc[w] \notin First
    BY <1>0, <2>1 DEF Used, UsedBy
  <2>3. CASE LastSendIssued'[c] = LastSendIssued[c] + 1
    BY <1>0, <2>3
  <2>4. CASE UNCHANGED <<recvs, sends, LastSendIssued>> /\ pc'[w] \notin First
    <3>1. \A v \in Threads : UsedBy(v, c)' => UsedBy(v, c)
      BY <1>0, <2>2, <2>4 DEF UsedBy, Busy, conn
    <3> QED
      BY <1>0, <2>1, <2>4, <3>1 DEF Used
  <2> QED
    BY <1>0, <2>2, <2>3, <2>4, AcceptUse
<1>3. Exact(c)'
  <2>1. Opens(w)' => Opens(w)
    BY <1>0, Moves DEF Opens, AcceptPcs
  <2> QED
    BY <1>0, <2>1 DEF UnitInv, Exact, Opens, conn
<1>4. Covered(c)'
  <2>1. CASE Gone(c)
    BY <1>1, <2>1 DEF Covered
  <2>2. CASE Unsent(c) /\ ~Gone(c)
    <3>1. io[w].op = "accept" /\ pc[w] \notin First
      BY <1>0, <2>2 DEF Unsent, UnitInv, Begun, Used, UsedBy
    <3>2. CASE UNCHANGED LastSendIssued
      BY <1>0, <2>2, <3>2 DEF Unsent, Covered, Udp
    <3>3. CASE FirstSend(w)
      <4>1. PostSend(c, io[w].unit) /\ pc[w] = "firstSend"
        BY <1>0, <2>2, <3>3 DEF FirstSend, PostSendFails, At
      <4>2. io[w].unit = received[c] /\ received[c] <= 1 /\ echoed[c] = <<>>
        BY <1>0, <3>1, <4>1 DEF UnitInv, Exact, Opens, EchoInv, FirstData, Phases, Quiet, conn
      <4>3. received[c] > 0 => echoed'[c] = <<received[c]>>
        <5>1. echoed \in [Conns -> Seq(Nat)]
          BY <1>0 DEF TypeOK
        <5> QED
          BY <4>1, <4>2, <5>1 DEF PostSend
      <4>4. ASSUME NEW u \in 1 .. received[c]  PROVE u <= Len(echoed'[c])
        <5>1. received[c] = 1 /\ u = 1
          BY <1>0, <4>2
        <5>2. echoed'[c] = <<1>>
          BY <4>3, <5>1
        <5>3. Len(<<1>>) = 1
          OBVIOUS
        <5> QED
          BY <5>1, <5>2, <5>3
      <4> QED
        BY <1>0, <4>4 DEF Covered, Covers
    <3> QED
      BY <1>0, <3>1, <3>2, <3>3, AcceptUse
  <2>3. CASE Covers(c) /\ ~Gone(c)
    <3>1. Len(echoed[c]) <= Len(echoed'[c]) /\ Len(echoed[c]) \in Nat /\ Len(echoed'[c]) \in Nat
      <4>0. echoed \in [Conns -> Seq(Nat)]
        BY <1>0 DEF TypeOK
      <4>1. CASE UNCHANGED echoed
        BY <4>0, <4>1
      <4>2. CASE \E d \in Conns : SendsUnit(d)
        BY <4>0, <4>2 DEF SendsUnit
      <4> QED
        BY <1>0, <4>1, <4>2, HandleEchoes
    <3>2. ASSUME NEW u \in 1 .. received[c]  PROVE u <= Len(echoed'[c]) \/ Carried(c, u)'
      <4>1. u \in Nat /\ u # 0
        BY <1>0
      <4>2. CASE u <= Len(echoed[c])
        BY <3>1, <4>1, <4>2
      <4>3. CASE Carried(c, u)
        BY <2>3, <4>1, <4>3, UnitMoves
      <4> QED
        BY <2>3, <4>2, <4>3 DEF Covers
    <3> QED
      BY <1>0, <3>2 DEF Covered, Covers
  <2> QED
    BY <2>1, <2>2, <2>3 DEF UnitInv, Covered
<1> QED
  BY <1>2, <1>3, <1>4 DEF UnitInv

-----------------------------------------------------------------------------
(* Ending. *)

LEMMA KernelEnding ==
  ASSUME Inv, Ending, NEW d \in Conns, Shutdown(d) \/ Reset(d) \/ Kernel(d)
  PROVE  Ending'
<1>0. /\ TypeOK /\ \A k \in Conns : Phases(k) /\ Leaving(k)
      /\ client \in [Conns -> {"none", "open", "fin", "reset"}]
  BY DEF Inv, ConnInv, TypeOK
<1>1. /\ UNCHANGED <<pc, io, handle, gProtocol, threads>>
      /\ UNCHANGED <<port, received>> \/ \E x \in Item : KernelAdds(d, x)
  BY <1>0, KernelItem DEF KernelKeeps
<1>2. UNCHANGED bClosing /\ (~Udp => gaps' = gaps)
  BY DEF Shutdown, Reset, Kernel, AcceptDone, AcceptFails, RecvDone, RecvZero, RecvError,
     RecvTooLong, RecvCompletes, SendDone, Outside
<1>3. \A c \in Conns : client[c] \in {"fin", "reset"} => client'[c] \in {"fin", "reset"}
  BY <1>0 DEF Shutdown, Reset, Kernel, AcceptDone, AcceptFails, RecvDone, RecvZero, RecvError,
     RecvTooLong, RecvCompletes, SendDone, Outside
<1>4. ASSUME Udp  PROVE \A n \in DOMAIN port' : port'[n].op # "accept"
  <2>1. CASE UNCHANGED port
    BY <1>4, <2>1 DEF Ending
  <2>2. ASSUME NEW x \in Item, KernelAdds(d, x)  PROVE \A n \in DOMAIN port' : port'[n].op # "accept"
    <3>1. x.op # "accept"
      BY <1>0, <1>4, <2>2 DEF KernelAdds, Leaving
    <3>2. Queue(x)
      BY <2>2 DEF KernelAdds
    <3> QED
      BY <1>0, <1>4, <3>1, <3>2, PortAppend DEF Ending
  <2> QED
    BY <1>1, <2>1, <2>2
<1>5. Udp' <=> Udp
  BY <1>1 DEF Udp
<1> QED
  BY <1>1, <1>2, <1>3, <1>4, <1>5 DEF Ending, Over, Busy

LEMMA TakeEnding ==
  ASSUME Inv, Ending, NEW w \in Threads, Take(w)
  PROVE  Ending'
<1>1. /\ UNCHANGED <<gProtocol, client, gaps, handle, bClosing>>
      /\ 1 \in DOMAIN port /\ io'[w] = port[1]
      /\ \A n \in DOMAIN port' : n + 1 \in DOMAIN port /\ port'[n] = port[n + 1]
      /\ \A v \in Threads : v # w => pc'[v] = pc[v] /\ io'[v] = io[v]
  BY TakeFacts DEF Inv, clientVars, lifeVars
<1> QED
  BY <1>1 DEF Ending, Over, Udp, Busy

\* A thread marks a client of TCP closing when it has ended.
LEMMA ClosingIsOver ==
  ASSUME Inv, Ending, ~Udp, NEW w \in Threads, HandleIo(w), NEW c \in Conns, c = conn(w),
         bClosing'[c] = 1
  PROVE  bClosing[c] = 1 \/ Over(c)
<1>0. TypeOK /\ Shape /\ Leaving(c) /\ Busy(w)
  BY Moves DEF Inv, ConnInv
<1>1. /\ c \in Objs /\ c # Listener /\ io[w] \in Item /\ bClosing \in [Objs -> 0 .. 1] /\ Steps(w)
      /\ io[w].op # "accept" => sock(w) = c
      /\ pc[w] \in SocketPcs => io[w].op # "accept"
      /\ gaps = 0
  BY <1>0, OwnSocket DEF TypeOK, Leaving, Shape, Ending
<1> USE DEF Rest, Kernels, lifeVars, At
<1>2. CASE Dispatch(w)
  <2>1. pc[w] = "enter" /\ io[w].op = "recv" /\ Empty(io[w]) /\ io[w].conn = c
    BY <1>1, <1>2 DEF Dispatch, Steps, conn
  <2>2. CASE io[w].err = 0 /\ io[w].unit > 0
    BY <1>2, <2>2 DEF Dispatch
  <2>3. CASE ~(io[w].err = 0 /\ io[w].unit > 0)
    <3>1. io[w].err \in 0 .. 1 /\ io[w].unit \in Nat
      BY <1>1 DEF Item
    <3>2. io[w].err = 1 \/ io[w].unit = 0
      BY <2>3, <3>1
    <3> QED
      BY <1>1, <2>1, <3>1, <3>2 DEF Empty, Over
  <2> QED
    BY <2>2, <2>3
<1>3. CASE Sends(w)
  <2>1. CASE SendRefused(w)
    <3>1. Gone(sock(w)) /\ sock(w) = c
      BY <1>1, <2>1 DEF SendRefused, DoSendFails, PostSendFails, SocketPcs
    <3> QED
      BY <3>1 DEF Gone, Over
  <2>2. CASE DoSend(w) \/ NoneInOrder(w)
    BY <2>2 DEF DoSend, NoneInOrder
  <2> QED
    BY <1>3, <2>1, <2>2, SendsCases
<1>4. CASE ReceiveAgain(w)
  <2>1. sock(w) = c
    BY <1>1, <1>4 DEF ReceiveAgain, SocketPcs
  <2> QED
    BY <1>4, <2>1 DEF ReceiveAgain, PostRecvFails, Gone, Over
<1>5. CASE CheckAccepted(w)
  BY <1>1, <1>5 DEF CheckAccepted, Steps, Gone, Over
<1>6. CASE ErrorPath(w) \/ SendCompleted(w)
  BY <1>6 DEF ErrorPath, SendCompleted
<1>7. CASE CountPost(w) \/ CountOff(w) \/ TailSends(w) \/ CloseSocket(w) \/ Free(w)
  BY <1>7 DEF CountPost, CountOff, TailSends, CloseSocket, Free
<1>8. CASE Accepted(w) \/ FirstSend(w) \/ FirstReceives(w) \/ PostAccept(w) \/ CountAccept(w)
  BY <1>8 DEF Accepted, FirstSend, FirstReceives, PostAccept, CountAccept
<1>9. CASE UseAfterFree(w)
  BY <1>9 DEF UseAfterFree
<1> QED
  BY <1>2, <1>3, <1>4, <1>5, <1>6, <1>7, <1>8, <1>9 DEF HandleIo, AcceptPath

LEMMA HandleEnding ==
  ASSUME Inv, Ending, NEW w \in Threads, HandleIo(w)
  PROVE  Ending'
<1>0. /\ TypeOK /\ Shape /\ Busy(w) /\ UNCHANGED <<gProtocol, client, port, io, gaps>>
      /\ \A v \in Threads : v # w => pc'[v] = pc[v]
  BY Moves, Stays DEF Inv, clientVars
<1>1. ASSUME NEW c \in Conns, ~Udp, bClosing'[c] = 1  PROVE Over(c)'
  <2>1. handle[c] = "closed" => handle'[c] = "closed"
    BY <1>0, Local, Onward DEF Same
  <2>2. bClosing[c] = 1 \/ Over(c)
    BY <1>0, <1>1, Local, ClosingIsOver DEF Same
  <2>3. Over(c)
    BY <1>1, <2>2 DEF Ending
  <2> QED
    BY <1>0, <2>1, <2>3 DEF Over
<1>2. \A v \in Threads : Busy(v)' => Busy(v)
  BY <1>0 DEF Busy
<1> QED
  BY <1>0, <1>1, <1>2 DEF Ending, Udp
-----------------------------------------------------------------------------
(* A settled socket stays so. *)

LEMMA KernelSettled ==
  ASSUME Inv, NEW d \in Conns, Shutdown(d) \/ Reset(d) \/ Kernel(d), NEW c \in Conns,
         client[c] # "none", Settled(c)
  PROVE  Settled(c)'
<1>0. TypeOK /\ Phases(d) /\ client \in [Conns -> {"none", "open", "fin", "reset"}]
      /\ received \in [Conns -> Nat]
  BY DEF Inv, ConnInv, TypeOK
<1>1. /\ UNCHANGED <<pc, io, echoed, handle>>
      /\ client[c] = "reset" => client'[c] = "reset"
      /\ recvs[c] = <<>> => recvs'[c] = <<>>
      /\ sends[c] = <<>> => sends'[c] = <<>>
      /\ c # d => received'[c] = received[c]
      /\ UNCHANGED <<port, received>> \/ \E x \in Item : KernelAdds(d, x)
  BY <1>0, KernelItem DEF KernelKeeps
<1>2. CASE Gone(c)
  BY <1>1, <1>2 DEF Gone, Settled
<1>3. CASE Len(echoed[c]) = received[c] /\ client[c] = "fin"
  <2>1. client'[c] \in {"fin", "reset"} /\ received'[c] = received[c]
    BY <1>0, <1>3 DEF Shutdown, Reset, Kernel, AcceptDone, AcceptFails, RecvDone, RecvZero,
       RecvError, RecvTooLong, RecvCompletes, SendDone, Outside
  <2> QED
    BY <1>1, <1>3, <2>1 DEF Settled, Gone
<1>4. CASE Len(echoed[c]) = received[c] /\ Drained(c)
  <2>1. ASSUME NEW x \in Item, KernelAdds(d, x)  PROVE d # c
    BY <1>4, <2>1 DEF KernelAdds, Drained
  <2>2. received'[c] = received[c]
    BY <1>1, <2>1
  <2>3. NoItem(c)'
    <3>1. CASE UNCHANGED port
      BY <1>4, <3>1 DEF Drained, NoItem
    <3>2. ASSUME NEW x \in Item, KernelAdds(d, x)  PROVE NoItem(c)'
      <4>1. Queue(x) /\ x.conn # c
        BY <2>1, <3>2 DEF KernelAdds
      <4> QED
        BY <1>0, <1>4, <4>1, PortAppend DEF Drained, NoItem
    <3> QED
      BY <1>1, <3>1, <3>2
  <2> QED
    BY <1>1, <1>4, <2>2, <2>3 DEF Settled, Drained, conn
<1> QED
  BY <1>2, <1>3, <1>4 DEF Settled

LEMMA TakeSettled ==
  ASSUME Inv, NEW w \in Threads, Take(w), NEW c \in Conns, Settled(c)
  PROVE  Settled(c)'
<1>1. /\ UNCHANGED <<client, received, recvs, sends, echoed, handle>>
      /\ 1 \in DOMAIN port /\ io'[w] = port[1]
      /\ \A n \in DOMAIN port' : n + 1 \in DOMAIN port /\ port'[n] = port[n + 1]
      /\ \A v \in Threads : v # w => pc'[v] = pc[v] /\ io'[v] = io[v]
  BY TakeFacts DEF Inv, clientVars, lifeVars
<1> QED
  BY <1>1 DEF Settled, Gone, Drained, NoItem, conn

LEMMA HandleSettled ==
  ASSUME Inv, Inv', Counters, NEW w \in Threads, HandleIo(w), NEW c \in Conns, Settled(c)
  PROVE  Settled(c)'
<1>0. /\ TypeOK /\ Shape /\ UNCHANGED <<client, received, port, io>>
      /\ \A v \in Threads : v # w => pc'[v] = pc[v]
      /\ handle[c] = "closed" => handle'[c] = "closed"
      /\ received[c] \in Nat
  <2>1. TypeOK /\ Shape
    BY DEF Inv
  <2>2. handle[c] = "closed" => handle'[c] = "closed"
    BY <2>1, Local, Onward DEF Same
  <2>3. received[c] \in Nat
    BY <2>1 DEF TypeOK
  <2> QED
    BY <2>1, <2>2, <2>3, Moves, Stays DEF clientVars
<1>1. CASE Gone(c)
  BY <1>0, <1>1 DEF Gone, Settled
<1>2. CASE ~Gone(c)
  <2>1. Len(echoed[c]) = received[c] /\ (client[c] = "fin" \/ Drained(c))
    BY <1>2 DEF Settled
  <2>2. Len(echoed'[c]) = received'[c]
    <3>1. /\ echoed \in [Conns -> Seq(Nat)] /\ Len(echoed'[c]) <= received'[c]
      BY DEF Inv, TypeOK, ConnInv, EchoInv, IsPrefix1
    <3>2. ASSUME NEW d \in Conns, SendsUnit(d)  PROVE echoed'[c] = echoed[c]
      <4>1. PICK u \in Nat : echoed' = [echoed EXCEPT ![d] = Append(@, u)]
        BY <3>2 DEF SendsUnit
      <4>2. CASE d = c
        <5>1. echoed'[c] = Append(echoed[c], u) /\ echoed[c] \in Seq(Nat)
          BY <3>1, <4>1, <4>2
        <5>2. Len(echoed'[c]) = Len(echoed[c]) + 1
          BY <5>1
        <5> QED
          BY <1>0, <2>1, <3>1, <5>2
      <4>3. CASE d # c
        BY <3>1, <4>1, <4>3
      <4> QED
        BY <4>2, <4>3
    <3> QED
      BY <1>0, <2>1, <3>2, HandleEchoes
  <2>3. ASSUME Drained(c)  PROVE Drained(c)'
    <3>1. CASE c # conn(w)
      <4>1. recvs'[c] = recvs[c] /\ sends'[c] = sends[c]
        BY <1>0, <3>1, Local DEF Same
      <4> QED
        BY <1>0, <2>3, <3>1, <4>1 DEF Drained, NoItem, conn
    <3>2. CASE c = conn(w)
      <4>1. pc[w] \notin InHand
        BY <2>3, <3>2 DEF Drained
      <4>2. Still(w) \/ UseAfterFree(w)
        BY <1>0, <4>1, HandleKinds DEF CountingOff, Posting, Counting, NotCounted, InHand, AcceptPcs
      <4>3. UNCHANGED <<recvs, sends>> /\ pc'[w] \notin InHand
        BY <4>1, <4>2 DEF Still, SameWork, UseAfterFree, kernelVars, threadVars
      <4> QED
        BY <1>0, <2>3, <4>3 DEF Drained, NoItem, conn
    <3> QED
      BY <3>1, <3>2
  <2> QED
    BY <1>0, <2>1, <2>2, <2>3 DEF Settled
<1> QED
  BY <1>1, <1>2
-----------------------------------------------------------------------------
(* A thread comes to close by counting. *)

LEMMA ClosingMoves ==
  ASSUME TypeOK, NEW w \in Threads, HandleIo(w)
  PROVE  /\ pc'[w] = "decLast" => \/ pc[w] = "sends" /\ NoneCounted(w)
                                  \/ pc[w] = "decLast" /\ UseAfterFree(w)
         /\ pc'[w] = "close" => \/ pc[w] = "close" /\ UseAfterFree(w)
                                \/ pc[w] = "decLast" /\ CountOff(w)
                                \/ pc[w] = "dec" /\ CountOff(w) /\ IsLast(sock(w))
<1>0. pc \in [Threads -> Labels]
  BY DEF TypeOK
<1> USE DEF At, Goto
<1>1. CASE Sends(w)
  BY <1>0, <1>1, SendsCases DEF DoSend, SendRefused, DoSendFails, NoneInOrder, NoSend
<1>2. CASE ErrorPath(w) \/ Dispatch(w) \/ SendCompleted(w)
  BY <1>0, <1>2 DEF ErrorPath, Dispatch, SendCompleted
<1>3. CASE ReceiveAgain(w) \/ FirstReceives(w) \/ FirstSend(w)
  BY <1>0, <1>3 DEF ReceiveAgain, FirstReceives, FirstSend
<1>4. CASE CountPost(w) \/ TailSends(w) \/ CloseSocket(w) \/ Free(w)
  BY <1>0, <1>4 DEF CountPost, TailSends, CloseSocket, Free
<1>5. CASE CountOff(w)
  BY <1>0, <1>5 DEF CountOff
<1>6. CASE Accepted(w) \/ PostAccept(w) \/ CountAccept(w) \/ CheckAccepted(w)
  BY <1>0, <1>6 DEF Accepted, PostAccept, CountAccept, CheckAccepted
<1>7. CASE UseAfterFree(w)
  BY <1>0, <1>7 DEF UseAfterFree, threadVars
<1> QED
  BY <1>1, <1>2, <1>3, <1>4, <1>5, <1>6, <1>7 DEF HandleIo, AcceptPath

\* If all that is posted on o is counted, what is counted covers the
\* completions in hand and what is at work.
LEMMA InHandCounted ==
  ASSUME TypeOK, Counters, Counts, NEW o \in Objs, Owings(o) = {}, NEW w \in Hands(o)
  PROVE  /\ OutstandingOps[o] # 0
         /\ OutstandingOps[o] = 1 => Work(o) = 0 /\ Hands(o) = {w}
<1> DEFINE H == Hands(o)
           R == H \ {w}
<1>1. Work(o) \in Nat /\ OutstandingOps[o] \in Int /\ IsFiniteSet(H)
  BY Sums
<1>2. IsFiniteSet(R) /\ Cardinality(R) \in Nat /\ Cardinality(R) = Cardinality(H) - 1
      /\ Cardinality(H) \in Nat
  BY <1>1, FS_RemoveElement, FS_CardinalityType
<1>3. Work(o) + (Cardinality(H) - 0) <= OutstandingOps[o]
  BY FS_EmptySet DEF Counts, Dues
<1>4. ASSUME Cardinality(R) = 0  PROVE H = {w}
  <2>1. R = {}
    BY <1>2, <1>4, FS_EmptySet
  <2> QED
    BY <2>1
<1> HIDE DEF H, R
<1> QED
  BY <1>1, <1>2, <1>3, <1>4 DEF H

LEMMA NoSummand == ASSUME NEW a \in Nat, NEW b \in Nat, a + b = 0  PROVE a = 0 /\ b = 0
OBVIOUS

\* Nothing at work for c, nothing in the hands of a thread: nothing of c is
\* carried.
LEMMA IdleSettled ==
  ASSUME Inv, Counters, NEW c \in Conns, Work(c) = 0, OutOfOrderSends[c] = <<>>,
         \A v \in Threads : ~(pc[v] = "enter" /\ io[v].op = "recv" /\ conn(v) = c),
         UnitInv(c), Used(c)
  PROVE  /\ recvs[c] = <<>> /\ sends[c] = <<>> /\ \A n \in DOMAIN port : port[n].sock # c
         /\ Gone(c) \/ Len(echoed[c]) = received[c]
<1>0. /\ TypeOK /\ EchoInv(c) /\ c \in Objs /\ c # Listener
      /\ recvs[c] \in Seq(Nat) /\ sends[c] \in Seq(Nat)
      /\ received[c] \in Nat /\ echoed[c] \in Seq(Nat)
  BY Sockets DEF Inv, ConnInv, TypeOK
<1>1. Posts(c) = 0 /\ OnPort(c) = 0
  <2>1. Posts(c) \in Nat /\ OnPort(c) \in Nat
    BY <1>0, PostsType, OnPortIs
  <2> QED
    BY <2>1, NoSummand DEF Work
<1>2. recvs[c] = <<>> /\ sends[c] = <<>>
  <2>1. Len(recvs[c]) \in Nat /\ Len(sends[c]) \in Nat
    BY <1>0
  <2>2. Len(recvs[c]) + Len(sends[c]) = 0
    BY <1>0, <1>1 DEF Posts
  <2>3. Len(recvs[c]) = 0 /\ Len(sends[c]) = 0
    BY <2>1, <2>2, NoSummand
  <2> QED
    BY <1>0, <2>3
<1>3. \A n \in DOMAIN port : port[n].sock # c
  <2> DEFINE S == {n \in DOMAIN port : port[n].sock = c}
  <2>1. IsFiniteSet(S) /\ Cardinality(S) = 0
    BY <1>0, <1>1, OnPortIs DEF OnPort
  <2>2. S = {}
    BY <2>1, FS_EmptySet
  <2> QED
    BY <2>2
<1>4. \A u : ~Carried(c, u)
  <2>1. \A n \in DOMAIN port : port[n].op = "recv" => port[n].sock = port[n].conn
    BY DEF Inv, Shape, WellFormed
  <2> QED
    BY <1>3, <2>1 DEF Carried
<1>5. SUFFICES ASSUME ~Gone(c)  PROVE Len(echoed[c]) = received[c]
  BY <1>2, <1>3
<1>6. Covers(c)
  BY <1>5 DEF UnitInv, Covered, Unsent, Begun
<1>7. Len(echoed[c]) <= received[c] /\ Len(echoed[c]) \in Nat
  BY <1>0 DEF EchoInv, IsPrefix1
<1>8. received[c] <= Len(echoed[c])
  <2>1. CASE received[c] = 0
    BY <1>7, <2>1
  <2>2. CASE received[c] # 0
    <3>1. received[c] \in 1 .. received[c]
      BY <1>0, <2>2
    <3> QED
      BY <1>4, <1>6, <3>1 DEF Covers
  <2> QED
    BY <2>1, <2>2
<1> QED
  BY <1>0, <1>7, <1>8

\* The count that closes c finds it settled, or leaves an operation out.
LEMMA CountSettles ==
  ASSUME EchoesInv, NEW w \in Threads, CountOff(w), NEW c \in Conns, c = sock(w),
         pc[w] = "dec", IsLast(c), ~Miscounts(w, c)
  PROVE  Settled(c)'
<1>0. /\ Inv /\ TypeOK /\ Shape /\ Counters /\ Counts /\ Idle /\ Ending /\ UnitInv(c)
      /\ Leaving(c) /\ Busy(w) /\ c \in Objs /\ c # Listener
  BY Sockets DEF EchoesInv, CountInv, Inv, ConnInv, Busy
<1>1. w \in threads /\ threads \subseteq Threads /\ io[w].op # "accept" /\ conn(w) = c
  <2>1. w \in threads /\ threads \subseteq Threads
    BY <1>0 DEF Idle, Counters, Threads
  <2> QED
    BY <1>0, <2>1, OwnSocket
<1>2. Owings(c) = {}
  <2>1. \A v \in Threads \ {w} : ~Uncounted(v, c)
    BY DEF Miscounts
  <2>2. ASSUME NEW v \in threads, Owing(v) = c  PROVE FALSE
    <3>1. v # w
      BY <2>2, Sockets DEF Owing
    <3>2. Uncounted(v, c)
      BY <1>0, <2>2, Sockets DEF Owing, Uncounted
    <3> QED
      BY <1>1, <2>1, <3>1, <3>2
  <2> QED
    BY <2>2 DEF Owings
<1>3. Work(c) = 0 /\ Hands(c) = {w} /\ OutOfOrderSends[c] = <<>> /\ bClosing[c] = 1
  <2>1. w \in Hands(c)
    BY <1>1 DEF Hands, InHand
  <2> QED
    BY <1>0, <1>2, <2>1, InHandCounted DEF IsLast
<1>4. ASSUME NEW v \in Threads, v # w, pc[v] \in InHand, conn(v) = c  PROVE io[v].op = "accept"
  <2>1. Busy(v)
    BY <1>4 DEF Busy, InHand, AcceptPcs
  <2>2. v \in threads
    BY <1>0, <2>1 DEF Idle
  <2>3. sock(v) # c
    BY <1>3, <1>4, <2>2 DEF Hands
  <2> QED
    BY <1>0, <1>4, <2>1, <2>3, OwnSocket
<1>5. \A v \in Threads : ~(pc[v] = "enter" /\ io[v].op = "recv" /\ conn(v) = c)
  BY <1>4 DEF InHand
<1>6. /\ recvs[c] = <<>> /\ sends[c] = <<>> /\ \A n \in DOMAIN port : port[n].sock # c
      /\ Gone(c) \/ Len(echoed[c]) = received[c]
  <2>1. Used(c)
    BY <1>0, <1>1 DEF Used, UsedBy
  <2> QED
    BY <1>0, <1>3, <1>5, <2>1, IdleSettled
<1>7. UNCHANGED <<client, received, recvs, sends, port, echoed, handle, io>>
  BY DEF CountOff, Kernels, lifeVars, clientVars
<1>8. CASE Gone(c)
  BY <1>7, <1>8 DEF Settled, Gone
<1>9. CASE ~Gone(c) /\ ~Udp
  <2>1. client[c] = "fin"
    BY <1>0, <1>3, <1>9 DEF Ending, Over, Gone
  <2> QED
    BY <1>6, <1>7, <1>9, <2>1 DEF Settled
<1>10. CASE ~Gone(c) /\ Udp
  <2>1. /\ \A n \in DOMAIN port : port[n].op # "accept"
        /\ \A v \in Threads : Busy(v) => io[v].op # "accept"
    BY <1>0, <1>10 DEF Ending
  <2>2. NoItem(c)
    <3>1. ASSUME NEW n \in DOMAIN port  PROVE port[n].conn # c
      <4>1. WellFormed(port[n]) /\ port[n] \in Item
        BY <1>0 DEF Shape, TypeOK
      <4>2. port[n].op \in {"recv", "send"}
        BY <2>1, <4>1 DEF Item
      <4> QED
        BY <1>6, <4>1, <4>2 DEF WellFormed
    <3> QED
      BY <3>1 DEF NoItem
  <2>3. pc' = [pc EXCEPT ![w] = "close"] /\ pc \in [Threads -> Labels]
    BY <1>0 DEF CountOff, Goto, TypeOK
  <2>4. \A v \in Threads : v # w => pc'[v] = pc[v]
    BY <2>3
  <2>5. pc'[w] = "close"
    BY <2>3
  <2>6. ASSUME NEW v \in Threads, pc'[v] \in InHand  PROVE conn(v) # c
    <3>1. v # w
      BY <2>5, <2>6 DEF InHand, AcceptPcs
    <3>2. pc[v] \in InHand /\ Busy(v)
      BY <2>4, <2>6, <3>1 DEF InHand, AcceptPcs, Busy
    <3> QED
      BY <1>4, <2>1, <3>1, <3>2
  <2>7. Drained(c)'
    BY <1>6, <1>7, <2>2, <2>6 DEF Drained, NoItem, conn
  <2> QED
    BY <1>6, <1>7, <1>10, <2>7 DEF Settled
<1> QED
  BY <1>8, <1>9, <1>10

LEMMA MiscountsStay ==
  ASSUME NEW w \in Threads, HandleIo(w)
  PROVE  miscounted \subseteq miscounted'
<1>1. CASE CountOff(w)
  BY <1>1 DEF CountOff
<1>2. CASE ~CountOff(w)
  BY <1>2, CountsApart
<1> QED
  BY <1>1, <1>2

LEMMA HandleCloses ==
  ASSUME EchoesInv, NEW w \in Threads, HandleIo(w), Inv', NEW v \in threads
  PROVE  Closes(v)'
<1>0. /\ Inv /\ TypeOK /\ Shape /\ Counters /\ Busy(w) /\ UNCHANGED <<io, client, received>>
      /\ Closes(v) /\ v \in Threads
      /\ \A u \in Threads : u # w => pc'[u] = pc[u]
  <2>1. Inv /\ TypeOK /\ Shape /\ Counters /\ Closes(v) /\ v \in Threads
    BY DEF EchoesInv, CountInv, Inv, Counters, Threads
  <2> QED
    BY <2>1, Moves, Stays DEF clientVars
<1>1. SUFFICES ASSUME pc'[v] = "close", NEW c \in Conns, c = sock(v)
               PROVE  Settled(c)' \/ c \in miscounted'
  BY <1>0 DEF Closes, sock
<1>2. CASE pc[v] = "close"
  <2>1. Settled(c) \/ c \in miscounted
    BY <1>0, <1>1, <1>2 DEF Closes
  <2> QED
    BY <1>0, <2>1, HandleSettled, MiscountsStay
<1>3. CASE pc[v] # "close"
  <2>1. v = w
    BY <1>0, <1>1, <1>3
  <2>2. \/ pc[w] = "decLast" /\ CountOff(w)
        \/ pc[w] = "dec" /\ CountOff(w) /\ IsLast(c)
    BY <1>0, <1>1, <1>3, <2>1, ClosingMoves
  <2>3. ASSUME Miscounts(w, c)  PROVE c \in miscounted'
    BY <1>1, <2>1, <2>2, <2>3 DEF CountOff, At
  <2>4. ASSUME ~Miscounts(w, c)  PROVE Settled(c)'
    <3>1. pc[w] = "dec" /\ IsLast(c)
      BY <2>2, <2>4 DEF Miscounts, At
    <3> QED
      BY <1>1, <2>1, <2>2, <2>4, <3>1, CountSettles
  <2> QED
    BY <2>3, <2>4
<1> QED
  BY <1>2, <1>3
-----------------------------------------------------------------------------
(* The invariant, and the step of Echo that closes. *)

LEMMA EchoesInit == Init => EchoesInv
<1> SUFFICES ASSUME Init  PROVE EchoesInv
  OBVIOUS
<1>1. CountInv
  BY LifeInit DEF LifeInv
<1>2. /\ \A w \in Threads : pc[w] = "wait"
      /\ \A w \in threads : w \in Threads
  BY <1>1 DEF Init, CountInv, Counters, Threads
<1>3. ASSUME NEW c \in Conns  PROVE UnitInv(c)
  <2>1. /\ ~Udp => recvs[c] = <<>>
        /\ sends[c] = <<>> /\ port = <<>> /\ received[c] = 0 /\ echoed[c] = <<>>
    BY DEF Init
  <2>2. Begun(c)
    BY <1>2, <2>1 DEF Begun, Used, UsedBy, Busy
  <2>3. Exact(c) /\ Covered(c)
    BY <1>2, <2>1 DEF Exact, Opens, Covered, Covers
  <2> QED
    BY <2>2, <2>3 DEF UnitInv
<1>4. Ending
  BY <1>2, Sockets DEF Init, Ending, Busy
<1> QED
  BY <1>1, <1>2, <1>3, <1>4 DEF EchoesInv, Closes

LEMMA EchoesNext == EchoesInv /\ [Next]_vars => EchoesInv'
<1> SUFFICES ASSUME EchoesInv, [Next]_vars  PROVE EchoesInv'
  OBVIOUS
<1>1. Inv /\ Shape /\ Inv' /\ Counters /\ CountInv' /\ Ending /\ \A c \in Conns : UnitInv(c) /\ Phases(c)
  BY CountNext DEF EchoesInv, CountInv, Inv, ConnInv
<1>2. ASSUME NEW d \in Conns, Shutdown(d) \/ Reset(d) \/ Kernel(d)  PROVE EchoesInv'
  <2>1. Ending' /\ \A c \in Conns : UnitInv(c)'
    BY <1>1, <1>2, KernelEnding, KernelUnits
  <2>2. UNCHANGED <<pc, io, threads>>
    BY <1>1, <1>2, KernelItem DEF Inv, KernelKeeps
  <2>3. UNCHANGED miscounted
    BY <1>2 DEF Shutdown, Reset, Kernel, AcceptDone, AcceptFails, RecvDone, RecvZero, RecvError,
       RecvTooLong, RecvCompletes, SendDone, Outside
  <2>4. ASSUME NEW w \in threads, pc[w] = "close", NEW c \in Conns, c = sock(w), Settled(c)
        PROVE  Settled(c)'
    <3>1. w \in Threads /\ Busy(w)
      BY <1>1, <2>4 DEF Counters, Threads, Busy
    <3>2. io[w].conn = c
      BY <1>1, <2>4, <3>1, OwnSocket, Sockets DEF conn
    <3>3. client[c] # "none"
      BY <1>1, <3>1, <3>2 DEF Phases, NoThread
    <3> QED
      BY <1>1, <1>2, <2>4, <3>3, KernelSettled
  <2>5. \A w \in threads : Closes(w)'
    BY <2>2, <2>3, <2>4 DEF EchoesInv, Closes, sock
  <2> QED
    BY <1>1, <2>1, <2>2, <2>5 DEF EchoesInv
<1>3. ASSUME NEW w \in Threads, Take(w)  PROVE EchoesInv'
  <2>1. Ending' /\ \A c \in Conns : UnitInv(c)'
    BY <1>1, <1>3, TakeEnding, TakeUnits
  <2>2. UNCHANGED <<threads, miscounted>>
    BY <1>3 DEF Take, Rest, clientVars
  <2>3. /\ pc'[w] \in {"enter", "error"}
        /\ \A v \in Threads : v # w => pc'[v] = pc[v] /\ io'[v] = io[v]
    BY <1>1, <1>3, TakeFacts DEF Inv
  <2>4. \A c \in Conns : Settled(c) => Settled(c)'
    BY <1>1, <1>3, TakeSettled
  <2>5. \A v \in threads : Closes(v)'
    BY <1>1, <2>2, <2>3, <2>4 DEF EchoesInv, Closes, sock, Counters, Threads
  <2> QED
    BY <1>1, <2>1, <2>2, <2>5 DEF EchoesInv
<1>4. ASSUME NEW w \in Threads, HandleIo(w)  PROVE EchoesInv'
  <2>1. Ending' /\ \A c \in Conns : UnitInv(c)'
    BY <1>1, <1>4, HandleEnding, ElseUnits, OwnUnits
  <2>2. UNCHANGED threads
    BY <1>4, Stays DEF clientVars
  <2>3. \A v \in threads : Closes(v)'
    BY <1>1, <1>4, HandleCloses
  <2> QED
    BY <1>1, <2>1, <2>2, <2>3 DEF EchoesInv
<1>5. CASE Sweep \/ UNCHANGED vars
  <2>1. /\ UNCHANGED <<gProtocol, threads, client, received>>
        /\ UNCHANGED <<recvs, sends, port, echoed>>
        /\ UNCHANGED <<LastSendIssued, OutOfOrderSends, handle, bClosing, pc, io>>
        /\ UNCHANGED <<gaps, miscounted>>
    BY <1>5 DEF Sweep, vars, clientVars, kernelVars, orderVars, lifeVars, threadVars, history
  <2>2. \A c \in Conns : Settled(c)' <=> Settled(c)
    BY <2>1 DEF Settled, Gone, Drained, NoItem, conn
  <2>3. (\A w \in threads : Closes(w)') /\ Ending'
    BY <1>1, <2>1, <2>2 DEF EchoesInv, Closes, sock, Ending, Udp, Over, Busy
  <2>4. ASSUME NEW c \in Conns  PROVE UnitInv(c)'
    <3>1. \A w \in Threads : /\ UsedBy(w, c)' <=> UsedBy(w, c)
                             /\ Opens(w)' <=> Opens(w)
      BY <2>1 DEF UsedBy, Opens, Busy, conn
    <3>2. Begun(c)' /\ Exact(c)'
      BY <1>1, <2>1, <3>1 DEF UnitInv, Begun, Used, Udp, Exact, conn
    <3>3. \A u : Carried(c, u)' <=> Carried(c, u)
      BY <2>1 DEF Carried, conn
    <3>4. Covered(c)'
      BY <1>1, <2>1, <3>3 DEF UnitInv, Covered, Gone, Unsent, Udp, Covers
    <3> QED
      BY <3>2, <3>4 DEF UnitInv
  <2> QED
    BY <1>1, <2>1, <2>3, <2>4 DEF EchoesInv
<1> QED
  BY <1>2, <1>3, <1>4, <1>5 DEF Next

\* Closing a socket that is settled, or was miscounted, is a step of Echo.
LEMMA ClosingIsClose ==
  ASSUME TypeOK, NEW c \in Conns, handle' = [handle EXCEPT ![c] = "closed"],
         Gone(c) \/ Len(echoed[c]) = received[c] \/ c \in miscounted,
         UNCHANGED <<client, received, echoed, miscounted>>
  PROVE  Echoes!Step \/ UNCHANGED Echoes!vars
<1>0. handle \in [Objs -> {"open", "closed"}] /\ c \in Objs
  BY Sockets DEF TypeOK
<1>1. CASE handle[c] = "closed"
  <2>1. UNCHANGED handle
    BY <1>0, <1>1
  <2> QED
    BY <2>1 DEF Echoes!vars
<1>2. CASE handle[c] = "open"
  <2>1. \A d \in Conns : handle'[d] = IF d = c THEN "closed" ELSE handle[d]
    BY <1>0, Sockets
  <2>2. [d \in Conns |-> handle'[d] = "open"]
          = [[d \in Conns |-> handle[d] = "open"] EXCEPT ![c] = FALSE]
    <3> DEFINE open == [d \in Conns |-> handle[d] = "open"]
    <3>1. ASSUME NEW d \in Conns  PROVE (handle'[d] = "open") = [open EXCEPT ![c] = FALSE][d]
      <4>1. CASE d = c
        <5>1. [open EXCEPT ![c] = FALSE][d] = FALSE
          BY <4>1
        <5>2. handle'[d] # "open"
          BY <2>1, <4>1
        <5> QED
          BY <5>1, <5>2
      <4>2. CASE d # c
        BY <2>1, <4>2
      <4> QED
        BY <4>1, <4>2
    <3>2. [open EXCEPT ![c] = FALSE] = [d \in Conns |-> [open EXCEPT ![c] = FALSE][d]]
      OBVIOUS
    <3> QED
      BY <3>1, <3>2, Zenon
  <2>3. client[c] = "reset" \/ c \in miscounted \/ Len(echoed[c]) = received[c]
    BY <1>2 DEF Gone
  <2>4. UNCHANGED [d \in Conns |-> client[d] = "reset" \/ d \in miscounted]
    OBVIOUS
  <2> QED
    BY <1>2, <2>2, <2>3, <2>4 DEF Echoes!Step, Echoes!Close
<1> QED
  BY <1>0, <1>1, <1>2

LEMMA HandleCloseSteps ==
  ASSUME NEW w \in Threads, HandleIo(w)
  PROVE  \/ UNCHANGED handle
         \/ CloseSocket(w)
         \/ CheckAccepted(w) /\ failed[w] = 1 /\ handle' = [handle EXCEPT ![conn(w)] = "closed"]
<1> USE DEF Rest, Kernels, lifeVars
<1>1. CASE Sends(w)
  BY <1>1, SendsCases DEF DoSend, SendRefused, DoSendFails, NoneInOrder
<1>2. CASE ErrorPath(w) \/ Dispatch(w) \/ SendCompleted(w)
  BY <1>2 DEF ErrorPath, Dispatch, SendCompleted
<1>3. CASE ReceiveAgain(w) \/ FirstReceives(w) \/ FirstSend(w)
  BY <1>3 DEF ReceiveAgain, FirstReceives, FirstSend
<1>4. CASE CountPost(w) \/ CountOff(w) \/ TailSends(w) \/ Free(w)
  BY <1>4 DEF CountPost, CountOff, TailSends, Free
<1>5. CASE Accepted(w) \/ PostAccept(w) \/ CountAccept(w)
  BY <1>5 DEF Accepted, PostAccept, CountAccept
<1>6. CASE CheckAccepted(w)
  BY <1>6 DEF CheckAccepted
<1>7. CASE UseAfterFree(w)
  BY <1>7 DEF UseAfterFree
<1> QED
  BY <1>1, <1>2, <1>3, <1>4, <1>5, <1>6, <1>7 DEF HandleIo, AcceptPath

LEMMA EchoesStep ==
  EchoesInv /\ Inv' /\ [Next]_vars => Echoes!Step \/ UNCHANGED Echoes!vars
<1> SUFFICES ASSUME EchoesInv, Inv', [Next]_vars  PROVE Echoes!Step \/ UNCHANGED Echoes!vars
  OBVIOUS
<1>0. Inv /\ TypeOK /\ Shape
  BY DEF EchoesInv, CountInv, Inv
<1>1. CASE UNCHANGED handle
  BY <1>0, <1>1, EchoStep
<1>2. ASSUME NEW d \in Conns, Shutdown(d) \/ Reset(d) \/ Kernel(d)  PROVE UNCHANGED handle
  BY <1>0, <1>2, KernelItem DEF Inv, ConnInv, KernelKeeps
<1>3. ASSUME NEW w \in Threads, Take(w)  PROVE UNCHANGED handle
  BY <1>3 DEF Take, lifeVars
<1>4. ASSUME NEW w \in Threads, HandleIo(w), handle' # handle
      PROVE  Echoes!Step \/ UNCHANGED Echoes!vars
  <2>0. /\ Busy(w) /\ conn(w) \in Conns /\ sock(w) \in Objs /\ UNCHANGED <<client, received>>
        /\ w \in threads
    <3>1. Busy(w)
      BY <1>0, <1>4, Moves
    <3>2. w \in threads
      BY <3>1 DEF EchoesInv, CountInv, Idle
    <3> QED
      BY <1>0, <1>4, <3>1, <3>2, Stays, OwnSocket, Sockets DEF clientVars
  <2>1. CASE CloseSocket(w)
    <3>1. /\ pc[w] = "close" /\ handle' = [handle EXCEPT ![sock(w)] = "closed"]
          /\ UNCHANGED <<echoed, miscounted>>
      BY <2>1 DEF CloseSocket, At, Kernels, Rest
    <3>2. CASE sock(w) \in Conns
      <4>1. Settled(sock(w)) \/ sock(w) \in miscounted
        BY <2>0, <3>1, <3>2 DEF EchoesInv, Closes
      <4> QED
        BY <1>0, <2>0, <3>1, <3>2, <4>1, ClosingIsClose DEF Settled
    <3>3. CASE sock(w) \notin Conns
      <4>1. \A c \in Conns : handle'[c] = handle[c]
        BY <1>0, <3>1, <3>3, Sockets DEF TypeOK
      <4> QED
        BY <2>0, <3>1, <4>1 DEF Echoes!vars
    <3> QED
      BY <3>2, <3>3
  <2>2. CASE CheckAccepted(w) /\ failed[w] = 1 /\ handle' = [handle EXCEPT ![conn(w)] = "closed"]
    <3>1. pc[w] = "check" /\ UNCHANGED <<echoed, miscounted>>
      BY <2>2 DEF CheckAccepted, At, Kernels, Rest
    <3>2. Gone(conn(w))
      BY <1>0, <2>0, <2>2, <3>1 DEF Inv, ConnInv, Leaving, Steps
    <3> QED
      BY <1>0, <2>0, <2>2, <3>1, <3>2, ClosingIsClose
  <2> QED
    BY <1>4, <2>1, <2>2, HandleCloseSteps
<1>5. Sweep \/ UNCHANGED vars => UNCHANGED handle
  BY DEF Sweep, vars, lifeVars
<1> QED
  BY <1>1, <1>2, <1>3, <1>4, <1>5 DEF Next

\* On any number of threads the server implements Echo: what it receives it
\* echoes, once and in order, and it closes a connection only when all of it
\* has been echoed, the client has reset it, or the count that fell to the
\* last operation left out one that was posted.
THEOREM EchoServed == Spec => ImplementsEcho
<1>1. Init => EchoesInv /\ Echoes!Init
  BY EchoesInit, EchoInitially
<1>2. EchoesInv /\ [Next]_vars => EchoesInv' /\ (Echoes!Step \/ UNCHANGED Echoes!vars)
  <2>1. EchoesInv' => Inv'
    BY DEF EchoesInv, CountInv
  <2> QED
    BY <2>1, EchoesNext, EchoesStep
<1> QED
  BY <1>1, <1>2, PTL DEF Spec, ImplementsEcho, Echoes!UnstoppedSpec
-----------------------------------------------------------------------------
(* One thread leaves nothing out. *)

OneInv == CountInv /\ One /\ miscounted = {} /\ \A w \in Threads : pc[w] # "decLast"

LEMMA OneNext == OneInv /\ [Next]_vars => OneInv'
<1> SUFFICES ASSUME OneInv, [Next]_vars  PROVE OneInv'
  OBVIOUS
<1>1. /\ CountInv /\ CountInv' /\ TypeOK /\ Shape /\ Counters /\ Counts /\ Idle /\ One
      /\ threads \subseteq Threads
  BY CountNext DEF OneInv, CountInv, Inv, Counters, Threads
<1>2. ASSUME NEW d \in Conns, Shutdown(d) \/ Reset(d) \/ Kernel(d)  PROVE OneInv'
  <2>1. UNCHANGED <<pc, threads, miscounted>>
    BY <1>2 DEF Shutdown, Reset, Kernel, AcceptDone, AcceptFails, RecvDone, RecvZero, RecvError,
       RecvTooLong, RecvCompletes, SendDone, Outside, threadVars
  <2> QED
    BY <1>1, <2>1 DEF OneInv, One
<1>3. ASSUME NEW w \in Threads, Take(w)  PROVE OneInv'
  <2>1. UNCHANGED <<threads, miscounted>>
    BY <1>3 DEF Take, Rest, clientVars
  <2>2. pc'[w] \in {"enter", "error"} /\ \A v \in Threads : v # w => pc'[v] = pc[v]
    BY <1>1, <1>3, TakeFacts
  <2> QED
    BY <1>1, <2>1, <2>2 DEF OneInv, One
<1>4. ASSUME NEW w \in Threads, HandleIo(w)  PROVE OneInv'
  <2>0. /\ Busy(w) /\ UNCHANGED threads /\ w \in threads
        /\ \A v \in Threads : v # w => pc'[v] = pc[v] /\ ~Busy(v)
    <3>1. Busy(w) /\ \A v \in Threads : v # w => pc'[v] = pc[v]
      BY <1>1, <1>4, Moves
    <3>2. w \in threads
      BY <1>1, <3>1 DEF Idle
    <3>3. \A v \in Threads : v # w => ~Busy(v)
      BY <1>1, <3>2 DEF Idle, One
    <3> QED
      BY <1>4, <3>1, <3>2, <3>3, Stays DEF clientVars
  <2>1. pc[w] # "decLast"
    BY DEF OneInv
  <2>2. pc'[w] # "decLast"
    <3>1. SUFFICES ASSUME pc[w] = "sends", NoneCounted(w)  PROVE FALSE
      BY <1>1, <1>4, <2>1, ClosingMoves
    <3>2. sock(w) \in Objs /\ sock(w) # NULL /\ OutstandingOps[sock(w)] = 0
      BY <1>1, <2>0, <3>1, OwnSocket, Sockets DEF NoneCounted
    <3>3. Owings(sock(w)) = {}
      <4>1. \A v \in threads : v = w
        BY <1>1, <2>0 DEF One
      <4> QED
        BY <3>1, <3>2, <4>1 DEF Owings, Owing
    <3>4. w \in Hands(sock(w))
      BY <2>0, <3>1 DEF Hands, InHand
    <3> QED
      BY <1>1, <3>2, <3>3, <3>4, InHandCounted
  <2>3. UNCHANGED miscounted
    <3>1. ~Miscounts(w, sock(w))
      BY <2>0, <2>1 DEF Miscounts, At, Uncounted, Busy
    <3>2. CASE CountOff(w)
      BY <3>1, <3>2 DEF CountOff
    <3> QED
      BY <1>4, <3>2, CountsApart
  <2> QED
    BY <1>1, <2>0, <2>2, <2>3 DEF OneInv, One
<1>5. CASE Sweep \/ UNCHANGED vars
  <2>1. UNCHANGED <<threads, pc, miscounted>>
    BY <1>5 DEF Sweep, vars, clientVars, threadVars, history
  <2> QED
    BY <1>1, <2>1 DEF OneInv, One
<1> QED
  BY <1>2, <1>3, <1>4, <1>5 DEF Next

\* With one completion thread no count leaves an operation out, so the server
\* closes a connection only when all of it has been echoed or the client has
\* reset it.
THEOREM EchoOfOneThread ==
  Spec /\ Cardinality(threads) = 1 => ImplementsEcho /\ [](miscounted = {})
<1>1. Init /\ Cardinality(threads) = 1 => OneInv
  <2>1. SUFFICES ASSUME Init, Cardinality(threads) = 1  PROVE OneInv
    OBVIOUS
  <2>2. CountInv
    BY <2>1, LifeInit DEF LifeInv
  <2>3. One
    BY <2>1, <2>2, FewThreads DEF CountInv, Counters
  <2> QED
    BY <2>1, <2>2, <2>3 DEF OneInv, Init
<1>2. OneInv => miscounted = {}
  BY DEF OneInv
<1> QED
  BY <1>1, <1>2, OneNext, EchoServed, PTL DEF Spec
=============================================================================

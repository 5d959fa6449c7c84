----------------------------- MODULE LspProofs -----------------------------
(***************************************************************************)
(* Theorems about Lsp, for any number of threads, handles, SOCK_INFOs,     *)
(* operations and calls, with or without completion ports, and every set   *)
(* of faults: the two counts of a SOCK_INFO are exact, and a closing one   *)
(* is locked.                                                              *)
(***************************************************************************)
EXTENDS Lsp, FiniteSetTheorems, SequenceTheorems, TLAPS

\* Where a thread of the application may be, and a worker.
AppPc == {"idle", "end", "end2", "accept", "joinleaf", "window", "spin", "select", "selects",
          "update", "updates", "update2", "acceptex", "close", "close2", "close3", "get", "pnp",
          "queue", "execute", "complete", "copy", "copied", "tell", "check", "count", "unlock",
          "put", "stop", "free"}
AcceptPc == {"accepting", "accepted", "release"}
WorkerPc == {"wait", "exit", "dequeue", "execute", "complete", "copy", "copied", "tell",
             "check", "count", "unlock", "put"} \cup AcceptPc

\* With an operation that is not counted off.
Early == {"queue", "execute", "complete", "copy", "copied", "tell", "check", "count"} \cup AcceptPc

ContextTypes ==
  /\ mem \in [Contexts -> {"heap", "live", "freed"}]
  /\ provider \in [Contexts -> {"open", "closed"}]
  /\ bClosing \in [Contexts -> 0 .. 1]
  /\ SockCritSec \in [Contexts -> Threads \cup {NULL}]
  /\ LayeredSocket \in [Contexts -> Handles \cup {NULL}]
  /\ handle \in [Handles -> Contexts \cup {NULL}]
ThreadTypes ==
  /\ pc \in [Threads -> AppPc \cup WorkerPc]
  /\ ctx \in [Threads -> Contexts \cup {NULL}] /\ ctx2 \in [Threads -> Contexts \cup {NULL}]
  /\ inner \in [Threads -> Contexts \cup {NULL}]
  /\ RefCount \in [Contexts -> Int] /\ lost \in [Contexts -> Nat]
OpTypes ==
  /\ dwOutstandingAsync \in [Contexts -> Int]
  /\ stage \in [Ops -> {"none", "own", "pending", "kernel", "port", "worker", "counted", "free",
                        "kept", "missing", "freed"}]
  /\ octx \in [Ops -> Contexts \cup {NULL}] /\ op \in [Threads -> Ops \cup {NULL}]
  /\ accepting \in [Ops -> Contexts \cup {NULL}]
  /\ port \in Seq(Ops) /\ Pending \in Seq(Ops)
Types == ContextTypes /\ ThreadTypes /\ OpTypes

\* A SOCK_INFO that once had a handle; only these are referred to.
Made(k) == k # NULL => LayeredSocket[k] # NULL

Pointers ==
  /\ \A t \in Threads : Made(ctx[t]) /\ Made(ctx2[t]) /\ Made(inner[t])
  /\ \A n \in Ops : Made(octx[n]) /\ Made(accepting[n])

\* Nothing has happened to a SOCK_INFO still on the heap.
Fresh(k) ==
  mem[k] = "heap" =>
    LayeredSocket[k] = NULL /\ bClosing[k] = 0 /\ SockCritSec[k] = NULL /\ provider[k] = "open"

\* A live SOCK_INFO has its handle; a handle may outlive its SOCK_INFO.
HandlesOK ==
  /\ \A h \in Handles : handle[h] # NULL =>
       mem[handle[h]] # "heap" /\ LayeredSocket[handle[h]] = h
  /\ \A k \in Contexts : mem[k] = "live" /\ LayeredSocket[k] # NULL =>
       handle[LayeredSocket[k]] = k

\* The SOCK_INFO whose lock t is going to release.
Keeper(t) == IF pc[t] = "close2" THEN ctx[t] ELSE IF pc[t] \in AcceptPc THEN ctx2[t] ELSE NULL

\* A SOCK_INFO that is closing stays locked; a worker's lock is released.
Locked(k) ==
  mem[k] = "live" =>
    /\ bClosing[k] = 1 => SockCritSec[k] # NULL
    /\ provider[k] = "closed" => bClosing[k] = 1 \/ k \notin SocketList
    /\ \A w \in Workers : SockCritSec[k] = w => Keeper(w) = k
\* Whoever is going to release a lock has it, and it is of none that is closing.
Inside(t) ==
  Live(Keeper(t)) => SockCritSec[Keeper(t)] = t /\ bClosing[Keeper(t)] = 0

\* What a thread may refer to where it is.
Shape(t) ==
  /\ t \in Apps => /\ pc[t] \in AppPc
                   /\ pc[t] \in {"idle", "end2", "stop", "free"} => ctx[t] = NULL
  /\ t \in Workers => /\ pc[t] \in WorkerPc /\ ctx[t] = NULL
                      /\ pc[t] \notin {"copy", "copied"} \cup AcceptPc => ctx2[t] = NULL
  /\ ctx2[t] # NULL => pc[t] \in {"end", "end2", "updates", "update2"} \cup (Early \ {"complete"})
                                 \cup {"get", "unlock", "put"}
  /\ inner[t] # NULL => pc[t] \in {"accepted", "count", "unlock"}

RefsExact(k) == mem[k] # "freed" => RefCount[k] = Cardinality(Holders(k)) + lost[k]

\* The operations that dwOutstandingAsync counts.
Counted == {"own", "pending", "kernel", "port", "worker", "kept", "missing"}
OpsOf(k) == {n \in Ops : octx[n] = k /\ stage[n] \in Counted}
OpsExact(k) ==
  mem[k] # "freed" => IsFiniteSet(OpsOf(k)) /\ dwOutstandingAsync[k] = Cardinality(OpsOf(k))

\* An operation has one owner, who counts it off once.
Owned(t) ==
  /\ pc[t] \in Early \cup {"unlock", "put"} => op[t] # NULL
  /\ op[t] # NULL =>
       /\ stage[op[t]] \in {"own", "worker", "counted", "freed"}
       /\ pc[t] \in Early => stage[op[t]] # "counted"
       /\ pc[t] = "unlock" => stage[op[t]] \in {"counted", "freed"}
       /\ pc[t] = "put" => stage[op[t]] = "counted" \/ ~Live(octx[op[t]])
       /\ \A u \in Threads : op[u] = op[t] => u = t
       /\ t \in Apps /\ pc[t] \in {"complete", "copy"} => accepting[op[t]] = NULL
       /\ pc[t] = "accepting" => accepting[op[t]] # NULL

PortOK ==
  /\ \A i \in 1 .. Len(port) : stage[port[i]] = "port"
  /\ \A i, j \in 1 .. Len(port) : port[i] = port[j] => i = j

\* An operation that is used has a SOCK_INFO, and a freed one none that is live.
FreedOps ==
  \A n \in Ops : /\ stage[n] # "none" => octx[n] # NULL
                 /\ stage[n] = "freed" => ~Live(octx[n])

\* The SOCK_INFOs, ...
ContextsInv ==
  /\ Pointers /\ HandlesOK
  /\ \A k \in Contexts : Fresh(k) /\ Locked(k)
  /\ \A t \in Threads : Inside(t)
\* ... the references to them, ...
RefsInv == (\A t \in Threads : Shape(t)) /\ \A k \in Contexts : RefsExact(k)
\* ... and the operations on them.
OpsInv ==
  /\ PortOK /\ FreedOps
  /\ (\A t \in Threads : Owned(t)) /\ \A k \in Contexts : OpsExact(k)

Inv == Types /\ ContextsInv /\ RefsInv /\ OpsInv
-----------------------------------------------------------------------------
(* Counting references and operations. *)

\* How often t refers to k.
Held1(t, k) == IF ctx[t] = k /\ ~At(t, "selects") THEN 1 ELSE 0
Held2(t, k) == IF ctx2[t] = k /\ ~At(t, "update2") THEN 1 ELSE 0
Held3(t, k) == IF inner[t] = k THEN 1 ELSE 0
Held(t, k) == Held1(t, k) + Held2(t, k) + Held3(t, k)

\* Only t moves.
Alone(t) ==
  \A u \in Threads : u # t =>
    pc'[u] = pc[u] /\ ctx'[u] = ctx[u] /\ ctx2'[u] = ctx2[u] /\ inner'[u] = inner[u]

LEMMA ThreadsFinite == IsFiniteSet(Threads)
BY ConstAssumption, FS_Union DEF Threads

LEMMA AddOneIf ==
  ASSUME NEW S, IsFiniteSet(S), NEW x, x \notin S, NEW A, NEW T,
         \A y : y \in T <=> y \in S \/ (A /\ y = x)
  PROVE  /\ IsFiniteSet(T)
         /\ Cardinality(T) = Cardinality(S) + (IF A THEN 1 ELSE 0) /\ Cardinality(S) \in Nat
<1>1. Cardinality(S) \in Nat
  BY FS_CardinalityType
<1>2. CASE A
  <2>1. T = S \cup {x}
    BY <1>2
  <2> QED
    BY <1>1, <1>2, <2>1, FS_AddElement
<1>3. CASE ~A
  <2>1. T = S
    BY <1>3
  <2> QED
    BY <1>1, <1>3, <2>1
<1> QED
  BY <1>2, <1>3

\* What is in Holders(k).
LEMMA HoldersElements ==
  ASSUME NEW k
  PROVE  /\ \A x : x \in Holders(k) <=>
              \E u \in Threads : \/ x = <<u, 1>> /\ ctx[u] = k /\ ~At(u, "selects")
                                 \/ x = <<u, 2>> /\ ctx2[u] = k /\ ~At(u, "update2")
                                 \/ x = <<u, 3>> /\ inner[u] = k
BY DEF Holders

\* The references of t, and those of the others.
OthersOf(t, k) == {x \in Holders(k) : x[1] # t}
Splits ==
  \A t \in Threads : \A k :
    /\ Cardinality(OthersOf(t, k)) \in Nat
    /\ Cardinality(Holders(k)) = Cardinality(OthersOf(t, k)) + Held(t, k)
LEMMA HoldersSplit == Splits
<1> SUFFICES ASSUME NEW t \in Threads, NEW k
             PROVE  /\ Cardinality(OthersOf(t, k)) \in Nat
                    /\ Cardinality(Holders(k)) = Cardinality(OthersOf(t, k)) + Held(t, k)
  BY DEF Splits
<1> DEFINE H == Holders(k)
           R == {x \in H : x[1] # t}
           A1 == ctx[t] = k /\ ~At(t, "selects")
           A2 == ctx2[t] = k /\ ~At(t, "update2")
           A3 == inner[t] = k
           R1 == {x \in H : x[1] # t \/ x = <<t, 1>>}
           R2 == {x \in H : x[1] # t \/ x = <<t, 1>> \/ x = <<t, 2>>}
<1>1. \A x : x \in H <=> \E u \in Threads : \/ x = <<u, 1>> /\ ctx[u] = k /\ ~At(u, "selects")
                                            \/ x = <<u, 2>> /\ ctx2[u] = k /\ ~At(u, "update2")
                                            \/ x = <<u, 3>> /\ inner[u] = k
  BY HoldersElements
<1>2. IsFiniteSet(R)
  <2>1. IsFiniteSet({1, 2, 3})
    <3>1. IsFiniteSet(1 .. 3)
      <4>1. 1 \in Int /\ 3 \in Int
        OBVIOUS
      <4> QED
        BY <4>1, FS_Interval
    <3>2. 1 .. 3 = {1, 2, 3}
      OBVIOUS
    <3> QED
      BY <3>1, <3>2
  <2>2. IsFiniteSet(Threads \X {1, 2, 3})
    BY <2>1, ThreadsFinite, FS_Product
  <2>3. R \subseteq Threads \X {1, 2, 3}
    BY <1>1
  <2> QED
    BY <2>2, <2>3, FS_Subset
<1>3. /\ <<t, 1>> \in H <=> A1
      /\ <<t, 2>> \in H <=> A2
      /\ <<t, 3>> \in H <=> A3
  BY <1>1
<1>4. \A x \in H : x[1] # t \/ x = <<t, 1>> \/ x = <<t, 2>> \/ x = <<t, 3>>
  BY <1>1
<1>5. /\ <<t, 1>> \notin R /\ <<t, 2>> \notin R1 /\ <<t, 3>> \notin R2
      /\ \A y : y \in R1 <=> y \in R \/ (A1 /\ y = <<t, 1>>)
      /\ \A y : y \in R2 <=> y \in R1 \/ (A2 /\ y = <<t, 2>>)
      /\ \A y : y \in H <=> y \in R2 \/ (A3 /\ y = <<t, 3>>)
  BY <1>3, <1>4
<1> HIDE DEF H, R, A1, A2, A3, R1, R2
<1>6. /\ IsFiniteSet(R1) /\ Cardinality(R1) = Cardinality(R) + (IF A1 THEN 1 ELSE 0)
      /\ Cardinality(R) \in Nat
  BY <1>2, <1>5, AddOneIf
<1>7. IsFiniteSet(R2) /\ Cardinality(R2) = Cardinality(R1) + (IF A2 THEN 1 ELSE 0)
  BY <1>5, <1>6, AddOneIf
<1>8. Cardinality(H) = Cardinality(R2) + (IF A3 THEN 1 ELSE 0)
  BY <1>5, <1>7, AddOneIf
<1>9. Cardinality(H) = Cardinality(R) + ((IF A1 THEN 1 ELSE 0) + (IF A2 THEN 1 ELSE 0) + (IF A3 THEN 1 ELSE 0))
  BY <1>6, <1>7, <1>8
<1> QED
  BY <1>6, <1>9 DEF OthersOf, H, R, A1, A2, A3, Held, Held1, Held2, Held3

LEMMA HoldersSplitNext == Splits'
BY HoldersSplit, PTL

\* The references of the others stay.
LEMMA HoldersChange ==
  ASSUME NEW t \in Threads, NEW k, Alone(t)
  PROVE  /\ Cardinality(Holders(k)') - Held(t, k)' = Cardinality(Holders(k)) - Held(t, k)
         /\ Cardinality(Holders(k)) \in Nat /\ Cardinality(Holders(k)') \in Nat
<1> DEFINE R == OthersOf(t, k)
           S == OthersOf(t, k)'
<1>1. \A x : x \in R <=> x[1] # t /\
        \E u \in Threads : \/ x = <<u, 1>> /\ ctx[u] = k /\ ~At(u, "selects")
                           \/ x = <<u, 2>> /\ ctx2[u] = k /\ ~At(u, "update2")
                           \/ x = <<u, 3>> /\ inner[u] = k
  BY HoldersElements DEF OthersOf
<1>2. \A x : x \in S <=> x[1] # t /\
        \E u \in Threads : \/ x = <<u, 1>> /\ ctx'[u] = k /\ pc'[u] # "selects"
                           \/ x = <<u, 2>> /\ ctx2'[u] = k /\ pc'[u] # "update2"
                           \/ x = <<u, 3>> /\ inner'[u] = k
  BY DEF OthersOf, Holders, At
<1>3. R = S
  <2>1. \A x : x \in R <=> x \in S
    <3> SUFFICES ASSUME NEW x
                 PROVE  x \in R <=> x \in S
      OBVIOUS
    <3> HIDE DEF R, S
    <3>1. \A u \in Threads, i \in 1 .. 3 : x = <<u, i>> => x[1] = u
      OBVIOUS
    <3> QED
      BY <1>1, <1>2, <3>1 DEF Alone, At
  <2> QED
    BY <2>1
<1>4. Cardinality(R) \in Nat /\ Cardinality(Holders(k)) = Cardinality(R) + Held(t, k)
  BY HoldersSplit DEF Splits
<1>5. Cardinality(S) \in Nat /\ Cardinality(Holders(k)') = Cardinality(S) + Held(t, k)'
  BY HoldersSplitNext DEF Splits
<1>6. Held(t, k) \in Nat /\ Held(t, k)' \in Nat
  BY DEF Held, Held1, Held2, Held3
<1> DEFINE c == Cardinality(R)
           a == Cardinality(Holders(k))
           b == Cardinality(Holders(k)')
<1>7. a = c + Held(t, k) /\ b = c + Held(t, k)' /\ c \in Nat
  BY <1>3, <1>4, <1>5
<1> HIDE DEF a, b, c
<1>8. b - Held(t, k)' = a - Held(t, k) /\ a \in Nat /\ b \in Nat
  BY <1>6, <1>7
<1> QED
  BY <1>8 DEF a, b

\* The counts stay exact if t moves and they follow what it holds.
LEMMA RefsAlone ==
  ASSUME ThreadTypes, ThreadTypes', RefsInv, NEW t \in Threads, Alone(t), Shape(t)',
         \A k \in Contexts : mem'[k] # "freed" =>
           /\ mem[k] # "freed"
           /\ RefCount'[k] - Held(t, k)' - lost'[k] = RefCount[k] - Held(t, k) - lost[k]
  PROVE  RefsInv'
<1>1. \A u \in Threads : Shape(u)'
  BY DEF RefsInv, Alone, Shape
<1>2. ASSUME NEW k \in Contexts, mem'[k] # "freed"
      PROVE  RefCount'[k] = Cardinality(Holders(k)') + lost'[k]
  <2> DEFINE a == Cardinality(Holders(k))
             b == Cardinality(Holders(k)')
             m == Held(t, k)
             n == Held(t, k)'
  <2>1. b - n = a - m /\ a \in Nat /\ b \in Nat
    BY HoldersChange
  <2>2. m \in Nat /\ n \in Nat
    BY DEF Held, Held1, Held2, Held3
  <2>3. RefCount[k] = a + lost[k] /\ RefCount'[k] - n - lost'[k] = RefCount[k] - m - lost[k]
    BY <1>2 DEF RefsInv, RefsExact
  <2>4. RefCount[k] \in Int /\ RefCount'[k] \in Int /\ lost[k] \in Nat /\ lost'[k] \in Nat
    BY DEF ThreadTypes
  <2> HIDE DEF a, b, m, n
  <2>5. RefCount'[k] = b + lost'[k]
    BY <2>1, <2>2, <2>3, <2>4
  <2> QED
    BY <2>5 DEF b
<1> QED
  BY <1>1, <1>2 DEF RefsInv, RefsExact

LEMMA KeeperType ==
  ASSUME ThreadTypes, NEW t \in Threads
  PROVE  Keeper(t) \in Contexts \cup {NULL}
BY DEF ThreadTypes, Keeper, AcceptPc

\* t locks k, which no other thread has, or unlocks it, marks it closing,
\* closes the socket below, or takes it out of the list.
Touches(t, k) ==
  /\ Live(k) /\ SockCritSec[k] \in {NULL, t} /\ Keeper(t) \in {NULL, k}
  /\ UNCHANGED <<handle, mem, LayeredSocket>>
  /\ \A j \in Contexts : j # k =>
       /\ bClosing'[j] = bClosing[j] /\ provider'[j] = provider[j]
       /\ SockCritSec'[j] = SockCritSec[j] /\ (j \in SocketList' => j \in SocketList)
  /\ Locked(k)' /\ Inside(t)'

LEMMA ContextsTouched ==
  ASSUME ContextTypes, ThreadTypes, ContextsInv, NEW t \in Threads, NEW k \in Contexts, Touches(t, k),
         \A u \in Threads : Made(ctx'[u]) /\ Made(ctx2'[u]) /\ Made(inner'[u]),
         \A n \in Ops : Made(octx'[n]) /\ Made(accepting'[n]),
         \A u \in Threads : u # t => Keeper(u)' = Keeper(u)
  PROVE  ContextsInv'
<1>1. Pointers' /\ HandlesOK'
  BY DEF Touches, ContextsInv, Pointers, Made, HandlesOK
<1>2. NULL \notin Threads
  BY ConstAssumption DEF Threads
<1>3. ASSUME NEW j \in Contexts
      PROVE  Fresh(j)' /\ Locked(j)'
  <2>1. Fresh(j) /\ Locked(j)
    BY DEF ContextsInv
  <2>2. CASE j = k
    BY <2>2 DEF Touches, Live, Fresh
  <2>3. CASE j # k
    <3>1. SockCritSec'[j] = SockCritSec[j] /\ mem'[j] = mem[j]
      BY <2>3 DEF Touches
    <3>2. ASSUME NEW w \in Workers, mem[j] = "live", SockCritSec[j] = w
          PROVE  Keeper(w)' = j
      <4>1. w \in Threads /\ Keeper(w) = j
        BY <2>1, <3>2 DEF Locked, Threads
      <4>2. w # t
        BY <2>3, <4>1, ConstAssumption DEF Touches
      <4> QED
        BY <4>1, <4>2
    <3> QED
      BY <2>1, <2>3, <3>1, <3>2 DEF Touches, Fresh, Locked
  <2> QED
    BY <2>2, <2>3
<1>4. ASSUME NEW u \in Threads, u # t
      PROVE  Inside(u)'
  <2>1. Inside(u) /\ Keeper(u)' = Keeper(u) /\ Keeper(u) \in Contexts \cup {NULL}
    BY <1>4, KeeperType DEF ContextsInv
  <2>2. Live(Keeper(u)) => Keeper(u) # k
    BY <1>2, <1>4, <2>1 DEF Touches, Inside
  <2> QED
    BY <2>1, <2>2 DEF Touches, Inside, Live
<1> QED
  BY <1>1, <1>3, <1>4 DEF ContextsInv, Touches

\* The SOCK_INFOs stay as they are.
LEMMA ContextsKept ==
  ASSUME ContextTypes, ContextsInv,
         UNCHANGED <<handle, SocketList, mem, provider, bClosing, SockCritSec, LayeredSocket>>,
         \A t \in Threads : Made(ctx'[t]) /\ Made(ctx2'[t]) /\ Made(inner'[t]),
         \A n \in Ops : Made(octx'[n]) /\ Made(accepting'[n]),
         \A t \in Threads : Keeper(t)' = Keeper(t)
  PROVE  ContextsInv'
<1>1. Pointers'
  BY DEF Pointers, Made
<1>2. HandlesOK'
  BY DEF ContextsInv, HandlesOK
<1>3. ASSUME NEW k \in Contexts
      PROVE  Fresh(k)' /\ Locked(k)'
  <2>1. Fresh(k) /\ Locked(k)
    BY DEF ContextsInv
  <2>2. \A w \in Workers : Keeper(w)' = Keeper(w)
    BY DEF Threads
  <2> QED
    BY <2>1, <2>2 DEF Fresh, Locked
<1>4. ASSUME NEW t \in Threads
      PROVE  Inside(t)'
  <2>1. Inside(t) /\ Keeper(t)' = Keeper(t)
    BY DEF ContextsInv
  <2> QED
    BY <2>1 DEF Inside, Live
<1> QED
  BY <1>1, <1>2, <1>3, <1>4 DEF ContextsInv

\* A SOCK_INFO is freed, and its handle closed or not.
HandleMay(k) == CloseSocketHandle(k) \/ UNCHANGED handle

LEMMA ContextsRelease ==
  ASSUME ContextTypes, ThreadTypes, ContextsInv, NEW k \in Contexts, Live(k), Release(k), HandleMay(k),
         UNCHANGED <<provider, bClosing, LayeredSocket>>,
         \A t \in Threads : Made(ctx'[t]) /\ Made(ctx2'[t]) /\ Made(inner'[t]),
         \A n \in Ops : Made(octx'[n]) /\ Made(accepting'[n]),
         \A t \in Threads : \/ Keeper(t)' = Keeper(t)
                            \/ Keeper(t) = k /\ Keeper(t)' = NULL
  PROVE  ContextsInv' /\ ContextTypes'
<1>1. Pointers'
  BY DEF Pointers, Made
<1>2. /\ \A j \in Contexts : j # k => mem'[j] = mem[j] /\ SockCritSec'[j] = SockCritSec[j]
      /\ mem'[k] = "freed" /\ SocketList' = SocketList \ {k}
      /\ \A h \in Handles : \/ handle'[h] = handle[h]
                            \/ handle[h] = k /\ handle'[h] = NULL
      /\ \A j \in Contexts : LayeredSocket[j] \in Handles \cup {NULL}
      /\ \A h \in Handles : handle[h] \in Contexts \cup {NULL}
  BY DEF ContextTypes, Release, Keeps, HandleMay, CloseSocketHandle
<1>3. HandlesOK'
  <2>1. ASSUME NEW h \in Handles, handle'[h] # NULL
        PROVE  mem'[handle'[h]] # "heap" /\ LayeredSocket'[handle'[h]] = h
    <3>1. handle'[h] = handle[h] /\ handle[h] \in Contexts
      BY <1>2, <2>1
    <3> QED
      BY <1>2, <3>1, <2>1 DEF ContextsInv, HandlesOK
  <2>2. ASSUME NEW j \in Contexts, mem'[j] = "live", LayeredSocket[j] # NULL
        PROVE  handle'[LayeredSocket[j]] = j
    <3>1. j # k /\ mem[j] = "live" /\ LayeredSocket[j] \in Handles
      BY <1>2, <2>2
    <3>2. handle[LayeredSocket[j]] = j
      BY <2>2, <3>1 DEF ContextsInv, HandlesOK
    <3> QED
      BY <1>2, <3>1, <3>2
  <2> QED
    BY <2>1, <2>2 DEF HandlesOK
<1>4. ASSUME NEW j \in Contexts
      PROVE  Fresh(j)' /\ Locked(j)'
  <2>1. Fresh(j) /\ Locked(j)
    BY DEF ContextsInv
  <2>2. CASE j = k
    BY <1>2, <2>2 DEF Fresh, Locked
  <2>3. CASE j # k
    <3>1. ASSUME NEW w \in Workers, mem[j] = "live", SockCritSec'[j] = w
          PROVE  Keeper(w)' = j
      <4>1. w \in Threads /\ Keeper(w) = j
        BY <1>2, <2>1, <2>3, <3>1 DEF Locked, Threads
      <4> QED
        BY <2>3, <4>1
    <3> QED
      BY <1>2, <2>1, <2>3, <3>1 DEF Fresh, Locked
  <2> QED
    BY <2>2, <2>3
<1>5. ASSUME NEW t \in Threads
      PROVE  Inside(t)'
  <2>1. Inside(t) /\ (Keeper(t)' = Keeper(t) \/ Keeper(t)' = NULL)
    BY DEF ContextsInv
  <2>2. ASSUME Live(Keeper(t))'
        PROVE  SockCritSec'[Keeper(t)'] = t /\ bClosing'[Keeper(t)'] = 0
    <3>1. Keeper(t)' = Keeper(t) /\ mem'[Keeper(t)] = "live" /\ Keeper(t) # NULL
      BY <2>1, <2>2 DEF Live
    <3>2. Keeper(t) \in Contexts => Keeper(t) # k /\ Live(Keeper(t)) /\ SockCritSec'[Keeper(t)] = SockCritSec[Keeper(t)]
      BY <1>2, <3>1 DEF Live
    <3>3. Keeper(t) \in Contexts
      BY <3>1, KeeperType
    <3> QED
      BY <2>1, <3>1, <3>2, <3>3 DEF Inside
  <2> QED
    BY <2>2 DEF Inside
<1>6. ContextTypes'
  BY DEF Release, Keeps, HandleMay, CloseSocketHandle, ContextTypes
<1> QED
  BY <1>1, <1>3, <1>4, <1>5, <1>6 DEF ContextsInv

\* UnlockSocketContext may free it.
LEMMA ContextsUnlock ==
  ASSUME ContextTypes, ThreadTypes, ContextsInv, NEW k \in Contexts, UnlockSocketContext(k),
         \A t \in Threads : Made(ctx'[t]) /\ Made(ctx2'[t]) /\ Made(inner'[t]),
         \A n \in Ops : Made(octx'[n]) /\ Made(accepting'[n]),
         \A t \in Threads : Keeper(t)' = Keeper(t)
  PROVE  ContextsInv' /\ ContextTypes' /\ \A j \in Contexts : mem'[j] \in {mem[j], "freed"}
<1>1. CASE LastOfClosing(k)
  <2>1. Live(k) /\ Release(k) /\ HandleMay(k) /\ UNCHANGED <<provider, bClosing, LayeredSocket>>
    BY <1>1 DEF UnlockSocketContext, HandleMay, HandleFails
  <2>2. ContextsInv' /\ ContextTypes'
    BY <2>1, ContextsRelease
  <2>3. \A j \in Contexts : mem'[j] \in {mem[j], "freed"}
    BY <2>1 DEF Release, ContextTypes
  <2> QED
    BY <2>2, <2>3
<1>2. CASE ~LastOfClosing(k)
  <2>1. UNCHANGED <<handle, SocketList, mem, provider, bClosing, SockCritSec, LayeredSocket>>
    BY <1>2 DEF UnlockSocketContext
  <2>2. ContextsInv'
    BY <2>1, ContextsKept
  <2>3. ContextTypes' /\ \A j \in Contexts : mem'[j] \in {mem[j], "freed"}
    BY <2>1 DEF ContextTypes
  <2> QED
    BY <2>2, <2>3
<1> QED
  BY <1>1, <1>2
-----------------------------------------------------------------------------
(* The operations. *)

Counts(n, k) == IF octx[n] = k /\ stage[n] \in Counted THEN 1 ELSE 0

OnlyOp(n) ==
  \A m \in Ops : m # n => stage'[m] = stage[m] /\ octx'[m] = octx[m] /\ accepting'[m] = accepting[m]

\* The other operations stay counted or not.
LEMMA OpsChange ==
  ASSUME NEW n \in Ops, NEW k, OnlyOp(n), IsFiniteSet(OpsOf(k))
  PROVE  /\ IsFiniteSet(OpsOf(k)')
         /\ Cardinality(OpsOf(k)') - Counts(n, k)' = Cardinality(OpsOf(k)) - Counts(n, k)
         /\ Cardinality(OpsOf(k)) \in Nat /\ Cardinality(OpsOf(k)') \in Nat
<1> DEFINE S == OpsOf(k)
           T == OpsOf(k)'
           R == {m \in S : m # n}
           A == octx[n] = k /\ stage[n] \in Counted
           B == octx'[n] = k /\ stage'[n] \in Counted
<1>1. IsFiniteSet(R) /\ n \notin R
  BY FS_Subset
<1>2. /\ \A y : y \in S <=> y \in R \/ (A /\ y = n)
      /\ \A y : y \in T <=> y \in R \/ (B /\ y = n)
  BY DEF OpsOf, OnlyOp
<1>3. Counts(n, k) = (IF A THEN 1 ELSE 0) /\ Counts(n, k)' = (IF B THEN 1 ELSE 0)
  BY DEF Counts
<1>8. IsFiniteSet(S)
  OBVIOUS
<1> HIDE DEF S, T, R, A, B
<1>4. /\ IsFiniteSet(S) /\ Cardinality(S) = Cardinality(R) + (IF A THEN 1 ELSE 0)
      /\ Cardinality(R) \in Nat
  BY <1>1, <1>2, <1>8, AddOneIf
<1>5. IsFiniteSet(T) /\ Cardinality(T) = Cardinality(R) + (IF B THEN 1 ELSE 0)
  BY <1>1, <1>2, AddOneIf
<1>6. Cardinality(T) - Counts(n, k)' = Cardinality(S) - Counts(n, k)
  BY <1>3, <1>4, <1>5
<1>7. Cardinality(S) \in Nat /\ Cardinality(T) \in Nat
  BY <1>4, <1>5, FS_CardinalityType
<1> QED
  BY <1>5, <1>6, <1>7 DEF S, T

\* One operation goes on, with its owner if it has one.
LEMMA OpsStep ==
  ASSUME OpTypes, OpTypes', OpsInv, NEW n \in Ops, NEW t, OnlyOp(n), UNCHANGED mem,
         stage'[n] # "freed", octx'[n] # NULL,
         \A u \in Threads : u # t => pc'[u] = pc[u] /\ op'[u] = op[u] /\ op[u] # n,
         t \in Threads => op'[t] \in {op[t], NULL, n} /\ Owned(t)',
         PortOK',
         \A k \in Contexts : mem[k] # "freed" =>
           dwOutstandingAsync'[k] - Counts(n, k)' = dwOutstandingAsync[k] - Counts(n, k)
  PROVE  OpsInv'
<1>1. FreedOps'
  BY DEF OpsInv, FreedOps, OnlyOp, Live
<1>2. ASSUME NEW u \in Threads, u # t
      PROVE  Owned(u)'
  <2>1. op'[u] = op[u] /\ op[u] # n /\ pc'[u] = pc[u] /\ op[u] \in Ops \cup {NULL}
    BY <1>2 DEF OpTypes
  <2>2. op[u] # NULL => /\ stage'[op[u]] = stage[op[u]] /\ octx'[op[u]] = octx[op[u]]
                        /\ accepting'[op[u]] = accepting[op[u]]
    BY <2>1 DEF OnlyOp
  <2>3. Owned(u)
    BY DEF OpsInv
  <2>4. op[u] # NULL => \A v \in Threads : op'[v] = op[u] => v = u
    BY <1>2, <2>1, <2>3 DEF Owned
  <2> QED
    BY <2>1, <2>2, <2>3, <2>4 DEF Owned, Live
<1>3. ASSUME NEW k \in Contexts, mem'[k] # "freed"
      PROVE  IsFiniteSet(OpsOf(k)') /\ dwOutstandingAsync'[k] = Cardinality(OpsOf(k)')
  <2> DEFINE a == Cardinality(OpsOf(k))
             b == Cardinality(OpsOf(k)')
             m == Counts(n, k)
             l == Counts(n, k)'
  <2>1. IsFiniteSet(OpsOf(k)) /\ dwOutstandingAsync[k] = a
    BY <1>3 DEF OpsInv, OpsExact
  <2>2. IsFiniteSet(OpsOf(k)') /\ b - l = a - m /\ a \in Nat /\ b \in Nat
    BY <2>1, OpsChange
  <2>3. m \in Nat /\ l \in Nat
    BY DEF Counts
  <2>4. dwOutstandingAsync'[k] - l = dwOutstandingAsync[k] - m
    BY <1>3
  <2>5. dwOutstandingAsync'[k] \in Int
    BY DEF OpTypes
  <2> HIDE DEF a, b, l, m
  <2>6. dwOutstandingAsync'[k] = b
    BY <2>1, <2>2, <2>3, <2>4, <2>5
  <2> QED
    BY <2>2, <2>6 DEF b
<1> QED
  BY <1>1, <1>2, <1>3 DEF OpsInv, OpsExact

\* Where the second SOCK_INFO of AcceptEx matters.
AcceptsSo(t) ==
  \/ pc'[t] \notin {"complete", "copy", "accepting"}
  \/ pc[t] = "complete" /\ pc'[t] = "copy"
  \/ pc[t] = "copy" /\ pc'[t] = "accepting" /\ accepting[op[t]] # NULL

\* The operations stay as they are.
LEMMA OpsQuiet ==
  ASSUME OpTypes, OpsInv, Pointers, UNCHANGED <<stage, octx, accepting, port, dwOutstandingAsync, op>>,
         \A k \in Contexts : mem'[k] \in {mem[k], "freed"} \/ (mem[k] = "heap" /\ LayeredSocket[k] = NULL),
         \A k \in Contexts : mem[k] = "freed" => mem'[k] = "freed",
         \A u \in Threads : \/ pc'[u] = pc[u]
                            \/ pc'[u] \notin Early \cup {"unlock", "put"}
                            \/ pc[u] \in Early /\ pc'[u] \in Early /\ AcceptsSo(u)
                            \/ pc[u] = "unlock" /\ pc'[u] = "put"
                            \/ op[u] # NULL /\ pc'[u] = "put" /\ ~Live(octx[op[u]])
  PROVE  OpsInv'
<1>1. PortOK'
  BY DEF OpsInv, PortOK
<1>2. \A n \in Ops : Live(octx[n])' => Live(octx[n])
  <2> SUFFICES ASSUME NEW n \in Ops, Live(octx[n])'
               PROVE  Live(octx[n])
    OBVIOUS
  <2>1. octx[n] \in Contexts /\ octx[n] # NULL /\ mem'[octx[n]] = "live"
    BY DEF Live, OpTypes
  <2>2. LayeredSocket[octx[n]] # NULL
    BY <2>1 DEF Pointers, Made
  <2> QED
    BY <2>1, <2>2 DEF Live
<1>3. FreedOps'
  BY <1>2 DEF OpsInv, FreedOps
<1>4. ASSUME NEW u \in Threads
      PROVE  Owned(u)'
  <2>1. Owned(u) /\ op[u] \in Ops \cup {NULL} /\ FreedOps
    BY DEF OpsInv, OpTypes
  <2>2. op[u] # NULL => (Live(octx[op[u]])' => Live(octx[op[u]]))
    BY <1>2, <2>1
  <2>3. op[u] # NULL => \A v \in Threads : op'[v] = op[u] => v = u
    BY <2>1 DEF Owned
  <2>4. pc'[u] \in Early \cup {"unlock", "put"} => op'[u] # NULL
    BY <2>1 DEF Owned, Early, AcceptPc
  <2>5. op[u] # NULL => stage[op[u]] \in {"own", "worker", "counted", "freed"}
    BY <2>1 DEF Owned
  <2>6. op[u] # NULL /\ pc'[u] \in Early => stage[op[u]] # "counted"
    BY <2>1 DEF Owned, Early, AcceptPc
  <2>7. op[u] # NULL /\ pc'[u] = "unlock" => stage[op[u]] \in {"counted", "freed"}
    BY <2>1 DEF Owned, Early, AcceptPc
  <2>8. op[u] # NULL /\ pc'[u] = "put" => stage[op[u]] = "counted" \/ ~Live(octx[op[u]])'
    <3>1. op[u] # NULL /\ stage[op[u]] = "freed" => ~Live(octx[op[u]])
      BY <2>1 DEF FreedOps
    <3> QED
      BY <2>1, <2>2, <3>1 DEF Owned, Early, AcceptPc
  <2>9. op[u] # NULL /\ u \in Apps /\ pc'[u] \in {"complete", "copy"} => accepting[op[u]] = NULL
    BY <2>1 DEF Owned, Early, AcceptsSo, AcceptPc
  <2>10. op[u] # NULL /\ pc'[u] = "accepting" => accepting[op[u]] # NULL
    BY <2>1 DEF Owned, Early, AcceptsSo, AcceptPc
  <2> QED
    BY <2>3, <2>4, <2>5, <2>6, <2>7, <2>8, <2>9, <2>10 DEF Owned
<1>5. ASSUME NEW k \in Contexts
      PROVE  OpsExact(k)'
  BY DEF OpsInv, OpsExact, OpsOf
<1> QED
  BY <1>1, <1>3, <1>4, <1>5 DEF OpsInv
-----------------------------------------------------------------------------
(* Steps that take a reference or give one back. *)

\* Where the owner of an operation goes.
OpMoves(t) ==
  \/ pc'[t] \notin Early \cup {"unlock", "put"}
  \/ pc[t] \in Early /\ pc'[t] \in Early /\ AcceptsSo(t)
  \/ pc[t] = "unlock" /\ pc'[t] = "put"
  \/ op[t] # NULL /\ pc'[t] = "put" /\ ~Live(octx[op[t]])

Follows(t) == Made(ctx'[t]) /\ Made(ctx2'[t]) /\ Made(inner'[t])

\* t keeps no lock that it will release.
Unlocked(t) == pc[t] \notin {"close2"} \cup AcceptPc /\ pc'[t] \notin {"close2"} \cup AcceptPc
KeepsOn(t) == Unlocked(t) \/ Keeper(t)' = Keeper(t)

LEMMA InvPlain ==
  ASSUME Inv, NEW t \in Threads, Alone(t), ThreadTypes', Shape(t)', KeepsOn(t),
         Follows(t), OpMoves(t),
         UNCHANGED ctxVars, UNCHANGED <<stage, octx, accepting, port, Pending, dwOutstandingAsync, op>>,
         \A k \in Contexts :
           RefCount'[k] - Held(t, k)' - lost'[k] = RefCount[k] - Held(t, k) - lost[k]
  PROVE  Inv'
<1>1. Types /\ ContextsInv /\ RefsInv /\ OpsInv
  BY DEF Inv
<1>2. Types'
  BY <1>1 DEF Types, ContextTypes, OpTypes, ctxVars
<1>3. ContextsInv'
  <2>1. /\ \A u \in Threads : Made(ctx'[u]) /\ Made(ctx2'[u]) /\ Made(inner'[u])
        /\ \A n \in Ops : Made(octx'[n]) /\ Made(accepting'[n])
        /\ \A u \in Threads : Keeper(u)' = Keeper(u)
    BY <1>1 DEF ContextsInv, Pointers, Alone, Follows, KeepsOn, Unlocked, Keeper, AcceptPc
  <2> QED
    BY <1>1, <2>1, ContextsKept DEF ctxVars, Types
<1>4. RefsInv'
  BY <1>1, RefsAlone DEF ctxVars, Types
<1>5. OpsInv'
  <2>1. \A u \in Threads : pc'[u] = pc[u] \/ OpMoves(u)
    BY DEF Alone
  <2> QED
    BY <1>1, <2>1, OpsQuiet DEF Types, ContextsInv, OpMoves, ctxVars
<1> QED
  BY <1>2, <1>3, <1>4, <1>5 DEF Inv

LEMMA InvUnlock ==
  ASSUME Inv, NEW t \in Threads, NEW k \in Contexts, UnlockSocketContext(k),
         Alone(t), ThreadTypes', Shape(t)', KeepsOn(t),
         Follows(t), OpMoves(t),
         UNCHANGED <<stage, octx, accepting, port, Pending, dwOutstandingAsync, op, lost>>,
         \A j \in Contexts : Held(t, j)' = Held(t, j) - (IF j = k THEN 1 ELSE 0)
  PROVE  Inv'
<1>1. Types /\ ContextsInv /\ RefsInv /\ OpsInv
  BY DEF Inv
<1>2. /\ LayeredSocket' = LayeredSocket
      /\ RefCount' = [RefCount EXCEPT ![k] = @ - 1]
  BY <1>1 DEF UnlockSocketContext, Incr, Types, ThreadTypes
<1>3. ContextsInv' /\ ContextTypes' /\ \A j \in Contexts : mem'[j] \in {mem[j], "freed"}
  <2>1. /\ \A u \in Threads : Made(ctx'[u]) /\ Made(ctx2'[u]) /\ Made(inner'[u])
        /\ \A n \in Ops : Made(octx'[n]) /\ Made(accepting'[n])
        /\ \A u \in Threads : Keeper(u)' = Keeper(u)
    BY <1>1 DEF ContextsInv, Pointers, Alone, Follows, KeepsOn, Unlocked, Keeper, AcceptPc
  <2> QED
    BY <1>1, <2>1, ContextsUnlock DEF Types
<1>4. RefsInv'
  <2>1. ASSUME NEW j \in Contexts, mem'[j] # "freed"
        PROVE  /\ mem[j] # "freed"
               /\ RefCount'[j] - Held(t, j)' - lost'[j] = RefCount[j] - Held(t, j) - lost[j]
    <3>1. mem[j] # "freed"
      BY <1>3, <2>1
    <3>2. RefCount'[j] = RefCount[j] - (IF j = k THEN 1 ELSE 0)
      BY <1>1, <1>2 DEF Types, ThreadTypes
    <3>3. RefCount[j] \in Int /\ lost[j] \in Nat /\ Held(t, j) \in Nat
      BY <1>1 DEF Types, ThreadTypes, Held, Held1, Held2, Held3
    <3> QED
      BY <3>1, <3>2, <3>3
  <2> QED
    BY <1>1, <2>1, RefsAlone DEF Types
<1>5. OpsInv'
  <2>1. \A u \in Threads : pc'[u] = pc[u] \/ OpMoves(u)
    BY DEF Alone
  <2> QED
    BY <1>1, <1>3, <2>1, OpsQuiet DEF Types, ContextsInv, OpMoves
<1>6. OpTypes'
  BY <1>1 DEF Types, OpTypes
<1> QED
  BY <1>3, <1>4, <1>5, <1>6 DEF Inv, Types

\* An open handle leads to a SOCK_INFO.
LEMMA Found ==
  ASSUME Inv, NEW h \in Handles, handle[h] # NULL
  PROVE  handle[h] \in Contexts /\ Made(handle[h])
<1>1. handle[h] \in Contexts /\ LayeredSocket[handle[h]] = h /\ NULL \notin Handles
  BY ConstAssumption DEF Inv, Types, ContextTypes, ContextsInv, HandlesOK
<1> QED
  BY <1>1 DEF Made

\* What a thread has, and where it may be.
LEMMA ThreadFacts ==
  ASSUME Inv, NEW t \in Threads
  PROVE  /\ pc[t] \in AppPc \cup WorkerPc /\ ctx[t] \in Contexts \cup {NULL}
         /\ ctx2[t] \in Contexts \cup {NULL} /\ inner[t] \in Contexts \cup {NULL}
         /\ op[t] \in Ops \cup {NULL}
         /\ Made(ctx[t]) /\ Made(ctx2[t]) /\ Made(inner[t])
         /\ Shape(t) /\ Owned(t)
         /\ NULL \notin Contexts /\ NULL \notin Ops /\ ~(t \in Apps /\ t \in Workers)
         /\ t \in Apps \/ t \in Workers
         /\ \A k \in Contexts : RefCount[k] \in Int /\ lost[k] \in Nat
BY ConstAssumption DEF Inv, Types, ThreadTypes, OpTypes, ContextsInv, Pointers, RefsInv, OpsInv, Threads

BeginPc == {"end", "get", "pnp", "accept", "joinleaf", "window", "select", "update", "acceptex", "close"}

LEMMA InvBegin ==
  ASSUME Inv, NEW t \in Threads, NEW h \in Handles, NEW l \in BeginPc, Begin(t, h, l)
  PROVE  Inv'
<1> DEFINE k == handle[h]
<1>1. ThreadTypes
  BY DEF Inv, Types
<1>2. /\ t \in Apps /\ pc[t] = "idle" /\ k # NULL
      /\ pc' = [pc EXCEPT ![t] = l] /\ ctx' = [ctx EXCEPT ![t] = k]
      /\ RefCount' = [RefCount EXCEPT ![k] = @ + 1]
      /\ UNCHANGED <<ctx2, inner, lost, ctxVars, stage, octx, accepting, port, Pending, dwOutstandingAsync, op>>
  BY DEF Begin, Idle, At, FindAndLockSocketContext, Holds, Goto, Live, Incr, opVars, history
<1>3. /\ ctx[t] = NULL /\ ctx2[t] = NULL /\ inner[t] = NULL /\ NULL \notin Contexts
      /\ ~(t \in Workers) /\ Made(ctx2[t]) /\ Made(inner[t])
  BY <1>2, ThreadFacts DEF Shape, Early, AcceptPc
<1>4. k \in Contexts /\ Made(k)
  BY <1>2, Found
<1> HIDE DEF k
<1>5. pc'[t] = l /\ ctx'[t] = k /\ ctx2'[t] = NULL /\ inner'[t] = NULL
  BY <1>1, <1>2, <1>3 DEF ThreadTypes
<1>6. Alone(t)
  BY <1>1, <1>2 DEF ThreadTypes, Alone
<1>7. ThreadTypes'
  <2>1. l \in AppPc
    BY DEF BeginPc, AppPc
  <2> QED
    BY <1>1, <1>2, <1>4, <2>1 DEF ThreadTypes
<1>8. Shape(t)'
  BY <1>2, <1>3, <1>5 DEF Shape, BeginPc, AppPc
<1>9. \A j \in Contexts : RefCount'[j] - Held(t, j)' - lost'[j] = RefCount[j] - Held(t, j) - lost[j]
  <2> SUFFICES ASSUME NEW j \in Contexts
               PROVE  RefCount'[j] - Held(t, j)' - lost'[j] = RefCount[j] - Held(t, j) - lost[j]
    OBVIOUS
  <2>1. Held(t, j) = 0
    BY <1>3 DEF Held, Held1, Held2, Held3
  <2>2. Held(t, j)' = IF j = k THEN 1 ELSE 0
    BY <1>3, <1>5 DEF Held, Held1, Held2, Held3, At, BeginPc
  <2>3. RefCount'[j] = RefCount[j] + (IF j = k THEN 1 ELSE 0) /\ lost'[j] = lost[j]
    BY <1>1, <1>2 DEF ThreadTypes
  <2>4. RefCount[j] \in Int /\ lost[j] \in Nat
    BY ThreadFacts
  <2> QED
    BY <2>1, <2>2, <2>3, <2>4
<1>10. Follows(t)
  BY <1>2, <1>3, <1>4, <1>5 DEF Follows, Made
<1>11. OpMoves(t) /\ KeepsOn(t)
  BY <1>2, <1>5 DEF OpMoves, BeginPc, Early, AcceptPc, AcceptsSo, KeepsOn, Unlocked
<1> QED
  BY <1>2, <1>6, <1>7, <1>8, <1>9, <1>10, <1>11, InvPlain

LEMMA InvCall ==
  ASSUME Inv, NEW t \in Threads, NEW h \in Handles, Call(t, h)
  PROVE  Inv'
<1>1. \E l \in BeginPc : Begin(t, h, l)
  BY DEF Call, BeginPc, Forward, ForwardOrQueue, WSPBind, WSPConnect, WSPDuplicateSocket,
         WSPEnumNetworkEvents, WSPEventSelect, WSPGetPeerName, WSPGetSockName, WSPGetSockOpt,
         WSPGetQOSByName, WSPListen, WSPRecvDisconnect, WSPSendDisconnect, WSPShutdown, WSPIoctl,
         WSPRecv, WSPRecvFrom, WSPSend, WSPSendTo, ExtTransmitFile, ExtConnectEx,
         ExtTransmitPackets, ExtDisconnectEx, ExtWSARecvMsg, WSPAccept, WSPJoinLeaf,
         WSPAsyncSelect, WSPSelect, WSPSetSockOpt, ExtAcceptEx, WSPCloseSocket
<1> QED
  BY <1>1, InvBegin

LEMMA InvFindSecond ==
  ASSUME Inv, NEW t \in Threads, NEW h \in Handles, FindSecond(t, h)
  PROVE  Inv'
<1> DEFINE k == handle[h]
<1>1. ThreadTypes
  BY DEF Inv, Types
<1>2. /\ pc[t] \in {"update", "acceptex"} /\ k # NULL
      /\ pc' = [pc EXCEPT ![t] = IF pc[t] = "update" THEN "updates" ELSE "get"]
      /\ ctx2' = [ctx2 EXCEPT ![t] = k]
      /\ RefCount' = [RefCount EXCEPT ![k] = @ + 1]
      /\ UNCHANGED <<ctx, inner, lost, ctxVars, stage, octx, accepting, port, Pending, dwOutstandingAsync, op>>
  BY DEF FindSecond, At, FindAndLockSocketContext, Goto, Live, Incr, opVars, history, Rest
<1>3. /\ ctx2[t] = NULL /\ inner[t] = NULL /\ NULL \notin Contexts
      /\ t \in Apps /\ ~(t \in Workers) /\ Made(ctx[t]) /\ Made(inner[t])
  BY <1>2, ThreadFacts DEF Shape, Early, WorkerPc, AcceptPc
<1>4. k \in Contexts /\ Made(k)
  BY <1>2, Found
<1> HIDE DEF k
<1>5. pc'[t] \in {"updates", "get"} /\ ctx'[t] = ctx[t] /\ ctx2'[t] = k /\ inner'[t] = NULL
  BY <1>1, <1>2, <1>3 DEF ThreadTypes
<1>6. Alone(t)
  BY <1>1, <1>2 DEF ThreadTypes, Alone
<1>7. ThreadTypes'
  BY <1>1, <1>2, <1>4 DEF ThreadTypes, AppPc
<1>8. Shape(t)'
  BY <1>2, <1>3, <1>5 DEF Shape, AppPc
<1>9. \A j \in Contexts : RefCount'[j] - Held(t, j)' - lost'[j] = RefCount[j] - Held(t, j) - lost[j]
  <2> SUFFICES ASSUME NEW j \in Contexts
               PROVE  RefCount'[j] - Held(t, j)' - lost'[j] = RefCount[j] - Held(t, j) - lost[j]
    OBVIOUS
  <2>1. Held(t, j) = IF ctx[t] = j THEN 1 ELSE 0
    BY <1>2, <1>3 DEF Held, Held1, Held2, Held3, At
  <2>2. Held(t, j)' = (IF ctx[t] = j THEN 1 ELSE 0) + (IF j = k THEN 1 ELSE 0)
    BY <1>3, <1>5 DEF Held, Held1, Held2, Held3, At
  <2>3. RefCount'[j] = RefCount[j] + (IF j = k THEN 1 ELSE 0) /\ lost'[j] = lost[j]
    BY <1>1, <1>2 DEF ThreadTypes
  <2>4. RefCount[j] \in Int /\ lost[j] \in Nat
    BY ThreadFacts
  <2> QED
    BY <2>1, <2>2, <2>3, <2>4
<1>10. Follows(t)
  BY <1>2, <1>3, <1>4, <1>5 DEF Follows, Made
<1>11. OpMoves(t) /\ KeepsOn(t)
  BY <1>2, <1>5 DEF OpMoves, Early, AcceptPc, AcceptsSo, KeepsOn, Unlocked
<1> QED
  BY <1>2, <1>6, <1>7, <1>8, <1>9, <1>10, <1>11, InvPlain


\* t goes to l and then has a, b and c.
Goes(t, l, a, b, c) ==
  /\ pc' = [pc EXCEPT ![t] = l] /\ ctx' = [ctx EXCEPT ![t] = a]
  /\ ctx2' = [ctx2 EXCEPT ![t] = b] /\ inner' = [inner EXCEPT ![t] = c]

LEMMA GoesTo ==
  ASSUME Inv, NEW t \in Threads, NEW l \in AppPc \cup WorkerPc, NEW a \in Contexts \cup {NULL},
         NEW b \in Contexts \cup {NULL}, NEW c \in Contexts \cup {NULL}, Goes(t, l, a, b, c)
  PROVE  /\ Alone(t)
         /\ pc'[t] = l /\ ctx'[t] = a /\ ctx2'[t] = b /\ inner'[t] = c
         /\ RefCount' \in [Contexts -> Int] /\ lost' \in [Contexts -> Nat] => ThreadTypes'
<1>1. ThreadTypes
  BY DEF Inv, Types
<1> QED
  BY <1>1 DEF ThreadTypes, Goes, Alone

\* A reference is given back.
LEMMA InvGives ==
  ASSUME Inv, NEW t \in Threads, NEW k, UnlockSocketContext(k), NEW l \in AppPc \cup WorkerPc,
         NEW a \in {ctx[t], NULL}, NEW b \in {ctx2[t], NULL}, NEW c \in {inner[t], NULL},
         Goes(t, l, a, b, c), Shape(t)', KeepsOn(t), OpMoves(t),
         UNCHANGED <<stage, octx, accepting, port, Pending, dwOutstandingAsync, op, lost>>,
         k \in Contexts => \A j \in Contexts : Held(t, j)' = Held(t, j) - (IF j = k THEN 1 ELSE 0),
         k \in {ctx[t], ctx2[t], inner[t]}
  PROVE  Inv'
<1>1. /\ a \in Contexts \cup {NULL} /\ b \in Contexts \cup {NULL} /\ c \in Contexts \cup {NULL}
      /\ k \in Contexts /\ RefCount' = [RefCount EXCEPT ![k] = @ - 1]
  BY ThreadFacts DEF UnlockSocketContext, Live, Incr, Inv, Types, ThreadTypes
<1>2. RefCount' \in [Contexts -> Int] /\ lost' \in [Contexts -> Nat]
  BY <1>1 DEF Inv, Types, ThreadTypes
<1>3. /\ Alone(t) /\ ThreadTypes'
      /\ pc'[t] = l /\ ctx'[t] = a /\ ctx2'[t] = b /\ inner'[t] = c
  BY <1>1, <1>2, GoesTo
<1>4. Follows(t)
  BY <1>3, ThreadFacts DEF Follows, Made
<1> QED
  BY <1>1, <1>3, <1>4, InvUnlock

LEMMA InvEnd ==
  ASSUME Inv, NEW t \in Threads, End(t)
  PROVE  Inv'
<1> DEFINE l == IF ctx2[t] = NULL THEN "idle" ELSE "end2"
<1>1. /\ pc[t] = "end" /\ UnlockSocketContext(ctx[t])
      /\ UNCHANGED <<stage, octx, accepting, port, Pending, dwOutstandingAsync, op, lost>>
      /\ Goes(t, l, NULL, ctx2[t], inner[t])
  BY DEF End, At, Goto, Holds, Goes, opVars, history, Inv, Types, ThreadTypes
<1>2. /\ ctx[t] # NULL /\ inner[t] = NULL /\ t \in Apps /\ ~(t \in Workers) /\ NULL \notin Contexts
      /\ ctx2[t] \in Contexts \cup {NULL}
  BY <1>1, ThreadFacts DEF Shape, Early, WorkerPc, UnlockSocketContext, Live, AcceptPc
<1>3. l \in AppPc \cup WorkerPc
  BY DEF AppPc
<1>4. pc'[t] = l /\ ctx'[t] = NULL /\ ctx2'[t] = ctx2[t] /\ inner'[t] = inner[t]
  BY <1>1, <1>2, <1>3, GoesTo
<1>5. Shape(t)'
  BY <1>2, <1>4 DEF Shape, AppPc
<1>6. \A j \in Contexts : Held(t, j)' = Held(t, j) - (IF j = ctx[t] THEN 1 ELSE 0)
  BY <1>1, <1>2, <1>4 DEF Held, Held1, Held2, Held3, At
<1>7. OpMoves(t) /\ KeepsOn(t)
  BY <1>1, <1>4 DEF OpMoves, Early, AcceptPc, AcceptsSo, KeepsOn, Unlocked
<1> QED
  BY <1>1, <1>3, <1>5, <1>6, <1>7, InvGives

LEMMA InvEnd2 ==
  ASSUME Inv, NEW t \in Threads, End2(t)
  PROVE  Inv'
<1>1. /\ pc[t] = "end2" /\ UnlockSocketContext(ctx2[t])
      /\ UNCHANGED <<stage, octx, accepting, port, Pending, dwOutstandingAsync, op, lost>>
      /\ Goes(t, "idle", ctx[t], NULL, inner[t])
  BY DEF End2, At, Goto, Goes, opVars, history, Inv, Types, ThreadTypes
<1>2. /\ ctx2[t] # NULL /\ inner[t] = NULL /\ t \in Apps /\ ~(t \in Workers) /\ NULL \notin Contexts
      /\ ctx[t] = NULL
  BY <1>1, ThreadFacts DEF Shape, Early, WorkerPc, UnlockSocketContext, Live, AcceptPc
<1>3. "idle" \in AppPc \cup WorkerPc
  BY DEF AppPc
<1>4. pc'[t] = "idle" /\ ctx'[t] = ctx[t] /\ ctx2'[t] = NULL /\ inner'[t] = inner[t]
  BY <1>1, <1>2, <1>3, GoesTo
<1>5. Shape(t)'
  BY <1>2, <1>4 DEF Shape, AppPc
<1>6. \A j \in Contexts : Held(t, j)' = Held(t, j) - (IF j = ctx2[t] THEN 1 ELSE 0)
  BY <1>1, <1>2, <1>4 DEF Held, Held1, Held2, Held3, At
<1>7. OpMoves(t) /\ KeepsOn(t)
  BY <1>1, <1>4 DEF OpMoves, Early, AcceptPc, AcceptsSo, KeepsOn, Unlocked
<1> QED
  BY <1>1, <1>3, <1>5, <1>6, <1>7, InvGives

LEMMA InvSelectUnlocks ==
  ASSUME Inv, NEW t \in Threads, SelectUnlocks(t)
  PROVE  Inv'
<1>1. /\ pc[t] = "select" /\ UnlockSocketContext(ctx[t])
      /\ UNCHANGED <<stage, octx, accepting, port, Pending, dwOutstandingAsync, op, lost>>
      /\ Goes(t, "selects", ctx[t], ctx2[t], inner[t])
  BY DEF SelectUnlocks, Rest, At, Goto, Goes, opVars, history, Inv, Types, ThreadTypes
<1>2. /\ ctx[t] # NULL /\ inner[t] = NULL /\ t \in Apps /\ ~(t \in Workers) /\ NULL \notin Contexts
      /\ ctx[t] \in Contexts /\ ctx2[t] = NULL
  BY <1>1, ThreadFacts DEF Shape, Early, WorkerPc, UnlockSocketContext, Live, AcceptPc
<1>3. "selects" \in AppPc \cup WorkerPc
  BY DEF AppPc
<1>4. pc'[t] = "selects" /\ ctx'[t] = ctx[t] /\ ctx2'[t] = ctx2[t] /\ inner'[t] = inner[t]
  BY <1>1, <1>2, <1>3, GoesTo
<1>5. Shape(t)'
  BY <1>2, <1>4 DEF Shape, AppPc
<1>6. \A j \in Contexts : Held(t, j)' = Held(t, j) - (IF j = ctx[t] THEN 1 ELSE 0)
  BY <1>1, <1>2, <1>4 DEF Held, Held1, Held2, Held3, At
<1>7. OpMoves(t) /\ KeepsOn(t)
  BY <1>1, <1>4 DEF OpMoves, Early, AcceptPc, AcceptsSo, KeepsOn, Unlocked
<1> QED
  BY <1>1, <1>3, <1>5, <1>6, <1>7, InvGives

LEMMA InvUpdateUnlocks ==
  ASSUME Inv, NEW t \in Threads, UpdateUnlocks(t)
  PROVE  Inv'
<1>1. /\ pc[t] = "updates" /\ UnlockSocketContext(ctx2[t])
      /\ UNCHANGED <<stage, octx, accepting, port, Pending, dwOutstandingAsync, op, lost>>
      /\ Goes(t, "update2", ctx[t], ctx2[t], inner[t])
  BY DEF UpdateUnlocks, Rest, At, Goto, Goes, opVars, history, Inv, Types, ThreadTypes
<1>2. /\ ctx2[t] # NULL /\ inner[t] = NULL /\ t \in Apps /\ ~(t \in Workers) /\ NULL \notin Contexts
      /\ ctx2[t] \in Contexts /\ ctx[t] \in Contexts \cup {NULL}
  BY <1>1, ThreadFacts DEF Shape, Early, WorkerPc, UnlockSocketContext, Live, AcceptPc
<1>3. "update2" \in AppPc \cup WorkerPc
  BY DEF AppPc
<1>4. pc'[t] = "update2" /\ ctx'[t] = ctx[t] /\ ctx2'[t] = ctx2[t] /\ inner'[t] = inner[t]
  BY <1>1, <1>2, <1>3, GoesTo
<1>5. Shape(t)'
  BY <1>2, <1>4 DEF Shape, AppPc
<1>6. \A j \in Contexts : Held(t, j)' = Held(t, j) - (IF j = ctx2[t] THEN 1 ELSE 0)
  BY <1>1, <1>2, <1>4 DEF Held, Held1, Held2, Held3, At
<1>7. OpMoves(t) /\ KeepsOn(t)
  BY <1>1, <1>4 DEF OpMoves, Early, AcceptPc, AcceptsSo, KeepsOn, Unlocked
<1> QED
  BY <1>1, <1>3, <1>5, <1>6, <1>7, InvGives

LEMMA InvCompletionUnlocks ==
  ASSUME Inv, NEW t \in Threads, CompletionUnlocks(t)
  PROVE  Inv'
<1>1. /\ pc[t] = "copied" /\ UnlockSocketContext(ctx2[t])
      /\ UNCHANGED <<stage, octx, accepting, port, Pending, dwOutstandingAsync, op, lost>>
      /\ Goes(t, "tell", ctx[t], NULL, inner[t])
  BY DEF CompletionUnlocks, Worker, At, Goto, Goes, history, Inv, Types, ThreadTypes
<1>2. /\ ctx2[t] # NULL /\ inner[t] = NULL /\ NULL \notin Contexts
      /\ ctx[t] \in Contexts \cup {NULL} /\ (t \in Workers => ctx[t] = NULL)
  BY <1>1, ThreadFacts DEF Shape, Early, AppPc, UnlockSocketContext, Live, AcceptPc
<1>3. "tell" \in AppPc \cup WorkerPc
  BY DEF WorkerPc
<1>4. pc'[t] = "tell" /\ ctx'[t] = ctx[t] /\ ctx2'[t] = NULL /\ inner'[t] = inner[t]
  BY <1>1, <1>2, <1>3, GoesTo
<1>5. Shape(t)'
  BY <1>2, <1>4 DEF Shape, AppPc, WorkerPc, Early, AcceptPc
<1>6. \A j \in Contexts : Held(t, j)' = Held(t, j) - (IF j = ctx2[t] THEN 1 ELSE 0)
  BY <1>1, <1>2, <1>4 DEF Held, Held1, Held2, Held3, At
<1>7. OpMoves(t) /\ KeepsOn(t)
  BY <1>1, <1>4 DEF OpMoves, Early, KeepsOn, Unlocked, AcceptPc, AcceptsSo
<1> QED
  BY <1>1, <1>3, <1>5, <1>6, <1>7, InvGives

\* The second SOCK_INFO of AcceptEx, inside the lock of the first.
LEMMA InvAcceptUnlocks ==
  ASSUME Inv, NEW t \in Threads, AcceptUnlocks(t)
  PROVE  Inv'
<1>1. /\ pc[t] = "accepted" /\ UnlockSocketContext(inner[t])
      /\ UNCHANGED <<stage, octx, accepting, port, Pending, dwOutstandingAsync, op, lost>>
      /\ Goes(t, "release", ctx[t], ctx2[t], NULL)
  BY DEF AcceptUnlocks, Worker, At, Goto, Goes, history, Inv, Types, ThreadTypes
<1>2. /\ inner[t] # NULL /\ NULL \notin Contexts /\ t \in Workers /\ ~(t \in Apps)
      /\ ctx[t] = NULL /\ ctx2[t] \in Contexts \cup {NULL}
  BY <1>1, ThreadFacts DEF Shape, Early, AppPc, UnlockSocketContext, Live, AcceptPc
<1>3. "release" \in AppPc \cup WorkerPc
  BY DEF WorkerPc, AcceptPc
<1>4. pc'[t] = "release" /\ ctx'[t] = ctx[t] /\ ctx2'[t] = ctx2[t] /\ inner'[t] = NULL
  BY <1>1, <1>2, <1>3, GoesTo
<1>5. Shape(t)'
  BY <1>2, <1>4 DEF Shape, WorkerPc, Early, AcceptPc
<1>6. \A j \in Contexts : Held(t, j)' = Held(t, j) - (IF j = inner[t] THEN 1 ELSE 0)
  BY <1>1, <1>2, <1>4 DEF Held, Held1, Held2, Held3, At
<1>7. OpMoves(t) /\ KeepsOn(t)
  BY <1>1, <1>4 DEF OpMoves, Early, KeepsOn, Keeper, AcceptPc, AcceptsSo
<1> QED
  BY <1>1, <1>3, <1>5, <1>6, <1>7, InvGives

LEMMA InvCleanupUnlocks ==
  ASSUME Inv, NEW t \in Threads, CleanupUnlocks(t)
  PROVE  Inv'
<1>1. /\ pc[t] = "unlock" /\ UnlockSocketContext(inner[t])
      /\ UNCHANGED <<stage, octx, accepting, port, Pending, dwOutstandingAsync, op, lost>>
      /\ Goes(t, "put", ctx[t], ctx2[t], NULL)
  BY DEF CleanupUnlocks, Worker, At, Goto, Holds, Goes, history, Inv, Types, ThreadTypes
<1>2. /\ inner[t] # NULL /\ NULL \notin Contexts
      /\ ctx[t] \in Contexts \cup {NULL} /\ ctx2[t] \in Contexts \cup {NULL}
      /\ t \in Workers => ctx[t] = NULL /\ ctx2[t] = NULL
  BY <1>1, ThreadFacts DEF Shape, UnlockSocketContext, Live, AcceptPc
<1>3. "put" \in AppPc \cup WorkerPc
  BY DEF WorkerPc, AcceptPc
<1>4. pc'[t] = "put" /\ ctx'[t] = ctx[t] /\ ctx2'[t] = ctx2[t] /\ inner'[t] = NULL
  BY <1>1, <1>2, <1>3, GoesTo
<1>5. Shape(t)'
  BY <1>2, <1>4 DEF Shape, AppPc, WorkerPc, AcceptPc
<1>6. \A j \in Contexts : Held(t, j)' = Held(t, j) - (IF j = inner[t] THEN 1 ELSE 0)
  BY <1>1, <1>2, <1>4 DEF Held, Held1, Held2, Held3, At
<1>7. OpMoves(t) /\ KeepsOn(t)
  BY <1>1, <1>4 DEF OpMoves, KeepsOn, Unlocked, AcceptPc
<1> QED
  BY <1>1, <1>3, <1>5, <1>6, <1>7, InvGives

\* t goes on without a call of UnlockSocketContext.
LEMMA InvGoes ==
  ASSUME Inv, NEW t \in Threads, NEW l \in AppPc \cup WorkerPc, NEW a \in Contexts \cup {NULL},
         NEW b \in Contexts \cup {NULL}, NEW c \in Contexts \cup {NULL}, Goes(t, l, a, b, c),
         Made(a), Made(b), Made(c), Shape(t)', KeepsOn(t), OpMoves(t),
         UNCHANGED ctxVars, UNCHANGED <<stage, octx, accepting, port, Pending, dwOutstandingAsync, op>>,
         RefCount' \in [Contexts -> Int], lost' \in [Contexts -> Nat],
         \A k \in Contexts :
           RefCount'[k] - Held(t, k)' - lost'[k] = RefCount[k] - Held(t, k) - lost[k]
  PROVE  Inv'
<1>1. /\ Alone(t) /\ ThreadTypes'
      /\ pc'[t] = l /\ ctx'[t] = a /\ ctx2'[t] = b /\ inner'[t] = c
  BY GoesTo
<1>2. Follows(t)
  BY <1>1 DEF Follows
<1> QED
  BY <1>1, <1>2, InvPlain

\* ... and with what it has.
LEMMA InvMoves ==
  ASSUME Inv, NEW t \in Threads, NEW l \in AppPc \cup WorkerPc,
         Goes(t, l, ctx[t], ctx2[t], inner[t]),
         Shape(t)', KeepsOn(t), OpMoves(t),
         UNCHANGED ctxVars, UNCHANGED <<stage, octx, accepting, port, Pending, dwOutstandingAsync, op>>,
         UNCHANGED <<RefCount, lost>>,
         pc[t] \notin {"selects", "update2"} /\ l \notin {"selects", "update2"}
  PROVE  Inv'
<1>1. /\ ctx[t] \in Contexts \cup {NULL} /\ ctx2[t] \in Contexts \cup {NULL}
      /\ inner[t] \in Contexts \cup {NULL} /\ Made(ctx[t]) /\ Made(ctx2[t]) /\ Made(inner[t])
  BY ThreadFacts
<1>2. RefCount' \in [Contexts -> Int] /\ lost' \in [Contexts -> Nat]
  BY DEF Inv, Types, ThreadTypes
<1>3. pc'[t] = l /\ ctx'[t] = ctx[t] /\ ctx2'[t] = ctx2[t] /\ inner'[t] = inner[t]
  BY <1>1, GoesTo
<1>4. \A k \in Contexts : Held(t, k)' = Held(t, k)
  BY <1>3 DEF Held, Held1, Held2, Held3, At
<1> QED
  BY <1>1, <1>2, <1>4, InvGoes

\* The handle a structure's SOCK_INFO has.
LEMMA CallerFacts ==
  ASSUME Inv, NEW n \in Ops, stage[n] # "none"
  PROVE  /\ CallerSocket(n) \in Handles /\ octx[n] \in Contexts
         /\ handle[CallerSocket(n)] = NULL => ~Live(octx[n])
<1>1. octx[n] \in Contexts /\ octx[n] # NULL
  BY DEF Inv, OpsInv, FreedOps, Types, OpTypes
<1>2. LayeredSocket[octx[n]] # NULL /\ LayeredSocket[octx[n]] \in Handles
  BY <1>1 DEF Inv, ContextsInv, Pointers, Made, Types, ContextTypes
<1> QED
  BY <1>1, <1>2 DEF CallerSocket, Inv, ContextsInv, HandlesOK, Live

LEMMA InvCompletionFinds ==
  ASSUME Inv, NEW t \in Threads, CompletionFinds(t)
  PROVE  Inv'
<1> DEFINE h == CallerSocket(op[t])
           k == handle[h]
<1>1. /\ pc[t] = "complete" /\ stage[op[t]] = "worker"
      /\ UNCHANGED <<ctx, inner, lost, ctxVars, stage, octx, accepting, port, Pending, dwOutstandingAsync, op>>
      /\ \/ /\ k # NULL /\ RefCount' = [RefCount EXCEPT ![k] = @ + 1]
            /\ pc' = [pc EXCEPT ![t] = "copy"] /\ ctx2' = [ctx2 EXCEPT ![t] = k]
         \/ /\ k = NULL /\ pc' = [pc EXCEPT ![t] = "put"] /\ UNCHANGED <<RefCount, ctx2>>
  BY DEF CompletionFinds, At, FindAndLockSocketContext, NotFound, Goto, Incr, Worker, history, Live
<1>2. /\ ctx[t] \in Contexts \cup {NULL} /\ ctx2[t] = NULL
      /\ inner[t] = NULL /\ NULL \notin Contexts
      /\ op[t] \in Ops /\ op[t] # NULL /\ Made(ctx[t]) /\ Made(inner[t]) /\ Made(NULL)
      /\ Shape(t) /\ ~(t \in Apps /\ t \in Workers)
  BY <1>1, ThreadFacts DEF Shape, Owned, Early, AppPc, Made, AcceptPc
<1>3. h \in Handles /\ (k = NULL => ~Live(octx[op[t]]))
  BY <1>1, <1>2, CallerFacts
<1>4. ThreadTypes
  BY DEF Inv, Types
<1>5. k # NULL => k \in Contexts /\ Made(k)
  BY <1>3, Found
<1> HIDE DEF k, h
<1>6. CASE /\ k # NULL /\ RefCount' = [RefCount EXCEPT ![k] = @ + 1]
           /\ pc' = [pc EXCEPT ![t] = "copy"] /\ ctx2' = [ctx2 EXCEPT ![t] = k]
  <2>1. Goes(t, "copy", ctx[t], k, inner[t])
    BY <1>1, <1>4, <1>6 DEF Goes, ThreadTypes
  <2>2. "copy" \in AppPc \cup WorkerPc
    BY DEF WorkerPc
  <2>3. pc'[t] = "copy" /\ ctx'[t] = ctx[t] /\ ctx2'[t] = k /\ inner'[t] = inner[t]
    BY <1>2, <1>5, <1>6, <2>1, <2>2, GoesTo
  <2>4. Shape(t)'
    BY <1>1, <1>2, <2>3 DEF Shape, WorkerPc, AppPc, Early, AcceptPc
  <2>5. OpMoves(t) /\ KeepsOn(t)
    BY <1>1, <2>3 DEF OpMoves, Early, KeepsOn, Unlocked, AcceptPc, AcceptsSo
  <2>6. RefCount' \in [Contexts -> Int] /\ lost' \in [Contexts -> Nat]
    BY <1>1, <1>4, <1>5, <1>6 DEF ThreadTypes
  <2>7. ASSUME NEW j \in Contexts
        PROVE  RefCount'[j] - Held(t, j)' - lost'[j] = RefCount[j] - Held(t, j) - lost[j]
    <3>1. Held(t, j)' = Held(t, j) + (IF j = k THEN 1 ELSE 0) /\ Held(t, j) \in Nat
      BY <1>1, <1>2, <2>3 DEF Held, Held1, Held2, Held3, At
    <3>2. RefCount'[j] = RefCount[j] + (IF j = k THEN 1 ELSE 0) /\ lost'[j] = lost[j]
      BY <1>1, <1>4, <1>6 DEF ThreadTypes
    <3>3. RefCount[j] \in Int /\ lost[j] \in Nat
      BY ThreadFacts
    <3> QED
      BY <3>1, <3>2, <3>3
  <2> QED
    BY <1>1, <1>2, <1>5, <1>6, <2>1, <2>2, <2>4, <2>5, <2>6, <2>7, InvGoes
<1>7. CASE k = NULL /\ pc' = [pc EXCEPT ![t] = "put"] /\ UNCHANGED <<RefCount, ctx2>>
  <2>1. Goes(t, "put", ctx[t], ctx2[t], inner[t])
    BY <1>1, <1>4, <1>7 DEF Goes, ThreadTypes
  <2>2. "put" \in AppPc \cup WorkerPc
    BY DEF WorkerPc
  <2>3. pc'[t] = "put" /\ ctx'[t] = ctx[t] /\ ctx2'[t] = ctx2[t] /\ inner'[t] = inner[t]
    BY <1>2, <2>1, <2>2, GoesTo
  <2>4. Shape(t)'
    BY <1>1, <1>2, <2>3 DEF Shape, WorkerPc, AppPc, Early, AcceptPc
  <2>5. OpMoves(t) /\ KeepsOn(t)
    BY <1>1, <1>2, <1>3, <1>7, <2>3 DEF OpMoves, KeepsOn, Unlocked, AcceptPc
  <2> QED
    BY <1>1, <1>7, <2>1, <2>2, <2>4, <2>5, InvMoves
<1> QED
  BY <1>1, <1>6, <1>7

\* AcceptEx's second SOCK_INFO is found by its handle.
LEMMA InvAcceptFinds ==
  ASSUME Inv, NEW t \in Threads, AcceptFinds(t)
  PROVE  Inv'
<1> DEFINE h == AcceptSocket(t)
           k == handle[h]
<1>1. /\ pc[t] = "accepting"
      /\ UNCHANGED <<ctx, ctx2, lost, ctxVars, stage, octx, accepting, port, Pending, dwOutstandingAsync, op>>
      /\ k # NULL /\ RefCount' = [RefCount EXCEPT ![k] = @ + 1]
      /\ pc' = [pc EXCEPT ![t] = "accepted"] /\ inner' = [inner EXCEPT ![t] = k]
  BY DEF AcceptFinds, At, FindAndLockSocketContext, Goto, Incr, Worker, history, Live
<1>2. /\ ctx[t] = NULL /\ ctx2[t] \in Contexts \cup {NULL}
      /\ inner[t] = NULL /\ NULL \notin Contexts
      /\ op[t] \in Ops /\ op[t] # NULL /\ Made(ctx[t]) /\ Made(ctx2[t]) /\ Made(NULL)
      /\ accepting[op[t]] # NULL /\ Shape(t) /\ t \in Workers /\ ~(t \in Apps)
  BY <1>1, ThreadFacts DEF Shape, Owned, Early, AppPc, Made, AcceptPc
<1>3. h \in Handles
  BY <1>2 DEF AcceptSocket, Inv, Types, OpTypes, ContextTypes, ContextsInv, Pointers, Made
<1>4. ThreadTypes
  BY DEF Inv, Types
<1>5. k \in Contexts /\ Made(k)
  BY <1>1, <1>3, Found
<1> HIDE DEF k, h
<1>6. Goes(t, "accepted", ctx[t], ctx2[t], k)
  BY <1>1, <1>4 DEF Goes, ThreadTypes
<1>7. "accepted" \in AppPc \cup WorkerPc
  BY DEF WorkerPc, AcceptPc
<1>8. pc'[t] = "accepted" /\ ctx'[t] = ctx[t] /\ ctx2'[t] = ctx2[t] /\ inner'[t] = k
  BY <1>2, <1>5, <1>6, <1>7, GoesTo
<1>9. Shape(t)'
  BY <1>2, <1>8 DEF Shape, WorkerPc, Early, AcceptPc
<1>10. OpMoves(t) /\ KeepsOn(t)
  BY <1>1, <1>8 DEF OpMoves, Early, KeepsOn, Keeper, AcceptPc, AcceptsSo
<1>11. RefCount' \in [Contexts -> Int] /\ lost' \in [Contexts -> Nat]
  BY <1>1, <1>4, <1>5 DEF ThreadTypes
<1>12. ASSUME NEW j \in Contexts
      PROVE  RefCount'[j] - Held(t, j)' - lost'[j] = RefCount[j] - Held(t, j) - lost[j]
  <2>1. Held(t, j)' = Held(t, j) + (IF j = k THEN 1 ELSE 0) /\ Held(t, j) \in Nat
    BY <1>1, <1>2, <1>8 DEF Held, Held1, Held2, Held3, At
  <2>2. RefCount'[j] = RefCount[j] + (IF j = k THEN 1 ELSE 0) /\ lost'[j] = lost[j]
    BY <1>1, <1>4 DEF ThreadTypes
  <2>3. RefCount[j] \in Int /\ lost[j] \in Nat
    BY ThreadFacts
  <2> QED
    BY <2>1, <2>2, <2>3
<1> QED
  BY <1>1, <1>2, <1>5, <1>6, <1>7, <1>9, <1>10, <1>11, <1>12, InvGoes

LEMMA InvCleanupFinds ==
  ASSUME Inv, NEW t \in Threads, CleanupFinds(t)
  PROVE  Inv'
<1> DEFINE h == CallerSocket(op[t])
           k == handle[h]
<1>1. /\ pc[t] = "check"
      /\ UNCHANGED <<ctx, ctx2, lost, ctxVars, stage, octx, accepting, port, Pending, dwOutstandingAsync, op>>
      /\ \/ /\ k # NULL /\ RefCount' = [RefCount EXCEPT ![k] = @ + 1]
            /\ pc' = [pc EXCEPT ![t] = "count"] /\ inner' = [inner EXCEPT ![t] = k]
         \/ /\ k = NULL /\ pc' = [pc EXCEPT ![t] = "put"] /\ UNCHANGED <<RefCount, inner>>
  BY DEF CleanupFinds, At, FindAndLockSocketContext, NotFound, Holds, Goto, Live, Incr, Worker, history
<1>2. /\ ctx[t] \in Contexts \cup {NULL} /\ ctx2[t] \in Contexts \cup {NULL}
      /\ t \in Workers => ctx[t] = NULL /\ ctx2[t] = NULL
      /\ inner[t] = NULL /\ NULL \notin Contexts
      /\ op[t] \in Ops /\ op[t] # NULL /\ stage[op[t]] # "none"
      /\ Made(ctx[t]) /\ Made(ctx2[t]) /\ Made(NULL)
  BY <1>1, ThreadFacts DEF Shape, Owned, Early, Made, AcceptPc
<1>3. h \in Handles /\ (k = NULL => ~Live(octx[op[t]]))
  BY <1>2, CallerFacts
<1>4. ThreadTypes
  BY DEF Inv, Types
<1>5. k # NULL => k \in Contexts /\ Made(k)
  BY <1>3, Found
<1> HIDE DEF k, h
<1>6. CASE /\ k # NULL /\ RefCount' = [RefCount EXCEPT ![k] = @ + 1]
           /\ pc' = [pc EXCEPT ![t] = "count"] /\ inner' = [inner EXCEPT ![t] = k]
  <2>1. Goes(t, "count", ctx[t], ctx2[t], k)
    BY <1>1, <1>4, <1>6 DEF Goes, ThreadTypes
  <2>2. "count" \in AppPc \cup WorkerPc
    BY DEF WorkerPc, AcceptPc
  <2>3. pc'[t] = "count" /\ ctx'[t] = ctx[t] /\ ctx2'[t] = ctx2[t] /\ inner'[t] = k
    BY <1>2, <1>5, <1>6, <2>1, <2>2, GoesTo
  <2>4. Shape(t)'
    BY <1>2, <2>3 DEF Shape, WorkerPc, AppPc, Early, AcceptPc
  <2>5. OpMoves(t) /\ KeepsOn(t)
    BY <1>1, <2>3 DEF OpMoves, Early, AcceptPc, AcceptsSo, KeepsOn, Unlocked
  <2>6. RefCount' \in [Contexts -> Int] /\ lost' \in [Contexts -> Nat]
    BY <1>1, <1>4, <1>5, <1>6 DEF ThreadTypes
  <2>7. ASSUME NEW j \in Contexts
        PROVE  RefCount'[j] - Held(t, j)' - lost'[j] = RefCount[j] - Held(t, j) - lost[j]
    <3>1. Held(t, j)' = Held(t, j) + (IF j = k THEN 1 ELSE 0) /\ Held(t, j) \in Nat
      BY <1>1, <1>2, <2>3 DEF Held, Held1, Held2, Held3, At
    <3>2. RefCount'[j] = RefCount[j] + (IF j = k THEN 1 ELSE 0) /\ lost'[j] = lost[j]
      BY <1>1, <1>4, <1>6 DEF ThreadTypes
    <3>3. RefCount[j] \in Int /\ lost[j] \in Nat
      BY ThreadFacts
    <3> QED
      BY <3>1, <3>2, <3>3
  <2> QED
    BY <1>1, <1>2, <1>5, <1>6, <2>1, <2>2, <2>4, <2>5, <2>6, <2>7, InvGoes
<1>7. CASE k = NULL /\ pc' = [pc EXCEPT ![t] = "put"] /\ UNCHANGED <<RefCount, inner>>
  <2>1. Goes(t, "put", ctx[t], ctx2[t], inner[t])
    BY <1>1, <1>4, <1>7 DEF Goes, ThreadTypes
  <2>2. "put" \in AppPc \cup WorkerPc
    BY DEF WorkerPc, AcceptPc
  <2>3. pc'[t] = "put" /\ ctx'[t] = ctx[t] /\ ctx2'[t] = ctx2[t] /\ inner'[t] = inner[t]
    BY <1>2, <2>1, <2>2, GoesTo
  <2>4. Shape(t)'
    BY <1>2, <2>3 DEF Shape, WorkerPc, AppPc, Early, AcceptPc
  <2>5. OpMoves(t) /\ KeepsOn(t)
    BY <1>1, <1>2, <1>3, <1>7, <2>3 DEF OpMoves, KeepsOn, Unlocked, AcceptPc
  <2> QED
    BY <1>1, <1>7, <2>1, <2>2, <2>4, <2>5, InvMoves
<1> QED
  BY <1>1, <1>6, <1>7

\* The steps of a thread that only goes on.
LEMMA InvGoOn ==
  ASSUME Inv, NEW t \in Threads,
         AcceptExFails(t) \/ GetWorkerWindow(t) \/ SpinEnds(t) \/ Tells(t) \/ Wakes(t)
         \/ ExecuteFails(t)
  PROVE  Inv'
<1>1. ASSUME NEW l \in AppPc \cup WorkerPc, pc' = [pc EXCEPT ![t] = l],
             UNCHANGED <<ctx, ctx2, inner, RefCount, lost>>,
             UNCHANGED ctxVars, UNCHANGED <<stage, octx, accepting, port, Pending, dwOutstandingAsync, op>>,
             \/ pc[t] = "acceptex" /\ l = "end"
             \/ pc[t] = "window" /\ l \in {"spin", "end"}
             \/ pc[t] = "spin" /\ l = "end"
             \/ pc[t] = "tell" /\ l = "check"
             \/ t \in Workers /\ pc[t] = "wait" /\ l = "dequeue"
             \/ pc[t] = "execute" /\ l = "check"
      PROVE  Inv'
  <2>1. Goes(t, l, ctx[t], ctx2[t], inner[t])
    BY <1>1 DEF Goes, Inv, Types, ThreadTypes
  <2>2. /\ Shape(t) /\ ctx[t] \in Contexts \cup {NULL} /\ ctx2[t] \in Contexts \cup {NULL}
        /\ inner[t] \in Contexts \cup {NULL} /\ ~(t \in Apps /\ t \in Workers)
    BY ThreadFacts
  <2>3. pc'[t] = l /\ ctx'[t] = ctx[t] /\ ctx2'[t] = ctx2[t] /\ inner'[t] = inner[t]
    BY <1>1, <2>1, <2>2, GoesTo
  <2>4. Shape(t)'
    BY <1>1, <2>2, <2>3 DEF Shape, WorkerPc, AppPc, Early, AcceptPc
  <2>5. OpMoves(t) /\ KeepsOn(t)
    BY <1>1, <2>3 DEF OpMoves, Early, AcceptPc, AcceptsSo, KeepsOn, Unlocked
  <2> QED
    BY <1>1, <2>1, <2>4, <2>5, InvMoves
<1>2. {"end", "spin", "copied", "check", "dequeue"} \subseteq AppPc \cup WorkerPc
  BY DEF AppPc, WorkerPc, AcceptPc
<1>3. CASE AcceptExFails(t)
  BY <1>1, <1>2, <1>3 DEF AcceptExFails, At, Goto, Rest, Refs, opVars, history
<1>4. CASE GetWorkerWindow(t)
  BY <1>1, <1>2, <1>4 DEF GetWorkerWindow, At, Goto, Refs, opVars, history
<1>5. CASE SpinEnds(t)
  BY <1>1, <1>2, <1>5 DEF SpinEnds, At, Goto, Refs, opVars, history
<1>7. CASE Tells(t)
  BY <1>1, <1>2, <1>7 DEF Tells, At, Goto, Worker, Refs, history
<1>8. CASE Wakes(t)
  BY <1>1, <1>2, <1>8 DEF Wakes, At, Goto, Calls, Refs, history
<1>9. CASE ExecuteFails(t)
  BY <1>1, <1>2, <1>9 DEF ExecuteFails, Mine, AfterFailure, At, Goto, Calls, Refs, history
<1> QED
  BY <1>3, <1>4, <1>5, <1>7, <1>8, <1>9

\* SO_UPDATE_ACCEPT_CONTEXT loses its reference.
LEMMA InvUpdateFails ==
  ASSUME Inv, NEW t \in Threads, UpdateFails(t)
  PROVE  Inv'
<1>1. ThreadTypes
  BY DEF Inv, Types
<1>2. /\ pc[t] = "update" /\ Goes(t, "idle", NULL, ctx2[t], inner[t])
      /\ lost' = [lost EXCEPT ![ctx[t]] = @ + 1]
      /\ UNCHANGED <<RefCount, ctxVars, stage, octx, accepting, port, Pending, dwOutstandingAsync, op>>
  BY <1>1 DEF UpdateFails, Rest, At, Goto, Holds, Goes, Incr, opVars, ThreadTypes
<1>3. /\ ctx[t] \in Contexts \cup {NULL} /\ ctx2[t] = NULL /\ inner[t] = NULL
      /\ NULL \notin Contexts /\ t \in Apps /\ ~(t \in Workers) /\ Made(NULL)
  BY <1>2, ThreadFacts DEF Shape, WorkerPc, Early, Made, AcceptPc
<1>4. "idle" \in AppPc \cup WorkerPc
  BY DEF AppPc
<1>5. pc'[t] = "idle" /\ ctx'[t] = NULL /\ ctx2'[t] = ctx2[t] /\ inner'[t] = inner[t]
  BY <1>2, <1>3, <1>4, GoesTo
<1>6. Shape(t)'
  BY <1>3, <1>5 DEF Shape, AppPc
<1>7. OpMoves(t) /\ KeepsOn(t)
  BY <1>2, <1>5 DEF OpMoves, Early, AcceptPc, AcceptsSo, KeepsOn, Unlocked
<1>8. RefCount' \in [Contexts -> Int] /\ lost' \in [Contexts -> Nat]
  <2>1. lost \in [Contexts -> Nat] /\ RefCount \in [Contexts -> Int]
    BY <1>1 DEF ThreadTypes
  <2>2. CASE ctx[t] \in Contexts
    BY <1>2, <2>1, <2>2
  <2>3. CASE ctx[t] = NULL
    <3>1. lost' = lost
      BY <1>2, <1>3, <2>1, <2>3
    <3> QED
      BY <1>2, <2>1, <3>1
  <2> QED
    BY <1>3, <2>2, <2>3
<1>9. ASSUME NEW k \in Contexts
      PROVE  RefCount'[k] - Held(t, k)' - lost'[k] = RefCount[k] - Held(t, k) - lost[k]
  <2>1. Held(t, k) = (IF ctx[t] = k THEN 1 ELSE 0) /\ Held(t, k)' = 0
    BY <1>2, <1>3, <1>5 DEF Held, Held1, Held2, Held3, At
  <2>2. lost'[k] = lost[k] + (IF ctx[t] = k THEN 1 ELSE 0) /\ RefCount'[k] = RefCount[k]
    BY <1>1, <1>2 DEF ThreadTypes
  <2>3. RefCount[k] \in Int /\ lost[k] \in Nat
    BY ThreadFacts
  <2> QED
    BY <2>1, <2>2, <2>3
<1> QED
  BY <1>2, <1>3, <1>4, <1>6, <1>7, <1>8, <1>9, InvGoes

\* What WSPSelect and SO_UPDATE_ACCEPT_CONTEXT use after their unlock is
\* no reference.
LEMMA InvSelects ==
  ASSUME Inv, NEW t \in Threads, Selects(t)
  PROVE  Inv'
<1>1. ThreadTypes
  BY DEF Inv, Types
<1>2. /\ pc[t] = "selects" /\ Goes(t, "idle", NULL, ctx2[t], inner[t])
      /\ UNCHANGED <<lost, RefCount, ctxVars, stage, octx, accepting, port, Pending, dwOutstandingAsync, op>>
  BY <1>1 DEF Selects, Rest, At, Goto, Holds, Goes, opVars, history, ThreadTypes
<1>3. /\ ctx2[t] = NULL /\ inner[t] = NULL
      /\ NULL \notin Contexts /\ t \in Apps /\ ~(t \in Workers) /\ Made(NULL)
  BY <1>2, ThreadFacts DEF Shape, WorkerPc, Early, Made, AcceptPc
<1>4. "idle" \in AppPc \cup WorkerPc
  BY DEF AppPc
<1>5. pc'[t] = "idle" /\ ctx'[t] = NULL /\ ctx2'[t] = ctx2[t] /\ inner'[t] = inner[t]
  BY <1>2, <1>3, <1>4, GoesTo
<1>6. Shape(t)'
  BY <1>3, <1>5 DEF Shape, AppPc
<1>7. OpMoves(t) /\ KeepsOn(t)
  BY <1>2, <1>5 DEF OpMoves, Early, AcceptPc, AcceptsSo, KeepsOn, Unlocked
<1>8. RefCount' \in [Contexts -> Int] /\ lost' \in [Contexts -> Nat]
  BY <1>1, <1>2 DEF ThreadTypes
<1>9. \A k \in Contexts : Held(t, k) = 0 /\ Held(t, k)' = 0
  BY <1>2, <1>3, <1>5 DEF Held, Held1, Held2, Held3, At
<1> QED
  BY <1>2, <1>3, <1>4, <1>6, <1>7, <1>8, <1>9, InvGoes

LEMMA InvUpdates ==
  ASSUME Inv, NEW t \in Threads, Updates(t)
  PROVE  Inv'
<1>1. ThreadTypes
  BY DEF Inv, Types
<1>2. /\ pc[t] = "update2" /\ Goes(t, "end", ctx[t], NULL, inner[t])
      /\ UNCHANGED <<lost, RefCount, ctxVars, stage, octx, accepting, port, Pending, dwOutstandingAsync, op>>
  BY <1>1 DEF Updates, Rest, Refs, At, Goto, Holds, Goes, opVars, history, ThreadTypes
<1>3. /\ ctx[t] \in Contexts \cup {NULL} /\ inner[t] = NULL /\ Made(ctx[t])
      /\ NULL \notin Contexts /\ t \in Apps /\ ~(t \in Workers) /\ Made(NULL)
  BY <1>2, ThreadFacts DEF Shape, WorkerPc, Early, Made, AcceptPc
<1>4. "end" \in AppPc \cup WorkerPc
  BY DEF AppPc
<1>5. pc'[t] = "end" /\ ctx'[t] = ctx[t] /\ ctx2'[t] = NULL /\ inner'[t] = inner[t]
  BY <1>2, <1>3, <1>4, GoesTo
<1>6. Shape(t)'
  BY <1>3, <1>5 DEF Shape, AppPc
<1>7. OpMoves(t) /\ KeepsOn(t)
  BY <1>2, <1>5 DEF OpMoves, Early, AcceptPc, AcceptsSo, KeepsOn, Unlocked
<1>8. RefCount' \in [Contexts -> Int] /\ lost' \in [Contexts -> Nat]
  BY <1>1, <1>2 DEF ThreadTypes
<1>9. \A k \in Contexts : Held(t, k)' = Held(t, k)
  BY <1>2, <1>3, <1>5 DEF Held, Held1, Held2, Held3, At
<1> QED
  BY <1>2, <1>3, <1>4, <1>6, <1>7, <1>8, <1>9, InvGoes
-----------------------------------------------------------------------------
(* Steps of many threads, and of the window thread. *)

\* Waiting workers end or start again, and one thread of the application goes on.
LEMMA InvPcs ==
  ASSUME Inv, ThreadTypes', UNCHANGED <<ctx, ctx2, inner, RefCount, lost>>, UNCHANGED ctxVars,
         UNCHANGED <<stage, octx, accepting, port, Pending, dwOutstandingAsync, op>>,
         \A t \in Threads : \/ pc'[t] = pc[t]
                            \/ pc[t] \in {"wait", "exit"} /\ pc'[t] \in {"wait", "exit"}
                            \/ pc[t] \in {"idle", "stop"} /\ pc'[t] \in {"stop", "free"}
  PROVE  Inv'
<1>1. Types /\ ContextsInv /\ RefsInv /\ OpsInv
  BY DEF Inv
<1>2. Types'
  BY <1>1 DEF Types, ContextTypes, OpTypes, ctxVars
<1>3. ContextsInv'
  <2>1. /\ \A u \in Threads : Made(ctx'[u]) /\ Made(ctx2'[u]) /\ Made(inner'[u])
        /\ \A n \in Ops : Made(octx'[n]) /\ Made(accepting'[n])
        /\ \A u \in Threads : Keeper(u)' = Keeper(u)
    BY <1>1 DEF ContextsInv, Pointers, Keeper, AcceptPc
  <2> QED
    BY <1>1, <2>1, ContextsKept DEF ctxVars, Types
<1>4. RefsInv'
  <2>1. ASSUME NEW t \in Threads
        PROVE  Shape(t)'
    BY ThreadFacts DEF Shape, AppPc, WorkerPc, Early, AcceptPc
  <2>2. ASSUME NEW k \in Contexts
        PROVE  Holders(k)' = Holders(k)
    <3>1. \A t \in Threads : (pc'[t] = "selects" <=> pc[t] = "selects")
                             /\ (pc'[t] = "update2" <=> pc[t] = "update2")
      OBVIOUS
    <3> QED
      BY <3>1 DEF Holders, At
  <2> QED
    BY <1>1, <2>1, <2>2 DEF RefsInv, RefsExact, ctxVars
<1>5. OpsInv'
  <2>1. \A u \in Threads : pc'[u] = pc[u] \/ pc'[u] \notin Early \cup {"unlock", "put"}
    BY DEF Early, AcceptPc
  <2> QED
    BY <1>1, <2>1, OpsQuiet DEF Types, ContextsInv, ctxVars
<1> QED
  BY <1>2, <1>3, <1>4, <1>5 DEF Inv

LEMMA InvStartup ==
  ASSUME Inv, NEW t \in Threads, WSPStartup(t) \/ WSPCleanup(t) \/ StopOverlappedManager(t)
  PROVE  Inv'
<1>1. ThreadTypes
  BY DEF Inv, Types
<1>2. CASE WSPStartup(t)
  <2>1. /\ UNCHANGED <<ctx, ctx2, inner, RefCount, lost>> /\ UNCHANGED ctxVars
        /\ UNCHANGED <<stage, octx, accepting, port, Pending, dwOutstandingAsync, op>>
        /\ pc' = [u \in Threads |-> IF pc[u] = "exit" THEN "wait" ELSE pc[u]] \/ pc' = pc
    BY <1>2 DEF WSPStartup, Others, Refs, opVars, At
  <2>2. ThreadTypes'
    BY <1>1, <2>1 DEF ThreadTypes, WorkerPc, AcceptPc
  <2> QED
    BY <2>1, <2>2, InvPcs
<1>3. CASE WSPCleanup(t)
  <2>1. /\ UNCHANGED <<ctx, ctx2, inner, RefCount, lost>> /\ UNCHANGED ctxVars
        /\ UNCHANGED <<stage, octx, accepting, port, Pending, dwOutstandingAsync, op>>
        /\ pc[t] = "idle" /\ (pc' = [pc EXCEPT ![t] = "stop"] \/ pc' = pc)
    BY <1>3 DEF WSPCleanup, Others, Refs, opVars, At, Idle, Goto
  <2>2. ThreadTypes'
    BY <1>1, <2>1 DEF ThreadTypes, AppPc
  <2> QED
    BY <1>1, <2>1, <2>2, InvPcs DEF ThreadTypes
<1>4. CASE StopOverlappedManager(t)
  <2>1. /\ UNCHANGED <<ctx, ctx2, inner, RefCount, lost>> /\ UNCHANGED ctxVars
        /\ UNCHANGED <<stage, octx, accepting, port, Pending, dwOutstandingAsync, op>>
        /\ pc[t] = "stop"
        /\ pc' = [u \in Threads |-> IF u = t THEN "free" ELSE IF pc[u] = "wait" THEN "exit" ELSE pc[u]]
    BY <1>4 DEF StopOverlappedManager, Others, Refs, opVars, At
  <2>2. ThreadTypes'
    BY <1>1, <2>1 DEF ThreadTypes, AppPc, WorkerPc, AcceptPc
  <2> QED
    BY <2>1, <2>2, InvPcs
<1> QED
  BY <1>2, <1>3, <1>4

LEMMA InvIdles ==
  ASSUME Inv, \/ AsyncMsgHandler
              \/ \E t \in Threads : UseAfterFree(t) \/ \E h \in Handles : CallsFreed(t, h)
  PROVE  Inv'
<1>1. /\ UNCHANGED <<pc, ctx, ctx2, inner, RefCount, lost>> /\ UNCHANGED ctxVars
      /\ UNCHANGED <<stage, octx, accepting, port, Pending, dwOutstandingAsync, op>>
  BY DEF AsyncMsgHandler, UseAfterFree, CallsFreed, Refs, opVars, history
<1>2. ThreadTypes'
  BY <1>1 DEF Inv, Types, ThreadTypes
<1> QED
  BY <1>1, <1>2, InvPcs
-----------------------------------------------------------------------------
(* SOCK_INFOs are made, closed and freed. *)

\* What a new SOCK_INFO, or one without a handle, does to the others.
LEMMA ContextsCreate ==
  ASSUME Inv, NEW k \in Contexts,
         (\E h \in Handles : CreateSockInfo(k, h)) \/ CreateFails(k, "live") \/ CreateFails(k, "freed"),
         UNCHANGED <<ctx, ctx2, inner, octx, accepting>>,
         \A t \in Threads : Keeper(t)' = Keeper(t)
  PROVE  /\ ContextsInv' /\ ContextTypes'
         /\ mem[k] = "heap" /\ LayeredSocket[k] = NULL /\ mem'[k] \in {"live", "freed"}
         /\ \A j \in Contexts : j # k => mem'[j] = mem[j]
<1>1. ContextTypes /\ ContextsInv
  BY DEF Inv, Types
<1>2. mem[k] = "heap" /\ UNCHANGED <<provider, bClosing, SockCritSec>>
  BY DEF CreateSockInfo, CreateFails, NextContext
<1>3. /\ LayeredSocket[k] = NULL /\ bClosing[k] = 0 /\ SockCritSec[k] = NULL /\ provider[k] = "open"
      /\ NULL \notin Contexts /\ NULL \notin Handles
  BY <1>1, <1>2, ConstAssumption DEF ContextsInv, Fresh
<1>4. /\ mem' = [mem EXCEPT ![k] = mem'[k]] /\ mem'[k] \in {"live", "freed"}
  BY <1>1 DEF CreateSockInfo, CreateFails, ContextTypes
<1>5. ASSUME NEW j \in Contexts
      PROVE  Fresh(j)' /\ (j # k => Locked(j)') /\ (j # k => LayeredSocket'[j] = LayeredSocket[j])
  <2>1. Fresh(j) /\ Locked(j) /\ SockCritSec[j] \in Threads \cup {NULL}
    BY <1>1 DEF ContextsInv, ContextTypes
  <2>2. j # k => LayeredSocket'[j] = LayeredSocket[j] /\ mem'[j] = mem[j]
    BY <1>1, <1>4 DEF CreateSockInfo, CreateFails, ContextTypes
  <2>3. mem'[k] # "heap"
    BY <1>4
  <2>4. SocketList' = SocketList \cup {k}
    BY DEF CreateSockInfo, CreateFails
  <2>5. \A w \in Workers : Keeper(w)' = Keeper(w)
    BY DEF Threads
  <2> QED
    BY <1>2, <2>1, <2>2, <2>3, <2>4, <2>5 DEF Fresh, Locked
<1>6. Locked(k)' /\ \A t \in Threads : Inside(t)'
  <2>1. Locked(k)'
    BY <1>2, <1>3, ConstAssumption DEF Locked
  <2>2. ASSUME NEW t \in Threads
        PROVE  Inside(t)'
    <3>1. Inside(t) /\ Keeper(t)' = Keeper(t) /\ Keeper(t) \in Contexts \cup {NULL} /\ Made(Keeper(t))
      BY <1>1, KeeperType DEF ContextsInv, Pointers, Keeper, Made, Inv, Types
    <3>2. Live(Keeper(t))' => Keeper(t) # k /\ Live(Keeper(t))
      BY <1>3, <1>4, <3>1, <1>1 DEF Live, Made, ContextTypes
    <3> QED
      BY <1>2, <3>1, <3>2 DEF Inside
  <2> QED
    BY <2>1, <2>2
<1>7. Pointers'
  <2>1. \A j : Made(j) /\ j \in Contexts \cup {NULL} => Made(j)'
    BY <1>3, <1>5 DEF Made
  <2> QED
    BY <1>1, <2>1 DEF ContextsInv, Pointers, Inv, Types, ThreadTypes, OpTypes, Made
<1>8. CASE \E h \in Handles : CreateSockInfo(k, h)
  <2>1. PICK h \in Handles : CreateSockInfo(k, h)
    BY <1>8
  <2>2. /\ handle[h] = NULL /\ handle' = [handle EXCEPT ![h] = k] /\ mem'[k] = "live"
        /\ LayeredSocket' = [LayeredSocket EXCEPT ![k] = h]
    BY <1>1, <2>1 DEF CreateSockInfo, ContextTypes
  <2>3. HandlesOK'
    <3>1. ASSUME NEW g \in Handles, handle'[g] # NULL
          PROVE  mem'[handle'[g]] # "heap" /\ LayeredSocket'[handle'[g]] = g
      <4>1. CASE g = h
        BY <1>1, <2>2, <4>1 DEF ContextTypes
      <4>2. CASE g # h
        <5>1. handle'[g] = handle[g] /\ handle[g] \in Contexts
          BY <1>1, <2>2, <3>1, <4>2 DEF ContextTypes
        <5>2. mem[handle[g]] # "heap" /\ LayeredSocket[handle[g]] = g
          BY <1>1, <3>1, <5>1 DEF ContextsInv, HandlesOK
        <5> QED
          BY <1>2, <1>4, <1>5, <5>1, <5>2, <1>1 DEF ContextTypes
      <4> QED
        BY <4>1, <4>2
    <3>2. ASSUME NEW j \in Contexts, mem'[j] = "live", LayeredSocket'[j] # NULL
          PROVE  handle'[LayeredSocket'[j]] = j
      <4>1. CASE j = k
        BY <1>1, <2>2, <4>1 DEF ContextTypes
      <4>2. CASE j # k
        <5>1. LayeredSocket'[j] = LayeredSocket[j] /\ mem[j] = "live" /\ LayeredSocket[j] \in Handles
          BY <1>1, <1>4, <1>5, <3>2, <4>2 DEF ContextTypes
        <5>2. handle[LayeredSocket[j]] = j
          BY <1>1, <3>2, <5>1 DEF ContextsInv, HandlesOK
        <5> QED
          BY <1>1, <1>3, <2>2, <5>1, <5>2 DEF ContextTypes
      <4> QED
        BY <4>1, <4>2
    <3> QED
      BY <3>1, <3>2 DEF HandlesOK
  <2>4. ContextTypes'
    BY <1>1, <1>2, <1>4, <2>2 DEF ContextTypes
  <2> QED
    BY <1>1, <1>2, <1>3, <1>4, <1>5, <1>6, <1>7, <2>3, <2>4 DEF ContextsInv, ContextTypes
<1>9. CASE CreateFails(k, "live") \/ CreateFails(k, "freed")
  <2>1. UNCHANGED <<handle, LayeredSocket>>
    BY <1>9 DEF CreateFails
  <2>2. HandlesOK'
    <3>1. \A j \in Contexts : j # k => mem'[j] = mem[j]
      BY <1>1, <1>4 DEF ContextTypes
    <3>2. \A h \in Handles : handle[h] # NULL => handle[h] \in Contexts /\ handle[h] # k
      BY <1>1, <1>2 DEF ContextsInv, HandlesOK, ContextTypes
    <3> QED
      BY <1>1, <1>3, <2>1, <3>1, <3>2 DEF ContextsInv, HandlesOK
  <2>3. ContextTypes'
    BY <1>1, <1>2, <1>4, <2>1 DEF ContextTypes
  <2> QED
    BY <1>1, <1>2, <1>3, <1>4, <1>5, <1>6, <1>7, <2>2, <2>3 DEF ContextsInv, ContextTypes
<1> QED
  BY <1>8, <1>9

LEMMA InvCreates ==
  ASSUME Inv, NEW t \in Threads, NEW k \in Contexts,
         Creates(t, k) \/ WSPSocketFails(t, k) \/ \E h \in Handles : WSPSocket(t, k, h)
  PROVE  Inv'
<1>1. Types /\ ContextsInv /\ RefsInv /\ OpsInv
  BY DEF Inv
<1>2. /\ UNCHANGED <<ctx, ctx2, inner, RefCount, lost>>
      /\ UNCHANGED <<stage, octx, accepting, port, Pending, dwOutstandingAsync, op>>
  BY DEF Creates, WSPSocketFails, WSPSocket, Rest, Refs, opVars, history
<1>3. /\ pc' = pc \/ (pc[t] \in {"accept", "joinleaf"} /\ pc' = [pc EXCEPT ![t] = "end"])
      /\ \/ UNCHANGED ctxVars
         \/ (\E h \in Handles : CreateSockInfo(k, h)) \/ CreateFails(k, "live") \/ CreateFails(k, "freed")
  BY DEF Creates, WSPSocketFails, WSPSocket, At, Goto
<1>4. /\ Alone(t) /\ ThreadTypes' /\ (pc'[t] = pc[t] \/ (pc[t] \in {"accept", "joinleaf"} /\ pc'[t] = "end"))
  BY <1>1, <1>2, <1>3 DEF Alone, Types, ThreadTypes, AppPc
<1>5. Shape(t)'
  BY <1>2, <1>4, ThreadFacts DEF Shape, AppPc, WorkerPc, Early, AcceptPc
<1>6. \A j \in Contexts : Held(t, j)' = Held(t, j)
  BY <1>2, <1>4 DEF Held, Held1, Held2, Held3, At
<1>7. /\ ContextsInv' /\ ContextTypes'
      /\ \A j \in Contexts : \/ mem'[j] = mem[j]
                             \/ mem[j] = "heap" /\ LayeredSocket[j] = NULL /\ mem'[j] \in {"live", "freed"}
  <2>1. /\ \A u \in Threads : Made(ctx'[u]) /\ Made(ctx2'[u]) /\ Made(inner'[u])
        /\ \A n \in Ops : Made(octx'[n]) /\ Made(accepting'[n])
        /\ \A u \in Threads : Keeper(u)' = Keeper(u)
    BY <1>1, <1>2, <1>4 DEF ContextsInv, Pointers, Alone, Keeper, AcceptPc
  <2>2. CASE UNCHANGED ctxVars
    <3>1. UNCHANGED <<handle, SocketList, mem, provider, bClosing, SockCritSec, LayeredSocket>>
      BY <2>2 DEF ctxVars
    <3>2. ContextsInv'
      BY <1>1, <2>1, <3>1, ContextsKept DEF Types
    <3> QED
      BY <1>1, <3>1, <3>2 DEF Types, ContextTypes
  <2>3. CASE (\E h \in Handles : CreateSockInfo(k, h)) \/ CreateFails(k, "live") \/ CreateFails(k, "freed")
    BY <1>2, <2>1, <2>3, ContextsCreate
  <2> QED
    BY <1>3, <2>2, <2>3
<1>8. RefsInv'
  BY <1>1, <1>2, <1>4, <1>5, <1>6, <1>7, RefsAlone DEF Types
<1>9. OpsInv'
  <2>1. \A u \in Threads : pc'[u] = pc[u] \/ pc'[u] \notin Early \cup {"unlock", "put"}
    BY <1>4 DEF Early, Alone, AcceptPc
  <2> QED
    BY <1>1, <1>2, <1>7, <2>1, OpsQuiet DEF Types, ContextsInv
<1>10. OpTypes'
  BY <1>1, <1>2 DEF Types, OpTypes
<1> QED
  BY <1>4, <1>7, <1>8, <1>9, <1>10 DEF Inv, Types

\* t goes on and touches k.
LEMMA InvTouch ==
  ASSUME Inv, NEW t \in Threads, NEW k \in Contexts, Touches(t, k), ContextTypes',
         NEW l \in AppPc \cup WorkerPc, NEW a \in {ctx[t], NULL},
         Goes(t, l, a, ctx2[t], inner[t]), Shape(t)', OpMoves(t),
         UNCHANGED <<stage, octx, accepting, port, Pending, dwOutstandingAsync, op, RefCount>>,
         lost' \in [Contexts -> Nat],
         \A j \in Contexts : Held(t, j)' + lost'[j] = Held(t, j) + lost[j]
  PROVE  Inv'
<1>1. Types /\ ContextsInv /\ RefsInv /\ OpsInv /\ ContextTypes /\ ThreadTypes
  BY DEF Inv, Types
<1>2. /\ a \in Contexts \cup {NULL} /\ ctx2[t] \in Contexts \cup {NULL} /\ inner[t] \in Contexts \cup {NULL}
      /\ Made(a) /\ Made(ctx2[t]) /\ Made(inner[t])
  BY ThreadFacts DEF Made
<1>3. RefCount' \in [Contexts -> Int]
  BY <1>1 DEF ThreadTypes
<1>4. /\ Alone(t) /\ ThreadTypes'
      /\ ctx'[t] = a /\ ctx2'[t] = ctx2[t] /\ inner'[t] = inner[t]
  BY <1>2, <1>3, GoesTo
<1>5. ContextsInv'
  <2>1. /\ \A u \in Threads : Made(ctx'[u]) /\ Made(ctx2'[u]) /\ Made(inner'[u])
        /\ \A n \in Ops : Made(octx'[n]) /\ Made(accepting'[n])
        /\ \A u \in Threads : u # t => Keeper(u)' = Keeper(u)
    BY <1>1, <1>2, <1>4 DEF ContextsInv, Pointers, Alone, Keeper, Touches, Made
  <2> QED
    BY <1>1, <2>1, ContextsTouched
<1>6. RefsInv'
  <2>1. ASSUME NEW j \in Contexts
        PROVE  RefCount'[j] - Held(t, j)' - lost'[j] = RefCount[j] - Held(t, j) - lost[j]
    <3>1. RefCount[j] \in Int /\ lost[j] \in Nat /\ lost'[j] \in Nat
      BY ThreadFacts
    <3>2. Held(t, j) \in Nat /\ Held(t, j)' \in Nat
      BY DEF Held, Held1, Held2, Held3
    <3>3. Held(t, j)' + lost'[j] = Held(t, j) + lost[j] /\ RefCount'[j] = RefCount[j]
      OBVIOUS
    <3> QED
      BY <3>1, <3>2, <3>3
  <2> QED
    BY <1>1, <1>4, <2>1, RefsAlone DEF Touches
<1>7. OpsInv'
  <2>1. \A u \in Threads : pc'[u] = pc[u] \/ OpMoves(u)
    BY <1>4 DEF Alone
  <2> QED
    BY <1>1, <2>1, OpsQuiet DEF Types, ContextsInv, OpMoves, Touches
<1>8. OpTypes'
  BY <1>1 DEF Types, OpTypes
<1> QED
  BY <1>4, <1>5, <1>6, <1>7, <1>8 DEF Inv, Types

\* A busy SOCK_INFO is marked, and its lock kept.
LEMMA InvCloseBusy ==
  ASSUME Inv, NEW t \in Threads, CloseBusy(t)
  PROVE  Inv'
<1>0. PICK k \in Contexts : k = ctx[t]
  BY ThreadFacts DEF CloseBusy, AcquireSocketLock, Live
<1>1. ContextTypes /\ ThreadTypes
  BY DEF Inv, Types
<1>2. /\ pc[t] = "close" /\ Live(k) /\ SockCritSec[k] \in {NULL, t}
      /\ SockCritSec' = [SockCritSec EXCEPT ![k] = t] /\ bClosing' = [bClosing EXCEPT ![k] = 1]
      /\ provider' = provider \/ provider' = [provider EXCEPT ![k] = "closed"]
      /\ Goes(t, "end", k, ctx2[t], inner[t])
      /\ UNCHANGED <<RefCount, lost, handle, SocketList, mem, LayeredSocket>>
      /\ UNCHANGED <<stage, octx, accepting, port, Pending, dwOutstandingAsync, op>>
  BY <1>0, <1>1 DEF CloseBusy, Rest, Refs, At, Goto, Goes, AcquireSocketLock, MarkClosing, ProviderCloses,
         ProviderFails, Keeps, opVars, history, ThreadTypes
<1>3. /\ k \in Contexts /\ t # NULL /\ Shape(t) /\ ~(t \in Apps /\ t \in Workers)
      /\ ctx2[t] \in Contexts \cup {NULL} /\ inner[t] \in Contexts \cup {NULL}
      /\ "end" \in AppPc \cup WorkerPc
  BY <1>0, <1>2, ThreadFacts, ConstAssumption DEF Threads, Live, AppPc
<1>4. /\ pc'[t] = "end" /\ ctx'[t] = k /\ ctx2'[t] = ctx2[t] /\ inner'[t] = inner[t]
  <2>1. k \in Contexts \cup {NULL}
    OBVIOUS
  <2>2. Goes(t, "end", k, ctx2[t], inner[t])
    BY <1>2
  <2> QED
    BY <1>3, <2>1, <2>2, GoesTo
<1>5. t \in Apps /\ ~(t \in Workers) /\ Shape(t)'
  BY <1>0, <1>2, <1>3, <1>4, ThreadFacts DEF Shape, AppPc, WorkerPc, AcceptPc, Early
<1>6. \A j \in Contexts : Held(t, j)' + lost'[j] = Held(t, j) + lost[j]
  BY <1>0, <1>2, <1>4 DEF Held, Held1, Held2, Held3, At
<1>7. ContextTypes'
  BY <1>0, <1>1, <1>2, <1>3 DEF ContextTypes
<1>8. Touches(t, k)
  <2>1. Keeper(t) = NULL /\ Keeper(t)' = NULL
    BY <1>0, <1>2, <1>4 DEF Keeper, AcceptPc
  <2>2. SockCritSec'[k] = t /\ bClosing'[k] = 1
    BY <1>0, <1>1, <1>2, <1>3 DEF ContextTypes
  <2>3. Locked(k)' /\ Inside(t)'
    BY <1>0, <1>3, <1>5, <2>1, <2>2 DEF Locked, Inside, Live
  <2> QED
    BY <1>0, <1>1, <1>2, <2>1, <2>3 DEF Touches, ContextTypes
<1>9. OpMoves(t)
  BY <1>0, <1>4 DEF OpMoves, Early, AcceptPc
<1>10. k = ctx[t] /\ lost' \in [Contexts -> Nat]
  BY <1>0, <1>1, <1>2 DEF ThreadTypes
<1> QED
  BY <1>0, <1>2, <1>3, <1>5, <1>6, <1>7, <1>8, <1>9, <1>10, InvTouch

\* An idle one is closed, or stays as it is below.
LEMMA InvCloseIdle ==
  ASSUME Inv, NEW t \in Threads, CloseIdle(t)
  PROVE  Inv'
<1>0. PICK k \in Contexts : k = ctx[t]
  BY ThreadFacts DEF CloseIdle, AcquireSocketLock, Live
<1>1. ContextTypes /\ ThreadTypes
  BY DEF Inv, Types
<1>2. PICK l \in {"close2", "close3", "end"} :
      /\ pc[t] = "close" /\ Live(k) /\ SockCritSec[k] \in {NULL, t}
      /\ SockCritSec' = [SockCritSec EXCEPT ![k] = t]
      /\ \/ /\ provider' = [provider EXCEPT ![k] = "closed"] /\ SocketList' = SocketList \ {k}
            /\ l = IF SockCritSec[k] = t THEN "close3" ELSE "close2"
         \/ provider' = provider /\ SocketList' = SocketList /\ l = "end"
      /\ Goes(t, l, k, ctx2[t], inner[t])
      /\ UNCHANGED <<RefCount, lost, handle, mem, bClosing, LayeredSocket>>
      /\ UNCHANGED <<stage, octx, accepting, port, Pending, dwOutstandingAsync, op>>
  <2>1. PICK l \in {"close2", "close3", "end"} :
        /\ pc' = [pc EXCEPT ![t] = l]
        /\ \/ /\ provider' = [provider EXCEPT ![k] = "closed"] /\ SocketList' = SocketList \ {k}
              /\ l = IF SockCritSec[k] = t THEN "close3" ELSE "close2"
           \/ provider' = provider /\ SocketList' = SocketList /\ l = "end"
    BY <1>0 DEF CloseIdle, Goto, ProviderCloses, ProviderFails
  <2> QED
    BY <1>0, <1>1, <2>1 DEF CloseIdle, Rest, Refs, At, Goes, AcquireSocketLock, Keeps, opVars, history,
       ThreadTypes
<1>3. /\ k \in Contexts /\ t # NULL /\ Shape(t) /\ ~(t \in Apps /\ t \in Workers)
      /\ ctx2[t] \in Contexts \cup {NULL} /\ inner[t] \in Contexts \cup {NULL}
      /\ l \in AppPc \cup WorkerPc
  BY <1>0, <1>2, ThreadFacts, ConstAssumption DEF Threads, Live, AppPc
<1>4. /\ pc'[t] = l /\ ctx'[t] = k /\ ctx2'[t] = ctx2[t] /\ inner'[t] = inner[t]
  BY <1>0, <1>2, <1>3, GoesTo
<1>5. t \in Apps /\ ~(t \in Workers) /\ Shape(t)'
  BY <1>0, <1>2, <1>3, <1>4, ThreadFacts DEF Shape, AppPc, WorkerPc, AcceptPc, Early
<1>6. \A j \in Contexts : Held(t, j)' + lost'[j] = Held(t, j) + lost[j]
  BY <1>0, <1>2, <1>4 DEF Held, Held1, Held2, Held3, At
<1>7. ContextTypes'
  BY <1>0, <1>1, <1>2, <1>3 DEF ContextTypes
<1>8. Touches(t, k)
  <2>1. Keeper(t) = NULL /\ Keeper(t)' = IF l = "close2" THEN k ELSE NULL
    BY <1>0, <1>2, <1>4 DEF Keeper, AcceptPc
  <2>2. /\ SockCritSec'[k] = t /\ bClosing[k] \in 0 .. 1 /\ Locked(k) /\ mem[k] = "live"
    BY <1>0, <1>1, <1>2, <1>3 DEF ContextTypes, Inv, ContextsInv, Live
  <2>3. Locked(k)'
    BY <1>0, <1>2, <1>3, <1>5, <2>2 DEF Locked
  <2>4. l = "close2" => bClosing[k] = 0
    BY <1>0, <1>2, <1>3, <2>2 DEF Locked
  <2>5. Inside(t)'
    BY <1>0, <1>2, <2>1, <2>2, <2>4 DEF Inside, Live
  <2> QED
    BY <1>0, <1>1, <1>2, <2>1, <2>3, <2>5 DEF Touches, ContextTypes
<1>9. OpMoves(t)
  BY <1>0, <1>2, <1>4 DEF OpMoves, Early, AcceptPc
<1>10. k = ctx[t] /\ lost' \in [Contexts -> Nat]
  BY <1>0, <1>1, <1>2 DEF ThreadTypes
<1> QED
  BY <1>0, <1>2, <1>3, <1>5, <1>6, <1>7, <1>8, <1>9, <1>10, InvTouch

\* ... but its handle is not, and the reference is lost.
LEMMA InvCloseFails ==
  ASSUME Inv, NEW t \in Threads, CloseFails(t)
  PROVE  Inv'
<1>0. PICK k \in Contexts : k = ctx[t]
  BY ThreadFacts DEF CloseFails, Closes, Live
<1>1. ContextTypes /\ ThreadTypes
  BY DEF Inv, Types
<1>2. /\ pc[t] \in {"close2", "close3"} /\ Live(k)
      /\ IF pc[t] = "close2" THEN SockCritSec' = [SockCritSec EXCEPT ![k] = NULL]
                             ELSE SockCritSec' = SockCritSec
      /\ Goes(t, "idle", NULL, ctx2[t], inner[t])
      /\ lost' = [lost EXCEPT ![k] = @ + 1]
      /\ UNCHANGED <<RefCount, handle, SocketList, mem, provider, bClosing, LayeredSocket>>
      /\ UNCHANGED <<stage, octx, accepting, port, Pending, dwOutstandingAsync, op>>
  BY <1>0, <1>1 DEF CloseFails, Closes, HandleFails, Rest, At, Goto, Goes, Holds, Keeps, Incr, opVars,
         ThreadTypes
<1>3. /\ k \in Contexts /\ ctx2[t] = NULL /\ inner[t] = NULL /\ NULL \notin Contexts /\ t # NULL
      /\ t \in Apps /\ ~(t \in Workers) /\ "idle" \in AppPc \cup WorkerPc
  BY <1>0, <1>2, ThreadFacts, ConstAssumption DEF Live, Shape, WorkerPc, Early, AcceptPc, AppPc, Threads
<1>4. /\ pc'[t] = "idle" /\ ctx'[t] = NULL /\ ctx2'[t] = NULL /\ inner'[t] = NULL
  BY <1>0, <1>2, <1>3, GoesTo
<1>5. Shape(t)'
  BY <1>0, <1>3, <1>4 DEF Shape, AppPc
<1>6. lost' \in [Contexts -> Nat]
  BY <1>0, <1>1, <1>2, <1>3 DEF ThreadTypes
<1>7. \A j \in Contexts : Held(t, j)' + lost'[j] = Held(t, j) + lost[j]
  <2> SUFFICES ASSUME NEW j \in Contexts
               PROVE  Held(t, j)' + lost'[j] = Held(t, j) + lost[j]
    OBVIOUS
  <2>1. Held(t, j) = (IF j = k THEN 1 ELSE 0) /\ Held(t, j)' = 0
    BY <1>0, <1>2, <1>3, <1>4 DEF Held, Held1, Held2, Held3, At
  <2>2. lost'[j] = lost[j] + (IF j = k THEN 1 ELSE 0) /\ lost[j] \in Nat
    BY <1>0, <1>1, <1>2 DEF ThreadTypes
  <2> QED
    BY <1>0, <2>1, <2>2
<1>8. ContextTypes'
  BY <1>0, <1>1, <1>2, <1>3 DEF ContextTypes
<1>9. Keeper(t) = (IF pc[t] = "close2" THEN k ELSE NULL) /\ Keeper(t)' = NULL
  BY <1>0, <1>2, <1>4 DEF Keeper, AcceptPc
<1>10. CASE pc[t] = "close2"
  <2>1. SockCritSec[k] = t /\ bClosing[k] = 0 /\ Locked(k)
    BY <1>0, <1>2, <1>3, <1>9, <1>10 DEF Inv, ContextsInv, Inside
  <2>2. SockCritSec'[k] = NULL /\ NULL \notin Workers
    BY <1>0, <1>1, <1>2, <1>3, <1>10, ConstAssumption DEF ContextTypes
  <2>3. Touches(t, k)
    <3>1. Locked(k)' /\ Inside(t)'
      BY <1>0, <1>2, <1>9, <2>1, <2>2 DEF Locked, Inside, Live
    <3> QED
      BY <1>0, <1>1, <1>2, <1>9, <1>10, <2>1, <3>1 DEF Touches, ContextTypes
  <2>4. OpMoves(t)
    BY <1>0, <1>4 DEF OpMoves, Early, AcceptPc
  <2> QED
    BY <1>0, <1>2, <1>3, <1>5, <1>6, <1>7, <1>8, <2>3, <2>4, InvTouch
<1>11. CASE pc[t] = "close3"
  <2>1. UNCHANGED <<handle, SocketList, mem, provider, bClosing, SockCritSec, LayeredSocket>>
    BY <1>0, <1>2, <1>11
  <2>2. ContextsInv /\ RefsInv /\ OpsInv
    BY DEF Inv
  <2>3. Alone(t) /\ ThreadTypes'
    <3>1. RefCount' \in [Contexts -> Int]
      BY <1>0, <1>1, <1>2 DEF ThreadTypes
    <3> QED
      BY <1>0, <1>2, <1>3, <1>6, <3>1, GoesTo
  <2>4. ContextsInv'
    <3>1. /\ \A u \in Threads : Made(ctx'[u]) /\ Made(ctx2'[u]) /\ Made(inner'[u])
          /\ \A n \in Ops : Made(octx'[n]) /\ Made(accepting'[n])
          /\ \A u \in Threads : Keeper(u)' = Keeper(u)
      BY <1>0, <1>2, <1>4, <1>9, <1>11, <2>2, <2>3 DEF ContextsInv, Pointers, Alone, Keeper, Made
    <3> QED
      BY <1>0, <1>1, <2>1, <2>2, <3>1, ContextsKept
  <2>5. RefsInv'
    <3>1. ASSUME NEW j \in Contexts
          PROVE  RefCount'[j] - Held(t, j)' - lost'[j] = RefCount[j] - Held(t, j) - lost[j]
      <4>1. RefCount[j] \in Int /\ lost[j] \in Nat /\ lost'[j] \in Nat /\ RefCount'[j] = RefCount[j]
        BY <1>0, <1>2, <1>6, ThreadFacts
      <4>2. Held(t, j) \in Nat /\ Held(t, j)' \in Nat
        BY DEF Held, Held1, Held2, Held3
      <4>3. Held(t, j)' + lost'[j] = Held(t, j) + lost[j]
        BY <1>0, <1>7
      <4> QED
        BY <1>0, <4>1, <4>2, <4>3
    <3> QED
      BY <1>0, <1>1, <1>5, <2>1, <2>2, <2>3, <3>1, RefsAlone
  <2>6. OpsInv' /\ OpTypes'
    <3>1. \A u \in Threads : pc'[u] = pc[u] \/ pc'[u] \notin Early \cup {"unlock", "put"}
      BY <1>0, <1>4, <2>3 DEF Early, Alone, AcceptPc
    <3>2. OpTypes'
      BY <1>0, <1>2 DEF Inv, Types, OpTypes
    <3> QED
      BY <1>0, <1>2, <2>2, <3>1, <3>2, OpsQuiet DEF Inv, Types, ContextsInv
  <2> QED
    BY <1>0, <1>8, <2>3, <2>4, <2>5, <2>6 DEF Inv, Types
<1> QED
  BY <1>0, <1>2, <1>10, <1>11

\* A completion is copied, under the lock of its SOCK_INFO.
LEMMA InvCopies ==
  ASSUME Inv, NEW t \in Threads, Copies(t)
  PROVE  Inv'
<1>0. PICK k \in Contexts : k = ctx2[t]
  BY ThreadFacts DEF Copies, Live
<1> DEFINE l == IF Accepted(t) THEN "accepting" ELSE "copied"
<1>1. ContextTypes /\ ThreadTypes
  BY DEF Inv, Types
<1>2. /\ pc[t] = "copy" /\ Live(k) /\ Goes(t, l, ctx[t], k, inner[t])
      /\ UNCHANGED <<RefCount, lost, handle, SocketList, mem, provider, bClosing, LayeredSocket>>
      /\ UNCHANGED <<stage, octx, accepting, port, Pending, dwOutstandingAsync, op>>
  BY <1>0, <1>1 DEF Copies, Worker, At, Goto, Goes, history, ThreadTypes
<1>3. /\ k \in Contexts /\ t # NULL /\ Shape(t) /\ Owned(t) /\ (t \in Apps \/ t \in Workers)
      /\ ~(t \in Apps /\ t \in Workers) /\ inner[t] \in Contexts \cup {NULL}
      /\ ctx[t] \in Contexts \cup {NULL} /\ l \in AppPc \cup WorkerPc /\ op[t] # NULL
  BY <1>0, <1>2, ThreadFacts, ConstAssumption DEF Threads, Live, AppPc, WorkerPc, AcceptPc, Owned, Early
<1>4. /\ pc'[t] = l /\ ctx'[t] = ctx[t] /\ ctx2'[t] = k /\ inner'[t] = inner[t]
  BY <1>0, <1>2, <1>3, GoesTo
<1>5. CASE Accepted(t)
  <2>1. /\ l = "accepting" /\ accepting[op[t]] # NULL /\ SockCritSec[k] \in {NULL, t}
        /\ SockCritSec' = [SockCritSec EXCEPT ![k] = t]
    BY <1>0, <1>5 DEF Copies, Accepted, AcquireSocketLock, Keeps
  <2>2. t \in Workers /\ ~(t \in Apps)
    BY <1>0, <1>2, <1>3, <2>1 DEF Owned
  <2>3. Keeper(t) = NULL /\ Keeper(t)' = k
    BY <1>0, <1>2, <1>4, <2>1 DEF Keeper, AcceptPc
  <2>4. mem[k] = "live" /\ Locked(k) /\ SockCritSec'[k] = t /\ bClosing[k] \in 0 .. 1 /\ k # NULL
    BY <1>0, <1>1, <1>2, <1>3, <2>1 DEF ContextTypes, Inv, ContextsInv, Live
  <2>5. SockCritSec[k] = NULL
    BY <1>0, <2>1, <2>2, <2>3, <2>4 DEF Locked
  <2>6. bClosing[k] = 0
    BY <1>0, <2>4, <2>5 DEF Locked
  <2>7. ContextTypes'
    BY <1>0, <1>1, <1>2, <1>3, <2>1 DEF ContextTypes
  <2>8. Touches(t, k)
    <3>2. Locked(k)' /\ Inside(t)'
      BY <1>0, <1>2, <1>3, <2>3, <2>4, <2>6 DEF Locked, Inside
    <3> QED
      BY <1>0, <1>1, <1>2, <2>1, <2>3, <3>2 DEF Touches, ContextTypes
  <2>9. Shape(t)'
    BY <1>0, <1>2, <1>3, <1>4, <2>1, <2>2 DEF Shape, WorkerPc, Early, AcceptPc
  <2>10. OpMoves(t)
    BY <1>0, <1>2, <1>4, <2>1 DEF OpMoves, Early, AcceptPc, AcceptsSo
  <2>11. /\ lost' \in [Contexts -> Nat]
         /\ \A j \in Contexts : Held(t, j)' + lost'[j] = Held(t, j) + lost[j]
    BY <1>0, <1>1, <1>2, <1>4, <2>1 DEF Held, Held1, Held2, Held3, At, ThreadTypes
  <2> HIDE DEF l
  <2> QED
    BY <1>0, <1>2, <1>3, <2>7, <2>8, <2>9, <2>10, <2>11, InvTouch
<1>6. CASE ~Accepted(t)
  <2>1. l = "copied" /\ UNCHANGED ctxVars
    BY <1>0, <1>6 DEF Copies, ctxVars
  <2>2. Shape(t)'
    BY <1>0, <1>2, <1>3, <1>4, <2>1 DEF Shape, WorkerPc, AppPc, Early, AcceptPc
  <2>3. OpMoves(t) /\ KeepsOn(t)
    BY <1>0, <1>2, <1>4, <2>1 DEF OpMoves, Early, AcceptPc, AcceptsSo, KeepsOn, Unlocked
  <2> HIDE DEF l
  <2> QED
    BY <1>0, <1>2, <1>3, <2>1, <2>2, <2>3, InvMoves
<1> QED
  BY <1>0, <1>5, <1>6

LEMMA InvReleaseSocketLock ==
  ASSUME Inv, NEW t \in Threads, ReleaseSocketLock(t)
  PROVE  Inv'
<1>0. PICK k \in Contexts : k = ctx2[t]
  BY ThreadFacts DEF ReleaseSocketLock, Live
<1>1. ContextTypes /\ ThreadTypes
  BY DEF Inv, Types
<1>2. /\ pc[t] = "release" /\ Live(k) /\ Goes(t, "copied", ctx[t], k, inner[t])
      /\ SockCritSec' = [SockCritSec EXCEPT ![k] = NULL]
      /\ UNCHANGED <<RefCount, lost, handle, SocketList, mem, provider, bClosing, LayeredSocket>>
      /\ UNCHANGED <<stage, octx, accepting, port, Pending, dwOutstandingAsync, op>>
  BY <1>0, <1>1 DEF ReleaseSocketLock, Worker, At, Goto, Goes, Keeps, history, ThreadTypes
<1>3. /\ k \in Contexts /\ t # NULL /\ Shape(t) /\ t \in Workers /\ ~(t \in Apps)
      /\ inner[t] \in Contexts \cup {NULL} /\ ctx[t] \in Contexts \cup {NULL}
      /\ "copied" \in AppPc \cup WorkerPc /\ NULL \notin Workers
  BY <1>0, <1>2, ThreadFacts, ConstAssumption DEF Threads, Live, AppPc, WorkerPc, AcceptPc, Shape
<1>4. /\ pc'[t] = "copied" /\ ctx'[t] = ctx[t] /\ ctx2'[t] = k /\ inner'[t] = inner[t]
  BY <1>0, <1>2, <1>3, GoesTo
<1>5. Keeper(t) = k /\ Keeper(t)' = NULL
  BY <1>0, <1>2, <1>4 DEF Keeper, AcceptPc
<1>6. \A j \in Contexts : Held(t, j)' + lost'[j] = Held(t, j) + lost[j]
  BY <1>0, <1>2, <1>4 DEF Held, Held1, Held2, Held3, At
<1>7. SockCritSec[k] = t /\ bClosing[k] = 0 /\ Locked(k) /\ mem[k] = "live"
  BY <1>0, <1>2, <1>3, <1>5 DEF Inv, ContextsInv, Inside, Live
<1>8. SockCritSec'[k] = NULL /\ ContextTypes'
  BY <1>0, <1>1, <1>2, <1>3 DEF ContextTypes
<1>9. Touches(t, k)
  <2>1. Locked(k)' /\ Inside(t)'
    BY <1>0, <1>2, <1>3, <1>5, <1>7, <1>8 DEF Locked, Inside, Live
  <2> QED
    BY <1>0, <1>1, <1>2, <1>5, <1>7, <2>1 DEF Touches, ContextTypes
<1>10. Shape(t)'
  BY <1>0, <1>2, <1>3, <1>4 DEF Shape, WorkerPc, Early, AcceptPc
<1>11. OpMoves(t)
  BY <1>0, <1>2, <1>4 DEF OpMoves, Early, AcceptPc, AcceptsSo
<1>12. lost' \in [Contexts -> Nat]
  BY <1>0, <1>1, <1>2 DEF ThreadTypes
<1> QED
  BY <1>0, <1>2, <1>3, <1>6, <1>8, <1>9, <1>10, <1>11, <1>12, InvTouch

\* ... and freed, whoever else refers to it.
LEMMA InvCloseEnds ==
  ASSUME Inv, NEW t \in Threads, CloseEnds(t)
  PROVE  Inv'
<1> DEFINE k == ctx[t]
<1>1. Types /\ ContextsInv /\ RefsInv /\ OpsInv /\ ContextTypes /\ ThreadTypes
  BY DEF Inv, Types
<1>2. /\ pc[t] \in {"close2", "close3"} /\ Live(k) /\ Release(k) /\ HandleMay(k)
      /\ Goes(t, "idle", NULL, ctx2[t], inner[t])
      /\ UNCHANGED <<provider, bClosing, LayeredSocket, RefCount, lost>>
      /\ UNCHANGED <<stage, octx, accepting, port, Pending, dwOutstandingAsync, op>>
  BY <1>1 DEF CloseEnds, Closes, HandleMay, Rest, At, Goto, Holds, Goes, opVars, history, ThreadTypes
<1>3. /\ k \in Contexts /\ ctx2[t] = NULL /\ inner[t] = NULL /\ NULL \notin Contexts
      /\ t \in Apps /\ ~(t \in Workers) /\ Made(NULL)
  BY <1>2, ThreadFacts DEF Live, Shape, WorkerPc, Early, Made, AcceptPc
<1>4. RefCount' \in [Contexts -> Int] /\ lost' \in [Contexts -> Nat] /\ "idle" \in AppPc \cup WorkerPc
  BY <1>1, <1>2 DEF ThreadTypes, AppPc
<1>5. /\ Alone(t) /\ ThreadTypes'
      /\ pc'[t] = "idle" /\ ctx'[t] = NULL /\ ctx2'[t] = NULL /\ inner'[t] = NULL
  BY <1>2, <1>3, <1>4, GoesTo
<1>6. Shape(t)'
  BY <1>3, <1>5 DEF Shape, AppPc
<1>7. /\ ContextTypes' /\ mem'[k] = "freed"
      /\ \A j \in Contexts : j # k => mem'[j] = mem[j]
  BY <1>1, <1>2, <1>3 DEF Release, Keeps, HandleMay, CloseSocketHandle, ContextTypes
<1>8. ContextsInv'
  <2>1. /\ \A u \in Threads : Made(ctx'[u]) /\ Made(ctx2'[u]) /\ Made(inner'[u])
        /\ \A n \in Ops : Made(octx'[n]) /\ Made(accepting'[n])
        /\ \A u \in Threads : \/ Keeper(u)' = Keeper(u)
                              \/ Keeper(u) = k /\ Keeper(u)' = NULL
    BY <1>1, <1>2, <1>3, <1>5 DEF ContextsInv, Pointers, Alone, Keeper, AcceptPc
  <2> QED
    BY <1>1, <1>2, <1>3, <2>1, ContextsRelease
<1>9. RefsInv'
  <2>1. \A j \in Contexts : j # k => Held(t, j) = 0 /\ Held(t, j)' = 0
    BY <1>3, <1>5 DEF Held, Held1, Held2, Held3
  <2> HIDE DEF k
  <2> QED
    BY <1>1, <1>2, <1>5, <1>6, <1>7, <2>1, RefsAlone
<1>10. OpsInv'
  <2>1. \A u \in Threads : pc'[u] = pc[u] \/ pc'[u] \notin Early \cup {"unlock", "put"}
    BY <1>5 DEF Early, Alone, AcceptPc
  <2>2. \A j \in Contexts : mem'[j] \in {mem[j], "freed"} /\ (mem[j] = "freed" => mem'[j] = "freed")
    BY <1>7
  <2> QED
    BY <1>1, <1>2, <2>1, <2>2, OpsQuiet DEF Types, ContextsInv
<1>11. OpTypes'
  BY <1>1, <1>2 DEF Types, OpTypes
<1> QED
  BY <1>5, <1>7, <1>8, <1>9, <1>10, <1>11 DEF Inv, Types
-----------------------------------------------------------------------------
(* Steps of an operation. *)

\* t goes on with the operation n.
LEMMA InvOp ==
  ASSUME Inv, NEW t \in Threads, NEW l \in AppPc \cup WorkerPc, NEW n \in Ops,
         Goes(t, l, ctx[t], ctx2[t], inner[t]), Shape(t)', Owned(t)',
         pc[t] \notin {"selects", "update2"}, KeepsOn(t), l \notin {"selects", "update2"},
         UNCHANGED ctxVars, UNCHANGED <<RefCount, lost>>,
         OnlyOp(n), stage'[n] # "freed", octx'[n] # NULL, Made(octx'[n]), Made(accepting'[n]), OpTypes',
         \A u \in Threads : u # t => op'[u] = op[u] /\ op[u] # n,
         op'[t] \in {op[t], NULL, n}, PortOK',
         \A k \in Contexts : mem[k] # "freed" =>
           dwOutstandingAsync'[k] - Counts(n, k)' = dwOutstandingAsync[k] - Counts(n, k)
  PROVE  Inv'
<1>1. Types /\ ContextsInv /\ RefsInv /\ OpsInv
  BY DEF Inv
<1>2. /\ ctx[t] \in Contexts \cup {NULL} /\ ctx2[t] \in Contexts \cup {NULL}
      /\ inner[t] \in Contexts \cup {NULL} /\ Made(ctx[t]) /\ Made(ctx2[t]) /\ Made(inner[t])
  BY ThreadFacts
<1>3. RefCount' \in [Contexts -> Int] /\ lost' \in [Contexts -> Nat]
  BY <1>1 DEF Types, ThreadTypes
<1>4. /\ pc'[t] = l /\ ctx'[t] = ctx[t] /\ ctx2'[t] = ctx2[t] /\ inner'[t] = inner[t]
      /\ Alone(t) /\ ThreadTypes'
  <2>1. Alone(t) /\ (RefCount' \in [Contexts -> Int] /\ lost' \in [Contexts -> Nat] => ThreadTypes')
    BY <1>2, GoesTo
  <2>2. pc'[t] = l /\ ctx'[t] = ctx[t] /\ ctx2'[t] = ctx2[t] /\ inner'[t] = inner[t]
    BY <1>2, GoesTo
  <2> QED
    BY <1>3, <2>1, <2>2
<1>5. ContextsInv'
  <2>1. /\ \A u \in Threads : Made(ctx'[u]) /\ Made(ctx2'[u]) /\ Made(inner'[u])
        /\ \A m \in Ops : Made(octx'[m]) /\ Made(accepting'[m])
        /\ \A u \in Threads : Keeper(u)' = Keeper(u)
    BY <1>1, <1>2, <1>4 DEF ContextsInv, Pointers, Alone, OnlyOp, KeepsOn, Unlocked, Keeper, AcceptPc
  <2> QED
    BY <1>1, <2>1, ContextsKept DEF ctxVars, Types
<1>6. RefsInv'
  <2>1. \A k \in Contexts : Held(t, k)' = Held(t, k)
    BY <1>4 DEF Held, Held1, Held2, Held3, At
  <2> QED
    BY <1>1, <1>4, <2>1, RefsAlone DEF ctxVars, Types
<1>7. OpsInv'
  <2>1. \A u \in Threads : u # t => pc'[u] = pc[u]
    BY <1>4 DEF Alone
  <2> QED
    BY <1>1, <2>1, OpsStep DEF Types, ctxVars
<1>8. ContextTypes'
  BY <1>1 DEF Types, ContextTypes, ctxVars
<1> QED
  BY <1>4, <1>5, <1>6, <1>7, <1>8 DEF Inv, Types

\* ... and then has it, or none.
LEMMA OwnedNext ==
  ASSUME Inv, NEW t \in Threads, NEW n \in Ops,
         \A u \in Threads : u # t => op'[u] = op[u] /\ op[u] # n,
         \/ op'[t] = NULL /\ pc'[t] \notin Early \cup {"unlock", "put"}
         \/ op'[t] = n /\ pc'[t] \in Early /\ stage'[n] \in {"own", "worker"}
         \/ op'[t] = n /\ pc'[t] \in {"unlock", "put"} /\ stage'[n] = "counted",
         pc'[t] \notin AcceptPc /\ (t \in Apps /\ pc'[t] \in {"complete", "copy"} => accepting'[n] = NULL)
  PROVE  Owned(t)'
<1>1. NULL \notin Ops /\ Early \cap {"unlock", "put"} = {}
  BY ConstAssumption DEF Early, AcceptPc
<1>2. CASE op'[t] = NULL /\ pc'[t] \notin Early \cup {"unlock", "put"}
  BY <1>2 DEF Owned
<1>3. CASE op'[t] = n
  <2>1. \A u \in Threads : op'[u] = n => u = t
    OBVIOUS
  <2>2. /\ pc'[t] \in Early => stage'[n] \in {"own", "worker"}
        /\ pc'[t] \in {"unlock", "put"} => stage'[n] = "counted"
        /\ stage'[n] \in {"own", "worker", "counted"}
    BY <1>1, <1>3
  <2> QED
    BY <1>1, <1>3, <2>1, <2>2 DEF Owned, AcceptPc
<1> QED
  BY <1>2, <1>3

\* An operation without an owner, ...
LEMMA Unowned ==
  ASSUME Inv, NEW n \in Ops, stage[n] \notin {"own", "worker", "counted", "freed"}
  PROVE  \A u \in Threads : op[u] # n
BY ThreadFacts DEF Owned

\* ... one with an owner, ...
LEMMA OwnedBy ==
  ASSUME Inv, NEW t \in Threads, op[t] # NULL
  PROVE  /\ op[t] \in Ops /\ \A u \in Threads : u # t => op[u] # op[t]
         /\ octx[op[t]] \in Contexts /\ Made(octx[op[t]]) /\ octx[op[t]] # NULL
         /\ stage[op[t]] \in {"own", "worker", "counted", "freed"}
<1>1. Owned(t) /\ op[t] \in Ops
  BY ThreadFacts
<1>2. stage[op[t]] \in {"own", "worker", "counted", "freed"} /\ \A u \in Threads : u # t => op[u] # op[t]
  BY <1>1 DEF Owned
<1> QED
  BY <1>1, <1>2 DEF Inv, OpsInv, FreedOps, ContextsInv, Pointers, Types, OpTypes

\* ... and one whose memory is gone.
LEMMA GoneNotCounted ==
  ASSUME Inv, NEW n \in Ops, ~Live(octx[n]), octx[n] # NULL, NEW k \in Contexts, mem[k] # "freed"
  PROVE  octx[n] # k
<1>1. SUFFICES ASSUME octx[n] = k
               PROVE  FALSE
  OBVIOUS
<1>2. mem[k] = "heap" /\ LayeredSocket[k] # NULL
  BY <1>1 DEF Inv, Live, Types, ContextTypes, ContextsInv, Pointers, Made
<1> QED
  BY <1>2 DEF Inv, ContextsInv, Fresh

LEMMA InvGetOverlappedStructure ==
  ASSUME Inv, NEW t \in Threads, NEW n \in Ops, GetOverlappedStructure(t, n)
  PROVE  Inv'
<1> DEFINE k == ctx[t]
<1>1. OpTypes /\ ThreadTypes
  BY DEF Inv, Types
<1>2. /\ pc[t] \in {"get", "pnp"} /\ k # NULL /\ stage[n] = "none"
      /\ dwOutstandingAsync' = [dwOutstandingAsync EXCEPT ![k] = @ + 1]
      /\ octx' = [octx EXCEPT ![n] = k]
      /\ UNCHANGED <<ctxVars, RefCount, lost, Pending, port, ctx, ctx2, inner>>
      /\ \/ /\ stage' = [stage EXCEPT ![n] = IF pc[t] = "pnp" THEN "worker" ELSE "own"]
            /\ accepting' = [accepting EXCEPT ![n] = ctx2[t]] /\ op' = [op EXCEPT ![t] = n]
            /\ pc' = [pc EXCEPT ![t] = IF pc[t] = "pnp" THEN "complete" ELSE "queue"]
         \/ /\ stage' = [stage EXCEPT ![n] = "missing"] /\ UNCHANGED <<accepting, op>>
            /\ pc' = [pc EXCEPT ![t] = "end"]
  BY DEF GetOverlappedStructure, At, Goto, AcquireSocketLock, Live, Incr, NoStructure, Calls, Refs,
         history
<1>3. k \in Contexts /\ Made(k) /\ Shape(t) /\ op[t] \in Ops \cup {NULL} /\ Owned(t)
      /\ t \in Apps /\ ~(t \in Workers) /\ NULL \notin Ops /\ NULL \notin Contexts
      /\ ctx2[t] \in Contexts \cup {NULL} /\ Made(ctx2[t]) /\ (pc[t] = "pnp" => ctx2[t] = NULL)
  BY <1>2, ThreadFacts DEF Shape, WorkerPc, AcceptPc, Early
<1>4. \A u \in Threads : op[u] # n
  BY <1>2, Unowned
<1>5. /\ OnlyOp(n) /\ octx'[n] = k /\ PortOK'
      /\ stage'[n] \in {"own", "worker", "missing"}
  <2>1. OnlyOp(n) /\ octx'[n] = k /\ stage'[n] \in {"own", "worker", "missing"}
    BY <1>1, <1>2 DEF OnlyOp, OpTypes
  <2>2. PortOK
    BY DEF Inv, OpsInv
  <2>3. \A i \in 1 .. Len(port) : port[i] \in Ops
    BY <1>1 DEF OpTypes
  <2>4. \A i \in 1 .. Len(port) : stage'[port[i]] = stage[port[i]]
    BY <1>2, <2>1, <2>2, <2>3 DEF PortOK, OnlyOp
  <2> QED
    BY <1>2, <2>1, <2>2, <2>4 DEF PortOK
<1>6. \A j \in Contexts : mem[j] # "freed" =>
        dwOutstandingAsync'[j] - Counts(n, j)' = dwOutstandingAsync[j] - Counts(n, j)
  <2> SUFFICES ASSUME NEW j \in Contexts
               PROVE  dwOutstandingAsync'[j] - Counts(n, j)' = dwOutstandingAsync[j] - Counts(n, j)
    OBVIOUS
  <2>1. Counts(n, j) = 0 /\ Counts(n, j)' = IF j = k THEN 1 ELSE 0
    BY <1>2, <1>5 DEF Counts, Counted
  <2>2. dwOutstandingAsync'[j] = dwOutstandingAsync[j] + (IF j = k THEN 1 ELSE 0)
    BY <1>1, <1>2 DEF OpTypes
  <2>3. dwOutstandingAsync[j] \in Int
    BY <1>1 DEF OpTypes
  <2> QED
    BY <2>1, <2>2, <2>3
<1>7. OpTypes' /\ Made(accepting'[n])
  <2>1. dwOutstandingAsync' \in [Contexts -> Int] /\ octx' \in [Ops -> Contexts \cup {NULL}]
    BY <1>1, <1>2, <1>3 DEF OpTypes
  <2>2. op' \in [Threads -> Ops \cup {NULL}] /\ port' \in Seq(Ops) /\ Pending' \in Seq(Ops)
    BY <1>1, <1>2 DEF OpTypes
  <2>3. stage' \in [Ops -> {"none", "own", "pending", "kernel", "port", "worker", "counted", "free",
                            "kept", "missing", "freed"}]
    BY <1>1, <1>2 DEF OpTypes
  <2>4. accepting' \in [Ops -> Contexts \cup {NULL}]
    BY <1>1, <1>2, <1>3 DEF OpTypes
  <2>5. Made(accepting'[n])
    <3>1. Made(accepting[n]) /\ LayeredSocket' = LayeredSocket /\ accepting'[n] \in {accepting[n], ctx2[t]}
      BY <1>1, <1>2 DEF Inv, ContextsInv, Pointers, ctxVars, OpTypes
    <3> QED
      BY <1>3, <3>1 DEF Made
  <2> QED
    BY <2>1, <2>2, <2>3, <2>4, <2>5 DEF OpTypes
<1>11. Made(octx'[n])
  BY <1>2, <1>3, <1>5 DEF Made, ctxVars
<1> HIDE DEF k
<1>8. CASE /\ op' = [op EXCEPT ![t] = n] /\ accepting' = [accepting EXCEPT ![n] = ctx2[t]]
           /\ pc' = [pc EXCEPT ![t] = IF pc[t] = "pnp" THEN "complete" ELSE "queue"]
           /\ stage' = [stage EXCEPT ![n] = IF pc[t] = "pnp" THEN "worker" ELSE "own"]
  <2> DEFINE l == IF pc[t] = "pnp" THEN "complete" ELSE "queue"
  <2>1. Goes(t, l, ctx[t], ctx2[t], inner[t]) /\ l \in AppPc \cup WorkerPc
    BY <1>1, <1>2, <1>8 DEF Goes, ThreadTypes, AppPc
  <2>2. /\ pc'[t] = l /\ ctx'[t] = ctx[t] /\ ctx2'[t] = ctx2[t] /\ inner'[t] = inner[t]
        /\ stage'[n] \in {"own", "worker"} /\ accepting'[n] = ctx2[t]
    BY <1>1, <1>2, <1>8 DEF ThreadTypes, OpTypes
  <2>3. Shape(t)' /\ KeepsOn(t)
    BY <1>2, <1>3, <2>2 DEF Shape, AppPc, Early, AcceptPc, KeepsOn, Unlocked
  <2>4. l \in Early /\ l \notin {"unlock", "put", "copy", "selects", "update2"} \cup AcceptPc
    BY DEF Early, AcceptPc
  <2>5. /\ Owned(t)' /\ op'[t] = n
        /\ \A u \in Threads : u # t => op'[u] = op[u] /\ op[u] # n
    <3>1. op'[t] = n /\ \A u \in Threads : u # t => op'[u] = op[u] /\ op[u] # n
      BY <1>1, <1>4, <1>8 DEF OpTypes
    <3>2. pc'[t] = "complete" => accepting'[n] = NULL
      BY <1>3, <2>2
    <3> QED
      BY <2>2, <2>4, <3>1, <3>2, OwnedNext
  <2> HIDE DEF l
  <2>6. stage'[n] # "freed" /\ octx'[n] # NULL
    BY <1>2, <1>5
  <2> QED
    BY <1>2, <1>3, <1>5, <1>6, <1>7, <1>11, <2>1, <2>3, <2>4, <2>5, <2>6, InvOp
<1>9. CASE UNCHANGED <<accepting, op>> /\ pc' = [pc EXCEPT ![t] = "end"]
  <2>1. Goes(t, "end", ctx[t], ctx2[t], inner[t]) /\ "end" \in AppPc \cup WorkerPc
    BY <1>1, <1>2, <1>9 DEF Goes, ThreadTypes, AppPc
  <2>2. /\ pc'[t] = "end" /\ ctx'[t] = ctx[t] /\ ctx2'[t] = ctx2[t] /\ inner'[t] = inner[t]
    BY <1>1, <1>2, <1>9 DEF ThreadTypes
  <2>3. Shape(t)' /\ KeepsOn(t)
    BY <1>2, <1>3, <2>2 DEF Shape, AppPc, Early, AcceptPc, KeepsOn, Unlocked
  <2>4. Owned(t)'
    <3>1. op[t] # NULL => stage'[op[t]] = stage[op[t]]
      BY <1>3, <1>4, <1>5 DEF OnlyOp
    <3> QED
      BY <1>3, <1>9, <2>2, <3>1 DEF Owned, Early, AcceptPc
  <2>5. stage'[n] # "freed" /\ octx'[n] # NULL
    BY <1>2, <1>5
  <2> QED
    BY <1>2, <1>3, <1>4, <1>5, <1>6, <1>7, <1>9, <1>11, <2>1, <2>2, <2>3, <2>4, <2>5, InvOp
<1> QED
  BY <1>2, <1>8, <1>9

\* The structure n of a SOCK_INFO goes to a stage s.
Staged(n, s) ==
  stage[n] # "none" /\ stage' = [stage EXCEPT ![n] = s] /\ octx' = octx /\ accepting' = accepting

\* dwOutstandingAsync counts it as before, or counts it off.
CountedSo(n, s) ==
  \/ /\ UNCHANGED dwOutstandingAsync
     /\ ~Live(octx[n]) \/ (stage[n] \in Counted /\ s \in Counted)
        \/ (stage[n] \notin Counted /\ s \notin Counted)
  \/ /\ dwOutstandingAsync' = [dwOutstandingAsync EXCEPT ![octx[n]] = @ - 1]
     /\ stage[n] \in Counted /\ s \notin Counted

StageOK == {"own", "pending", "kernel", "port", "worker", "counted", "free", "kept", "missing"}

LEMMA StagedFacts ==
  ASSUME Inv, NEW n \in Ops, NEW s \in StageOK, Staged(n, s), CountedSo(n, s),
         op' \in [Threads -> Ops \cup {NULL}], port' \in Seq(Ops), Pending' \in Seq(Ops)
  PROVE  /\ OnlyOp(n) /\ stage'[n] = s /\ octx'[n] # NULL /\ Made(octx'[n]) /\ Made(accepting'[n])
         /\ accepting' = accepting /\ OpTypes'
         /\ \A k \in Contexts : mem[k] # "freed" =>
              dwOutstandingAsync'[k] - Counts(n, k)' = dwOutstandingAsync[k] - Counts(n, k)
<1>1. OpTypes
  BY DEF Inv, Types
<1>2. octx[n] \in Contexts /\ octx[n] # NULL /\ Made(octx[n]) /\ Made(accepting[n])
  BY <1>1 DEF Inv, Staged, OpsInv, FreedOps, ContextsInv, Pointers, OpTypes
<1>3. OnlyOp(n) /\ stage'[n] = s /\ octx' = octx /\ accepting' = accepting
  BY <1>1 DEF Staged, OnlyOp, OpTypes
<1>4. OpTypes'
  <2>1. stage' \in [Ops -> {"none", "own", "pending", "kernel", "port", "worker", "counted", "free",
                            "kept", "missing", "freed"}]
    BY <1>1 DEF Staged, StageOK, OpTypes
  <2>2. dwOutstandingAsync' \in [Contexts -> Int]
    BY <1>1, <1>2 DEF CountedSo, OpTypes
  <2> QED
    BY <1>1, <1>3, <2>1, <2>2 DEF OpTypes
<1>5. ASSUME NEW k \in Contexts, mem[k] # "freed"
      PROVE  dwOutstandingAsync'[k] - Counts(n, k)' = dwOutstandingAsync[k] - Counts(n, k)
  <2>1. dwOutstandingAsync[k] \in Int
    BY <1>1 DEF OpTypes
  <2>2. CASE octx[n] # k
    <3>1. dwOutstandingAsync'[k] = dwOutstandingAsync[k]
      BY <1>1, <2>2 DEF CountedSo, OpTypes
    <3>2. Counts(n, k) = 0 /\ Counts(n, k)' = 0
      BY <1>3, <2>2 DEF Counts
    <3> QED
      BY <2>1, <3>1, <3>2
  <2>3. CASE octx[n] = k
    <3>1. Live(octx[n])
      BY <1>2, <1>5, <2>3, GoneNotCounted
    <3>2. Counts(n, k) = (IF stage[n] \in Counted THEN 1 ELSE 0) /\ Counts(n, k)' = IF s \in Counted THEN 1 ELSE 0
      BY <1>3, <2>3 DEF Counts, Counted
    <3>3. CASE dwOutstandingAsync' = dwOutstandingAsync /\ (stage[n] \in Counted <=> s \in Counted)
      BY <3>2, <3>3
    <3>4. CASE /\ dwOutstandingAsync' = [dwOutstandingAsync EXCEPT ![octx[n]] = @ - 1]
               /\ stage[n] \in Counted /\ s \notin Counted
      <4>1. dwOutstandingAsync'[k] = dwOutstandingAsync[k] - 1
        BY <1>1, <2>3, <3>4 DEF OpTypes
      <4>2. Counts(n, k) = 1 /\ Counts(n, k)' = 0
        BY <3>2, <3>4
      <4> QED
        BY <2>1, <4>1, <4>2
    <3> QED
      BY <3>1, <3>3, <3>4 DEF CountedSo
  <2> QED
    BY <2>2, <2>3
<1> QED
  BY <1>2, <1>3, <1>4, <1>5

LEMMA PortKept ==
  ASSUME Inv, NEW n \in Ops, OnlyOp(n), stage[n] # "port", port' = port
  PROVE  PortOK'
<1>1. PortOK /\ \A i \in 1 .. Len(port) : port[i] \in Ops
  BY DEF Inv, OpsInv, Types, OpTypes
<1>2. \A i \in 1 .. Len(port) : stage'[port[i]] = stage[port[i]]
  BY <1>1 DEF PortOK, OnlyOp
<1> QED
  BY <1>1, <1>2 DEF PortOK

\* The owner t of n hands it on, or goes on with it.
LEMMA InvOwner ==
  ASSUME Inv, NEW t \in Threads, NEW n, op[t] = n, n # NULL,
         NEW l \in AppPc \cup WorkerPc, NEW s \in StageOK,
         Goes(t, l, ctx[t], ctx2[t], inner[t]), Shape(t)',
         pc[t] \notin {"selects", "update2"}, KeepsOn(t), l \notin {"selects", "update2"},
         UNCHANGED ctxVars, UNCHANGED <<RefCount, lost, port>>, Pending' \in Seq(Ops),
         Staged(n, s), CountedSo(n, s),
         \/ op' = [op EXCEPT ![t] = NULL] /\ l \notin Early \cup {"unlock", "put"}
         \/ op' = op /\ l \in {"unlock", "put"} /\ s = "counted"
  PROVE  Inv'
<1>1. OpTypes /\ ThreadTypes
  BY DEF Inv, Types
<1>2. /\ n \in Ops /\ \A u \in Threads : u # t => op[u] # n
      /\ stage[n] # "port"
  BY OwnedBy
<1>3. op' \in [Threads -> Ops \cup {NULL}] /\ port' \in Seq(Ops)
  BY <1>1 DEF OpTypes
<1>4. \A u \in Threads : u # t => op'[u] = op[u] /\ op[u] # n
  BY <1>1, <1>2 DEF OpTypes
<1>5. \/ op'[t] = NULL /\ l \notin Early \cup {"unlock", "put"}
      \/ op'[t] = n /\ l \in {"unlock", "put"} /\ s = "counted"
  <2>1. CASE op' = [op EXCEPT ![t] = NULL] /\ l \notin Early \cup {"unlock", "put"}
    BY <1>1, <2>1 DEF OpTypes
  <2>2. CASE op' = op /\ l \in {"unlock", "put"} /\ s = "counted"
    BY <2>2
  <2> QED
    BY <2>1, <2>2
<1>6. OnlyOp(n) /\ stage'[n] = s /\ octx'[n] # NULL /\ Made(octx'[n]) /\ Made(accepting'[n]) /\ OpTypes'
  BY <1>2, <1>3, StagedFacts
<1>7. \A k \in Contexts : mem[k] # "freed" =>
        dwOutstandingAsync'[k] - Counts(n, k)' = dwOutstandingAsync[k] - Counts(n, k)
  BY <1>2, <1>3, StagedFacts
<1>8. PortOK'
  BY <1>2, <1>6, PortKept
<1>9. pc'[t] = l
  BY <1>1 DEF Goes, ThreadTypes
<1>10. Owned(t)'
  <2>1. pc'[t] \notin AcceptPc \cup {"complete", "copy"}
    BY <1>5, <1>9 DEF Early, AcceptPc
  <2> QED
    BY <1>2, <1>4, <1>5, <1>6, <1>9, <2>1, OwnedNext
<1>11. stage'[n] # "freed" /\ op'[t] \in {op[t], NULL, n}
  BY <1>5, <1>6 DEF StageOK
<1> QED
  BY <1>2, <1>4, <1>6, <1>7, <1>8, <1>10, <1>11, InvOp

\* t takes the operation n, which had no owner.
LEMMA InvTaken ==
  ASSUME Inv, NEW t \in Threads, ~(t \in Apps), NEW n \in Ops, NEW l \in Early \ AcceptPc,
         l \in AppPc \cup WorkerPc,
         NEW s \in {"own", "worker"},
         Goes(t, l, ctx[t], ctx2[t], inner[t]), Shape(t)',
         pc[t] \notin {"selects", "update2"}, KeepsOn(t),
         UNCHANGED ctxVars, UNCHANGED <<RefCount, lost, dwOutstandingAsync>>,
         Pending' \in Seq(Ops), port' \in Seq(Ops), PortOK',
         stage[n] \in {"pending", "port"}, stage' = [stage EXCEPT ![n] = s], UNCHANGED <<octx, accepting>>,
         op' = [op EXCEPT ![t] = n]
  PROVE  Inv'
<1>1. OpTypes /\ ThreadTypes
  BY DEF Inv, Types
<1>2. \A u \in Threads : op[u] # n
  BY Unowned
<1>3. op' \in [Threads -> Ops \cup {NULL}]
  BY <1>1 DEF OpTypes
<1>4. op'[t] = n /\ \A u \in Threads : u # t => op'[u] = op[u] /\ op[u] # n
  BY <1>1, <1>2 DEF OpTypes
<1>5. s \in StageOK /\ Staged(n, s) /\ CountedSo(n, s)
  BY DEF StageOK, Staged, CountedSo, Counted
<1>6. /\ OnlyOp(n) /\ stage'[n] = s /\ octx'[n] # NULL /\ Made(octx'[n]) /\ Made(accepting'[n]) /\ OpTypes'
      /\ \A k \in Contexts : mem[k] # "freed" =>
           dwOutstandingAsync'[k] - Counts(n, k)' = dwOutstandingAsync[k] - Counts(n, k)
  BY <1>3, <1>5, StagedFacts
<1>7. pc'[t] = l
  BY <1>1 DEF Goes, ThreadTypes
<1>8. Owned(t)'
  BY <1>4, <1>6, <1>7, OwnedNext
<1>9. stage'[n] # "freed" /\ op'[t] \in {op[t], NULL, n} /\ l \notin {"selects", "update2"}
  BY <1>4, <1>6 DEF Early, AcceptPc
<1> QED
  BY <1>4, <1>6, <1>8, <1>9, InvOp

LEMMA InvQueueOverlappedOperation ==
  ASSUME Inv, NEW t \in Threads, QueueOverlappedOperation(t)
  PROVE  Inv'
<1> DEFINE n == op[t]
<1>1. OpTypes /\ ThreadTypes
  BY DEF Inv, Types
<1>2. /\ pc[t] = "queue"
      /\ UNCHANGED <<ctxVars, RefCount, lost, ctx, ctx2, inner, octx, accepting, port, dwOutstandingAsync>>
      /\ \/ pc' = [pc EXCEPT ![t] = "execute"] /\ UNCHANGED <<Pending, stage, op>>
         \/ /\ pc' = [pc EXCEPT ![t] = "end"] /\ Pending' = Append(Pending, n)
            /\ stage' = [stage EXCEPT ![n] = "pending"] /\ op' = [op EXCEPT ![t] = NULL]
  BY DEF QueueOverlappedOperation, At, Goto, Calls, Refs, history
<1>3. /\ t \in Apps /\ ~(t \in Workers) /\ Shape(t) /\ n # NULL
      /\ ctx[t] \in Contexts \cup {NULL} /\ ctx2[t] \in Contexts \cup {NULL}
      /\ inner[t] \in Contexts \cup {NULL}
      /\ stage[n] \in {"own", "worker", "freed"}
  BY <1>2, ThreadFacts DEF Shape, Owned, Early, WorkerPc, AcceptPc
<1>4. CASE pc' = [pc EXCEPT ![t] = "execute"] /\ UNCHANGED <<Pending, stage, op>>
  <2>1. Goes(t, "execute", ctx[t], ctx2[t], inner[t]) /\ "execute" \in AppPc \cup WorkerPc
    BY <1>1, <1>2, <1>4 DEF Goes, ThreadTypes, AppPc
  <2>2. pc'[t] = "execute" /\ ctx'[t] = ctx[t] /\ ctx2'[t] = ctx2[t] /\ inner'[t] = inner[t]
    BY <1>3, <2>1, GoesTo
  <2>3. Shape(t)' /\ KeepsOn(t)
    BY <1>2, <1>3, <2>2 DEF Shape, AppPc, Early, AcceptPc, KeepsOn, Unlocked
  <2>4. OpMoves(t) /\ KeepsOn(t)
    BY <1>2, <2>2 DEF OpMoves, Early, AcceptPc, AcceptsSo, KeepsOn, Unlocked
  <2> QED
    BY <1>2, <1>4, <2>1, <2>3, <2>4, InvMoves
<1>5. CASE /\ pc' = [pc EXCEPT ![t] = "end"] /\ Pending' = Append(Pending, n)
           /\ stage' = [stage EXCEPT ![n] = "pending"] /\ op' = [op EXCEPT ![t] = NULL]
  <2>1. Goes(t, "end", ctx[t], ctx2[t], inner[t]) /\ "end" \in AppPc \cup WorkerPc
    BY <1>1, <1>2, <1>5 DEF Goes, ThreadTypes, AppPc
  <2>2. pc'[t] = "end" /\ ctx'[t] = ctx[t] /\ ctx2'[t] = ctx2[t] /\ inner'[t] = inner[t]
    BY <1>3, <2>1, GoesTo
  <2>3. Shape(t)' /\ KeepsOn(t)
    BY <1>2, <1>3, <2>2 DEF Shape, AppPc, Early, AcceptPc, KeepsOn, Unlocked
  <2>4. n \in Ops
    BY <1>3, OwnedBy
  <2>5. Pending' \in Seq(Ops)
    BY <1>1, <1>5, <2>4, AppendProperties DEF OpTypes
  <2>6. Staged(n, "pending") /\ "pending" \in StageOK /\ "end" \notin Early \cup {"unlock", "put"}
    BY <1>2, <1>3, <1>5 DEF Staged, StageOK, Early, AcceptPc
  <2>7. CountedSo(n, "pending")
    <3>1. stage[n] = "freed" => ~Live(octx[n])
      BY <2>4 DEF Inv, OpsInv, FreedOps
    <3> QED
      BY <1>2, <1>3, <3>1 DEF CountedSo, Counted
  <2> HIDE DEF n
  <2> QED
    BY <1>2, <1>3, <1>5, <2>1, <2>3, <2>5, <2>6, <2>7, InvOwner DEF n
<1> QED
  BY <1>2, <1>4, <1>5

\* The provider below takes it or does it at once.
LEMMA InvExecute ==
  ASSUME Inv, NEW t \in Threads, ExecutePending(t) \/ ExecuteSynchronous(t)
  PROVE  Inv'
<1> DEFINE n == op[t]
<1>1. OpTypes /\ ThreadTypes
  BY DEF Inv, Types
<1>2. /\ pc[t] = "execute" /\ stage[n] = "own"
      /\ UNCHANGED <<ctxVars, RefCount, lost, ctx, ctx2, inner, octx, accepting, port, Pending, dwOutstandingAsync>>
      /\ pc' = [pc EXCEPT ![t] = After(t)] /\ op' = [op EXCEPT ![t] = NULL]
      /\ stage' = [stage EXCEPT ![n] = "kernel"] \/ stage' = [stage EXCEPT ![n] = "kept"]
  BY DEF ExecutePending, ExecuteSynchronous, Mine, At, Goto, Calls, Refs, history
<1>3. /\ ~(t \in Apps /\ t \in Workers) /\ (t \in Apps \/ t \in Workers) /\ Shape(t) /\ n # NULL
      /\ ctx[t] \in Contexts \cup {NULL} /\ ctx2[t] \in Contexts \cup {NULL}
      /\ inner[t] \in Contexts \cup {NULL}
  BY <1>2, ThreadFacts DEF Owned, Early, AcceptPc
<1>4. After(t) \in AppPc \cup WorkerPc /\ (t \in Apps => After(t) = "end") /\ (t \in Workers => After(t) = "wait")
  BY <1>3 DEF After, AppPc, WorkerPc, AcceptPc
<1>5. Goes(t, After(t), ctx[t], ctx2[t], inner[t])
  BY <1>1, <1>2 DEF Goes, ThreadTypes
<1>6. pc'[t] = After(t) /\ ctx'[t] = ctx[t] /\ ctx2'[t] = ctx2[t] /\ inner'[t] = inner[t]
  BY <1>3, <1>4, <1>5, GoesTo
<1>7. Shape(t)' /\ KeepsOn(t)
  BY <1>2, <1>3, <1>4, <1>6 DEF Shape, AppPc, WorkerPc, Early, AcceptPc, KeepsOn, Unlocked
<1>8. Pending' \in Seq(Ops) /\ After(t) \notin Early \cup {"unlock", "put", "selects", "update2"}
  BY <1>1, <1>2, <1>3, <1>4 DEF OpTypes, Early, AcceptPc
<1>9. ASSUME NEW s \in {"kernel", "kept"}, stage' = [stage EXCEPT ![n] = s]
      PROVE  s \in StageOK /\ Staged(n, s) /\ CountedSo(n, s)
  BY <1>2, <1>9 DEF Staged, StageOK, CountedSo, Counted
<1> HIDE DEF n
<1>10. \E s \in StageOK : Staged(n, s) /\ CountedSo(n, s)
  BY <1>2, <1>9
<1> QED
  BY <1>2, <1>3, <1>4, <1>5, <1>7, <1>8, <1>10, InvOwner DEF n

LEMMA InvCountsOff ==
  ASSUME Inv, NEW t \in Threads, CountsOff(t)
  PROVE  Inv'
<1> DEFINE n == op[t]
<1>1. OpTypes /\ ThreadTypes
  BY DEF Inv, Types
<1>2. /\ pc[t] = "count" /\ Live(octx[n])
      /\ UNCHANGED <<ctxVars, RefCount, lost, ctx, ctx2, inner, octx, accepting, port, Pending, op>>
      /\ pc' = [pc EXCEPT ![t] = "unlock"]
      /\ stage' = [stage EXCEPT ![n] = "counted"]
      /\ dwOutstandingAsync' = [dwOutstandingAsync EXCEPT ![octx[n]] = @ - 1]
  <2>1. \A k : Incr(dwOutstandingAsync, k, -1) = [dwOutstandingAsync EXCEPT ![k] = @ + (-1)]
    BY DEF Incr
  <2>2. dwOutstandingAsync' = [dwOutstandingAsync EXCEPT ![octx[n]] = @ + (-1)]
    BY <2>1 DEF CountsOff
  <2>3. octx[n] \in Contexts => [dwOutstandingAsync EXCEPT ![octx[n]] = @ + (-1)] = [dwOutstandingAsync EXCEPT ![octx[n]] = @ - 1]
    BY <1>1 DEF OpTypes
  <2>4. n # NULL
    BY ThreadFacts DEF Owned, Early, CountsOff, At, AcceptPc
  <2>5. octx[n] \in Contexts
    BY <2>4, OwnedBy
  <2> QED
    BY <2>2, <2>3, <2>5 DEF CountsOff, AcquireSocketLock, At, Goto, Calls, Refs, opVars, history
<1>3. /\ ~(t \in Apps /\ t \in Workers) /\ Shape(t) /\ n # NULL
      /\ ctx[t] \in Contexts \cup {NULL} /\ ctx2[t] \in Contexts \cup {NULL}
      /\ inner[t] \in Contexts \cup {NULL}
      /\ stage[n] \in {"own", "worker", "freed"}
  BY <1>2, ThreadFacts DEF Owned, Early, AcceptPc
<1>4. Goes(t, "unlock", ctx[t], ctx2[t], inner[t]) /\ "unlock" \in AppPc \cup WorkerPc
  BY <1>1, <1>2 DEF Goes, ThreadTypes, AppPc
<1>5. pc'[t] = "unlock" /\ ctx'[t] = ctx[t] /\ ctx2'[t] = ctx2[t] /\ inner'[t] = inner[t]
  BY <1>3, <1>4, GoesTo
<1>6. Shape(t)' /\ KeepsOn(t)
  BY <1>2, <1>3, <1>5 DEF Shape, AppPc, WorkerPc, Early, AcceptPc, KeepsOn, Unlocked
<1>7. stage[n] \in {"own", "worker"} /\ Pending' \in Seq(Ops)
  <2>1. n \in Ops
    BY <1>3, OwnedBy
  <2> QED
    BY <1>1, <1>2, <1>3, <2>1 DEF Inv, OpsInv, FreedOps, OpTypes
<1>8. Staged(n, "counted") /\ "counted" \in StageOK /\ CountedSo(n, "counted")
  BY <1>2, <1>7 DEF Staged, StageOK, CountedSo, Counted
<1> HIDE DEF n
<1>9. "unlock" \in {"unlock", "put"} /\ "unlock" \notin {"selects", "update2"} /\ op' = op
  BY <1>2
<1> QED
  BY <1>2, <1>3, <1>4, <1>6, <1>7, <1>8, <1>9, InvOwner DEF n

LEMMA InvPutbackOverlappedStructure ==
  ASSUME Inv, NEW t \in Threads, PutbackOverlappedStructure(t)
  PROVE  Inv'
<1> DEFINE n == op[t]
<1>1. OpTypes /\ ThreadTypes
  BY DEF Inv, Types
<1>2. PICK l : /\ pc[t] = "put" /\ pc' = [pc EXCEPT ![t] = l]
               /\ (t \in Workers /\ l = "dequeue") \/ l = After(t)
  BY DEF PutbackOverlappedStructure, At, Goto
<1>3. /\ UNCHANGED <<ctxVars, RefCount, lost, ctx, ctx2, inner, octx, accepting, port, Pending, dwOutstandingAsync>>
      /\ stage' = [stage EXCEPT ![n] = "free"] /\ op' = [op EXCEPT ![t] = NULL]
  BY DEF PutbackOverlappedStructure, Calls, Refs, history
<1>4. /\ ~(t \in Apps /\ t \in Workers) /\ (t \in Apps \/ t \in Workers) /\ Shape(t) /\ n # NULL
      /\ ctx[t] \in Contexts \cup {NULL} /\ ctx2[t] \in Contexts \cup {NULL}
      /\ inner[t] \in Contexts \cup {NULL} /\ (stage[n] = "counted" \/ ~Live(octx[n]))
      /\ stage[n] # "none"
  BY <1>2, ThreadFacts DEF Owned, Early, AcceptPc
<1>5. /\ l \in AppPc \cup WorkerPc /\ (t \in Apps => l = "end") /\ (t \in Workers => l \in {"wait", "dequeue"})
      /\ l \notin Early \cup {"unlock", "put", "selects", "update2"}
  BY <1>2, <1>4 DEF After, AppPc, WorkerPc, Early, AcceptPc
<1>6. Goes(t, l, ctx[t], ctx2[t], inner[t])
  BY <1>1, <1>2, <1>3 DEF Goes, ThreadTypes
<1>7. pc'[t] = l /\ ctx'[t] = ctx[t] /\ ctx2'[t] = ctx2[t] /\ inner'[t] = inner[t]
  BY <1>4, <1>5, <1>6, GoesTo
<1>8. Shape(t)' /\ KeepsOn(t)
  BY <1>2, <1>4, <1>5, <1>7 DEF Shape, AppPc, WorkerPc, Early, AcceptPc, KeepsOn, Unlocked
<1>9. Pending' \in Seq(Ops)
  BY <1>1, <1>3 DEF OpTypes
<1>10. Staged(n, "free") /\ "free" \in StageOK /\ CountedSo(n, "free")
  BY <1>3, <1>4 DEF Staged, StageOK, CountedSo, Counted
<1> HIDE DEF n
<1> QED
  BY <1>2, <1>3, <1>4, <1>5, <1>6, <1>8, <1>9, <1>10, InvOwner DEF n

\* A worker takes what has completed ...
LEMMA InvTakes ==
  ASSUME Inv, NEW t \in Threads, Takes(t)
  PROVE  Inv'
<1> DEFINE n == Head(port)
<1>1. OpTypes /\ ThreadTypes /\ PortOK
  BY DEF Inv, Types, OpsInv
<1>2. /\ t \in Workers /\ pc[t] = "wait" /\ port # <<>>
      /\ UNCHANGED <<ctxVars, RefCount, lost, ctx, ctx2, inner, octx, accepting, Pending, dwOutstandingAsync>>
      /\ pc' = [pc EXCEPT ![t] = "complete"] /\ port' = Tail(port)
      /\ stage' = [stage EXCEPT ![n] = "worker"] /\ op' = [op EXCEPT ![t] = n]
  BY DEF Takes, At, Goto, Calls, Refs, history
<1>3. /\ ~(t \in Apps) /\ Shape(t)
      /\ ctx[t] \in Contexts \cup {NULL} /\ ctx2[t] \in Contexts \cup {NULL}
      /\ inner[t] \in Contexts \cup {NULL}
  BY <1>2, ThreadFacts
<1>4. /\ port \in Seq(Ops) /\ Len(port) \in Nat /\ Len(port) > 0
      /\ n = port[1] /\ n \in Ops /\ Tail(port) \in Seq(Ops) /\ Len(Tail(port)) = Len(port) - 1
      /\ \A i \in 1 .. Len(Tail(port)) : Tail(port)[i] = port[i + 1]
  BY <1>1, <1>2, HeadTailProperties, EmptySeq DEF OpTypes
<1>5. stage[n] = "port"
  BY <1>1, <1>4 DEF PortOK
<1>6. Goes(t, "complete", ctx[t], ctx2[t], inner[t]) /\ "complete" \in AppPc \cup WorkerPc
  BY <1>1, <1>2 DEF Goes, ThreadTypes, WorkerPc, AcceptPc
<1>7. pc'[t] = "complete" /\ ctx'[t] = ctx[t] /\ ctx2'[t] = ctx2[t] /\ inner'[t] = inner[t]
  BY <1>3, <1>6, GoesTo
<1>8. Shape(t)' /\ KeepsOn(t)
  BY <1>2, <1>3, <1>7 DEF Shape, WorkerPc, Early, AcceptPc, KeepsOn, Unlocked
<1> HIDE DEF n
<1>9. PortOK'
  <2>1. ASSUME NEW i \in 1 .. Len(port')
        PROVE  stage'[port'[i]] = "port" /\ port'[i] = port[i + 1] /\ i + 1 \in 1 .. Len(port)
    <3>1. port'[i] = port[i + 1] /\ i + 1 \in 1 .. Len(port) /\ 1 \in 1 .. Len(port) /\ i + 1 # 1
      BY <1>2, <1>4
    <3>2. stage[port[i + 1]] = "port" /\ port[i + 1] # port[1] /\ port[i + 1] \in Ops
      BY <1>1, <1>4, <3>1 DEF PortOK
    <3>3. stage'[port[i + 1]] = stage[port[i + 1]]
      BY <1>1, <1>2, <1>4, <3>2 DEF OpTypes
    <3> QED
      BY <3>1, <3>2, <3>3
  <2>2. ASSUME NEW i \in 1 .. Len(port'), NEW j \in 1 .. Len(port'), port'[i] = port'[j]
        PROVE  i = j
    <3>1. port[i + 1] = port[j + 1] /\ i + 1 \in 1 .. Len(port) /\ j + 1 \in 1 .. Len(port)
      BY <2>1, <2>2
    <3>2. i + 1 = j + 1
      BY <1>1, <3>1 DEF PortOK
    <3>3. i \in Int /\ j \in Int
      OBVIOUS
    <3> QED
      BY <3>2, <3>3
  <2> QED
    BY <2>1, <2>2 DEF PortOK
<1>10. Pending' \in Seq(Ops) /\ port' \in Seq(Ops)
  BY <1>1, <1>2, <1>4 DEF OpTypes
<1>11. "complete" \in Early \ AcceptPc /\ "worker" \in {"own", "worker"}
  BY DEF Early, AcceptPc
<1> QED
  BY <1>2, <1>3, <1>4, <1>5, <1>6, <1>8, <1>9, <1>10, <1>11, InvTaken

\* ... or what is to be executed.
LEMMA InvDequeueOverlappedOperation ==
  ASSUME Inv, NEW t \in Threads, DequeueOverlappedOperation(t)
  PROVE  Inv'
<1> DEFINE n == Head(Pending)
<1>1. OpTypes /\ ThreadTypes /\ PortOK
  BY DEF Inv, Types, OpsInv
<1>2. /\ pc[t] = "dequeue"
      /\ UNCHANGED <<ctxVars, RefCount, lost, ctx, ctx2, inner, octx, accepting, port, dwOutstandingAsync>>
      /\ \/ pc' = [pc EXCEPT ![t] = "wait"] /\ UNCHANGED <<Pending, stage, op>>
         \/ /\ pc' = [pc EXCEPT ![t] = "execute"] /\ Pending # <<>> /\ Pending' = Tail(Pending)
            /\ stage[n] = "pending"
            /\ stage' = [stage EXCEPT ![n] = "own"] /\ op' = [op EXCEPT ![t] = n]
  BY DEF DequeueOverlappedOperation, At, Goto, Calls, Refs, history
<1>3. /\ t \in Workers /\ ~(t \in Apps) /\ Shape(t)
      /\ ctx[t] \in Contexts \cup {NULL} /\ ctx2[t] \in Contexts \cup {NULL}
      /\ inner[t] \in Contexts \cup {NULL}
  BY <1>2, ThreadFacts DEF Shape, AppPc
<1>4. CASE pc' = [pc EXCEPT ![t] = "wait"] /\ UNCHANGED <<Pending, stage, op>>
  <2>1. Goes(t, "wait", ctx[t], ctx2[t], inner[t]) /\ "wait" \in AppPc \cup WorkerPc
    BY <1>1, <1>2, <1>4 DEF Goes, ThreadTypes, WorkerPc, AcceptPc
  <2>2. pc'[t] = "wait" /\ ctx'[t] = ctx[t] /\ ctx2'[t] = ctx2[t] /\ inner'[t] = inner[t]
    BY <1>3, <2>1, GoesTo
  <2>3. Shape(t)' /\ KeepsOn(t)
    BY <1>2, <1>3, <2>2 DEF Shape, WorkerPc, AcceptPc, KeepsOn, Unlocked
  <2>4. OpMoves(t) /\ KeepsOn(t)
    BY <1>2, <2>2 DEF OpMoves, Early, AcceptPc, AcceptsSo, KeepsOn, Unlocked
  <2> QED
    BY <1>2, <1>4, <2>1, <2>3, <2>4, InvMoves
<1>5. CASE /\ pc' = [pc EXCEPT ![t] = "execute"] /\ Pending # <<>> /\ Pending' = Tail(Pending)
           /\ stage[n] = "pending"
           /\ stage' = [stage EXCEPT ![n] = "own"] /\ op' = [op EXCEPT ![t] = n]
  <2>1. n \in Ops /\ Tail(Pending) \in Seq(Ops)
    BY <1>1, <1>5, HeadTailProperties, EmptySeq DEF OpTypes
  <2>2. Goes(t, "execute", ctx[t], ctx2[t], inner[t]) /\ "execute" \in AppPc \cup WorkerPc
    BY <1>1, <1>2, <1>5 DEF Goes, ThreadTypes, WorkerPc, AcceptPc
  <2>3. pc'[t] = "execute" /\ ctx'[t] = ctx[t] /\ ctx2'[t] = ctx2[t] /\ inner'[t] = inner[t]
    BY <1>3, <2>2, GoesTo
  <2>4. Shape(t)' /\ KeepsOn(t)
    BY <1>2, <1>3, <2>3 DEF Shape, WorkerPc, Early, AcceptPc, KeepsOn, Unlocked
  <2> HIDE DEF n
  <2>5. OnlyOp(n)
    BY <1>1, <1>2, <1>5 DEF OnlyOp, OpTypes
  <2>6. PortOK'
    BY <1>2, <1>5, <2>1, <2>5, PortKept
  <2>7. Pending' \in Seq(Ops) /\ port' \in Seq(Ops)
    BY <1>1, <1>2, <1>5, <2>1 DEF OpTypes
  <2>8. "execute" \in Early \ AcceptPc /\ "own" \in {"own", "worker"}
    BY DEF Early, AcceptPc
  <2> QED
    BY <1>2, <1>3, <1>5, <2>1, <2>2, <2>4, <2>6, <2>7, <2>8, InvTaken
<1> QED
  BY <1>2, <1>4, <1>5

\* The provider below completes an operation.
LEMMA InvComplete ==
  ASSUME Inv, NEW n \in Ops, Complete(n)
  PROVE  Inv'
<1>1. Types /\ ContextsInv /\ RefsInv /\ OpsInv /\ OpTypes /\ ThreadTypes
  BY DEF Inv, Types
<1>2. /\ stage[n] = "kernel" /\ stage' = [stage EXCEPT ![n] = "port"] /\ port' = Append(port, n)
      /\ UNCHANGED <<pc, ctxVars, RefCount, lost, ctx, ctx2, inner, octx, accepting, Pending,
                     dwOutstandingAsync, op>>
  BY DEF Complete, Calls, Refs, history
<1>3. /\ port' \in Seq(Ops) /\ Len(port') = Len(port) + 1 /\ Len(port) \in Nat
      /\ port'[Len(port) + 1] = n /\ \A i \in 1 .. Len(port) : port'[i] = port[i] /\ port[i] \in Ops
  BY <1>1, <1>2, AppendProperties DEF OpTypes
<1>4. op' \in [Threads -> Ops \cup {NULL}] /\ Pending' \in Seq(Ops)
  BY <1>1, <1>2 DEF OpTypes
<1>5. "port" \in StageOK /\ Staged(n, "port") /\ CountedSo(n, "port")
  BY <1>2 DEF StageOK, Staged, CountedSo, Counted
<1>6. OnlyOp(n) /\ stage'[n] = "port" /\ octx'[n] # NULL /\ Made(octx'[n]) /\ Made(accepting'[n]) /\ OpTypes'
  BY <1>3, <1>4, <1>5, StagedFacts
<1>7. \A k \in Contexts : mem[k] # "freed" =>
        dwOutstandingAsync'[k] - Counts(n, k)' = dwOutstandingAsync[k] - Counts(n, k)
  BY <1>3, <1>4, <1>5, StagedFacts
<1>8. PortOK'
  <2>1. \A i \in 1 .. Len(port) : stage[port[i]] = "port"
    BY <1>1 DEF OpsInv, PortOK
  <2>2. \A i \in 1 .. Len(port) : port[i] # n /\ stage'[port[i]] = "port"
    BY <1>2, <1>3, <1>6, <2>1 DEF OnlyOp
  <2>3. \A i \in 1 .. Len(port') : i \in 1 .. Len(port) \/ i = Len(port) + 1
    BY <1>3
  <2>4. \A i \in 1 .. Len(port') : stage'[port'[i]] = "port"
    BY <1>3, <1>6, <2>2, <2>3
  <2>5. ASSUME NEW i \in 1 .. Len(port'), NEW j \in 1 .. Len(port'), port'[i] = port'[j]
        PROVE  i = j
    BY <1>1, <1>3, <2>2, <2>3, <2>5 DEF OpsInv, PortOK
  <2> QED
    BY <2>4, <2>5 DEF PortOK
<1>9. \A u \in Threads : op[u] # n
  BY <1>2, Unowned
<1>10. OpsInv'
  <2>1. NULL \notin Threads /\ stage'[n] # "freed" /\ UNCHANGED mem
    BY <1>2, <1>6, ConstAssumption DEF Threads, ctxVars
  <2>2. \A u \in Threads : u # NULL => pc'[u] = pc[u] /\ op'[u] = op[u] /\ op[u] # n
    BY <1>2, <1>9
  <2> QED
    BY <1>1, <1>6, <1>7, <1>8, <2>1, <2>2, OpsStep
<1>11. ContextsInv' /\ ContextTypes'
  <2>1. /\ \A u \in Threads : Made(ctx'[u]) /\ Made(ctx2'[u]) /\ Made(inner'[u])
        /\ \A m \in Ops : Made(octx'[m]) /\ Made(accepting'[m])
        /\ \A u \in Threads : Keeper(u)' = Keeper(u)
    BY <1>1, <1>2 DEF ContextsInv, Pointers, Keeper, AcceptPc
  <2>2. ContextTypes'
    BY <1>1, <1>2 DEF Types, ContextTypes, ctxVars
  <2> QED
    BY <1>1, <1>2, <2>1, <2>2, ContextsKept DEF ctxVars, Types
<1>12. RefsInv' /\ ThreadTypes'
  BY <1>1, <1>2 DEF RefsInv, Shape, RefsExact, Holders, At, ThreadTypes, ctxVars
<1> QED
  BY <1>6, <1>10, <1>11, <1>12 DEF Inv, Types

\* WSPCleanup frees everything at once.
LEMMA InvFreeSocketsAndMemory ==
  ASSUME Inv, NEW t \in Threads, FreeSocketsAndMemory(t)
  PROVE  Inv'
<1>1. Types /\ ContextsInv /\ RefsInv /\ OpsInv /\ OpTypes /\ ThreadTypes /\ ContextTypes
  BY DEF Inv, Types
<1>2. /\ pc[t] = "free" /\ pc' = [pc EXCEPT ![t] = "idle"]
      /\ handle' = [h \in Handles |-> IF handle[h] \in SocketList THEN NULL ELSE handle[h]]
      /\ mem' = [k \in Contexts |-> IF mem[k] = "live" THEN "freed" ELSE mem[k]]
      /\ provider' = [k \in Contexts |-> IF mem[k] = "live" THEN "closed" ELSE provider[k]]
      /\ stage' = [n \in Ops |-> IF stage[n] \in {"none", "free", "missing"} THEN stage[n] ELSE "freed"]
      /\ port' = <<>>
      /\ UNCHANGED <<bClosing, SockCritSec, LayeredSocket, RefCount, lost, ctx, ctx2, inner,
                     octx, accepting, Pending, dwOutstandingAsync, op>>
  BY DEF FreeSocketsAndMemory, At, Goto, Others, Refs
<1>3. /\ Shape(t) /\ ctx[t] = NULL /\ ctx2[t] = NULL /\ inner[t] = NULL
      /\ t \in Apps /\ ~(t \in Workers)
  BY <1>2, ThreadFacts DEF Shape, WorkerPc, Early, AcceptPc
<1>4. /\ Alone(t) /\ pc'[t] = "idle" /\ ThreadTypes' /\ Shape(t)'
  <2>1. Alone(t) /\ pc'[t] = "idle" /\ ThreadTypes'
    BY <1>1, <1>2 DEF Alone, ThreadTypes, AppPc
  <2>2. Shape(t)'
    BY <1>2, <1>3, <2>1 DEF Shape, AppPc
  <2> QED
    BY <2>1, <2>2
<1>5. \A k \in Contexts : /\ mem'[k] # "live"
                          /\ mem'[k] = "freed" \/ (mem'[k] = "heap" /\ mem[k] = "heap")
  BY <1>1, <1>2 DEF ContextTypes
<1>6. \A n \in Ops : octx[n] = NULL \/ octx[n] \in Contexts
  BY <1>1 DEF OpTypes
<1>7. \A n \in Ops : ~Live(octx[n])'
  BY <1>2, <1>5, <1>6 DEF Live
<1>8. \A n \in Ops : /\ stage'[n] = "freed" \/ (stage'[n] \in {"none", "free", "missing"} /\ stage'[n] = stage[n])
                     /\ stage[n] \notin {"none", "free", "missing"} => stage'[n] = "freed"
  BY <1>2
<1>9. OpTypes'
  <2>1. stage' \in [Ops -> {"none", "own", "pending", "kernel", "port", "worker", "counted", "free",
                            "kept", "missing", "freed"}]
    BY <1>2
  <2>2. port' \in Seq(Ops)
    BY <1>2, EmptySeq
  <2> QED
    BY <1>1, <1>2, <2>1, <2>2 DEF OpTypes
<1>10. ContextTypes'
  BY <1>1, <1>2 DEF ContextTypes
<1>11. ContextsInv'
  <2>1. Pointers'
    BY <1>1, <1>2 DEF ContextsInv, Pointers, Made
  <2>2. HandlesOK'
    <3>1. ASSUME NEW h \in Handles, handle'[h] # NULL
          PROVE  mem'[handle'[h]] # "heap" /\ LayeredSocket'[handle'[h]] = h
      <4>1. handle'[h] = handle[h] /\ handle[h] \in Contexts
        BY <1>1, <1>2, <3>1 DEF ContextTypes
      <4>2. mem[handle[h]] # "heap" /\ LayeredSocket[handle[h]] = h
        BY <1>1, <3>1, <4>1 DEF ContextsInv, HandlesOK
      <4> QED
        BY <1>2, <4>1, <4>2
    <3> QED
      BY <1>5, <3>1 DEF HandlesOK
  <2>3. ASSUME NEW k \in Contexts
        PROVE  Fresh(k)' /\ Locked(k)'
    <3>1. Fresh(k)
      BY <1>1 DEF ContextsInv
    <3> QED
      BY <1>2, <1>5, <3>1 DEF Fresh, Locked
  <2>4. ASSUME NEW u \in Threads
        PROVE  Inside(u)'
    <3>1. Keeper(u)' \in Contexts \cup {NULL}
      BY <1>4 DEF ThreadTypes, Keeper, AcceptPc
    <3> QED
      BY <1>5, <3>1 DEF Inside, Live
  <2> QED
    BY <2>1, <2>2, <2>3, <2>4 DEF ContextsInv
<1>12. RefsInv'
  <2>1. \A k : Held(t, k)' = Held(t, k)
    BY <1>2, <1>4 DEF Held, Held1, Held2, Held3, At
  <2> QED
    BY <1>1, <1>2, <1>4, <1>5, <2>1, RefsAlone
<1>13. OpsInv'
  <2>1. PortOK'
    BY <1>2 DEF PortOK
  <2>2. FreedOps'
    BY <1>1, <1>2, <1>7, <1>8 DEF OpsInv, FreedOps
  <2>3. ASSUME NEW u \in Threads
        PROVE  Owned(u)'
    <3>1. Owned(u) /\ op[u] \in Ops \cup {NULL}
      BY <1>1 DEF OpsInv, OpTypes
    <3>2. op[u] # NULL => stage'[op[u]] = "freed" /\ ~Live(octx[op[u]])'
      <4>1. op[u] # NULL => op[u] \in Ops /\ stage[op[u]] \notin {"none", "free", "missing"}
        BY <3>1 DEF Owned
      <4>2. op[u] # NULL => stage'[op[u]] = "freed"
        BY <1>8, <4>1
      <4>3. op[u] # NULL => ~Live(octx[op[u]])'
        BY <1>2, <1>7, <4>1
      <4> QED
        BY <4>2, <4>3
    <3>3. pc'[u] \in Early \cup {"unlock", "put"} => pc[u] \in Early \cup {"unlock", "put"}
      BY <1>4 DEF Alone, Early, AcceptPc
    <3> QED
      BY <1>2, <3>1, <3>2, <3>3 DEF Owned
  <2>4. ASSUME NEW k \in Contexts, mem'[k] # "freed"
        PROVE  IsFiniteSet(OpsOf(k)') /\ dwOutstandingAsync'[k] = Cardinality(OpsOf(k)')
    <3>1. mem[k] = "heap"
      BY <1>5, <2>4
    <3>2. \A n \in Ops : octx[n] # k
      <4>1. LayeredSocket[k] = NULL
        BY <1>1, <3>1 DEF ContextsInv, Fresh
      <4>2. k # NULL
        BY ConstAssumption
      <4> QED
        BY <1>1, <4>1, <4>2 DEF ContextsInv, Pointers, Made
    <3>3. OpsOf(k) = {} /\ OpsOf(k)' = {}
      BY <1>2, <3>2 DEF OpsOf
    <3>4. IsFiniteSet(OpsOf(k)) /\ dwOutstandingAsync[k] = Cardinality(OpsOf(k))
      BY <1>1, <3>1 DEF OpsInv, OpsExact
    <3> QED
      BY <1>2, <3>3, <3>4
  <2> QED
    BY <2>1, <2>2, <2>3, <2>4 DEF OpsInv, OpsExact
<1> QED
  BY <1>4, <1>9, <1>10, <1>11, <1>12, <1>13 DEF Inv, Types
-----------------------------------------------------------------------------
(* The theorems. *)

LEMMA InvInit == Init => Inv
<1> SUFFICES ASSUME Init
             PROVE  Inv
  OBVIOUS
<1>1. ContextTypes
  BY DEF Init, ContextTypes
<1>2. ThreadTypes
  BY DEF Init, ThreadTypes, AppPc, WorkerPc, AcceptPc
<1>3. OpTypes
  BY EmptySeq DEF Init, OpTypes
<1>4. ContextsInv
  <2>1. Pointers /\ HandlesOK
    BY DEF Init, Pointers, HandlesOK, Made
  <2>2. ASSUME NEW k \in Contexts
        PROVE  Fresh(k) /\ Locked(k)
    BY DEF Init, Fresh, Locked
  <2>3. ASSUME NEW t \in Threads
        PROVE  Inside(t)
    <3>1. Keeper(t) = NULL
      BY DEF Init, Keeper, AcceptPc
    <3> QED
      BY <3>1 DEF Inside, Live
  <2> QED
    BY <2>1, <2>2, <2>3 DEF ContextsInv
<1>5. RefsInv
  <2>1. \A t \in Threads : Shape(t)
    BY ConstAssumption DEF Init, Shape, AppPc, WorkerPc, Threads, AcceptPc
  <2>2. ASSUME NEW k \in Contexts
        PROVE  RefCount[k] = Cardinality(Holders(k)) + lost[k]
    <3>1. Holders(k) = {}
      BY ConstAssumption DEF Init, Holders
    <3>2. Cardinality({}) = 0
      BY FS_EmptySet
    <3>3. RefCount[k] = 0 /\ lost[k] = 0
      BY DEF Init
    <3> QED
      BY <3>1, <3>2, <3>3
  <2> QED
    BY <2>1, <2>2 DEF RefsInv, RefsExact
<1>6. OpsInv
  <2>1. PortOK /\ FreedOps
    BY DEF Init, PortOK, FreedOps
  <2>2. \A t \in Threads : Owned(t)
    BY DEF Init, Owned, Early, AcceptPc
  <2>3. ASSUME NEW k \in Contexts
        PROVE  OpsExact(k)
    <3>1. OpsOf(k) = {} /\ dwOutstandingAsync[k] = 0
      BY DEF Init, OpsOf, Counted
    <3>2. IsFiniteSet({}) /\ Cardinality({}) = 0
      BY FS_EmptySet
    <3> QED
      BY <3>1, <3>2 DEF OpsExact
  <2> QED
    BY <2>1, <2>2, <2>3 DEF OpsInv
<1> QED
  BY <1>1, <1>2, <1>3, <1>4, <1>5, <1>6 DEF Inv, Types

LEMMA InvContinues ==
  ASSUME Inv, NEW t \in Threads, Continues(t)
  PROVE  Inv'
<1>1. CASE End(t) \/ End2(t) \/ SelectUnlocks(t) \/ UpdateUnlocks(t) \/ CompletionUnlocks(t)
           \/ CleanupUnlocks(t)
  BY <1>1, InvEnd, InvEnd2, InvSelectUnlocks, InvUpdateUnlocks, InvCompletionUnlocks,
     InvCleanupUnlocks
<1>2. CASE Selects(t) \/ Updates(t) \/ UpdateFails(t) \/ CompletionFinds(t) \/ CleanupFinds(t)
  BY <1>2, InvSelects, InvUpdates, InvUpdateFails, InvCompletionFinds, InvCleanupFinds
<1>3. CASE AcceptExFails(t) \/ GetWorkerWindow(t) \/ SpinEnds(t) \/ Tells(t) \/ Wakes(t)
           \/ ExecuteFails(t)
  BY <1>3, InvGoOn
<1>4. CASE CloseBusy(t) \/ CloseIdle(t) \/ CloseEnds(t) \/ CloseFails(t)
  BY <1>4, InvCloseBusy, InvCloseIdle, InvCloseEnds, InvCloseFails
<1>10. CASE Copies(t) \/ AcceptFinds(t) \/ AcceptUnlocks(t) \/ ReleaseSocketLock(t)
  BY <1>10, InvCopies, InvAcceptFinds, InvAcceptUnlocks, InvReleaseSocketLock
<1>5. CASE QueueOverlappedOperation(t) \/ ExecutePending(t) \/ ExecuteSynchronous(t)
           \/ DequeueOverlappedOperation(t) \/ CountsOff(t) \/ PutbackOverlappedStructure(t)
  BY <1>5, InvQueueOverlappedOperation, InvExecute, InvDequeueOverlappedOperation, InvCountsOff,
     InvPutbackOverlappedStructure
<1>6. CASE StopOverlappedManager(t) \/ FreeSocketsAndMemory(t) \/ UseAfterFree(t)
  BY <1>6, InvStartup, InvFreeSocketsAndMemory, InvIdles
<1>7. CASE \E h \in Handles : FindSecond(t, h)
  BY <1>7, InvFindSecond
<1>8. CASE \E k \in Contexts : Creates(t, k)
  BY <1>8, InvCreates
<1>9. CASE \E n \in Ops : GetOverlappedStructure(t, n)
  BY <1>9, InvGetOverlappedStructure
<1> QED
  BY <1>1, <1>2, <1>3, <1>4, <1>5, <1>6, <1>7, <1>8, <1>9, <1>10 DEF Continues

LEMMA InvNext == Inv /\ [Next]_vars => Inv'
<1> SUFFICES ASSUME Inv, [Next]_vars
             PROVE  Inv'
  OBVIOUS
<1>1. ASSUME NEW t \in Threads, Runs(t)
      PROVE  Inv'
  BY <1>1, InvContinues DEF Runs
<1>2. CASE WorkerTakes
  BY <1>2, InvTakes DEF WorkerTakes, Threads
<1>3. CASE WindowThread
  BY <1>3, InvIdles DEF WindowThread
<1>4. ASSUME NEW t \in Apps, Begins(t)
      PROVE  Inv'
  <2>1. t \in Threads
    BY DEF Threads
  <2>2. CASE \E h \in Handles : Call(t, h)
    BY <2>1, <2>2, InvCall
  <2>3. CASE \E k \in Contexts : WSPSocketFails(t, k) \/ \E h \in Handles : WSPSocket(t, k, h)
    BY <2>1, <2>3, InvCreates
  <2>4. CASE WSPStartup(t) \/ WSPCleanup(t)
    BY <2>1, <2>4, InvStartup
  <2>5. CASE \E h \in Handles : CallsFreed(t, h)
    BY <2>1, <2>5, InvIdles
  <2> QED
    BY <1>4, <2>2, <2>3, <2>4, <2>5 DEF Begins
<1>5. ASSUME NEW n \in Ops, Complete(n)
      PROVE  Inv'
  BY <1>5, InvComplete
<1>6. CASE UNCHANGED vars
  <2>1. Types'
    <3>1. ContextTypes'
      BY <1>6 DEF Inv, Types, ContextTypes, vars, ctxVars
    <3>2. ThreadTypes'
      BY <1>6 DEF Inv, Types, ThreadTypes, vars, history
    <3>3. OpTypes'
      BY <1>6 DEF Inv, Types, OpTypes, vars, opVars
    <3> QED
      BY <3>1, <3>2, <3>3 DEF Types
  <2>2. ContextsInv'
    BY <1>6 DEF Inv, ContextsInv, Pointers, Made, HandlesOK, Fresh, Locked, Inside, Keeper, Live, vars, ctxVars,
       opVars
  <2>3. RefsInv'
    BY <1>6 DEF Inv, RefsInv, Shape, RefsExact, Holders, At, vars, ctxVars, history
  <2>4. OpsInv'
    BY <1>6 DEF Inv, OpsInv, PortOK, FreedOps, Owned, OpsExact, OpsOf, Live, vars, ctxVars, opVars
  <2> QED
    BY <2>1, <2>2, <2>3, <2>4 DEF Inv
<1> QED
  BY <1>1, <1>2, <1>3, <1>4, <1>5, <1>6 DEF Next

\* The inductive invariant.
THEOREM Invariance == Spec => []Inv
<1> QED
  BY InvInit, InvNext, PTL DEF Spec

\* Every reference to a SOCK_INFO is counted in RefCount, but for those that
\* SO_UPDATE_ACCEPT_CONTEXT and a WSPCloseSocket that fails lose, and every
\* operation on it in dwOutstandingAsync, once and until it is counted off.
THEOREM CountsStayExact == Spec => []CountsExact
<1>1. Inv => CountsExact
  BY DEF Inv, RefsInv, RefsExact, OpsInv, OpsExact, OpsOf, Counted, CountsExact
<1> QED
  BY <1>1, Invariance, PTL

\* A closing SOCK_INFO is never left unlocked, so that nobody else gets to the
\* second half of CheckForContextCleanup; and the socket below is closed of none
\* but those that are closing and those that have left the list.
THEOREM ClosingStaysLocked == Spec => []ClosingIsLocked
<1>1. Inv => ClosingIsLocked
  BY DEF Inv, ContextsInv, Locked, ClosingIsLocked
<1> QED
  BY <1>1, Invariance, PTL
=============================================================================

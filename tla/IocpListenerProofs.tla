------------------------- MODULE IocpListenerProofs -------------------------
(***************************************************************************)
(* Theorems about IocpListener, for any number of threads and buffers, any *)
(* values of the -o and -oa options and every set of faults.               *)
(***************************************************************************)
EXTENDS IocpListener, FiniteSetTheorems, SequenceTheorems, WellFoundedInduction, TLAPS

USE DEF At, Goto, Hold, MAt, MGoto, CanFail, listVars, kernelVars, repostVars,
        workerVars, loopVars, mainVars, Others, Rest

(* A thread has a buffer in hand at these labels. *)
HandOK ==
  /\ \A w \in Workers : pc[w] \in {"remove", "port", "errFree"} => buf[w] \in Buffers
  /\ mpc \in {"insert", "post", "count"} => mbuf \in Buffers

TypeInv == TypeOK /\ HandOK

LEMMA TypeInit == Init => TypeInv
  BY ListenAssumption DEF Init, TypeInv, TypeOK, HandOK, Ref, WorkerLabels, MainLabels

LEMMA TypeOutside ==
  ASSUME TypeInv, Outside
  PROVE  TypeInv'
<1> USE ListenAssumption DEF TypeInv, TypeOK, HandOK, Ref, WorkerLabels, MainLabels, Signal
<1>1. CASE ConnectQueued
  BY <1>1 DEF ConnectQueued
<1>2. ASSUME NEW b \in Buffers, ConnectAccepted(b)
      PROVE  TypeInv'
  BY <1>2 DEF ConnectAccepted
<1>3. ASSUME NEW b \in Buffers, Data(b) \/ Fails(b)
      PROVE  TypeInv'
  BY <1>3 DEF Data, Fails, Finish
<1>4. ASSUME NEW b \in Buffers, ConnectionOver(b)
      PROVE  TypeInv'
  BY <1>4 DEF ConnectionOver, FreeBufferObj
<1> QED
  BY <1>1, <1>2, <1>3, <1>4 DEF Outside

LEMMA TypeWorker ==
  ASSUME TypeInv, NEW w \in Workers, Worker(w)
  PROVE  TypeInv'
<1> USE ListenAssumption DEF TypeInv, TypeOK, HandOK, Ref, WorkerLabels, MainLabels
<1>1. CASE Remove(w)
  <2>1. PICK k \in Hops : Unlink(buf[w], k)
    BY <1>1 DEF Remove
  <2>2. next[buf[w]] \in Ref
    BY <1>1 DEF Remove
  <2>3. next' \in [Buffers -> Ref] /\ PendingAccepts' \in Ref
    BY <2>1, <2>2 DEF Unlink
  <2> QED
    BY <1>1, <2>3 DEF Remove
<1>2. CASE Spin(w)
  BY <1>2 DEF Spin
<1>3. CASE PortOk(w)
  BY <1>3 DEF PortOk
<1>4. CASE PortFails(w)
  BY <1>4 DEF PortFails
<1>5. CASE NoSocketObj(w)
  BY <1>5 DEF NoSocketObj, FreeBufferObj
<1>6. CASE Repost(w)
  BY <1>6 DEF Repost, AddRepost
<1>7. CASE SetRepost(w)
  BY <1>7 DEF SetRepost
<1>8. CASE ErrFree(w)
  BY <1>8 DEF ErrFree, FreeBufferObj
<1>9. ASSUME NEW b \in Buffers, TakeDone(w, b)
      PROVE  TypeInv'
  BY <1>9 DEF TakeDone, Take, Uncount
<1>10. ASSUME NEW b \in Buffers, TakeFailed(w, b)
       PROVE  TypeInv'
  BY <1>10 DEF TakeFailed, Take
<1> QED
  BY <1>1, <1>2, <1>3, <1>4, <1>5, <1>6, <1>7, <1>8, <1>9, <1>10 DEF Worker, AcceptPath

LEMMA TypeEvents ==
  ASSUME TypeInv, Events
  PROVE  TypeInv'
<1> USE ListenAssumption DEF TypeInv, TypeOK, HandOK, Ref, WorkerLabels, MainLabels, Serve
<1>1. CASE Accepting
  BY <1>1 DEF Accepting, BurstLimit
<1>2. CASE Reposting \/ NotReposting
  BY <1>2 DEF Reposting, NotReposting
<1>3. CASE Exchange
  BY <1>3 DEF Exchange, TakeReposts
<1>4. CASE Reset
  BY <1>4 DEF Reset
<1> QED
  BY <1>1, <1>2, <1>3, <1>4 DEF Events

LEMMA TypePosting ==
  ASSUME TypeInv, Posting
  PROVE  TypeInv'
<1> USE ListenAssumption DEF TypeInv, TypeOK, HandOK, Ref, WorkerLabels, MainLabels
<1>1. CASE Check \/ Enough
  BY <1>1 DEF Check, Enough
<1>2. ASSUME NEW b \in Buffers, Get(b)
      PROVE  TypeInv'
  BY <1>2 DEF Get, GetBufferObj
<1>3. CASE GetFails
  BY <1>3 DEF GetFails
<1>4. CASE Insert
  BY <1>4 DEF Insert, InsertPendingAccept
<1>5. CASE PostOk
  <2>1. AcceptEvent' \in 0 .. 1 /\ armed' \in 0 .. 1
    BY <1>5 DEF PostOk, Signal
  <2>2. backlog' \in Nat
    BY <1>5 DEF PostOk
  <2>3. acc' \in [Buffers -> {"none", "posted", "connected", "done", "failed"}]
    BY <1>5 DEF PostOk
  <2> QED
    BY <1>5, <2>1, <2>2, <2>3 DEF PostOk
<1>6. CASE PostFails
  BY <1>6 DEF PostFails, Signal
<1>7. CASE PostTwice
  BY <1>7 DEF PostTwice
<1>8. CASE Count
  BY <1>8 DEF Count
<1> QED
  BY <1>1, <1>2, <1>3, <1>4, <1>5, <1>6, <1>7, <1>8 DEF Posting

LEMMA TypeSweeping ==
  ASSUME TypeInv, Timeout \/ Sweeping
  PROVE  TypeInv'
<1> USE ListenAssumption DEF TypeInv, TypeOK, HandOK, Ref, WorkerLabels, MainLabels
<1>1. CASE Timeout
  BY <1>1 DEF Timeout
<1>2. CASE SweepEnter
  BY <1>2 DEF SweepEnter
<1>3. CASE SweepKeep
  BY <1>3 DEF SweepKeep
<1>4. CASE SweepClose
  BY <1>4 DEF SweepClose
<1>5. CASE SweepLeave
  BY <1>5 DEF SweepLeave
<1> QED
  BY <1>1, <1>2, <1>3, <1>4, <1>5 DEF Sweeping

LEMMA TypeStep == TypeInv /\ [Next]_vars => TypeInv'
<1> SUFFICES ASSUME TypeInv, [Next]_vars PROVE TypeInv'
  OBVIOUS
<1>1. CASE UNCHANGED vars
  BY <1>1 DEF vars, TypeInv, TypeOK, HandOK
<1> QED
  BY <1>1, TypeOutside, TypeWorker, TypeEvents, TypePosting, TypeSweeping
  DEF Next, MainThread

LEMMA TypeAlways == Spec => []TypeInv
<1> QED
  BY TypeInit, TypeStep, PTL DEF Spec

\* Every variable of the listener keeps its type, whatever fails.
THEOREM TypeCorrect == Spec => []TypeOK
<1>1. TypeInv => TypeOK
  BY DEF TypeInv
<1> QED
  BY <1>1, TypeAlways, PTL
-----------------------------------------------------------------------------
(* How a step changes the set of outstanding accepts, the counter that is  *)
(* meant to follow it and the history of errors.                           *)

Same == Outstanding' = Outstanding /\ acceptErrors' = acceptErrors
Added == /\ \E b \in Buffers \ Outstanding : Outstanding' = Outstanding \cup {b}
         /\ acceptErrors' = acceptErrors
Removed == \E b \in Outstanding : Outstanding' = Outstanding \ {b}

LEMMA OutsideMoves ==
  ASSUME TypeInv, Outside
  PROVE  Same /\ PendingAcceptCount' = PendingAcceptCount /\ UNCHANGED <<mpc, loopVars>>
<1> USE DEF TypeInv, TypeOK, Same, Outstanding
<1>1. CASE ConnectQueued
  BY <1>1 DEF ConnectQueued
<1>2. ASSUME NEW b \in Buffers, ConnectAccepted(b) \/ Data(b) \/ Fails(b)
      PROVE  Same /\ PendingAcceptCount' = PendingAcceptCount /\ UNCHANGED <<mpc, loopVars>>
  BY <1>2 DEF ConnectAccepted, Data, Fails, Finish
<1>3. ASSUME NEW b \in Buffers, ConnectionOver(b)
      PROVE  Same /\ PendingAcceptCount' = PendingAcceptCount /\ UNCHANGED <<mpc, loopVars>>
  BY <1>3 DEF ConnectionOver
<1> QED
  BY <1>1, <1>2, <1>3 DEF Outside

LEMMA WorkerMoves ==
  ASSUME TypeInv, NEW w \in Workers, Worker(w)
  PROVE  /\ UNCHANGED <<mpc, loopVars>>
         /\ \/ Same /\ PendingAcceptCount' = PendingAcceptCount
            \/ Removed /\ acceptErrors' = acceptErrors
               /\ PendingAcceptCount' = PendingAcceptCount - 1
            \/ Removed /\ acceptErrors' = acceptErrors + 1
               /\ PendingAcceptCount' = PendingAcceptCount
<1> USE DEF TypeInv, TypeOK, Same, Removed, Outstanding
<1>1. CASE AcceptPath(w)
  BY <1>1 DEF AcceptPath, Remove, Spin, PortOk, PortFails, NoSocketObj, Repost, SetRepost,
              ErrFree
<1>2. ASSUME NEW b \in Buffers, TakeDone(w, b)
      PROVE  /\ UNCHANGED <<mpc, loopVars>> /\ Removed /\ acceptErrors' = acceptErrors
             /\ PendingAcceptCount' = PendingAcceptCount - 1
  BY <1>2 DEF TakeDone, Take, Uncount
<1>3. ASSUME NEW b \in Buffers, TakeFailed(w, b)
      PROVE  /\ UNCHANGED <<mpc, loopVars>> /\ Removed /\ acceptErrors' = acceptErrors + 1
             /\ PendingAcceptCount' = PendingAcceptCount
  BY <1>3 DEF TakeFailed, Take
<1> QED
  BY <1>1, <1>2, <1>3 DEF Worker

LEMMA MainMoves ==
  ASSUME TypeInv, MainThread \/ Timeout, ~PostOk, ~Count
  PROVE  /\ Same /\ PendingAcceptCount' = PendingAcceptCount
         /\ mpc # "count" /\ mpc' # "count"
<1> USE DEF TypeInv, TypeOK, Same, Outstanding
<1>1. CASE Events
  BY <1>1 DEF Events, Accepting, Reposting, NotReposting, Exchange, Reset, Serve
<1>2. CASE Posting
  BY <1>2 DEF Posting, Check, Enough, Get, GetFails, Insert, PostFails, PostTwice
<1>3. CASE Sweeping \/ Timeout
  BY <1>3 DEF Sweeping, Timeout, SweepEnter, SweepKeep, SweepClose, SweepLeave
<1> QED
  BY <1>1, <1>2, <1>3 DEF MainThread

LEMMA PostMoves ==
  ASSUME TypeInv, PostOk
  PROVE  /\ Added /\ PendingAcceptCount' = PendingAcceptCount
         /\ mpc = "post" /\ mpc' = "count" /\ UNCHANGED loopVars
BY DEF TypeInv, TypeOK, HandOK, Added, Outstanding, PostOk

LEMMA CountMoves ==
  ASSUME TypeInv, Count
  PROVE  /\ Same /\ PendingAcceptCount' = PendingAcceptCount + 1
         /\ mpc = "count" /\ mpc' = "check" /\ UNCHANGED loopVars
BY DEF TypeInv, TypeOK, Same, Outstanding, Count

LEMMA OutstandingSize ==
  ASSUME TypeInv, TypeInv'
  PROVE  /\ IsFiniteSet(Outstanding) /\ Cardinality(Outstanding) \in Nat
         /\ Cardinality(Outstanding') \in Nat
         /\ Added => Cardinality(Outstanding') = Cardinality(Outstanding) + 1
         /\ Removed => Cardinality(Outstanding') = Cardinality(Outstanding) - 1
<1>1. IsFiniteSet(Outstanding)
  BY ListenAssumption, FS_Subset DEF Outstanding
<1>2. Cardinality(Outstanding) \in Nat
  BY <1>1, FS_CardinalityType
<1>3. IsFiniteSet(Outstanding')
  BY ListenAssumption, FS_Subset DEF Outstanding
<1>4. Cardinality(Outstanding') \in Nat
  BY <1>3, FS_CardinalityType
<1>5. ASSUME NEW b \in Buffers \ Outstanding, Outstanding' = Outstanding \cup {b}
      PROVE  Cardinality(Outstanding') = Cardinality(Outstanding) + 1
  BY <1>1, <1>5, FS_AddElement
<1>6. ASSUME NEW b \in Outstanding, Outstanding' = Outstanding \ {b}
      PROVE  Cardinality(Outstanding') = Cardinality(Outstanding) - 1
  BY <1>1, <1>6, FS_RemoveElement
<1> QED
  BY <1>1, <1>2, <1>5, <1>6, <1>4 DEF Added, Removed

BalanceInv == TypeInv /\ CountBalance

LEMMA BalanceInit == Init => BalanceInv
<1> SUFFICES ASSUME Init PROVE CountBalance
  BY TypeInit DEF BalanceInv
<1>1. Outstanding = {}
  BY DEF Init, Outstanding
<1> QED
  BY <1>1, FS_EmptySet DEF Init, CountBalance

LEMMA BalanceStep == BalanceInv /\ [Next]_vars => BalanceInv'
<1> SUFFICES ASSUME BalanceInv, [Next]_vars PROVE BalanceInv'
  OBVIOUS
<1> DEFINE n == Cardinality(Outstanding)
           n1 == Cardinality(Outstanding')
<1>1. TypeInv /\ TypeInv'
  BY TypeStep DEF BalanceInv
<1>2. n \in Nat /\ PendingAcceptCount \in Int /\ acceptErrors \in Nat
      /\ (Added => n1 = n + 1) /\ (Removed => n1 = n - 1)
  BY <1>1, OutstandingSize DEF TypeInv, TypeOK
<1>3. Same => n1 = n
  BY DEF Same
<1>4. PendingAcceptCount + (IF mpc = "count" THEN 1 ELSE 0) = n + acceptErrors
  BY DEF BalanceInv, CountBalance
<1>5. SUFFICES PendingAcceptCount' + (IF mpc' = "count" THEN 1 ELSE 0) = n1 + acceptErrors'
  BY <1>1 DEF BalanceInv, CountBalance
<1> HIDE DEF n, n1
<1>6. CASE UNCHANGED vars
  <2>1. Same /\ UNCHANGED <<mpc, PendingAcceptCount>>
    BY <1>6 DEF vars, Same, Outstanding
  <2> QED
    BY <2>1, <1>3, <1>4 DEF Same
<1>7. CASE Outside
  BY <1>1, <1>2, <1>3, <1>4, <1>7, OutsideMoves DEF Same
<1>8. ASSUME NEW w \in Workers, Worker(w)
      PROVE  PendingAcceptCount' + (IF mpc' = "count" THEN 1 ELSE 0) = n1 + acceptErrors'
  BY <1>1, <1>2, <1>3, <1>4, <1>8, WorkerMoves DEF Same
<1>9. CASE PostOk
  BY <1>1, <1>2, <1>4, <1>9, PostMoves DEF Added
<1>10. CASE Count
  BY <1>1, <1>2, <1>3, <1>4, <1>10, CountMoves DEF Same
<1>11. CASE (MainThread \/ Timeout) /\ ~PostOk /\ ~Count
  BY <1>1, <1>2, <1>3, <1>4, <1>11, MainMoves DEF Same
<1> QED
  BY <1>6, <1>7, <1>8, <1>9, <1>10, <1>11 DEF Next

LEMMA BalanceAlways == Spec => []BalanceInv
<1> QED
  BY BalanceInit, BalanceStep, PTL DEF Spec

\* PendingAcceptCount drifts from the truth by the number of failed accepts,
\* and by nothing else.
THEOREM CountBalanced == Spec => []CountBalance
<1>1. BalanceInv => CountBalance
  BY DEF BalanceInv
<1> QED
  BY <1>1, BalanceAlways, PTL
-----------------------------------------------------------------------------
(* The limit of the outstanding accepts.  An accept the loop has decided   *)
(* on counts from the decision; while startup posts, the loop's counter    *)
(* bounds them, afterwards the test of PendingAcceptCount does, which is   *)
(* never below their number when the main thread looks (CountBalance).     *)

Decided == {"get", "insert", "post"}
InLoop == {"check", "get", "insert", "post", "count"}
Load == Cardinality(Outstanding) + acceptErrors + (IF mpc \in Decided THEN 1 ELSE 0)
Limit == IF gInitialAccepts > gMaxAccepts THEN gInitialAccepts ELSE gMaxAccepts

LimitInv ==
  /\ BalanceInv
  /\ Load <= Limit
  /\ serving = "init" /\ mpc \in InLoop => Load <= i /\ i <= limit /\ limit = gInitialAccepts

LEMMA LimitInit == Init => LimitInv
<1> SUFFICES ASSUME Init PROVE LimitInv
  OBVIOUS
<1>1. Outstanding = {}
  BY DEF Init, Outstanding
<1>2. Load = 0
  BY <1>1, FS_EmptySet DEF Init, Load, Decided
<1> QED
  BY <1>2, BalanceInit, ListenAssumption DEF Init, LimitInv, Limit

LEMMA LimitStep == LimitInv /\ [Next]_vars => LimitInv'
<1> SUFFICES ASSUME LimitInv, [Next]_vars PROVE LimitInv'
  OBVIOUS
<1>1. TypeInv /\ TypeInv' /\ BalanceInv /\ BalanceInv'
  BY BalanceStep DEF LimitInv, BalanceInv
<1>2. PICK n \in Nat : n = Cardinality(Outstanding) + acceptErrors
  BY <1>1, OutstandingSize DEF TypeInv, TypeOK
<1>3. PICK n1 \in Nat : n1 = Cardinality(Outstanding') + acceptErrors'
  BY <1>1, OutstandingSize DEF TypeInv, TypeOK
<1>4. /\ Added => n1 = n + 1
      /\ Removed /\ acceptErrors' = acceptErrors => n1 = n - 1
      /\ Removed /\ acceptErrors' = acceptErrors + 1 => n1 = n
      /\ Same => n1 = n
  BY <1>1, <1>2, <1>3, OutstandingSize DEF Same, Added, TypeInv, TypeOK
<1>5. /\ Load = n + (IF mpc \in Decided THEN 1 ELSE 0)
      /\ Load' = n1 + (IF mpc' \in Decided THEN 1 ELSE 0)
  BY <1>2, <1>3 DEF Load
<1>6. /\ Load <= Limit
      /\ serving = "init" /\ mpc \in InLoop
         => Load <= i /\ i <= limit /\ limit = gInitialAccepts
  BY DEF LimitInv
<1>7. /\ i \in Nat /\ limit \in Nat /\ Limit \in Nat
      /\ gInitialAccepts <= Limit /\ gMaxAccepts <= Limit
  BY <1>1, ListenAssumption DEF Limit, TypeInv, TypeOK
<1> DEFINE Loop == /\ Load' <= Limit
                   /\ serving' = "init" /\ mpc' \in InLoop
                      => Load' <= i' /\ i' <= limit' /\ limit' = gInitialAccepts
<1>8. SUFFICES Loop
  BY <1>1 DEF LimitInv
<1>9. ASSUME UNCHANGED <<mpc, loopVars>>, n1 <= n
      PROVE  Loop
  BY <1>5, <1>6, <1>7, <1>9
<1>10. CASE UNCHANGED vars
  <2>1. Same /\ UNCHANGED <<mpc, loopVars>>
    BY <1>10 DEF vars, Same, Outstanding
  <2> QED
    BY <2>1, <1>4, <1>9
<1>11. CASE Outside
  BY <1>1, <1>4, <1>9, <1>11, OutsideMoves
<1>12. ASSUME NEW w \in Workers, Worker(w)
       PROVE  Loop
  <2>1. n1 <= n
    BY <1>1, <1>4, <1>12, WorkerMoves DEF Same
  <2> QED
    BY <2>1, <1>1, <1>9, <1>12, WorkerMoves
<1>13. CASE PostOk
  BY <1>1, <1>4, <1>5, <1>6, <1>7, <1>13, PostMoves DEF Decided, InLoop
<1>14. CASE Count
  BY <1>1, <1>4, <1>5, <1>6, <1>7, <1>14, CountMoves DEF Decided, InLoop
<1>15. CASE (MainThread \/ Timeout) /\ ~PostOk /\ ~Count
  <2>1. n1 = n
    BY <1>1, <1>4, <1>15, MainMoves
  <2> USE <1>5, <1>6, <1>7, <2>1 DEF Decided, InLoop
  <2>2. CASE Check
    <3>1. PendingAcceptCount = n
      BY <1>1, <1>2, <2>2 DEF BalanceInv, CountBalance, TypeInv, TypeOK, Check
    <3> QED
      BY <2>2, <3>1, ListenAssumption DEF Check, More, BelowMax
  <2>3. CASE Enough \/ GetFails \/ Insert \/ PostFails \/ PostTwice
    BY <2>3 DEF Enough, GetFails, Insert, PostFails, PostTwice
  <2>4. ASSUME NEW b \in Buffers, Get(b)
        PROVE  Loop
    BY <2>4 DEF Get
  <2>5. CASE Events
    BY <2>5 DEF Events, Accepting, Reposting, NotReposting, Exchange, Reset, Serve
  <2>6. CASE Sweeping \/ Timeout
    BY <2>6 DEF Sweeping, Timeout, SweepEnter, SweepKeep, SweepClose, SweepLeave
  <2> QED
    BY <1>15, <2>2, <2>3, <2>4, <2>5, <2>6 DEF MainThread, Posting
<1> QED
  BY <1>10, <1>11, <1>12, <1>13, <1>14, <1>15 DEF Next

\* The server never has more AcceptEx operations outstanding than -oa, or
\* than startup posted if -o is larger.
THEOREM AcceptsLimited == Spec => []AcceptLimit
<1>1. LimitInv => AcceptLimit
  <2> SUFFICES ASSUME LimitInv PROVE AcceptLimit
    OBVIOUS
  <2>1. Cardinality(Outstanding) \in Nat /\ acceptErrors \in Nat /\ Limit \in Nat
    BY FS_CardinalityType, FS_Subset, ListenAssumption
    DEF LimitInv, BalanceInv, TypeInv, TypeOK, Outstanding, Limit
  <2>2. Cardinality(Outstanding) <= Limit
    BY <2>1 DEF LimitInv, Load
  <2> QED
    BY <2>2 DEF AcceptLimit, Limit
<1> QED
  BY <1>1, LimitInit, LimitStep, PTL DEF Spec
-----------------------------------------------------------------------------
(* The linked lists.  Induction over the numbers is stated for a set of    *)
(* them, and what Nth computes is proved from it.                          *)

LEMMA SmallestOf ==
  ASSUME NEW T, T \subseteq Nat, T # {}
  PROVE  \E n \in T : \A m \in T : n <= m
<1> DEFINE Less == OpToRel(<, Nat)
<1>1. \E n \in T : \A m \in T : ~ (<<m, n>> \in Less)
  BY NatLessThanWellFounded, WFMin
<1>2. \A m, n \in Nat : m < n => <<m, n>> \in Less
  BY DEF OpToRel
<1> HIDE DEF Less
<1>3. PICK n \in T : \A m \in T : ~ (<<m, n>> \in Less)
  BY <1>1
<1>4. ASSUME NEW m \in T
      PROVE  n <= m
  <2>1. n \in Nat /\ m \in Nat
    OBVIOUS
  <2>2. ~ (m < n)
    BY <1>2, <1>3, <2>1, Zenon
  <2> QED
    BY <2>1, <2>2
<1> QED
  BY <1>4

LEMMA InductionOver ==
  ASSUME NEW S, 0 \in S, \A n \in Nat : n \in S => n + 1 \in S
  PROVE  \A n \in Nat : n \in S
<1> SUFFICES ASSUME Nat \ S # {}  PROVE FALSE
  OBVIOUS
<1>1. PICK n \in Nat \ S : \A m \in Nat \ S : n <= m
  <2> DEFINE T == Nat \ S
  <2>1. T \subseteq Nat /\ T # {}
    OBVIOUS
  <2> HIDE DEF T
  <2>2. \E n \in T : \A m \in T : n <= m
    BY <2>1, SmallestOf
  <2> QED
    BY <2>2 DEF T
<1>2. n # 0 /\ n - 1 \in Nat /\ n = (n - 1) + 1 /\ ~(n <= n - 1)
  BY <1>1
<1> QED
  BY <1>1, <1>2

\* What follows x in the list.
Following(nx, x) == IF x = NULL THEN NULL ELSE nx[x]
\* Nth, of any links.
Steps(nx, h) ==
  LET hop[k \in Nat] == IF k = 0 THEN h
                        ELSE IF hop[k-1] = NULL THEN NULL ELSE nx[hop[k-1]]
  IN hop

LEMMA NthIsSteps ==
  ASSUME NEW h
  PROVE  Nth(h) = Steps(next, h)
BY DEF Nth, Steps

LEMMA StepsRecursion ==
  ASSUME NEW nx \in [Buffers -> Ref], NEW h \in Ref
  PROVE  /\ Steps(nx, h)[0] = h
         /\ \A k \in Nat : Steps(nx, h)[k + 1] = Following(nx, Steps(nx, h)[k])
<1> DEFINE Prefix(n, f) == /\ f \in [0 .. n -> Ref] /\ f[0] = h
                           /\ \A k \in 0 .. n - 1 : f[k + 1] = Following(nx, f[k])
<1>0. \A x \in Ref : Following(nx, x) \in Ref
  BY DEF Following, Ref
<1>1. \A n \in Nat : \E f : Prefix(n, f)
  <2> DEFINE S == {n \in Nat : \E f : Prefix(n, f)}
  <2>1. 0 \in S
    <3>1. Prefix(0, [k \in 0 .. 0 |-> h])
      OBVIOUS
    <3> QED
      BY <3>1
  <2>2. ASSUME NEW n \in Nat, n \in S  PROVE n + 1 \in S
    <3>1. PICK f : Prefix(n, f)
      BY <2>2
    <3> DEFINE g == [k \in 0 .. n + 1 |-> IF k = n + 1 THEN Following(nx, f[n]) ELSE f[k]]
    <3>2. f[n] \in Ref
      BY <3>1
    <3>3. \A k \in 0 .. n : g[k] = f[k] /\ f[k] \in Ref
      BY <3>1
    <3>4. g[n + 1] = Following(nx, f[n])
      OBVIOUS
    <3>5. g \in [0 .. n + 1 -> Ref]
      BY <1>0, <3>1, <3>2
    <3> HIDE DEF g
    <3>6. ASSUME NEW k \in 0 .. n  PROVE g[k + 1] = Following(nx, g[k])
      <4>1. CASE k = n
        BY <3>3, <3>4, <4>1
      <4>2. CASE k # n
        <5>1. k \in 0 .. n - 1 /\ k + 1 \in 0 .. n
          BY <4>2
        <5> QED
          BY <3>1, <3>3, <5>1
      <4> QED
        BY <4>1, <4>2
    <3>7. (n + 1) - 1 = n /\ g[0] = h
      BY <3>1, <3>3
    <3>8. Prefix(n + 1, g)
      BY <3>5, <3>6, <3>7
    <3> QED
      BY <3>8
  <2> HIDE DEF S
  <2>3. \A n \in Nat : n \in S
    BY <2>1, <2>2, InductionOver
  <2> QED
    BY <2>3 DEF S
<1>2. \A k \in Nat : \A m, n \in Nat : \A f, g :
        k <= m /\ k <= n /\ Prefix(m, f) /\ Prefix(n, g) => f[k] = g[k]
  <2> DEFINE S == {k \in Nat : \A m, n \in Nat : \A f, g :
                     k <= m /\ k <= n /\ Prefix(m, f) /\ Prefix(n, g) => f[k] = g[k]}
  <2>1. 0 \in S
    OBVIOUS
  <2>2. ASSUME NEW k \in Nat, k \in S  PROVE k + 1 \in S
    <3> HIDE DEF Prefix
    <3> SUFFICES ASSUME NEW m \in Nat, NEW n \in Nat, NEW f, NEW g, k + 1 <= m, k + 1 <= n,
                        Prefix(m, f), Prefix(n, g)
                 PROVE  f[k + 1] = g[k + 1]
      OBVIOUS
    <3>1. k <= m /\ k <= n /\ k \in 0 .. m - 1 /\ k \in 0 .. n - 1
      OBVIOUS
    <3>2. f[k] = g[k]
      BY <2>2, <3>1
    <3> QED
      BY <3>1, <3>2 DEF Prefix
  <2> HIDE DEF S
  <2>3. \A k \in Nat : k \in S
    BY <2>1, <2>2, InductionOver
  <2> QED
    BY <2>3 DEF S
<1> DEFINE P(n) == CHOOSE f : Prefix(n, f)
           F == [k \in Nat |-> P(k)[k]]
<1>3. \A n \in Nat : Prefix(n, P(n))
  BY <1>1
<1>4. F[0] = h
  BY <1>3
<1>5. ASSUME NEW k \in Nat  PROVE F[k + 1] = Following(nx, F[k])
  <2>1. Prefix(k, P(k)) /\ Prefix(k + 1, P(k + 1)) /\ k + 1 \in Nat
    <3>1. k + 1 \in Nat
      OBVIOUS
    <3> HIDE DEF Prefix, P
    <3> QED
      BY <1>3, <3>1
  <2>2. P(k + 1)[k] = P(k)[k]
    <3> HIDE DEF Prefix, P
    <3>1. k <= k /\ k <= k + 1
      OBVIOUS
    <3> QED
      BY <1>2, <2>1, <3>1
  <2>3. k \in 0 .. (k + 1) - 1
    OBVIOUS
  <2>4. P(k + 1)[k + 1] = Following(nx, P(k + 1)[k])
    BY <2>1, <2>3
  <2> HIDE DEF Prefix, P
  <2> QED
    BY <2>1, <2>2, <2>4
<1>10. F = [k \in Nat |-> F[k]]
  OBVIOUS
<1> HIDE DEF F
<1>6. F = [k \in Nat |-> IF k = 0 THEN h ELSE IF F[k-1] = NULL THEN NULL ELSE nx[F[k-1]]]
  <2>1. ASSUME NEW k \in Nat
        PROVE  F[k] = IF k = 0 THEN h ELSE IF F[k-1] = NULL THEN NULL ELSE nx[F[k-1]]
    <3>1. CASE k = 0
      BY <1>4, <3>1
    <3>2. CASE k # 0
      <4>1. k - 1 \in Nat /\ (k - 1) + 1 = k
        BY <3>2
      <4> QED
        BY <1>5, <3>2, <4>1 DEF Following
    <3> QED
      BY <3>1, <3>2
  <2> QED
    BY <1>10, <2>1
<1> DEFINE G == Steps(nx, h)
<1>7. G = [k \in Nat |-> IF k = 0 THEN h ELSE IF G[k-1] = NULL THEN NULL ELSE nx[G[k-1]]]
  BY <1>6 DEF Steps
<1> HIDE DEF G
<1>8. G[0] = h
  BY <1>7
<1>9. ASSUME NEW k \in Nat  PROVE G[k + 1] = Following(nx, G[k])
  <2>1. k + 1 \in Nat /\ k + 1 # 0 /\ (k + 1) - 1 = k
    OBVIOUS
  <2> QED
    BY <1>7, <2>1 DEF Following
<1> QED
  BY <1>8, <1>9 DEF G

\* p lists the objects from h on, to the last.
Place(p, n) == IF n \in 1 .. Len(p) THEN p[n] ELSE NULL
Members(p) == {p[n] : n \in 1 .. Len(p)}
IsList(nx, h, p) ==
  /\ p \in Seq(Buffers) /\ h = Place(p, 1)
  /\ \A m, n \in 1 .. Len(p) : p[m] = p[n] => m = n
  /\ \A n \in 1 .. Len(p) : nx[p[n]] = Place(p, n + 1)

LEMMA ListSteps ==
  ASSUME NEW nx \in [Buffers -> Ref], NEW h \in Ref, NEW p, IsList(nx, h, p)
  PROVE  \A k \in Nat : Steps(nx, h)[k] = Place(p, k + 1)
<1> DEFINE S == {k \in Nat : Steps(nx, h)[k] = Place(p, k + 1)}
<1>0. p \in Seq(Buffers) /\ Len(p) \in Nat /\ \A n \in 1 .. Len(p) : p[n] \in Buffers
  BY DEF IsList
<1>1. 0 \in S
  BY StepsRecursion DEF IsList
<1>2. ASSUME NEW k \in Nat, k \in S  PROVE k + 1 \in S
  <2>1. /\ Steps(nx, h)[k] = Place(p, k + 1)
        /\ Steps(nx, h)[k + 1] = Following(nx, Steps(nx, h)[k])
    BY <1>2, StepsRecursion
  <2>2. Following(nx, Place(p, k + 1)) = Place(p, (k + 1) + 1)
    <3>1. CASE k + 1 \in 1 .. Len(p)
      <4>1. p[k + 1] # NULL
        BY <1>0, <3>1, ListenAssumption
      <4> QED
        BY <3>1, <4>1 DEF IsList, Following, Place
    <3>2. CASE k + 1 \notin 1 .. Len(p)
      <4>1. (k + 1) + 1 \notin 1 .. Len(p)
        BY <1>0, <3>2
      <4> QED
        BY <3>2, <4>1 DEF Following, Place
    <3> QED
      BY <3>1, <3>2
  <2> QED
    BY <2>1, <2>2
<1> HIDE DEF S
<1>3. \A k \in Nat : k \in S
  BY <1>1, <1>2, InductionOver
<1> QED
  BY <1>3 DEF S

\* A list is no longer than there are buffers, so the walk sees all of it.
LEMMA ListLength ==
  ASSUME NEW nx, NEW h, NEW p, IsList(nx, h, p)
  PROVE  Len(p) \in Nat /\ Cardinality(Buffers) \in Nat /\ Len(p) <= Cardinality(Buffers)
<1>1. Len(p) \in Nat /\ p \in [1 .. Len(p) -> Buffers]
  BY DEF IsList
<1>2. IsFiniteSet(Buffers) /\ Cardinality(Buffers) \in Nat
  BY ListenAssumption, FS_CardinalityType
<1>3. p \in Injection(1 .. Len(p), Buffers)
  BY <1>1 DEF IsList, Injection, IsInjective
<1>4. Cardinality(1 .. Len(p)) <= Cardinality(Buffers)
  BY <1>2, <1>3, FS_Injection
<1>5. Cardinality(1 .. Len(p)) = Len(p)
  BY <1>1, FS_Interval
<1> QED
  BY <1>1, <1>2, <1>4, <1>5

LEMMA ListWalk ==
  ASSUME NEW nx \in [Buffers -> Ref], NEW h \in Ref, NEW p, IsList(nx, h, p)
  PROVE  /\ {Steps(nx, h)[k] : k \in Hops} \ {NULL} = Members(p)
         /\ Steps(nx, h)[Cardinality(Buffers)] = NULL
<1>1. /\ Len(p) \in Nat /\ Cardinality(Buffers) \in Nat /\ Len(p) <= Cardinality(Buffers)
      /\ \A n \in 1 .. Len(p) : p[n] \in Buffers /\ p[n] # NULL
  BY ListLength, ListenAssumption DEF IsList
<1>2. \A k \in Nat : Steps(nx, h)[k] = Place(p, k + 1)
  BY ListSteps
<1>3. Steps(nx, h)[Cardinality(Buffers)] = NULL
  <2>1. Cardinality(Buffers) + 1 \notin 1 .. Len(p)
    BY <1>1
  <2> QED
    BY <1>1, <1>2, <2>1 DEF Place
<1>4. ASSUME NEW b \in {Steps(nx, h)[k] : k \in Hops} \ {NULL}
      PROVE  b \in Members(p)
  <2>1. PICK k \in Hops : b = Steps(nx, h)[k] /\ b # NULL
    BY <1>4
  <2>2. k \in Nat /\ b = Place(p, k + 1)
    BY <1>1, <1>2, <2>1 DEF Hops
  <2> QED
    BY <2>1, <2>2 DEF Place, Members
<1>5. ASSUME NEW n \in 1 .. Len(p)
      PROVE  p[n] \in {Steps(nx, h)[k] : k \in Hops} \ {NULL}
  <2>1. n - 1 \in Hops /\ n - 1 \in Nat /\ (n - 1) + 1 = n
    BY <1>1 DEF Hops
  <2>2. Steps(nx, h)[n - 1] = p[n]
    BY <1>2, <2>1 DEF Place
  <2> QED
    BY <1>1, <2>1, <2>2
<1> QED
  BY <1>3, <1>4, <1>5 DEF Members

(* What the operations on a list do to it. *)

LEMMA MembersOf ==
  ASSUME NEW p \in Seq(Buffers)
  PROVE  /\ Members(p) \subseteq Buffers
         /\ \A n \in 1 .. Len(p) : p[n] \in Members(p)
         /\ \A b \in Members(p) : \E n \in 1 .. Len(p) : b = p[n]
BY DEF Members

\* Links that do not belong to it are not its business.
LEMMA OtherLinks ==
  ASSUME NEW nx, NEW ny, NEW h, NEW p, IsList(nx, h, p),
         \A b \in Members(p) : ny[b] = nx[b]
  PROVE  IsList(ny, h, p)
BY DEF IsList, Members

LEMMA Pushed ==
  ASSUME NEW nx, NEW h, NEW p, IsList(nx, h, p), NEW b \in Buffers, b \notin Members(p),
         NEW ny, \A c \in Buffers : ny[c] = IF c = b THEN h ELSE nx[c]
  PROVE  \E r : IsList(ny, b, r) /\ Members(r) = Members(p) \cup {b}
<1> DEFINE r == [n \in 1 .. Len(p) + 1 |-> IF n = 1 THEN b ELSE p[n - 1]]
<1>1. /\ p \in Seq(Buffers) /\ Len(p) \in Nat /\ \A n \in 1 .. Len(p) : p[n] \in Buffers
      /\ h = Place(p, 1)
  BY DEF IsList
<1>2. r \in Seq(Buffers) /\ Len(r) = Len(p) + 1
  BY <1>1
<1>3. /\ r[1] = b /\ \A n \in 1 .. Len(p) : r[n + 1] = p[n] /\ n + 1 \in 1 .. Len(r)
      /\ \A n \in 1 .. Len(r) : n = 1 \/ (n - 1 \in 1 .. Len(p) /\ r[n] = p[n - 1])
  BY <1>1, <1>2
<1>4. /\ ny[b] = h /\ \A n \in 1 .. Len(p) : p[n] # b /\ ny[p[n]] = nx[p[n]]
  BY <1>1 DEF Members
<1> HIDE DEF r
<1>5. Members(r) = Members(p) \cup {b}
  <2>1. ASSUME NEW c \in Members(r)  PROVE c \in Members(p) \cup {b}
    BY <1>3, <2>1 DEF Members
  <2>2. ASSUME NEW c \in Members(p) \cup {b}  PROVE c \in Members(r)
    <3>1. 1 \in 1 .. Len(r)
      BY <1>1, <1>2
    <3> QED
      BY <1>3, <2>2, <3>1 DEF Members
  <2> QED
    BY <2>1, <2>2
<1>6. b = Place(r, 1)
  BY <1>1, <1>2, <1>3 DEF Place
<1>7. ASSUME NEW m \in 1 .. Len(r), NEW n \in 1 .. Len(r), r[m] = r[n]  PROVE m = n
  <2>1. \A i_, j_ \in 1 .. Len(p) : p[i_] = p[j_] => i_ = j_
    BY DEF IsList
  <2>2. /\ m = 1 \/ (m - 1 \in 1 .. Len(p) /\ r[m] = p[m - 1] /\ p[m - 1] # b)
        /\ n = 1 \/ (n - 1 \in 1 .. Len(p) /\ r[n] = p[n - 1] /\ p[n - 1] # b)
        /\ m \in Int /\ n \in Int /\ r[1] = b
    BY <1>3, <1>4
  <2>3. CASE m = 1 \/ n = 1
    BY <1>7, <2>2, <2>3
  <2>4. CASE m # 1 /\ n # 1
    <3>1. m - 1 = n - 1
      BY <1>7, <2>1, <2>2, <2>4
    <3> QED
      BY <2>2, <3>1
  <2> QED
    BY <2>3, <2>4
<1>8. ASSUME NEW n \in 1 .. Len(r)  PROVE ny[r[n]] = Place(r, n + 1)
  <2>1. CASE n = 1
    <3>1. Place(r, 2) = Place(p, 1)
      BY <1>1, <1>2, <1>3 DEF Place
    <3> QED
      BY <1>1, <1>3, <1>4, <2>1, <3>1
  <2>2. CASE n # 1
    <3>1. n - 1 \in 1 .. Len(p) /\ r[n] = p[n - 1] /\ (n - 1) + 1 = n
      BY <1>3, <2>2
    <3>2. ny[r[n]] = Place(p, n)
      BY <1>4, <3>1 DEF IsList
    <3>3. Place(r, n + 1) = Place(p, n)
      BY <1>1, <1>2, <1>3, <3>1 DEF Place
    <3> QED
      BY <3>2, <3>3
  <2> QED
    BY <2>1, <2>2
<1>9. IsList(ny, b, r)
  BY <1>2, <1>6, <1>7, <1>8 DEF IsList
<1> QED
  BY <1>5, <1>9

LEMMA Unlinked ==
  ASSUME NEW nx, NEW h, NEW p, IsList(nx, h, p), NEW m \in 1 .. Len(p),
         NEW g, g = IF m = 1 THEN nx[p[m]] ELSE h,
         NEW ny, \A c \in Buffers : ny[c] = IF m # 1 /\ c = p[m - 1] THEN nx[p[m]] ELSE nx[c]
  PROVE  /\ \E r : IsList(ny, g, r) /\ Members(r) = Members(p) \ {p[m]}
         /\ \A b \in Buffers \ Members(p) : ny[b] = nx[b]
<1> DEFINE r == [n \in 1 .. Len(p) - 1 |-> IF n < m THEN p[n] ELSE p[n + 1]]
<1>1. /\ p \in Seq(Buffers) /\ Len(p) \in Nat \ {0} /\ \A n \in 1 .. Len(p) : p[n] \in Buffers
      /\ h = Place(p, 1) /\ m \in Int
  BY DEF IsList
<1>2. \A k, n \in 1 .. Len(p) : p[k] = p[n] => k = n
  BY DEF IsList
<1>3. \A n \in 1 .. Len(p) : nx[p[n]] = Place(p, n + 1)
  BY DEF IsList
<1>4. r \in Seq(Buffers) /\ Len(r) = Len(p) - 1
  <2>1. \A n \in 1 .. Len(p) - 1 : n \in 1 .. Len(p) /\ n + 1 \in 1 .. Len(p)
    BY <1>1
  <2>2. r \in [1 .. Len(p) - 1 -> Buffers]
    BY <1>1, <2>1
  <2>3. Len(p) - 1 \in Nat
    BY <1>1
  <2> DEFINE k == Len(p) - 1
  <2> HIDE DEF r, k
  <2>4. k \in Nat /\ r \in [1 .. k -> Buffers]
    BY <2>2, <2>3 DEF k
  <2>5. r \in Seq(Buffers) /\ Len(r) = k
    BY <2>4
  <2> QED
    BY <2>5 DEF k
<1>5. \A n \in 1 .. Len(r) : /\ n \in Int /\ n \in 1 .. Len(p) /\ n + 1 \in 1 .. Len(p)
                             /\ n < m => r[n] = p[n]
                             /\ n >= m => r[n] = p[n + 1]
  BY <1>1, <1>4
<1>6. \A n \in 1 .. Len(p) : /\ n < m => n \in 1 .. Len(r) /\ r[n] = p[n]
                             /\ n > m => n - 1 \in 1 .. Len(r) /\ r[n - 1] = p[n]
  <2> SUFFICES ASSUME NEW n \in 1 .. Len(p)
               PROVE  /\ n < m => n \in 1 .. Len(r) /\ r[n] = p[n]
                      /\ n > m => n - 1 \in 1 .. Len(r) /\ r[n - 1] = p[n]
    OBVIOUS
  <2>1. CASE n < m
    <3>1. n \in 1 .. Len(r)
      BY <1>1, <1>4, <2>1
    <3> QED
      BY <1>5, <2>1, <3>1
  <2>2. CASE n > m
    <3>1. n - 1 \in 1 .. Len(r) /\ n - 1 >= m /\ (n - 1) + 1 = n
      BY <1>1, <1>4, <2>2
    <3> HIDE DEF r
    <3> QED
      BY <1>1, <1>5, <2>2, <3>1
  <2> HIDE DEF r
  <2> QED
    BY <1>1, <2>1, <2>2
<1> HIDE DEF r
<1>7. Members(r) = Members(p) \ {p[m]}
  <2>1. ASSUME NEW b \in Members(r)  PROVE b \in Members(p) \ {p[m]}
    <3>1. PICK n \in 1 .. Len(r) : b = r[n]
      BY <2>1 DEF Members
    <3>2. PICK k \in 1 .. Len(p) : b = p[k] /\ k # m
      <4>1. CASE n < m
        BY <1>5, <3>1, <4>1
      <4>2. CASE n >= m
        <5>1. n + 1 # m /\ n + 1 \in 1 .. Len(p) /\ r[n] = p[n + 1]
          BY <1>1, <1>5, <4>2
        <5> QED
          BY <3>1, <5>1
      <4> QED
        BY <1>1, <1>5, <4>1, <4>2
    <3> QED
      BY <1>2, <3>2 DEF Members
  <2>2. ASSUME NEW b \in Members(p), b # p[m]  PROVE b \in Members(r)
    <3>1. PICK n \in 1 .. Len(p) : b = p[n] /\ n # m
      BY <2>2 DEF Members
    <3>2. n < m \/ n > m
      BY <1>1, <3>1
    <3> QED
      BY <1>6, <3>1, <3>2 DEF Members
  <2> QED
    BY <2>1, <2>2
<1>8. g = Place(r, 1)
  <2>1. CASE m = 1
    <3>1. g = Place(p, 2)
      BY <1>3, <2>1
    <3>2. CASE 2 \in 1 .. Len(p)
      BY <1>6, <2>1, <3>1, <3>2 DEF Place
    <3>3. CASE 2 \notin 1 .. Len(p)
      <4>1. 1 \notin 1 .. Len(r)
        BY <1>1, <1>4, <3>3
      <4> QED
        BY <3>1, <3>3, <4>1 DEF Place
    <3> QED
      BY <3>2, <3>3
  <2>2. CASE m # 1
    <3>1. 1 \in 1 .. Len(p) /\ 1 < m
      BY <1>1, <2>2
    <3> QED
      BY <1>1, <1>6, <2>2, <3>1 DEF Place
  <2> QED
    BY <2>1, <2>2
<1>9. ASSUME NEW k \in 1 .. Len(r), NEW n \in 1 .. Len(r), r[k] = r[n]  PROVE k = n
  <2>1. /\ (k < m /\ r[k] = p[k] /\ k \in 1 .. Len(p))
           \/ (k >= m /\ r[k] = p[k + 1] /\ k + 1 \in 1 .. Len(p))
        /\ (n < m /\ r[n] = p[n] /\ n \in 1 .. Len(p))
           \/ (n >= m /\ r[n] = p[n + 1] /\ n + 1 \in 1 .. Len(p))
        /\ k \in Int /\ n \in Int
    BY <1>1, <1>5
  <2>2. CASE k < m /\ n < m
    BY <1>2, <1>9, <2>1, <2>2
  <2>3. CASE k < m /\ n >= m
    <3>1. k = n + 1
      BY <1>1, <1>2, <1>9, <2>1, <2>3
    <3> QED
      BY <1>1, <2>1, <2>3, <3>1
  <2>4. CASE k >= m /\ n < m
    <3>1. k + 1 = n
      BY <1>1, <1>2, <1>9, <2>1, <2>4
    <3> QED
      BY <1>1, <2>1, <2>4, <3>1
  <2>5. CASE k >= m /\ n >= m
    <3>1. k + 1 = n + 1
      BY <1>1, <1>2, <1>9, <2>1, <2>5
    <3> QED
      BY <2>1, <3>1
  <2> QED
    BY <1>1, <2>1, <2>2, <2>3, <2>4, <2>5
<1>10. \A n \in 1 .. Len(p) : ny[p[n]] = IF m # 1 /\ n = m - 1 THEN nx[p[m]] ELSE nx[p[n]]
  <2>1. CASE m = 1
    BY <1>1, <2>1
  <2>2. CASE m # 1
    <3>1. m - 1 \in 1 .. Len(p)
      BY <1>1, <2>2
    <3> QED
      BY <1>1, <1>2, <2>2, <3>1
  <2> QED
    BY <2>1, <2>2
<1>11. \A n \in 1 .. Len(p) : n > m => Place(r, n) = Place(p, n + 1)
  <2> SUFFICES ASSUME NEW n \in 1 .. Len(p), n > m  PROVE Place(r, n) = Place(p, n + 1)
    OBVIOUS
  <2>1. CASE n + 1 \in 1 .. Len(p)
    <3>1. n + 1 > m /\ (n + 1) - 1 = n
      BY <1>1
    <3> QED
      BY <1>6, <2>1, <3>1 DEF Place
  <2>2. CASE n + 1 \notin 1 .. Len(p)
    <3>1. n \notin 1 .. Len(r)
      BY <1>1, <1>4, <2>2
    <3> QED
      BY <2>2, <3>1 DEF Place
  <2> QED
    BY <2>1, <2>2
<1>12. ASSUME NEW n \in 1 .. Len(r)  PROVE ny[r[n]] = Place(r, n + 1)
  <2>1. CASE n >= m
    <3>1. r[n] = p[n + 1] /\ n + 1 \in 1 .. Len(p) /\ n + 1 > m /\ n + 1 # m - 1
      BY <1>1, <1>5, <2>1
    <3> QED
      BY <1>3, <1>10, <1>11, <3>1
  <2>2. CASE n = m - 1
    <3>1. r[n] = p[n] /\ n \in 1 .. Len(p) /\ n < m /\ m # 1 /\ n + 1 = m
      BY <1>1, <1>5, <2>2
    <3>2. ny[r[n]] = Place(p, m + 1)
      BY <1>3, <1>10, <2>2, <3>1
    <3>3. Place(r, m) = Place(p, m + 1)
      <4>1. CASE m + 1 \in 1 .. Len(p)
        <5>1. m + 1 > m /\ (m + 1) - 1 = m
          BY <1>1
        <5> QED
          BY <1>6, <4>1, <5>1 DEF Place
      <4>2. CASE m + 1 \notin 1 .. Len(p)
        <5>1. m \notin 1 .. Len(r)
          BY <1>1, <1>4, <4>2
        <5> QED
          BY <4>2, <5>1 DEF Place
      <4> QED
        BY <4>1, <4>2
    <3> QED
      BY <3>1, <3>2, <3>3
  <2>3. CASE n < m - 1
    <3>1. /\ r[n] = p[n] /\ n \in 1 .. Len(p) /\ n # m - 1
          /\ n + 1 < m /\ n + 1 \in 1 .. Len(p)
      BY <1>1, <1>5, <2>3
    <3> QED
      BY <1>3, <1>6, <1>10, <3>1 DEF Place
  <2> QED
    BY <1>1, <1>5, <2>1, <2>2, <2>3
<1>13. IsList(ny, g, r)
  BY <1>4, <1>8, <1>9, <1>12 DEF IsList
<1>14. \A b \in Buffers \ Members(p) : ny[b] = nx[b]
  <2>1. CASE m = 1
    BY <2>1
  <2>2. CASE m # 1
    <3>1. m - 1 \in 1 .. Len(p)
      BY <1>1, <2>2
    <3> QED
      BY <1>1, <2>2, <3>1 DEF Members
  <2> QED
    BY <2>1, <2>2
<1> QED
  BY <1>7, <1>13, <1>14
-----------------------------------------------------------------------------
(* Who owns which buffer while no accept has failed: the objects P of      *)
(* PendingAccepts and Q of gFreeBufferList, the heap, the connections and  *)
(* the threads have none in common, except that a thread about to remove   *)
(* its buffer from P or to post it finds it there, alone.                  *)

Owners(P, Q) ==
  /\ P \cap Q = {} /\ heap \cap (P \cup Q) = {} /\ conn \cap (P \cup Q \cup heap) = {}
  /\ Outstanding \subseteq P
  /\ \A w \in Workers : /\ pc[w] = "remove" => buf[w] \in P \ Outstanding
                        /\ pc[w] = "port" => buf[w] \notin P \cup Q \cup heap \cup conn
                        /\ pc[w] # "errFree"
  /\ \A v, w \in Workers : pc[v] \in {"remove", "port"} /\ pc[w] \in {"remove", "port"}
                           /\ buf[v] = buf[w] => v = w
  /\ mpc = "insert" => /\ mbuf \notin P \cup Q \cup heap \cup conn
                       /\ \A w \in Workers : pc[w] = "port" => buf[w] # mbuf
  /\ mpc = "post" => /\ mbuf \in P \ Outstanding
                     /\ \A w \in Workers : pc[w] = "remove" => buf[w] # mbuf

Lists(p, q) == IsList(next, PendingAccepts, p) /\ IsList(next, gFreeBufferList, q)
Owned(p, q) == Owners(Members(p), Members(q))

ListInv == TypeInv /\ (acceptErrors = 0 => \E p, q : Lists(p, q) /\ Owned(p, q))

LEMMA ListInit == Init => ListInv
<1> SUFFICES ASSUME Init PROVE ListInv
  OBVIOUS
<1>1. Members(<<>>) = {}
  BY DEF Members
<1>2. Lists(<<>>, <<>>)
  BY DEF Init, Lists, IsList, Place
<1>3. Outstanding = {}
  BY DEF Init, Outstanding
<1>4. Owners({}, {})
  BY <1>3 DEF Init, Owners
<1> QED
  BY <1>1, <1>2, <1>4, TypeInit DEF ListInv, Owned

Still == UNCHANGED <<next, PendingAccepts, gFreeBufferList>>

LEMMA OwnersOutside ==
  ASSUME TypeInv, NEW P, NEW Q, Owners(P, Q), Outside,
         \A b \in Buffers : ~ConnectionOver(b)
  PROVE  Still /\ Owners(P, Q)'
<1>1. Outstanding' = Outstanding
  BY OutsideMoves DEF Same
<1>2. UNCHANGED <<next, PendingAccepts, gFreeBufferList, heap, conn, pc, buf, mpc, mbuf>>
  BY DEF Outside, ConnectQueued, ConnectAccepted, Data, Fails, Finish
<1> QED
  BY <1>1, <1>2 DEF Still, Owners

LEMMA OwnersWorker ==
  ASSUME TypeInv, NEW P, NEW Q, Owners(P, Q), NEW w \in Workers, Worker(w), acceptErrors' = 0,
         acceptErrors = 0, ~Remove(w), ~NoSocketObj(w)
  PROVE  Still /\ Owners(P, Q)'
<1>1. pc \in [Workers -> WorkerLabels] /\ buf \in [Workers -> Ref]
  BY DEF TypeInv, TypeOK
<1>2. CASE Spin(w) \/ PortFails(w) \/ Repost(w) \/ SetRepost(w)
  <2>1. Still /\ Outstanding' = Outstanding /\ UNCHANGED <<heap, conn, mpc, mbuf>>
    BY <1>2 DEF Spin, PortFails, Repost, SetRepost, Still, Outstanding
  <2>2. /\ pc'[w] \notin {"remove", "port", "errFree"}
        /\ \A v \in Workers \ {w} : pc'[v] = pc[v] /\ buf'[v] = buf[v]
    BY <1>1, <1>2 DEF Spin, PortFails, Repost, SetRepost
  <2> QED
    BY <2>1, <2>2 DEF Owners
<1>3. CASE PortOk(w)
  <2>1. Still /\ Outstanding' = Outstanding /\ UNCHANGED <<heap, mpc, mbuf>>
        /\ conn' = conn \cup {buf[w]} /\ pc[w] = "port"
    BY <1>3 DEF PortOk, Still, Outstanding
  <2>2. /\ pc'[w] \notin {"remove", "port", "errFree"}
        /\ \A v \in Workers \ {w} : pc'[v] = pc[v] /\ buf'[v] = buf[v]
    BY <1>1, <1>3 DEF PortOk
  <2> QED
    BY <2>1, <2>2 DEF Owners
<1>4. ASSUME NEW b \in Buffers, TakeDone(w, b)
      PROVE  Still /\ Owners(P, Q)'
  <2>1. Still /\ UNCHANGED <<heap, conn, mpc, mbuf>>
    BY <1>4 DEF TakeDone, Take, Still
  <2>2. b \in Outstanding /\ Outstanding' = Outstanding \ {b}
    BY <1>4 DEF TakeDone, Take, Outstanding, TypeInv, TypeOK
  <2>3. /\ pc'[w] = "remove" /\ buf'[w] = b
        /\ \A v \in Workers \ {w} : pc'[v] = pc[v] /\ buf'[v] = buf[v]
    BY <1>1, <1>4 DEF TakeDone, Take
  <2> QED
    BY <2>1, <2>2, <2>3 DEF Owners
<1>5. ASSUME NEW b \in Buffers, TakeFailed(w, b)
      PROVE  FALSE
  BY <1>5 DEF TakeFailed
<1>6. ~ErrFree(w)
  BY DEF ErrFree, Owners
<1> QED
  BY <1>2, <1>3, <1>4, <1>5, <1>6 DEF Worker, AcceptPath

LEMMA OwnersMain ==
  ASSUME TypeInv, NEW P, NEW Q, Owners(P, Q), MainThread \/ Timeout, ~Insert,
         \A b \in Buffers : ~Get(b)
  PROVE  Still /\ Owners(P, Q)'
<1>1. CASE Events \/ Sweeping \/ Timeout \/ Check \/ Enough \/ GetFails \/ PostFails
           \/ PostTwice \/ Count
  <2>1. Outstanding' = Outstanding
    <3>1. CASE Count
      BY <3>1, CountMoves DEF Same
    <3>2. ~Count => ~PostOk
      BY <1>1 DEF PostOk, Events, Accepting, Reposting, NotReposting, Exchange, Reset, Serve,
        Sweeping, Timeout, SweepEnter, SweepKeep, SweepClose, SweepLeave, Check, Enough,
        GetFails, PostFails, PostTwice
    <3> QED
      BY <3>1, <3>2, MainMoves DEF Same
  <2>2. Still /\ UNCHANGED <<heap, conn, pc, buf>> /\ mpc' \notin {"insert", "post"}
    <3>1. CASE Events
      BY <3>1 DEF Still, Events, Accepting, Reposting, NotReposting, Exchange, Reset, Serve
    <3>2. CASE Sweeping \/ Timeout
      BY <3>2 DEF Still, Sweeping, Timeout, SweepEnter, SweepKeep, SweepClose, SweepLeave
    <3>3. CASE Check \/ Enough \/ GetFails \/ PostFails \/ PostTwice \/ Count
      BY <3>3 DEF Still, Check, Enough, GetFails, PostFails, PostTwice, Count
    <3> QED
      BY <1>1, <3>1, <3>2, <3>3
  <2> QED
    BY <2>1, <2>2 DEF Owners
<1>2. CASE PostOk
  <2>1. Still /\ UNCHANGED <<heap, conn, pc, buf>> /\ mpc = "post" /\ mpc' = "count"
    BY <1>2 DEF PostOk, Still
  <2>2. Outstanding' = Outstanding \cup {mbuf}
    BY <1>2 DEF PostOk, Outstanding, TypeInv, TypeOK, HandOK
  <2> QED
    BY <2>1, <2>2 DEF Owners
<1> QED
  BY <1>1, <1>2 DEF MainThread, Posting

(* The steps that move a buffer from or to a list. *)

\* FreeBufferObj on a buffer that is on neither list.
LEMMA ListsFreed ==
  ASSUME TypeInv, NEW p, NEW q, Lists(p, q), NEW b \in Buffers,
         b \notin Members(p) \cup Members(q), FreeBufferObj(b), UNCHANGED PendingAccepts
  PROVE  \E r : Lists(p, r)' /\ Members(r) = Members(q) \cup {b}
<1>1. next \in [Buffers -> Ref] /\ next' = [next EXCEPT ![b] = gFreeBufferList]
      /\ gFreeBufferList' = b
  BY DEF TypeInv, TypeOK, FreeBufferObj
<1>2. IsList(next, PendingAccepts, p) /\ IsList(next, gFreeBufferList, q)
  BY DEF Lists
<1>3. PICK r : IsList(next', b, r) /\ Members(r) = Members(q) \cup {b}
  <2> DEFINE h == gFreeBufferList
             ny == next'
  <2>1. IsList(next, h, q) /\ b \notin Members(q)
        /\ \A c \in Buffers : ny[c] = IF c = b THEN h ELSE next[c]
    BY <1>1, <1>2
  <2> HIDE DEF h, ny
  <2>2. \E r : IsList(ny, b, r) /\ Members(r) = Members(q) \cup {b}
    BY <1>1, <2>1, Pushed
  <2> QED
    BY <2>2 DEF ny
<1>4. \A c \in Members(p) : next'[c] = next[c]
  <2>1. Members(p) \subseteq Buffers
    BY <1>2, MembersOf DEF IsList
  <2> QED
    BY <1>1, <2>1
<1>5. IsList(next', PendingAccepts, p)
  BY <1>2, <1>4, OtherLinks
<1> QED
  BY <1>1, <1>3, <1>5 DEF Lists

LEMMA MoveOver ==
  ASSUME TypeInv, NEW p, NEW q, Lists(p, q), Owned(p, q), NEW b \in Buffers, ConnectionOver(b)
  PROVE  \E r, s : Lists(r, s)' /\ Owned(r, s)' /\ Members(s) = Members(q) \cup {b}
<1>1. /\ b \in conn /\ conn' = conn \ {b} /\ heap' = heap
      /\ UNCHANGED <<PendingAccepts, pc, buf, mpc, mbuf>> /\ FreeBufferObj(b)
      /\ Outstanding' = Outstanding
  BY DEF ConnectionOver, FreeBufferObj, Outstanding
<1>2. b \notin Members(p) \cup Members(q)
  BY <1>1 DEF Owned, Owners
<1>3. PICK s : Lists(p, s)' /\ Members(s) = Members(q) \cup {b}
  BY <1>1, <1>2, ListsFreed
<1>4. Owners(Members(p), Members(s))'
  <2> DEFINE P == Members(p)
             Q == Members(q)
             R == Members(s)
  <2>1. Owners(P, Q) /\ R = Q \cup {b}
    BY <1>3 DEF Owned
  <2> HIDE DEF P, Q, R
  <2>2. Owners(P, R)'
    BY <1>1, <2>1 DEF Owners
  <2> QED
    BY <2>2 DEF P, R
<1> QED
  BY <1>3, <1>4 DEF Owned

LEMMA MoveNoSocket ==
  ASSUME TypeInv, NEW p, NEW q, Lists(p, q), Owned(p, q), NEW w \in Workers, NoSocketObj(w)
  PROVE  \E r, s : Lists(r, s)' /\ Owned(r, s)'
                   /\ Members(s) = Members(q) \cup {buf[w]}
<1> DEFINE b == buf[w]
<1>1. /\ pc[w] = "port" /\ conn' = conn /\ heap' = heap
      /\ UNCHANGED <<PendingAccepts, mpc, mbuf>> /\ FreeBufferObj(b)
      /\ Outstanding' = Outstanding /\ b \in Buffers
  BY DEF NoSocketObj, FreeBufferObj, Outstanding, TypeInv, HandOK
<1>2. /\ pc'[w] = "repost"
      /\ \A v \in Workers \ {w} : pc'[v] = pc[v] /\ buf'[v] = buf[v]
  BY DEF NoSocketObj, TypeInv, TypeOK
<1>3. b \notin Members(p) \cup Members(q)
  BY <1>1 DEF Owned, Owners
<1>4. PICK s : Lists(p, s)' /\ Members(s) = Members(q) \cup {b}
  BY <1>1, <1>3, ListsFreed
<1>5. Owners(Members(p), Members(s))'
  <2> DEFINE P == Members(p)
             Q == Members(q)
             R == Members(s)
  <2>1. Owners(P, Q) /\ R = Q \cup {b}
    BY <1>4 DEF Owned
  <2> HIDE DEF P, Q, R
  <2>2. Owners(P, R)'
    BY <1>1, <1>2, <2>1 DEF Owners
  <2> QED
    BY <2>2 DEF P, R
<1> QED
  BY <1>4, <1>5 DEF Owned

LEMMA MoveInsert ==
  ASSUME TypeInv, NEW p, NEW q, Lists(p, q), Owned(p, q), Insert
  PROVE  \E r, s : Lists(r, s)' /\ Owned(r, s)' /\ Members(s) = Members(q)
<1>1. /\ mpc = "insert" /\ mpc' = "post" /\ mbuf \in Buffers
      /\ UNCHANGED <<conn, heap, gFreeBufferList, mbuf, pc, buf>>
      /\ Outstanding' = Outstanding
      /\ next' = [next EXCEPT ![mbuf] = PendingAccepts] /\ PendingAccepts' = mbuf
      /\ next \in [Buffers -> Ref]
  BY DEF Insert, InsertPendingAccept, Outstanding, TypeInv, TypeOK, HandOK
<1>2. IsList(next, PendingAccepts, p) /\ IsList(next, gFreeBufferList, q)
  BY DEF Lists
<1>3. mbuf \notin Members(p) \cup Members(q)
  BY <1>1 DEF Owned, Owners
<1>4. PICK r : IsList(next', mbuf, r) /\ Members(r) = Members(p) \cup {mbuf}
  <2> DEFINE h == PendingAccepts
             ny == next'
  <2>1. IsList(next, h, p) /\ mbuf \notin Members(p)
        /\ \A c \in Buffers : ny[c] = IF c = mbuf THEN h ELSE next[c]
    BY <1>1, <1>2, <1>3
  <2> HIDE DEF h, ny
  <2>2. \E r : IsList(ny, mbuf, r) /\ Members(r) = Members(p) \cup {mbuf}
    BY <1>1, <2>1, Pushed
  <2> QED
    BY <2>2 DEF ny
<1>5. \A c \in Members(q) : next'[c] = next[c]
  <2>1. Members(q) \subseteq Buffers
    BY <1>2, MembersOf DEF IsList
  <2> QED
    BY <1>1, <1>3, <2>1
<1>6. IsList(next', gFreeBufferList, q)
  BY <1>2, <1>5, OtherLinks
<1>7. Lists(r, q)'
  BY <1>1, <1>4, <1>6 DEF Lists
<1>8. Owners(Members(r), Members(q))'
  <2> DEFINE P == Members(p)
             Q == Members(q)
             R == Members(r)
  <2>1. Owners(P, Q) /\ R = P \cup {mbuf}
    BY <1>4 DEF Owned
  <2> HIDE DEF P, Q, R
  <2>2. Owners(R, Q)'
    BY <1>1, <2>1 DEF Owners
  <2> QED
    BY <2>2 DEF Q, R
<1> QED
  BY <1>7, <1>8 DEF Owned

LEMMA MoveGet ==
  ASSUME TypeInv, NEW p, NEW q, Lists(p, q), Owned(p, q), NEW b \in Buffers, Get(b)
  PROVE  \E r, s : Lists(r, s)' /\ Owned(r, s)'
         /\ \/ b \in Members(q) /\ heap' = heap /\ Members(s) = Members(q) \ {b}
            \/ b \in heap /\ heap' = heap \ {b} /\ Members(s) = Members(q)
<1>1. /\ mpc' = "insert" /\ mbuf' = b
      /\ UNCHANGED <<conn, PendingAccepts, pc, buf>>
      /\ Outstanding' = Outstanding
      /\ next' = [next EXCEPT ![b] = NULL]
      /\ next \in [Buffers -> Ref]
  BY DEF Get, GetBufferObj, Outstanding, TypeInv, TypeOK
<1>2. IsList(next, PendingAccepts, p) /\ IsList(next, gFreeBufferList, q)
  BY DEF Lists
<1>3. Members(p) \subseteq Buffers
  BY <1>2, MembersOf DEF IsList
<1>4. \/ /\ gFreeBufferList # NULL /\ b = gFreeBufferList
         /\ gFreeBufferList' = next[b] /\ heap' = heap
      \/ b \in heap /\ heap' = heap \ {b} /\ gFreeBufferList' = gFreeBufferList
  BY DEF Get, GetBufferObj
<1>5. PICK s : /\ IsList(next', gFreeBufferList', s)
               /\ \/ b \in Members(q) /\ heap' = heap /\ Members(s) = Members(q) \ {b}
                  \/ b \in heap /\ heap' = heap \ {b} /\ Members(s) = Members(q)
  <2>1. CASE /\ gFreeBufferList # NULL /\ b = gFreeBufferList
             /\ gFreeBufferList' = next[b] /\ heap' = heap
    <3>1. 1 \in 1 .. Len(q) /\ b = q[1]
      BY <1>2, <2>1 DEF IsList, Place
    <3>2. PICK s : IsList(next, next[b], s) /\ Members(s) = Members(q) \ {b}
      <4> DEFINE h == gFreeBufferList
                 g == next[b]
                 ny == next
                 m == 1
      <4>1. IsList(next, h, q) /\ m \in 1 .. Len(q) /\ m = 1 /\ g = next[q[m]]
            /\ \A c \in Buffers : ny[c] = next[c]
        BY <1>2, <3>1
      <4> HIDE DEF h, g, ny, m
      <4>2. \E s : IsList(ny, g, s) /\ Members(s) = Members(q) \ {q[m]}
        BY <1>1, <4>1, Unlinked
      <4> QED
        BY <3>1, <4>2 DEF g, ny, m
    <3>3. \A c \in Members(s) : next'[c] = next[c]
      <4>1. Members(s) \subseteq Buffers
        BY <3>2, MembersOf DEF IsList
      <4> QED
        BY <1>1, <3>2, <4>1
    <3>4. IsList(next', next[b], s)
      BY <3>2, <3>3, OtherLinks
    <3> QED
      BY <2>1, <3>1, <3>2, <3>4 DEF Members
  <2>2. CASE b \in heap /\ heap' = heap \ {b} /\ gFreeBufferList' = gFreeBufferList
    <3>1. Members(q) \subseteq Buffers /\ b \notin Members(q)
      BY <1>2, <2>2, MembersOf DEF IsList, Owned, Owners
    <3>2. \A c \in Members(q) : next'[c] = next[c]
      BY <1>1, <3>1
    <3>3. IsList(next', gFreeBufferList, q)
      BY <1>2, <3>2, OtherLinks
    <3> QED
      BY <2>2, <3>3
  <2> QED
    BY <1>4, <2>1, <2>2
<1>6. \A c \in Members(p) : next'[c] = next[c]
  <2>1. b \notin Members(p)
    BY <1>5 DEF Owned, Owners
  <2> QED
    BY <1>1, <1>3, <2>1
<1>7. IsList(next', PendingAccepts, p)
  BY <1>2, <1>6, OtherLinks
<1>8. Lists(p, s)'
  BY <1>1, <1>5, <1>7 DEF Lists
<1>9. Owners(Members(p), Members(s))'
  <2> DEFINE P == Members(p)
             Q == Members(q)
             R == Members(s)
  <2>1. Owners(P, Q)
    BY DEF Owned
  <2>2. \/ b \in Q /\ heap' = heap /\ R = Q \ {b}
        \/ b \in heap /\ heap' = heap \ {b} /\ R = Q
    BY <1>5
  <2> HIDE DEF P, Q, R
  <2>3. Owners(P, R)'
    BY <1>1, <2>1, <2>2 DEF Owners
  <2> QED
    BY <2>3 DEF P, R
<1> QED
  BY <1>5, <1>8, <1>9 DEF Owned

\* RemovePendingAccept finds the buffer and takes out no other.
LEMMA MoveRemove ==
  ASSUME TypeInv, NEW p, NEW q, Lists(p, q), Owned(p, q), NEW w \in Workers, Remove(w)
  PROVE  \E r, s : Lists(r, s)' /\ Owned(r, s)' /\ Members(s) = Members(q)
<1> DEFINE b == buf[w]
<1>1. /\ pc[w] = "remove" /\ b \in Buffers
      /\ UNCHANGED <<conn, heap, gFreeBufferList, buf, mpc, mbuf>>
      /\ Outstanding' = Outstanding
      /\ pc'[w] = "port" /\ \A v \in Workers \ {w} : pc'[v] = pc[v]
      /\ next \in [Buffers -> Ref] /\ PendingAccepts \in Ref
  BY DEF Remove, Outstanding, TypeInv, TypeOK, HandOK
<1>2. IsList(next, PendingAccepts, p) /\ IsList(next, gFreeBufferList, q)
  BY DEF Lists
<1>3. PICK k \in Hops : StopsAt(b, k) /\ Unlink(b, k)
  BY DEF Remove
<1>4. k \in Nat /\ \A j \in 0 .. k : j \in Nat /\ Nth(PendingAccepts)[j] = Place(p, j + 1)
  <2>1. k \in Nat
    BY ListLength, <1>2 DEF Hops
  <2>2. \A j \in Nat : Nth(PendingAccepts)[j] = Place(p, j + 1)
    BY <1>1, <1>2, ListSteps, NthIsSteps
  <2> QED
    BY <2>1, <2>2
<1>5. PICK m \in 1 .. Len(p) : b = p[m]
  BY <1>1 DEF Owned, Owners, Members
<1>6. Len(p) \in Nat /\ m \in Nat /\ \A n \in 1 .. Len(p) : p[n] \in Buffers /\ p[n] # NULL
  BY <1>2, ListLength, ListenAssumption DEF IsList
<1>7. m = k + 1
  <2>1. ~(k > m - 1)
    <3> SUFFICES ASSUME k > m - 1  PROVE FALSE
      OBVIOUS
    <3>1. m - 1 \in 0 .. k - 1 /\ m - 1 \in 0 .. k /\ (m - 1) + 1 = m
      BY <1>4, <1>6
    <3>2. Nth(PendingAccepts)[m - 1] = b
      BY <1>4, <1>5, <3>1 DEF Place
    <3> QED
      BY <1>3, <3>1, <3>2 DEF StopsAt
  <2>2. k + 1 \in 1 .. Len(p)
    BY <1>4, <1>6, <2>1
  <2>3. p[k + 1] = b
    <3>1. k \in 0 .. k /\ Nth(PendingAccepts)[k] = p[k + 1]
      BY <1>4, <2>2 DEF Place
    <3> QED
      BY <1>3, <1>6, <2>2, <3>1 DEF StopsAt
  <2> QED
    BY <1>2, <1>5, <2>2, <2>3 DEF IsList
<1>8. \/ m = 1 /\ PendingAccepts' = next[p[m]] /\ next' = next
      \/ m # 1 /\ PendingAccepts' = PendingAccepts
         /\ next' = [next EXCEPT ![p[m - 1]] = next[p[m]]]
  <2>1. CASE k = 0
    BY <1>3, <1>5, <1>7, <2>1 DEF Unlink
  <2>2. CASE k > 0
    <3>1. k - 1 \in 0 .. k /\ (k - 1) + 1 = k /\ m - 1 = k /\ m # 1 /\ k \in 1 .. Len(p)
      BY <1>4, <1>6, <1>7, <2>2
    <3>2. Nth(PendingAccepts)[k - 1] = p[m - 1]
      BY <1>4, <3>1 DEF Place
    <3> QED
      BY <1>3, <1>5, <2>2, <3>1, <3>2 DEF Unlink
  <2> QED
    BY <1>4, <2>1, <2>2
<1>9. /\ \E r : IsList(next', PendingAccepts', r) /\ Members(r) = Members(p) \ {b}
      /\ \A c \in Buffers \ Members(p) : next'[c] = next[c]
  <2> DEFINE h == PendingAccepts
             g == PendingAccepts'
             ny == next'
  <2>1. IsList(next, h, p)
    BY <1>2
  <2>2. /\ g = IF m = 1 THEN next[p[m]] ELSE h
        /\ \A c \in Buffers : ny[c] = IF m # 1 /\ c = p[m - 1] THEN next[p[m]] ELSE next[c]
    BY <1>1, <1>8
  <2> HIDE DEF h, g, ny
  <2>3. /\ \E r : IsList(ny, g, r) /\ Members(r) = Members(p) \ {p[m]}
        /\ \A c \in Buffers \ Members(p) : ny[c] = next[c]
    BY <1>1, <1>5, <2>1, <2>2, Unlinked
  <2> QED
    BY <1>5, <2>3 DEF g, ny
<1>10. PICK r : IsList(next', PendingAccepts', r) /\ Members(r) = Members(p) \ {b}
  BY <1>9
<1>11. \A c \in Members(q) : next'[c] = next[c]
  <2>1. Members(q) \subseteq Buffers \ Members(p)
    BY <1>2, MembersOf DEF IsList, Owned, Owners
  <2> QED
    BY <1>9, <2>1
<1>12. IsList(next', gFreeBufferList, q)
  BY <1>2, <1>11, OtherLinks
<1>13. Lists(r, q)'
  BY <1>1, <1>10, <1>12 DEF Lists
<1>14. Owners(Members(r), Members(q))'
  <2> DEFINE P == Members(p)
             Q == Members(q)
             R == Members(r)
  <2>1. Owners(P, Q) /\ R = P \ {b}
    BY <1>10 DEF Owned
  <2> HIDE DEF P, Q, R
  <2>2. Owners(R, Q)'
    BY <1>1, <2>1 DEF Owners
  <2> QED
    BY <2>2 DEF Q, R
<1> QED
  BY <1>13, <1>14 DEF Owned

LEMMA ListStep == ListInv /\ [Next]_vars => ListInv'
<1> SUFFICES ASSUME ListInv, [Next]_vars, acceptErrors' = 0
             PROVE  \E r, s : Lists(r, s)' /\ Owned(r, s)'
  BY TypeStep DEF ListInv
<1>1. TypeInv /\ acceptErrors \in Nat
  BY DEF ListInv, TypeInv, TypeOK
<1>2. acceptErrors = 0
  <2>1. acceptErrors' = acceptErrors \/ acceptErrors' = acceptErrors + 1
    <3>1. CASE UNCHANGED vars
      BY <3>1 DEF vars
    <3>2. CASE Outside
      BY <1>1, <3>2, OutsideMoves DEF Same
    <3>3. CASE \E w \in Workers : Worker(w)
      BY <1>1, <3>3, WorkerMoves DEF Same
    <3>4. CASE MainThread \/ Timeout
      BY <1>1, <3>4, MainMoves, PostMoves, CountMoves DEF Same, Added
    <3> QED
      BY <3>1, <3>2, <3>3, <3>4 DEF Next
  <2> QED
    BY <1>1, <2>1
<1>3. PICK p, q : Lists(p, q) /\ Owned(p, q)
  BY <1>2 DEF ListInv
<1>4. ASSUME Still, Owners(Members(p), Members(q))'
      PROVE  \E r, s : Lists(r, s)' /\ Owned(r, s)'
  BY <1>3, <1>4 DEF Still, Lists, Owned
<1>5. CASE UNCHANGED vars
  <2>1. Outstanding' = Outstanding
    BY <1>5 DEF vars, Outstanding
  <2>2. Still /\ Owners(Members(p), Members(q))'
    BY <1>3, <1>5, <2>1 DEF vars, Still, Owned, Owners
  <2> QED
    BY <1>4, <2>2
<1>6. CASE Outside
  <2>1. ASSUME NEW b \in Buffers, ConnectionOver(b)
        PROVE  \E r, s : Lists(r, s)' /\ Owned(r, s)'
    BY <1>1, <1>3, <2>1, MoveOver
  <2>2. CASE \A b \in Buffers : ~ConnectionOver(b)
    BY <1>1, <1>3, <1>4, <1>6, <2>2, OwnersOutside DEF Owned
  <2> QED
    BY <2>1, <2>2
<1>7. ASSUME NEW w \in Workers, Worker(w)
      PROVE  \E r, s : Lists(r, s)' /\ Owned(r, s)'
  <2>1. CASE Remove(w)
    BY <1>1, <1>3, <2>1, MoveRemove
  <2>2. CASE NoSocketObj(w)
    BY <1>1, <1>3, <2>2, MoveNoSocket
  <2>3. CASE ~Remove(w) /\ ~NoSocketObj(w)
    BY <1>1, <1>2, <1>3, <1>4, <1>7, <2>3, OwnersWorker DEF Owned
  <2> QED
    BY <2>1, <2>2, <2>3
<1>8. CASE MainThread \/ Timeout
  <2>1. CASE Insert
    BY <1>1, <1>3, <2>1, MoveInsert
  <2>2. ASSUME NEW b \in Buffers, Get(b)
        PROVE  \E r, s : Lists(r, s)' /\ Owned(r, s)'
    BY <1>1, <1>3, <2>2, MoveGet
  <2>3. CASE ~Insert /\ \A b \in Buffers : ~Get(b)
    BY <1>1, <1>3, <1>4, <1>8, <2>3, OwnersMain DEF Owned
  <2> QED
    BY <2>1, <2>2, <2>3
<1> QED
  BY <1>5, <1>6, <1>7, <1>8 DEF Next

\* While no accept has failed both lists are sound and apart, and a search
\* for a finished accept finds it.
THEOREM ListsKeptApart == Spec => []ListsApart
<1>1. ListInv => ListsApart
  <2> SUFFICES ASSUME ListInv, acceptErrors = 0
               PROVE  /\ Outstanding \subseteq Walk(PendingAccepts)
                      /\ \A w \in Workers : At(w, "remove") => buf[w] \in Walk(PendingAccepts)
                      /\ Ends(PendingAccepts) /\ Ends(gFreeBufferList)
                      /\ Walk(gFreeBufferList)
                         \cap (Walk(PendingAccepts) \cup Outstanding \cup conn) = {}
    BY DEF ListsApart
  <2>1. PICK p, q : Lists(p, q) /\ Owned(p, q)
    BY DEF ListInv
  <2>2. next \in [Buffers -> Ref] /\ PendingAccepts \in Ref /\ gFreeBufferList \in Ref
    BY DEF ListInv, TypeInv, TypeOK
  <2>3. Walk(PendingAccepts) = Members(p) /\ Ends(PendingAccepts)
    <3>1. /\ {Steps(next, PendingAccepts)[k] : k \in Hops} \ {NULL} = Members(p)
          /\ Steps(next, PendingAccepts)[Cardinality(Buffers)] = NULL
      BY <2>1, <2>2, ListWalk DEF Lists
    <3> QED
      BY <3>1, NthIsSteps DEF Walk, Ends
  <2>4. Walk(gFreeBufferList) = Members(q) /\ Ends(gFreeBufferList)
    <3>1. /\ {Steps(next, gFreeBufferList)[k] : k \in Hops} \ {NULL} = Members(q)
          /\ Steps(next, gFreeBufferList)[Cardinality(Buffers)] = NULL
      BY <2>1, <2>2, ListWalk DEF Lists
    <3> QED
      BY <3>1, NthIsSteps DEF Walk, Ends
  <2>5. Owners(Members(p), Members(q))
    BY <2>1 DEF Owned
  <2> QED
    BY <2>3, <2>4, <2>5 DEF Owners
<1> QED
  BY <1>1, ListInit, ListStep, PTL DEF Spec
-----------------------------------------------------------------------------
(* Accepts are kept.  What is neither in the heap, nor a connection's, nor *)
(* on the lookaside list is counted together with what was promised; then  *)
(* no step but a failing GetBufferObj makes the sum smaller.               *)

Fewest == IF gInitialAccepts < gMaxAccepts THEN gInitialAccepts ELSE gMaxAccepts
Taken(Q) == Buffers \ (heap \cup conn \cup Q)
Asking == {w \in Workers : pc[w] = "repost"}
LoopDue ==
  (IF mpc = "get" THEN 1 ELSE 0) + (IF mpc = "reset" THEN limit ELSE 0)
  + (IF serving # "accept" /\ mpc \in InLoop THEN limit - i ELSE 0)
Kept(Q) == Fewest <= Cardinality(Taken(Q)) + RepostCount + Cardinality(Asking) + LoopDue

LoopOK == mpc \in InLoop => i <= limit
HandsEmpty ==
  \A w \in Workers : pc[w] # "spin" /\ (pc[w] \in {"wait", "repost", "signal"} => buf[w] = NULL)
KeepInv ==
  /\ BalanceInv
  /\ acceptErrors = 0 =>
       LoopOK /\ HandsEmpty /\ \E p, q : Lists(p, q) /\ Owned(p, q) /\ Kept(Members(q))

LEMMA KeepInit == Init => KeepInv
<1> SUFFICES ASSUME Init PROVE KeepInv
  OBVIOUS
<1>1. Members(<<>>) = {}
  BY DEF Members
<1>2. Lists(<<>>, <<>>)
  BY DEF Init, Lists, IsList, Place
<1>3. Outstanding = {}
  BY DEF Init, Outstanding
<1>4. Owners({}, {})
  BY <1>3 DEF Init, Owners
<1>5. Taken({}) = {} /\ Asking = {}
  BY DEF Init, Taken, Asking
<1>6. Kept({})
  BY <1>5, FS_EmptySet, ListenAssumption DEF Init, Kept, Fewest, LoopDue, InLoop
<1>7. HandsEmpty /\ LoopOK
  BY ListenAssumption DEF Init, HandsEmpty, LoopOK
<1> QED
  BY <1>1, <1>2, <1>4, <1>6, <1>7, BalanceInit DEF KeepInv, Owned

(* How the two sets grow and shrink. *)

LEMMA TakenSize ==
  ASSUME NEW Q, NEW R
  PROVE  /\ Cardinality(Taken(Q)) \in Nat /\ Cardinality(Taken(R)') \in Nat
         /\ Taken(R)' = Taken(Q) => Cardinality(Taken(R)') = Cardinality(Taken(Q))
         /\ \A b : Taken(R)' = Taken(Q) \ {b}
              => Cardinality(Taken(R)') >= Cardinality(Taken(Q)) - 1
         /\ \A b : b \notin Taken(Q) /\ Taken(R)' = Taken(Q) \cup {b}
              => Cardinality(Taken(R)') = Cardinality(Taken(Q)) + 1
<1>1. IsFiniteSet(Taken(Q)) /\ IsFiniteSet(Taken(R)')
  BY ListenAssumption, FS_Subset DEF Taken
<1>2. Cardinality(Taken(Q)) \in Nat /\ Cardinality(Taken(R)') \in Nat
  BY <1>1, FS_CardinalityType
<1>3. ASSUME NEW b, Taken(R)' = Taken(Q) \ {b}
      PROVE  Cardinality(Taken(R)') >= Cardinality(Taken(Q)) - 1
  <2>1. Cardinality(Taken(Q) \ {b})
        = IF b \in Taken(Q) THEN Cardinality(Taken(Q)) - 1 ELSE Cardinality(Taken(Q))
    BY <1>1, FS_RemoveElement
  <2> QED
    BY <1>2, <1>3, <2>1
<1>4. ASSUME NEW b, b \notin Taken(Q), Taken(R)' = Taken(Q) \cup {b}
      PROVE  Cardinality(Taken(R)') = Cardinality(Taken(Q)) + 1
  BY <1>1, <1>4, FS_AddElement
<1> QED
  BY <1>2, <1>3, <1>4

LEMMA AskingSize ==
  ASSUME TypeInv
  PROVE  /\ IsFiniteSet(Asking) /\ Cardinality(Asking) \in Nat /\ Cardinality(Asking') \in Nat
         /\ pc' = pc => Cardinality(Asking') = Cardinality(Asking)
         /\ \A w \in Workers, l \in WorkerLabels : pc' = [pc EXCEPT ![w] = l] =>
              /\ pc[w] = "repost" => Cardinality(Asking') >= Cardinality(Asking) - 1
              /\ pc[w] # "repost" => Cardinality(Asking') >= Cardinality(Asking)
              /\ pc[w] # "repost" /\ l = "repost"
                   => Cardinality(Asking') = Cardinality(Asking) + 1
<1>1. IsFiniteSet(Asking) /\ IsFiniteSet(Asking')
  BY ListenAssumption, FS_Subset DEF Asking
<1>2. Cardinality(Asking) \in Nat /\ Cardinality(Asking') \in Nat
  BY <1>1, FS_CardinalityType
<1>3. pc' = pc => Asking' = Asking
  BY DEF Asking
<1>4. ASSUME NEW w \in Workers, NEW l \in WorkerLabels, pc' = [pc EXCEPT ![w] = l]
      PROVE  /\ pc[w] = "repost" => Cardinality(Asking') >= Cardinality(Asking) - 1
             /\ pc[w] # "repost" => Cardinality(Asking') >= Cardinality(Asking)
             /\ pc[w] # "repost" /\ l = "repost"
                  => Cardinality(Asking') = Cardinality(Asking) + 1
  <2>1. /\ pc \in [Workers -> WorkerLabels] /\ pc'[w] = l
        /\ \A v \in Workers \ {w} : pc'[v] = pc[v]
    BY <1>4 DEF TypeInv, TypeOK
  <2>2. Asking' = IF l = "repost" THEN Asking \cup {w} ELSE Asking \ {w}
    BY <2>1 DEF Asking
  <2>3. w \in Asking <=> pc[w] = "repost"
    BY DEF Asking
  <2>4. /\ Cardinality(Asking \cup {w})
           = IF w \in Asking THEN Cardinality(Asking) ELSE Cardinality(Asking) + 1
        /\ Cardinality(Asking \ {w})
           = IF w \in Asking THEN Cardinality(Asking) - 1 ELSE Cardinality(Asking)
    BY <1>1, FS_AddElement, FS_RemoveElement
  <2> QED
    BY <1>2, <2>2, <2>3, <2>4
<1> QED
  BY <1>1, <1>2, <1>3, <1>4

(* The steps, one thread at a time. *)

LEMMA KeptOutside ==
  ASSUME TypeInv, Outside, NEW Q, NEW R, Kept(Q),
         \A b \in Buffers : ConnectionOver(b) => R = Q \cup {b},
         (\A b \in Buffers : ~ConnectionOver(b)) => R = Q
  PROVE  Kept(R)' /\ UNCHANGED <<mpc, loopVars, pc, buf>>
<1>1. UNCHANGED <<mpc, loopVars, pc, buf, RepostCount>>
  BY DEF Outside, ConnectQueued, ConnectAccepted, Data, Fails, Finish, ConnectionOver
<1>2. Taken(R)' = Taken(Q)
  <2>1. CASE \A b \in Buffers : ~ConnectionOver(b)
    BY <2>1 DEF Outside, ConnectQueued, ConnectAccepted, Data, Fails, Finish, Taken
  <2>2. ASSUME NEW b \in Buffers, ConnectionOver(b)
        PROVE  Taken(R)' = Taken(Q)
    <3>1. b \in conn /\ conn' = conn \ {b} /\ heap' = heap /\ R = Q \cup {b}
      BY <2>2 DEF ConnectionOver, FreeBufferObj
    <3> QED
      BY <3>1 DEF Taken
  <2> QED
    BY <2>1, <2>2
<1>3. Asking' = Asking /\ LoopDue' = LoopDue
  BY <1>1 DEF Asking, LoopDue
<1> QED
  BY <1>1, <1>2, <1>3 DEF Kept

\* RemovePendingAccept finds what it looks for while the list is sound.
LEMMA NoSpin ==
  ASSUME TypeInv, NEW p, NEW q, Lists(p, q), Owned(p, q), NEW w \in Workers
  PROVE  ~Spin(w)
<1> SUFFICES ASSUME Spin(w) PROVE FALSE
  OBVIOUS
<1> DEFINE T == {k \in Hops : Nth(PendingAccepts)[k] \in {buf[w], NULL}}
<1>1. /\ next \in [Buffers -> Ref] /\ PendingAccepts \in Ref
      /\ IsList(next, PendingAccepts, p) /\ Cardinality(Buffers) \in Nat
  BY ListenAssumption, FS_CardinalityType DEF TypeInv, TypeOK, Lists
<1>2. Steps(next, PendingAccepts)[Cardinality(Buffers)] = NULL
  BY <1>1, ListWalk
<1>3. Cardinality(Buffers) \in T
  BY <1>1, <1>2, NthIsSteps DEF Hops
<1>4. T \subseteq Nat
  BY <1>1 DEF Hops
<1> HIDE DEF T
<1>5. PICK k \in T : \A m \in T : k <= m
  BY <1>3, <1>4, SmallestOf
<1>6. k \in Hops /\ Nth(PendingAccepts)[k] \in {buf[w], NULL}
  BY DEF T
<1>7. \A j \in 0 .. k - 1 : Nth(PendingAccepts)[j] \notin {buf[w], NULL}
  <2> SUFFICES ASSUME NEW j \in 0 .. k - 1, Nth(PendingAccepts)[j] \in {buf[w], NULL}
               PROVE  FALSE
    OBVIOUS
  <2>1. j \in Hops /\ k \in Nat /\ j < k
    BY <1>1, <1>6 DEF Hops
  <2>2. j \in T
    BY <2>1 DEF T
  <2> QED
    BY <1>5, <2>1, <2>2 DEF Hops
<1> QED
  BY <1>6, <1>7 DEF Spin, StopsAt

LEMMA KeptWorker ==
  ASSUME TypeInv, HandsEmpty, NEW P, NEW Q, NEW R, Owners(P, Q), Kept(Q),
         NEW w \in Workers, Worker(w), acceptErrors = 0, acceptErrors' = 0, ~Spin(w),
         NoSocketObj(w) => R = Q \cup {buf[w]}, ~NoSocketObj(w) => R = Q
  PROVE  Kept(R)' /\ HandsEmpty' /\ UNCHANGED <<mpc, loopVars>>
<1>1. /\ pc \in [Workers -> WorkerLabels] /\ buf \in [Workers -> Ref]
      /\ RepostCount \in Nat /\ Fewest \in Nat
  BY ListenAssumption DEF TypeInv, TypeOK, Fewest
<1>2. /\ Cardinality(Taken(Q)) \in Nat /\ Cardinality(Taken(R)') \in Nat
      /\ Cardinality(Asking) \in Nat /\ Cardinality(Asking') \in Nat
      /\ \A l \in WorkerLabels : pc' = [pc EXCEPT ![w] = l] =>
           /\ pc[w] = "repost" => Cardinality(Asking') >= Cardinality(Asking) - 1
           /\ pc[w] # "repost" => Cardinality(Asking') >= Cardinality(Asking)
           /\ pc[w] # "repost" /\ l = "repost"
                => Cardinality(Asking') = Cardinality(Asking) + 1
  BY TakenSize, AskingSize
<1>3. UNCHANGED <<mpc, loopVars>> /\ LoopDue' = LoopDue /\ LoopDue \in Int
  BY WorkerMoves DEF LoopDue, TypeInv, TypeOK
<1>4. Fewest <= Cardinality(Taken(Q)) + RepostCount + Cardinality(Asking) + LoopDue
  BY DEF Kept
<1>5. \A l \in {"wait", "remove", "port", "repost", "signal"} : l \in WorkerLabels
  BY DEF WorkerLabels
<1>6. SUFFICES /\ Cardinality(Taken(R)') + RepostCount' + Cardinality(Asking')
                  >= Cardinality(Taken(Q)) + RepostCount + Cardinality(Asking)
               /\ RepostCount' \in Nat /\ HandsEmpty'
  BY <1>1, <1>2, <1>3, <1>4 DEF Kept, Fewest
<1>7. CASE NoSocketObj(w) \/ PortOk(w)
  <2>1. Taken(R)' = Taken(Q) \ {buf[w]}
    BY <1>7 DEF NoSocketObj, PortOk, FreeBufferObj, Taken
  <2>2. pc[w] = "port" /\ pc' = [pc EXCEPT ![w] = "repost"] /\ RepostCount' = RepostCount
    BY <1>7 DEF NoSocketObj, PortOk
  <2>3. Cardinality(Asking') = Cardinality(Asking) + 1
    BY <1>2, <1>5, <2>2
  <2>4. Cardinality(Taken(R)') >= Cardinality(Taken(Q)) - 1
    BY <2>1, TakenSize
  <2>5. HandsEmpty'
    BY <1>1, <1>7 DEF NoSocketObj, PortOk, HandsEmpty
  <2> QED
    BY <1>1, <1>2, <2>2, <2>3, <2>4, <2>5
<1>8. ASSUME ~NoSocketObj(w), ~PortOk(w)
      PROVE  Cardinality(Taken(R)') = Cardinality(Taken(Q))
  <2>1. UNCHANGED <<heap, conn>>
    BY <1>8 DEF Worker, AcceptPath, Remove, Spin, PortFails, Repost, SetRepost, ErrFree,
                FreeBufferObj, TakeDone, TakeFailed, Take
  <2>2. Taken(R)' = Taken(Q)
    BY <1>8, <2>1 DEF Taken
  <2> QED
    BY <2>2
<1>9. CASE Remove(w)
  <2>1. pc[w] = "remove" /\ pc' = [pc EXCEPT ![w] = "port"] /\ RepostCount' = RepostCount
        /\ buf' = buf
    BY <1>9 DEF Remove
  <2>2. ~NoSocketObj(w) /\ ~PortOk(w)
    BY <2>1 DEF NoSocketObj, PortOk
  <2>3. HandsEmpty'
    BY <1>1, <2>1 DEF HandsEmpty
  <2>4. Cardinality(Asking') >= Cardinality(Asking)
    BY <1>2, <1>5, <2>1
  <2> QED
    BY <1>1, <1>2, <1>8, <2>1, <2>2, <2>3, <2>4
<1>10. CASE PortFails(w) /\ ~NoSocketObj(w) /\ ~PortOk(w)
  <2>1. pc[w] = "port" /\ pc' = [pc EXCEPT ![w] = "wait"] /\ RepostCount' = RepostCount
        /\ buf' = [buf EXCEPT ![w] = NULL]
    BY <1>10 DEF PortFails
  <2>2. HandsEmpty'
    BY <1>1, <2>1 DEF HandsEmpty
  <2>3. Cardinality(Asking') >= Cardinality(Asking)
    BY <1>2, <1>5, <2>1
  <2> QED
    BY <1>1, <1>2, <1>8, <1>10, <2>1, <2>2, <2>3
<1>11. CASE Repost(w)
  <2>1. pc[w] = "repost" /\ pc' = [pc EXCEPT ![w] = "signal"] /\ RepostCount' = RepostCount + 1
        /\ buf' = buf
    BY <1>11 DEF Repost, AddRepost
  <2>2. ~NoSocketObj(w) /\ ~PortOk(w)
    BY <2>1 DEF NoSocketObj, PortOk
  <2>3. HandsEmpty'
    BY <1>1, <2>1 DEF HandsEmpty
  <2>4. Cardinality(Asking') >= Cardinality(Asking) - 1
    BY <1>2, <1>5, <2>1
  <2> QED
    BY <1>1, <1>2, <1>8, <2>1, <2>2, <2>3, <2>4
<1>12. CASE SetRepost(w)
  <2>1. pc[w] = "signal" /\ pc' = [pc EXCEPT ![w] = "wait"] /\ RepostCount' = RepostCount
        /\ buf' = buf
    BY <1>12 DEF SetRepost
  <2>2. ~NoSocketObj(w) /\ ~PortOk(w)
    BY <2>1 DEF NoSocketObj, PortOk
  <2>3. HandsEmpty'
    BY <1>1, <2>1 DEF HandsEmpty
  <2>4. Cardinality(Asking') >= Cardinality(Asking)
    BY <1>2, <1>5, <2>1
  <2> QED
    BY <1>1, <1>2, <1>8, <2>1, <2>2, <2>3, <2>4
<1>13. ASSUME NEW b \in Buffers, TakeDone(w, b)
       PROVE  /\ Cardinality(Taken(R)') + RepostCount' + Cardinality(Asking')
                 >= Cardinality(Taken(Q)) + RepostCount + Cardinality(Asking)
              /\ RepostCount' \in Nat /\ HandsEmpty'
  <2>1. pc[w] = "wait" /\ pc' = [pc EXCEPT ![w] = "remove"] /\ RepostCount' = RepostCount
        /\ buf' = [buf EXCEPT ![w] = b]
    BY <1>13 DEF TakeDone, Take
  <2>2. ~NoSocketObj(w) /\ ~PortOk(w)
    BY <2>1 DEF NoSocketObj, PortOk
  <2>3. HandsEmpty'
    BY <1>1, <2>1 DEF HandsEmpty
  <2>4. Cardinality(Asking') >= Cardinality(Asking)
    BY <1>2, <1>5, <2>1
  <2> QED
    BY <1>1, <1>2, <1>8, <2>1, <2>2, <2>3, <2>4
<1>14. ASSUME NEW b \in Buffers
       PROVE  ~TakeFailed(w, b)
  BY DEF TakeFailed
<1>15. ~ErrFree(w)
  BY DEF ErrFree, Owners
<1> QED
  BY <1>7, <1>9, <1>10, <1>11, <1>12, <1>13, <1>14, <1>15 DEF Worker, AcceptPath

LEMMA KeptMain ==
  ASSUME TypeInv, CountBalance, NEW P, NEW Q, NEW R, Owners(P, Q), Kept(Q),
         P \subseteq Buffers, acceptErrors = 0, LoopOK,
         MainThread \/ Timeout, ~GetFails,
         \A b \in Buffers : Get(b) => \/ b \in Q /\ heap' = heap /\ R = Q \ {b}
                                      \/ b \in heap /\ heap' = heap \ {b} /\ R = Q,
         (\A b \in Buffers : ~Get(b)) => R = Q
  PROVE  Kept(R)' /\ LoopOK' /\ UNCHANGED <<pc, buf>>
<1>1. /\ RepostCount \in Nat /\ Fewest \in Nat /\ i \in Nat /\ limit \in Nat
      /\ gMaxAccepts \in Nat /\ Fewest <= gMaxAccepts
  BY ListenAssumption DEF TypeInv, TypeOK, Fewest
<1>2. UNCHANGED <<pc, buf>>
  BY DEF MainThread, Timeout, Events, Accepting, Reposting, NotReposting, Exchange, Reset,
         Posting, Check, Enough, GetFails, Insert, PostOk, PostFails, PostTwice, Count, Get,
         Sweeping, SweepEnter, SweepKeep, SweepClose, SweepLeave
<1>3. /\ Cardinality(Taken(Q)) \in Nat /\ Cardinality(Taken(R)') \in Nat
      /\ Cardinality(Asking) \in Nat /\ Cardinality(Asking') = Cardinality(Asking)
  BY <1>2, TakenSize, AskingSize
<1>4. Fewest <= Cardinality(Taken(Q)) + RepostCount + Cardinality(Asking) + LoopDue
  BY DEF Kept
<1> DEFINE Goal == /\ Fewest <= Cardinality(Taken(R)') + RepostCount' + Cardinality(Asking)
                                + LoopDue'
                   /\ LoopOK'
<1>5. SUFFICES Goal
  BY <1>2, <1>3 DEF Kept, Fewest
<1>6. ASSUME NEW b \in Buffers, Get(b)
      PROVE  Goal
  <2>1. mpc = "get" /\ mpc' = "insert" /\ UNCHANGED <<conn, RepostCount, loopVars>>
    BY <1>6 DEF Get
  <2>2. b \notin Taken(Q) /\ Taken(R)' = Taken(Q) \cup {b}
    <3>1. \/ b \in Q /\ heap' = heap /\ R = Q \ {b}
          \/ b \in heap /\ heap' = heap \ {b} /\ R = Q
      BY <1>6
    <3>2. heap \cap Q = {} /\ conn \cap (Q \cup heap) = {}
      BY DEF Owners
    <3> QED
      BY <2>1, <3>1, <3>2 DEF Taken
  <2>3. Cardinality(Taken(R)') = Cardinality(Taken(Q)) + 1
    BY <2>2, TakenSize
  <2> QED
    BY <1>1, <1>3, <1>4, <2>1, <2>3 DEF LoopDue, InLoop, LoopOK
<1>7. ASSUME \A b \in Buffers : ~Get(b)
      PROVE  Cardinality(Taken(R)') = Cardinality(Taken(Q))
  <2>1. UNCHANGED <<heap, conn>>
    BY <1>7 DEF MainThread, Timeout, Events, Accepting, Reposting, NotReposting, Exchange,
         Reset, Serve, Posting, Check, Enough, GetFails, Insert, PostOk, PostFails, PostTwice,
         Count, Sweeping, SweepEnter, SweepKeep, SweepClose, SweepLeave
  <2>2. Taken(R)' = Taken(Q)
    BY <1>7, <2>1 DEF Taken
  <2> QED
    BY <2>2
<1>8. ASSUME mpc # "get"
      PROVE  Cardinality(Taken(R)') = Cardinality(Taken(Q))
  BY <1>7, <1>8 DEF Get
<1>9. CASE Check
  <2>1. mpc = "check" /\ mpc' = "get" /\ i < limit /\ i' = i + 1
        /\ UNCHANGED <<RepostCount, limit, serving>>
    BY <1>9 DEF Check, More
  <2> QED
    BY <1>1, <1>3, <1>4, <1>8, <2>1 DEF LoopDue, InLoop, LoopOK
<1>10. CASE Enough
  <2>1. mpc = "check" /\ mpc' \in {"testRepost", "wait"} /\ UNCHANGED <<RepostCount, loopVars>>
        /\ ~More
    BY <1>10 DEF Enough
  <2>2. CASE serving # "accept" /\ i < limit
    <3>1. ~(PendingAcceptCount < gMaxAccepts)
      BY <2>1, <2>2 DEF More, BelowMax
    <3>2. PendingAcceptCount = Cardinality(Outstanding) + 0
      BY <2>1 DEF CountBalance, TypeInv, TypeOK
    <3>3. Cardinality(Outstanding) <= Cardinality(Taken(Q))
      <4>1. Outstanding \subseteq Taken(Q)
        BY DEF Owners, Taken
      <4>2. IsFiniteSet(Taken(Q))
        BY ListenAssumption, FS_Subset DEF Taken
      <4> QED
        BY <4>1, <4>2, FS_Subset
    <3>4. Cardinality(Outstanding) \in Nat
      BY ListenAssumption, FS_Subset, FS_CardinalityType DEF Outstanding
    <3> QED
      BY <1>1, <1>3, <1>8, <2>1, <3>1, <3>2, <3>3, <3>4 DEF LoopDue, InLoop, LoopOK
  <2>3. CASE ~(serving # "accept" /\ i < limit)
    BY <1>1, <1>3, <1>4, <1>8, <2>1, <2>3 DEF LoopDue, InLoop, LoopOK
  <2> QED
    BY <2>2, <2>3
<1>11. CASE Insert \/ PostOk \/ PostFails \/ Count
  <2>1. mpc \in InLoop \ {"get"} /\ mpc' \in InLoop \ {"get"} /\ UNCHANGED <<RepostCount, loopVars>>
    BY <1>11 DEF Insert, PostOk, PostFails, Count, InLoop
  <2> QED
    BY <1>1, <1>3, <1>4, <1>8, <2>1 DEF LoopDue, InLoop, LoopOK
<1>12. ~PostTwice
  BY DEF PostTwice, Owners, Outstanding, TypeInv, HandOK
<1>13. CASE Accepting
  <2>1. mpc = "wait" /\ mpc' = "check" /\ serving' = "accept" /\ RepostCount' = RepostCount
        /\ i' = 0 /\ limit' = Burst
    BY <1>13 DEF Accepting, Serve, BurstLimit
  <2> QED
    BY <1>1, <1>3, <1>4, <1>8, <2>1, ListenAssumption DEF LoopDue, InLoop, LoopOK
<1>14. CASE Reposting \/ NotReposting \/ Sweeping \/ Timeout
  <2>1. /\ mpc \notin InLoop /\ mpc # "reset" /\ mpc' \notin InLoop /\ mpc' # "reset"
        /\ UNCHANGED <<RepostCount, loopVars>>
    BY <1>14 DEF Reposting, NotReposting, Sweeping, Timeout, SweepEnter, SweepKeep, SweepClose,
                 SweepLeave, InLoop
  <2> QED
    BY <1>1, <1>3, <1>4, <1>8, <2>1 DEF LoopDue, InLoop, LoopOK
<1>15. CASE Exchange
  <2>1. mpc = "exchange" /\ mpc' = "reset" /\ limit' = RepostCount /\ RepostCount' = 0
    BY <1>15 DEF Exchange, TakeReposts
  <2> QED
    BY <1>1, <1>3, <1>4, <1>8, <2>1 DEF LoopDue, InLoop, LoopOK
<1>16. CASE Reset
  <2>1. mpc = "reset" /\ mpc' = "check" /\ limit' = limit /\ i' = 0 /\ serving' = "repost"
        /\ RepostCount' = RepostCount
    BY <1>16 DEF Reset, Serve
  <2> QED
    BY <1>1, <1>3, <1>4, <1>8, <2>1 DEF LoopDue, InLoop, LoopOK
<1> QED
  BY <1>6, <1>9, <1>10, <1>11, <1>12, <1>13, <1>14, <1>15, <1>16
  DEF MainThread, Posting, Events

LEMMA KeepStep == KeepInv /\ [Next]_vars /\ [~GetFails]_vars => KeepInv'
<1> DEFINE Moved == \E r, s : Lists(r, s)' /\ Owned(r, s)' /\ Kept(Members(s))'
           Goal == LoopOK' /\ HandsEmpty' /\ Moved
<1> SUFFICES ASSUME KeepInv, [Next]_vars, [~GetFails]_vars, acceptErrors' = 0
             PROVE  Goal
  BY BalanceStep DEF KeepInv
<1>1. TypeInv /\ CountBalance /\ acceptErrors \in Nat
  BY DEF KeepInv, BalanceInv, TypeInv, TypeOK
<1>2. CASE UNCHANGED vars
  <2>1. PICK p, q : Lists(p, q) /\ Owned(p, q) /\ Kept(Members(q))
    BY <1>2 DEF vars, KeepInv
  <2>2. /\ Outstanding' = Outstanding /\ Asking' = Asking /\ LoopDue' = LoopDue
        /\ \A Q : Taken(Q)' = Taken(Q)
    BY <1>2 DEF vars, Outstanding, Taken, Asking, LoopDue
  <2>3. Lists(p, q)' /\ HandsEmpty' /\ LoopOK'
    BY <1>2, <2>1 DEF vars, Lists, KeepInv, HandsEmpty, LoopOK
  <2>4. Owned(p, q)'
    BY <1>2, <2>1, <2>2 DEF vars, Owned, Owners
  <2>5. Kept(Members(q))'
    BY <1>2, <2>1, <2>2 DEF vars, Kept
  <2> QED
    BY <2>3, <2>4, <2>5
<1>3. ASSUME Next, ~GetFails
      PROVE  Goal
  <2>1. acceptErrors = 0
    <3>1. acceptErrors' = acceptErrors \/ acceptErrors' = acceptErrors + 1
      <4>1. CASE Outside
        BY <1>1, <4>1, OutsideMoves DEF Same
      <4>2. CASE \E w \in Workers : Worker(w)
        BY <1>1, <4>2, WorkerMoves DEF Same
      <4>3. CASE MainThread \/ Timeout
        BY <1>1, <4>3, MainMoves, PostMoves, CountMoves DEF Same, Added
      <4> QED
        BY <1>3, <4>1, <4>2, <4>3 DEF Next
    <3> QED
      BY <1>1, <3>1
  <2>2. LoopOK /\ HandsEmpty
    BY <2>1 DEF KeepInv
  <2>3. PICK p, q : Lists(p, q) /\ Owned(p, q) /\ Kept(Members(q))
    BY <2>1 DEF KeepInv
  <2>4. PICK P, Q : P = Members(p) /\ Q = Members(q) /\ Owners(P, Q) /\ Kept(Q)
    BY <2>3 DEF Owned
  <2>5. P \subseteq Buffers
    BY <2>3, <2>4, MembersOf DEF Lists, IsList
  <2>6. ASSUME NEW r, NEW s, NEW R, R = Members(s), Lists(r, s)', Owned(r, s)', Kept(R)'
        PROVE  Moved
    BY <2>6
  <2>7. ASSUME Still, Owners(P, Q)', Kept(Q)'
        PROVE  Moved
    <3>1. Lists(p, q)' /\ Owned(p, q)'
      BY <2>3, <2>4, <2>7 DEF Still, Lists, Owned
    <3> QED
      BY <2>4, <2>6, <2>7, <3>1
  <2> HIDE DEF Moved
  <2>8. CASE Outside
    <3>1. ASSUME NEW b \in Buffers, ConnectionOver(b)
          PROVE  Goal
      <4>1. PICK r, s : Lists(r, s)' /\ Owned(r, s)' /\ Members(s) = Q \cup {b}
        BY <1>1, <2>3, <2>4, <3>1, MoveOver
      <4>2. \A c \in Buffers : ConnectionOver(c) => c = b
        BY <3>1 DEF ConnectionOver, FreeBufferObj
      <4>3. PICK R : R = Members(s)
        OBVIOUS
      <4>4. Kept(R)' /\ UNCHANGED <<mpc, loopVars, pc, buf>>
        BY <1>1, <2>4, <2>8, <3>1, <4>1, <4>2, <4>3, KeptOutside
      <4>5. Moved
        BY <2>6, <4>1, <4>3, <4>4
      <4> QED
        BY <2>2, <4>4, <4>5 DEF HandsEmpty, LoopOK
    <3>2. CASE \A b \in Buffers : ~ConnectionOver(b)
      <4>1. Still /\ Owners(P, Q)'
        BY <1>1, <2>4, <2>8, <3>2, OwnersOutside
      <4>2. Kept(Q)' /\ UNCHANGED <<mpc, loopVars, pc, buf>>
        BY <1>1, <2>4, <2>8, <3>2, KeptOutside
      <4> QED
        BY <2>2, <2>7, <4>1, <4>2 DEF HandsEmpty, LoopOK
    <3> QED
      BY <3>1, <3>2
  <2>9. ASSUME NEW w \in Workers, Worker(w)
        PROVE  Goal
    <3>1. ~Spin(w)
      BY <1>1, <2>3, NoSpin
    <3>2. ASSUME NEW R, Kept(R)' /\ HandsEmpty' /\ UNCHANGED <<mpc, loopVars>>, Moved
          PROVE  Goal
      BY <2>2, <3>2 DEF LoopOK
    <3>3. CASE NoSocketObj(w)
      <4>1. PICK r, s : Lists(r, s)' /\ Owned(r, s)' /\ Members(s) = Q \cup {buf[w]}
        BY <1>1, <2>3, <2>4, <3>3, MoveNoSocket
      <4>2. PICK R : R = Members(s)
        OBVIOUS
      <4>3. Kept(R)' /\ HandsEmpty' /\ UNCHANGED <<mpc, loopVars>>
        BY <1>1, <2>1, <2>2, <2>4, <2>9, <3>1, <3>3, <4>1, <4>2, KeptWorker
      <4> QED
        BY <2>6, <3>2, <4>1, <4>2, <4>3
    <3>4. ASSUME ~NoSocketObj(w)
          PROVE  Kept(Q)' /\ HandsEmpty' /\ UNCHANGED <<mpc, loopVars>>
      BY <1>1, <2>1, <2>2, <2>4, <2>9, <3>1, <3>4, KeptWorker
    <3>5. CASE Remove(w)
      <4>1. PICK r, s : Lists(r, s)' /\ Owned(r, s)' /\ Members(s) = Q
        BY <1>1, <2>3, <2>4, <3>5, MoveRemove
      <4>2. ~NoSocketObj(w)
        BY <3>5 DEF Remove, NoSocketObj
      <4> QED
        BY <2>6, <3>2, <3>4, <4>1, <4>2
    <3>6. CASE ~Remove(w) /\ ~NoSocketObj(w)
      <4>1. Still /\ Owners(P, Q)'
        BY <1>1, <2>1, <2>4, <2>9, <3>6, OwnersWorker
      <4> QED
        BY <2>7, <3>2, <3>4, <3>6, <4>1
    <3> QED
      BY <3>3, <3>5, <3>6
  <2>10. CASE MainThread \/ Timeout
    <3>1. ASSUME NEW R, Kept(R)' /\ LoopOK' /\ UNCHANGED <<pc, buf>>, Moved
          PROVE  Goal
      BY <2>2, <3>1 DEF HandsEmpty
    <3>2. ASSUME NEW b \in Buffers, Get(b)
          PROVE  Goal
      <4>1. PICK r, s : /\ Lists(r, s)' /\ Owned(r, s)'
                        /\ \/ b \in Q /\ heap' = heap /\ Members(s) = Q \ {b}
                           \/ b \in heap /\ heap' = heap \ {b} /\ Members(s) = Q
        BY <1>1, <2>3, <2>4, <3>2, MoveGet
      <4>2. PICK R : R = Members(s)
        OBVIOUS
      <4>3. \A c \in Buffers : Get(c) => c = b
        BY <3>2 DEF Get
      <4>4. Kept(R)' /\ LoopOK' /\ UNCHANGED <<pc, buf>>
        BY <1>1, <1>3, <2>1, <2>2, <2>4, <2>5, <2>10, <3>2, <4>1, <4>2, <4>3, KeptMain
      <4> QED
        BY <2>6, <3>1, <4>1, <4>2, <4>4
    <3>3. ASSUME \A b \in Buffers : ~Get(b)
          PROVE  Kept(Q)' /\ LoopOK' /\ UNCHANGED <<pc, buf>>
      BY <1>1, <1>3, <2>1, <2>2, <2>4, <2>5, <2>10, <3>3, KeptMain
    <3>4. CASE Insert
      <4>1. PICK r, s : Lists(r, s)' /\ Owned(r, s)' /\ Members(s) = Q
        BY <1>1, <2>3, <2>4, <3>4, MoveInsert
      <4>2. \A b \in Buffers : ~Get(b)
        BY <3>4 DEF Insert, Get
      <4> QED
        BY <2>6, <3>1, <3>3, <4>1, <4>2
    <3>5. CASE ~Insert /\ \A b \in Buffers : ~Get(b)
      <4>1. Still /\ Owners(P, Q)'
        BY <1>1, <2>4, <2>10, <3>5, OwnersMain
      <4> QED
        BY <2>7, <3>1, <3>3, <3>5, <4>1
    <3> QED
      BY <3>2, <3>4, <3>5
  <2> QED
    BY <1>3, <2>8, <2>9, <2>10 DEF Next
<1>4. GetFails => ~UNCHANGED vars
  BY DEF GetFails, vars
<1> QED
  BY <1>2, <1>3

(* What is counted is what AcceptsKept names: every buffer that is taken   *)
(* is the kernel's, lost, stuck, or in a hand that will ask for another.   *)

LEMMA UnionSize ==
  ASSUME NEW S, NEW T, IsFiniteSet(S), IsFiniteSet(T)
  PROVE  /\ IsFiniteSet(S \cup T) /\ Cardinality(S) \in Nat /\ Cardinality(T) \in Nat
         /\ Cardinality(S \cup T) \in Nat
         /\ Cardinality(S \cup T) <= Cardinality(S) + Cardinality(T)
<1>1. IsFiniteSet(S \cup T) /\ Cardinality(S \cup T)
        = Cardinality(S) + Cardinality(T) - Cardinality(S \cap T)
  BY FS_Union
<1>2. IsFiniteSet(S \cap T)
  BY FS_Intersection
<1>3. /\ Cardinality(S) \in Nat /\ Cardinality(T) \in Nat /\ Cardinality(S \cap T) \in Nat
      /\ Cardinality(S \cup T) \in Nat
  BY <1>1, <1>2, FS_CardinalityType
<1> QED
  BY <1>1, <1>3

LEMMA TakenCovered ==
  ASSUME TypeInv, acceptErrors = 0, HandsEmpty, NEW p, NEW q, Lists(p, q), Owned(p, q)
  PROVE  /\ Cardinality(Taken(Members(q))) + Cardinality(Asking)
           <= Cardinality(Outstanding) + Cardinality(Lost) + Cardinality(Stuck)
              + Cardinality({w \in Workers : At(w, "remove") \/ At(w, "port") \/ At(w, "repost")})
              + (IF MAt("insert") \/ MAt("post") THEN 1 ELSE 0)
         /\ Cardinality(Outstanding) \in Nat /\ Cardinality(Lost) \in Nat
         /\ Cardinality(Stuck) \in Nat
         /\ Cardinality({w \in Workers : At(w, "remove") \/ At(w, "port") \/ At(w, "repost")})
              \in Nat
<1> DEFINE Busy == {w \in Workers : pc[w] \in {"remove", "port"}}
           Held == {buf[w] : w \in Busy}
           Mine == IF MAt("insert") \/ MAt("post") THEN {mbuf} ELSE {}
           All3 == {w \in Workers : At(w, "remove") \/ At(w, "port") \/ At(w, "repost")}
<1>1. /\ next \in [Buffers -> Ref] /\ PendingAccepts \in Ref /\ gFreeBufferList \in Ref
      /\ pc \in [Workers -> WorkerLabels]
  BY DEF TypeInv, TypeOK
<1>2. Walk(gFreeBufferList) = Members(q)
  <2>1. {Steps(next, gFreeBufferList)[k] : k \in Hops} \ {NULL} = Members(q)
    BY <1>1, ListWalk DEF Lists
  <2> QED
    BY <2>1, NthIsSteps DEF Walk
<1>3. /\ IsFiniteSet(Outstanding) /\ IsFiniteSet(Lost) /\ IsFiniteSet(Stuck)
      /\ IsFiniteSet(Busy) /\ IsFiniteSet(Asking)
  <2>1. Stuck \subseteq Walk(PendingAccepts) /\ Walk(PendingAccepts) \subseteq Buffers
    <3>1. {Steps(next, PendingAccepts)[k] : k \in Hops} \ {NULL} = Members(p)
      BY <1>1, ListWalk DEF Lists
    <3>2. Members(p) \subseteq Buffers
      BY MembersOf DEF Lists, IsList
    <3> QED
      BY <3>1, <3>2, NthIsSteps DEF Walk, Stuck
  <2>2. Outstanding \subseteq Buffers /\ Lost \subseteq Buffers /\ Asking \subseteq Workers
    BY DEF Outstanding, Lost, Asking
  <2> QED
    BY <2>1, <2>2, ListenAssumption, FS_Subset
<1>4. IsFiniteSet(Held) /\ Cardinality(Held) <= Cardinality(Busy)
  <2> DEFINE f == [w \in Busy |-> buf[w]]
  <2>1. f \in Surjection(Busy, Held)
    BY DEF Surjection
  <2> QED
    BY <1>3, <2>1, FS_Surjection
<1>5. IsFiniteSet(Mine) /\ Cardinality(Mine) = IF MAt("insert") \/ MAt("post") THEN 1 ELSE 0
  BY FS_EmptySet, FS_Singleton
<1>6. Cardinality(All3) = Cardinality(Busy) + Cardinality(Asking)
  <2>1. All3 = Busy \cup Asking /\ Busy \cap Asking = {}
    BY DEF Asking
  <2>2. /\ Cardinality(Busy \cup Asking)
           = Cardinality(Busy) + Cardinality(Asking) - Cardinality(Busy \cap Asking)
        /\ Cardinality(Busy) \in Nat /\ Cardinality(Asking) \in Nat
    BY <1>3, FS_Union, FS_CardinalityType
  <2>3. Cardinality(Busy \cap Asking) = 0
    BY <2>1, FS_EmptySet
  <2> HIDE DEF Busy, All3
  <2> QED
    BY <2>1, <2>2, <2>3
<1>7. Taken(Members(q)) \subseteq Outstanding \cup Lost \cup Stuck \cup Held \cup Mine
  <2>1. InHand \cap Buffers \subseteq Held \cup Mine
    <3>1. ASSUME NEW w \in Workers, buf[w] \in Buffers
          PROVE  w \in Busy
      <4>1. pc[w] \notin {"wait", "repost", "signal", "spin", "errFree"}
        BY <3>1, ListenAssumption DEF HandsEmpty, Owned, Owners
      <4> QED
        BY <1>1, <4>1 DEF WorkerLabels
    <3> QED
      BY <3>1 DEF InHand
  <2> SUFFICES ASSUME NEW b \in Taken(Members(q)), b \notin Outstanding, b \notin InHand
               PROVE  b \in Lost \cup Stuck
    BY <2>1 DEF Taken
  <2> QED
    BY <1>2 DEF Taken, Lost, Stuck, Outstanding
<1> HIDE DEF Busy, Held, Mine, All3
<1>8. PICK S : S = Outstanding \cup Lost
  OBVIOUS
<1>9. PICK T : T = S \cup Stuck
  OBVIOUS
<1>10. PICK U : U = T \cup Held
  OBVIOUS
<1>11. IsFiniteSet(S) /\ Cardinality(S) <= Cardinality(Outstanding) + Cardinality(Lost)
  BY <1>3, <1>8, UnionSize
<1>12. IsFiniteSet(T) /\ Cardinality(T) <= Cardinality(S) + Cardinality(Stuck)
  BY <1>3, <1>9, <1>11, UnionSize
<1>13. IsFiniteSet(U) /\ Cardinality(U) <= Cardinality(T) + Cardinality(Held)
  BY <1>4, <1>10, <1>12, UnionSize
<1>14. IsFiniteSet(U \cup Mine) /\ Cardinality(U \cup Mine) <= Cardinality(U) + Cardinality(Mine)
  BY <1>5, <1>13, UnionSize
<1>15. Cardinality(Taken(Members(q))) <= Cardinality(U \cup Mine)
  BY <1>7, <1>8, <1>9, <1>10, <1>14, FS_Subset
<1>16. /\ Cardinality(Outstanding) \in Nat /\ Cardinality(Lost) \in Nat
       /\ Cardinality(Stuck) \in Nat /\ Cardinality(Busy) \in Nat /\ Cardinality(Asking) \in Nat
       /\ Cardinality(Held) \in Nat /\ Cardinality(S) \in Nat /\ Cardinality(T) \in Nat
       /\ Cardinality(U) \in Nat /\ Cardinality(U \cup Mine) \in Nat
       /\ Cardinality(Taken(Members(q))) \in Nat
  BY <1>3, <1>4, <1>11, <1>12, <1>13, <1>14, FS_CardinalityType, TakenSize
<1> QED
  <2>1. Cardinality(Taken(Members(q))) + Cardinality(Asking)
          <= Cardinality(Outstanding) + Cardinality(Lost) + Cardinality(Stuck)
             + Cardinality(All3) + Cardinality(Mine)
    BY <1>4, <1>5, <1>6, <1>11, <1>12, <1>13, <1>14, <1>15, <1>16
  <2> QED
    BY <1>5, <1>6, <1>16, <2>1 DEF All3

\* "For completed accepts, another AcceptEx is posted" (851): until an accept
\* fails or GetBufferObj finds no memory, the accepts outstanding or owed stay
\* as many as startup asked for or -oa allows, but for those that took a
\* BUFFER_OBJ with them.
THEOREM AcceptsStayKept == Spec /\ [][~GetFails]_vars => [](acceptErrors = 0 => AcceptsKept)
<1>1. KeepInv => (acceptErrors = 0 => AcceptsKept)
  <2> SUFFICES ASSUME KeepInv, acceptErrors = 0
               PROVE  AcceptsKept
    OBVIOUS
  <2>1. TypeInv /\ HandsEmpty /\ LoopOK
    BY DEF KeepInv, BalanceInv
  <2>2. PICK p, q : Lists(p, q) /\ Owned(p, q) /\ Kept(Members(q))
    BY DEF KeepInv
  <2> DEFINE on == Cardinality({w \in Workers :
                                  At(w, "remove") \/ At(w, "port") \/ At(w, "repost")})
             lost == Cardinality(Lost)
             stuck == Cardinality(Stuck)
             out == Cardinality(Outstanding)
             taken == Cardinality(Taken(Members(q)))
             asking == Cardinality(Asking)
  <2>3. taken + asking <= out + lost + stuck + on + (IF MAt("insert") \/ MAt("post") THEN 1 ELSE 0)
    BY <2>1, <2>2, TakenCovered
  <2>4. Fewest <= taken + RepostCount + asking + LoopDue
    BY <2>2 DEF Kept
  <2>5. taken \in Nat /\ asking \in Nat
    BY <2>1, TakenSize, AskingSize
  <2>6. RepostCount \in Nat /\ i \in Nat /\ limit \in Nat /\ Fewest \in Nat
    BY <2>1, ListenAssumption DEF TypeInv, TypeOK, Fewest
  <2>7. out \in Nat /\ on \in Nat /\ lost \in Nat /\ stuck \in Nat
    BY <2>1, <2>2, TakenCovered
  <2> HIDE DEF on, lost, stuck, out, taken, asking
  <2>8. out + Owed + lost + stuck + acceptErrors >= Fewest
    BY <2>3, <2>4, <2>5, <2>6, <2>7 DEF Owed, LoopDue, on, InLoop
  <2> QED
    BY <2>8 DEF AcceptsKept, Fewest, out, lost, stuck
<1> QED
  BY <1>1, KeepInit, KeepStep, PTL DEF Spec
=============================================================================

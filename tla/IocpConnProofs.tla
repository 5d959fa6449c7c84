--------------------------- MODULE IocpConnProofs ---------------------------
(***************************************************************************)
(* Theorems about IocpConn, for any number of threads, buffers, sockets    *)
(* and sends, and for every set of faults; the last three are about a      *)
(* server with one completion thread.                                      *)
(***************************************************************************)
EXTENDS IocpConn, FiniteSetTheorems, SequenceTheorems, TLAPS

USE DEF At, Goto, Hold, Cleanup, CanFail, Test, Own, Lists, Counters, kernelVars,
        listVars, freeVars, objVars, sockVars, localVars, history

(* A thread has a buffer in hand exactly at these labels, ... *)
Holding == {"enqueue", "setClosing", "decOut", "readClosing", "postRecv",
            "postSend", "errSend", "errRecv", "errFree"}

HandOK == \A w \in Workers : pc[w] \in Holding <=> buf[w] # NULL

(* ... and its pointers to SOCKET_OBJs are not null where it follows them. *)
Posting == {"postRecv", "incRecv", "postSend", "incSend", "incOut"}
OnSocket == {"setClosing", "zeroSend", "zeroRecv", "decOut", "readClosing",
             "tailRecv", "tailClosing", "cleanup", "free", "errSend", "errRecv"}

RefOK ==
  /\ \A b \in Buffers : posted[b] # "none" => bufSock[b] \in SockObjs
  /\ \A i \in 1 .. Len(pending) : bufSock[pending[i]] \in SockObjs
  /\ \A w \in Workers :
       /\ pc[w] \in Posting => sock[w] \in SockObjs
       /\ pc[w] \in OnSocket => sockobj[w] \in SockObjs
       /\ buf[w] # NULL => bufSock[buf[w]] \in SockObjs

TypeInv == TypeOK /\ HandOK /\ RefOK

LEMMA TypeInit == Init => TypeInv
  BY ConstAssumption DEF Init, TypeInv, TypeOK, HandOK,
     RefOK, Posting, OnSocket, Holding, Labels, Handles

LEMMA TypeAccept ==
  ASSUME TypeInv, NEW w \in Workers, Accept(w)
  PROVE  TypeInv'
<1> USE ConstAssumption DEF TypeInv, TypeOK, HandOK, RefOK, Posting, OnSocket,
                            Holding, Labels, Handles,
                            Connected, GetSocketObj, PopFreeSocket
<1>1. ASSUME NEW b \in Buffers, NEW o \in SockObjs, AcceptDone(w, b, o)
      PROVE  TypeInv'
  BY <1>1 DEF AcceptDone
<1>2. ASSUME NEW b \in Buffers, NEW o \in SockObjs, AcceptNoPort(w, b, o)
      PROVE  TypeInv'
  BY <1>2 DEF AcceptNoPort
<1>3. ASSUME NEW b \in Buffers, AcceptNoMemory(w, b)
      PROVE  TypeInv'
  BY <1>3 DEF AcceptNoMemory
<1> QED
  BY <1>1, <1>2, <1>3 DEF Accept

LEMMA TypeComplete ==
  ASSUME TypeInv, NEW w \in Workers, Complete(w)
  PROVE  TypeInv'
<1> USE ConstAssumption DEF TypeInv, TypeOK, HandOK, RefOK, Posting, OnSocket,
                            Holding, Labels, Handles, Take,
                            DecRecv, DecSend
<1>1. ASSUME NEW b \in Buffers, RecvDone(w, b)
      PROVE  TypeInv'
  <2>1. TypeOK'
    BY <1>1 DEF RecvDone
  <2>2. HandOK'
    BY <1>1 DEF RecvDone
  <2>3. RefOK'
    BY <1>1 DEF RecvDone
  <2> QED
    BY <2>1, <2>2, <2>3
<1>2. ASSUME NEW b \in Buffers, RecvZero(w, b)
      PROVE  TypeInv'
  BY <1>2 DEF RecvZero
<1>3. ASSUME NEW b \in Buffers, RecvError(w, b)
      PROVE  TypeInv'
  BY <1>3 DEF RecvError
<1>4. ASSUME NEW b \in Buffers, SendDone(w, b)
      PROVE  TypeInv'
  BY <1>4 DEF SendDone
<1>5. ASSUME NEW b \in Buffers, SendError(w, b)
      PROVE  TypeInv'
  BY <1>5 DEF SendError
<1> QED
  BY <1>1, <1>2, <1>3, <1>4, <1>5 DEF Complete

LEMMA TypeRun ==
  ASSUME TypeInv, NEW w \in Workers, Run(w)
  PROVE  TypeInv'
<1> USE ConstAssumption DEF TypeInv, TypeOK, HandOK, RefOK, Posting, OnSocket,
                            Holding, Labels, Handles, Zero,
                            FreeSocketObj, FreeBufferObj
<1>1. CASE ErrOther(w)
  <2>1. CASE FreeSocketObj(sockobj[w]) /\ pc[w] \in {"errSend", "errRecv"}
    BY <1>1, <2>1 DEF ErrOther
  <2>2. CASE UNCHANGED sockVars
    BY <1>1, <2>2 DEF ErrOther
  <2> QED
    BY <1>1, <2>1, <2>2 DEF ErrOther
<1>2. CASE ErrFree(w)
  BY <1>2 DEF ErrFree
<1>3. CASE Enqueue(w)
  BY <1>3 DEF Enqueue
<1>4. CASE SetClosing(w)
  BY <1>4 DEF SetClosing
<1>5. CASE ZeroSendNone(w)
  BY <1>5 DEF ZeroSendNone
<1>6. CASE ZeroSendSome(w)
  BY <1>6 DEF ZeroSendSome
<1>7. CASE ZeroRecv(w)
  BY <1>7 DEF ZeroRecv
<1>8. CASE DecOut(w)
  BY <1>8 DEF DecOut, ReturnSlot
<1>9. CASE ReceiveAgain(w)
  <2>1. TypeOK'
    BY <1>9 DEF ReceiveAgain
  <2>2. HandOK'
    BY <1>9 DEF ReceiveAgain
  <2>3. RefOK'
    BY <1>9 DEF ReceiveAgain
  <2> QED
    BY <2>1, <2>2, <2>3
<1>10. CASE ReceiveNoMore(w)
  BY <1>10 DEF ReceiveNoMore
<1>11. CASE PostRecv(w)
  <2>1. CASE Issue(w, "recv", "incRecv")
    <3>1. TypeOK'
      BY <1>11, <2>1 DEF PostRecv, Issue
    <3>2. HandOK'
      BY <1>11, <2>1 DEF PostRecv, Issue
    <3>3. RefOK'
      BY <1>11, <2>1 DEF PostRecv, Issue
    <3> QED
      BY <3>1, <3>2, <3>3
  <2>2. CASE IssueFails(w, "process") /\ UNCHANGED <<pool, broke>>
    BY <1>11, <2>2 DEF PostRecv, IssueFails
  <2> QED
    BY <1>11, <2>1, <2>2 DEF PostRecv
<1>12. CASE IncRecv(w)
  BY <1>12 DEF IncRecv, IncRecvTo
<1>13. CASE Process(w)
  BY <1>13 DEF Process, MayPost
<1>14. CASE DequeueNone(w)
  BY <1>14 DEF DequeueNone
<1>15. CASE Dequeue(w)
  BY <1>15 DEF Dequeue, PopPending
<1>16. CASE PostSend(w)
  <2>1. CASE Issue(w, "send", "incSend")
    <3>1. TypeOK'
      BY <1>16, <2>1 DEF PostSend, Issue
    <3>2. HandOK' /\ RefOK'
      BY <1>16, <2>1 DEF PostSend, Issue
    <3> QED
      BY <3>1, <3>2
  <2>2. CASE /\ IssueFails(w, "tailSend")
             /\ FreeBufferObj(buf[w]) /\ broke' = 1
    BY <1>16, <2>2 DEF PostSend, IssueFails
  <2> QED
    BY <1>16, <2>1, <2>2 DEF PostSend
<1>17. CASE IncSend(w)
  BY <1>17 DEF IncSend
<1>18. CASE IncOut(w)
  BY <1>18 DEF IncOut
<1>19. CASE TailSend(w)
  BY <1>19 DEF TailSend, NotIdle
<1>20. CASE TailRecv(w)
  BY <1>20 DEF TailRecv, NotIdle
<1>21. CASE TailClosing(w)
  BY <1>21 DEF TailClosing, NotIdle
<1>22. CASE CloseSocket(w)
  BY <1>22 DEF CloseSocket
<1>23. CASE Free(w)
  BY <1>23 DEF Free
<1> QED
  BY <1>1, <1>2, <1>3, <1>4, <1>5, <1>6, <1>7, <1>8, <1>9, <1>10, <1>11,
     <1>12, <1>13, <1>14, <1>15, <1>16, <1>17, <1>18, <1>19, <1>20, <1>21,
     <1>22, <1>23 DEF Run

LEMMA TypeStep == TypeInv /\ [Next]_vars => TypeInv'
<1> SUFFICES ASSUME TypeInv, [Next]_vars PROVE TypeInv'
  OBVIOUS
<1>1. CASE UNCHANGED vars
  BY <1>1 DEF vars, TypeInv, TypeOK, HandOK, RefOK, Posting, OnSocket, Holding
<1>2. CASE Next
  BY <1>2, TypeAccept, TypeComplete, TypeRun DEF Next
<1> QED
  BY <1>1, <1>2

(* Type correctness: every variable of the model keeps its type. *)
THEOREM TypeCorrect == Spec => []TypeOK
<1>1. Spec => []TypeInv
  BY TypeInit, TypeStep, PTL DEF Spec
<1> QED
  BY <1>1, PTL DEF TypeInv
-----------------------------------------------------------------------------
(* What a step does to the threads that are past the test of the throttle. *)
Step(w) == Accept(w) \/ Complete(w) \/ Run(w)

LEMMA ThrottleMoves ==
  ASSUME TypeInv, NEW w \in Workers, Step(w)
  PROVE  \/ gOutstandingSends' <= gOutstandingSends /\ Committed' \subseteq Committed
         \/ /\ gOutstandingSends < MaxSends /\ gOutstandingSends' = gOutstandingSends
         \/ /\ gOutstandingSends' = gOutstandingSends + 1
            /\ w \in Committed /\ Committed' = Committed \ {w}
<1> USE DEF TypeInv, TypeOK, Labels, Committed, ToWorkers
<1>1. CASE Accept(w)
  BY <1>1 DEF Accept, AcceptDone, AcceptNoPort, AcceptNoMemory
<1>2. CASE Complete(w)
  BY <1>2 DEF Complete, Take, RecvDone, RecvZero, RecvError, SendDone, SendError
<1>3. CASE Process(w)
  BY <1>3 DEF Process, MayPost
<1>4. CASE IncOut(w)
  BY <1>4 DEF IncOut
<1>5. CASE DecOut(w)
  BY <1>5 DEF DecOut, ReturnSlot
<1>6. CASE \/ ErrOther(w) \/ ErrFree(w) \/ Enqueue(w) \/ SetClosing(w)
          \/ ZeroSendNone(w) \/ ZeroSendSome(w) \/ ZeroRecv(w)
  BY <1>6 DEF ErrOther, ErrFree, Enqueue, SetClosing, ZeroSendNone, ZeroSendSome, ZeroRecv
<1>7. CASE \/ ReceiveAgain(w) \/ ReceiveNoMore(w) \/ PostRecv(w) \/ IncRecv(w)
          \/ DequeueNone(w) \/ Dequeue(w) \/ PostSend(w) \/ IncSend(w)
  BY <1>7 DEF ReceiveAgain, ReceiveNoMore, PostRecv, IncRecv, IncRecvTo, DequeueNone, Dequeue,
     PostSend, IncSend, Issue, IssueFails
<1>8. CASE TailSend(w) \/ TailRecv(w) \/ TailClosing(w) \/ CloseSocket(w) \/ Free(w)
  BY <1>8 DEF TailSend, TailRecv, TailClosing, NotIdle, CloseSocket, Free
<1> QED
  BY <1>1, <1>2, <1>3, <1>4, <1>5, <1>6, <1>7, <1>8 DEF Step, Run

LEMMA SendBoundStep == TypeInv /\ SendBound /\ [Next]_vars => SendBound'
<1> SUFFICES ASSUME TypeInv, SendBound, [Next]_vars PROVE SendBound'
  OBVIOUS
<1>1. Committed' \subseteq Workers /\ Committed \subseteq Workers
  BY DEF Committed, ToWorkers
<1>2. /\ IsFiniteSet(Committed) /\ IsFiniteSet(Committed')
      /\ Cardinality(Committed) \in Nat /\ Cardinality(Committed') \in Nat
      /\ Cardinality(Workers) \in Nat
      /\ Cardinality(Committed') <= Cardinality(Workers)
  BY <1>1, ConstAssumption, FS_Subset, FS_CardinalityType
<1>3. gOutstandingSends \in Int /\ gOutstandingSends' \in Int /\ MaxSends \in Int
  BY TypeStep, ConstAssumption DEF TypeInv, TypeOK
<1>4. CASE gOutstandingSends' <= gOutstandingSends /\ Committed' \subseteq Committed
  <2>1. Cardinality(Committed') <= Cardinality(Committed)
    BY <1>2, <1>4, FS_Subset
  <2> QED
    BY <1>2, <1>3, <1>4, <2>1 DEF SendBound
<1>5. CASE gOutstandingSends < MaxSends /\ gOutstandingSends' = gOutstandingSends
  BY <1>2, <1>3, <1>5 DEF SendBound
<1>6. ASSUME NEW w \in Workers, gOutstandingSends' = gOutstandingSends + 1,
             w \in Committed, Committed' = Committed \ {w}
      PROVE  SendBound'
  <2>1. Cardinality(Committed') = Cardinality(Committed) - 1
    BY <1>2, <1>6, FS_RemoveElement
  <2> QED
    BY <1>2, <1>3, <1>6, <2>1 DEF SendBound
<1>7. CASE UNCHANGED vars
  BY <1>4, <1>7 DEF vars, Committed, ToWorkers, TypeInv, TypeOK
<1>8. CASE Next
  BY <1>4, <1>5, <1>6, <1>8, ThrottleMoves DEF Next, Step
<1> QED
  BY <1>7, <1>8

(* The throttle: however the threads interleave and whatever fails,        *)
(* gOutstandingSends passes gMaxSends by fewer than the number of threads. *)
THEOREM SendsBounded == Spec => []SendBound
<1>1. Init => SendBound
  <2> SUFFICES ASSUME Init PROVE SendBound
    OBVIOUS
  <2>1. Committed = {}
    BY DEF Init, Committed, ToWorkers
  <2>2. Cardinality(Committed) = 0 /\ Cardinality(Workers) \in Nat /\ Cardinality(Workers) # 0
    BY <2>1, ConstAssumption, FS_EmptySet, FS_CardinalityType
  <2> QED
    BY <2>2, ConstAssumption DEF Init, SendBound
<1>2. Spec => []TypeInv
  BY TypeInit, TypeStep, PTL DEF Spec
<1> QED
  BY <1>1, <1>2, SendBoundStep, PTL DEF Spec
-----------------------------------------------------------------------------
LEMMA NoStrandedStep == TypeInv /\ NoStrandedSend /\ [Next]_vars => NoStrandedSend'
<1> SUFFICES ASSUME TypeInv, NoStrandedSend, [Next]_vars PROVE NoStrandedSend'
  OBVIOUS
<1> USE DEF TypeInv, TypeOK, Labels, NoStrandedSend, ToWorkers, Looping
<1>1. CASE UNCHANGED vars
  BY <1>1 DEF vars
<1>2. CASE Next
  <2> PICK w \in Workers : Step(w)
    BY <1>2 DEF Next, Step
  (* The thread is still in the loop, or will come to it, ... *)
  <2>1. CASE pc'[w] \in Looping
    BY <2>1
  (* ... or it was not in it and touches neither the list nor the counter. *)
  <2>2. ASSUME pc[w] \notin Looping, UNCHANGED <<pending, gOutstandingSends, broke>>,
               \A v \in Workers \ {w} : pc'[v] = pc[v]
        PROVE  NoStrandedSend'
    BY <2>2
  <2>3. CASE Accept(w)
    BY <2>1, <2>2, <2>3 DEF Accept, AcceptDone, AcceptNoPort, AcceptNoMemory
  <2>4. CASE Complete(w)
    BY <2>1, <2>2, <2>4 DEF Complete, Take, RecvDone, RecvZero, RecvError, SendDone, SendError
  <2>5. CASE ErrOther(w) \/ ErrFree(w)
    BY <2>2, <2>5 DEF ErrOther, ErrFree
  <2>6. CASE TailSend(w) \/ TailRecv(w) \/ TailClosing(w) \/ CloseSocket(w) \/ Free(w)
    BY <2>2, <2>6 DEF TailSend, TailRecv, TailClosing, CloseSocket, Free, NotIdle
  <2>7. CASE \/ Enqueue(w) \/ SetClosing(w) \/ ZeroSendNone(w) \/ ZeroSendSome(w)
            \/ ZeroRecv(w) \/ DecOut(w) \/ ReceiveAgain(w) \/ ReceiveNoMore(w)
            \/ IncRecv(w) \/ Dequeue(w) \/ IncSend(w) \/ IncOut(w)
    BY <2>1, <2>7 DEF Enqueue, SetClosing, ZeroSendNone, ZeroSendSome, ZeroRecv, DecOut,
       ReceiveAgain, ReceiveNoMore, IncRecv, IncRecvTo, Dequeue, IncSend, IncOut
  <2>8. CASE PostRecv(w)
    BY <2>1, <2>8 DEF PostRecv, Issue, IssueFails
  (* It leaves the loop only at the limit, with an empty list, or broken. *)
  <2>9. CASE Process(w)
    BY <2>1, <2>9 DEF Process, MayPost
  <2>10. CASE DequeueNone(w)
    BY <2>10 DEF DequeueNone
  <2>11. CASE PostSend(w)
    BY <2>1, <2>11 DEF PostSend, Issue, IssueFails
  <2> QED
    BY <2>3, <2>4, <2>5, <2>6, <2>7, <2>8, <2>9, <2>10, <2>11 DEF Step, Run
<1> QED
  BY <1>1, <1>2

(* No send is stranded: while the list is not empty and the limit is not   *)
(* reached a thread is on its way through ProcessPendingOperations, until  *)
(* a failed PostSend breaks out of its loop.                               *)
THEOREM SendsNotStranded == Spec => []NoStrandedSend
<1>1. Init => NoStrandedSend
  BY DEF Init, NoStrandedSend
<1>2. Spec => []TypeInv
  BY TypeInit, TypeStep, PTL DEF Spec
<1> QED
  BY <1>1, <1>2, NoStrandedStep, PTL DEF Spec
-----------------------------------------------------------------------------
(* The elements of a sequence without repetitions, after Append and Tail. *)
Elements(q) == {q[i] : i \in 1 .. Len(q)}
NoDups(q) == \A i, j \in 1 .. Len(q) : q[i] = q[j] => i = j

LEMMA AppendNoDups ==
  ASSUME NEW S, NEW q \in Seq(S), NEW e \in S, NoDups(q), e \notin Elements(q)
  PROVE  NoDups(Append(q, e)) /\ Elements(Append(q, e)) = Elements(q) \cup {e}
  BY AppendProperties, LenProperties DEF NoDups, Elements

LEMMA TailNoDups ==
  ASSUME NEW S, NEW q \in Seq(S), q # <<>>, NoDups(q)
  PROVE  /\ NoDups(Tail(q)) /\ Head(q) \in S
         /\ Head(q) \in Elements(q)
         /\ Elements(Tail(q)) = Elements(q) \ {Head(q)}
<1>1. /\ Len(q) \in Nat \ {0} /\ Len(Tail(q)) = Len(q) - 1
      /\ Head(q) = q[1] /\ Head(q) \in S
      /\ \A i \in 1 .. Len(Tail(q)) : Tail(q)[i] = q[i + 1]
  BY HeadTailProperties, EmptySeq, LenProperties
<1>2. Elements(Tail(q)) = {q[i] : i \in 2 .. Len(q)}
  <2>1. ASSUME NEW x \in Elements(Tail(q)) PROVE x \in {q[i] : i \in 2 .. Len(q)}
    BY <1>1, <2>1 DEF Elements
  <2>2. ASSUME NEW i \in 2 .. Len(q) PROVE q[i] \in Elements(Tail(q))
    <3>1. i - 1 \in 1 .. Len(Tail(q)) /\ Tail(q)[i - 1] = q[i]
      BY <1>1
    <3> QED
      BY <3>1 DEF Elements
  <2> QED
    BY <2>1, <2>2
<1> QED
  BY <1>1, <1>2 DEF NoDups, Elements

LEMMA OwnedStep == TypeInv /\ BufferOwned /\ [Next]_vars => BufferOwned'
<1> SUFFICES ASSUME TypeInv, BufferOwned, [Next]_vars PROVE BufferOwned'
  OBVIOUS
<1>0. NULL \notin Buffers
  BY ConstAssumption
<1> USE DEF TypeInv, TypeOK, Labels, BufferOwned, Queued
<1>1. CASE UNCHANGED <<pool, posted, pending, buf>>
  BY <1>1
<1>2. CASE Next
  <2> PICK w \in Workers : Step(w)
    BY <1>2 DEF Next, Step
  (* The ways a buffer changes hands. *)
  <2>1. ASSUME NEW b \in pool, buf[w] = NULL, pool' = pool \ {b},
               buf' = [buf EXCEPT ![w] = b], UNCHANGED <<posted, pending>>
        PROVE  BufferOwned'
    BY <1>0, <2>1
  <2>2. ASSUME NEW b \in pool, pool' = pool \ {b}, UNCHANGED <<posted, pending, buf>>
        PROVE  BufferOwned'
    BY <2>2
  <2>3. ASSUME NEW b \in Buffers, posted[b] # "none", buf[w] = NULL,
               posted' = [posted EXCEPT ![b] = "none"],
               buf' = [buf EXCEPT ![w] = b], UNCHANGED <<pool, pending>>
        PROVE  BufferOwned'
    BY <1>0, <2>3
  <2>4. ASSUME buf[w] # NULL, pool' = pool \cup {buf[w]},
               buf' = [buf EXCEPT ![w] = NULL], UNCHANGED <<posted, pending>>
        PROVE  BufferOwned'
    BY <2>4
  <2>5. ASSUME buf' = [buf EXCEPT ![w] = NULL], UNCHANGED <<pool, posted, pending>>
        PROVE  BufferOwned'
    BY <2>5
  <2>6. ASSUME buf[w] # NULL, NEW op, posted' = [posted EXCEPT ![buf[w]] = op],
               buf' = [buf EXCEPT ![w] = NULL], UNCHANGED <<pool, pending>>
        PROVE  BufferOwned'
    BY <2>6
  <2>a. Queued = Elements(pending) /\ Queued' = Elements(pending')
    BY DEF Elements
  <2>b. pending \in Seq(Buffers) /\ NoDups(pending)
    BY DEF NoDups
  (* The same for the list, through its elements. *)
  <2>c. ASSUME NoDups(pending'),
               \A b \in Elements(pending') : posted'[b] = "none" /\ b \notin pool',
               \A v \in Workers : buf'[v] # NULL => buf'[v] \notin Elements(pending'),
               UNCHANGED <<pool, posted>>,
               \A v \in Workers : buf'[v] # NULL =>
                 /\ buf'[v] \notin pool /\ posted[buf'[v]] = "none"
                 /\ \A u \in Workers : buf'[u] = buf'[v] => u = v
        PROVE  BufferOwned'
    BY <2>a, <2>c DEF NoDups
  <2>7. CASE Enqueue(w)
    <3>1. /\ buf[w] \in Buffers /\ pending' = Append(pending, buf[w]) /\ buf[w] # NULL
          /\ buf' = [buf EXCEPT ![w] = NULL] /\ UNCHANGED <<pool, posted>>
      BY <2>7 DEF Enqueue, HandOK, Holding
    <3>2. buf[w] \notin Elements(pending)
      BY <3>1, <2>a
    <3>3. NoDups(pending') /\ Elements(pending') = Elements(pending) \cup {buf[w]}
      BY <2>b, <3>1, <3>2, AppendNoDups
    <3>4. \A b \in Elements(pending') : posted'[b] = "none" /\ b \notin pool'
      BY <2>a, <3>1, <3>3
    <3>5. ASSUME NEW v \in Workers, buf'[v] # NULL
          PROVE  buf'[v] \notin Elements(pending')
      <4>1. v # w /\ buf'[v] = buf[v]
        BY <3>1, <3>5
      <4>2. buf[v] # buf[w] /\ buf[v] \notin Elements(pending)
        BY <2>a, <3>1, <3>5, <4>1
      <4> QED
        BY <3>3, <4>1, <4>2
    <3> QED
      BY <2>c, <3>1, <3>3, <3>4, <3>5
  <2>8. CASE Dequeue(w)
    <3>1. /\ pending # <<>> /\ pending' = Tail(pending) /\ buf[w] = NULL
          /\ buf' = [buf EXCEPT ![w] = Head(pending)] /\ UNCHANGED <<pool, posted>>
      BY <2>8 DEF Dequeue, PopPending, HandOK, Holding
    <3>2. /\ NoDups(pending') /\ Elements(pending') = Elements(pending) \ {Head(pending)}
          /\ Head(pending) \in Elements(pending) /\ Head(pending) \in Buffers
      BY <2>b, <3>1, TailNoDups
    <3>3. \A b \in Elements(pending') : posted'[b] = "none" /\ b \notin pool'
      BY <2>a, <3>1, <3>2
    <3>4. \A v \in Workers : buf'[v] # NULL => buf'[v] \notin Elements(pending')
      BY <2>a, <3>1, <3>2
    <3>5. \A v \in Workers : buf'[v] # NULL =>
            /\ buf'[v] \notin pool /\ posted[buf'[v]] = "none"
            /\ \A u \in Workers : buf'[u] = buf'[v] => u = v
      BY <1>0, <2>a, <3>1, <3>2
    <3> QED
      BY <2>c, <3>1, <3>2, <3>3, <3>4, <3>5
  <2>9. CASE Accept(w)
    BY <2>1, <2>2, <1>1, <2>9 DEF Accept, AcceptDone, AcceptNoPort, AcceptNoMemory, HandOK, Holding
  <2>10. CASE Complete(w)
    BY <2>3, <2>10 DEF Complete, Take, RecvDone, RecvZero, RecvError, SendDone, SendError,
       HandOK, Holding
  <2>11. CASE ErrFree(w) \/ SetClosing(w)
    BY <2>4, <2>11 DEF ErrFree, SetClosing, FreeBufferObj, HandOK, Holding
  <2>12. CASE ReceiveNoMore(w)
    BY <2>5, <2>12 DEF ReceiveNoMore
  <2>13. CASE PostRecv(w)
    BY <2>5, <2>6, <2>13 DEF PostRecv, Issue, IssueFails, HandOK, Holding
  <2>14. CASE PostSend(w)
    BY <2>4, <2>6, <2>14 DEF PostSend, Issue, IssueFails, FreeBufferObj, HandOK, Holding
  <2>15. CASE \/ ErrOther(w) \/ ZeroSendNone(w) \/ ZeroSendSome(w) \/ ZeroRecv(w)
             \/ DecOut(w) \/ ReceiveAgain(w) \/ IncRecv(w) \/ Process(w) \/ DequeueNone(w)
             \/ IncSend(w) \/ IncOut(w) \/ TailSend(w) \/ TailRecv(w) \/ TailClosing(w)
             \/ CloseSocket(w) \/ Free(w)
    BY <1>1, <2>15 DEF ErrOther, ZeroSendNone, ZeroSendSome, ZeroRecv, DecOut, ReceiveAgain,
       IncRecv, IncRecvTo, Process, DequeueNone, IncSend, IncOut, TailSend, TailRecv,
       TailClosing, CloseSocket, Free
  <2> QED
    BY <2>7, <2>8, <2>9, <2>10, <2>11, <2>12, <2>13, <2>14, <2>15 DEF Step, Run
<1> QED
  BY <1>1, <1>2 DEF vars

(* Every buffer has one owner: lookaside list, kernel, send list or thread. *)
THEOREM BuffersOwned == Spec => []BufferOwned
<1>1. Init => BufferOwned
  BY DEF Init, BufferOwned, Queued
<1>2. Spec => []TypeInv
  BY TypeInit, TypeStep, PTL DEF Spec
<1> QED
  BY <1>1, <1>2, OwnedStep, PTL DEF Spec
-----------------------------------------------------------------------------
(* The balance of gOutstandingSends. *)
Issuing == ToWorkers({"incSend", "incOut"})
Returning == ToWorkers({"decOut"})
Sending == Posted("send")

LEMMA BalanceMoves ==
  ASSUME TypeInv, BufferOwned, NEW w \in Workers, Step(w)
  PROVE  \/ UNCHANGED <<Sending, Issuing, Returning, gOutstandingSends, errSends>>
         \/ /\ \E b \in Sending : Sending' = Sending \ {b}
            /\ w \notin Returning /\ Returning' = Returning \cup {w}
            /\ UNCHANGED <<Issuing, gOutstandingSends, errSends>>
         \/ /\ \E b \in Sending : Sending' = Sending \ {b}
            /\ errSends' = errSends + 1
            /\ UNCHANGED <<Issuing, Returning, gOutstandingSends>>
         \/ /\ \E b \in Buffers \ Sending : Sending' = Sending \cup {b}
            /\ w \notin Issuing /\ Issuing' = Issuing \cup {w}
            /\ UNCHANGED <<Returning, gOutstandingSends, errSends>>
         \/ /\ w \in Issuing /\ Issuing' = Issuing \ {w}
            /\ gOutstandingSends' = gOutstandingSends + 1
            /\ UNCHANGED <<Sending, Returning, errSends>>
         \/ /\ w \in Returning /\ Returning' = Returning \ {w}
            /\ gOutstandingSends' = gOutstandingSends - 1
            /\ UNCHANGED <<Sending, Issuing, errSends>>
<1> USE DEF TypeInv, TypeOK, Labels, Issuing, Returning, Sending, ToWorkers, Posted
<1>1. CASE Accept(w)
  BY <1>1 DEF Accept, AcceptDone, AcceptNoPort, AcceptNoMemory
<1>2. ASSUME NEW b \in Buffers, RecvDone(w, b) \/ RecvZero(w, b) \/ RecvError(w, b)
      PROVE  UNCHANGED <<Sending, Issuing, Returning, gOutstandingSends, errSends>>
  BY <1>2 DEF Take, RecvDone, RecvZero, RecvError, DecRecv
<1>3. ASSUME NEW b \in Buffers, SendDone(w, b)
      PROVE  /\ b \in Sending /\ Sending' = Sending \ {b}
             /\ w \notin Returning /\ Returning' = Returning \cup {w}
             /\ UNCHANGED <<Issuing, gOutstandingSends, errSends>>
  BY <1>3 DEF Take, SendDone
<1>4. ASSUME NEW b \in Buffers, SendError(w, b)
      PROVE  /\ b \in Sending /\ Sending' = Sending \ {b}
             /\ errSends' = errSends + 1
             /\ UNCHANGED <<Issuing, Returning, gOutstandingSends>>
  BY <1>4 DEF Take, SendError
<1>5. CASE IncOut(w)
  BY <1>5 DEF IncOut
<1>6. CASE DecOut(w)
  BY <1>6 DEF DecOut, ReturnSlot
<1>7. CASE PostSend(w)
  <2>1. CASE Issue(w, "send", "incSend")
    <3>1. buf[w] \in Buffers /\ posted[buf[w]] = "none"
      BY <1>7 DEF PostSend, HandOK, Holding, BufferOwned
    <3>2. /\ Sending' = Sending \cup {buf[w]} /\ buf[w] \notin Sending
          /\ w \notin Issuing /\ Issuing' = Issuing \cup {w}
          /\ UNCHANGED <<Returning, gOutstandingSends, errSends>>
      BY <1>7, <2>1, <3>1 DEF PostSend, Issue
    <3> QED
      BY <3>1, <3>2
  <2>2. CASE IssueFails(w, "tailSend")
    BY <1>7, <2>2 DEF PostSend, IssueFails
  <2> QED
    BY <1>7, <2>1, <2>2 DEF PostSend
<1>8. CASE PostRecv(w)
  <2>1. CASE Issue(w, "recv", "incRecv")
    <3>1. buf[w] \in Buffers /\ posted[buf[w]] = "none"
      BY <1>8 DEF PostRecv, HandOK, Holding, BufferOwned
    <3> QED
      BY <1>8, <2>1, <3>1 DEF PostRecv, Issue
  <2>2. CASE IssueFails(w, "process")
    BY <1>8, <2>2 DEF PostRecv, IssueFails
  <2> QED
    BY <1>8, <2>1, <2>2 DEF PostRecv
<1>9. CASE \/ ErrOther(w) \/ ErrFree(w) \/ Enqueue(w) \/ SetClosing(w)
          \/ ZeroSendNone(w) \/ ZeroSendSome(w) \/ ZeroRecv(w) \/ IncSend(w)
  BY <1>9 DEF ErrOther, ErrFree, Enqueue, SetClosing, ZeroSendNone, ZeroSendSome,
     ZeroRecv, IncSend
<1>10. CASE ReceiveAgain(w) \/ ReceiveNoMore(w) \/ IncRecv(w) \/ DequeueNone(w) \/ Dequeue(w)
  BY <1>10 DEF ReceiveAgain, ReceiveNoMore, IncRecv, IncRecvTo, DequeueNone, Dequeue
<1>11. CASE \/ Process(w) \/ TailSend(w) \/ TailRecv(w) \/ TailClosing(w)
           \/ CloseSocket(w) \/ Free(w)
  BY <1>11 DEF Process, TailSend, TailRecv, TailClosing, NotIdle, CloseSocket, Free
<1>12. CASE Complete(w)
  <2> PICK b \in Buffers : \/ RecvDone(w, b) \/ RecvZero(w, b) \/ RecvError(w, b)
                           \/ SendDone(w, b) \/ SendError(w, b)
    BY <1>12 DEF Complete
  <2> HIDE DEF Issuing, Returning, Sending
  <2> QED
    BY <1>2, <1>3, <1>4
<1> QED
  BY <1>1, <1>5, <1>6, <1>7, <1>8, <1>9, <1>10, <1>11, <1>12 DEF Step, Run

LEMMA BalanceStep == TypeInv /\ BufferOwned /\ OutBalance /\ [Next]_vars => OutBalance'
<1> SUFFICES ASSUME TypeInv, BufferOwned, OutBalance, [Next]_vars PROVE OutBalance'
  OBVIOUS
<1>1. OutBalance <=> gOutstandingSends + Cardinality(Issuing)
                       = Cardinality(Sending) + Cardinality(Returning) + errSends
  BY DEF OutBalance, Issuing, Returning, Sending
<1>2. OutBalance' <=> gOutstandingSends' + Cardinality(Issuing')
                        = Cardinality(Sending') + Cardinality(Returning') + errSends'
  BY DEF OutBalance, Issuing, Returning, Sending
<1>3. /\ IsFiniteSet(Issuing) /\ IsFiniteSet(Returning) /\ IsFiniteSet(Sending)
      /\ Cardinality(Issuing) \in Nat /\ Cardinality(Returning) \in Nat
      /\ Cardinality(Sending) \in Nat
  <2>1. Issuing \subseteq Workers /\ Returning \subseteq Workers /\ Sending \subseteq Buffers
    BY DEF Issuing, Returning, Sending, ToWorkers, Posted
  <2> QED
    BY <2>1, ConstAssumption, FS_Subset, FS_CardinalityType
<1>4. gOutstandingSends \in Int /\ errSends \in Nat
  BY DEF TypeInv, TypeOK
<1>5. CASE UNCHANGED <<Sending, Issuing, Returning, gOutstandingSends, errSends>>
  BY <1>1, <1>2, <1>5
<1>6. CASE UNCHANGED vars
  BY <1>5, <1>6 DEF vars, Sending, Issuing, Returning, ToWorkers, Posted
<1>7. CASE Next
  <2> PICK w \in Workers : Step(w)
    BY <1>7 DEF Next, Step
  <2>1. ASSUME NEW S, NEW x, IsFiniteSet(S), x \in S
        PROVE  Cardinality(S \ {x}) = Cardinality(S) - 1
    BY <2>1, FS_RemoveElement
  <2>2. ASSUME NEW S, NEW x, IsFiniteSet(S), x \notin S
        PROVE  Cardinality(S \cup {x}) = Cardinality(S) + 1
    BY <2>2, FS_AddElement
  <2> QED
    BY <1>1, <1>2, <1>3, <1>4, <1>5, <2>1, <2>2, BalanceMoves
<1> QED
  BY <1>6, <1>7

(* gOutstandingSends is the sends of the kernel, corrected by the threads  *)
(* between call and counter, plus every send that ever failed.             *)
THEOREM OutBalanced == Spec => []OutBalance
<1>1. Init => OutBalance
  <2> SUFFICES ASSUME Init PROVE OutBalance
    OBVIOUS
  <2>1. Posted("send") = {} /\ ToWorkers({"incSend", "incOut"}) = {} /\ ToWorkers({"decOut"}) = {}
    BY DEF Init, Posted, ToWorkers
  <2>2. Cardinality({}) = 0 /\ gOutstandingSends = 0 /\ errSends = 0
    BY FS_EmptySet DEF Init
  <2> QED
    BY <2>1, <2>2 DEF OutBalance
<1>2. Spec => []TypeInv
  BY TypeInit, TypeStep, PTL DEF Spec
<1> QED
  BY <1>1, <1>2, BuffersOwned, BalanceStep, PTL DEF Spec
-----------------------------------------------------------------------------
(* One thread: nothing else moves between its reads and its writes, so the *)
(* tests of HandleIo see what they ask for.  OneInv is the invariant.  A   *)
(* buffer is live while it is outstanding, queued, or in the thread's hand *)
(* and not about to be freed.                                              *)
Only == CHOOSE w \in Workers : TRUE
Live(b) == posted[b] # "none" \/ b \in Queued \/ (buf[Only] = b /\ pc[Only] # "errFree")
Has(op, o) == \E b \in Buffers : posted[b] = op /\ bufSock[b] = o
HasQueued(o) == \E b \in Queued : bufSock[b] = o
On(l, o) == pc[Only] = l /\ sock[Only] = o

(* The lookaside list of SOCKET_OBJs: each object of it is the next of at  *)
(* most one, and the first of none.                                        *)
Spare == {o \in SockObjs : s[o] = "0"} \ heap
SpareOK ==
  /\ \A o \in heap : s[o] = "0"
  /\ gFreeSocketList \in Spare \cup {NULL}
  /\ \A o \in Spare : /\ next[o] \in Spare \cup {NULL}
                      /\ next[o] # NULL => next[o] # gFreeSocketList
  /\ \A o, p \in Spare : next[o] # NULL /\ next[o] = next[p] => o = p

\* A live buffer is of a socket in use, and the only one of it.
OneEach ==
  /\ \A b \in Buffers : Live(b) => s[bufSock[b]] # "0"
  /\ \A b, c \in Buffers : Live(b) /\ Live(c) /\ bufSock[b] = bufSock[c] => b = c

\* The counters are what they count, with what is posted and not counted.
Tally(has, late) == (IF has THEN 1 ELSE 0) - (IF late THEN 1 ELSE 0)
CountOf(o) ==
  /\ OutstandingRecv[o] = Tally(Has("recv", o), On("incRecv", o))
  /\ OutstandingSend[o] = Tally(Has("send", o), On("incSend", o))
  /\ PendingSend[o] = Tally(HasQueued(o), FALSE)
CountOK == \A o \in SockObjs : CountOf(o)

\* The pointers of HandleIo, label by label.
AboutBuf == {"setClosing", "decOut", "readClosing", "postRecv", "errSend", "errRecv"}
PointersOK ==
  /\ pc[Only] \notin {"wait", "errFree"} /\ sockobj[Only] # NULL => s[sockobj[Only]] # "0"
  /\ pc[Only] \in AboutBuf => bufSock[buf[Only]] = sockobj[Only]
  /\ pc[Only] = "postRecv" => sock[Only] = sockobj[Only]
  /\ pc[Only] = "postSend" => sock[Only] = bufSock[buf[Only]]
  /\ pc[Only] = "incRecv" => Has("recv", sock[Only])
  /\ pc[Only] = "incSend" => Has("send", sock[Only])

\* A closing socket has no live buffer, and HandleIo will free it.
ToEnd == {"process", "dequeue", "postSend", "incSend", "incOut", "tailSend", "tailRecv",
          "tailClosing", "cleanup", "free"}
Shut(o) ==
  /\ sockobj[Only] = o
  /\ pc[Only] \in {"zeroSend", "zeroRecv"} \/ (bCleanup[Only] = 1 /\ pc[Only] \in ToEnd)
  /\ \A b \in Buffers : Live(b) => bufSock[b] # o
ClosingOK ==
  /\ \A o \in SockObjs : bClosing[o] = 1 => Shut(o)
  /\ pc[Only] \in {"zeroSend", "zeroRecv", "cleanup", "free"} => bClosing[sockobj[Only]] = 1
  /\ pc[Only] # "wait" /\ bCleanup[Only] = 1
       => sockobj[Only] \in SockObjs /\ bClosing[sockobj[Only]] = 1
  /\ \A o \in SockObjs : s[o] = "INVALID_SOCKET" => pc[Only] = "free" /\ sockobj[Only] = o

OneInv == SpareOK /\ OneEach /\ CountOK /\ PointersOK /\ ClosingOK
OneState == TypeInv /\ BufferOwned /\ OneInv

LEMMA Alone == Cardinality(Workers) = 1 => Workers = {Only}
<1> SUFFICES ASSUME Cardinality(Workers) = 1 PROVE Workers = {Only}
  OBVIOUS
<1>1. \E w : Workers = {w}
  BY ConstAssumption, FS_Singleton
<1>2. Only \in Workers
  BY <1>1 DEF Only
<1> QED
  BY <1>1, <1>2

(* Who has a buffer, and what a step does to the list of sends. *)
LEMMA OwnedOne ==
  ASSUME TypeInv, BufferOwned, Workers = {Only}
  PROVE  /\ Queued \subseteq Buffers
         /\ \A b \in pool : posted[b] = "none" /\ b \notin Queued
         /\ \A b \in Queued : posted[b] = "none"
         /\ buf[Only] # NULL => /\ buf[Only] \in Buffers /\ buf[Only] \notin pool
                                /\ buf[Only] \notin Queued /\ posted[buf[Only]] = "none"
         /\ pc[Only] \in Holding <=> buf[Only] # NULL
         /\ \A b \in Queued : bufSock[b] \in SockObjs
  BY DEF TypeInv, TypeOK, BufferOwned, HandOK, RefOK, Queued

LEMMA QueueSame == pending' = pending => Queued' = Queued
  BY DEF Queued

LEMMA QueueIn ==
  ASSUME TypeInv, BufferOwned, NEW w \in Workers, Enqueue(w)
  PROVE  Queued' = Queued \cup {buf[w]}
<1>1. buf[w] \in Buffers /\ buf[w] \notin Queued /\ pending' = Append(pending, buf[w])
  BY DEF Enqueue, TypeInv, TypeOK, HandOK, Holding, BufferOwned
<1>2. pending \in Seq(Buffers) /\ NoDups(pending)
  BY DEF TypeInv, TypeOK, BufferOwned, NoDups
<1>3. Queued = Elements(pending) /\ Queued' = Elements(pending')
  BY DEF Queued, Elements
<1> QED
  BY <1>1, <1>2, <1>3, AppendNoDups

LEMMA QueueOut ==
  ASSUME TypeInv, BufferOwned, NEW w \in Workers, Dequeue(w)
  PROVE  Head(pending) \in Queued /\ Queued' = Queued \ {Head(pending)}
<1>1. pending # <<>> /\ pending' = Tail(pending)
  BY DEF Dequeue, PopPending
<1>2. pending \in Seq(Buffers) /\ NoDups(pending)
  BY DEF TypeInv, TypeOK, BufferOwned, NoDups
<1>3. Queued = Elements(pending) /\ Queued' = Elements(pending')
  BY DEF Queued, Elements
<1> QED
  BY <1>1, <1>2, <1>3, TailNoDups

(* The lookaside list. *)
LEMMA GetSpare ==
  ASSUME TypeInv, SpareOK, NEW o \in SockObjs, GetSocketObj(o)
  PROVE  /\ SpareOK' /\ s[o] = "0"
         /\ s' = [s EXCEPT ![o] = "open"]
  BY ConstAssumption DEF TypeInv, TypeOK, SpareOK, Spare, GetSocketObj, PopFreeSocket

LEMMA PutSpare ==
  ASSUME TypeInv, SpareOK, NEW o \in SockObjs, s[o] # "0", FreeSocketObj(o)
  PROVE  SpareOK'
  BY ConstAssumption DEF TypeInv, TypeOK, SpareOK, Spare, FreeSocketObj, Zero

LEMMA KeepSpare ==
  ASSUME SpareOK, heap \subseteq SockObjs, UNCHANGED freeVars,
         \A o \in SockObjs : s'[o] = "0" <=> s[o] = "0"
  PROVE  SpareOK'
  BY DEF SpareOK, Spare

(* What is live.  Only a new connection makes a buffer live; any other step *)
(* leaves a live buffer with the socket it had.                             *)
LEMMA LiveMoves ==
  ASSUME OneState, Workers = {Only}, Step(Only),
         ~\E b \in Buffers, o \in SockObjs : AcceptDone(Only, b, o)
  PROVE  \A b \in Buffers : Live(b)' => Live(b) /\ bufSock'[b] = bufSock[b]
<1> USE OwnedOne, ConstAssumption
    DEF OneState, OneInv, PointersOK, AboutBuf, TypeInv, TypeOK, Live, Labels, Holding
<1>1. CASE Accept(Only)
  BY <1>1, QueueSame DEF Accept, AcceptNoPort, AcceptNoMemory
<1>2. CASE Complete(Only)
  BY <1>2, QueueSame DEF Complete, Take, RecvDone, RecvZero, RecvError, SendDone, SendError
<1>3. CASE Enqueue(Only)
  <2>1. /\ buf[Only] # NULL /\ UNCHANGED <<posted, bufSock>>
        /\ buf' = [buf EXCEPT ![Only] = NULL] /\ pc[Only] = "enqueue"
    BY <1>3 DEF Enqueue
  <2>2. Queued' = Queued \cup {buf[Only]}
    BY <1>3, QueueIn
  <2> QED
    BY <2>1, <2>2
<1>4. CASE Dequeue(Only)
  <2>1. /\ UNCHANGED <<posted, bufSock>> /\ buf' = [buf EXCEPT ![Only] = Head(pending)]
    BY <1>4 DEF Dequeue
  <2>2. Head(pending) \in Queued /\ Queued' = Queued \ {Head(pending)}
    BY <1>4, QueueOut
  <2> QED
    BY <2>1, <2>2
<1>5. CASE ReceiveAgain(Only)
  BY <1>5, QueueSame DEF ReceiveAgain
<1>6. CASE PostRecv(Only) \/ PostSend(Only)
  <2>1. /\ buf[Only] \in Buffers /\ UNCHANGED <<pending, bufSock>>
        /\ buf' = [buf EXCEPT ![Only] = NULL] /\ pc[Only] # "errFree"
        /\ posted' = posted \/ posted' = [posted EXCEPT ![buf[Only]] = "recv"]
                            \/ posted' = [posted EXCEPT ![buf[Only]] = "send"]
    BY <1>6 DEF PostRecv, PostSend, Issue, IssueFails
  <2> QED
    BY <2>1, QueueSame
<1>7. CASE \/ ErrOther(Only) \/ ErrFree(Only) \/ SetClosing(Only)
          \/ ZeroSendNone(Only) \/ ZeroSendSome(Only) \/ ZeroRecv(Only)
          \/ DecOut(Only) \/ ReceiveNoMore(Only) \/ IncRecv(Only)
  BY <1>7, QueueSame DEF ErrOther, ErrFree, SetClosing, ZeroSendNone, ZeroSendSome, ZeroRecv,
     DecOut, ReceiveNoMore, IncRecv, IncRecvTo
<1>8. CASE \/ Process(Only) \/ DequeueNone(Only) \/ IncSend(Only) \/ IncOut(Only)
          \/ TailSend(Only) \/ TailRecv(Only) \/ TailClosing(Only) \/ CloseSocket(Only)
          \/ Free(Only)
  BY <1>8, QueueSame DEF Process, DequeueNone, IncSend, IncOut, TailSend, TailRecv,
     TailClosing, NotIdle, CloseSocket, Free
<1> QED
  BY <1>1, <1>2, <1>3, <1>4, <1>5, <1>6, <1>7, <1>8 DEF Step, Run

LEMMA LiveSock ==
  ASSUME TypeInv, BufferOwned, Workers = {Only}, NEW b \in Buffers, Live(b)
  PROVE  bufSock[b] \in SockObjs
  BY OwnedOne, ConstAssumption DEF TypeInv, RefOK, Live

LEMMA NewLive ==
  ASSUME OneState, Workers = {Only}, NEW b \in Buffers, NEW o \in SockObjs,
         AcceptDone(Only, b, o)
  PROVE  /\ ~Live(b) /\ bufSock' = [bufSock EXCEPT ![b] = o]
         /\ s[o] = "0" /\ s' = [s EXCEPT ![o] = "open"]
         /\ \A c \in Buffers : Live(c)' => c = b \/ Live(c)
<1>1. s[o] = "0" /\ s' = [s EXCEPT ![o] = "open"]
  BY GetSpare DEF OneState, OneInv, AcceptDone
<1> QED
  BY <1>1, OwnedOne, QueueSame, ConstAssumption
     DEF AcceptDone, OneState, TypeInv, TypeOK, Live, Holding, Labels

\* Closing and freeing: who leaves, and that it has no live buffer then.
LEMMA SockMoves ==
  ASSUME OneState, Workers = {Only}, Step(Only), NEW o \in SockObjs,
         s[o] # "0", s'[o] = "0"
  PROVE  /\ o = sockobj[Only] /\ FreeSocketObj(o)
         /\ \/ ErrOther(Only) \/ Free(Only)
         /\ \A b \in Buffers : Live(b)' => bufSock'[b] # o
<1> USE OwnedOne DEF OneState, OneInv, TypeInv, TypeOK, Labels, Holding
<1>1. CASE Accept(Only)
  BY <1>1 DEF Accept, AcceptDone, AcceptNoPort, AcceptNoMemory, GetSocketObj
<1>2. CASE Complete(Only)
  BY <1>2 DEF Complete, Take, RecvDone, RecvZero, RecvError, SendDone, SendError
<1>3. CASE \/ ErrFree(Only) \/ SetClosing(Only) \/ Enqueue(Only) \/ Dequeue(Only)
          \/ ZeroSendNone(Only) \/ ZeroSendSome(Only) \/ ZeroRecv(Only)
          \/ DecOut(Only) \/ ReceiveNoMore(Only) \/ IncRecv(Only) \/ ReceiveAgain(Only)
  BY <1>3 DEF ErrFree, SetClosing, Enqueue, Dequeue, ZeroSendNone, ZeroSendSome, ZeroRecv,
     DecOut, ReceiveNoMore, IncRecv, IncRecvTo, ReceiveAgain
<1>4. CASE \/ Process(Only) \/ DequeueNone(Only) \/ IncSend(Only) \/ IncOut(Only)
          \/ TailSend(Only) \/ TailRecv(Only) \/ TailClosing(Only) \/ CloseSocket(Only)
          \/ PostRecv(Only) \/ PostSend(Only)
  BY <1>4 DEF Process, DequeueNone, IncSend, IncOut, TailSend, TailRecv,
     TailClosing, NotIdle, CloseSocket, PostRecv, PostSend
<1>5. CASE ErrOther(Only)
  <2>1. /\ o = sockobj[Only] /\ FreeSocketObj(o) /\ pc[Only] \in {"errSend", "errRecv"}
        /\ UNCHANGED <<posted, pending, bufSock, buf>>
        /\ pc' = [pc EXCEPT ![Only] = "errFree"]
    BY <1>5 DEF ErrOther, FreeSocketObj, Zero
  <2>2. buf[Only] \in Buffers /\ Live(buf[Only]) /\ bufSock[buf[Only]] = o
    BY <2>1 DEF Live, PointersOK, AboutBuf
  <2>3. \A b \in Buffers : Live(b)' => Live(b) /\ b # buf[Only]
    BY <2>1, QueueSame DEF Live
  <2>4. \A b \in Buffers : Live(b)' => bufSock'[b] # o
    BY <2>1, <2>2, <2>3 DEF OneEach
  <2> QED
    BY <1>5, <2>1, <2>4
<1>6. CASE Free(Only)
  <2>1. /\ o = sockobj[Only] /\ FreeSocketObj(o) /\ pc[Only] = "free"
        /\ UNCHANGED <<posted, pending, bufSock, buf>>
    BY <1>6 DEF Free, FreeSocketObj, Zero
  <2>2. \A b \in Buffers : Live(b)' => Live(b)
    BY <2>1, QueueSame DEF Live
  <2>3. \A b \in Buffers : Live(b) => bufSock[b] # o
    BY <2>1 DEF ClosingOK, Shut
  <2>4. \A b \in Buffers : Live(b)' => bufSock'[b] # o
    BY <2>1, <2>2, <2>3
  <2> QED
    BY <1>6, <2>1, <2>4
<1> QED
  BY <1>1, <1>2, <1>3, <1>4, <1>5, <1>6 DEF Step, Run

LEMMA EachStep ==
  ASSUME OneState, Workers = {Only}, Step(Only), TypeInv'
  PROVE  OneEach'
<1>1. ASSUME NEW b \in Buffers, NEW o \in SockObjs, AcceptDone(Only, b, o)
      PROVE  OneEach'
  <2>1. /\ ~Live(b) /\ bufSock' = [bufSock EXCEPT ![b] = o]
        /\ s[o] = "0" /\ s' = [s EXCEPT ![o] = "open"]
        /\ \A c \in Buffers : Live(c)' => c = b \/ Live(c)
    BY <1>1, NewLive
  <2>2. /\ bufSock'[b] = o /\ s'[o] # "0"
        /\ \A c \in Buffers \ {b} : bufSock'[c] = bufSock[c]
        /\ \A p \in SockObjs \ {o} : s'[p] = s[p]
    BY <2>1 DEF OneState, TypeInv, TypeOK
  <2>3. \A c \in Buffers \ {b} : Live(c)' =>
          /\ Live(c) /\ s[bufSock[c]] # "0" /\ bufSock[c] \in SockObjs
    BY <2>1, LiveSock DEF OneState, OneInv, OneEach
  <2>4. \A c \in Buffers \ {b} : Live(c)' => bufSock'[c] # o /\ s'[bufSock'[c]] # "0"
    BY <2>1, <2>2, <2>3
  <2>5. \A c \in Buffers : Live(c)' => s'[bufSock'[c]] # "0"
    BY <2>2, <2>4
  <2>6. \A c, d \in Buffers : Live(c)' /\ Live(d)' /\ bufSock'[c] = bufSock'[d] => c = d
    BY <2>2, <2>3, <2>4 DEF OneState, OneInv, OneEach
  <2> QED
    BY <2>5, <2>6 DEF OneEach
<1>2. CASE ~\E b \in Buffers, o \in SockObjs : AcceptDone(Only, b, o)
  <2>1. \A b \in Buffers : Live(b)' => Live(b) /\ bufSock'[b] = bufSock[b]
    BY <1>2, LiveMoves
  <2>2. \A b, c \in Buffers : Live(b)' /\ Live(c)' /\ bufSock'[b] = bufSock'[c] => b = c
    BY <2>1 DEF OneState, OneInv, OneEach
  <2>3. ASSUME NEW b \in Buffers, Live(b)' PROVE s'[bufSock'[b]] # "0"
    <3>1. s[bufSock[b]] # "0" /\ bufSock'[b] = bufSock[b]
      BY <2>1, <2>3 DEF OneState, OneInv, OneEach
    <3>2. bufSock[b] \in SockObjs
      BY <2>1, <2>3, LiveSock DEF OneState
    <3> QED
      BY <2>3, <3>1, <3>2, SockMoves
  <2> QED
    BY <2>2, <2>3 DEF OneEach
<1> QED
  BY <1>1, <1>2

LEMMA SpareStep ==
  ASSUME OneState, Workers = {Only}, Step(Only)
  PROVE  SpareOK'
<1> USE DEF OneState, OneInv, TypeInv, TypeOK, Labels
<1>1. ASSUME NEW o \in SockObjs, GetSocketObj(o) PROVE SpareOK'
  BY <1>1, GetSpare
<1>2. ASSUME NEW o \in SockObjs, s[o] # "0", FreeSocketObj(o) PROVE SpareOK'
  BY <1>2, PutSpare
<1>3. CASE UNCHANGED <<s, freeVars>>
  BY <1>3, KeepSpare
<1>4. CASE Accept(Only)
  BY <1>1, <1>3, <1>4 DEF Accept, AcceptDone, AcceptNoPort, AcceptNoMemory
<1>5. CASE Complete(Only)
  BY <1>3, <1>5 DEF Complete, Take, RecvDone, RecvZero, RecvError, SendDone, SendError
<1>6. CASE ErrOther(Only) \/ Free(Only)
  <2>1. sockobj[Only] \in SockObjs /\ s[sockobj[Only]] # "0"
    BY <1>6, ConstAssumption DEF ErrOther, Free, PointersOK, RefOK, OnSocket
  <2> QED
    BY <1>2, <1>3, <1>6, <2>1 DEF ErrOther, Free
<1>7. CASE CloseSocket(Only)
  <2>1. sockobj[Only] \in SockObjs /\ s[sockobj[Only]] # "0"
    BY <1>7, ConstAssumption DEF CloseSocket, PointersOK, RefOK, OnSocket
  <2> QED
    BY <1>7, <2>1, KeepSpare DEF CloseSocket
<1>8. CASE \/ ErrFree(Only) \/ SetClosing(Only) \/ Enqueue(Only) \/ Dequeue(Only)
          \/ ZeroSendNone(Only) \/ ZeroSendSome(Only) \/ ZeroRecv(Only)
          \/ DecOut(Only) \/ ReceiveNoMore(Only) \/ IncRecv(Only) \/ ReceiveAgain(Only)
  BY <1>3, <1>8 DEF ErrFree, SetClosing, Enqueue, Dequeue, ZeroSendNone, ZeroSendSome, ZeroRecv,
     DecOut, ReceiveNoMore, IncRecv, IncRecvTo, ReceiveAgain
<1>9. CASE \/ Process(Only) \/ DequeueNone(Only) \/ IncSend(Only) \/ IncOut(Only)
          \/ TailSend(Only) \/ TailRecv(Only) \/ TailClosing(Only)
          \/ PostRecv(Only) \/ PostSend(Only)
  BY <1>3, <1>9 DEF Process, DequeueNone, IncSend, IncOut, TailSend, TailRecv,
     TailClosing, NotIdle, PostRecv, PostSend
<1> QED
  BY <1>4, <1>5, <1>6, <1>7, <1>8, <1>9 DEF Step, Run

(* The counters. *)
Inc == {"incRecv", "incSend"}

LEMMA QuietCount ==
  ASSUME OneState, Workers = {Only}, UNCHANGED <<posted, pending, Counters>>,
         \A b \in Buffers : posted[b] # "none" \/ b \in Queued => bufSock'[b] = bufSock[b],
         pc[Only] \notin Inc, pc'[Only] \notin Inc
  PROVE  CountOK'
<1> SUFFICES ASSUME NEW o \in SockObjs PROVE CountOf(o)'
  BY DEF CountOK
<1>1. (Has("recv", o)' <=> Has("recv", o)) /\ (Has("send", o)' <=> Has("send", o))
  BY DEF Has
<1>2. HasQueued(o)' <=> HasQueued(o)
  BY QueueSame, OwnedOne DEF HasQueued, OneState
<1>3. /\ ~On("incRecv", o) /\ ~On("incSend", o)
      /\ ~On("incRecv", o)' /\ ~On("incSend", o)'
  BY DEF On, Inc
<1> QED
  BY <1>1, <1>2, <1>3 DEF OneState, OneInv, CountOK, CountOf, Tally

LEMMA FreeCount ==
  ASSUME OneState, Workers = {Only}, NEW p \in SockObjs, FreeSocketObj(p),
         UNCHANGED <<posted, pending, bufSock>>,
         \A b \in Buffers : Live(b)' => bufSock'[b] # p,
         pc[Only] \notin Inc, pc'[Only] \notin Inc
  PROVE  CountOK'
<1> SUFFICES ASSUME NEW o \in SockObjs PROVE CountOf(o)'
  BY DEF CountOK
<1>1. (Has("recv", o)' <=> Has("recv", o)) /\ (Has("send", o)' <=> Has("send", o))
  BY DEF Has
<1>2. HasQueued(o)' <=> HasQueued(o)
  BY QueueSame DEF HasQueued
<1>3. /\ ~On("incRecv", o) /\ ~On("incSend", o)
      /\ ~On("incRecv", o)' /\ ~On("incSend", o)'
  BY DEF On, Inc
<1>4. ~Has("recv", p)' /\ ~Has("send", p)' /\ ~HasQueued(p)'
  BY QueueSame, OwnedOne DEF OneState, Live, Has, HasQueued
<1>5. CASE o = p
  BY <1>3, <1>4, <1>5 DEF FreeSocketObj, Zero, OneState, TypeInv, TypeOK, CountOf, Tally
<1>6. CASE o # p
  <2>1. /\ OutstandingRecv'[o] = OutstandingRecv[o]
        /\ OutstandingSend'[o] = OutstandingSend[o]
        /\ PendingSend'[o] = PendingSend[o]
    BY <1>6 DEF FreeSocketObj, Zero, OneState, TypeInv, TypeOK
  <2> QED
    BY <1>1, <1>2, <1>3, <2>1 DEF OneState, OneInv, CountOK, CountOf, Tally
<1> QED
  BY <1>5, <1>6

\* The completion of b: it was the only operation of its socket.
LEMMA TakeCount ==
  ASSUME OneState, Workers = {Only}, NEW b \in Buffers, NEW op \in {"recv", "send"},
         NEW l \in Labels \ Inc, Take(Only, b, op, l)
  PROVE  /\ (op = "recv" => OutstandingRecv[bufSock[b]] = 1)
         /\ (op = "send" => OutstandingSend[bufSock[b]] = 1)
         /\ (op = "recv" /\ DecRecv(bufSock[b]) => CountOK')
         /\ (op = "send" /\ DecSend(bufSock[b]) => CountOK')
<1>1. /\ pc[Only] = "wait" /\ posted[b] = op /\ posted' = [posted EXCEPT ![b] = "none"]
      /\ UNCHANGED <<pending, bufSock, PendingSend>> /\ pc' = [pc EXCEPT ![Only] = l]
      /\ bufSock[b] \in SockObjs /\ Live(b)
  BY LiveSock DEF Take, OneState, TypeInv, RefOK, Live
<1>2. ASSUME NEW o \in SockObjs
      PROVE  /\ ~On("incRecv", o) /\ ~On("incSend", o)
             /\ ~On("incRecv", o)' /\ ~On("incSend", o)'
  BY <1>1 DEF On, Inc, OneState, TypeInv, TypeOK
<1>3. /\ Has(op, bufSock[b]) /\ ~Has("recv", bufSock[b])' /\ ~Has("send", bufSock[b])'
      /\ \A q \in {"recv", "send"} \ {op} : ~Has(q, bufSock[b])
  <2>1. \A c \in Buffers : posted[c] # "none" /\ bufSock[c] = bufSock[b] => c = b
    BY <1>1 DEF OneState, OneInv, OneEach, Live
  <2> QED
    BY <1>1, <2>1 DEF Has, OneState, TypeInv, TypeOK
<1>4. \A o \in SockObjs \ {bufSock[b]} : /\ Has("recv", o)' <=> Has("recv", o)
                                         /\ Has("send", o)' <=> Has("send", o)
  BY <1>1 DEF Has, OneState, TypeInv, TypeOK
<1>5. \A o \in SockObjs : HasQueued(o)' <=> HasQueued(o)
  BY <1>1, QueueSame DEF HasQueued
<1>6. /\ (op = "recv" => OutstandingRecv[bufSock[b]] = 1)
      /\ (op = "send" => OutstandingSend[bufSock[b]] = 1)
  BY <1>1, <1>2, <1>3 DEF OneState, OneInv, CountOK, CountOf, Tally
<1>7. ASSUME \/ op = "recv" /\ DecRecv(bufSock[b])
             \/ op = "send" /\ DecSend(bufSock[b])
      PROVE  CountOK'
  <2> SUFFICES ASSUME NEW o \in SockObjs PROVE CountOf(o)'
    BY DEF CountOK
  <2>1. CASE o = bufSock[b]
    <3>1. CASE op = "recv" /\ DecRecv(bufSock[b])
      <4>1. OutstandingRecv'[o] = 0 /\ OutstandingSend'[o] = OutstandingSend[o]
        BY <1>1, <1>6, <2>1, <3>1 DEF DecRecv, OneState, TypeInv, TypeOK
      <4> QED
        BY <1>1, <1>2, <1>3, <1>5, <2>1, <3>1, <4>1
           DEF OneState, OneInv, CountOK, CountOf, Tally
    <3>2. CASE op = "send" /\ DecSend(bufSock[b])
      <4>1. OutstandingSend'[o] = 0 /\ OutstandingRecv'[o] = OutstandingRecv[o]
        BY <1>1, <1>6, <2>1, <3>2 DEF DecSend, OneState, TypeInv, TypeOK
      <4> QED
        BY <1>1, <1>2, <1>3, <1>5, <2>1, <3>2, <4>1
           DEF OneState, OneInv, CountOK, CountOf, Tally
    <3> QED
      BY <1>7, <3>1, <3>2
  <2>2. CASE o # bufSock[b]
    <3>1. /\ OutstandingRecv'[o] = OutstandingRecv[o]
          /\ OutstandingSend'[o] = OutstandingSend[o]
      BY <1>7, <2>2 DEF DecRecv, DecSend, OneState, TypeInv, TypeOK
    <3> QED
      BY <1>1, <1>2, <1>4, <1>5, <2>2, <3>1 DEF OneState, OneInv, CountOK, CountOf, Tally
  <2> QED
    BY <2>1, <2>2
<1>8. op = "recv" /\ DecRecv(bufSock[b]) => CountOK'
  BY <1>7
<1>9. op = "send" /\ DecSend(bufSock[b]) => CountOK'
  BY <1>7
<1> QED
  BY <1>6, <1>8, <1>9

\* What WSARecv or WSASend takes was the only live buffer of the socket.
LEMMA IssueCount ==
  ASSUME OneState, Workers = {Only}, NEW op \in {"recv", "send"}, NEW l \in Inc,
         op = "recv" <=> l = "incRecv",
         pc[Only] \in {"postRecv", "postSend"}, Issue(Only, op, l),
         UNCHANGED <<listVars, Counters, sock>>,
         NEW b \in Buffers, NEW p \in SockObjs, b = buf[Only], p = sock[Only]
  PROVE  CountOK' /\ Has(op, p)'
<1>1. /\ b \in Buffers /\ b # NULL /\ p = bufSock[b] /\ Live(b)
      /\ posted[b] = "none" /\ b \notin Queued
  BY OwnedOne, LiveSock DEF OneState, OneInv, PointersOK, AboutBuf, Live, Holding
<1>2. posted' = [posted EXCEPT ![b] = op] /\ pc' = [pc EXCEPT ![Only] = l]
  BY DEF Issue
<1>3. \A c \in Buffers : Live(c) /\ bufSock[c] = p => c = b
  BY <1>1 DEF OneState, OneInv, OneEach
<1>4. /\ Has(op, p)' /\ ~Has("recv", p) /\ ~Has("send", p)
      /\ \A q \in {"recv", "send"} \ {op} : ~Has(q, p)'
  BY <1>1, <1>2, <1>3 DEF Has, Live, OneState, TypeInv, TypeOK
<1>5. \A o \in SockObjs \ {p} : /\ Has("recv", o)' <=> Has("recv", o)
                                /\ Has("send", o)' <=> Has("send", o)
  BY <1>1, <1>2 DEF Has, OneState, TypeInv, TypeOK
<1>6. \A o \in SockObjs : HasQueued(o)' <=> HasQueued(o)
  BY QueueSame DEF HasQueued
<1>7. ASSUME NEW o \in SockObjs
      PROVE  /\ ~On("incRecv", o) /\ ~On("incSend", o)
             /\ On("incRecv", o)' <=> (op = "recv" /\ o = p)
             /\ On("incSend", o)' <=> (op = "send" /\ o = p)
  BY <1>1, <1>2 DEF On, Inc, OneState, TypeInv, TypeOK
<1>8. ASSUME NEW o \in SockObjs PROVE CountOf(o)'
  <2>1. CASE o = p
    BY <1>1, <1>4, <1>6, <1>7, <2>1 DEF OneState, OneInv, CountOK, CountOf, Tally
  <2>2. CASE o # p
    BY <1>5, <1>6, <1>7, <2>2 DEF OneState, OneInv, CountOK, CountOf, Tally
  <2> QED
    BY <2>1, <2>2
<1> QED
  BY <1>1, <1>4, <1>8 DEF CountOK

\* Counting what was issued.
LEMMA IncCount ==
  ASSUME OneState, Workers = {Only}, NEW l \in Labels \ Inc, pc' = [pc EXCEPT ![Only] = l],
         UNCHANGED <<posted, pending, bufSock, sock, PendingSend>>,
         \/ /\ pc[Only] = "incRecv" /\ UNCHANGED OutstandingSend
            /\ OutstandingRecv' = [OutstandingRecv EXCEPT ![sock[Only]] = @ + 1]
         \/ /\ pc[Only] = "incSend" /\ UNCHANGED OutstandingRecv
            /\ OutstandingSend' = [OutstandingSend EXCEPT ![sock[Only]] = @ + 1]
  PROVE  CountOK'
<1> SUFFICES ASSUME NEW o \in SockObjs PROVE CountOf(o)'
  BY DEF CountOK
<1>1. (Has("recv", o)' <=> Has("recv", o)) /\ (Has("send", o)' <=> Has("send", o))
  BY DEF Has
<1>2. HasQueued(o)' <=> HasQueued(o)
  BY QueueSame DEF HasQueued
<1>3. /\ ~On("incRecv", o)' /\ ~On("incSend", o)'
      /\ On("incRecv", o) <=> (pc[Only] = "incRecv" /\ o = sock[Only])
      /\ On("incSend", o) <=> (pc[Only] = "incSend" /\ o = sock[Only])
  BY DEF On, Inc, OneState, TypeInv, TypeOK
<1>4. /\ pc[Only] = "incRecv" => Has("recv", sock[Only])
      /\ pc[Only] = "incSend" => Has("send", sock[Only])
  BY DEF OneState, OneInv, PointersOK
<1>5. CASE o = sock[Only] /\ pc[Only] = "incRecv"
  <2>1. OutstandingRecv'[o] = OutstandingRecv[o] + 1 /\ OutstandingSend'[o] = OutstandingSend[o]
    BY <1>5 DEF OneState, TypeInv, TypeOK
  <2> QED
    BY <1>1, <1>2, <1>3, <1>4, <1>5, <2>1 DEF OneState, OneInv, CountOK, CountOf, Tally
<1>6. CASE o = sock[Only] /\ pc[Only] = "incSend"
  <2>1. OutstandingSend'[o] = OutstandingSend[o] + 1 /\ OutstandingRecv'[o] = OutstandingRecv[o]
    BY <1>6 DEF OneState, TypeInv, TypeOK
  <2> QED
    BY <1>1, <1>2, <1>3, <1>4, <1>6, <2>1 DEF OneState, OneInv, CountOK, CountOf, Tally
<1>7. CASE o # sock[Only]
  <2>1. OutstandingRecv'[o] = OutstandingRecv[o] /\ OutstandingSend'[o] = OutstandingSend[o]
    BY <1>7 DEF OneState, TypeInv, TypeOK
  <2> QED
    BY <1>1, <1>2, <1>3, <1>7, <2>1 DEF OneState, OneInv, CountOK, CountOf, Tally
<1> QED
  BY <1>5, <1>6, <1>7

\* The list of sends.
LEMMA QueueCount ==
  ASSUME OneState, Workers = {Only}, Enqueue(Only) \/ Dequeue(Only)
  PROVE  CountOK'
<1>1. PICK b \in Buffers :
        \/ /\ b = buf[Only] /\ Queued' = Queued \cup {b}
           /\ PendingSend' = [PendingSend EXCEPT ![bufSock[b]] = @ + 1]
           /\ b \notin Queued /\ Live(b)
        \/ /\ b \in Queued /\ Queued' = Queued \ {b}
           /\ PendingSend' = [PendingSend EXCEPT ![bufSock[b]] = @ - 1]
           /\ Live(b)
  <2>1. CASE Enqueue(Only)
    <3>1. /\ buf[Only] \in Buffers /\ buf[Only] \notin Queued /\ Live(buf[Only])
          /\ PendingSend' = [PendingSend EXCEPT ![bufSock[buf[Only]]] = @ + 1]
      BY <2>1, OwnedOne DEF Enqueue, OneState, Live, Holding
    <3> QED
      BY <2>1, <3>1, QueueIn DEF OneState
  <2>2. CASE Dequeue(Only)
    <3>1. PendingSend' = [PendingSend EXCEPT ![bufSock[Head(pending)]] = @ - 1]
      BY <2>2 DEF Dequeue
    <3>2. Head(pending) \in Queued /\ Queued' = Queued \ {Head(pending)}
      BY <2>2, QueueOut DEF OneState
    <3>3. Head(pending) \in Buffers /\ Live(Head(pending))
      BY <3>2, OwnedOne DEF OneState, Live
    <3> QED
      BY <3>1, <3>2, <3>3
  <2> QED
    BY <2>1, <2>2
<1>2. /\ UNCHANGED <<posted, bufSock, OutstandingRecv, OutstandingSend>>
      /\ pc[Only] \notin Inc /\ pc'[Only] \notin Inc
  BY DEF Enqueue, Dequeue, Inc, OneState, TypeInv, TypeOK
<1>3. PICK p \in SockObjs : p = bufSock[b]
  BY <1>1, LiveSock DEF OneState
<1>4. \A c \in Queued : c # b => bufSock[c] # p
  BY <1>1, <1>3, OwnedOne DEF OneState, OneInv, OneEach, Live
<1>5. \A o \in SockObjs \ {p} : HasQueued(o)' <=> HasQueued(o)
  BY <1>1, <1>2, <1>3 DEF HasQueued
<1>6. /\ HasQueued(p) <=> b \in Queued
      /\ HasQueued(p)' <=> b \in Queued'
  BY <1>1, <1>2, <1>3, <1>4 DEF HasQueued
<1> SUFFICES ASSUME NEW o \in SockObjs PROVE CountOf(o)'
  BY DEF CountOK
<1>7. (Has("recv", o)' <=> Has("recv", o)) /\ (Has("send", o)' <=> Has("send", o))
  BY <1>2 DEF Has
<1>8. /\ ~On("incRecv", o) /\ ~On("incSend", o)
      /\ ~On("incRecv", o)' /\ ~On("incSend", o)'
  BY <1>2 DEF On, Inc
<1>9. PendingSend'[o] = Tally(HasQueued(o), FALSE)'
  <2>1. CASE o = p
    BY <1>1, <1>3, <1>6, <2>1 DEF OneState, OneInv, CountOK, CountOf, Tally, TypeInv, TypeOK
  <2>2. CASE o # p
    BY <1>1, <1>3, <1>5, <2>2 DEF OneState, OneInv, CountOK, CountOf, Tally, TypeInv, TypeOK
  <2> QED
    BY <2>1, <2>2
<1> QED
  BY <1>2, <1>7, <1>8, <1>9 DEF OneState, OneInv, CountOK, CountOf, Tally

LEMMA CountStep ==
  ASSUME OneState, Workers = {Only}, Step(Only)
  PROVE  CountOK'
<1>0. /\ pc \in [Workers -> Labels] /\ buf \in [Workers -> Buffers \cup {NULL}]
      /\ bufSock \in [Buffers -> SockObjs \cup {NULL}] /\ Only \in Workers
  BY DEF OneState, TypeInv, TypeOK
<1>1. CASE Accept(Only)
  <2>1. \A b \in pool : posted[b] = "none" /\ b \notin Queued
    BY OwnedOne DEF OneState
  <2>2. \A b \in Buffers : posted[b] # "none" \/ b \in Queued => bufSock'[b] = bufSock[b]
    BY <1>0, <1>1, <2>1 DEF Accept, AcceptDone, AcceptNoPort, AcceptNoMemory
  <2>3. /\ UNCHANGED <<posted, pending, Counters>>
        /\ pc[Only] \notin Inc /\ pc'[Only] \notin Inc
    BY <1>0, <1>1 DEF Accept, AcceptDone, AcceptNoPort, AcceptNoMemory, GetSocketObj, Inc
  <2> QED
    BY <2>2, <2>3, QuietCount
<1>2. CASE Complete(Only)
  <2> PICK b \in Buffers : \/ RecvDone(Only, b) \/ RecvZero(Only, b) \/ RecvError(Only, b)
                           \/ SendDone(Only, b) \/ SendError(Only, b)
    BY <1>2 DEF Complete
  <2>1. ASSUME NEW l \in Labels \ Inc, Take(Only, b, "recv", l), DecRecv(bufSock[b])
        PROVE  CountOK'
    BY <2>1, TakeCount
  <2>2. ASSUME NEW l \in Labels \ Inc, Take(Only, b, "send", l), DecSend(bufSock[b])
        PROVE  CountOK'
    BY <2>2, TakeCount
  <2>3. {"enqueue", "setClosing", "errSend", "errRecv", "errFree", "decOut"} \subseteq Labels \ Inc
    BY DEF Labels, Inc
  <2>4. CASE RecvDone(Only, b) \/ RecvZero(Only, b) \/ RecvError(Only, b)
    BY <2>1, <2>3, <2>4 DEF RecvDone, RecvZero, RecvError
  <2>5. CASE SendDone(Only, b) \/ SendError(Only, b)
    BY <2>2, <2>3, <2>5 DEF SendDone, SendError
  <2> QED
    BY <2>4, <2>5
<1>3. CASE Enqueue(Only) \/ Dequeue(Only)
  BY <1>3, QueueCount
<1>4. CASE PostRecv(Only) \/ PostSend(Only)
  <2>1. ASSUME NEW op \in {"recv", "send"}, NEW l \in Inc, op = "recv" <=> l = "incRecv",
               Issue(Only, op, l)
        PROVE  CountOK'
    <3>1. /\ buf[Only] \in Buffers /\ sock[Only] \in SockObjs
          /\ pc[Only] \in {"postRecv", "postSend"}
          /\ UNCHANGED <<listVars, Counters, sock>>
      BY <1>4, OwnedOne DEF OneState, TypeInv, RefOK, PostRecv, PostSend, Posting, Holding
    <3> QED
      BY <2>1, <3>1, IssueCount
  <2>2. ASSUME NEW l \in Labels \ Inc, IssueFails(Only, l)
        PROVE  CountOK'
    BY <1>0, <1>4, <2>2, QuietCount DEF PostRecv, PostSend, IssueFails, Inc
  <2> QED
    BY <1>4, <2>1, <2>2 DEF PostRecv, PostSend, Inc, Labels
<1>5. CASE IncRecv(Only) \/ IncSend(Only)
  BY <1>5, IncCount DEF IncRecv, IncRecvTo, IncSend, Inc, Labels
<1>6. CASE ErrOther(Only) \/ Free(Only)
  <2>1. /\ UNCHANGED <<posted, pending, bufSock>>
        /\ pc[Only] \notin Inc /\ pc'[Only] \notin Inc
    BY <1>0, <1>6 DEF ErrOther, Free, Inc
  <2>2. CASE FreeSocketObj(sockobj[Only])
    <3>1. PICK p \in SockObjs : p = sockobj[Only] /\ s[p] # "0" /\ s'[p] = "0"
      BY <1>6, <2>2, ConstAssumption DEF ErrOther, Free, OneState, OneInv, PointersOK, TypeInv,
         RefOK, OnSocket, FreeSocketObj, Zero, TypeOK
    <3> QED
      BY <2>1, <2>2, <3>1, SockMoves, FreeCount
  <2>3. CASE UNCHANGED sockVars
    BY <2>1, <2>3, QuietCount
  <2> QED
    BY <1>6, <2>2, <2>3 DEF ErrOther, Free
<1>7. CASE ReceiveAgain(Only)
  <2>1. /\ bufSock[buf[Only]] = sockobj[Only]
        /\ bufSock' = [bufSock EXCEPT ![buf[Only]] = sockobj[Only]]
    BY <1>7 DEF ReceiveAgain, OneState, OneInv, PointersOK, AboutBuf
  <2>2. \A b \in Buffers : bufSock'[b] = bufSock[b]
    BY <1>0, <2>1
  <2> QED
    BY <1>0, <1>7, <2>2, QuietCount DEF ReceiveAgain, Inc
<1>8. CASE \/ ErrFree(Only) \/ SetClosing(Only) \/ ZeroSendNone(Only) \/ ZeroSendSome(Only)
          \/ ZeroRecv(Only) \/ DecOut(Only) \/ ReceiveNoMore(Only) \/ IncOut(Only)
  BY <1>0, <1>8, QuietCount DEF ErrFree, SetClosing, ZeroSendNone, ZeroSendSome, ZeroRecv,
     DecOut, ReceiveNoMore, IncOut, Inc
<1>9. CASE \/ Process(Only) \/ DequeueNone(Only) \/ CloseSocket(Only)
          \/ TailSend(Only) \/ TailRecv(Only) \/ TailClosing(Only)
  BY <1>0, <1>9, QuietCount DEF Process, DequeueNone, TailSend, TailRecv, TailClosing, NotIdle,
     CloseSocket, Inc
<1> QED
  BY <1>1, <1>2, <1>3, <1>4, <1>5, <1>6, <1>7, <1>8, <1>9 DEF Step, Run

(* The pointers and the closing sockets. *)
LEMMA PointersStep ==
  ASSUME OneState, Workers = {Only}, Step(Only)
  PROVE  PointersOK'
<1> USE ConstAssumption DEF OneState, OneInv, TypeInv, TypeOK, PointersOK, AboutBuf, Labels
<1>1. CASE Accept(Only)
  BY <1>1 DEF Accept, AcceptDone, AcceptNoPort, AcceptNoMemory
<1>2. ASSUME NEW b \in Buffers, NEW op \in {"recv", "send"}, Take(Only, b, op, pc'[Only]),
             pc'[Only] \in AboutBuf \cup {"errFree", "enqueue"}, pc'[Only] # "postRecv"
      PROVE  PointersOK'
  <2>1. Live(b) /\ s[bufSock[b]] # "0"
    BY <1>2 DEF Take, Live, OneEach
  <2> QED
    BY <1>2, <2>1 DEF Take
<1>3. CASE Complete(Only)
  <2> PICK b \in Buffers : \/ RecvDone(Only, b) \/ RecvZero(Only, b) \/ RecvError(Only, b)
                           \/ SendDone(Only, b) \/ SendError(Only, b)
    BY <1>3 DEF Complete
  <2>1. \E op \in {"recv", "send"} : Take(Only, b, op, pc'[Only])
    BY DEF RecvDone, RecvZero, RecvError, SendDone, SendError, Take
  <2>2. pc'[Only] \in {"enqueue", "setClosing", "errSend", "errRecv", "errFree", "decOut"}
    BY DEF RecvDone, RecvZero, RecvError, SendDone, SendError, Take
  <2> QED
    BY <1>2, <2>1, <2>2
<1>4. CASE Enqueue(Only)
  BY <1>4 DEF Enqueue
<1>5. CASE Dequeue(Only)
  BY <1>5 DEF Dequeue
<1>6. CASE ReceiveAgain(Only)
  <2>1. buf[Only] \in Buffers
    BY <1>6, OwnedOne DEF ReceiveAgain, Holding
  <2> QED
    BY <1>6, <2>1 DEF ReceiveAgain
<1>7. CASE PostRecv(Only) \/ PostSend(Only)
  <2>1. ASSUME NEW op \in {"recv", "send"}, NEW l \in Inc, op = "recv" <=> l = "incRecv",
               Issue(Only, op, l)
        PROVE  PointersOK'
    <3>1. /\ buf[Only] \in Buffers /\ sock[Only] \in SockObjs
          /\ pc[Only] \in {"postRecv", "postSend"}
          /\ UNCHANGED <<listVars, Counters, sock, s, sockobj>>
      BY <1>7, OwnedOne DEF RefOK, PostRecv, PostSend, Posting, Holding
    <3>2. PICK p \in SockObjs : p = sock[Only]
      BY <3>1
    <3>3. Has(op, p)' /\ sock'[Only] = p
      BY <2>1, <3>1, <3>2, IssueCount
    <3>4. pc' = [pc EXCEPT ![Only] = l]
      BY <2>1 DEF Issue
    <3>5. /\ pc'[Only] = "incRecv" => Has("recv", sock[Only])'
          /\ pc'[Only] = "incSend" => Has("send", sock[Only])'
      BY <2>1, <3>3, <3>4 DEF Has, Inc
    <3> QED
      BY <3>1, <3>4, <3>5 DEF Inc
  <2>2. ASSUME NEW l \in {"process", "tailSend"}, IssueFails(Only, l)
        PROVE  PointersOK'
    BY <1>7, <2>2 DEF PostRecv, PostSend, IssueFails
  <2> QED
    BY <1>7, <2>1, <2>2 DEF PostRecv, PostSend, Inc
<1>8. CASE ErrOther(Only) \/ ErrFree(Only) \/ Free(Only) \/ CloseSocket(Only)
  BY <1>8 DEF ErrOther, ErrFree, Free, CloseSocket
<1>9. CASE \/ SetClosing(Only) \/ ZeroSendNone(Only) \/ ZeroSendSome(Only)
          \/ ZeroRecv(Only) \/ DecOut(Only) \/ ReceiveNoMore(Only)
  BY <1>9 DEF SetClosing, ZeroSendNone, ZeroSendSome, ZeroRecv, DecOut, ReceiveNoMore
<1>10. CASE \/ Process(Only) \/ DequeueNone(Only) \/ IncRecv(Only) \/ IncSend(Only)
           \/ IncOut(Only) \/ TailSend(Only) \/ TailRecv(Only) \/ TailClosing(Only)
  BY <1>10 DEF Process, DequeueNone, IncRecv, IncRecvTo, IncSend, IncOut, TailSend, TailRecv,
     TailClosing, NotIdle
<1> QED
  BY <1>1, <1>3, <1>4, <1>5, <1>6, <1>7, <1>8, <1>9, <1>10 DEF Step, Run

LEMMA NoneLive ==
  ASSUME OneState, Workers = {Only}, NEW o \in SockObjs,
         \A b \in Buffers : Live(b) => bufSock[b] # o \/ b = buf[Only],
         pc[Only] \notin Inc
  PROVE  OutstandingRecv[o] = 0 /\ OutstandingSend[o] = 0
<1>1. ~Has("recv", o) /\ ~Has("send", o)
  BY OwnedOne, ConstAssumption DEF Has, Live, OneState
<1> QED
  BY <1>1 DEF OneState, OneInv, CountOK, CountOf, Tally, On, Inc

LEMMA NoneClosing ==
  ASSUME \A o \in SockObjs : bClosing'[o] # 1 /\ s'[o] # "INVALID_SOCKET",
         pc'[Only] \notin {"zeroSend", "zeroRecv", "cleanup", "free"},
         pc'[Only] # "wait" => bCleanup'[Only] # 1
  PROVE  ClosingOK'
  BY DEF ClosingOK

LEMMA ClosingStep ==
  ASSUME OneState, Workers = {Only}, Step(Only), TypeInv'
  PROVE  ClosingOK'
<1> USE DEF OneState, OneInv, TypeInv, TypeOK, ClosingOK, Labels, ToEnd
<1>0. Only \in Workers /\ NULL \notin SockObjs /\ NULL \notin Buffers
  BY ConstAssumption
<1>a. ASSUME NEW o \in SockObjs, bClosing[o] = 1
      PROVE  pc[Only] \in ToEnd \cup {"zeroSend", "zeroRecv"} /\ sockobj[Only] = o
  BY <1>a DEF Shut
<1>b. CASE ~\E b \in Buffers, o \in SockObjs : AcceptDone(Only, b, o)
  (* No socket closes, or comes to be closing; the thread stays on its way. *)
  <2>1. ASSUME UNCHANGED <<bClosing, s, sockobj, bCleanup>>,
               pc[Only] \notin {"wait", "free"},
               pc[Only] \in {"zeroSend", "zeroRecv"} \/ bCleanup[Only] = 1
                 => pc'[Only] = "zeroRecv" \/ (pc'[Only] \in ToEnd /\ bCleanup[Only] = 1),
               pc'[Only] \in {"zeroSend", "zeroRecv", "cleanup", "free"} =>
                 \/ pc[Only] \in {"zeroSend", "zeroRecv", "cleanup", "free"}
                 \/ bCleanup[Only] = 1
        PROVE  ClosingOK'
    <3>1. \A b \in Buffers : Live(b)' => Live(b) /\ bufSock'[b] = bufSock[b]
      BY <1>b, LiveMoves
    <3>2. ASSUME NEW o \in SockObjs, bClosing'[o] = 1 PROVE Shut(o)'
      <4>1. bClosing[o] = 1 /\ Shut(o)
        BY <2>1, <3>2
      <4>2. \A b \in Buffers : Live(b)' => bufSock'[b] # o
        BY <3>1, <4>1 DEF Shut
      <4> QED
        BY <2>1, <4>1, <4>2 DEF Shut
    <3> QED
      BY <2>1, <3>2
  <2>2. CASE Enqueue(Only) \/ ErrFree(Only) \/ ReceiveNoMore(Only) \/ DecOut(Only)
            \/ ReceiveAgain(Only)
    <3>1. /\ UNCHANGED <<bClosing, s, sockobj, bCleanup>>
          /\ pc[Only] \notin {"wait", "free", "zeroSend", "zeroRecv"} \cup ToEnd
          /\ pc'[Only] \notin {"zeroSend", "zeroRecv", "cleanup", "free"}
      BY <2>2 DEF Enqueue, ErrFree, ReceiveNoMore, DecOut, ReceiveAgain
    <3>2. bCleanup[Only] # 1
      BY <1>a, <3>1
    <3> QED
      BY <2>1, <3>1, <3>2
  <2>3. CASE PostRecv(Only) \/ IncRecv(Only)
    <3>1. /\ UNCHANGED <<bClosing, s, sockobj, bCleanup>>
          /\ pc[Only] \notin {"wait", "free", "zeroSend", "zeroRecv"} \cup ToEnd
          /\ pc'[Only] \notin {"zeroSend", "zeroRecv", "cleanup", "free"}
      BY <2>3 DEF PostRecv, Issue, IssueFails, IncRecv, IncRecvTo
    <3>2. bCleanup[Only] # 1
      BY <1>a, <3>1
    <3> QED
      BY <2>1, <3>1, <3>2
  <2>4. CASE Process(Only) \/ DequeueNone(Only) \/ Dequeue(Only) \/ IncSend(Only) \/ IncOut(Only)
    BY <2>1, <2>4 DEF Process, DequeueNone, Dequeue, IncSend, IncOut
  <2>5. CASE PostSend(Only)
    BY <2>1, <2>5 DEF PostSend, Issue, IssueFails
  (* With nothing outstanding on the socket the two reads find 0 and 0. *)
  <2>6. CASE ZeroSendNone(Only)
    BY <2>1, <2>6 DEF ZeroSendNone
  <2>7. ~ZeroSendSome(Only)
    <3> SUFFICES ASSUME ZeroSendSome(Only) PROVE FALSE
      OBVIOUS
    <3>1. /\ pc[Only] = "zeroSend" /\ sockobj[Only] \in SockObjs
          /\ OutstandingSend[sockobj[Only]] # 0
      BY DEF ZeroSendSome, RefOK, OnSocket
    <3> QED
      BY <3>1, NoneLive DEF Shut, Inc
  <2>8. CASE ZeroRecv(Only)
    <3>1. /\ pc[Only] = "zeroRecv" /\ sockobj[Only] \in SockObjs
      BY <2>8 DEF ZeroRecv, RefOK, OnSocket
    <3>2. OutstandingRecv[sockobj[Only]] = 0
      BY <3>1, NoneLive DEF Shut, Inc
    <3>3. \A b \in Buffers : Live(b)' => Live(b) /\ bufSock'[b] = bufSock[b]
      BY <1>b, LiveMoves
    <3>4. /\ UNCHANGED <<s, bClosing, sockobj>> /\ bCleanup'[Only] = 1
          /\ pc'[Only] = "process"
      BY <2>8, <3>2 DEF ZeroRecv
    <3>5. ASSUME NEW o \in SockObjs, bClosing'[o] = 1 PROVE Shut(o)'
      BY <3>3, <3>4, <3>5 DEF Shut
    <3> QED
      BY <3>1, <3>4, <3>5
  <2>9. CASE SetClosing(Only)
    <3>1. /\ pc[Only] = "setClosing" /\ sockobj[Only] \in SockObjs
          /\ buf[Only] \in Buffers /\ Live(buf[Only]) /\ bufSock[buf[Only]] = sockobj[Only]
      BY <2>9, OwnedOne DEF SetClosing, RefOK, OnSocket, Live, PointersOK, AboutBuf, Holding
    <3>2. /\ UNCHANGED <<posted, pending, bufSock, s, sockobj, bCleanup>>
          /\ buf'[Only] = NULL /\ pc'[Only] = "zeroSend"
          /\ bClosing' = [bClosing EXCEPT ![sockobj[Only]] = 1]
      BY <2>9 DEF SetClosing
    <3>3. posted[buf[Only]] = "none" /\ buf[Only] \notin Queued
      BY <1>0, <3>1, OwnedOne
    <3>4. \A b \in Buffers : Live(b)' => Live(b) /\ b # buf[Only]
      BY <1>0, <3>1, <3>2, <3>3, QueueSame DEF Live
    <3>5. \A b \in Buffers : Live(b)' => bufSock'[b] # sockobj[Only]
      BY <3>1, <3>2, <3>4 DEF OneEach
    <3>6. \A o \in SockObjs : bClosing'[o] = 1 => o = sockobj[Only]
      BY <1>a, <3>1, <3>2
    <3>7. \A o \in SockObjs : bClosing'[o] = 1 => Shut(o)'
      BY <3>2, <3>5, <3>6 DEF Shut
    <3>8. bClosing'[sockobj'[Only]] = 1
      BY <3>1, <3>2
    <3> QED
      BY <3>1, <3>2, <3>7, <3>8
  <2>10. CASE TailSend(Only)
    <3>1. bCleanup[Only] = 1 => sockobj[Only] # NULL
      BY <1>0, <2>10 DEF TailSend
    <3> QED
      BY <2>1, <2>10, <3>1 DEF TailSend, NotIdle
  <2>11. CASE TailRecv(Only)
    BY <2>1, <2>11 DEF TailRecv, NotIdle
  <2>12. CASE TailClosing(Only)
    <3>1. sockobj[Only] \in SockObjs /\ pc[Only] = "tailClosing"
      BY <2>12 DEF TailClosing, RefOK, OnSocket
    <3>2. bClosing[sockobj[Only]] # 0 => bCleanup[Only] = 1
      BY <3>1 DEF Shut
    <3> QED
      BY <2>1, <2>12, <3>2 DEF TailClosing, NotIdle
  <2>13. CASE CloseSocket(Only)
    <3>1. \A b \in Buffers : Live(b)' => Live(b) /\ bufSock'[b] = bufSock[b]
      BY <1>b, LiveMoves
    <3>2. ASSUME NEW o \in SockObjs, bClosing'[o] = 1 PROVE Shut(o)'
      BY <2>13, <3>1, <3>2 DEF Shut, CloseSocket
    <3>3. sockobj[Only] \in SockObjs /\ \A o \in SockObjs : s[o] # "INVALID_SOCKET"
      BY <2>13 DEF CloseSocket, RefOK, OnSocket
    <3> QED
      BY <2>13, <3>2, <3>3 DEF CloseSocket
  <2>14. CASE Free(Only)
    <3>1. /\ sockobj[Only] \in SockObjs /\ pc'[Only] = "wait"
          /\ s' = [s EXCEPT ![sockobj[Only]] = "0"]
          /\ bClosing' = [bClosing EXCEPT ![sockobj[Only]] = 0]
      BY <2>14 DEF Free, FreeSocketObj, Zero, RefOK, OnSocket
    <3>2. \A o \in SockObjs : bClosing'[o] # 1 /\ s'[o] # "INVALID_SOCKET"
      BY <1>a, <3>1
    <3> QED
      BY <3>1, <3>2
  <2>15. CASE ErrOther(Only)
    <3>1. /\ sockobj[Only] \in SockObjs /\ pc[Only] \in {"errSend", "errRecv"}
          /\ pc'[Only] = "errFree" /\ UNCHANGED bCleanup
          /\ \/ UNCHANGED <<s, bClosing>>
             \/ /\ s' = [s EXCEPT ![sockobj[Only]] = "0"]
                /\ bClosing' = [bClosing EXCEPT ![sockobj[Only]] = 0]
      BY <2>15 DEF ErrOther, FreeSocketObj, Zero, RefOK, OnSocket
    <3>2. bCleanup[Only] # 1 /\ \A o \in SockObjs : bClosing[o] # 1 /\ s[o] # "INVALID_SOCKET"
      BY <1>a, <3>1
    <3>3. \A o \in SockObjs : bClosing'[o] # 1 /\ s'[o] # "INVALID_SOCKET"
      <4> SUFFICES ASSUME NEW o \in SockObjs
                   PROVE  bClosing'[o] # 1 /\ s'[o] # "INVALID_SOCKET"
        OBVIOUS
      <4>1. bClosing'[o] # 1
        BY <3>1, <3>2
      <4>2. s'[o] # "INVALID_SOCKET"
        BY <3>1, <3>2
      <4> QED
        BY <4>1, <4>2
    <3>4. bCleanup'[Only] # 1
      BY <3>1, <3>2
    <3> QED
      BY <3>1, <3>3, <3>4, NoneClosing
  <2>16. CASE Accept(Only) \/ Complete(Only)
    <3>1. /\ pc[Only] = "wait" /\ UNCHANGED bClosing
          /\ pc'[Only] \in {"wait", "process", "enqueue", "setClosing", "decOut", "errSend",
                             "errRecv", "errFree"}
          /\ pc'[Only] = "wait" \/ bCleanup' = [bCleanup EXCEPT ![Only] = 0]
      BY <2>16 DEF Accept, AcceptDone, AcceptNoPort, AcceptNoMemory, GetSocketObj, Complete,
         Take, RecvDone, RecvZero, RecvError, SendDone, SendError
    <3>2. pc'[Only] \notin {"zeroSend", "zeroRecv", "cleanup", "free"}
      BY <3>1
    <3>3. bCleanup' = [bCleanup EXCEPT ![Only] = 0] => bCleanup'[Only] # 1
      BY <1>0
    <3>4. /\ pc'[Only] \notin {"zeroSend", "zeroRecv", "cleanup", "free"}
          /\ pc'[Only] # "wait" => bCleanup'[Only] # 1
      BY <3>1, <3>2, <3>3
    <3>5. \A o \in SockObjs : bClosing'[o] # 1 /\ s[o] # "INVALID_SOCKET"
      BY <1>a, <3>1
    <3>6. \A o \in SockObjs : s'[o] # "INVALID_SOCKET"
      BY <2>16, <3>5 DEF Accept, AcceptDone, AcceptNoPort, AcceptNoMemory, GetSocketObj, Complete,
         Take, RecvDone, RecvZero, RecvError, SendDone, SendError
    <3>7. \A o \in SockObjs : bClosing'[o] # 1 /\ s'[o] # "INVALID_SOCKET"
      BY <3>5, <3>6
    <3> QED
      BY <3>4, <3>7, NoneClosing
  <2> QED
    BY <2>2, <2>3, <2>4, <2>5, <2>6, <2>7, <2>8, <2>9, <2>10, <2>11, <2>12, <2>13, <2>14,
       <2>15, <2>16 DEF Step, Run
<1>c. CASE \E b \in Buffers, o \in SockObjs : AcceptDone(Only, b, o)
  <2>1. /\ pc[Only] = "wait" /\ UNCHANGED bClosing
        /\ pc'[Only] = "enqueue" /\ bCleanup'[Only] = 0
    BY <1>c DEF AcceptDone, GetSocketObj
  <2>2. \A o \in SockObjs : bClosing'[o] # 1 /\ s[o] # "INVALID_SOCKET"
    BY <1>a, <2>1
  <2>3. \A o \in SockObjs : s'[o] # "INVALID_SOCKET"
    BY <1>c, <2>2 DEF AcceptDone, GetSocketObj
  <2> QED
    BY <2>1, <2>2, <2>3, NoneClosing
<1> QED
  BY <1>b, <1>c

LEMMA OneInit == Workers = {Only} /\ Init => OneInv
<1> SUFFICES ASSUME Workers = {Only}, Init PROVE OneInv
  OBVIOUS
<1>1. Queued = {} /\ \A b \in Buffers : ~Live(b)
  BY ConstAssumption DEF Init, Queued, Live
<1>2. SpareOK
  BY ConstAssumption DEF Init, SpareOK, Spare
<1>3. OneEach
  BY <1>1 DEF OneEach
<1>4. CountOK
  BY <1>1 DEF Init, CountOK, CountOf, Tally, Has, HasQueued, On
<1>5. PointersOK
  BY DEF Init, PointersOK, AboutBuf
<1>6. ClosingOK
  BY DEF Init, ClosingOK
<1> QED
  BY <1>2, <1>3, <1>4, <1>5, <1>6 DEF OneInv

LEMMA OneStep == Workers = {Only} /\ OneState /\ [Next]_vars => OneState'
<1> SUFFICES ASSUME Workers = {Only}, OneState, [Next]_vars PROVE OneState'
  OBVIOUS
<1>1. TypeInv' /\ BufferOwned'
  BY TypeStep, OwnedStep DEF OneState
<1>2. CASE UNCHANGED vars
  BY <1>1, <1>2 DEF vars, OneState, OneInv, SpareOK, Spare, OneEach, CountOK, CountOf, Tally, Has,
     HasQueued, On, PointersOK, ClosingOK, Shut, Live, Queued
<1>3. CASE Next
  <2>1. Step(Only)
    BY <1>3 DEF Next, Step
  <2> QED
    BY <1>1, <2>1, SpareStep, EachStep, CountStep, PointersStep, ClosingStep DEF OneState, OneInv
<1> QED
  BY <1>2, <1>3

LEMMA OneAlways == Workers = {Only} => (Spec => []OneState)
<1> SUFFICES ASSUME Workers = {Only} PROVE Spec => []OneState
  OBVIOUS
<1>1. Init => OneState
  BY OneInit, TypeInit DEF OneState, Init, BufferOwned, Queued
<1>2. OneState /\ [Next]_vars => OneState'
  BY OneStep
<1> QED
  BY <1>1, <1>2, PTL DEF Spec

LEMMA AtMostOne ==
  ASSUME NEW S, \A x, y \in S : x = y
  PROVE  Cardinality(S) = IF S = {} THEN 0 ELSE 1
<1>1. CASE S = {}
  BY <1>1, FS_EmptySet
<1>2. ASSUME NEW x \in S PROVE Cardinality(S) = 1
  <2>1. S = {x}
    BY <1>2
  <2> QED
    BY <2>1, FS_Singleton
<1> QED
  BY <1>1, <1>2

(* With one completion thread the counters of a SOCKET_OBJ are exact: they *)
(* count what is outstanding and queued, but for what that thread posted   *)
(* and has still to count, whatever fails.  With more, the second of two   *)
(* frees clears the counters of the connection that got the object.        *)
THEOREM CountersOfOneThread == Cardinality(Workers) = 1 => (Spec => []CountersExact)
<1> SUFFICES ASSUME Cardinality(Workers) = 1 PROVE Spec => []CountersExact
  OBVIOUS
<1>1. Workers = {Only}
  BY Alone
<1>2. OneState => CountersExact
  <2> SUFFICES ASSUME OneState, NEW o \in SockObjs
               PROVE  LET Of(op) == {b \in Posted(op) : bufSock[b] = o}
                          Late(l) == {w \in ToWorkers({l}) : sock[w] = o}
                      IN /\ OutstandingRecv[o] + Cardinality(Late("incRecv"))
                            = Cardinality(Of("recv"))
                         /\ OutstandingSend[o] + Cardinality(Late("incSend"))
                            = Cardinality(Of("send"))
                         /\ PendingSend[o] = Cardinality({b \in Queued : bufSock[b] = o})
    BY DEF CountersExact
  <2>1. ASSUME NEW op \in {"recv", "send"}
        PROVE  Cardinality({b \in Posted(op) : bufSock[b] = o}) = IF Has(op, o) THEN 1 ELSE 0
    <3>1. \A b, c \in {b \in Posted(op) : bufSock[b] = o} : b = c
      BY <2>1 DEF Posted, OneState, OneInv, OneEach, Live
    <3>2. {b \in Posted(op) : bufSock[b] = o} = {} <=> ~Has(op, o)
      BY DEF Posted, Has
    <3> QED
      BY <3>1, <3>2, AtMostOne
  <2>2. ASSUME NEW l \in Inc
        PROVE  Cardinality({w \in ToWorkers({l}) : sock[w] = o}) = IF On(l, o) THEN 1 ELSE 0
    <3>1. \A v, w \in {w \in ToWorkers({l}) : sock[w] = o} : v = w
      BY <1>1 DEF ToWorkers
    <3>2. {w \in ToWorkers({l}) : sock[w] = o} = {} <=> ~On(l, o)
      BY <1>1 DEF ToWorkers, On
    <3> QED
      BY <3>1, <3>2, AtMostOne
  <2>3. Cardinality({b \in Queued : bufSock[b] = o}) = IF HasQueued(o) THEN 1 ELSE 0
    <3>1. \A b, c \in {b \in Queued : bufSock[b] = o} : b = c
      BY <1>1, OwnedOne DEF OneState, OneInv, OneEach, Live
    <3>2. {b \in Queued : bufSock[b] = o} = {} <=> ~HasQueued(o)
      BY DEF HasQueued
    <3> QED
      BY <3>1, <3>2, AtMostOne
  <2>4. CountOf(o)
    BY DEF OneState, OneInv, CountOK
  <2> QED
    BY <2>1, <2>2, <2>3, <2>4 DEF CountOf, Tally, Inc
<1>3. Spec => []OneState
  BY <1>1, OneAlways
<1> QED
  BY <1>2, <1>3, PTL

(* With one completion thread a SOCKET_OBJ is freed once, while it is in   *)
(* use and nothing of it is outstanding or queued, whatever fails.         *)
THEOREM FreedOnceByOneThread == Cardinality(Workers) = 1 => (Spec => []FreedOnce)
<1> SUFFICES ASSUME Cardinality(Workers) = 1 PROVE Spec => []FreedOnce
  OBVIOUS
<1>1. Workers = {Only}
  BY Alone
<1>2. OneState => FreedOnce
  <2> SUFFICES ASSUME OneState, NEW o \in SockObjs, WillFree(Only, o)
               PROVE  /\ s[o] # "0"
                      /\ \A b \in Buffers : bufSock[b] = o => posted[b] = "none" /\ b \notin Queued
    BY <1>1 DEF FreedOnce
  <2>1. sockobj[Only] = o /\ pc[Only] \in {"cleanup", "free", "errSend", "errRecv"}
    BY DEF WillFree
  <2>2. s[o] # "0"
    BY <2>1, ConstAssumption DEF OneState, OneInv, PointersOK
  <2>3. CASE pc[Only] \in {"cleanup", "free"}
    <3>1. bClosing[o] = 1
      BY <2>1, <2>3 DEF OneState, OneInv, ClosingOK
    <3>2. \A b \in Buffers : Live(b) => bufSock[b] # o
      BY <3>1 DEF OneState, OneInv, ClosingOK, Shut
    <3> QED
      BY <2>2, <3>2 DEF Live
  <2>4. CASE pc[Only] \in {"errSend", "errRecv"}
    <3>1. /\ buf[Only] \in Buffers /\ Live(buf[Only]) /\ bufSock[buf[Only]] = o
          /\ posted[buf[Only]] = "none" /\ buf[Only] \notin Queued
      BY <1>1, <2>1, <2>4, OwnedOne DEF OneState, OneInv, PointersOK, AboutBuf, Live, Holding
    <3>2. \A b \in Buffers : Live(b) /\ bufSock[b] = o => b = buf[Only]
      BY <3>1 DEF OneState, OneInv, OneEach
    <3> QED
      BY <2>2, <3>1, <3>2 DEF Live
  <2> QED
    BY <2>1, <2>2, <2>3, <2>4
<1>3. Spec => []OneState
  BY <1>1, OneAlways
<1> QED
  BY <1>2, <1>3, PTL

(* While no call fails at once and the port takes every socket, nothing in *)
(* use is forgotten: the thread will free it, or it has a live buffer.     *)
Used(o) == bClosing[o] = 1 \/ \E b \in Buffers : Live(b) /\ bufSock[b] = o
UsedOK == \A o \in SockObjs : s[o] # "0" => Used(o)

LEMMA UsedStep ==
  ASSUME OneState, OneState', Workers = {Only}, Step(Only), UsedOK,
         "post" \notin Faults, "port" \notin Faults
  PROVE  UsedOK'
<1> USE DEF OneState, OneInv, TypeInv, TypeOK, Labels
<1>0. Only \in Workers /\ NULL \notin SockObjs /\ NULL \notin Buffers
  BY ConstAssumption
<1>1. ASSUME \A b \in Buffers : Live(b) => Live(b)' /\ bufSock'[b] = bufSock[b],
             UNCHANGED bClosing,
             \A o \in SockObjs : s'[o] # "0" => s[o] # "0"
      PROVE  UsedOK'
  BY <1>1 DEF UsedOK, Used
<1>2. CASE Accept(Only)
  <2>1. ASSUME NEW b \in Buffers, NEW o \in SockObjs, AcceptDone(Only, b, o)
        PROVE  UsedOK'
    <3>1. /\ bufSock'[b] = o /\ Live(b)' /\ UNCHANGED bClosing
          /\ \A p \in SockObjs \ {o} : s'[p] = s[p]
      BY <1>0, <2>1 DEF AcceptDone, GetSocketObj, Live
    <3>2. \A c \in Buffers : Live(c) => Live(c)' /\ bufSock'[c] = bufSock[c]
      <4>1. ~Live(b) /\ bufSock' = [bufSock EXCEPT ![b] = o]
        BY <2>1, NewLive
      <4>2. UNCHANGED <<posted, pending>> /\ pc[Only] = "wait"
        BY <2>1 DEF AcceptDone
      <4>3. buf[Only] = NULL
        BY <4>2, OwnedOne DEF Holding
      <4> QED
        BY <1>0, <4>1, <4>2, <4>3, QueueSame DEF Live
    <3> QED
      BY <3>1, <3>2 DEF UsedOK, Used
  <2>2. ASSUME NEW b \in Buffers, AcceptNoMemory(Only, b)
        PROVE  UsedOK'
    <3>1. \A c \in Buffers : Live(c) => Live(c)' /\ bufSock'[c] = bufSock[c]
      BY <1>0, <2>2, QueueSame DEF AcceptNoMemory, Live
    <3>2. UNCHANGED <<s, bClosing>>
      BY <2>2 DEF AcceptNoMemory
    <3> QED
      BY <1>1, <3>1, <3>2
  <2> QED
    BY <1>2, <2>1, <2>2 DEF Accept, AcceptNoPort
(* An error that completes finds its counter at 1. *)
<1>3. CASE Complete(Only)
  <2> PICK b \in Buffers : \/ RecvDone(Only, b) \/ RecvZero(Only, b) \/ RecvError(Only, b)
                           \/ SendDone(Only, b) \/ SendError(Only, b)
    BY <1>3 DEF Complete
  <2>1. ASSUME NEW op \in {"recv", "send"}, NEW l \in Labels \ Inc, l # "errFree",
               Take(Only, b, op, l)
        PROVE  UsedOK'
    <3>1. /\ UNCHANGED <<pending, bufSock, s, bClosing>> /\ buf'[Only] = b /\ pc'[Only] # "errFree"
          /\ \A c \in Buffers \ {b} : posted'[c] = posted[c]
          /\ pc[Only] = "wait"
      BY <1>0, <2>1 DEF Take
    <3>2. buf[Only] = NULL
      BY <3>1, OwnedOne DEF Holding
    <3>3. \A c \in Buffers : Live(c) => Live(c)' /\ bufSock'[c] = bufSock[c]
      BY <1>0, <3>1, <3>2, QueueSame DEF Live
    <3> QED
      BY <1>1, <3>1, <3>3
  <2>2. {"enqueue", "setClosing", "errSend", "errRecv", "errFree", "decOut"} \subseteq Labels \ Inc
    BY DEF Inc
  <2>3. CASE RecvDone(Only, b) \/ RecvZero(Only, b) \/ SendDone(Only, b)
    BY <2>1, <2>2, <2>3 DEF RecvDone, RecvZero, SendDone
  <2>4. CASE RecvError(Only, b)
    <3>1. PICK l \in Labels \ Inc :
            /\ Take(Only, b, "recv", l)
            /\ l = IF OutstandingRecv[bufSock[b]] = 1 THEN "errSend" ELSE "errFree"
      BY <2>2, <2>4 DEF RecvError
    <3>2. OutstandingRecv[bufSock[b]] = 1
      BY <3>1, TakeCount
    <3> QED
      BY <2>1, <3>1, <3>2
  <2>5. CASE SendError(Only, b)
    <3>1. PICK l \in Labels \ Inc :
            /\ Take(Only, b, "send", l)
            /\ l = IF OutstandingSend[bufSock[b]] = 1 THEN "errRecv" ELSE "errFree"
      BY <2>2, <2>5 DEF SendError
    <3>2. OutstandingSend[bufSock[b]] = 1
      BY <3>1, TakeCount
    <3> QED
      BY <2>1, <3>1, <3>2
  <2> QED
    BY <2>3, <2>4, <2>5
(* And the other counter at 0, so it frees the socket with its buffer. *)
<1>4. CASE ErrOther(Only)
  <2>1. /\ sockobj[Only] \in SockObjs /\ pc[Only] \in {"errSend", "errRecv"}
        /\ UNCHANGED <<posted, pending, bufSock, buf>> /\ pc'[Only] = "errFree"
        /\ buf[Only] \in Buffers /\ Live(buf[Only]) /\ bufSock[buf[Only]] = sockobj[Only]
    BY <1>0, <1>4, OwnedOne DEF ErrOther, RefOK, OnSocket, PointersOK, AboutBuf, Live, Holding
  <2>2. \A b \in Buffers : Live(b) => bufSock[b] # sockobj[Only] \/ b = buf[Only]
    BY <2>1 DEF OneEach
  <2>3. OutstandingRecv[sockobj[Only]] = 0 /\ OutstandingSend[sockobj[Only]] = 0
    BY <2>1, <2>2, NoneLive DEF Inc
  <2>4. /\ s' = [s EXCEPT ![sockobj[Only]] = "0"]
        /\ bClosing' = [bClosing EXCEPT ![sockobj[Only]] = 0]
    BY <1>4, <2>3 DEF ErrOther, FreeSocketObj, Zero
  <2>5. \A b \in Buffers : Live(b) /\ bufSock[b] # sockobj[Only] => Live(b)'
    BY <2>1, QueueSame DEF Live
  <2>6. ASSUME NEW o \in SockObjs, s'[o] # "0" PROVE Used(o)'
    <3>1. o # sockobj[Only] /\ bClosing'[o] = bClosing[o] /\ Used(o)
      BY <2>1, <2>4, <2>6 DEF UsedOK
    <3> QED
      BY <2>1, <2>5, <3>1 DEF Used
  <2> QED
    BY <2>6 DEF UsedOK
<1>5. CASE Free(Only)
  <2>1. /\ sockobj[Only] \in SockObjs /\ UNCHANGED <<posted, pending, bufSock, buf>>
        /\ s' = [s EXCEPT ![sockobj[Only]] = "0"] /\ pc[Only] = "free"
        /\ bClosing' = [bClosing EXCEPT ![sockobj[Only]] = 0]
        /\ pc'[Only] = "wait"
    BY <1>0, <1>5 DEF Free, FreeSocketObj, Zero, RefOK, OnSocket
  <2>2. \A b \in Buffers : Live(b) => Live(b)'
    BY <2>1, QueueSame DEF Live
  <2>3. ASSUME NEW o \in SockObjs, s'[o] # "0" PROVE Used(o)'
    <3>1. o # sockobj[Only] /\ bClosing'[o] = bClosing[o] /\ Used(o)
      BY <2>1, <2>3 DEF UsedOK
    <3> QED
      BY <2>1, <2>2, <3>1 DEF Used
  <2> QED
    BY <2>3 DEF UsedOK
<1>6. CASE SetClosing(Only)
  <2>1. /\ sockobj[Only] \in SockObjs /\ pc[Only] = "setClosing"
        /\ UNCHANGED <<posted, pending, bufSock, s>> /\ pc'[Only] = "zeroSend"
        /\ bClosing' = [bClosing EXCEPT ![sockobj[Only]] = 1]
        /\ bufSock[buf[Only]] = sockobj[Only]
    BY <1>0, <1>6 DEF SetClosing, RefOK, OnSocket, PointersOK, AboutBuf
  <2>2. \A b \in Buffers : Live(b) /\ bufSock[b] # sockobj[Only] => Live(b)'
    BY <2>1, QueueSame DEF Live
  <2>3. ASSUME NEW o \in SockObjs, s'[o] # "0" PROVE Used(o)'
    <3>1. CASE o = sockobj[Only]
      BY <2>1, <3>1 DEF Used
    <3>2. CASE o # sockobj[Only]
      <4>1. bClosing'[o] = bClosing[o] /\ Used(o)
        BY <2>1, <2>3, <3>2 DEF UsedOK
      <4> QED
        BY <2>1, <2>2, <3>2, <4>1 DEF Used
    <3> QED
      BY <3>1, <3>2
  <2> QED
    BY <2>3 DEF UsedOK
<1>7. CASE ErrFree(Only)
  <2>1. UNCHANGED <<posted, pending, bufSock, s, bClosing>> /\ pc[Only] = "errFree"
    BY <1>7 DEF ErrFree
  <2>2. \A b \in Buffers : Live(b) => Live(b)'
    BY <2>1, QueueSame DEF Live
  <2> QED
    BY <1>1, <2>1, <2>2
<1>8. ~ReceiveNoMore(Only)
  <2> SUFFICES ASSUME ReceiveNoMore(Only) PROVE FALSE
    OBVIOUS
  <2>1. pc[Only] = "readClosing" /\ sockobj[Only] \in SockObjs /\ bClosing[sockobj[Only]] = 1
    BY <1>0 DEF ReceiveNoMore, RefOK, OnSocket
  <2> QED
    BY <2>1 DEF ClosingOK, Shut, ToEnd
<1>9. CASE PostRecv(Only) \/ PostSend(Only)
  <2>1. /\ buf[Only] \in Buffers /\ sock[Only] \in SockObjs /\ s[sock[Only]] = "open"
    <3>1. /\ buf[Only] \in Buffers /\ Live(buf[Only]) /\ sock[Only] = bufSock[buf[Only]]
          /\ sock[Only] \in SockObjs /\ pc[Only] \in {"postRecv", "postSend"}
      BY <1>0, <1>9, OwnedOne DEF PostRecv, PostSend, RefOK, Posting, PointersOK, AboutBuf,
         Live, Holding
    <3>2. s[sock[Only]] # "0" /\ s[sock[Only]] # "INVALID_SOCKET"
      BY <3>1 DEF OneEach, ClosingOK
    <3> QED
      BY <3>1, <3>2 DEF Handles
  <2>2. /\ UNCHANGED <<pending, bufSock, s, bClosing>>
        /\ \E op \in {"recv", "send"} : posted' = [posted EXCEPT ![buf[Only]] = op]
    BY <1>9, <2>1 DEF PostRecv, PostSend, Issue, IssueFails
  <2>3. \A b \in Buffers : Live(b) => Live(b)'
    BY <2>1, <2>2, QueueSame DEF Live
  <2> QED
    BY <1>1, <2>2, <2>3
<1>10. CASE Enqueue(Only)
  <2>1. /\ UNCHANGED <<posted, bufSock, s, bClosing>>
        /\ Queued' = Queued \cup {buf[Only]}
    BY <1>10, QueueIn DEF Enqueue
  <2>2. \A b \in Buffers : Live(b) => Live(b)'
    BY <2>1 DEF Live
  <2> QED
    BY <1>1, <2>1, <2>2
<1>11. CASE Dequeue(Only)
  <2>1. /\ UNCHANGED <<posted, bufSock, s, bClosing>> /\ pc[Only] = "dequeue"
        /\ buf'[Only] = Head(pending) /\ pc'[Only] = "postSend"
    BY <1>0, <1>11 DEF Dequeue
  <2>2. Queued' = Queued \ {Head(pending)} /\ buf[Only] = NULL
    BY <1>11, <2>1, QueueOut, OwnedOne DEF Holding
  <2>3. \A b \in Buffers : Live(b) => Live(b)'
    BY <1>0, <2>1, <2>2 DEF Live
  <2> QED
    BY <1>1, <2>1, <2>3
<1>12. CASE ReceiveAgain(Only)
  <2>1. /\ UNCHANGED <<posted, pending, buf, s, bClosing>> /\ pc'[Only] # "errFree"
        /\ bufSock' = [bufSock EXCEPT ![buf[Only]] = sockobj[Only]]
        /\ bufSock[buf[Only]] = sockobj[Only]
    BY <1>0, <1>12 DEF ReceiveAgain, PointersOK, AboutBuf
  <2>2. \A b \in Buffers : Live(b) => Live(b)' /\ bufSock'[b] = bufSock[b]
    BY <2>1, QueueSame DEF Live
  <2> QED
    BY <1>1, <2>1, <2>2
<1>13. CASE CloseSocket(Only)
  <2>1. /\ UNCHANGED <<posted, pending, bufSock, buf, bClosing>> /\ pc'[Only] # "errFree"
        /\ s' = [s EXCEPT ![sockobj[Only]] = "INVALID_SOCKET"] /\ pc[Only] = "cleanup"
        /\ sockobj[Only] \in SockObjs /\ s[sockobj[Only]] # "0"
    BY <1>0, <1>13 DEF CloseSocket, RefOK, OnSocket, PointersOK
  <2>2. \A b \in Buffers : Live(b) => Live(b)'
    BY <2>1, QueueSame DEF Live
  <2> QED
    BY <1>1, <2>1, <2>2
<1>14. CASE UNCHANGED <<posted, pending, bufSock, buf, s, bClosing>> /\ pc'[Only] # "errFree"
  <2>1. \A b \in Buffers : Live(b) => Live(b)'
    BY <1>14, QueueSame DEF Live
  <2> QED
    BY <1>1, <1>14, <2>1
<1>15. CASE \/ ZeroSendNone(Only) \/ ZeroSendSome(Only) \/ ZeroRecv(Only) \/ DecOut(Only)
           \/ IncRecv(Only) \/ IncSend(Only) \/ IncOut(Only)
  BY <1>0, <1>14, <1>15 DEF ZeroSendNone, ZeroSendSome, ZeroRecv, DecOut, IncRecv, IncRecvTo,
     IncSend, IncOut
<1>16. CASE \/ Process(Only) \/ DequeueNone(Only) \/ TailSend(Only) \/ TailRecv(Only)
           \/ TailClosing(Only)
  BY <1>0, <1>14, <1>16 DEF Process, DequeueNone, TailSend, TailRecv, TailClosing, NotIdle
<1> QED
  BY <1>2, <1>3, <1>4, <1>5, <1>6, <1>7, <1>8, <1>9, <1>10, <1>11, <1>12, <1>13, <1>15, <1>16
     DEF Step, Run

(* With one completion thread, while no call fails at once and the port    *)
(* takes every socket, a connection has one buffer: no two operations at a *)
(* time, and when the thread waits one outstanding or queued.              *)
THEOREM OneBufferOfOneThread ==
  Cardinality(Workers) = 1 /\ "post" \notin Faults /\ "port" \notin Faults
    => (Spec => []OneBufferPerSocket)
<1> SUFFICES ASSUME Cardinality(Workers) = 1, "post" \notin Faults, "port" \notin Faults
             PROVE  Spec => []OneBufferPerSocket
  OBVIOUS
<1>1. Workers = {Only}
  BY Alone
<1>2. Init => UsedOK
  BY DEF Init, UsedOK
<1>3. OneState /\ OneState' /\ UsedOK /\ [Next]_vars => UsedOK'
  <2>1. CASE UNCHANGED vars
    BY <2>1 DEF vars, UsedOK, Used, Live, Queued
  <2>2. CASE Next
    BY <1>1, <2>2, UsedStep DEF Next, Step
  <2> QED
    BY <2>1, <2>2
<1>4. OneState /\ UsedOK => OneBufferPerSocket
  <2> SUFFICES ASSUME OneState, UsedOK PROVE OneBufferPerSocket
    OBVIOUS
  <2>1. \A b, c \in Buffers : Live(b) /\ Live(c) /\ bufSock[b] = bufSock[c] => b = c
    BY DEF OneState, OneInv, OneEach
  <2>2. ASSUME Idle, NEW o \in SockObjs, s[o] # "0"
        PROVE  \E b \in Buffers : bufSock[b] = o /\ (posted[b] # "none" \/ b \in Queued)
    <3>1. pc[Only] = "wait" /\ buf[Only] = NULL
      BY <1>1, <2>2, OwnedOne DEF Idle, OneState, Holding
    <3>2. bClosing[o] # 1
      BY <3>1 DEF OneState, OneInv, ClosingOK, Shut, ToEnd
    <3> QED
      BY <2>2, <3>1, <3>2, ConstAssumption DEF UsedOK, Used, Live
  <2> QED
    BY <2>1, <2>2 DEF OneBufferPerSocket, Live
<1>5. Spec => []OneState
  BY <1>1, OneAlways
<1> QED
  BY <1>2, <1>3, <1>4, <1>5, PTL DEF Spec
=============================================================================

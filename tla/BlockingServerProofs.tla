------------------------ MODULE BlockingServerProofs ------------------------
(***************************************************************************)
(* Theorems about BlockingServer, for any number of clients and listening  *)
(* threads, either protocol, and for every set of faults.                  *)
(***************************************************************************)
EXTENDS BlockingServer, SequenceTheorems, TLAPS

USE DEF RAt, RGoto, SAt, SGoto, LAt, LGoto, Tcp, Udp, CanFail, buflen,
        clientVars, objVars, lifeVars, recvVars, sendVars, listenVars

(* The listening threads: a client whose threads are being made has none   *)
(* yet, is the ConnObj of one listening thread only, and was accepted.     *)
ListenInv ==
  /\ \A l \in Listeners : lpc[l] \in {"receiver", "sender"} =>
       lconn[l] \in Conns /\ s[lconn[l]] = "open" /\ spc[lconn[l]] = "none"
  /\ \A l \in Listeners : lpc[l] = "receiver" => rpc[lconn[l]] = "none"
  /\ \A k, l \in Listeners : lconn[k] = lconn[l] /\ lconn[l] # NULL => k = l
  /\ \A c \in Conns : s[c] = "none" =>
       /\ rpc[c] = "none" /\ spc[c] = "none" /\ client[c] = "none"
       /\ \A l \in Listeners : lconn[l] # c

\* The sender alone closes the socket, frees the object and fails.
Life(c) ==
  /\ s[c] = "closed" <=> spc[c] \in {"free", "exit"}
  /\ freed[c] = 1 <=> spc[c] = "exit"
  /\ rc[c] = -1 => spc[c] \in {"close", "free", "exit"}
  /\ rpc[c] = "lost" => freed[c] = 1

Balance(c) ==
  freed[c] = 0 =>
    Len(pending[c]) = hRecvSema[c] + (IF rpc[c] = "release" THEN 1 ELSE 0)
                                   + (IF spc[c] = "dequeue" THEN 1 ELSE 0)

(* After the receiver's last buffer there is nothing: it is the last in    *)
(* the queue, and the receiver is gone once the sender has it.             *)
Last(c) ==
  /\ \A i \in 1 .. Len(pending[c]) : LastBuffer(pending[c][i]) =>
       /\ i = Len(pending[c])
       /\ rpc[c] \in {"exit", "lost"} \/ (rpc[c] = "release" /\ LastBuffer(rbuf[c]))
  /\ spc[c] = "send" /\ LastBuffer(sbuf[c]) => rpc[c] = "exit" /\ pending[c] = <<>>
  /\ spc[c] \in {"close", "free", "exit"} /\ rc[c] = 0 => rpc[c] = "exit"

\* A buffer of a failed recv tells that the connection is broken.
Failed(c) ==
  /\ rpc[c] = "enqueue" /\ buflen(rbuf[c]) < 0 => Gone(c) \/ s[c] = "closed"
  /\ \A i \in 1 .. Len(pending[c]) :
       buflen(pending[c][i]) < 0 => Gone(c) \/ s[c] = "closed"
  /\ spc[c] = "send" /\ buflen(sbuf[c]) < 0 => Gone(c)
  /\ rc[c] = -1 => Gone(c)
  /\ spc[c] = "close" => Gone(c) \/ Len(echoed[c]) = received[c]

\* The byte after those of b; where the sender's next buffer, and the next
\* one that the receiver queues, begin.
After(b) == b[1] + (IF buflen(b) > 0 THEN buflen(b) ELSE 0)
Front(c) == IF spc[c] = "send" THEN After(sbuf[c]) ELSE Len(echoed[c]) + 1
Back(c) == IF rpc[c] = "enqueue" THEN rbuf[c][1] ELSE received[c] + 1

(* From the output to the input, every byte received is in its place: the  *)
(* sender's buffer, those of the queue, the receiver's.                    *)
Order(c) ==
  /\ \A i \in 1 .. Len(echoed[c]) : echoed[c][i] = i
  /\ rpc[c] = "enqueue" => After(rbuf[c]) = received[c] + 1
  /\ \A i \in 1 .. Len(pending[c]) : After(pending[c][i]) <= received[c] + 1
  /\ spc[c] = "send" => /\ sbuf[c][1] = Len(echoed[c]) + 1
                        /\ After(sbuf[c]) <= received[c] + 1
  /\ spc[c] \in {"none", "wait", "dequeue", "send"} =>
       /\ pending[c] = <<>> => Front(c) = Back(c)
       /\ pending[c] # <<>> => /\ pending[c][1][1] = Front(c)
                               /\ After(pending[c][Len(pending[c])]) = Back(c)
       /\ \A i \in 1 .. (Len(pending[c]) - 1) :
            pending[c][i + 1][1] = After(pending[c][i])

ConnInv(c) == Life(c) /\ Balance(c) /\ Last(c) /\ Failed(c) /\ Order(c)

Inv == TypeOK /\ ListenInv /\ \A c \in Conns : ConnInv(c)
-----------------------------------------------------------------------------
LEMMA BytesProperties ==
  ASSUME NEW from \in Nat \ {0}, NEW n \in Nat
  PROVE  /\ Len(Bytes(from, n)) = n
         /\ \A i \in 1 .. n : Bytes(from, n)[i] = from + i - 1
         /\ from + n <= MaxBytes + 1 => Bytes(from, n) \in Seq(1 .. MaxBytes)
<1>1. \A i \in 1 .. n : from + i - 1 \in Nat \ {0}
  OBVIOUS
<1>2. Bytes(from, n) \in Seq(Nat \ {0}) /\ Len(Bytes(from, n)) = n
  BY <1>1 DEF Bytes
<1>3. from + n <= MaxBytes + 1 => \A i \in 1 .. n : from + i - 1 \in 1 .. MaxBytes
  BY BlockingAssumption
<1>4. from + n <= MaxBytes + 1 => Bytes(from, n) \in Seq(1 .. MaxBytes)
  BY <1>3 DEF Bytes
<1> QED
  BY <1>2, <1>4 DEF Bytes

\* Every buffer has its numbers.
LEMMA BufferType ==
  ASSUME NEW b \in Buffer \cup {<<0, 0>>}
  PROVE  b[1] \in Nat /\ b[2] \in Int /\ After(b) \in Int
BY BlockingAssumption DEF Buffer, After

\* What Dequeue takes and what it leaves.
LEMMA TailOf ==
  ASSUME NEW S, NEW q \in Seq(S), q # <<>>
  PROVE  /\ Len(q) \in Nat \ {0} /\ Head(q) = q[1] /\ q[1] \in S
         /\ Tail(q) \in Seq(S) /\ Len(Tail(q)) = Len(q) - 1
         /\ \A i \in 1 .. (Len(q) - 1) : Tail(q)[i] = q[i + 1]
         /\ Tail(q) = <<>> <=> Len(q) = 1
<1>1. /\ Len(q) \in Nat \ {0} /\ Head(q) = q[1] /\ q[1] \in S
      /\ Tail(q) \in Seq(S) /\ Len(Tail(q)) = Len(q) - 1
      /\ \A i \in 1 .. (Len(q) - 1) : Tail(q)[i] = q[i + 1]
  BY HeadTailProperties, EmptySeq
<1>2. Len(<<>>) = 0 /\ (Tail(q) # <<>> => Len(Tail(q)) \in Nat \ {0})
  BY <1>1, EmptySeq
<1>3. Tail(q) = <<>> => Len(q) = 1
  <2>1. Tail(q) = <<>> => Len(Tail(q)) = 0
    BY <1>2
  <2> QED
    BY <1>1, <2>1
<1>4. Len(q) = 1 => Tail(q) = <<>>
  BY <1>1, <1>2
<1> QED
  BY <1>1, <1>3, <1>4

\* A step that leaves everything of a client alone keeps its invariant.
Kept(c) ==
  /\ gProtocol' = gProtocol /\ client'[c] = client[c]
  /\ received'[c] = received[c] /\ echoed'[c] = echoed[c]
  /\ pending'[c] = pending[c] /\ hRecvSema'[c] = hRecvSema[c]
  /\ s'[c] = s[c] /\ freed'[c] = freed[c]
  /\ rpc'[c] = rpc[c] /\ rbuf'[c] = rbuf[c]
  /\ spc'[c] = spc[c] /\ sbuf'[c] = sbuf[c] /\ rc'[c] = rc[c]

LEMMA Frame ==
  ASSUME NEW c \in Conns, ConnInv(c), Kept(c)
  PROVE  ConnInv(c)'
  BY DEF Kept, ConnInv, Life, Balance, Last, Failed, Order, After, Front, Back,
         Gone, LastBuffer

\* So does one that moves neither a buffer nor a byte keep the order of them.
LEMMA OrderKept ==
  ASSUME NEW c \in Conns, Order(c),
         received'[c] = received[c], echoed'[c] = echoed[c], pending'[c] = pending[c],
         rbuf'[c] = rbuf[c], sbuf'[c] = sbuf[c],
         rpc'[c] = "enqueue" <=> rpc[c] = "enqueue",
         spc'[c] = "send" <=> spc[c] = "send",
         spc[c] \in {"close", "free", "exit"} => spc'[c] \in {"close", "free", "exit"},
         spc'[c] \in {"none", "wait", "dequeue", "send", "close", "free", "exit"},
         spc[c] \in {"none", "wait", "dequeue", "send", "close", "free", "exit"}
  PROVE  Order(c)'
<1>1. Front(c)' = Front(c) /\ Back(c)' = Back(c)
  BY DEF Front, Back
<1>2. spc'[c] \in {"none", "wait", "dequeue", "send"} =>
        spc[c] \in {"none", "wait", "dequeue", "send"}
  OBVIOUS
<1> QED
  BY <1>1, <1>2 DEF Order

LEMMA InvInit == Init => Inv
<1> SUFFICES ASSUME Init
             PROVE  Inv
  OBVIOUS
<1>1. TypeOK
  BY BlockingAssumption DEF Init, TypeOK
<1>2. ListenInv
  BY BlockingAssumption DEF Init, ListenInv
<1>3. ASSUME NEW c \in Conns
      PROVE  ConnInv(c)
  BY DEF Init, ConnInv, Life, Balance, Last, Failed, Order, After, Front, Back
<1> QED
  BY <1>1, <1>2, <1>3 DEF Inv

LEMMA InvShutdown ==
  ASSUME Inv, NEW c \in Conns, Shutdown(c)
  PROVE  Inv'
<1> USE BlockingAssumption DEF Inv, Shutdown
<1>1. TypeOK'
  BY DEF TypeOK
<1>2. ListenInv'
  BY DEF TypeOK, ListenInv
<1>3. ConnInv(c)'
  <2> USE DEF TypeOK, ConnInv
  <2>1. Life(c)'
    BY DEF Life
  <2>2. Balance(c)'
    BY DEF Balance
  <2>3. Last(c)'
    BY DEF Last, Life, LastBuffer
  <2>4. Failed(c)'
    BY DEF Failed, Life, Gone
  <2>5. Order(c)'
    BY OrderKept
  <2> QED
    BY <2>1, <2>2, <2>3, <2>4, <2>5
<1>4. ASSUME NEW d \in Conns, d # c
      PROVE  ConnInv(d)'
  BY <1>4, Frame DEF TypeOK, Kept
<1> QED
  BY <1>1, <1>2, <1>3, <1>4

LEMMA InvReset ==
  ASSUME Inv, NEW c \in Conns, Reset(c)
  PROVE  Inv'
<1> USE BlockingAssumption DEF Inv, Reset
<1>1. TypeOK'
  BY DEF TypeOK
<1>2. ListenInv'
  BY DEF TypeOK, ListenInv
<1>3. ConnInv(c)'
  <2> USE DEF TypeOK, ConnInv
  <2>1. Life(c)'
    BY DEF Life
  <2>2. Balance(c)'
    BY DEF Balance
  <2>3. Last(c)'
    BY DEF Last, Life, LastBuffer
  <2>4. Failed(c)'
    BY DEF Failed, Life, Gone
  <2>5. Order(c)'
    BY OrderKept
  <2> QED
    BY <2>1, <2>2, <2>3, <2>4, <2>5
<1>4. ASSUME NEW d \in Conns, d # c
      PROVE  ConnInv(d)'
  BY <1>4, Frame DEF TypeOK, Kept
<1> QED
  BY <1>1, <1>2, <1>3, <1>4

LEMMA InvRecvData ==
  ASSUME Inv, NEW c \in Conns, RecvData(c)
  PROVE  Inv'
<1> USE BlockingAssumption DEF Inv, RecvData, Got
<1>1. TypeOK'
  <2>1. PICK n \in 1 .. gBufferSize :
          /\ received[c] + n <= MaxBytes
          /\ received' = [received EXCEPT ![c] = @ + n]
          /\ Got(c, <<received[c] + 1, n>>)
    OBVIOUS
  <2>2. <<received[c] + 1, n>> \in Buffer /\ received[c] + n \in 0 .. MaxBytes
    BY <2>1 DEF TypeOK, Buffer
  <2> QED
    BY <2>1, <2>2 DEF TypeOK
<1>2. ListenInv'
  BY DEF TypeOK, ListenInv
<1>3. ConnInv(c)'
  <2> USE DEF TypeOK, ConnInv
  <2>1. Life(c)'
    BY DEF Life
  <2>2. Balance(c)'
    BY DEF Balance
  <2>3. Last(c)'
    BY DEF Last, Life, LastBuffer
  <2>4. Failed(c)'
    <3>1. PICK n \in 1 .. gBufferSize :
            /\ received' = [received EXCEPT ![c] = @ + n]
            /\ Got(c, <<received[c] + 1, n>>)
      OBVIOUS
    <3>2. spc[c] # "close" \/ Gone(c)
      BY DEF Failed, Last, Life
    <3> QED
      BY <3>1, <3>2 DEF Failed, Gone
  <2>5. Order(c)'
    <3>1. PICK n \in 1 .. gBufferSize :
            /\ received' = [received EXCEPT ![c] = @ + n]
            /\ Got(c, <<received[c] + 1, n>>)
      OBVIOUS
    <3>2. After(rbuf'[c]) = received'[c] + 1 /\ rbuf'[c][1] = received[c] + 1
      BY <3>1 DEF After
    <3>3. Back(c)' = Back(c) /\ Front(c)' = Front(c)
      BY <3>1, <3>2 DEF Back, Front, After
    <3>4. \A i \in 1 .. Len(pending[c]) : After(pending[c][i]) \in Int
      BY BufferType
    <3>5. After(sbuf[c]) \in Int
      BY BufferType
    <3>6. /\ received[c] \in Int /\ received'[c] \in Int /\ received[c] <= received'[c]
          /\ rpc'[c] = "enqueue" /\ UNCHANGED <<pending, spc, sbuf, echoed>>
          /\ Order(c)
      BY <3>1
    <3> HIDE DEF Inv, RecvData, Got, TypeOK, ConnInv
    <3>7. \A i \in 1 .. Len(pending'[c]) : After(pending'[c][i]) <= received'[c] + 1
      BY <3>4, <3>6 DEF Order
    <3>8. spc'[c] = "send" => /\ sbuf'[c][1] = Len(echoed'[c]) + 1
                              /\ After(sbuf'[c]) <= received'[c] + 1
      BY <3>5, <3>6 DEF Order
    <3>9. /\ \A i \in 1 .. Len(echoed'[c]) : echoed'[c][i] = i
          /\ rpc'[c] = "enqueue" => After(rbuf'[c]) = received'[c] + 1
      BY <3>2, <3>6 DEF Order
    <3>10. spc'[c] \in {"none", "wait", "dequeue", "send"} =>
             /\ pending'[c] = <<>> => Front(c)' = Back(c)'
             /\ pending'[c] # <<>> => /\ pending'[c][1][1] = Front(c)'
                                      /\ After(pending'[c][Len(pending'[c])]) = Back(c)'
             /\ \A i \in 1 .. (Len(pending'[c]) - 1) :
                  pending'[c][i + 1][1] = After(pending'[c][i])
      BY <3>3, <3>6 DEF Order
    <3> QED
      BY <3>7, <3>8, <3>9, <3>10 DEF Order
  <2> QED
    BY <2>1, <2>2, <2>3, <2>4, <2>5
<1>4. ASSUME NEW d \in Conns, d # c
      PROVE  ConnInv(d)'
  BY <1>4, Frame DEF TypeOK, Kept
<1> QED
  BY <1>1, <1>2, <1>3, <1>4

LEMMA InvRecvEmpty ==
  ASSUME Inv, NEW c \in Conns, RecvEmpty(c)
  PROVE  Inv'
<1> USE BlockingAssumption DEF Inv, RecvEmpty, Got
<1>1. TypeOK'
  <2>1. <<received[c] + 1, 0>> \in Buffer
    BY DEF TypeOK, Buffer
  <2> QED
    BY <2>1 DEF TypeOK
<1>2. ListenInv'
  BY DEF TypeOK, ListenInv
<1>3. ConnInv(c)'
  <2> USE DEF TypeOK, ConnInv
  <2>1. Life(c)'
    BY DEF Life
  <2>2. Balance(c)'
    BY DEF Balance
  <2>3. Last(c)'
    BY DEF Last, Life, LastBuffer
  <2>4. Failed(c)'
    BY DEF Failed, Life, Gone
  <2>5. Order(c)'
    BY DEF Order, After, Front, Back
  <2> QED
    BY <2>1, <2>2, <2>3, <2>4, <2>5
<1>4. ASSUME NEW d \in Conns, d # c
      PROVE  ConnInv(d)'
  BY <1>4, Frame DEF TypeOK, Kept
<1> QED
  BY <1>1, <1>2, <1>3, <1>4

LEMMA InvLost ==
  ASSUME Inv, NEW c \in Conns, Lost(c)
  PROVE  Inv'
<1> USE BlockingAssumption DEF Inv, Lost
<1>1. TypeOK'
  BY DEF TypeOK
<1>2. ListenInv'
  BY DEF TypeOK, ListenInv
<1>3. ConnInv(c)'
  <2> USE DEF TypeOK, ConnInv
  <2>1. Life(c)'
    BY DEF Life
  <2>2. Balance(c)'
    BY DEF Balance
  <2>3. Last(c)'
    BY DEF Last, Life, LastBuffer
  <2>4. Failed(c)'
    BY DEF Failed, Life, Gone
  <2>5. Order(c)'
    <3>1. Order(c) /\ spc[c] = "exit"
      BY DEF Life
    <3>2. rpc'[c] = "lost" /\ UNCHANGED <<pending, received, spc, sbuf, echoed>>
      OBVIOUS
    <3> HIDE DEF Inv, Lost, TypeOK, ConnInv
    <3> QED
      BY <3>1, <3>2 DEF Order, After
  <2> QED
    BY <2>1, <2>2, <2>3, <2>4, <2>5
<1>4. ASSUME NEW d \in Conns, d # c
      PROVE  ConnInv(d)'
  BY <1>4, Frame DEF TypeOK, Kept
<1> QED
  BY <1>1, <1>2, <1>3, <1>4

LEMMA InvCall ==
  ASSUME Inv, NEW c \in Conns, Call(c)
  PROVE  Inv'
<1> USE BlockingAssumption DEF Inv, Call
<1>1. TypeOK'
  BY DEF TypeOK
<1>2. ListenInv'
  BY DEF TypeOK, ListenInv
<1>3. ConnInv(c)'
  <2> USE DEF TypeOK, ConnInv
  <2>1. Life(c)'
    BY DEF Life
  <2>2. Balance(c)'
    BY DEF Balance
  <2>3. Last(c)'
    BY DEF Last, Life, LastBuffer
  <2>4. Failed(c)'
    BY DEF Failed, Life, Gone
  <2>5. Order(c)'
    BY OrderKept
  <2> QED
    BY <2>1, <2>2, <2>3, <2>4, <2>5
<1>4. ASSUME NEW d \in Conns, d # c
      PROVE  ConnInv(d)'
  BY <1>4, Frame DEF TypeOK, Kept
<1> QED
  BY <1>1, <1>2, <1>3, <1>4

LEMMA InvRecvZero ==
  ASSUME Inv, NEW c \in Conns, RecvZero(c)
  PROVE  Inv'
<1> USE BlockingAssumption DEF Inv, RecvZero, Got
<1>1. TypeOK'
  <2>1. <<received[c] + 1, 0>> \in Buffer
    BY DEF TypeOK, Buffer
  <2> QED
    BY <2>1 DEF TypeOK
<1>2. ListenInv'
  BY DEF TypeOK, ListenInv
<1>3. ConnInv(c)'
  <2> USE DEF TypeOK, ConnInv
  <2>1. Life(c)'
    BY DEF Life
  <2>2. Balance(c)'
    BY DEF Balance
  <2>3. Last(c)'
    BY DEF Last, Life, LastBuffer
  <2>4. Failed(c)'
    <3>1. Failed(c) /\ rbuf'[c][2] = 0
      OBVIOUS
    <3>2. UNCHANGED <<client, received, pending, s, spc, sbuf, rc, echoed>>
      OBVIOUS
    <3> HIDE DEF Inv, RecvZero, Got, TypeOK, ConnInv
    <3> QED
      BY <3>1, <3>2 DEF Failed, Gone
  <2>5. Order(c)'
    BY DEF Order, After, Front, Back
  <2> QED
    BY <2>1, <2>2, <2>3, <2>4, <2>5
<1>4. ASSUME NEW d \in Conns, d # c
      PROVE  ConnInv(d)'
  BY <1>4, Frame DEF TypeOK, Kept
<1> QED
  BY <1>1, <1>2, <1>3, <1>4

LEMMA InvRecvError ==
  ASSUME Inv, NEW c \in Conns, RecvError(c)
  PROVE  Inv'
<1> USE BlockingAssumption DEF Inv, RecvError, Got
<1>1. TypeOK'
  <2>1. <<received[c] + 1, -1>> \in Buffer
    BY DEF TypeOK, Buffer
  <2> QED
    BY <2>1 DEF TypeOK
<1>2. ListenInv'
  BY DEF TypeOK, ListenInv
<1>3. ConnInv(c)'
  <2> USE DEF TypeOK, ConnInv
  <2>1. Life(c)'
    BY DEF Life
  <2>2. Balance(c)'
    BY DEF Balance
  <2>3. Last(c)'
    BY DEF Last, Life, LastBuffer
  <2>4. Failed(c)'
    BY DEF Failed, Life, Gone
  <2>5. Order(c)'
    BY DEF Order, After, Front, Back
  <2> QED
    BY <2>1, <2>2, <2>3, <2>4, <2>5
<1>4. ASSUME NEW d \in Conns, d # c
      PROVE  ConnInv(d)'
  BY <1>4, Frame DEF TypeOK, Kept
<1> QED
  BY <1>1, <1>2, <1>3, <1>4

LEMMA InvEnqueue ==
  ASSUME Inv, NEW c \in Conns, Enqueue(c)
  PROVE  Inv'
<1> USE BlockingAssumption DEF Inv, Enqueue, EnqueueBufferObj
<1>1. TypeOK'
  <2>1. rbuf[c] \in Buffer
    BY DEF TypeOK, ConnInv, Order, After
  <2>2. Append(pending[c], rbuf[c]) \in Seq(Buffer)
    BY <2>1 DEF TypeOK
  <2> QED
    BY <2>2 DEF TypeOK
<1>2. ListenInv'
  BY DEF TypeOK, ListenInv
<1>3. ConnInv(c)'
  <2> USE DEF TypeOK, ConnInv
  <2>1. Life(c)'
    BY DEF Life
  <2>2. Balance(c)'
    <3>1. /\ Len(pending'[c]) = Len(pending[c]) + 1 /\ Len(pending[c]) \in Nat
          /\ rpc[c] = "enqueue" /\ rpc'[c] = "release" /\ hRecvSema[c] \in Nat
          /\ UNCHANGED <<spc, freed, hRecvSema>>
          /\ Balance(c)
      OBVIOUS
    <3> HIDE DEF Inv, Enqueue, TypeOK, ConnInv
    <3> QED
      BY <3>1 DEF Balance
  <2>3. Last(c)'
    BY DEF Last, Life, LastBuffer
  <2>4. Failed(c)'
    BY DEF Failed, Life, Gone
  <2>5. Order(c)'
    <3>1. /\ Order(c) /\ pending[c] \in Seq(Buffer) /\ rpc[c] = "enqueue" /\ rpc'[c] = "release"
          /\ pending'[c] = Append(pending[c], rbuf[c])
          /\ UNCHANGED <<received, echoed, rbuf, spc, sbuf>>
          /\ received[c] \in Int
      OBVIOUS
    <3> HIDE DEF Inv, Enqueue, TypeOK, ConnInv
    <3>2. /\ After(rbuf[c]) = received[c] + 1 /\ rbuf[c][1] = Back(c)
          /\ Back(c)' = received[c] + 1 /\ Front(c)' = Front(c)
      BY <3>1 DEF Order, Front, Back
    <3>3. /\ Len(pending[c]) \in Nat /\ Len(pending'[c]) = Len(pending[c]) + 1
          /\ pending'[c][Len(pending[c]) + 1] = rbuf[c] /\ pending'[c] # <<>>
          /\ \A i \in 1 .. Len(pending[c]) : pending'[c][i] = pending[c][i]
          /\ pending[c] = <<>> <=> Len(pending[c]) = 0
      BY <3>1
    <3>4. \A i \in 1 .. Len(pending'[c]) : After(pending'[c][i]) <= received'[c] + 1
      <4>1. \A i \in 1 .. Len(pending'[c]) : i \in 1 .. Len(pending[c]) \/ i = Len(pending[c]) + 1
        BY <3>3
      <4>2. received[c] + 1 <= received[c] + 1
        BY <3>1
      <4> QED
        BY <3>1, <3>2, <3>3, <4>1, <4>2 DEF Order
    <3>5. spc'[c] \in {"none", "wait", "dequeue", "send"} =>
            /\ pending'[c][1][1] = Front(c)'
            /\ After(pending'[c][Len(pending'[c])]) = Back(c)'
            /\ \A i \in 1 .. (Len(pending'[c]) - 1) :
                 pending'[c][i + 1][1] = After(pending'[c][i])
      <4> SUFFICES ASSUME spc[c] \in {"none", "wait", "dequeue", "send"}
                   PROVE  /\ pending'[c][1][1] = Front(c)
                          /\ \A i \in 1 .. Len(pending[c]) :
                               pending'[c][i + 1][1] = After(pending'[c][i])
        BY <3>1, <3>2, <3>3
      <4>1. CASE pending[c] = <<>>
        BY <3>1, <3>2, <3>3, <4>1 DEF Order
      <4>2. CASE pending[c] # <<>>
        <5>1. pending'[c][1][1] = Front(c)
          BY <3>1, <3>3, <4>2 DEF Order
        <5>2. ASSUME NEW i \in 1 .. Len(pending[c])
              PROVE  pending'[c][i + 1][1] = After(pending'[c][i])
          <6>1. CASE i = Len(pending[c])
            BY <3>1, <3>2, <3>3, <4>2, <6>1 DEF Order
          <6>2. CASE i # Len(pending[c])
            <7>1. i \in 1 .. (Len(pending[c]) - 1) /\ i + 1 \in 1 .. Len(pending[c])
              BY <3>3, <6>2
            <7> QED
              BY <3>1, <3>3, <7>1 DEF Order
          <6> QED
            BY <6>1, <6>2
        <5> QED
          BY <5>1, <5>2
      <4> QED
        BY <4>1, <4>2
    <3> QED
      BY <3>1, <3>2, <3>3, <3>4, <3>5 DEF Order
  <2> QED
    BY <2>1, <2>2, <2>3, <2>4, <2>5
<1>4. ASSUME NEW d \in Conns, d # c
      PROVE  ConnInv(d)'
  BY <1>4, Frame DEF TypeOK, Kept
<1> QED
  BY <1>1, <1>2, <1>3, <1>4

LEMMA InvRelease ==
  ASSUME Inv, NEW c \in Conns, Release(c)
  PROVE  Inv'
<1> USE BlockingAssumption DEF Inv, Release, ReleaseSemaphore
<1>1. TypeOK'
  BY DEF TypeOK
<1>2. ListenInv'
  BY DEF TypeOK, ListenInv
<1>3. ConnInv(c)'
  <2> USE DEF TypeOK, ConnInv
  <2>1. Life(c)'
    BY DEF Life
  <2>2. Balance(c)'
    BY DEF Balance
  <2>3. Last(c)'
    BY DEF Last, Life, LastBuffer
  <2>4. Failed(c)'
    BY DEF Failed, Life, Gone
  <2>5. Order(c)'
    BY OrderKept
  <2> QED
    BY <2>1, <2>2, <2>3, <2>4, <2>5
<1>4. ASSUME NEW d \in Conns, d # c
      PROVE  ConnInv(d)'
  BY <1>4, Frame DEF TypeOK, Kept
<1> QED
  BY <1>1, <1>2, <1>3, <1>4

LEMMA InvWait ==
  ASSUME Inv, NEW c \in Conns, Wait(c)
  PROVE  Inv'
<1> USE BlockingAssumption DEF Inv, Wait, Signalled
<1>1. TypeOK'
  BY DEF TypeOK
<1>2. ListenInv'
  BY DEF TypeOK, ListenInv
<1>3. ConnInv(c)'
  <2> USE DEF TypeOK, ConnInv
  <2>1. Life(c)'
    BY DEF Life
  <2>2. Balance(c)'
    <3>1. /\ Len(pending[c]) \in Nat /\ hRecvSema[c] \in Nat
          /\ hRecvSema'[c] = hRecvSema[c] - 1
          /\ spc[c] = "wait" /\ spc'[c] = "dequeue"
          /\ UNCHANGED <<pending, freed, rpc>>
          /\ Balance(c)
      OBVIOUS
    <3> HIDE DEF Inv, Wait, TypeOK, ConnInv
    <3> QED
      BY <3>1 DEF Balance
  <2>3. Last(c)'
    BY DEF Last, Life, LastBuffer
  <2>4. Failed(c)'
    BY DEF Failed, Life, Gone
  <2>5. Order(c)'
    BY OrderKept
  <2> QED
    BY <2>1, <2>2, <2>3, <2>4, <2>5
<1>4. ASSUME NEW d \in Conns, d # c
      PROVE  ConnInv(d)'
  BY <1>4, Frame DEF TypeOK, Kept
<1> QED
  BY <1>1, <1>2, <1>3, <1>4

LEMMA InvDequeue ==
  ASSUME Inv, NEW c \in Conns, Dequeue(c)
  PROVE  Inv'
<1> DEFINE q == pending[c]
<1>1. /\ TypeOK /\ ListenInv /\ ConnInv(c) /\ spc[c] = "dequeue" /\ q # <<>>
      /\ q \in Seq(Buffer) /\ hRecvSema[c] \in Nat /\ received[c] \in Nat
      /\ gProtocol' = gProtocol
  BY DEF Inv, TypeOK, Dequeue
<1>2. /\ Len(q) \in Nat \ {0} /\ Head(q) = q[1] /\ q[1] \in Buffer
      /\ Tail(q) \in Seq(Buffer) /\ Len(Tail(q)) = Len(q) - 1
      /\ Tail(q) = <<>> <=> Len(q) = 1
      /\ \A i \in 1 .. (Len(q) - 1) : Tail(q)[i] = q[i + 1]
  BY <1>1, TailOf
<1>3. sbuf'[c] = q[1] /\ pending'[c] = Tail(q)
  BY <1>1, <1>2 DEF TypeOK, Dequeue
<1>4. spc'[c] = (IF Tcp /\ Ends(q[1]) THEN "close" ELSE "send")
  BY <1>1, <1>3 DEF TypeOK, Dequeue
<1>5. UNCHANGED <<client, received, hRecvSema, s, freed, rpc, rbuf, rc, echoed>>
  BY DEF Dequeue
<1>6. TypeOK'
  BY <1>1, <1>2 DEF TypeOK, Dequeue
<1>7. ListenInv'
  BY <1>1 DEF TypeOK, ListenInv, Dequeue
<1>8. LastBuffer(q[1]) => Len(q) = 1 /\ rpc[c] = "exit"
  <2>1. freed[c] = 0 /\ rpc[c] # "lost"
    BY <1>1 DEF ConnInv, Life, TypeOK
  <2>2. Len(q) = 1 => rpc[c] # "release"
    BY <1>1, <2>1 DEF ConnInv, Balance
  <2>3. LastBuffer(q[1]) => Len(q) = 1
    <3>1. 1 \in 1 .. Len(q)
      BY <1>2
    <3>2. \A i \in 1 .. Len(q) : LastBuffer(q[i]) => i = Len(q)
      BY <1>1 DEF ConnInv, Last
    <3> QED
      BY <3>1, <3>2
  <2>4. LastBuffer(q[1]) => rpc[c] \in {"exit", "lost", "release"}
    BY <1>1, <1>2 DEF ConnInv, Last
  <2> QED
    BY <2>1, <2>2, <2>3, <2>4
<1>9. ConnInv(c)'
  <2>1. Life(c)'
    BY <1>1, <1>4, <1>5 DEF ConnInv, Life
  <2>2. Balance(c)'
    <3>1. Balance(c) /\ Len(pending'[c]) = Len(q) - 1 /\ spc'[c] # "dequeue"
      BY <1>1, <1>2, <1>3, <1>4 DEF ConnInv
    <3>2. /\ Len(q) \in Int /\ hRecvSema[c] \in Int
          /\ UNCHANGED <<freed, hRecvSema, rpc>>
      BY <1>1, <1>2, <1>5
    <3>3. freed[c] = 0 => Len(q) = hRecvSema[c] + (IF rpc[c] = "release" THEN 1 ELSE 0) + 1
      BY <1>1, <3>1 DEF Balance
    <3> HIDE DEF q
    <3> QED
      BY <3>1, <3>2, <3>3 DEF Balance
  <2>3. Last(c)'
    <3>1. \A i \in 1 .. Len(Tail(q)) : LastBuffer(Tail(q)[i]) =>
            /\ i = Len(Tail(q))
            /\ rpc[c] \in {"exit", "lost"} \/ (rpc[c] = "release" /\ LastBuffer(rbuf[c]))
      <4> SUFFICES ASSUME NEW i \in 1 .. Len(Tail(q)), LastBuffer(Tail(q)[i])
                   PROVE  /\ i = Len(Tail(q))
                          /\ \/ rpc[c] \in {"exit", "lost"}
                             \/ rpc[c] = "release" /\ LastBuffer(rbuf[c])
        OBVIOUS
      <4>1. i \in 1 .. (Len(q) - 1) /\ i + 1 \in 1 .. Len(q) /\ i \in Int /\ Len(q) \in Int
        BY <1>2
      <4>2. LastBuffer(q[i + 1])
        BY <1>2, <4>1
      <4>3. /\ i + 1 = Len(q)
            /\ rpc[c] \in {"exit", "lost"} \/ (rpc[c] = "release" /\ LastBuffer(rbuf[c]))
        BY <1>1, <4>1, <4>2 DEF ConnInv, Last
      <4>4. i = Len(Tail(q))
        <5>1. Len(Tail(q)) = Len(q) - 1
          BY <1>2
        <5> HIDE DEF q
        <5> QED
          BY <4>1, <4>3, <5>1
      <4> QED
        BY <4>3, <4>4
    <3>2. Ends(q[1]) /\ Tcp => LastBuffer(q[1])
      BY <1>2, BufferType DEF Ends, LastBuffer
    <3>3. UNCHANGED <<gProtocol, rc, rpc, rbuf>>
      BY <1>1, <1>5
    <3>4. \A i \in 1 .. Len(Tail(q)) : LastBuffer(pending[c][i])' =>
            /\ i = Len(Tail(q))
            /\ rpc'[c] \in {"exit", "lost"} \/ (rpc'[c] = "release" /\ LastBuffer(rbuf[c])')
      BY <1>3, <3>1, <3>3 DEF LastBuffer
    <3>5. spc'[c] = "send" /\ LastBuffer(sbuf[c])' => rpc'[c] = "exit" /\ pending'[c] = <<>>
      BY <1>2, <1>3, <1>8, <3>3 DEF LastBuffer
    <3>6. spc'[c] \in {"close", "free", "exit"} => rpc'[c] = "exit"
      BY <1>4, <1>8, <3>2, <3>3
    <3> QED
      BY <1>3, <3>4, <3>5, <3>6 DEF Last
  <2>4. Failed(c)'
    <3>1. \A i \in 1 .. Len(Tail(q)) :
            buflen(Tail(q)[i]) < 0 => Gone(c) \/ s[c] = "closed"
      BY <1>1, <1>2 DEF ConnInv, Failed
    <3>2. buflen(q[1]) < 0 => Gone(c)
      BY <1>1, <1>2 DEF ConnInv, Failed, Life
    <3>3. Tcp /\ buflen(q[1]) = 0 => Len(echoed[c]) = received[c]
      <4>1. Tcp /\ buflen(q[1]) = 0 => Len(q) = 1 /\ rpc[c] = "exit"
        BY <1>8 DEF LastBuffer
      <4>2. Len(echoed[c]) \in Nat
        BY <1>1 DEF TypeOK
      <4> QED
        BY <1>1, <4>1, <4>2 DEF ConnInv, Order, Front, Back, After
    <3> QED
      <4>1. Failed(c) /\ spc[c] = "dequeue" /\ UNCHANGED <<client, received, s, rpc, rbuf, rc, echoed>>
        BY <1>1, <1>5 DEF ConnInv
      <4>2. \A i \in 1 .. Len(pending'[c]) :
              buflen(pending'[c][i]) < 0 => Gone(c)' \/ s'[c] = "closed"
        BY <1>3, <3>1, <4>1 DEF Gone
      <4>3. spc'[c] = "send" /\ buflen(sbuf'[c]) < 0 => Gone(c)'
        BY <1>3, <3>2, <4>1 DEF Gone
      <4>4. spc'[c] = "close" => Gone(c)' \/ Len(echoed'[c]) = received'[c]
        <5> SUFFICES ASSUME spc'[c] = "close"
                     PROVE  Gone(c) \/ Len(echoed[c]) = received[c]
          BY <4>1 DEF Gone
        <5>1. Tcp /\ buflen(q[1]) <= 0 /\ buflen(q[1]) \in Int
          BY <1>2, <1>4, BufferType DEF Ends
        <5> QED
          BY <3>2, <3>3, <5>1
      <4>5. rpc'[c] = "enqueue" /\ buflen(rbuf'[c]) < 0 => Gone(c)' \/ s'[c] = "closed"
        BY <4>1 DEF Failed, Gone
      <4>6. rc'[c] = -1 => Gone(c)'
        BY <4>1 DEF Failed, Gone
      <4> QED
        BY <4>2, <4>3, <4>4, <4>5, <4>6 DEF Failed
  <2>5. Order(c)'
    <3>1. After(q[1]) <= received[c] + 1 /\ q[1][1] = Len(echoed[c]) + 1
      <4>1. Order(c) /\ q # <<>> /\ 1 \in 1 .. Len(q)
        BY <1>1, <1>2 DEF ConnInv
      <4>2. Front(c) = Len(echoed[c]) + 1
        BY <1>1 DEF Front
      <4>3. After(q[1]) <= received[c] + 1
        BY <4>1 DEF Order
      <4>4. q[1][1] = Front(c)
        BY <1>1, <4>1 DEF Order
      <4> QED
        BY <4>2, <4>3, <4>4
    <3>2. Back(c)' = Back(c)
      BY <1>5 DEF Back
    <3>3. spc'[c] = "send" => Front(c)' = After(q[1])
      BY <1>3 DEF Front, After
    <3>4. Len(q) = 1 => After(q[1]) = Back(c)
      BY <1>1, <1>2 DEF ConnInv, Order
    <3>5. Len(q) > 1 => /\ Tail(q)[1][1] = After(q[1])
                        /\ After(Tail(q)[Len(Tail(q))]) = Back(c)
      BY <1>1, <1>2 DEF ConnInv, Order
    <3>6. \A i \in 1 .. (Len(Tail(q)) - 1) : Tail(q)[i + 1][1] = After(Tail(q)[i])
      <4> SUFFICES ASSUME NEW i \in 1 .. (Len(Tail(q)) - 1)
                   PROVE  Tail(q)[i + 1][1] = After(Tail(q)[i])
        OBVIOUS
      <4>1. i + 1 \in 1 .. (Len(q) - 1) /\ i \in 1 .. (Len(q) - 1)
        BY <1>2
      <4>2. Tail(q)[i + 1] = q[i + 1 + 1] /\ Tail(q)[i] = q[i + 1]
        BY <1>2, <4>1
      <4>3. \A k \in 1 .. (Len(q) - 1) : q[k + 1][1] = After(q[k])
        BY <1>1 DEF ConnInv, Order
      <4> QED
        BY <4>1, <4>2, <4>3
    <3>7. \A i \in 1 .. Len(Tail(q)) : After(Tail(q)[i]) <= received[c] + 1
      BY <1>1, <1>2 DEF ConnInv, Order
    <3>8. Tail(q) = <<>> <=> Len(q) = 1
      BY <1>2
    <3>9. Order(c)
      BY <1>1 DEF ConnInv
    <3>10. /\ \A i \in 1 .. Len(echoed'[c]) : echoed'[c][i] = i
           /\ rpc'[c] = "enqueue" => After(rbuf'[c]) = received'[c] + 1
      BY <1>5, <3>9 DEF Order
    <3>11. \A i \in 1 .. Len(pending'[c]) : After(pending'[c][i]) <= received'[c] + 1
      BY <1>3, <1>5, <3>7
    <3>12. /\ sbuf'[c][1] = Len(echoed'[c]) + 1
           /\ After(sbuf'[c]) <= received'[c] + 1
      BY <1>3, <1>5, <3>1
    <3>13. spc'[c] = "send" =>
             /\ pending'[c] = <<>> => Front(c)' = Back(c)'
             /\ pending'[c] # <<>> => /\ pending'[c][1][1] = Front(c)'
                                      /\ After(pending'[c][Len(pending'[c])]) = Back(c)'
             /\ \A i \in 1 .. (Len(pending'[c]) - 1) :
                  pending'[c][i + 1][1] = After(pending'[c][i])
      <4>1. Tail(q) # <<>> => Len(q) > 1
        BY <1>2, <3>8
      <4> QED
        BY <1>3, <3>2, <3>3, <3>4, <3>5, <3>6, <3>8, <4>1
    <3>14. spc'[c] \in {"close", "send"}
      BY <1>4
    <3> QED
      BY <3>10, <3>11, <3>12, <3>13, <3>14 DEF Order
  <2> QED
    BY <2>1, <2>2, <2>3, <2>4, <2>5 DEF ConnInv
<1>10. ASSUME NEW d \in Conns, d # c
       PROVE  ConnInv(d)'
  BY <1>10, Frame DEF Inv, TypeOK, Kept, Dequeue
<1> QED
  BY <1>6, <1>7, <1>9, <1>10 DEF Inv

\* What is sent from the buffer in hand goes where it belongs.
LEMMA EchoStep ==
  ASSUME TypeOK, NEW c \in Conns, Order(c), spc[c] = "send",
         NEW n \in 0 .. buflen(sbuf[c]), Echoes(c, n)
  PROVE  /\ echoed' \in [Conns -> Seq(1 .. MaxBytes)]
         /\ echoed' = [echoed EXCEPT ![c] = @ \o [i \in 1 .. n |-> Len(@) + i]]
         /\ Len(echoed'[c]) = Len(echoed[c]) + n
         /\ \A i \in 1 .. Len(echoed'[c]) : echoed'[c][i] = i
         /\ sbuf[c][1] + n <= After(sbuf[c])
         /\ sbuf[c][1] = Len(echoed[c]) + 1
<1> DEFINE e == echoed[c]
           b == sbuf[c]
           t == Bytes(b[1], n)
<1>1. /\ e \in Seq(1 .. MaxBytes) /\ Len(e) \in Nat /\ n \in Nat
      /\ b[1] = Len(e) + 1 /\ b[2] \in Int /\ After(b) \in Int /\ b[1] + n <= After(b)
      /\ After(b) <= MaxBytes + 1
      /\ \A i \in 1 .. Len(e) : e[i] = i
  <2>1. e \in Seq(1 .. MaxBytes) /\ b \in Buffer \cup {<<0, 0>>} /\ received[c] \in 0 .. MaxBytes
    BY DEF TypeOK
  <2>2. b[1] \in Nat /\ b[2] \in Int /\ After(b) \in Int /\ Len(e) \in Nat
    BY <2>1, BufferType
  <2>3. /\ b[1] = Len(e) + 1 /\ After(b) <= received[c] + 1
        /\ \A i \in 1 .. Len(e) : e[i] = i
    BY DEF Order
  <2>4. n \in Nat /\ n <= b[2]
    BY <2>2
  <2>5. b[1] + n <= After(b)
    BY <2>2, <2>4 DEF After
  <2>6. After(b) <= MaxBytes + 1
    BY <2>1, <2>2, <2>3, BlockingAssumption
  <2> QED
    BY <2>1, <2>2, <2>3, <2>4, <2>5, <2>6
<1>2. t \in Seq(1 .. MaxBytes) /\ Len(t) = n /\ \A i \in 1 .. n : t[i] = Len(e) + i
  <2>1. b[1] \in Nat \ {0} /\ b[1] + n <= MaxBytes + 1 /\ b[1] = Len(e) + 1
    BY <1>1, BlockingAssumption
  <2>2. /\ Len(t) = n /\ t \in Seq(1 .. MaxBytes)
        /\ \A i \in 1 .. n : t[i] = b[1] + i - 1
    BY <1>1, <2>1, BytesProperties
  <2>3. ASSUME NEW i \in 1 .. n
        PROVE  t[i] = Len(e) + i
    <3>1. t[i] = b[1] + i - 1 /\ i \in Int /\ Len(e) \in Int
      BY <1>1, <2>2
    <3> HIDE DEF t, b, e
    <3> QED
      BY <2>1, <3>1
  <2> QED
    BY <2>2, <2>3
<1>3. echoed' = [echoed EXCEPT ![c] = e \o t]
  BY DEF Echoes
<1>4. /\ e \o t \in Seq(1 .. MaxBytes) /\ Len(e \o t) = Len(e) + n
  <2> HIDE DEF t, b, e
  <2> QED
    BY <1>1, <1>2, ConcatProperties
<1>5. \A i \in 1 .. Len(e) + n : (e \o t)[i] = i
  <2> HIDE DEF t, b, e
  <2> QED
    BY <1>1, <1>2, <1>4
<1>6. t = [i \in 1 .. n |-> Len(e) + i]
  BY <1>1 DEF Bytes
<1> QED
  BY <1>1, <1>3, <1>4, <1>5, <1>6 DEF TypeOK

LEMMA InvSend ==
  ASSUME Inv, NEW c \in Conns, Send(c)
  PROVE  Inv'
<1>1. /\ TypeOK /\ ListenInv /\ ConnInv(c) /\ spc[c] = "send"
      /\ received[c] \in Nat /\ Len(echoed[c]) \in Nat
      /\ sbuf[c] \in Buffer \cup {<<0, 0>>}
  BY DEF Inv, TypeOK, Send
<1>2. PICK n \in 1 .. buflen(sbuf[c]) :
        /\ Echoes(c, n)
        /\ sbuf' = [sbuf EXCEPT ![c] = Rest(@, n)]
        /\ SGoto(c, IF n < buflen(sbuf[c]) THEN "send" ELSE "wait")
  BY DEF Send, AfterSend
<1>3. /\ echoed' \in [Conns -> Seq(1 .. MaxBytes)]
      /\ Len(echoed'[c]) = Len(echoed[c]) + n
      /\ \A i \in 1 .. Len(echoed'[c]) : echoed'[c][i] = i
      /\ sbuf[c][1] + n <= After(sbuf[c])
      /\ sbuf[c][1] = Len(echoed[c]) + 1
      /\ \A d \in Conns : d # c => echoed'[d] = echoed[d]
  <2>1. Order(c) /\ n \in 0 .. buflen(sbuf[c]) /\ Echoes(c, n)
    BY <1>1, <1>2, BufferType DEF ConnInv
  <2>2. \A d \in Conns : d # c => echoed'[d] = echoed[d]
    BY <2>1 DEF Echoes, TypeOK
  <2> QED
    BY <1>1, <2>1, <2>2, EchoStep
<1>4. /\ sbuf[c][1] \in Nat \ {0} /\ sbuf[c][2] \in Int /\ After(sbuf[c]) \in Int
      /\ After(sbuf[c]) <= received[c] + 1
  BY <1>1, <1>3, BufferType DEF ConnInv, Order
<1>5. UNCHANGED <<gProtocol, client, received, pending, hRecvSema, s, freed, rpc, rbuf, rc>>
  BY DEF Send
<1>6. sbuf'[c] = <<sbuf[c][1] + n, sbuf[c][2] - n>> /\ sbuf'[c] \in Buffer
      /\ sbuf' \in [Conns -> Buffer \cup {<<0, 0>>}]
  <2>1. sbuf'[c] = <<sbuf[c][1] + n, sbuf[c][2] - n>>
    BY <1>1, <1>2 DEF TypeOK, Rest
  <2>2. <<sbuf[c][1] + n, sbuf[c][2] - n>> \in Buffer
    <3>1. sbuf[c][1] + n \in 1 .. (MaxBytes + 1)
      <4>1. received[c] + 1 <= MaxBytes + 1 /\ n \in Nat \ {0}
        BY <1>1, <1>2, BlockingAssumption DEF TypeOK
      <4>2. sbuf[c][1] + n <= MaxBytes + 1
        BY <1>1, <1>3, <1>4, <4>1, BlockingAssumption, SMTT(20)
      <4> QED
        BY <1>4, <4>1, <4>2, BlockingAssumption
    <3>2. sbuf[c][2] - n \in 0 .. gBufferSize
      BY <1>1, <1>2, <1>4, BlockingAssumption DEF TypeOK, Buffer
    <3> QED
      BY <3>1, <3>2 DEF Buffer
  <2> QED
    BY <1>1, <1>2, <2>1, <2>2 DEF TypeOK, Rest
<1>7. spc'[c] = (IF n < sbuf[c][2] THEN "send" ELSE "wait")
  BY <1>1, <1>2 DEF TypeOK, Send
<1>8. TypeOK'
  BY <1>1, <1>2, <1>3, <1>6 DEF TypeOK, Send
<1>9. ListenInv'
  BY <1>1, <1>2 DEF TypeOK, ListenInv, Send
<1>10. ConnInv(c)'
  <2>1. Life(c)'
    BY <1>1, <1>5, <1>7 DEF ConnInv, Life
  <2>2. Balance(c)'
    BY <1>1, <1>5, <1>7 DEF ConnInv, Balance
  <2>3. Last(c)'
    BY <1>1, <1>2, <1>4, <1>5, <1>6, <1>7 DEF ConnInv, Last, LastBuffer
  <2>4. Failed(c)'
    BY <1>1, <1>2, <1>3, <1>4, <1>5, <1>6, <1>7 DEF ConnInv, Failed, Gone, Order
  <2>5. Order(c)'
    <3>1. Order(c) /\ Back(c)' = Back(c) /\ n \in Nat \ {0} /\ n <= sbuf[c][2]
      BY <1>1, <1>2, <1>4, <1>5 DEF ConnInv, Back
    <3>2. After(sbuf[c]) = sbuf[c][1] + sbuf[c][2]
      BY <1>4, <3>1 DEF After
    <3>3. spc'[c] = "send" => After(sbuf'[c]) = After(sbuf[c])
      BY <1>4, <1>6, <1>7, <3>1, <3>2 DEF After
    <3>4. Front(c)' = Front(c)
      BY <1>1, <1>3, <1>4, <1>7, <3>1, <3>2, <3>3 DEF Front
    <3>5. sbuf'[c][1] = Len(echoed'[c]) + 1
      BY <1>1, <1>3, <1>6, <3>1
    <3>6. rpc'[c] = "enqueue" => After(rbuf'[c]) = received'[c] + 1
      BY <1>5, <3>1 DEF Order, After
    <3>7. /\ spc[c] = "send" /\ spc'[c] \in {"send", "wait"}
          /\ UNCHANGED <<pending, received>>
      BY <1>1, <1>5, <1>7
    <3>8. \A i \in 1 .. Len(echoed'[c]) : echoed'[c][i] = i
      BY <1>3
    <3>9. spc'[c] = "send" => After(sbuf'[c]) <= received[c] + 1
      BY <1>4, <3>3
    <3> QED
      BY <3>1, <3>4, <3>5, <3>6, <3>7, <3>8, <3>9 DEF Order
  <2> QED
    BY <2>1, <2>2, <2>3, <2>4, <2>5 DEF ConnInv
<1>11. ASSUME NEW d \in Conns, d # c
       PROVE  ConnInv(d)'
  BY <1>2, <1>3, <1>11, Frame DEF Inv, TypeOK, Kept, Send
<1> QED
  BY <1>8, <1>9, <1>10, <1>11 DEF Inv

LEMMA InvSendTo ==
  ASSUME Inv, NEW c \in Conns, SendTo(c)
  PROVE  Inv'
<1>1. /\ TypeOK /\ ListenInv /\ ConnInv(c) /\ spc[c] = "send"
      /\ received[c] \in Nat /\ Len(echoed[c]) \in Nat
      /\ sbuf[c] \in Buffer \cup {<<0, 0>>}
  BY DEF Inv, TypeOK, SendTo
<1> DEFINE n == sbuf[c][2]
<1>2. Echoes(c, n) /\ n \in 0 .. buflen(sbuf[c])
  BY <1>1, BufferType DEF SendTo
<1>3. /\ echoed' \in [Conns -> Seq(1 .. MaxBytes)]
      /\ Len(echoed'[c]) = Len(echoed[c]) + n
      /\ \A i \in 1 .. Len(echoed'[c]) : echoed'[c][i] = i
      /\ sbuf[c][1] + n <= After(sbuf[c])
      /\ sbuf[c][1] = Len(echoed[c]) + 1
      /\ \A d \in Conns : d # c => echoed'[d] = echoed[d]
  <2>1. Order(c) /\ n \in 0 .. buflen(sbuf[c]) /\ Echoes(c, n)
    BY <1>1, <1>2, BufferType DEF ConnInv
  <2>2. \A d \in Conns : d # c => echoed'[d] = echoed[d]
    BY <2>1 DEF Echoes, TypeOK
  <2> QED
    BY <1>1, <2>1, <2>2, EchoStep
<1>4. /\ sbuf[c][1] \in Nat \ {0} /\ sbuf[c][2] \in Int /\ After(sbuf[c]) \in Int
      /\ After(sbuf[c]) <= received[c] + 1
  BY <1>1, <1>3, BufferType DEF ConnInv, Order
<1>5. UNCHANGED <<gProtocol, client, received, pending, hRecvSema, s, freed, rpc, rbuf, rc>>
  BY DEF SendTo
<1>6. UNCHANGED sbuf
  BY DEF SendTo
<1>7. spc'[c] = (IF n = 0 THEN "close" ELSE "wait")
  BY <1>1, <1>2 DEF TypeOK, SendTo
<1>8. TypeOK'
  BY <1>1, <1>2, <1>3, <1>6 DEF TypeOK, SendTo
<1>9. ListenInv'
  BY <1>1, <1>2 DEF TypeOK, ListenInv, SendTo
<1>10. ConnInv(c)'
  <2>1. Life(c)'
    BY <1>1, <1>5, <1>7 DEF ConnInv, Life
  <2>2. Balance(c)'
    BY <1>1, <1>5, <1>7 DEF ConnInv, Balance
  <2>3. Last(c)'
    BY <1>1, <1>2, <1>4, <1>5, <1>6, <1>7 DEF ConnInv, Last, LastBuffer
  <2>4. Failed(c)'
    <3>1. Failed(c) /\ Last(c) /\ Order(c) /\ Life(c)
      BY <1>1 DEF ConnInv
    <3>2. spc'[c] = "close" => Len(echoed'[c]) = received'[c]
      <4> SUFFICES ASSUME spc'[c] = "close"
                   PROVE  Len(echoed'[c]) = received'[c]
        OBVIOUS
      <4>1. n = 0 /\ LastBuffer(sbuf[c])
        BY <1>7 DEF LastBuffer
      <4>2. rpc[c] = "exit" /\ pending[c] = <<>>
        BY <1>1, <3>1, <4>1 DEF Last
      <4>3. After(sbuf[c]) = received[c] + 1
        BY <1>1, <3>1, <4>2 DEF Order, Front, Back
      <4>4. After(sbuf[c]) = sbuf[c][1]
        BY <1>4, <4>1 DEF After
      <4> QED
        BY <1>1, <1>3, <1>5, <4>1, <4>3, <4>4
    <3> QED
      BY <1>5, <1>7, <3>1, <3>2 DEF Failed, Gone
  <2>5. Order(c)'
    <3>1. Order(c) /\ Back(c)' = Back(c) /\ n \in Nat /\ n <= buflen(sbuf[c])
      BY <1>1, <1>2, <1>4, <1>5 DEF ConnInv, Back
    <3>2. After(sbuf[c]) = sbuf[c][1] + n
      BY <1>2, <1>4, <3>1 DEF After
    <3>3. Front(c)' = Front(c)
      BY <1>1, <1>3, <1>4, <1>7, <3>1, <3>2 DEF Front
    <3>4. rpc'[c] = "enqueue" => After(rbuf'[c]) = received'[c] + 1
      BY <1>5, <3>1 DEF Order
    <3>5. /\ spc[c] = "send" /\ spc'[c] \in {"close", "wait"}
          /\ UNCHANGED <<pending, received>>
      BY <1>1, <1>5, <1>7
    <3>6. \A i \in 1 .. Len(echoed'[c]) : echoed'[c][i] = i
      BY <1>3
    <3>7. \A i \in 1 .. Len(pending'[c]) : After(pending'[c][i]) <= received'[c] + 1
      BY <3>1, <3>5 DEF Order
    <3>8. spc'[c] = "wait" =>
            /\ pending'[c] = <<>> => Front(c)' = Back(c)'
            /\ pending'[c] # <<>> => /\ pending'[c][1][1] = Front(c)'
                                     /\ After(pending'[c][Len(pending'[c])]) = Back(c)'
            /\ \A i \in 1 .. (Len(pending'[c]) - 1) :
                 pending'[c][i + 1][1] = After(pending'[c][i])
      BY <3>1, <3>3, <3>5 DEF Order
    <3> HIDE DEF n
    <3> QED
      BY <3>4, <3>5, <3>6, <3>7, <3>8 DEF Order
  <2> QED
    BY <2>1, <2>2, <2>3, <2>4, <2>5 DEF ConnInv
<1>11. ASSUME NEW d \in Conns, d # c
       PROVE  ConnInv(d)'
  BY <1>2, <1>3, <1>11, Frame DEF Inv, TypeOK, Kept, SendTo
<1> QED
  BY <1>8, <1>9, <1>10, <1>11 DEF Inv

LEMMA InvSendFails ==
  ASSUME Inv, NEW c \in Conns, SendFails(c)
  PROVE  Inv'
<1> USE BlockingAssumption DEF Inv, SendFails
<1>1. TypeOK'
  BY DEF TypeOK
<1>2. ListenInv'
  BY DEF TypeOK, ListenInv
<1>3. ConnInv(c)'
  <2> USE DEF TypeOK, ConnInv
  <2>1. Life(c)'
    BY DEF Life
  <2>2. Balance(c)'
    BY DEF Balance
  <2>3. Last(c)'
    BY DEF Last, Life, LastBuffer
  <2>4. Failed(c)'
    BY DEF Failed, Life, Gone
  <2>5. Order(c)'
    BY DEF Order, After, Front, Back
  <2> QED
    BY <2>1, <2>2, <2>3, <2>4, <2>5
<1>4. ASSUME NEW d \in Conns, d # c
      PROVE  ConnInv(d)'
  BY <1>4, Frame DEF TypeOK, Kept
<1> QED
  BY <1>1, <1>2, <1>3, <1>4

LEMMA InvCloseSocket ==
  ASSUME Inv, NEW c \in Conns, CloseSocket(c)
  PROVE  Inv'
<1> USE BlockingAssumption DEF Inv, CloseSocket
<1>1. TypeOK'
  BY DEF TypeOK
<1>2. ListenInv'
  BY DEF TypeOK, ListenInv
<1>3. ConnInv(c)'
  <2> USE DEF TypeOK, ConnInv
  <2>1. Life(c)'
    BY DEF Life
  <2>2. Balance(c)'
    BY DEF Balance
  <2>3. Last(c)'
    BY DEF Last, Life, LastBuffer
  <2>4. Failed(c)'
    BY DEF Failed, Life, Gone
  <2>5. Order(c)'
    BY OrderKept
  <2> QED
    BY <2>1, <2>2, <2>3, <2>4, <2>5
<1>4. ASSUME NEW d \in Conns, d # c
      PROVE  ConnInv(d)'
  BY <1>4, Frame DEF TypeOK, Kept
<1> QED
  BY <1>1, <1>2, <1>3, <1>4

LEMMA InvFreeConnectionObj ==
  ASSUME Inv, NEW c \in Conns, FreeConnectionObj(c)
  PROVE  Inv'
<1> USE BlockingAssumption DEF Inv, FreeConnectionObj
<1>1. TypeOK'
  BY DEF TypeOK
<1>2. ListenInv'
  BY DEF TypeOK, ListenInv
<1>3. ConnInv(c)'
  <2> USE DEF TypeOK, ConnInv
  <2>1. Life(c)'
    BY DEF Life
  <2>2. Balance(c)'
    BY DEF Balance
  <2>3. Last(c)'
    BY DEF Last, Life, LastBuffer
  <2>4. Failed(c)'
    BY DEF Failed, Life, Gone
  <2>5. Order(c)'
    BY OrderKept
  <2> QED
    BY <2>1, <2>2, <2>3, <2>4, <2>5
<1>4. ASSUME NEW d \in Conns, d # c
      PROVE  ConnInv(d)'
  BY <1>4, Frame DEF TypeOK, Kept
<1> QED
  BY <1>1, <1>2, <1>3, <1>4

LEMMA InvServeUdp ==
  ASSUME Inv, NEW l \in Listeners, NEW c \in Conns, ServeUdp(l, c)
  PROVE  Inv'
<1> USE BlockingAssumption DEF Inv, ServeUdp
<1>1. TypeOK'
  BY DEF TypeOK, ListenInv
<1>2. ListenInv'
  BY DEF TypeOK, ListenInv
<1>3. ASSUME NEW d \in Conns
      PROVE  ConnInv(d)'
  <2>1. CASE d # c
    BY <2>1, Frame DEF TypeOK, Kept
  <2>2. CASE d = c
    <3> USE <2>2 DEF TypeOK, ConnInv, ListenInv
    <3>1. /\ rpc[d] = "none" /\ spc[d] = "none" /\ client[d] = "none" /\ s[d] = "none"
          /\ rpc'[d] = "call" /\ spc'[d] = "wait" /\ client'[d] = "open" /\ s'[d] = "open"
          /\ UNCHANGED <<gProtocol, received, pending, hRecvSema, freed, rbuf, sbuf, rc, echoed>>
          /\ Life(d) /\ Balance(d) /\ Last(d) /\ Failed(d) /\ Order(d)
      OBVIOUS
    <3> HIDE DEF Inv, ServeUdp, TypeOK, ConnInv, ListenInv
    <3>2. Life(d)'
      BY <3>1 DEF Life
    <3>3. Balance(d)'
      BY <3>1 DEF Balance
    <3>4. Last(d)'
      BY <3>1 DEF Last, LastBuffer
    <3>5. Failed(d)'
      BY <3>1 DEF Failed, Gone
    <3>6. Order(d)'
      BY <3>1 DEF Order, After, Front, Back
    <3> QED
      BY <3>2, <3>3, <3>4, <3>5, <3>6 DEF ConnInv
  <2> QED
    BY <2>1, <2>2
<1> QED
  BY <1>1, <1>2, <1>3

LEMMA InvListen ==
  ASSUME Inv, NEW l \in Listeners, Listen(l)
  PROVE  Inv'
<1> USE BlockingAssumption DEF Inv, Listen
<1>1. TypeOK'
  BY DEF TypeOK, ListenInv
<1>2. ListenInv'
  BY DEF TypeOK, ListenInv
<1>3. ASSUME NEW d \in Conns
      PROVE  ConnInv(d)'
  BY <1>3, Frame DEF Kept
<1> QED
  BY <1>1, <1>2, <1>3

LEMMA InvAccept ==
  ASSUME Inv, NEW l \in Listeners, NEW c \in Conns, Accept(l, c)
  PROVE  Inv'
<1> USE BlockingAssumption DEF Inv, Accept
<1>1. TypeOK'
  BY DEF TypeOK, ListenInv
<1>2. ListenInv'
  BY DEF TypeOK, ListenInv
<1>3. ASSUME NEW d \in Conns
      PROVE  ConnInv(d)'
  <2>1. CASE d # c
    BY <2>1, Frame DEF TypeOK, Kept
  <2>2. CASE d = c
    <3> USE <2>2 DEF TypeOK, ConnInv, ListenInv
    <3>1. Life(d)'
      BY DEF Life
    <3>2. Balance(d)'
      BY DEF Balance, Life
    <3>3. Last(d)'
      BY DEF Last, Life, LastBuffer
    <3>4. Failed(d)'
      <4>1. client[d] = "none" /\ client'[d] = "open" /\ s[d] = "none" /\ Failed(d)
        OBVIOUS
      <4>2. UNCHANGED <<rpc, rbuf, pending, spc, sbuf, rc, echoed, received>>
        OBVIOUS
      <4> HIDE DEF Inv, Accept, TypeOK, ListenInv
      <4> QED
        BY <4>1, <4>2 DEF Failed, Gone
    <3>5. Order(d)'
      BY DEF Order, After, Front, Back
    <3> QED
      BY <3>1, <3>2, <3>3, <3>4, <3>5
  <2> QED
    BY <2>1, <2>2
<1> QED
  BY <1>1, <1>2, <1>3

LEMMA InvCreateReceiver ==
  ASSUME Inv, NEW l \in Listeners, CreateReceiver(l)
  PROVE  Inv'
<1> USE BlockingAssumption DEF Inv, CreateReceiver
<1>1. TypeOK'
  BY DEF TypeOK, ListenInv
<1>2. ListenInv'
  BY DEF TypeOK, ListenInv
<1>3. ASSUME NEW d \in Conns
      PROVE  ConnInv(d)'
  <2>1. CASE d # lconn[l]
    BY <2>1, Frame DEF TypeOK, Kept
  <2>2. CASE d = lconn[l]
    <3> USE <2>2 DEF TypeOK, ConnInv, ListenInv
    <3>1. Life(d)'
      BY DEF Life
    <3>2. Balance(d)'
      BY DEF Balance, Life
    <3>3. Last(d)'
      BY DEF Last, Life, LastBuffer
    <3>4. Failed(d)'
      BY DEF Failed, Life, Gone
    <3>5. Order(d)'
      BY OrderKept
    <3> QED
      BY <3>1, <3>2, <3>3, <3>4, <3>5
  <2> QED
    BY <2>1, <2>2
<1> QED
  BY <1>1, <1>2, <1>3

LEMMA InvCreateSender ==
  ASSUME Inv, NEW l \in Listeners, CreateSender(l)
  PROVE  Inv'
<1> USE BlockingAssumption DEF Inv, CreateSender
<1>1. TypeOK'
  BY DEF TypeOK, ListenInv
<1>2. ListenInv'
  BY DEF TypeOK, ListenInv
<1>3. ASSUME NEW d \in Conns
      PROVE  ConnInv(d)'
  <2>1. CASE d # lconn[l]
    BY <2>1, Frame DEF TypeOK, Kept
  <2>2. CASE d = lconn[l]
    <3> USE <2>2 DEF TypeOK, ConnInv, ListenInv
    <3>1. Life(d)'
      BY DEF Life
    <3>2. Balance(d)'
      BY DEF Balance, Life
    <3>3. Last(d)'
      BY DEF Last, Life, LastBuffer
    <3>4. Failed(d)'
      BY DEF Failed, Life, Gone
    <3>5. Order(d)'
      BY OrderKept
    <3> QED
      BY <3>1, <3>2, <3>3, <3>4, <3>5
  <2> QED
    BY <2>1, <2>2
<1> QED
  BY <1>1, <1>2, <1>3

LEMMA InvListenFails ==
  ASSUME Inv, NEW l \in Listeners, ListenFails(l)
  PROVE  Inv'
<1> USE BlockingAssumption DEF Inv, ListenFails
<1>1. TypeOK'
  BY DEF TypeOK, ListenInv
<1>2. ListenInv'
  BY DEF TypeOK, ListenInv
<1>3. ASSUME NEW d \in Conns
      PROVE  ConnInv(d)'
  BY <1>3, Frame DEF Kept
<1> QED
  BY <1>1, <1>2, <1>3

LEMMA InvMainReturns ==
  ASSUME Inv, MainReturns
  PROVE  Inv'
<1> USE BlockingAssumption DEF Inv, MainReturns
<1>1. TypeOK'
  BY DEF TypeOK, ListenInv
<1>2. ListenInv'
  BY DEF TypeOK, ListenInv
<1>3. ASSUME NEW d \in Conns
      PROVE  ConnInv(d)'
  BY <1>3, Frame DEF Kept
<1> QED
  BY <1>1, <1>2, <1>3

LEMMA InvStep == Inv /\ [Next]_vars => Inv'
<1> SUFFICES ASSUME Inv, [Next]_vars
             PROVE  Inv'
  OBVIOUS
<1>1. ASSUME NEW c \in Conns, Client(c)
      PROVE  Inv'
  BY <1>1, InvShutdown, InvReset, InvRecvData, InvRecvEmpty DEF Client
<1>2. ASSUME NEW c \in Conns, ReceiveThread(c)
      PROVE  Inv'
  BY <1>2, InvLost, InvCall, InvRecvZero, InvRecvError, InvEnqueue, InvRelease
  DEF ReceiveThread
<1>3. ASSUME NEW c \in Conns, SendThread(c)
      PROVE  Inv'
  BY <1>3, InvWait, InvDequeue, InvSend, InvSendTo, InvSendFails, InvCloseSocket,
     InvFreeConnectionObj DEF SendThread
<1>4. ASSUME NEW l \in Listeners, ServerListenThread(l)
      PROVE  Inv'
  BY <1>4, InvListen, InvCreateReceiver, InvCreateSender, InvListenFails, InvAccept,
     InvServeUdp DEF ServerListenThread
<1>5. CASE UNCHANGED vars
  <2>1. TypeOK'
    BY <1>5 DEF Inv, TypeOK, vars
  <2>2. ListenInv'
    BY <1>5 DEF Inv, ListenInv, vars
  <2>3. ASSUME NEW c \in Conns
        PROVE  ConnInv(c)'
    BY <1>5, <2>3, Frame DEF Inv, Kept, vars
  <2> QED
    BY <2>1, <2>2, <2>3 DEF Inv
<1> QED
  BY <1>1, <1>2, <1>3, <1>4, <1>5, InvMainReturns DEF Next

\* The inductive invariant.
THEOREM Invariance == Spec => []Inv
  BY InvInit, InvStep, PTL DEF Spec
-----------------------------------------------------------------------------
\* Every variable has its type.
THEOREM TypeCorrect == Spec => []TypeOK
<1>1. Inv => TypeOK
  BY DEF Inv
<1> QED
  BY <1>1, Invariance, PTL

(* hRecvSema counts the buffers queued for the sender (266): DequeueBuffer-  *)
(* Obj finds one whenever the wait for the semaphore has returned.           *)
THEOREM SemaphoreCorrect == Spec => []SemaphoreBalance
<1>1. Inv => SemaphoreBalance
  BY DEF Inv, ConnInv, Balance, SemaphoreBalance
<1> QED
  BY <1>1, Invariance, PTL

(* Unless a send failed, the sender frees the CONNECTION_OBJ (559) when the  *)
(* receiver has used it for the last time.                                   *)
THEOREM FreedAfterReceiver == Spec => []FreedLast
<1>1. Inv => FreedLast
  BY DEF Inv, ConnInv, Life, Last, FreedLast
<1> QED
  BY <1>1, Invariance, PTL
-----------------------------------------------------------------------------
(* The refinement: what each step does to the promise of Echo. *)

\* Echo's variables, seen from here.
IsOpen(c) == running = 1 /\ s[c] # "closed"

LEMMA EchoStutter ==
  ASSUME UNCHANGED <<received, echoed>>,
         \A d \in Conns : IsOpen(d)' <=> IsOpen(d),
         \A d \in Conns : Gone(d)' <=> Gone(d)
  PROVE  UNCHANGED Promise!vars
<1>1. [d \in Conns |-> running = 1 /\ s[d] # "closed"]'
        = [d \in Conns |-> running = 1 /\ s[d] # "closed"]
  BY Zenon DEF IsOpen
<1>2. [d \in Conns |-> Gone(d)]' = [d \in Conns |-> Gone(d)]
  <2>1. \A d \in Conns : client'[d] \in {"reset", "spent"} <=> client[d] \in {"reset", "spent"}
    BY DEF Gone
  <2> QED
    BY <2>1 DEF Gone
<1> QED
  BY <1>1, <1>2 DEF Promise!vars

LEMMA EchoBreaks ==
  ASSUME NEW c \in Conns, UNCHANGED <<received, echoed>>,
         \A d \in Conns : IsOpen(d)' <=> IsOpen(d),
         ~Gone(c), Gone(c)',
         \A d \in Conns \ {c} : Gone(d)' <=> Gone(d)
  PROVE  Promise!Break(c)
<1>1. [d \in Conns |-> running = 1 /\ s[d] # "closed"]'
        = [d \in Conns |-> running = 1 /\ s[d] # "closed"]
  BY Zenon DEF IsOpen
<1> DEFINE f == [d \in Conns |-> Gone(d)]
           g == [d \in Conns |-> Gone(d)]'
<1>2. g = [f EXCEPT ![c] = TRUE]
  <2>1. \A d \in Conns \ {c} : g[d] = f[d]
    BY DEF Gone
  <2>2. g[c] = TRUE
    BY DEF Gone
  <2> QED
    BY <2>1, <2>2, Zenon DEF Gone
<1> QED
  BY <1>1, <1>2 DEF Promise!Break

LEMMA EchoCloses ==
  ASSUME NEW c \in Conns, UNCHANGED <<received, echoed>>,
         IsOpen(c), ~IsOpen(c)', Gone(c) \/ Len(echoed[c]) = received[c],
         \A d \in Conns \ {c} : IsOpen(d)' <=> IsOpen(d),
         \A d \in Conns : Gone(d)' <=> Gone(d)
  PROVE  Promise!Close(c)
<1>1. [d \in Conns |-> running = 1 /\ s[d] # "closed"]'
        = [[d \in Conns |-> running = 1 /\ s[d] # "closed"] EXCEPT ![c] = FALSE]
  BY Zenon DEF IsOpen
<1>2. [d \in Conns |-> Gone(d)]' = [d \in Conns |-> Gone(d)]
  <2>1. \A d \in Conns : client'[d] \in {"reset", "spent"} <=> client[d] \in {"reset", "spent"}
    BY DEF Gone
  <2> QED
    BY <2>1 DEF Gone
<1> QED
  BY <1>1, <1>2 DEF Promise!Close, IsOpen

\* A step that neither receives nor sends, ...
LEMMA EchoQuiet ==
  ASSUME UNCHANGED <<received, echoed, s, running, client>>
  PROVE  UNCHANGED Promise!vars
BY EchoStutter DEF IsOpen, Gone

\* ... and one of the client alone.
LEMMA EchoClient ==
  ASSUME NEW c \in Conns, UNCHANGED <<received, echoed, s, running>>,
         TypeOK, NEW v, client' = [client EXCEPT ![c] = v],
         Gone(c) => v \in {"reset", "spent"}
  PROVE  [Promise!Next]_(Promise!vars)
<1>1. \A d \in Conns : IsOpen(d)' <=> IsOpen(d)
  BY DEF IsOpen
<1>2. \A d \in Conns \ {c} : Gone(d)' <=> Gone(d)
  BY DEF Gone, TypeOK
<1>3. Gone(c)' <=> v \in {"reset", "spent"}
  BY DEF Gone, TypeOK
<1>4. CASE Gone(c)' <=> Gone(c)
  BY <1>1, <1>2, <1>4, EchoStutter
<1>5. CASE ~Gone(c) /\ Gone(c)'
  BY <1>1, <1>2, <1>5, EchoBreaks DEF Promise!Next, Promise!Step
<1> QED
  BY <1>3, <1>4, <1>5

LEMMA EchoReceives ==
  ASSUME TypeOK, NEW c \in Conns, RecvData(c), running = 1
  PROVE  [Promise!Next]_(Promise!vars)
<1>1. PICK n \in 1 .. gBufferSize : received' = [received EXCEPT ![c] = @ + n]
  BY DEF RecvData
<1>2. /\ received'[c] > received[c]
      /\ received' = [received EXCEPT ![c] = received'[c]]
  BY <1>1 DEF TypeOK
<1>3. /\ UNCHANGED <<echoed, s, running, client>>
      /\ s[c] = "open"
  BY DEF RecvData, Got
<1>4. UNCHANGED <<[d \in Conns |-> running = 1 /\ s[d] # "closed"], [d \in Conns |-> Gone(d)]>>
  BY <1>3 DEF Gone
<1>5. Promise!Receive(c)
  BY <1>2, <1>3, <1>4 DEF Promise!Receive
<1> QED
  BY <1>5 DEF Promise!Next, Promise!Step

LEMMA EchoSends ==
  ASSUME Inv, NEW c \in Conns, spc[c] = "send", running = 1,
         NEW n \in 0 .. buflen(sbuf[c]), Echoes(c, n),
         UNCHANGED <<received, s, running, client>>
  PROVE  [Promise!Next]_(Promise!vars)
<1> DEFINE e == echoed[c]
           m == Len(e) + n
<1>1. /\ echoed' = [echoed EXCEPT ![c] = @ \o [i \in 1 .. n |-> Len(@) + i]]
   /\ sbuf[c][1] + n <= After(sbuf[c]) /\ sbuf[c][1] = Len(e) + 1
   /\ After(sbuf[c]) <= received[c] + 1 /\ n \in Nat
   /\ Len(e) \in Nat /\ received[c] \in Nat /\ After(sbuf[c]) \in Int
  <2>1. TypeOK /\ Order(c)
    BY DEF Inv, ConnInv
  <2>2. /\ echoed' = [echoed EXCEPT ![c] = @ \o [i \in 1 .. n |-> Len(@) + i]]
        /\ sbuf[c][1] + n <= After(sbuf[c]) /\ sbuf[c][1] = Len(e) + 1
    BY <2>1, EchoStep
  <2>3. /\ After(sbuf[c]) <= received[c] + 1 /\ sbuf[c] \in Buffer \cup {<<0, 0>>}
        /\ Len(e) \in Nat /\ received[c] \in Nat
    BY <2>1 DEF Order, TypeOK
  <2>4. After(sbuf[c]) \in Int /\ n \in Nat
    BY <2>3, BufferType
  <2> QED
    BY <2>2, <2>3, <2>4
<1>2. UNCHANGED <<[d \in Conns |-> running = 1 /\ s[d] # "closed"], [d \in Conns |-> Gone(d)]>>
  BY DEF Gone
<1>3. s[c] # "closed"
  BY DEF Inv, ConnInv, Life
<1>4. CASE n = 0
  <2>1. e \o [i \in 1 .. n |-> Len(e) + i] = e
    BY <1>4 DEF Inv, TypeOK
  <2>2. UNCHANGED echoed
    BY <1>1, <2>1 DEF Inv, TypeOK
  <2> QED
    BY <2>2, EchoQuiet
<1>5. CASE n > 0
  <2>1. m \in (Len(e) + 1) .. received[c] /\ m - Len(e) = n
    BY <1>1, <1>5
  <2>2. echoed' = [echoed EXCEPT ![c] = @ \o [i \in 1 .. (m - Len(@)) |-> Len(@) + i]]
    BY <1>1, <2>1
  <2>3. Promise!Send(c)
    BY <1>2, <1>3, <2>1, <2>2 DEF Promise!Send
  <2> QED
    BY <2>3 DEF Promise!Next, Promise!Step
<1> QED
  BY <1>1, <1>4, <1>5

LEMMA EchoInit == Init => Promise!Init
<1> SUFFICES ASSUME Init
             PROVE  Promise!Init
  OBVIOUS
<1>1. [d \in Conns |-> running = 1 /\ s[d] # "closed"] = [d \in Conns |-> TRUE]
  <2>1. running = 1 /\ \A d \in Conns : s[d] # "closed"
    BY DEF Init
  <2> QED
    BY <2>1, Zenon
<1>2. [d \in Conns |-> Gone(d)] = [d \in Conns |-> FALSE]
  <2>1. \A d \in Conns : (client[d] \in {"reset", "spent"}) = FALSE
    BY DEF Init
  <2> QED
    BY <2>1 DEF Gone
<1> QED
  BY <1>1, <1>2 DEF Init, Promise!Init

LEMMA EchoNext == Inv /\ [Next]_vars => [Promise!Next]_(Promise!vars)
<1> SUFFICES ASSUME Inv, [Next]_vars
             PROVE  [Promise!Next]_(Promise!vars)
  OBVIOUS
<1>1. CASE UNCHANGED vars
  BY <1>1, EchoQuiet DEF vars
<1>2. CASE MainReturns
  <2>1. [d \in Conns |-> running = 1 /\ s[d] # "closed"]' = [d \in Conns |-> FALSE]
    <3>1. ~(running = 1)'
      BY <1>2 DEF MainReturns
    <3> QED
      BY <3>1, Zenon
  <2>2. UNCHANGED <<received, echoed, [d \in Conns |-> Gone(d)]>>
    BY <1>2 DEF MainReturns, Gone
  <2> QED
    BY <2>1, <2>2 DEF Promise!Next, Promise!Stop, Promise!Step
<1>3. ASSUME NEW l \in Listeners, ServerListenThread(l)
      PROVE  [Promise!Next]_(Promise!vars)
  <2>1. CASE Listen(l) \/ CreateReceiver(l) \/ CreateSender(l) \/ ListenFails(l)
    BY <2>1, EchoQuiet DEF Listen, CreateReceiver, CreateSender, ListenFails
  <2>2. ASSUME NEW c \in Conns, Accept(l, c) \/ ServeUdp(l, c)
        PROVE  [Promise!Next]_(Promise!vars)
    <3>1. /\ UNCHANGED <<received, echoed, running>> /\ s[c] = "none"
          /\ s' = [s EXCEPT ![c] = "open"] /\ client' = [client EXCEPT ![c] = "open"]
      BY <2>2 DEF Accept, ServeUdp
    <3>2. client[c] = "none"
      BY <3>1 DEF Inv, ListenInv
    <3>3. \A d \in Conns : IsOpen(d)' <=> IsOpen(d)
      BY <3>1 DEF Inv, TypeOK, IsOpen
    <3>4. \A d \in Conns : Gone(d)' <=> Gone(d)
      BY <3>1, <3>2 DEF Inv, TypeOK, Gone
    <3> QED
      BY <3>1, <3>3, <3>4, EchoStutter
  <2> QED
    BY <1>3, <2>1, <2>2 DEF ServerListenThread
<1>4. ASSUME NEW c \in Conns, running = 1, Client(c)
      PROVE  [Promise!Next]_(Promise!vars)
  <2>1. CASE Shutdown(c)
    BY <2>1, EchoClient DEF Shutdown, Inv, Gone
  <2>2. CASE Reset(c)
    BY <2>2, EchoClient DEF Reset, Inv
  <2>3. CASE RecvData(c)
    BY <1>4, <2>3, EchoReceives DEF Inv
  <2>4. CASE RecvEmpty(c)
    BY <2>4, EchoQuiet DEF RecvEmpty, Got
  <2> QED
    BY <1>4, <2>1, <2>2, <2>3, <2>4 DEF Client
<1>5. ASSUME NEW c \in Conns, ReceiveThread(c)
      PROVE  [Promise!Next]_(Promise!vars)
  <2>1. CASE RecvError(c)
    <3>1. CASE Udp
      BY <2>1, <3>1, EchoClient DEF RecvError, Got, Inv
    <3>2. CASE ~Udp
      <4>1. UNCHANGED client
        BY <2>1, <3>2 DEF RecvError, Inv, TypeOK
      <4> QED
        BY <2>1, <4>1, EchoQuiet DEF RecvError, Got
    <3> QED
      BY <3>1, <3>2
  <2>2. CASE ~RecvError(c)
    BY <1>5, <2>2, EchoQuiet DEF ReceiveThread, Lost, Call, RecvZero, Got, Enqueue, Release
  <2> QED
    BY <2>1, <2>2
<1>6. ASSUME NEW c \in Conns, running = 1, SendThread(c)
      PROVE  [Promise!Next]_(Promise!vars)
  <2>1. CASE Send(c)
    <3>1. PICK n \in 1 .. buflen(sbuf[c]) : Echoes(c, n)
      BY <2>1 DEF Send
    <3>2. n \in 0 .. buflen(sbuf[c])
      BY <3>1, BufferType DEF Inv, TypeOK
    <3> QED
      BY <1>6, <2>1, <3>1, <3>2, EchoSends DEF Send
  <2>2. CASE SendTo(c)
    <3>1. buflen(sbuf[c]) \in 0 .. buflen(sbuf[c])
      BY <2>2, BufferType DEF Inv, TypeOK, SendTo
    <3> QED
      BY <1>6, <2>2, <3>1, EchoSends DEF SendTo
  <2>3. CASE CloseSocket(c)
    <3>1. /\ spc[c] = "close" /\ s' = [s EXCEPT ![c] = "closed"]
          /\ UNCHANGED <<received, echoed, running, client>>
      BY <2>3 DEF CloseSocket
    <3>2. s[c] # "closed" /\ (Gone(c) \/ Len(echoed[c]) = received[c])
      BY <3>1 DEF Inv, ConnInv, Life, Failed
    <3>3. IsOpen(c) /\ ~IsOpen(c)'
      BY <1>6, <3>1, <3>2 DEF Inv, TypeOK, IsOpen
    <3>4. \A d \in Conns \ {c} : IsOpen(d)' <=> IsOpen(d)
      BY <3>1 DEF Inv, TypeOK, IsOpen
    <3>5. \A d \in Conns : Gone(d)' <=> Gone(d)
      BY <3>1 DEF Gone
    <3> QED
      BY <3>1, <3>2, <3>3, <3>4, <3>5, EchoCloses DEF Promise!Next, Promise!Step
  <2>4. CASE Wait(c) \/ Dequeue(c) \/ SendFails(c) \/ FreeConnectionObj(c)
    BY <2>4, EchoQuiet DEF Wait, Dequeue, SendFails, FreeConnectionObj
  <2> QED
    BY <1>6, <2>1, <2>2, <2>3, <2>4 DEF SendThread
<1> QED
  BY <1>1, <1>2, <1>3, <1>4, <1>5, <1>6 DEF Next

(* The server keeps the promise of Echo: nothing is lost, repeated or        *)
(* reordered on its way through the queue and the two threads, and a socket  *)
(* is closed when all was echoed or the connection is broken.                *)
THEOREM Implements == Spec => ImplementsEcho
  BY EchoInit, EchoNext, Invariance, PTL DEF Spec, ImplementsEcho, Promise!Spec
=============================================================================

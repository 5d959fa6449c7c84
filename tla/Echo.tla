-------------------------------- MODULE Echo --------------------------------
(***************************************************************************)
(* What every echo server of the repository promises, each in its own I/O  *)
(* model: "once data is received on a client socket, it is echoed back".   *)
(* A connection is an input of bytes 1, 2, 3 ... and an output.            *)
(***************************************************************************)
EXTENDS Integers, Sequences

CONSTANT Conns

VARIABLES
  received,   \* received[c]: the bytes taken from c's input so far
  echoed,     \* echoed[c]: the bytes sent back, in the order sent
  open,       \* open[c]: the server has not closed c
  broken      \* broken[c]: the transport or the client gave c up

vars == <<received, echoed, open, broken>>

Init ==
  /\ received = [c \in Conns |-> 0]
  /\ echoed = [c \in Conns |-> <<>>]
  /\ open = [c \in Conns |-> TRUE]
  /\ broken = [c \in Conns |-> FALSE]

\* More bytes of c's input arrive.
Receive(c) ==
  /\ open[c] /\ received'[c] > received[c]
  /\ received' = [received EXCEPT ![c] = received'[c]]
  /\ UNCHANGED <<echoed, open, broken>>

\* The next bytes of the input go back, each once and in order.
Send(c) ==
  /\ open[c]
  /\ \E n \in (Len(echoed[c]) + 1) .. received[c] :
       echoed' = [echoed EXCEPT ![c] = @ \o [i \in 1 .. (n - Len(@)) |-> Len(@) + i]]
  /\ UNCHANGED <<received, open, broken>>

Break(c) ==
  /\ ~broken[c]
  /\ broken' = [broken EXCEPT ![c] = TRUE]
  /\ UNCHANGED <<received, echoed, open>>

\* A connection is closed when all its input has been echoed.
Close(c) ==
  /\ open[c] /\ (broken[c] \/ Len(echoed[c]) = received[c])
  /\ open' = [open EXCEPT ![c] = FALSE]
  /\ UNCHANGED <<received, echoed, broken>>

\* The process ends and takes the connections with it.
Stop ==
  /\ open' = [c \in Conns |-> FALSE]
  /\ UNCHANGED <<received, echoed, broken>>

Step == \E c \in Conns : Receive(c) \/ Send(c) \/ Break(c) \/ Close(c)
Next == Stop \/ Step

Spec == Init /\ [][Next]_vars

\* The promise of a server that no action ends.
UnstoppedSpec == Init /\ [][Step]_vars
=============================================================================

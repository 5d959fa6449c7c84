--------------------------- MODULE BlockingClient ---------------------------
(* chapter05/blocking/client/bclient.cpp: the client with a thread that    *)
(* sends and a thread that receives on one blocking socket.  The server is *)
(* an echo server; what is on its way to it and back is one queue.         *)
EXTENDS Integers, Sequences, SequencesExt

CONSTANTS
  gSendCount,        \* -x: buffers to send
  BufferPieces,      \* pieces send may cut a buffer of gBufferSize into
  Room,              \* bound of the model: pieces TCP holds before send waits
  Addresses,         \* 1 .. n: what the server's name resolves to
  MaxDatagramFaults  \* bound of the model: datagrams lost or overtaken

ASSUME BlockingClientAssumption ==
  /\ {gSendCount, BufferPieces, Room} \subseteq Nat \ {0}
  /\ MaxDatagramFaults \in Nat /\ Addresses \subseteq Nat /\ 1 \in Addresses

VARIABLES
  gProtocol,      \* "tcp" or "udp"
  endpoint,       \* gConnectedEndpoint: the address tried
  bmain,          \* where main is
  sender,         \* SendThread: [i, nleft, nulls, exited]
  receiverExited,
  gBytesRead,
  air,            \* "data" and "null" (the end of the stream, an empty datagram)
  faults          \* [lost, overtaken, reset]: what the network did

blockingClientVars ==
  <<gProtocol, endpoint, bmain, sender, receiverExited, gBytesRead, air, faults>>

Tcp == gProtocol = "tcp"
Pieces == IF Tcp THEN BufferPieces ELSE 1

BlockingClientInit ==
  /\ gProtocol \in {"tcp", "udp"}
  /\ endpoint = 1 /\ bmain = "connect"
  /\ sender = [i |-> 0, nleft |-> 0, nulls |-> 0, exited |-> 0]
  /\ receiverExited = 0 /\ gBytesRead = 0 /\ air = <<>>
  /\ faults = [lost |-> 0, overtaken |-> 0, reset |-> 0]

Running == bmain = "threads"
-----------------------------------------------------------------------------
\* main tries one address after the other; UDP takes the first.
Connects ==
  /\ bmain = "connect" /\ bmain' = "threads"
  /\ UNCHANGED <<gProtocol, endpoint, sender, receiverExited, gBytesRead, air, faults>>

Refused ==
  /\ bmain = "connect" /\ Tcp
  /\ endpoint' = endpoint + 1
  /\ bmain' = IF endpoint + 1 \in Addresses THEN "connect" ELSE "failed"
  /\ UNCHANGED <<gProtocol, sender, receiverExited, gBytesRead, air, faults>>

\* SendThread: the next buffer, or the part of it that send left over.
SendLeft(n) == sender' = [sender EXCEPT !.nleft = @ - n]

NextBuffer ==
  /\ Running /\ sender.exited = 0 /\ sender.nleft = 0 /\ sender.i < gSendCount
  /\ sender' = [sender EXCEPT !.i = @ + 1, !.nleft = Pieces]
  /\ UNCHANGED <<gProtocol, endpoint, bmain, receiverExited, gBytesRead, air, faults>>

Send ==
  /\ Running /\ sender.nleft > 0
  /\ IF faults.reset = 1
     THEN sender' = [sender EXCEPT !.nleft = 0, !.exited = 1] /\ UNCHANGED air
     ELSE \E n \in 1 .. sender.nleft :
            /\ Tcp => Len(air) + n <= Room
            /\ SendLeft(n)
            /\ air' = air \o [k \in 1 .. n |-> "data"]
  /\ UNCHANGED <<gProtocol, endpoint, bmain, receiverExited, gBytesRead, faults>>

\* shutdown once, or three empty datagrams.
Goodbyes == IF Tcp THEN 1 ELSE 3

Goodbye ==
  /\ Running /\ sender.exited = 0 /\ sender.nleft = 0 /\ sender.i = gSendCount
  /\ sender' = [sender EXCEPT !.nulls = @ + 1, !.exited = IF sender.nulls + 1 = Goodbyes THEN 1 ELSE 0]
  /\ air' = IF faults.reset = 1 THEN air ELSE Append(air, "null")
  /\ UNCHANGED <<gProtocol, endpoint, bmain, receiverExited, gBytesRead, faults>>

\* ReceiveThread: until it reads nothing or fails.
Receive ==
  /\ Running /\ receiverExited = 0
  /\ air # <<>> \/ faults.reset = 1
  /\ IF air # <<>> /\ Head(air) = "data"
     THEN /\ gBytesRead' = gBytesRead + 1 /\ UNCHANGED receiverExited
     ELSE /\ receiverExited' = 1 /\ UNCHANGED gBytesRead
  /\ air' = IF air = <<>> THEN air ELSE Tail(air)
  /\ UNCHANGED <<gProtocol, endpoint, bmain, sender, faults>>

\* main waits for both threads.
Join ==
  /\ Running /\ sender.exited = 1 /\ receiverExited = 1
  /\ bmain' = "end"
  /\ UNCHANGED <<gProtocol, endpoint, sender, receiverExited, gBytesRead, air, faults>>

\* The network loses a datagram, brings a later one first, or the server
\* resets the connection.
Lose ==
  /\ ~Tcp /\ faults.lost + faults.overtaken < MaxDatagramFaults
  /\ \E k \in DOMAIN air : air' = RemoveAt(air, k)
  /\ faults' = [faults EXCEPT !.lost = @ + 1]
  /\ UNCHANGED <<gProtocol, endpoint, bmain, sender, receiverExited, gBytesRead>>

Overtake ==
  /\ ~Tcp /\ faults.lost + faults.overtaken < MaxDatagramFaults
  /\ \E k \in DOMAIN air : k > 1 /\ air' = <<air[k]>> \o RemoveAt(air, k)
  /\ faults' = [faults EXCEPT !.overtaken = @ + 1]
  /\ UNCHANGED <<gProtocol, endpoint, bmain, sender, receiverExited, gBytesRead>>

ResetByServer ==
  /\ Tcp /\ Running /\ faults.reset = 0
  /\ faults' = [faults EXCEPT !.reset = 1] /\ air' = <<>>
  /\ UNCHANGED <<gProtocol, endpoint, bmain, sender, receiverExited, gBytesRead>>
-----------------------------------------------------------------------------
BlockingSender == NextBuffer \/ Send \/ Goodbye
BlockingMain == Connects \/ Refused \/ Join

BlockingClientNext ==
  \/ BlockingMain \/ BlockingSender \/ Receive
  \/ Lose \/ Overtake \/ ResetByServer

Undisturbed == faults = [lost |-> 0, overtaken |-> 0, reset |-> 0]

\* When both threads are done everything that -x asks for went out and came
\* back, unless the network broke, lost or reordered something; with UDP the
\* receiver takes the first empty datagram for the end of it all.
AllReadBack ==
  bmain = "end" /\ Undisturbed => gBytesRead = gSendCount * Pieces

\* What the program gets to: its end.  With UDP that rests on the last
\* datagrams: the receiver waits for ever if all three are lost.
BlockingClientEnds == bmain \in {"end", "failed"} \/ faults.lost >= 3
=============================================================================

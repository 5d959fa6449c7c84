---------------------------- MODULE MCEchoLoops ----------------------------
(* EchoLoops with up to three clients.  In the select server one client can *)
(* hold up another; in the others they meet only in the list of sockets.    *)
EXTENDS EchoLoops

MCLoad == [s \in Servers |-> IF s = "select" THEN 6 ELSE 5]
=============================================================================

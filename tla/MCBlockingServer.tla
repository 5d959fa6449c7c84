-------------------------- MODULE MCBlockingServer --------------------------
(* BlockingServer on a small server: two listening threads, one client.     *)
EXTENDS BlockingServer
=============================================================================

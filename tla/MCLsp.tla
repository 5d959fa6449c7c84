------------------------------- MODULE MCLsp -------------------------------
(* Lsp with two threads of the application and one worker. *)
EXTENDS Lsp
=============================================================================

--------------------------- MODULE MCIocpListener ---------------------------
(* IocpListener on a small server.  Threads and buffers are model values;   *)
(* safety runs use their symmetry, liveness runs do not.                    *)
EXTENDS IocpListener, TLC

Symm == Permutations(Workers)
=============================================================================

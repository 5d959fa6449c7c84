----------------------------- MODULE MCIocpConn -----------------------------
(* IocpConn on a small server.  Threads, buffers and sockets are model      *)
(* values; safety runs use their symmetry, liveness runs do not.            *)
EXTENDS IocpConn, TLC

Symm == Permutations(Workers) \cup Permutations(Buffers) \cup Permutations(SockObjs)
=============================================================================

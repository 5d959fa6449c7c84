----------------------------- MODULE MCIocpEcho -----------------------------
(* IocpEcho on a machine with one processor, with two, and with three; with *)
(* three nothing fails, and two units are enough for one thread to close    *)
(* while the others have data and a receive that is not counted.            *)
EXTENDS IocpEcho

MCFaults == <<AllFaults, AllFaults, {}>>
MCUnits == <<3, 3, 2>>
=============================================================================

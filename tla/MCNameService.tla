--------------------------- MODULE MCNameService ---------------------------
(* NameService for TLC: lookups and classes are interchangeable. *)
EXTENDS NameService, TLC
Symm == Permutations(Lookups) \cup Permutations(Classes)
=============================================================================

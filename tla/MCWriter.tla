------------------------------ MODULE MCWriter ------------------------------
(* Small instances of Writer: which goroutines there are to exchange.      *)
EXTENDS Writer, TLC

Symmetry == Permutations(Callers) \cup Permutations(Roles)
=============================================================================

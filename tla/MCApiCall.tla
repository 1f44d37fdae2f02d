------------------------------- MODULE MCApiCall -------------------------------
(* The threads of the library are alike here; they differ in what they call.     *)
EXTENDS ApiCall, TLC

Symmetry == Permutations(Threads)
================================================================================

---------------------------- MODULE MCAutoControl ----------------------------
(* Temperatures are numbers of three bits' magnitude, a word has four bits: one  *)
(* range is a single temperature, one has room on both sides.                    *)
EXTENDS AutoControl

MCRequests == {-8, -1, 0, 1, 3, 4, 7}
MCScales == {[min |-> 2, max |-> 5], [min |-> 3, max |-> 3]}
================================================================================

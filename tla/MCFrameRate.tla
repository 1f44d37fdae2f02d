------------------------------ MODULE MCFrameRate ------------------------------
(* FrameRate on small instances: every range and every list of up to four   *)
(* clocks, and every limit of the frame rate, monotonic in the clock or not.*)
EXTENDS FrameRate, SequencesExt

CONSTANTS MaxClock, MaxRate

MCRanges ==
  {r \in [min : 1 .. MaxClock, max : 1 .. MaxClock, inc : 1 .. 3] : r.min <= r.max}

MCLists == {SetToSortSeq(S, <) : S \in SUBSET (1 .. MaxClock) \ {{}}}

MCLimits == [1 .. MaxClock -> 1 .. MaxRate]

MCRequests == 1 .. MaxRate + 1
================================================================================

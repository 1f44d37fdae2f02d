---------------------------- MODULE MCCaptureStatus ----------------------------
(* CaptureStatus on small instances.                                        *)
EXTENDS CaptureStatus

\* The last entry is an alias of the one before, as USB_TRANSFER_FAILED is of
\* TRANSFER_FAILED.
Aliases == [c \in Codes |-> IF c = N /\ N > 2 THEN N - 1 ELSE c]
================================================================================

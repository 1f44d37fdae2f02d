--------------------------- MODULE MCUploadProgress ---------------------------
(* Estimates below, on and between multiples of the interval.                    *)
EXTENDS UploadProgress

MCDurations == 1 .. 8
================================================================================

---------------------------- MODULE MCCaptureHandle ----------------------------
(* CaptureHandle on small instances.                                        *)
EXTENDS CaptureHandle, TLC

\* Workers are interchangeable: nothing orders them.
WorkerSymmetry == Permutations(Workers)
================================================================================

---------------------------- MODULE MCFdrLogging ---------------------------
(* Instances of FdrLogging for TLC. *)
EXTENDS FdrLogging
CONSTANTS t1, t2, t3
ThreeThreads == {t1, t2, t3}
=============================================================================

---------------------------- MODULE MCTsanMutex ----------------------------
(* An instance of TsanMutex for TLC. *)
EXTENDS TsanMutex
CONSTANTS t1, t2, t3, t4
AllThreads == {t1, t2, t3, t4}
=============================================================================

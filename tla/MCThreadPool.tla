---------------------------- MODULE MCThreadPool ---------------------------
(* An instance of ThreadPool for TLC: one task submits another one.        *)
EXTENDS ThreadPool
CONSTANTS w1, w2, a, b, c
TwoWorkers == {w1, w2}
ClientTasks == {a, b}
OneSpawns == [t \in {a, b, c} |-> IF t = a THEN {c} ELSE {}]
=============================================================================

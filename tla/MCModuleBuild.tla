--------------------------- MODULE MCModuleBuild ---------------------------
(* Instances of ModuleBuild for TLC. *)
EXTENDS ModuleBuild, TLC

CONSTANTS p1, p2, p3

AllProcs == {p1, p2, p3}
TwoProcs == {p1, p2}

(* p1 and p2 are given one pid of the same host, one after the other.      *)
OneHost    == [p \in Procs |-> "h1"]
ReusedPids == [p \in Procs |-> IF p = p3 THEN 2 ELSE 1]
(* Three processes of one host, each with a pid of its own.                *)
OwnPids    == [p \in Procs |-> IF p = p1 THEN 1 ELSE IF p = p2 THEN 2 ELSE 3]

SameConfig == [p \in Procs |-> "c"]
TwoConfigs == [p \in Procs |-> IF p = p3 THEN "d" ELSE "c"]

BuildContents == Procs \cup {Stale}
=============================================================================

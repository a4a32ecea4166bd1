---------------------------- MODULE MCFdrRecords ---------------------------
(* An instance of FdrRecords for TLC: two functions that can be swapped,   *)
(* and a bound on nesting for the run with nine hooks.                     *)
EXTENDS FdrRecords, TLC
CONSTANTS a, b
TwoFunctions == {a, b}
Swap == Permutations(TwoFunctions)
NestedCalls == Len(calls) <= 3
=============================================================================

------------------------- MODULE MCExecutionPermit -------------------------
(***************************************************************************)
(* Instances of ExecutionPermit for TLC.                                   *)
(***************************************************************************)
EXTENDS ExecutionPermit, TLC

CONSTANTS b1, b2, s1, s2

TwoBranches == {b1, b2}
TwoSections == {s1, s2}
=============================================================================

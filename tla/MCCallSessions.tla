---------------------------- MODULE MCCallSessions ----------------------------
(* Instances of CallSessions for TLC.                                      *)
EXTENDS CallSessions

CONSTANTS j1, j2

TwoJoins == {j1, j2}
=============================================================================

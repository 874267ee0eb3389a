-------------------------- MODULE MCCallKeyReceive --------------------------
(* Instances of CallKeyReceive for TLC.                                    *)
EXTENDS CallKeyReceive

CONSTANTS p1, p2

\* The first membership of one peer names no focus.
Foci == (Sender \X (1 .. MaxGen)) \ {<<p2, 1>>}
=============================================================================

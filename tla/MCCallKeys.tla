----------------------------- MODULE MCCallKeys -----------------------------
(* CallKeys for TLC: the limits keep the order they have in the code, in     *)
(* ticks of USE_KEY_DELAY (5 s) unless a configuration says otherwise.        *)
EXTENDS CallKeys
=============================================================================

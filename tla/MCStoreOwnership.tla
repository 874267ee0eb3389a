-------------------------- MODULE MCStoreOwnership --------------------------
(* Instances of StoreOwnership for TLC.                                     *)
EXTENDS StoreOwnership, TLC

CONSTANTS p, q

TwoPages == {p, q}

Kind(old, new, hangs, panics, kills, leaves, resets) ==
    [builds |-> p :> old @@ q :> new, hangs |-> hangs, panics |-> panics,
     kills |-> kills, leaves |-> leaves, resets |-> resets]

\* A worker that hangs, with a tab of an old build beside one of the new; two
\* failures of one build, whose tabs retire the name; a worker that is killed and
\* pages that are left, with one that is updated; the reset of the caches.
Kinds == {Kind({1}, {2}, 1, 0, 0, FALSE, FALSE),
          Kind({1}, {1}, 0, 2, 0, FALSE, FALSE),
          Kind({1}, {1, 2}, 0, 0, 1, TRUE, FALSE),
          Kind({1}, {1, 2}, 0, 0, 0, FALSE, TRUE)}

=============================================================================

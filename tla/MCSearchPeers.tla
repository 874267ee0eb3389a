---------------------------- MODULE MCSearchPeers ----------------------------
(* Instances of SearchPeers for TLC.                                       *)
EXTENDS SearchPeers

CONSTANTS a, b, c

All == {a, b, c}

Kind(devices, queries, requests, calls, ranks, halting, losing) ==
    [devices |-> devices, queries |-> queries, requests |-> requests, calls |-> calls,
     ranks |-> ranks, halting |-> halting, losing |-> losing]

\* Two devices that answer, in any order; one device, asked twice, with sharing
\* interrupted; both roles at once; two requests of each of three devices; a page
\* that vanishes.
Passing ==
    {Kind({a, b}, 1, 0, {"start"}, {1, 2}, FALSE, FALSE),
     Kind({a}, 2, 0, {"start"}, {1}, TRUE, FALSE),
     Kind({a}, 1, 1, Calls, {0, 1}, TRUE, FALSE),
     Kind({a, b, c}, 1, 2, {"start"}, {}, FALSE, FALSE),
     Kind({a}, 1, 1, {"start"}, {1}, TRUE, TRUE)}

=============================================================================

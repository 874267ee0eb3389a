----------------------------- MODULE MCCallHangup -----------------------------
(* Instances of CallHangup for TLC.                                        *)
EXTENDS CallHangup

Kind(sticky, encrypted, sharing, crashing, calls, tasks) ==
    [sticky |-> sticky, encrypted |-> encrypted, delayed |-> TRUE, sharing |-> sharing,
     crashing |-> crashing, calls |-> calls, tasks |-> tasks]

\* The server has no delayed events.
Undelayed(kind) == [kind EXCEPT !.delayed = FALSE]

\* One sticky call of an encrypted room with two detached refreshes; two calls
\* one after the other, with crashes, in a plain room and with a state event.
SafetyModes ==
    {Kind(TRUE, TRUE, FALSE, FALSE, 1, 2),
     Kind(TRUE, FALSE, FALSE, TRUE, 2, 1),
     Kind(FALSE, TRUE, FALSE, TRUE, 2, 1),
     Undelayed(Kind(TRUE, TRUE, FALSE, TRUE, 1, 1)),
     Undelayed(Kind(FALSE, TRUE, FALSE, TRUE, 2, 1))}

\* Fewer tasks, and screen shares in one call with a state event.
LiveModes ==
    {Kind(TRUE, TRUE, FALSE, FALSE, 1, 1),
     Kind(FALSE, TRUE, FALSE, TRUE, 1, 1),
     Kind(FALSE, TRUE, TRUE, TRUE, 1, 1),
     Undelayed(Kind(TRUE, TRUE, FALSE, TRUE, 1, 1)),
     Undelayed(Kind(FALSE, TRUE, FALSE, TRUE, 1, 1))}
=============================================================================

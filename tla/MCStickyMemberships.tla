------------------------- MODULE MCStickyMemberships -------------------------
(* Instances of StickyMemberships for TLC.                                 *)
EXTENDS StickyMemberships

CONSTANTS k1, phone, laptop

Event(i, join, device, claim, created, duration) ==
    [key |-> k1, id |-> i, join |-> join, device |-> device, claim |-> claim,
     created |-> created, duration |-> duration]

\* A member joins, renews and leaves; a shorter renewal is ordered level with
\* the leave; another device uses the same key; a renewal declares more than the
\* longest duration, so it is ordered level with the leave and expires before it.
PlainEvents ==
    {Event(1, TRUE, phone, phone, 0, 3),
     Event(3, TRUE, phone, phone, 1, 3),
     Event(2, FALSE, phone, phone, 2, 3),
     Event(4, TRUE, phone, phone, 3, 2),
     Event(5, TRUE, laptop, laptop, 2, 2),
     Event(6, TRUE, phone, phone, 0, 5)}

\* The same with a device that claims to be the other.
EncryptedEvents ==
    {Event(1, TRUE, phone, phone, 0, 3),
     Event(3, TRUE, phone, phone, 1, 3),
     Event(2, FALSE, phone, phone, 2, 3),
     Event(4, TRUE, laptop, phone, 2, 3),
     Event(5, FALSE, laptop, laptop, 3, 2),
     Event(6, TRUE, phone, phone, 0, 6)}

TwoRooms == {[encrypted |-> FALSE, events |-> PlainEvents],
             [encrypted |-> TRUE, events |-> EncryptedEvents]}
=============================================================================

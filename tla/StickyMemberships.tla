-------------------------- MODULE StickyMemberships --------------------------
(***************************************************************************)
(* StickyMemberships of calls/membership.rs: who is in a call, according   *)
(* to the sticky events of its room.                                       *)
(*                                                                         *)
(* Every event competes for the entry of its sender, sticky key and wire   *)
(* format (here: its key).  Events reach the store from two syncs, late,   *)
(* again and in any order; entries expire; redactions remove them.  In an  *)
(* encrypted room an event counts by the device that is known to have sent *)
(* it, and that may become known after the event was first applied.        *)
(*                                                                         *)
(* Events are ordered by the time they declare to expire at, and expire    *)
(* within the hour whatever they declare: an event that comes later in the *)
(* order may expire first.  The clocks of the device and of the server     *)
(* agree, so the time to live a server states is what is left of that.     *)
(***************************************************************************)
EXTENDS Integers, FiniteSets

CONSTANTS
    Rooms,        \* the rooms a behaviour may be about: whether they are encrypted,
                  \* and the events sent in them
    Keys,         \* what they compete for
    Devices,      \* the devices that send them
    NoDevice,     \* the entry of a tombstone
    Hour,         \* the longest sticky duration, and how long redactions are kept
    MaxTime,      \* bound on the clock
    MaxRedacted   \* bound on the events that are redacted

EventType == [key : Keys, id : Nat, join : BOOLEAN, device : Devices, claim : Devices,
              created : Nat, duration : Nat \ {0}]

ASSUME DeviceAssumption == NoDevice \notin Devices
ASSUME HourAssumption == Hour \in Nat \ {0} /\ MaxTime \in Nat /\ MaxRedacted \in Nat
ASSUME RoomsAssumption ==
    \A r \in Rooms :
        /\ r.encrypted \in BOOLEAN
        /\ r.events \subseteq EventType
        /\ \A e, f \in r.events : e.id = f.id => e = f

VARIABLES
    room,         \* the room of this behaviour; it never changes
    now,          \* keys::now_ms()
    entries,      \* StickyMemberships.entries
    redacted,     \* StickyMemberships.redacted: event ids, and until when
    known,        \* events whose sending device is authenticated by now
    counted,      \* history, where the claim is taken as it is: events applied before
                  \* they expired or were redacted
    withdrawn     \* history: events ever redacted

vars == <<room, now, entries, redacted, known, counted, withdrawn>>

Encrypted == room.encrypted
Events == room.events

\* The duration counts in full for the order and up to the hour for the expiry.  An
\* event is there once it was created, so min(now, created) is the time it was created.
Order(e) == e.created + e.duration
Expiry(e) == e.created + (IF e.duration < Hour THEN e.duration ELSE Hour)

Entry == [device : Devices \cup {NoDevice}, expires : Nat, id : Nat, order : Nat,
          created : Nat, joined : Nat]

TypeOK ==
    /\ room \in Rooms
    /\ now \in 0 .. MaxTime
    /\ DOMAIN entries \subseteq Keys
    /\ \A k \in DOMAIN entries : entries[k] \in Entry
    /\ redacted \in [DOMAIN redacted -> 1 .. now + Hour]
    /\ DOMAIN redacted \subseteq {e.id : e \in Events}
    /\ {known, counted, withdrawn} \subseteq SUBSET Events

Init ==
    /\ room \in Rooms
    /\ now = 0
    /\ entries = [k \in {} |-> {}]
    /\ redacted = [i \in {} |-> 0]
    /\ known = {}
    /\ counted = {}
    /\ withdrawn = {}

-----------------------------------------------------------------------------
(* The store                                                               *)

Only(f, S) == [x \in S |-> f[x]]
With(f, x, v) == [y \in DOMAIN f \cup {x} |-> IF y = x THEN v ELSE f[y]]

Purged == Only(entries, {k \in DOMAIN entries : entries[k].expires > now})
PurgedRedactions == Only(redacted, {i \in DOMAIN redacted : redacted[i] > now})

\* (order_expires_at_ms, event_id) <= (old.order_expires_at_ms, old.event_id)
SupersededByOrder(e, old) == Order(e) <= old.order
Superseded(e, old) == Order(e) < old.order \/ (Order(e) = old.order /\ e.id <= old.id)

\* A renewal keeps the time the member joined; a tombstone, an expired entry
\* or another device does not pass it on.
JoinedTs(e, device) ==
    IF /\ device # NoDevice
       /\ e.key \in DOMAIN Purged
       /\ Purged[e.key].device = device
    THEN Purged[e.key].joined
    ELSE e.created

\* apply: the event takes the entry over as the given device's, or as a
\* tombstone, or is refused; what has expired goes either way.
Refused(e) ==
    \/ e.id \in DOMAIN PurgedRedactions
    \/ Expiry(e) <= now
    \/ e.key \in DOMAIN Purged /\ Superseded(e, Purged[e.key])

Apply(e, device) ==
    /\ entries' = IF Refused(e) THEN Purged
                  ELSE With(Purged, e.key,
                            [device |-> device, expires |-> Expiry(e), id |-> e.id,
                             order |-> Order(e), created |-> e.created,
                             joined |-> JoinedTs(e, device)])
    /\ redacted' = PurgedRedactions
    /\ counted' = IF Encrypted \/ e.id \in DOMAIN PurgedRedactions \/ Expiry(e) <= now
                  THEN counted ELSE counted \cup {e}
    /\ UNCHANGED <<room, now, known, withdrawn>>

Arrived(e) == e.created <= now

\* In an unencrypted room the claim of the event is taken as it is.
ApplyPlain(e) ==
    /\ ~Encrypted
    /\ Arrived(e)
    /\ Apply(e, IF e.join THEN e.claim ELSE NoDevice)

\* apply_untrusted: an event of no known device is a tombstone at best, and
\* not even that against a member whose device is known.
HeldByDevice(k) == k \in DOMAIN entries /\ entries[k].device # NoDevice

ApplyUntrusted(e) ==
    /\ Encrypted
    /\ Arrived(e)
    /\ e \notin known
    /\ ~HeldByDevice(e.key)
    /\ Apply(e, NoDevice)

\* apply_authenticated: the claim has to be the sender's device, and so has
\* the member it replaces.
HeldByNoOther(e) == FALSE
HeldByOther(e) == HeldByDevice(e.key) /\ entries[e.key].device # e.device

ApplyAuthenticated(e) ==
    /\ Encrypted
    /\ Arrived(e)
    /\ e \in known
    /\ e.claim = e.device
    /\ ~HeldByOther(e)
    /\ Apply(e, IF e.join THEN e.device ELSE NoDevice)

\* redact: the id is kept as long as the event could still be sticky.
KeepForLess == Hour - 1
KeepFor == Hour

Redact(e) ==
    /\ Arrived(e)
    /\ Cardinality(withdrawn \cup {e}) <= MaxRedacted
    /\ redacted' = With(PurgedRedactions, e.id, now + KeepFor)
    /\ entries' = [k \in DOMAIN entries |->
                     IF entries[k].id = e.id
                     THEN [entries[k] EXCEPT !.device = NoDevice]
                     ELSE entries[k]]
    /\ withdrawn' = withdrawn \cup {e}
    /\ UNCHANGED <<room, now, known, counted>>

\* The keys of the sending device arrive.
Authenticate(e) ==
    /\ Encrypted
    /\ e \notin known
    /\ known' = known \cup {e}
    /\ UNCHANGED <<room, now, entries, redacted, counted, withdrawn>>

Tick ==
    /\ now < MaxTime
    /\ now' = now + 1
    /\ UNCHANGED <<room, entries, redacted, known, counted, withdrawn>>

Next ==
    \/ Tick
    \/ \E e \in Events :
        \/ ApplyPlain(e)
        \/ ApplyUntrusted(e)
        \/ ApplyAuthenticated(e)
        \/ Redact(e)
        \/ Authenticate(e)

Spec == Init /\ [][Next]_vars

-----------------------------------------------------------------------------
(* Properties                                                              *)

\* members(): whom the call shows.
Shown(k) ==
    /\ k \in DOMAIN entries
    /\ entries[k].expires > now
    /\ entries[k].device # NoDevice

\* What a key stands for is a matter of the events that were applied, not of
\* the order they came in or how often: the last of them decides as long as it is
\* sticky, and a redacted one decides for nobody.  Whom a call shows is there by an
\* event that is still sticky; one that outlives the events after it may have been
\* refused for them, and is shown when it is delivered again.
Live(k) == {e \in counted : e.key = k /\ Expiry(e) > now}
Before(e, f) == Order(e) < Order(f) \/ (Order(e) = Order(f) /\ e.id < f.id)
Last(e) == \A f \in counted : f.key = e.key => f.id = e.id \/ Before(f, e)

LastWriterShows ==
    ~Encrypted => \A k \in Keys :
        /\ Shown(k) => \E e \in Live(k) : /\ entries[k].id = e.id
                                         /\ e.join /\ e \notin withdrawn
                                         /\ entries[k].device = e.claim
        /\ \A e \in Live(k) : Last(e) => IF e.join /\ e \notin withdrawn
                                         THEN Shown(k) /\ entries[k].device = e.claim
                                         ELSE ~Shown(k)

\* A redacted event shows nobody, however late or often it is delivered again.
RedactedShowsNobody ==
    \A k \in Keys : Shown(k) => entries[k].id \notin {e.id : e \in withdrawn}

\* In an encrypted room a member goes on the word of its own device, by a redaction,
\* or with time.
GoneByItsDevice ==
    [][\A k \in Keys :
         (Encrypted /\ Shown(k) /\ ~Shown(k)' /\ now' = now /\ withdrawn' = withdrawn)
            => \E e \in known : /\ e.id = entries'[k].id
                                /\ e.device = entries[k].device
                                /\ ~e.join]_vars

=============================================================================

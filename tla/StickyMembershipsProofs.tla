------------------------ MODULE StickyMembershipsProofs ------------------------
(* That the last event written decides, that a redacted one shows nobody, and *)
(* that a device alone speaks for its member, for any rooms, events and times. *)
(*                                                                         *)
(* An entry stands for an event. In a plain room the last of the events that *)
(* were applied holds the entry as long as it is sticky, however they came   *)
(* in: it is refused for none of the others, and none of them replaces it.   *)
(* The id of a redacted event is kept until the event has expired, so it is  *)
(* refused for the one reason or for the other.                              *)
EXTENDS StickyMemberships, TLAPS

-----------------------------------------------------------------------------
(* The invariant                                                           *)

\* The event the entry of a key stands for.
Stands(k, e) ==
    /\ e.key = k
    /\ entries[k].id = e.id
    /\ entries[k].order = Order(e)
    /\ entries[k].expires = Expiry(e)

EntriesStand == \A k \in DOMAIN entries : \E e \in Events : Stands(k, e)

\* A redaction is remembered until its event has expired.
Remembered(e) == e.id \in DOMAIN redacted /\ redacted[e.id] >= Expiry(e)
RedactionsLast == \A e \in withdrawn : Expiry(e) <= now \/ Remembered(e)

\* The entry of a redacted event is a tombstone.
RedactedAreTombstones ==
    \A k \in DOMAIN entries, e \in withdrawn :
        entries[k].id = e.id => entries[k].device = NoDevice

\* An entry of a plain room stands for an event that counts, and shows what it claims.
Says(k, e) ==
    entries[k].device = IF e.join /\ e \notin withdrawn THEN e.claim ELSE NoDevice
EntriesCount ==
    \A k \in DOMAIN entries, e \in Events : Stands(k, e) => e \in counted /\ Says(k, e)

\* The last event that counts holds the entry of its key while it is sticky.
LastHolds ==
    \A f \in counted : Expiry(f) > now /\ Last(f) =>
        /\ f.key \in DOMAIN entries
        /\ Stands(f.key, f)

IInv ==
    /\ TypeOK
    /\ EntriesStand
    /\ RedactionsLast
    /\ RedactedAreTombstones
    /\ ~Encrypted => EntriesCount /\ LastHolds

-----------------------------------------------------------------------------
(* Lemmas on events and on the store                                       *)

LEMMA EventFacts ==
    ASSUME TypeOK, NEW e \in Events
    PROVE  /\ e.key \in Keys /\ e.id \in Nat /\ e.created \in Nat
           /\ e.join \in BOOLEAN /\ e.device \in Devices /\ e.claim \in Devices
           /\ Order(e) \in Nat /\ Expiry(e) \in Nat
           /\ e.created < Expiry(e) /\ Expiry(e) <= e.created + Hour
<1>1. e \in EventType
  BY RoomsAssumption DEF TypeOK, Events
<1> QED BY <1>1, HourAssumption DEF EventType, Order, Expiry

LEMMA OneEventPerId ==
    ASSUME TypeOK, NEW e \in Events, NEW f \in Events, e.id = f.id
    PROVE  e = f
BY RoomsAssumption DEF TypeOK, Events

LEMMA EntryFacts ==
    ASSUME TypeOK, NEW k \in DOMAIN entries
    PROVE  /\ entries[k].device \in Devices \cup {NoDevice}
           /\ {entries[k].expires, entries[k].id, entries[k].order, entries[k].created,
               entries[k].joined} \subseteq Nat
BY DEF TypeOK, Entry

\* What has expired is purged, what has not is as it was.
LEMMA PurgedIs ==
    /\ DOMAIN Purged = {k \in DOMAIN entries : entries[k].expires > now}
    /\ \A k \in DOMAIN Purged : Purged[k] = entries[k]
    /\ DOMAIN PurgedRedactions = {i \in DOMAIN redacted : redacted[i] > now}
    /\ \A i \in DOMAIN PurgedRedactions : PurgedRedactions[i] = redacted[i]
BY DEF Purged, PurgedRedactions, Only

\* An event that is refused, or of another key, leaves an entry to the purge.
LEMMA ApplyElsewhere ==
    ASSUME NEW e, NEW device, Apply(e, device), NEW k, k # e.key \/ Refused(e)
    PROVE  /\ k \in DOMAIN entries' <=> k \in DOMAIN Purged
           /\ k \in DOMAIN Purged => entries'[k] = entries[k]
BY PurgedIs DEF Apply, With

\* An event that is not refused takes the entry of its key.
LEMMA ApplyHere ==
    ASSUME NEW e, NEW device, Apply(e, device), ~Refused(e)
    PROVE  /\ DOMAIN entries' = DOMAIN Purged \cup {e.key}
           /\ entries'[e.key] =
                [device |-> device, expires |-> Expiry(e), id |-> e.id, order |-> Order(e),
                 created |-> e.created, joined |-> JoinedTs(e, device)]
           /\ entries'[e.key].device = device /\ entries'[e.key].id = e.id
           /\ entries'[e.key].order = Order(e) /\ entries'[e.key].expires = Expiry(e)
<1> DEFINE entry == [device |-> device, expires |-> Expiry(e), id |-> e.id, order |-> Order(e),
                     created |-> e.created, joined |-> JoinedTs(e, device)]
<1>1. entries' = With(Purged, e.key, entry)
  BY DEF Apply
<1>2. DOMAIN entries' = DOMAIN Purged \cup {e.key} /\ entries'[e.key] = entry
  BY <1>1 DEF With
<1> QED BY <1>2

\* A redacted event is refused, by its id or for its age.
LEMMA RedactedIsRefused ==
    ASSUME TypeOK, RedactionsLast, NEW e \in withdrawn
    PROVE  Refused(e)
<1>0. e \in Events /\ Expiry(e) \in Nat /\ now \in Nat
  BY EventFacts, HourAssumption DEF TypeOK
<1>1. CASE Expiry(e) <= now
  BY <1>1 DEF Refused
<1>2. CASE ~(Expiry(e) <= now)
  <2>1. e.id \in DOMAIN redacted /\ redacted[e.id] > now
    <3>1. Remembered(e)
      BY <1>2 DEF RedactionsLast
    <3>2. redacted[e.id] \in 1 .. now + Hour
      BY <3>1 DEF Remembered, TypeOK
    <3> QED BY <1>0, <1>2, <3>1, <3>2, HourAssumption DEF Remembered
  <2> QED BY <2>1, PurgedIs DEF Refused
<1> QED BY <1>1, <1>2

-----------------------------------------------------------------------------
LEMMA Initially == Init => IInv
<1> SUFFICES ASSUME Init PROVE IInv
  OBVIOUS
<1>1. DOMAIN entries = {} /\ DOMAIN redacted = {}
  BY DEF Init
<1>2. TypeOK
  BY <1>1, HourAssumption DEF Init, TypeOK
<1> QED BY <1>1, <1>2 DEF Init, IInv, EntriesStand, RedactionsLast, RedactedAreTombstones,
             EntriesCount, LastHolds

-----------------------------------------------------------------------------
(* An event is applied                                                     *)

\* How any of the three kinds applies an event: by which device, in which room.
Applies(e, device) ==
    /\ e \in Events
    /\ device \in Devices \cup {NoDevice}
    /\ ~Encrypted => device = IF e.join THEN e.claim ELSE NoDevice
    /\ Apply(e, device)

LEMMA ApplyKeepsTypes ==
    ASSUME TypeOK, NEW e, NEW device, Applies(e, device)
    PROVE  TypeOK'
<1> USE HourAssumption
<1>1. UNCHANGED <<room, now, known, withdrawn>> /\ redacted' = PurgedRedactions
      /\ counted' \in {counted, counted \cup {e}}
  BY DEF Applies, Apply
<1>2. redacted' \in [DOMAIN redacted' -> 1 .. now' + Hour]
      /\ DOMAIN redacted' \subseteq {f.id : f \in Events'}
  BY <1>1, PurgedIs DEF TypeOK, PurgedRedactions, Only, Events
<1>3. DOMAIN entries' \subseteq Keys /\ \A k \in DOMAIN entries' : entries'[k] \in Entry
  <2>1. ASSUME NEW k \in DOMAIN entries', k # e.key \/ Refused(e)
        PROVE  k \in Keys /\ entries'[k] \in Entry
    <3>1. k \in DOMAIN entries /\ entries'[k] = entries[k]
      BY <2>1, ApplyElsewhere, PurgedIs DEF Applies
    <3> QED BY <3>1 DEF TypeOK
  <2>2. ASSUME ~Refused(e) PROVE e.key \in Keys /\ entries'[e.key] \in Entry
    <3>1. JoinedTs(e, device) \in Nat
      BY EventFacts, PurgedIs, EntryFacts DEF JoinedTs, Applies
    <3>2. /\ e.key \in Keys /\ e.id \in Nat /\ e.created \in Nat
          /\ Order(e) \in Nat /\ Expiry(e) \in Nat
      BY EventFacts DEF Applies
    <3>3. entries'[e.key] =
             [device |-> device, expires |-> Expiry(e), id |-> e.id, order |-> Order(e),
              created |-> e.created, joined |-> JoinedTs(e, device)]
      BY <2>2, ApplyHere DEF Applies
    <3> QED BY <3>1, <3>2, <3>3 DEF Applies, Entry
  <2> QED BY <2>1, <2>2
<1>4. {known, counted, withdrawn}' \subseteq SUBSET Events'
  BY <1>1 DEF TypeOK, Applies, Events
<1> QED BY <1>1, <1>2, <1>3, <1>4 DEF TypeOK

LEMMA ApplyKeepsStanding ==
    ASSUME IInv, NEW e, NEW device, Applies(e, device)
    PROVE  EntriesStand'
<1> SUFFICES ASSUME NEW k \in DOMAIN entries' PROVE \E f \in Events' : Stands(k, f)'
  BY DEF EntriesStand
<1>0. Events' = Events
  BY DEF Applies, Apply, Events
<1>1. CASE k # e.key \/ Refused(e)
  <2>1. k \in DOMAIN entries /\ entries'[k] = entries[k]
    BY <1>1, ApplyElsewhere, PurgedIs DEF Applies
  <2>2. PICK f \in Events : Stands(k, f)
    BY <2>1 DEF IInv, EntriesStand
  <2> QED BY <1>0, <2>1, <2>2 DEF Stands, Order, Expiry
<1>2. CASE k = e.key /\ ~Refused(e)
  BY <1>0, <1>2, ApplyHere DEF Applies, Stands, Order, Expiry
<1> QED BY <1>1, <1>2

LEMMA ApplyKeepsRedactions ==
    ASSUME IInv, NEW e, NEW device, Applies(e, device)
    PROVE  RedactionsLast'
<1> SUFFICES ASSUME NEW f \in withdrawn, ~(Expiry(f) <= now) PROVE Remembered(f)'
  BY DEF Applies, Apply, RedactionsLast, Order, Expiry
<1>1. f \in Events /\ Expiry(f) \in Nat /\ now \in Nat
  BY EventFacts, HourAssumption DEF IInv, TypeOK
<1>2. f.id \in DOMAIN redacted /\ redacted[f.id] >= Expiry(f) /\ redacted[f.id] \in 1 .. now + Hour
  BY DEF IInv, RedactionsLast, Remembered, TypeOK
<1>3. redacted[f.id] > now
  BY <1>1, <1>2, HourAssumption
<1> QED BY <1>2, <1>3, PurgedIs DEF Applies, Apply, Remembered, Order, Expiry

LEMMA ApplyKeepsTombstones ==
    ASSUME IInv, NEW e, NEW device, Applies(e, device)
    PROVE  RedactedAreTombstones'
<1> SUFFICES ASSUME NEW k \in DOMAIN entries', NEW f \in withdrawn, entries'[k].id = f.id
             PROVE  entries'[k].device = NoDevice
  BY DEF Applies, Apply, RedactedAreTombstones
<1>1. CASE k # e.key \/ Refused(e)
  <2>1. k \in DOMAIN entries /\ entries'[k] = entries[k]
    BY <1>1, ApplyElsewhere, PurgedIs DEF Applies
  <2> QED BY <2>1 DEF IInv, RedactedAreTombstones
<1>2. CASE k = e.key /\ ~Refused(e)
  <2>1. f.id = e.id
    BY <1>2, ApplyHere DEF Applies
  <2>2. f = e
    BY <2>1, OneEventPerId DEF Applies, IInv, TypeOK
  <2> QED BY <1>2, <2>2, RedactedIsRefused DEF IInv
<1> QED BY <1>1, <1>2

LEMMA ApplyKeepsCount ==
    ASSUME IInv, ~Encrypted, NEW e, NEW device, Applies(e, device)
    PROVE  EntriesCount'
<1> SUFFICES ASSUME NEW k \in DOMAIN entries', NEW f \in Events, Stands(k, f)'
             PROVE  f \in counted' /\ Says(k, f)'
  BY DEF EntriesCount, Applies, Apply, Events
<1>0. counted \subseteq counted' /\ withdrawn' = withdrawn
  BY DEF Applies, Apply
<1>1. CASE k # e.key \/ Refused(e)
  <2>1. k \in DOMAIN entries /\ entries'[k] = entries[k]
    BY <1>1, ApplyElsewhere, PurgedIs DEF Applies
  <2>2. Stands(k, f)
    BY <2>1 DEF Stands, Order, Expiry
  <2> QED BY <1>0, <2>1, <2>2 DEF IInv, EntriesCount, Says
<1>2. CASE k = e.key /\ ~Refused(e)
  <2>0. entries'[k].id = e.id /\ entries'[k].device = device
    BY <1>2, ApplyHere DEF Applies
  <2>1. f.id = e.id /\ entries'[k].device = device
    BY <2>0 DEF Stands
  <2>2. f = e
    BY <2>1, OneEventPerId DEF Applies, IInv
  <2>3. e \in counted' /\ e \notin withdrawn
    BY <1>2, RedactedIsRefused DEF IInv, Applies, Apply, Refused, Encrypted
  <2> QED BY <1>0, <2>1, <2>2, <2>3 DEF Says, Applies
<1> QED BY <1>1, <1>2

LEMMA ApplyKeepsLast ==
    ASSUME IInv, ~Encrypted, NEW e, NEW device, Applies(e, device)
    PROVE  LastHolds'
<1> USE DEF IInv
<1> SUFFICES ASSUME NEW f \in counted', Expiry(f) > now, Last(f)'
             PROVE  f.key \in DOMAIN entries' /\ Stands(f.key, f)'
  BY DEF LastHolds, Applies, Apply, Order, Expiry
<1>0. /\ e \in Events /\ f \in Events /\ now \in Nat
      /\ Order(e) \in Nat /\ Order(f) \in Nat /\ e.id \in Nat /\ f.id \in Nat
      /\ Expiry(e) \in Nat
  BY EventFacts, HourAssumption DEF Applies, Apply, TypeOK
<1>1. counted \subseteq counted' /\ (~Refused(e) => e \in counted')
  BY DEF Applies, Apply, Refused, Encrypted
<1>2. \A h \in counted' : h.key = f.key => h.id = f.id \/ Before(h, f)
  BY DEF Last, Before, Order
<1>3. CASE f # e
  <2>1. f \in counted /\ Last(f)
    BY <1>1, <1>2, <1>3 DEF Applies, Apply, Last
  <2>2. f.key \in DOMAIN Purged /\ Purged[f.key] = entries[f.key] /\ Stands(f.key, f)
    BY <2>1, PurgedIs DEF LastHolds, Stands
  <2>3. f.key # e.key \/ Refused(e)
    <3>1. ASSUME f.key = e.key, ~Refused(e) PROVE FALSE
      <4>1. ~Superseded(e, entries[f.key])
        BY <2>2, <3>1 DEF Refused
      <4>2. e.id = f.id \/ Before(e, f)
        BY <1>1, <1>2, <3>1
      <4> QED BY <1>0, <1>3, <2>2, <4>1, <4>2, OneEventPerId DEF Superseded, Before, Stands
    <3> QED BY <3>1
  <2>4. f.key \in DOMAIN entries' /\ entries'[f.key] = entries[f.key]
    BY <2>2, <2>3, ApplyElsewhere DEF Applies
  <2> QED BY <2>2, <2>4 DEF Stands, Order, Expiry
<1>4. CASE f = e /\ Refused(e)
  <2>1. PICK h \in Events : /\ e.key \in DOMAIN Purged /\ Purged[e.key] = entries[e.key]
                            /\ Stands(e.key, h)
                            /\ h = e \/ Superseded(e, entries[e.key])
    <3>1. CASE e.key \in DOMAIN Purged /\ Superseded(e, Purged[e.key])
      <4>1. e.key \in DOMAIN entries /\ Purged[e.key] = entries[e.key]
        BY <3>1, PurgedIs
      <4>2. PICK h \in Events : Stands(e.key, h)
        BY <4>1 DEF EntriesStand
      <4> QED BY <3>1, <4>1, <4>2
    <3>2. CASE ~(e.key \in DOMAIN Purged /\ Superseded(e, Purged[e.key]))
      <4>1. e.id \in DOMAIN PurgedRedactions
        BY <1>0, <1>4, <3>2 DEF Refused
      <4>2. e \in counted /\ Last(e)
        BY <1>1, <1>2, <1>4, <4>1 DEF Applies, Apply, Last
      <4> QED BY <1>0, <1>4, <4>2, PurgedIs DEF LastHolds, Stands
    <3> QED BY <3>1, <3>2
  <2>2. h = e
    <3>1. h \in counted /\ h.key = e.key
      BY <2>1, PurgedIs DEF EntriesCount, Stands
    <3>2. h.id = e.id \/ Before(h, e)
      BY <1>1, <1>2, <1>4, <3>1
    <3>3. h.id \in Nat /\ Order(h) \in Nat
      BY EventFacts
    <3>4. h.id = e.id
      BY <1>0, <2>1, <3>2, <3>3 DEF Superseded, Before, Stands
    <3> QED BY <1>0, <3>4, OneEventPerId
  <2>3. e.key \in DOMAIN entries' /\ entries'[e.key] = entries[e.key]
    BY <1>4, <2>1, ApplyElsewhere DEF Applies
  <2> QED BY <1>4, <2>1, <2>2, <2>3 DEF Stands, Order, Expiry
<1>5. CASE f = e /\ ~Refused(e)
  BY <1>5, ApplyHere DEF Applies, Stands, Order, Expiry
<1> QED BY <1>3, <1>4, <1>5

LEMMA ApplyKeepsIInv ==
    ASSUME IInv, NEW e, NEW device, Applies(e, device)
    PROVE  IInv'
<1>1. TypeOK'
  BY ApplyKeepsTypes DEF IInv
<1>2. Encrypted' = Encrypted
  BY DEF Applies, Apply, Encrypted
<1> QED BY <1>1, <1>2, ApplyKeepsStanding, ApplyKeepsRedactions, ApplyKeepsTombstones,
             ApplyKeepsCount, ApplyKeepsLast DEF IInv

-----------------------------------------------------------------------------
(* An event is redacted, time passes                                       *)

LEMMA RedactKeepsIInv ==
    ASSUME IInv, NEW e \in Events, Redact(e)
    PROVE  IInv'
<1> USE DEF IInv
<1>0. /\ UNCHANGED <<room, now, known, counted>> /\ withdrawn' = withdrawn \cup {e}
      /\ Events' = Events /\ Encrypted' = Encrypted
      /\ redacted' = With(PurgedRedactions, e.id, now + Hour)
      /\ DOMAIN entries' = DOMAIN entries
      /\ e.created <= now /\ now \in 0 .. MaxTime /\ now \in Nat
  BY HourAssumption DEF Redact, Events, Encrypted, KeepFor, Arrived, TypeOK
<1>e. Expiry(e) <= now + Hour /\ e.id \in Nat
  BY <1>0, EventFacts, HourAssumption
<1>1. ASSUME NEW k \in DOMAIN entries
      PROVE  /\ entries'[k] \in Entry
             /\ entries'[k].id = entries[k].id
             /\ entries'[k].order = entries[k].order
             /\ entries'[k].expires = entries[k].expires
             /\ entries'[k].device = IF entries[k].id = e.id THEN NoDevice ELSE entries[k].device
  <2>1. entries[k] \in Entry
    BY DEF TypeOK
  <2>2. entries'[k] = IF entries[k].id = e.id THEN [entries[k] EXCEPT !.device = NoDevice]
                      ELSE entries[k]
    BY DEF Redact
  <2> QED BY <2>1, <2>2 DEF Entry
<1>2. /\ DOMAIN redacted' = DOMAIN PurgedRedactions \cup {e.id}
      /\ redacted'[e.id] = now + Hour
      /\ \A i \in DOMAIN PurgedRedactions \ {e.id} : redacted'[i] = redacted[i]
  BY <1>0, PurgedIs DEF With
<1>3. TypeOK'
  <2>1. redacted' \in [DOMAIN redacted' -> 1 .. now' + Hour]
    <3>1. \A i \in DOMAIN redacted' : redacted'[i] \in 1 .. now' + Hour
      BY <1>0, <1>2, PurgedIs, HourAssumption DEF TypeOK
    <3>2. redacted' = [i \in DOMAIN redacted' |-> redacted'[i]]
      BY <1>0 DEF With
    <3> QED BY <3>1, <3>2
  <2>2. DOMAIN redacted' \subseteq {f.id : f \in Events}
    BY <1>2, PurgedIs DEF TypeOK
  <2> QED BY <1>0, <1>1, <2>1, <2>2 DEF TypeOK
<1>4. EntriesStand'
  BY <1>0, <1>1 DEF EntriesStand, Stands, Order, Expiry
<1>5. RedactionsLast'
  <2> SUFFICES ASSUME NEW f \in withdrawn \cup {e}, ~(Expiry(f) <= now)
               PROVE  f.id \in DOMAIN redacted' /\ redacted'[f.id] >= Expiry(f)
    BY <1>0 DEF RedactionsLast, Remembered, Order, Expiry
  <2>1. f \in Events /\ Expiry(f) \in Nat
    BY EventFacts DEF TypeOK
  <2>2. CASE f.id = e.id
    BY <1>2, <1>e, <2>1, <2>2, OneEventPerId
  <2>3. CASE f.id # e.id
    <3>1. f.id \in DOMAIN redacted /\ redacted[f.id] >= Expiry(f) /\ redacted[f.id] \in 1 .. now + Hour
      BY <2>3 DEF RedactionsLast, Remembered, TypeOK
    <3>2. redacted[f.id] > now
      BY <1>0, <2>1, <3>1, HourAssumption
    <3> QED BY <1>2, <2>3, <3>1, <3>2, PurgedIs
  <2> QED BY <2>2, <2>3
<1>6. RedactedAreTombstones'
  BY <1>0, <1>1 DEF RedactedAreTombstones
<1>7. ASSUME ~Encrypted PROVE EntriesCount' /\ LastHolds'
  <2>1. ASSUME NEW k \in DOMAIN entries, NEW f \in Events
        PROVE  Stands(k, f)' <=> Stands(k, f)
    BY <1>1 DEF Stands, Order, Expiry
  <2>2. EntriesCount'
    <3> SUFFICES ASSUME NEW k \in DOMAIN entries, NEW f \in Events, Stands(k, f)
                 PROVE  f \in counted /\ Says(k, f)'
      BY <1>0, <2>1 DEF EntriesCount
    <3>1. f \in counted /\ Says(k, f)
      BY <1>7 DEF EntriesCount
    <3>2. CASE f = e
      BY <1>0, <1>1, <3>1, <3>2 DEF Says, Stands
    <3>3. CASE f # e
      <4>1. f.id # e.id
        BY <3>3, OneEventPerId
      <4> QED BY <1>0, <1>1, <3>1, <3>3, <4>1 DEF Says, Stands
    <3> QED BY <3>2, <3>3
  <2>3. LastHolds'
    BY <1>0, <1>1, <1>7 DEF LastHolds, Last, Before, Stands, Order, Expiry
  <2> QED BY <2>2, <2>3
<1> QED BY <1>0, <1>3, <1>4, <1>5, <1>6, <1>7

LEMMA TickKeepsIInv ==
    ASSUME IInv, Tick
    PROVE  IInv'
<1> USE DEF IInv
<1>0. /\ now < MaxTime /\ now' = now + 1 /\ now \in Nat /\ MaxTime \in Nat
      /\ UNCHANGED <<room, entries, redacted, known, counted, withdrawn>>
      /\ Events' = Events /\ Encrypted' = Encrypted
  BY HourAssumption DEF Tick, Events, Encrypted, TypeOK
<1>1. TypeOK'
  BY <1>0, HourAssumption DEF TypeOK
<1>2. EntriesStand' /\ RedactedAreTombstones'
  BY <1>0 DEF EntriesStand, RedactedAreTombstones, Stands, Order, Expiry
<1>3. \A f \in withdrawn \cup counted : Expiry(f) \in Nat
  BY EventFacts DEF TypeOK
<1>4. RedactionsLast'
  BY <1>0, <1>3 DEF RedactionsLast, Remembered, Order, Expiry
<1>5. ASSUME ~Encrypted PROVE EntriesCount' /\ LastHolds'
  <2>1. EntriesCount'
    BY <1>0, <1>5 DEF EntriesCount, Stands, Says, Order, Expiry
  <2>2. LastHolds'
    BY <1>0, <1>3, <1>5 DEF LastHolds, Last, Before, Stands, Order, Expiry
  <2> QED BY <2>1, <2>2
<1> QED BY <1>0, <1>1, <1>2, <1>4, <1>5

-----------------------------------------------------------------------------
LEMMA PlainApplies ==
    ASSUME TypeOK, NEW e \in Events, ApplyPlain(e)
    PROVE  Applies(e, IF e.join THEN e.claim ELSE NoDevice)
BY EventFacts DEF ApplyPlain, Applies

LEMMA UntrustedApplies ==
    ASSUME NEW e \in Events, ApplyUntrusted(e)
    PROVE  Applies(e, NoDevice)
BY DEF ApplyUntrusted, Applies

LEMMA AuthenticatedApplies ==
    ASSUME TypeOK, NEW e \in Events, ApplyAuthenticated(e)
    PROVE  Applies(e, IF e.join THEN e.device ELSE NoDevice)
BY EventFacts DEF ApplyAuthenticated, Applies

LEMMA IInvStep == IInv /\ [Next]_vars => IInv'
<1> SUFFICES ASSUME IInv, [Next]_vars PROVE IInv'
  OBVIOUS
<1>1. CASE Tick
  BY <1>1, TickKeepsIInv
<1>2. ASSUME NEW e \in Events, ApplyPlain(e) PROVE IInv'
  BY <1>2, PlainApplies, ApplyKeepsIInv DEF IInv
<1>3. ASSUME NEW e \in Events, ApplyUntrusted(e) PROVE IInv'
  BY <1>3, UntrustedApplies, ApplyKeepsIInv
<1>4. ASSUME NEW e \in Events, ApplyAuthenticated(e) PROVE IInv'
  BY <1>4, AuthenticatedApplies, ApplyKeepsIInv DEF IInv
<1>5. ASSUME NEW e \in Events, Redact(e) PROVE IInv'
  BY <1>5, RedactKeepsIInv
<1>6. ASSUME NEW e \in Events, Authenticate(e) PROVE IInv'
  BY <1>6 DEF Authenticate, IInv, TypeOK, EntriesStand, RedactionsLast, Remembered, Stands,
              RedactedAreTombstones, Encrypted, Events, Order, Expiry
<1>7. CASE UNCHANGED vars
  BY <1>7 DEF vars, IInv, TypeOK, EntriesStand, RedactionsLast, Remembered, Stands,
              RedactedAreTombstones, EntriesCount, LastHolds, Last, Before,
              Says, Encrypted, Events, Order, Expiry
<1> QED BY <1>1, <1>2, <1>3, <1>4, <1>5, <1>6, <1>7 DEF Next

\* The inductive invariant holds in every reachable state, whatever is applied late,
\* again or out of order, and whenever it is redacted (StickyMemberships::apply, redact).
THEOREM Inductive == Spec => []IInv
BY Initially, IInvStep, PTL DEF Spec

\* Every variable keeps its type, for any rooms and times.
THEOREM TypeCorrect == Spec => []TypeOK
<1>1. IInv => TypeOK
  BY DEF IInv
<1> QED BY <1>1, Inductive, PTL

-----------------------------------------------------------------------------
(* The properties                                                          *)

\* A redacted event shows nobody, however late or often it is delivered again.
THEOREM RedactedIsHidden == Spec => []RedactedShowsNobody
<1>1. IInv => RedactedShowsNobody
  BY DEF IInv, RedactedShowsNobody, RedactedAreTombstones, Shown
<1> QED BY <1>1, Inductive, PTL

\* In a plain room a call shows whom an event has joined that is still sticky, and the
\* last of the events that were applied decides, whatever the order they came in and
\* however often.
THEOREM LastWriterDecides == Spec => []LastWriterShows
<1>1. IInv => LastWriterShows
  <2> SUFFICES ASSUME IInv, ~Encrypted, NEW k \in Keys
               PROVE  /\ Shown(k) => \E e \in Live(k) : /\ entries[k].id = e.id
                                                       /\ e.join /\ e \notin withdrawn
                                                       /\ entries[k].device = e.claim
                      /\ \A e \in Live(k) : Last(e) =>
                           IF e.join /\ e \notin withdrawn
                           THEN Shown(k) /\ entries[k].device = e.claim
                           ELSE ~Shown(k)
    BY DEF LastWriterShows
  <2> USE DEF IInv
  <2>1. ASSUME Shown(k)
        PROVE  \E e \in Live(k) : /\ entries[k].id = e.id
                                  /\ e.join /\ e \notin withdrawn
                                  /\ entries[k].device = e.claim
    <3>1. PICK e \in Events : Stands(k, e)
      BY <2>1 DEF Shown, EntriesStand
    <3>2. e \in Live(k) /\ Says(k, e) /\ entries[k].id = e.id
      BY <2>1, <3>1 DEF Shown, EntriesCount, Stands, Live
    <3> QED BY <2>1, <3>2 DEF Shown, Says
  <2>2. ASSUME NEW e \in Live(k), Last(e)
        PROVE  IF e.join /\ e \notin withdrawn
               THEN Shown(k) /\ entries[k].device = e.claim
               ELSE ~Shown(k)
    <3>1. e \in counted /\ e \in Events /\ e.key = k /\ Expiry(e) > now
      BY DEF Live, TypeOK
    <3>2. k \in DOMAIN entries /\ Stands(k, e)
      BY <2>2, <3>1 DEF LastHolds
    <3>3. Says(k, e) /\ e.claim # NoDevice
      BY <3>1, <3>2, EventFacts, DeviceAssumption DEF EntriesCount
    <3> QED BY <3>1, <3>2, <3>3 DEF Says, Shown, Stands
  <2> QED BY <2>1, <2>2
<1> QED BY <1>1, Inductive, PTL

\* In an encrypted room a member goes on the word of its own device, by a redaction,
\* or with time.
THEOREM OwnDeviceSpeaks == Spec => GoneByItsDevice
<1> DEFINE Gone(k) ==
      (Encrypted /\ Shown(k) /\ ~Shown(k)' /\ now' = now /\ withdrawn' = withdrawn)
         => \E e \in known : /\ e.id = entries'[k].id
                             /\ e.device = entries[k].device
                             /\ ~e.join
<1>1. ASSUME IInv, [Next]_vars, NEW k \in Keys PROVE Gone(k)
  <2> USE <1>1 DEF IInv
  <2> SUFFICES ASSUME Encrypted, Shown(k), ~Shown(k)', now' = now, withdrawn' = withdrawn
               PROVE  \E e \in known : /\ e.id = entries'[k].id
                                       /\ e.device = entries[k].device
                                       /\ ~e.join
    OBVIOUS
  <2>0. k \in DOMAIN Purged /\ k \in DOMAIN entries /\ HeldByDevice(k) /\ entries' # entries
    BY PurgedIs DEF Shown, HeldByDevice
  <2>1. ASSUME NEW e, NEW device, Apply(e, device) PROVE k = e.key /\ ~Refused(e)
    <3>1. CASE k # e.key \/ Refused(e)
      BY <2>0, <2>1, <3>1, ApplyElsewhere DEF Shown
    <3> QED BY <3>1
  <2>2. ASSUME NEW e \in Events, ApplyUntrusted(e) PROVE FALSE
    BY <2>0, <2>1, <2>2 DEF ApplyUntrusted
  <2>3. ASSUME NEW e \in Events, ApplyAuthenticated(e)
        PROVE  e \in known /\ e.id = entries'[k].id /\ e.device = entries[k].device /\ ~e.join
    <3>1. /\ e \in known /\ ~HeldByOther(e)
          /\ Apply(e, IF e.join THEN e.device ELSE NoDevice)
      BY <2>3 DEF ApplyAuthenticated
    <3>2. k = e.key /\ ~Refused(e)
      BY <2>1, <3>1
    <3>3. /\ k \in DOMAIN entries' /\ entries'[k].id = e.id /\ entries'[k].expires = Expiry(e)
          /\ entries'[k].device = IF e.join THEN e.device ELSE NoDevice
      BY <3>1, <3>2, ApplyHere
    <3>4. Expiry(e) > now /\ e.device # NoDevice
      BY <3>2, EventFacts, DeviceAssumption, HourAssumption DEF Refused, TypeOK
    <3>5. ~e.join
      BY <3>3, <3>4 DEF Shown
    <3> QED BY <2>0, <3>1, <3>2, <3>3, <3>5 DEF HeldByOther
  <2>4. ASSUME NEW e \in Events, Redact(e) PROVE FALSE
    <3>1. e \in withdrawn
      BY <2>4 DEF Redact
    <3>2. entries[k].id # e.id
      BY <3>1 DEF RedactedAreTombstones, Shown
    <3> QED BY <2>0, <2>4, <3>2 DEF Redact, Shown
  <2>5. ASSUME NEW e \in Events, ApplyPlain(e) PROVE FALSE
    BY <2>5 DEF ApplyPlain
  <2> QED BY <2>0, <2>2, <2>3, <2>4, <2>5 DEF Next, vars, Tick, Authenticate
<1>2. IInv /\ [Next]_vars => [\A k \in Keys : Gone(k)]_vars
  BY <1>1
<1> QED BY <1>2, Inductive, PTL DEF Spec, GoneByItsDevice
===============================================================================

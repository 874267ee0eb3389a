------------------------------ MODULE CallKeys ------------------------------
(***************************************************************************)
(* The sending half of call media encryption: KeyDistributor::roll with    *)
(* plan_rollout (crates/sable-core/src/calls/keys.rs), and the publish      *)
(* step of the update loop that calls it and puts a new key in use          *)
(* (calls/runtime.rs, publish_update and run).                              *)
(*                                                                         *)
(* A peer device is in the call under a generation (CallMember's           *)
(* same_generation): leaving and joining again gives another generation.   *)
(* The own device is left out: send always counts it as reached, so it     *)
(* never causes a rotation.                                                *)
(*                                                                         *)
(* Time is counted in ticks.  Every age the code compares with a limit is  *)
(* a counter that stops at the largest limit it is compared with, so the   *)
(* state space is finite without a bound on the length of a call.  A key's *)
(* material is identified with its index: giving a new key an index drops  *)
(* whatever was held under it.                                             *)
(***************************************************************************)
EXTENDS Integers, FiniteSets

CONSTANTS
    Peer,        \* devices of the other members
    Gen,         \* generations a device can be in the call under
    IndexMod,    \* number of key indices; 256 in the code (u8)
    UseDelay,    \* USE_KEY_DELAY_MS
    Grace,       \* ROTATION_GRACE_MS
    Reshare,     \* RESHARE_INTERVAL_MS
    MaxAge,      \* KEY_ROTATION_INTERVAL_MS
    Interval,    \* UPDATE_INTERVAL of the update loop
    MaxBusy,     \* bound on the ticks one turn of the loop may take
    LostAck      \* whether a send that fails may still have delivered

ASSUME ConstantsAssumption ==
    /\ Gen \subseteq Nat \ {0}
    /\ IndexMod \in Nat /\ IndexMod > 2      \* one key in use, two announced
    /\ UseDelay \in Nat /\ UseDelay > 0
    /\ Grace \in Nat /\ UseDelay <= Grace
    /\ MaxAge \in Nat /\ Grace <= MaxAge
    /\ Reshare \in Nat /\ Reshare > 0
    /\ Interval \in Nat /\ Interval > 0
    /\ MaxBusy \in Nat
    /\ LostAck \in BOOLEAN

Out == 0            \* the generation of a device that is not in the call
NoKey == -1
Index == 0 .. IndexMod - 1
Member == Peer \X Gen

VARIABLES
    roster,     \* the room: generation each peer device is in the call under
    members,    \* State.members as roll is given them: the peers verified last
    pc,         \* where the update loop is: waiting, refreshed, sending
    send,       \* the roll in flight: its kind, its targets, its deferral
    keyed,      \* outbound.is_some()
    index,      \* outbound.index
    age,        \* now - outbound.created_ts, up to MaxAge
    quiet,      \* now - last_sent_ms, up to Reshare
    shared,     \* outbound.shared_with
    failed,     \* outbound.failed
    pending,    \* own keys announced but not yet in use: index, ticks left
    limit,      \* ticks the loop may still wait
    busy,       \* ticks this turn of the loop has taken
    inUse,      \* the index the own media is encrypted with
    down,       \* peers whose device cannot be reached
    outage,     \* whether sending fails altogether
    holders,    \* history: the members each index's key was delivered to, until
                \* the key after it is used
    joinAge,    \* history: age of the current key when the peer joined
    away        \* history: ticks since the peer left, 0 while it is in the call

loop == <<pc, send, limit, busy>>
outbound == <<keyed, index, age, quiet, shared, failed>>
own == <<pending, inUse>>
world == <<roster, down, outage>>
history == <<holders, joinAge, away>>
vars == <<roster, members, pc, send, keyed, index, age, quiet, shared, failed,
          pending, limit, busy, inUse, down, outage, holders, joinAge,
          away>>

Least(a, b) == IF a < b THEN a ELSE b
Most(a, b) == IF a < b THEN b ELSE a

\* Longest a peer that has left may be without a rotation for it: the turn of
\* the loop that was under way, the wait to the next or, with a turn of its own,
\* the deferral, and the turn that rotates.
LeaveBound == 2 * MaxBusy + Most(Interval, MaxBusy + UseDelay)

NoSend == [kind |-> "none", targets |-> {}, wait |-> 0]
Send == [kind : {"none", "share", "rotate"},
         targets : SUBSET Member, wait : 0 .. UseDelay]

-----------------------------------------------------------------------------
(* Operators of keys.rs. *)

NextIndexUnwrapped(i) == i + 1                          \* mutant
\* u8::wrapping_add(1)
NextIndex(i) == IF i = IndexMod - 1 THEN 0 ELSE i + 1

Rejoined(s, M) == \E m \in M : m[1] = s[1] /\ m # s
StillValid(M) == {s \in shared : ~Rejoined(s, M)}
NobodyLeft(M) == FALSE                                  \* mutant
AnyoneLeft(M) == \E s \in StillValid(M) : s \notin M
Unshared(M) == M \ shared
Retry(M) == (M \ StillValid(M)) \cap failed
Fresh(M) == (M \ StillValid(M)) \ failed
NeverTooOld == FALSE                                    \* mutant
TooOld == age >= MaxAge
GraceNeverOver == FALSE                                 \* mutant
GraceOver == age >= Grace

\* plan_rollout, as the set of targets and whether the key is replaced.
Plan(M) ==
    IF ~keyed \/ AnyoneLeft(M) \/ TooOld \/ (Fresh(M) # {} /\ GraceOver)
    THEN [rotate |-> TRUE, targets |-> M]
    ELSE [rotate |-> FALSE, targets |-> Fresh(M) \cup Retry(M)]

NoRotationWait == 0                                     \* mutant
\* rotation_wait_ms: how long a rotation has to wait for the key before it.
RotationWait == IF keyed /\ age < UseDelay THEN UseDelay - age ELSE 0

UnreachedForgotten(targets, reached) == {}               \* mutant
Unreached(targets, reached) == targets \ reached

-----------------------------------------------------------------------------
Init ==
    /\ roster = [p \in Peer |-> Out]
    /\ members = {}
    /\ pc = "wait"
    /\ send = NoSend
    /\ keyed = FALSE
    /\ index = 0
    /\ age = 0
    /\ quiet = 0
    /\ shared = {}
    /\ failed = {}
    /\ pending = {}
    /\ limit = 0
    /\ busy = 0
    /\ inUse = NoKey
    /\ down = {}
    /\ outage = FALSE
    /\ holders = [i \in Index |-> {}]
    /\ joinAge = [p \in Peer |-> 0]
    /\ away = [p \in Peer |-> 0]

-----------------------------------------------------------------------------
(* The room and the network, outside this device's control. *)

\* A generation no live reference names, as a new created_ts or member id is.
Unused(p, g) ==
    /\ <<p, g>> \notin members \cup send.targets \cup shared \cup failed
    /\ \A i \in Index : <<p, g>> \notin holders[i]

Join(p, g) ==
    /\ roster[p] = Out
    /\ Unused(p, g)
    /\ roster' = [roster EXCEPT ![p] = g]
    /\ joinAge' = [joinAge EXCEPT ![p] = age]
    /\ away' = [away EXCEPT ![p] = 0]
    /\ UNCHANGED <<members, loop, outbound, own, down, outage, holders>>

Leave(p) ==
    /\ roster[p] # Out
    /\ roster' = [roster EXCEPT ![p] = Out]
    /\ joinAge' = [joinAge EXCEPT ![p] = 0]
    /\ UNCHANGED <<members, loop, outbound, own, down, outage, holders, away>>

Disconnect(p) ==
    /\ down' = IF p \in down THEN down \ {p} ELSE down \cup {p}
    /\ UNCHANGED <<roster, members, loop, outbound, own, outage, history>>

Outage ==
    /\ outage' = ~outage
    /\ UNCHANGED <<roster, members, loop, outbound, own, down, history>>

-----------------------------------------------------------------------------
(* The update loop. *)

VerifiedBefore == {m \in shared : roster[m[1]] = m[2]}   \* mutant
\* verified_members: the peers the room says are in the call.
Verified == {m \in Member : roster[m[1]] = m[2]}

\* refresh: the room's members become State.members.  The loop gets here when
\* its wait ends or any time earlier that a membership change wakes it.
Refresh ==
    /\ pc = "wait"
    /\ pc' = "refreshed"
    /\ members' = Verified
    /\ busy' = 0
    /\ UNCHANGED <<send, limit, outbound, own, world, history>>

\* What publish_update does once roll has returned: the loop waits its interval
\* or, after a deferral, only as long as the rotation has to.
EndTurn(wait) ==
    /\ pc' = "wait"
    /\ send' = NoSend
    /\ limit' = IF wait = 0 THEN Interval ELSE Least(Interval, wait)
    /\ UNCHANGED busy

StartSend(kind, targets, wait) ==
    /\ pc' = "sending"
    /\ send' = [kind |-> kind, targets |-> targets, wait |-> wait]
    /\ UNCHANGED <<limit, busy>>

\* share_current returns at once when it has nobody to send to.
ShareWith(targets, wait) ==
    IF targets = {} THEN EndTurn(wait) ELSE StartSend("share", targets, wait)

\* roll up to its send: the decision is made on the members of the last refresh.
Roll ==
    /\ pc = "refreshed"
    /\ LET plan == Plan(members) IN
         \/ /\ ~plan.rotate /\ plan.targets = {}            \* Unchanged
            /\ IF quiet >= Reshare
               THEN ShareWith(members, 0)
               ELSE EndTurn(0)
         \/ /\ ~plan.rotate /\ plan.targets # {}            \* Share
            /\ ShareWith(plan.targets, 0)
         \/ /\ plan.rotate /\ RotationWait > 0              \* Deferred
            /\ ShareWith(Unshared(plan.targets), RotationWait)
         \/ /\ plan.rotate /\ RotationWait = 0              \* Rotate
            /\ StartSend("rotate", plan.targets, 0)
    /\ members' = {}
    /\ UNCHANGED <<outbound, own, world, history>>

\* What a send reports as reached, and what was delivered.
Outcome(targets) ==
    IF outage
    THEN {[reached |-> {}, delivered |-> d] :
             d \in IF LostAck THEN SUBSET targets ELSE {{}}}
    ELSE LET r == {t \in targets : t[1] \notin down}
         IN  {[reached |-> r, delivered |-> r]}

\* share_current after its send.
FinishShare ==
    /\ pc = "sending" /\ send.kind = "share"
    /\ \E o \in Outcome(send.targets) :
         /\ quiet' = 0
         /\ failed' = (failed \ send.targets) \cup Unreached(send.targets, o.reached)
         /\ shared' = shared \cup o.reached
         /\ holders' = [holders EXCEPT ![index] = @ \cup o.delivered]
    /\ EndTurn(send.wait)
    /\ UNCHANGED <<members, keyed, index, age, own, world, joinAge, away>>

\* The task publish_update spawns for a key that is not the first.
Announced(next) == pending \cup {[index |-> next, left |-> UseDelay]}

\* roll after the send of a new key, and publish_update's announcement of it:
\* the first key is used at once, a later one after UseDelay.
FinishRotate ==
    /\ pc = "sending" /\ send.kind = "rotate"
    /\ LET next == IF keyed THEN NextIndex(index) ELSE 0 IN
         /\ \E o \in Outcome(send.targets) :
              /\ failed' = Unreached(send.targets, o.reached)
              /\ shared' = o.reached
              /\ holders' = [holders EXCEPT ![next] = o.delivered]
         /\ index' = next
         /\ IF keyed
            THEN /\ pending' = Announced(next)
                 /\ UNCHANGED inUse
            ELSE /\ inUse' = next
                 /\ UNCHANGED pending
    /\ keyed' = TRUE
    /\ age' = 0
    /\ quiet' = 0
    /\ joinAge' = [p \in Peer |-> 0]
    /\ EndTurn(0)
    /\ UNCHANGED <<members, world, away>>

\* The task publish_update spawned has slept: the key is put in use.
Use(k) ==
    /\ k \in pending /\ k.left = 0
    /\ inUse' = k.index
    /\ pending' = pending \ {k}
    /\ holders' = [holders EXCEPT ![inUse] = {}]
    /\ UNCHANGED <<members, loop, outbound, world, joinAge, away>>

\* Timers are punctual: a tick passes only when no sleep has run out.
Tick ==
    /\ \A k \in pending : k.left > 0
    /\ IF pc = "wait"
       THEN limit > 0 /\ limit' = limit - 1 /\ UNCHANGED busy
       ELSE busy < MaxBusy /\ busy' = busy + 1 /\ UNCHANGED limit
    /\ pending' = {[index |-> k.index, left |-> k.left - 1] : k \in pending}
    /\ age' = IF keyed THEN Least(MaxAge, age + 1) ELSE age
    /\ quiet' = Least(Reshare, quiet + 1)
    /\ away' = [p \in Peer |->
                  IF roster[p] = Out THEN Least(LeaveBound + 1, away[p] + 1) ELSE 0]
    /\ UNCHANGED <<members, pc, send, keyed, index, shared, failed, inUse,
                   world, holders, joinAge>>

Loop == Refresh \/ Roll \/ FinishShare \/ FinishRotate
UseKey == \E k \in pending : Use(k)

Next ==
    \/ \E p \in Peer, g \in Gen : Join(p, g)
    \/ \E p \in Peer : Leave(p)
    \/ \E p \in Peer : Disconnect(p)
    \/ Outage
    \/ Refresh
    \/ Roll
    \/ FinishShare
    \/ FinishRotate
    \/ \E k \in pending : Use(k)
    \/ Tick

Spec == Init /\ [][Next]_vars

\* The loop's task and the sleeping tasks are polled; time passes however often
\* the loop is woken early.
Fairness == WF_vars(Loop) /\ WF_vars(UseKey) /\ SF_vars(Tick)
LiveSpec == Spec /\ Fairness

-----------------------------------------------------------------------------
(* Properties. *)

\* Every variable has its type.
TypeOK ==
    /\ roster \in [Peer -> Gen \cup {Out}]
    /\ members \in SUBSET Member
    /\ pc \in {"wait", "refreshed", "sending"}
    /\ send \in Send
    /\ keyed \in BOOLEAN
    /\ index \in Index
    /\ age \in 0 .. MaxAge
    /\ quiet \in 0 .. Reshare
    /\ shared \in SUBSET Member
    /\ failed \in SUBSET Member
    /\ pending \in SUBSET [index : Index, left : 0 .. UseDelay]
    /\ limit \in 0 .. Interval
    /\ busy \in 0 .. MaxBusy
    /\ inUse \in Index \cup {NoKey}
    /\ down \in SUBSET Peer
    /\ outage \in BOOLEAN
    /\ holders \in [Index -> SUBSET Member]
    /\ joinAge \in [Peer -> 0 .. MaxAge]
    /\ away \in [Peer -> 0 .. LeaveBound + 1]

\* Whoever was given the current key is on the distributor's books, as reached
\* or as failed, whatever the loop read before a send and whatever the send
\* reported after it.
HoldersOnTheBooks == keyed => holders[index] \subseteq shared \cup failed

\* When a failed send has delivered nothing the books are exact: plan_rollout
\* sees every leaver that holds the key and no member is thought to have it
\* that does not.
BooksAreExact == ~LostAck /\ keyed => holders[index] = shared

\* A member is given the current key only if the key was younger than the grace
\* period when it joined, so what was said before that stays closed to it.
JoinersGetNoOldKey ==
    \A p \in Peer : keyed /\ <<p, roster[p]>> \in holders[index] => joinAge[p] < Grace

\* At most two announced keys wait to be used, and when two do the older one is
\* due: the 5 s deferral of a rotation covers the 5 s delay of the one before.
KeysDoNotPileUp ==
    \A k, l \in pending : k # l => k.left = 0 \/ l.left = 0

\* Own keys are put in use in the order they were announced and none is skipped.
KeysUsedInOrder ==
    [][inUse' # inUse => inUse' = IF inUse = NoKey THEN 0 ELSE NextIndex(inUse)]_vars

\* Once a peer is away for LeaveBound ticks a key replaces the one it has: when
\* no later key waits to be used, the peer holds the key in use only if its send
\* was booked as failed.
BookedLeaverLosesKey ==
    \A p \in Peer : away[p] > LeaveBound /\ inUse = index /\ keyed =>
        \A g \in Gen : <<p, g>> \in holders[inUse] => <<p, g>> \in failed

\* A peer that stays in the call and can be reached ends up with the key in use.
MemberGetsKey ==
    \A p \in Peer :
        <>[](roster[p] # Out /\ p \notin down /\ ~outage)
            => <>[](inUse # NoKey /\ <<p, roster[p]>> \in holders[inUse])

\* A peer that stays away ends up without the key in use, even when an answer to
\* a send was lost: the hourly rotation catches what the books miss.
LeaverEventuallyLosesKey ==
    \A p \in Peer :
        <>[](roster[p] = Out)
            => <>[](inUse # NoKey => \A g \in Gen : <<p, g>> \notin holders[inUse])

=============================================================================

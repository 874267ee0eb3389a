--------------------------- MODULE CallKeyReceive ---------------------------
(***************************************************************************)
(* The receiving side of the call media keys (receive_call_key and         *)
(* emit_pending of calls/runtime.rs).                                      *)
(*                                                                         *)
(* Peers make keys, number them with a few indices and send them to the    *)
(* device; a peer may leave and join again, and then starts over with the  *)
(* first index.  Keys arrive in any order, before or after the membership  *)
(* that says whose they are: a key waits in pending_keys until a refresh   *)
(* of the roster resolves it.  latest_keys decides which key the UI gets.  *)
(*                                                                         *)
(* Every send bears a later sent_ts than the ones before it: the clock of  *)
(* a sending device does not go back.  A refresh that does not find the    *)
(* own membership returns before it looks at the keys and is left out.     *)
(* Names are kept apart from those of CallKeys, the sending side.          *)
(***************************************************************************)
EXTENDS Naturals, Sequences

CONSTANTS
    Sender,       \* the other members of the call
    Modes,        \* the modes a call may be in: whether it is a legacy one
    Indices,      \* number of key indices (256)
    Capacity,     \* length of pending_keys (256)
    MaxGen,       \* bound on the memberships of a peer
    MaxSends,     \* bound on the keys sent
    Focused       \* the memberships, <<peer, number>>, that name a focus

ASSUME ReceiverModes == Modes \subseteq BOOLEAN
ASSUME ReceiverBounds ==
    {Indices, Capacity, MaxGen, MaxSends} \subseteq Nat \ {0}
ASSUME ReceiverFoci == Focused \subseteq Sender \X (1 .. MaxGen)

VARIABLES
    legacy,       \* whether a peer keeps its identity when it joins again; fixed
    gen,          \* the number of the peer's last membership, 0 before the first
    inCall,       \* whether the peer is in the call
    made,         \* the keys the peer made under its last membership
    sent,         \* the sends so far, their time
    wire,         \* key events on their way
    shown,        \* State.members: the membership the roster shows, 0 for none
    pendingKeys,  \* State.pending_keys
    latest,       \* State.latest_keys
    installed,    \* the keys the UI was given: CallEncryptionKey
    dropped       \* history: keys dropped from a full pending_keys

receiverVars ==
    <<legacy, gen, inCall, made, sent, wire, shown, pendingKeys, latest, installed, dropped>>
senders == <<gen, inCall, made, sent>>
keyState == <<pendingKeys, latest, installed>>

KeyOf == [peer : Sender, gen : 1 .. MaxGen, number : 0 .. MaxSends]
KeyEvent == [key : KeyOf, ts : 1 .. MaxSends]

\* (identity, index): a peer of the sticky mode has a new identity with every
\* membership.
Slot(k) == <<k.peer, IF legacy THEN 0 ELSE k.gen, k.number % Indices>>
Slots == Sender \X (0 .. MaxGen) \X (0 .. Indices - 1)

ReceiverTypeOK ==
    /\ legacy \in Modes
    /\ gen \in [Sender -> 0 .. MaxGen]
    /\ inCall \in [Sender -> BOOLEAN]
    /\ made \in [Sender -> 0 .. MaxSends]
    /\ sent \in 0 .. MaxSends
    /\ wire \subseteq KeyEvent
    /\ shown \in [Sender -> 0 .. MaxGen]
    /\ pendingKeys \in Seq(KeyEvent) /\ Len(pendingKeys) <= Capacity
    /\ DOMAIN latest \subseteq Slots
    /\ \A s \in DOMAIN latest : latest[s] \in KeyEvent
    /\ DOMAIN installed = DOMAIN latest
    /\ \A s \in DOMAIN installed : installed[s] \in KeyOf
    /\ dropped \subseteq KeyOf

ReceiverInit ==
    /\ legacy \in Modes
    /\ gen = [p \in Sender |-> 0]
    /\ inCall = [p \in Sender |-> FALSE]
    /\ made = [p \in Sender |-> 0]
    /\ sent = 0
    /\ wire = {}
    /\ shown = [p \in Sender |-> 0]
    /\ pendingKeys = <<>>
    /\ latest = [s \in {} |-> 0]
    /\ installed = [s \in {} |-> 0]
    /\ dropped = {}

-----------------------------------------------------------------------------
(* The peers                                                               *)

JoinAs(p) ==
    /\ ~inCall[p]
    /\ gen[p] < MaxGen
    /\ gen' = [gen EXCEPT ![p] = @ + 1]
    /\ inCall' = [inCall EXCEPT ![p] = TRUE]
    /\ made' = [made EXCEPT ![p] = 0]
    /\ UNCHANGED <<legacy, sent, wire, shown, keyState, dropped>>

LeaveAs(p) ==
    /\ inCall[p]
    /\ inCall' = [inCall EXCEPT ![p] = FALSE]
    /\ UNCHANGED <<legacy, gen, made, sent, wire, shown, keyState, dropped>>

KeyNumber(p, n) == [peer |-> p, gen |-> gen[p], number |-> n]
Current(p) == KeyNumber(p, made[p] - 1)

SendKey(k) ==
    /\ sent < MaxSends
    /\ sent' = sent + 1
    /\ wire' = wire \cup {[key |-> k, ts |-> sent']}
    /\ UNCHANGED <<legacy, gen, inCall, shown, keyState, dropped>>

\* A new key under the next index, or the current one for who lacks it.
SendNew(p) ==
    /\ inCall[p]
    /\ made' = [made EXCEPT ![p] = @ + 1]
    /\ SendKey(KeyNumber(p, made[p]))

SendAgain(p) ==
    /\ inCall[p]
    /\ made[p] > 0
    /\ UNCHANGED made
    /\ SendKey(Current(p))

-----------------------------------------------------------------------------
(* The device                                                              *)

\* member_service: a member is heard over the focus it names, in the legacy mode
\* over the one the oldest member names, and the device itself names one.
HasService(p, g) == legacy \/ <<p, g>> \in Focused

\* emit_pending: whether the roster has the member a key was sent by, and a
\* focus for it.  The legacy mode tells by the device alone, the sticky mode by
\* its membership.
Resolved(e, roster) ==
    /\ roster[e.key.peer] # 0
    /\ ~legacy => roster[e.key.peer] = e.key.gen
    /\ HasService(e.key.peer, roster[e.key.peer])

\* An older key never replaces a newer one of its slot ...
NothingIsOld(e, lat) == FALSE
NumberIsOld(e, lat) ==
    Slot(e.key) \in DOMAIN lat /\ lat[Slot(e.key)].key.number > e.key.number
OutOfOrder(e, lat) == Slot(e.key) \in DOMAIN lat /\ lat[Slot(e.key)].ts > e.ts

\* ... and the same key is not given to the UI again, but counts as sent anew.
With(f, slot, e) == [s \in DOMAIN f \cup {slot} |-> IF s = slot THEN e ELSE f[s]]

Take(s, e) ==
    LET slot == Slot(e.key)
        repeated == slot \in DOMAIN s.latest /\ s.latest[slot].key = e.key
    IN IF OutOfOrder(e, s.latest) THEN s
       ELSE [s EXCEPT !.latest = With(@, slot, e),
                      !.installed = IF repeated THEN @ ELSE With(@, slot, e.key)]

\* A key of nobody the roster has waits on.
Look(s, e, roster) ==
    IF Resolved(e, roster) THEN Take(s, e) ELSE [s EXCEPT !.pending = Append(@, e)]

\* The waiting keys are looked at one after the other.
Looked(queue, roster) ==
    LET looked[i \in 0 .. Len(queue)] ==
            IF i = 0 THEN [pending |-> <<>>, latest |-> latest, installed |-> installed]
            ELSE Look(looked[i - 1], queue[i], roster)
    IN looked[Len(queue)]

EmitPending(queue, roster) ==
    LET after == Looked(queue, roster)
    IN  /\ pendingKeys' = after.pending
        /\ latest' = after.latest
        /\ installed' = after.installed

\* refresh: the roster is read anew, what waited is looked at again.
RosterOnly ==
    /\ shown' = [p \in Sender |-> IF inCall[p] THEN gen[p] ELSE 0]
    /\ UNCHANGED <<legacy, senders, wire, keyState, dropped>>
RefreshRoster ==
    /\ shown' = [p \in Sender |-> IF inCall[p] THEN gen[p] ELSE 0]
    /\ EmitPending(pendingKeys, shown')
    /\ UNCHANGED <<legacy, senders, wire, dropped>>

\* receive_call_key: a full queue loses its oldest key first.
Full == Len(pendingKeys) >= Capacity

Receive(e) ==
    /\ wire' = wire \ {e}
    /\ EmitPending(Append(IF Full THEN Tail(pendingKeys) ELSE pendingKeys, e), shown)
    /\ dropped' = IF Full THEN dropped \cup {Head(pendingKeys).key} ELSE dropped
    /\ UNCHANGED <<legacy, senders, shown>>

ReceiverNext ==
    \/ \E p \in Sender : JoinAs(p) \/ LeaveAs(p) \/ SendNew(p) \/ SendAgain(p)
    \/ RefreshRoster
    \/ \E e \in wire : Receive(e)

ReceiverSpec == ReceiverInit /\ [][ReceiverNext]_receiverVars

\* The runtime is woken by every change of the memberships, and polls; the
\* server delivers what was sent.
ReceiverFairness ==
    /\ WF_receiverVars(RefreshRoster)
    /\ WF_receiverVars(\E e \in wire : Receive(e))

ReceiverLiveSpec == ReceiverSpec /\ ReceiverFairness

-----------------------------------------------------------------------------
(* Properties                                                              *)

Older(k, l) == k.gen < l.gen \/ (k.gen = l.gen /\ k.number < l.number)

\* Whatever order keys arrive and resolve in, the UI never falls back from a
\* key of a peer to one the peer made earlier for the same slot: a member that
\* changed its key is not made inaudible by the one it gave up.
NeverBackwards ==
    [][\A s \in DOMAIN installed : ~Older(installed'[s], installed[s])]_receiverVars

\* A member whose membership is shown, with a focus, and whose current key has
\* arrived can be heard, whichever of the two came first, unless the key was dropped for want
\* of room: no key stays behind in pending_keys, and none is taken for old.
Heard(p) ==
    /\ Slot(Current(p)) \in DOMAIN installed
    /\ installed[Slot(Current(p))] = Current(p)

ShownIsHeard ==
    \A p \in Sender :
        (/\ inCall[p] /\ made[p] > 0
         /\ shown[p] = gen[p] /\ HasService(p, gen[p])
         /\ Current(p) \notin {e.key : e \in wire} \cup dropped) => Heard(p)

\* A member that stays, and names a focus, is heard in the end.
StayerIsHeard ==
    \A p \in Sender :
        <>[](/\ inCall[p] /\ made[p] > 0 /\ HasService(p, gen[p])
              /\ Current(p) \notin dropped) => <>[]Heard(p)
=============================================================================

----------------------------- MODULE SearchPeers -----------------------------
(* The search index of one device is copied from another device of the same *)
(* account (search/sharing/peer.rs, peer/transfer.rs, rtc.rs). This module   *)
(* models one Core in both roles. As the requester it asks the other devices *)
(* (a query), ranks those that answer, and requests them one by one, each    *)
(* under a session of its own, until a copy completes. As the provider it    *)
(* serves the requests of others. The page that shows the app holds the      *)
(* WebRTC connections (src/lib/search/search-peer.ts) and is modelled by the *)
(* calls it makes; so are the other devices, by the messages they send.      *)
(*                                                                           *)
(* A session id is a number, in the order of the picks; a query id likewise. *)
(* The waits of 10 s (answers), 30 s (connection) and 60 s (idle connection, *)
(* next start) may end at any time; the one of 120 s ends only for a session *)
(* nobody uses. What a candidate offers, (documents, complete_rooms), is a   *)
(* number, its rank, zero for no documents. Left out: sign out, which resets *)
(* all of this, and a failing random number generator.                       *)
EXTENDS Naturals, Sequences, FiniteSetsExt, Functions

CONSTANTS Devices,     \* the other verified devices of the account
          Modes,       \* the kinds of behaviours, see Mode
          MaxServing   \* MAX_SERVING
ASSUME LimitAssumption == MaxServing \in Nat

Calls == {"start", "find"}

\* devices: those that exist; queries, requests: how often this device asks, and
\* each other one asks it; calls: what makes this one ask; ranks: what candidates
\* offer; halting: whether sharing is ever switched off or suspended; losing:
\* whether the page may vanish, once (a crash, a reload), while another page of
\* the account keeps the Core running.
Mode == [devices : SUBSET Devices, queries : Nat, requests : Nat, calls : SUBSET Calls,
         ranks : SUBSET Nat, halting : BOOLEAN, losing : BOOLEAN]
ASSUME ModesAssumption == Modes \subseteq Mode

None == 0                                        \* an Option without a value
Tick == 0                                        \* the owner of the calls of tick_search_peers
Status == {"waiting", "trying", "failed", "done"}
Outcome == {"none", "failed", "no_devices", "no_answer", "nothing_to_copy",
            "interrupted", "completed"}

VARIABLES
    mode,        \* the kind of this behaviour; it never changes
    allowed,     \* peers_allowed: switched on, online, unmetered, in the foreground
    available,   \* SearchSharing.available
    wanted,      \* Received.wanted_since
    cancelling,  \* what a call of cancel_search_peers has yet to cancel
    entering,    \* start and find calls past their check of peers_allowed
    phase,       \* Catchup.phase
    query,       \* Catchup.query
    asked,       \* Catchup.asked
    candidates,  \* Catchup.candidates; session: the one it was tried under
    current,     \* Catchup.current, the index of a candidate
    outcome,     \* Catchup.outcome
    copied,      \* whether Catchup.rooms > 0
    asking,      \* discover_search_peers calls that wait for the network
    told,        \* <<query, device>>: devices that have a query to answer
    opened,      \* how many sessions were picked so far
    slots,       \* SearchSharing.slots with the role Requester
    rtc,         \* RtcSessions of these
    loops,       \* next_search_peer calls under way
    ui,          \* sessions the page holds a connection for
    lost,        \* whether the page has vanished once
    exchange,    \* where the exchange_search_peer call of a session stands
    serving,     \* SearchSharing.slots with the role Provider: <<device, n>>
    received     \* Request messages not handled yet: <<device, n>>

catchup == <<phase, query, asked, candidates, current, outcome, copied>>
peers   == <<opened, slots, rtc>>
others  == <<serving, received>>
policy  == <<allowed, available, wanted, cancelling>>
page    == <<ui, lost>>
vars == <<mode, policy, entering, catchup, asking, told, peers, loops, page,
          exchange, others>>

Queries == 1 .. mode.queries
Sessions == 1 .. opened
Requests == mode.devices \X (1 .. mode.requests)

Idle == [kind |-> "idle", session |-> None]
Discovering == [kind |-> "discovering", session |-> None]
Connecting(s) == [kind |-> "connecting", session |-> s]
Transferring(s) == [kind |-> "transferring", session |-> s]

\* A next_search_peer call: about to advance past the session that failed, to
\* open the session it picked, or waiting for the answer to its request.
Loop(owner, at, session) == [owner |-> owner, at |-> at, session |-> session]

TypeOK ==
    /\ mode \in Modes
    /\ {allowed, available, wanted, copied, lost} \subseteq BOOLEAN
    /\ cancelling \subseteq {"catchup", "rtc"}
    /\ entering \subseteq mode.calls
    /\ phase \in {Idle, Discovering} \cup {Connecting(s) : s \in Sessions}
                     \cup {Transferring(s) : s \in Sessions}
    /\ query \in Queries \cup {None}
    /\ asked \subseteq Devices
    /\ candidates \in Seq([device : asked, rank : mode.ranks, status : Status,
                           session : Sessions \cup {None}])
    /\ current \in DOMAIN candidates \cup {None}
    /\ outcome \in Outcome
    /\ asking \subseteq [query : Queries, at : {"targets", "broadcast"}]
    /\ told \subseteq Queries \X Devices
    /\ opened \in Nat
    /\ slots \subseteq Sessions /\ rtc \subseteq Sessions /\ ui \subseteq Sessions
    /\ loops \subseteq [owner : {Tick} \cup Sessions, at : {"advance", "open", "send"},
                        session : Sessions \cup {None}]
    /\ exchange \in [Sessions -> {"no", "checked", "copying", "saving"}]
    /\ serving \subseteq Requests /\ received \subseteq Requests

Init ==
    /\ mode \in Modes
    /\ allowed = TRUE /\ available = FALSE /\ wanted = TRUE /\ cancelling = {}
    /\ entering = {}
    /\ phase = Idle /\ query = None /\ asked = {} /\ candidates = <<>>
    /\ current = None /\ outcome = "none" /\ copied = FALSE
    /\ asking = {} /\ told = {}
    /\ opened = 0 /\ slots = {} /\ rtc = {}
    /\ loops = {} /\ ui = {} /\ lost = FALSE /\ exchange = <<>>
    /\ serving = {} /\ received = {}
-----------------------------------------------------------------------------
(* Catchup and cancellation.                                                *)

\* Catchup::finish.
Finish(result) == phase' = Idle /\ current' = None /\ outcome' = result

\* finish_discovery: a query that could not be asked ends the catch-up.
FinishDiscovery(q, result) ==
    /\ IF query = q THEN Finish(result) ELSE UNCHANGED <<phase, current, outcome>>
    /\ UNCHANGED <<query, asked, candidates, copied>>

\* Catchup::rank, a stable sort with the best first, as the set of its one result.
Before(cs, i, j) == cs[i].rank > cs[j].rank \/ (cs[i].rank = cs[j].rank /\ i < j)
Orders(cs) == {p \in Bijection(DOMAIN cs, DOMAIN cs) :
                  \A i, j \in DOMAIN cs : i < j => Before(cs, p[i], p[j])}
Ranked(cs) == {[i \in DOMAIN cs |-> cs[p[i]]] : p \in Orders(cs)}

\* cancel_search_peers: everything under way is dropped, in both roles, under one
\* lock after the other. A bound: one call at a time.
Cancel ==
    /\ cancelling = {}
    /\ available' = FALSE
    /\ slots' = {} /\ serving' = {}
    /\ cancelling' = cancelling \cup {"catchup"}
    /\ UNCHANGED <<phase, current, outcome, rtc>>

CancelCatchup ==
    /\ "catchup" \in cancelling
    /\ cancelling' = (cancelling \ {"catchup"}) \cup {"rtc"}
    /\ IF phase = Idle
       THEN UNCHANGED <<phase, current, outcome>>
       ELSE Finish(IF phase = Discovering THEN "none" ELSE "interrupted")
    /\ UNCHANGED <<mode, allowed, available, wanted, entering, query, asked, candidates, copied,
                   asking, told, peers, loops, page, exchange, others>>

CancelRtc ==
    /\ "rtc" \in cancelling
    /\ cancelling' = cancelling \ {"rtc"}
    /\ rtc' = {}
    /\ UNCHANGED <<mode, allowed, available, wanted, entering, catchup, asking, told, opened,
                   slots, loops, page, exchange, others>>

\* Sharing is switched off, the network lost or metered, every page hidden.
Forbid ==
    /\ mode.halting /\ allowed /\ allowed' = FALSE
    /\ Cancel
    /\ UNCHANGED <<mode, wanted, entering, query, asked, candidates, copied, asking, told,
                   opened, loops, page, exchange, received>>

Permit ==
    /\ ~allowed /\ allowed' = TRUE
    /\ UNCHANGED <<mode, available, wanted, cancelling, entering, catchup, asking, told, peers,
                   loops, page, exchange, others>>
-----------------------------------------------------------------------------
(* Asking the other devices.                                                *)

\* start_search_peers, every minute, and find_search_peers, from the settings,
\* past their check of peers_allowed.
Enter(call) ==
    /\ allowed
    /\ call \notin entering /\ query < mode.queries
    /\ entering' = entering \cup {call}
    /\ available' = TRUE
    /\ UNCHANGED <<mode, allowed, wanted, cancelling, catchup, asking, told, peers, loops, page,
                   exchange, others>>

\* The rest of them, up to Catchup::begin in discover_search_peers. A start
\* within a minute of the last attempt does nothing and is left out.
BeginsWhenAsked(call) == phase = Idle /\ call = "find" /\ query < mode.queries   \* mutant
Begins(call) == phase = Idle /\ (call = "find" \/ wanted) /\ query < mode.queries
Begin(call) ==
    /\ call \in entering
    /\ entering' = entering \ {call}
    /\ wanted' = (wanted \/ call = "find")
    /\ IF Begins(call)
       THEN /\ phase' = Discovering /\ query' = query + 1 /\ asked' = {}
            /\ candidates' = <<>> /\ current' = None /\ outcome' = "none" /\ copied' = FALSE
            /\ asking' = asking \cup {[query |-> query + 1, at |-> "targets"]}
       ELSE UNCHANGED <<catchup, asking>>
    /\ UNCHANGED <<mode, allowed, available, cancelling, told, peers, loops, page, exchange, others>>

\* query_targets answers with the devices worth asking, with none, or fails.
Targets(a, devices) ==
    /\ a \in asking /\ a.at = "targets"
    /\ IF query = a.query /\ devices # {}
       THEN /\ asking' = (asking \ {a}) \cup {[a EXCEPT !.at = "broadcast"]}
            /\ asked' = devices
            /\ told' = told \cup ({a.query} \X devices)
            /\ UNCHANGED <<phase, query, candidates, current, outcome, copied>>
       ELSE /\ asking' = asking \ {a} /\ told' = told
            /\ \E result \in {"no_devices", "failed"} : FinishDiscovery(a.query, result)
    /\ UNCHANGED <<mode, policy, entering, peers, loops, page, exchange, others>>

\* The answer to the broadcast of the query. A failure may come late, and
\* after devices have got the query.
Broadcast(a, ok) ==
    /\ a \in asking /\ a.at = "broadcast"
    /\ asking' = asking \ {a}
    /\ IF ok THEN UNCHANGED catchup ELSE FinishDiscovery(a.query, "failed")
    /\ UNCHANGED <<mode, policy, entering, told, peers, loops, page, exchange, others>>

\* Catchup::reply: an asked device answers the current query for the first time.
AcceptsAnybody(q, d) ==                          \* mutant
    phase # Idle /\ \A i \in DOMAIN candidates : candidates[i].device # d
Accepts(q, d) ==
    /\ phase # Idle /\ query = q /\ d \in asked
    /\ \A i \in DOMAIN candidates : candidates[i].device # d

\* An Info message arrives (receive_search_peer).
Info(q, d, rank) ==
    /\ <<q, d>> \in told
    /\ told' = told \ {<<q, d>>}
    /\ candidates' =
          IF allowed /\ available /\ Accepts(q, d)
          THEN Append(candidates, [device |-> d, rank |-> rank, status |-> "waiting",
                                   session |-> None])
          ELSE candidates
    /\ UNCHANGED <<mode, policy, entering, phase, query, asked, current, outcome, copied,
                   asking, peers, loops, page, exchange, others>>
-----------------------------------------------------------------------------
(* Choosing a device, and the next one when it fails.                       *)

\* tick_search_peers, once a second, waits for its next_search_peer.
TickIsFree == \A l \in loops : l.owner # Tick

Choose ==
    /\ TickIsFree /\ phase = Discovering
    /\ loops' = loops \cup {Loop(Tick, "advance", None)}
    /\ UNCHANGED <<mode, policy, entering, catchup, asking, told, peers, page, exchange,
                   others>>

\* The 30 s of a session begin with the pick; its slot follows at once.
GiveUp(s) ==
    /\ TickIsFree /\ phase = Connecting(s)
    /\ \A l \in loops : ~(l.at = "open" /\ l.session = s)
    /\ slots' = slots \ {s} /\ rtc' = rtc \ {s}
    /\ loops' = loops \cup {Loop(Tick, "advance", s)}
    /\ UNCHANGED <<mode, policy, entering, catchup, asking, told, opened, page, exchange,
                   others>>

\* Catchup::advance: whether the failure of this session is one to move on from.
Advances(failed) ==
    IF failed = None THEN phase = Discovering ELSE phase.session = failed

\* ... and the candidates after it.
AdvancedUnmarked(failed) ==                      \* mutant
    IF failed = None THEN Ranked(candidates) ELSE {candidates}
Advanced(failed) ==
    IF failed = None THEN Ranked(candidates)
    ELSE {[candidates EXCEPT ![current].status = "failed"]}

EligibleAgain(cs) == {i \in DOMAIN cs : cs[i].status # "trying" /\ cs[i].rank > 0}   \* mutant
Eligible(cs) == {i \in DOMAIN cs : cs[i].status = "waiting" /\ cs[i].rank > 0}

\* Why nobody is left to ask (Catchup::pick).
NobodyLeft(cs) ==
    IF cs = <<>> THEN "no_answer"
    ELSE IF \A i \in DOMAIN cs : cs[i].rank = 0 THEN "nothing_to_copy"
    ELSE IF copied THEN "interrupted" ELSE "failed"

\* One turn of next_search_peer under the lock: advance, then pick.
Pick(l, cs) ==
    LET best == Min(Eligible(cs))
        next == opened + 1
    IN
    /\ current' = best
    /\ candidates' = [cs EXCEPT ![best].status = "trying", ![best].session = next]
    /\ phase' = Connecting(next)
    /\ opened' = next
    /\ exchange' = Append(exchange, "no")
    /\ loops' = (loops \ {l}) \cup {Loop(l.owner, "open", next)}
    /\ UNCHANGED outcome

Advance(l) ==
    /\ l \in loops /\ l.at = "advance"
    /\ \/ /\ ~Advances(l.session)
          /\ loops' = loops \ {l}
          /\ UNCHANGED <<phase, candidates, current, outcome, opened, exchange>>
       \/ /\ Advances(l.session)
          /\ \E cs \in Advanced(l.session) :
                \/ /\ Eligible(cs) = {}
                   /\ Finish(NobodyLeft(cs))
                   /\ candidates' = cs
                   /\ loops' = loops \ {l}
                   /\ UNCHANGED <<opened, exchange>>
                \/ Eligible(cs) # {} /\ Pick(l, cs)
    /\ UNCHANGED <<mode, policy, entering, query, asked, copied, asking, told, slots, rtc,
                   page, others>>

\* ... then the slot and the signalling session, and the request leaves.
Open(l) ==
    /\ l \in loops /\ l.at = "open"
    /\ slots' = slots \cup {l.session} /\ rtc' = rtc \cup {l.session}
    /\ loops' = (loops \ {l}) \cup {[l EXCEPT !.at = "send"]}
    /\ UNCHANGED <<mode, policy, entering, catchup, asking, told, opened, page, exchange,
                   others>>

Requested(l, ok) ==
    /\ l \in loops /\ l.at = "send"
    /\ IF ok
       THEN loops' = loops \ {l} /\ UNCHANGED <<slots, rtc>>
       ELSE /\ slots' = slots \ {l.session} /\ rtc' = rtc \ {l.session}
            /\ loops' = (loops \ {l}) \cup {[l EXCEPT !.at = "advance"]}
    /\ UNCHANGED <<mode, policy, entering, catchup, asking, told, opened, page, exchange,
                   others>>
-----------------------------------------------------------------------------
(* The connection and the copy.                                             *)

\* An offer or an ICE candidate of the provider arrives for a session the
\* Core knows, and the page connects.
Connect(s) ==
    /\ s \in rtc \ ui
    /\ ui' = ui \cup {s}
    /\ UNCHANGED <<mode, policy, entering, catchup, asking, told, peers, loops, lost,
                   exchange, others>>

\* The connection fails, idles, or is told to close: rtc.close.
Disconnect(s) ==
    /\ s \in ui
    /\ ui' = ui \ {s}
    /\ slots' = slots \ {s} /\ rtc' = rtc \ {s}
    /\ loops' = loops \cup {Loop(s, "advance", s)}
    /\ UNCHANGED <<mode, policy, entering, catchup, asking, told, opened, lost, exchange,
                   others>>

\* The page vanishes without a word, and another one goes on.
LosePage ==
    /\ mode.losing /\ ~lost /\ ui # {}
    /\ ui' = {} /\ lost' = TRUE
    /\ UNCHANGED <<mode, policy, entering, catchup, asking, told, peers, loops, exchange,
                   others>>

\* exchange_search_peer hands over a frame. search_slot lets it pass, and
\* cancels everything when sharing is not allowed.
Exchange(s) ==
    /\ s \in ui /\ exchange[s] = "no"
    /\ IF allowed
       THEN /\ s \in slots
            /\ exchange' = [exchange EXCEPT ![s] = "checked"]
            /\ UNCHANGED <<available, cancelling, phase, current, outcome, slots, rtc, serving>>
       ELSE Cancel /\ UNCHANGED exchange
    /\ UNCHANGED <<mode, allowed, wanted, entering, query, asked, candidates, copied, asking,
                   told, opened, loops, page, received>>

\* ... transferring, and the frame is worked on.
Transfer(s) ==
    /\ s \in Sessions /\ exchange[s] = "checked"
    /\ exchange' = [exchange EXCEPT ![s] = "copying"]
    /\ phase' = IF phase.session = s THEN Transferring(s) ELSE phase
    /\ UNCHANGED <<mode, policy, entering, query, asked, candidates, current, outcome, copied,
                   asking, told, peers, loops, page, others>>

\* ... it was a part, or was refused, or ended a room (copied_room).
Copied(s, room) ==
    /\ s \in Sessions /\ exchange[s] = "copying"
    /\ exchange' = [exchange EXCEPT ![s] = "no"]
    /\ copied' = (copied \/ (room /\ phase.session = s))
    /\ UNCHANGED <<mode, policy, entering, phase, query, asked, candidates, current, outcome,
                   asking, told, peers, loops, page, others>>

\* ... or the last one: complete_search_copy, up to its save.
CompletesAny(s) == phase.session # None          \* mutant
Completes(s) == phase.session = s
Complete(s) ==
    /\ s \in Sessions /\ exchange[s] = "copying"
    /\ IF Completes(s)
       THEN /\ candidates' = [candidates EXCEPT ![current].status = "done"]
            /\ Finish("completed")
            /\ exchange' = [exchange EXCEPT ![s] = "saving"]
       ELSE /\ exchange' = [exchange EXCEPT ![s] = "no"]
            /\ UNCHANGED <<phase, candidates, current, outcome>>
    /\ UNCHANGED <<mode, policy, entering, query, asked, copied, asking, told, peers, loops,
                   page, others>>

Saved(s) ==
    /\ s \in Sessions /\ exchange[s] = "saving"
    /\ exchange' = [exchange EXCEPT ![s] = "no"]
    /\ wanted' = FALSE
    /\ UNCHANGED <<mode, allowed, available, cancelling, entering, catchup, asking, told, peers,
                   loops, page, others>>
-----------------------------------------------------------------------------
(* Serving the other devices.                                               *)

\* A Request message arrives and passes the first checks of receive_search_peer.
Receive(r) ==
    /\ allowed /\ available /\ r \notin serving
    /\ received' = received \cup {r}
    /\ UNCHANGED <<mode, policy, entering, catchup, asking, told, peers, loops, page, exchange,
                   serving>>

\* Sessions of this device nobody has used for 120 s (remove_expired).
Unused == {s \in slots : /\ s \notin ui /\ exchange[s] = "no" /\ phase # Connecting(s)
                         /\ \A l \in loops : l.session # s}

\* serve_search_peer: in place of an earlier session of the same device, and
\* only below the limit. Sessions that expired (remove_expired) go first: gone
\* served ones, unused own ones.
Kept(r) == {q \in serving : q[1] # r[1]}
Room(kept) == Cardinality(kept) < MaxServing
Serve(r, gone, unused) ==
    /\ r \in received
    /\ received' = received \ {r}
    /\ LET kept == Kept(r) \ gone IN
       serving' = IF Room(kept) THEN kept \cup {r} ELSE kept
    /\ slots' = slots \ unused
    /\ UNCHANGED <<mode, policy, entering, catchup, asking, told, opened, rtc, loops, page,
                   exchange>>

\* Its connection ends; the next_search_peer of rtc.close finds nothing to do.
Served(r) ==
    /\ r \in serving
    /\ serving' = serving \ {r}
    /\ UNCHANGED <<mode, policy, entering, catchup, asking, told, peers, loops, page, exchange,
                   received>>

Next ==
    \/ Forbid \/ Permit \/ CancelCatchup \/ CancelRtc
    \/ \E call \in mode.calls : Enter(call) \/ Begin(call)
    \/ \E a \in asking : \/ \E devices \in SUBSET mode.devices : Targets(a, devices)
                         \/ \E ok \in BOOLEAN : Broadcast(a, ok)
    \/ \E t \in told, rank \in mode.ranks : Info(t[1], t[2], rank)
    \/ Choose
    \/ \E s \in Sessions : \/ GiveUp(s) \/ Connect(s) \/ Disconnect(s)
                           \/ Exchange(s) \/ Transfer(s) \/ Complete(s) \/ Saved(s)
                           \/ \E room \in BOOLEAN : Copied(s, room)
    \/ \E l \in loops : \/ Advance(l) \/ Open(l)
                        \/ \E ok \in BOOLEAN : Requested(l, ok)
    \/ LosePage
    \/ \E r \in Requests : Receive(r) \/ Served(r)
    \/ \E r \in received, gone \in SUBSET serving, unused \in SUBSET Unused :
          Serve(r, gone, unused)

Spec == Init /\ [][Next]_vars

\* The tick runs, calls and cancellations end and an idle connection is closed.
Progress ==
    /\ WF_vars(Choose)
    /\ WF_vars(CancelCatchup)
    /\ WF_vars(CancelRtc)
    /\ WF_vars(\E s \in Sessions : GiveUp(s))
    /\ WF_vars(\E l \in loops : Advance(l) \/ Open(l) \/ \E ok \in BOOLEAN : Requested(l, ok))
    /\ WF_vars(\E s \in Sessions : Disconnect(s))
LiveSpec == Spec /\ Progress

\* And the page starts the catch-up every minute, the network answers the
\* query or fails, and a completed copy is recorded.
Asking ==
    /\ WF_vars(Enter("start"))
    /\ WF_vars(\E call \in mode.calls : Begin(call))
    /\ WF_vars(\E a \in asking : \/ \E devices \in SUBSET mode.devices : Targets(a, devices)
                                 \/ \E ok \in BOOLEAN : Broadcast(a, ok))
    /\ WF_vars(\E s \in Sessions : Saved(s))
AskingSpec == LiveSpec /\ Asking
-----------------------------------------------------------------------------
(* Properties.                                                              *)

Trying == {i \in DOMAIN candidates : candidates[i].status = "trying"}

\* The phase, the index, the candidates and the sessions are four records of one
\* attempt, kept under three locks: while a session is up, its candidate, the
\* current one, is being tried under it, and no other candidate is; a device
\* given up cannot be connected to any more under its session.
OneAttempt ==
    /\ phase.session # None =>
          /\ Trying = {current}
          /\ candidates[current].session = phase.session
    /\ \A i \in DOMAIN candidates :
          candidates[i].status = "failed" => candidates[i].session \notin slots \cup rtc

\* In one query a device is tried once, whatever fails, times out or is closed
\* twice, and nobody is tried after a copy completed.
TriedOnce ==
    [][query' = query =>
          \A s \in Sessions, i \in DOMAIN candidates, j \in DOMAIN candidates' :
             /\ candidates[i].session = s
             /\ candidates'[j].device = candidates[i].device
             => candidates'[j].session = s]_vars

\* A device is marked as the source of a completed copy only by the copy of its
\* own session, not by a frame of an attempt that was given up before.
CompletedByItsOwn ==
    [][\A s \in Sessions, j \in DOMAIN candidates' :
          /\ candidates'[j].status = "done" /\ candidates'[j].session = s
          /\ \A i \in DOMAIN candidates :
                candidates[i].session = s => candidates[i].status # "done"
          => exchange[s] = "copying" /\ exchange'[s] = "saving"]_vars

Satisfied == ~wanted \/ query = mode.queries

\* A device that stays allowed to ends up with its copy, or asks again, unless its
\* page was lost.
AsksAgain == <>[]allowed => <>(Satisfied \/ lost)
=============================================================================

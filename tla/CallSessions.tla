---------------------------- MODULE CallSessions ----------------------------
(***************************************************************************)
(* Which calls a Core keeps, while accounts sign in, switch and sign out:  *)
(* `join` in calls/runtime.rs, `leave_call`, `end_all_calls` and           *)
(* `terminate` in calls/mod.rs and calls/runtime.rs, against `logout`,     *)
(* `start_session` and `take_session` in accounts.rs.                      *)
(*                                                                         *)
(* A join is a long chain of awaits; it notes the session generation at    *)
(* its start and compares it again twice, the second time under the        *)
(* call_sessions lock.  A session transition drains call_sessions and      *)
(* moves the generation.  Transitions are serialised by                    *)
(* session_activation_lock and session_swap_lock; nothing else is.         *)
(*                                                                         *)
(* Requests succeed here and the server supports delayed events: lost      *)
(* requests are the business of CallHangup.                                *)
(***************************************************************************)
EXTENDS Integers

CONSTANTS
    Joins,        \* the joins that are ever made, each with its own membership
    MaxGen,       \* bound on the generations ever handed out
    Switching,    \* whether a session may be started over a live one
    Overlapping   \* whether a join may begin while a transition is under way

ASSUME MaxGenAssumption == MaxGen \in Nat \ {0}
ASSUME SwitchingAssumption == Switching \in BOOLEAN
ASSUME OverlappingAssumption == Overlapping \in BOOLEAN

VARIABLES
    attempt,      \* session_attempt_generation
    generation,   \* session_generation
    session,      \* Core.session: the generation it was installed as, or 0
    tran,         \* the transition under way: [kind, pc, gen]
    calls,        \* the keys of call_sessions, as the joins that inserted them
    draining,     \* calls end_all_calls took out and has not hung up yet
    pc,           \* where each join stands
    gen,          \* the generation each join noted
    home,         \* the session each join took its room from
    ender,        \* who hangs a call up that is out of call_sessions
    present       \* memberships the room holds on the server

vars == <<attempt, generation, session, tran, calls, draining, pc, gen, home,
          ender, present>>
tranVars == <<attempt, generation, session, tran, draining>>
idVars == <<gen, home>>

SignedIn == session # 0

Unjoined  == {"new", "loaded"}
Joining   == {"discovered", "published", "confirmed"}
Inserted  == {"inserted", "joined", "orphaned"}
Ended     == {"failed", "aborting"}
Idle      == [kind |-> "none", pc |-> "idle", gen |-> 0]

TypeOK ==
    /\ attempt \in 1 .. MaxGen
    /\ generation \in 1 .. attempt
    /\ session \in 0 .. generation
    /\ tran \in [kind : {"none", "end", "start"},
                 pc : {"idle", "drain", "hangup", "store", "install"},
                 gen : 0 .. MaxGen]
    /\ calls \subseteq Joins
    /\ draining \subseteq Joins
    /\ pc \in [Joins -> Unjoined \cup Joining \cup Inserted \cup Ended]
    /\ gen \in [Joins -> 0 .. MaxGen]
    /\ home \in [Joins -> 0 .. MaxGen]
    /\ ender \in [Joins -> {"none", "rpc", "task", "done"}]
    /\ present \subseteq Joins

Init ==
    /\ attempt = 1
    /\ generation = 1
    /\ session = 0
    /\ tran = Idle
    /\ calls = {}
    /\ draining = {}
    /\ pc = [j \in Joins |-> "new"]
    /\ gen = [j \in Joins |-> 0]
    /\ home = [j \in Joins |-> 0]
    /\ ender = [j \in Joins |-> "none"]
    /\ present = {}

Goto(j, where) == pc' = [pc EXCEPT ![j] = where]
Current(j) == gen[j] = generation

-----------------------------------------------------------------------------
(* Joining                                                                 *)

\* The generation is read first, the room is looked up after an await.
Load(j) ==
    /\ pc[j] = "new"
    /\ Overlapping \/ tran = Idle
    /\ gen' = [gen EXCEPT ![j] = generation]
    /\ Goto(j, "loaded")
    /\ UNCHANGED <<tranVars, calls, home, ender, present>>

Discover(j) ==
    /\ pc[j] = "loaded"
    /\ home' = [home EXCEPT ![j] = session]
    /\ Goto(j, IF SignedIn THEN "discovered" ELSE "failed")
    /\ UNCHANGED <<tranVars, calls, gen, ender, present>>

\* publish_where_allowed puts the membership into the room, or retracts it
\* and fails.
Publish(j) ==
    /\ pc[j] = "discovered"
    /\ \/ Goto(j, "published") /\ present' = present \cup {j}
       \/ Goto(j, "failed") /\ UNCHANGED present
    /\ UNCHANGED <<tranVars, calls, idVars, ender>>

\* The first generation check and confirm_join.
Confirm(j) ==
    /\ pc[j] = "published"
    /\ \/ Current(j) /\ Goto(j, "confirmed")
       \/ Goto(j, "aborting")
    /\ UNCHANGED <<tranVars, calls, idVars, ender, present>>

MayInsertUnchecked(j) == TRUE
MayInsert(j) == Current(j)

\* The second check and the insertion, both under the call_sessions lock.
Insert(j) ==
    /\ pc[j] = "confirmed"
    /\ IF MayInsert(j)
       THEN calls' = calls \cup {j} /\ Goto(j, "inserted")
       ELSE calls' = calls /\ Goto(j, "aborting")
    /\ UNCHANGED <<tranVars, idVars, ender, present>>

AbortJoin(j) ==
    /\ pc[j] = "aborting"
    /\ present' = present \ {j}
    /\ Goto(j, "failed")
    /\ UNCHANGED <<tranVars, calls, idVars, ender>>

\* The last check, after apply_app_activity: the caller gets the session id,
\* or an error and no id to leave with.
Return(j) ==
    /\ pc[j] = "inserted"
    /\ Goto(j, IF Current(j) THEN "joined" ELSE "orphaned")
    /\ UNCHANGED <<tranVars, calls, idVars, ender, present>>

-----------------------------------------------------------------------------
(* Leaving                                                                 *)

TakeOutLate(j, who) ==
    /\ j \in calls
    /\ ender' = [ender EXCEPT ![j] = who]
    /\ UNCHANGED <<tranVars, calls, pc, idVars, present>>

TakeOut(j, who) ==
    /\ j \in calls
    /\ calls' = calls \ {j}
    /\ ender' = [ender EXCEPT ![j] = who]
    /\ UNCHANGED <<tranVars, pc, idVars, present>>

LeaveCall(j) == pc[j] = "joined" /\ TakeOut(j, "rpc")

\* The update loop gives the call up; it stops at the first turn that finds
\* another generation.
Terminate(j) == Current(j) /\ TakeOut(j, "task")

\* hang_up of a call that leave_call took out.  Core::room asks the session
\* of the moment: with none nothing is sent, and another account's session
\* does not remove this membership.
HangUp(j) ==
    /\ ender[j] \in {"rpc", "task"}
    /\ present' = IF session = home[j] THEN present \ {j} ELSE present
    /\ ender' = [ender EXCEPT ![j] = "done"]
    /\ UNCHANGED <<tranVars, calls, pc, idVars>>

-----------------------------------------------------------------------------
(* Session transitions                                                     *)

\* logout, shutdown, reset_local_cache and a rejected token invalidate the
\* generation before they take the session.
EndSession ==
    /\ tran = Idle
    /\ SignedIn
    /\ attempt < MaxGen
    /\ attempt' = attempt + 1
    /\ generation' = attempt + 1
    /\ tran' = [kind |-> "end", pc |-> "drain", gen |-> attempt + 1]
    /\ UNCHANGED <<session, calls, draining, pc, idVars, ender, present>>

StartUnclaimed ==
    /\ tran = Idle
    /\ Switching \/ ~SignedIn
    /\ attempt < MaxGen
    /\ attempt' = attempt + 1
    /\ tran' = [kind |-> "start", pc |-> "drain", gen |-> 0]
    /\ UNCHANGED <<generation, session, calls, draining, pc, idVars, ender, present>>

\* switch_account, finish_sign_in and restore claim a generation; the live
\* one stays what it was until the new session is in place.
StartSession ==
    /\ tran = Idle
    /\ Switching \/ ~SignedIn
    /\ attempt < MaxGen
    /\ attempt' = attempt + 1
    /\ tran' = [kind |-> "start", pc |-> "drain", gen |-> attempt + 1]
    /\ UNCHANGED <<generation, session, calls, draining, pc, idVars, ender, present>>

\* start_session fails before it disturbs the active session.
FailToStart ==
    /\ tran.kind = "start"
    /\ tran.pc = "drain"
    /\ tran' = Idle
    /\ UNCHANGED <<attempt, generation, session, calls, draining, pc, idVars,
                   ender, present>>

\* end_all_calls empties call_sessions in one step, then hangs up one by one.
Drain ==
    /\ tran.pc = "drain"
    /\ calls' = {}
    /\ draining' = calls
    /\ tran' = [tran EXCEPT !.pc = "hangup"]
    /\ UNCHANGED <<attempt, generation, session, pc, idVars, ender, present>>

HangUpDrained(j) ==
    /\ tran.pc = "hangup"
    /\ j \in draining
    /\ draining' = draining \ {j}
    /\ present' = present \ {j}
    /\ UNCHANGED <<attempt, generation, session, tran, calls, pc, idVars, ender>>

\* take_session drops the session's tasks, a terminating call's among them:
\* what that task had not sent stays unsent.
TakeSession ==
    /\ tran.pc = "hangup"
    /\ draining = {}
    /\ session' = 0
    /\ ender' = [j \in Joins |-> IF ender[j] = "task" THEN "done" ELSE ender[j]]
    /\ tran' = IF tran.kind = "start" THEN [tran EXCEPT !.pc = "store"] ELSE Idle
    /\ UNCHANGED <<attempt, generation, calls, draining, pc, idVars, present>>

StoreGeneration ==
    /\ tran.pc = "store"
    /\ generation' = tran.gen
    /\ tran' = [tran EXCEPT !.pc = "install"]
    /\ UNCHANGED <<attempt, session, calls, draining, pc, idVars, ender, present>>

InstallSession ==
    /\ tran.pc = "install"
    /\ session' = tran.gen
    /\ tran' = Idle
    /\ UNCHANGED <<attempt, generation, calls, draining, pc, idVars, ender, present>>

-----------------------------------------------------------------------------
(* The server                                                              *)

\* A join and a call in call_sessions each own the task that postpones the
\* delayed leave; without it the leave fires.
PostponedForever(j) == pc[j] \notin Unjoined
Postponed(j) == j \in calls \/ pc[j] \in {"published", "confirmed", "aborting"}

DelayedLeave(j) ==
    /\ j \in present
    /\ ~Postponed(j)
    /\ present' = present \ {j}
    /\ UNCHANGED <<tranVars, calls, pc, idVars, ender>>

JoinStep(j) ==
    \/ Load(j)
    \/ Discover(j)
    \/ Publish(j)
    \/ Confirm(j)
    \/ Insert(j)
    \/ AbortJoin(j)
    \/ Return(j)

CallStep(j) ==
    \/ JoinStep(j)
    \/ LeaveCall(j)
    \/ Terminate(j)
    \/ HangUp(j)
    \/ HangUpDrained(j)
    \/ DelayedLeave(j)

Transition ==
    \/ Drain
    \/ TakeSession
    \/ StoreGeneration
    \/ InstallSession

Next ==
    \/ \E j \in Joins : CallStep(j)
    \/ EndSession
    \/ StartSession
    \/ FailToStart
    \/ Transition

Spec == Init /\ [][Next]_vars

\* Every future that was started is polled to its end, and the server keeps
\* its clock.  Nobody has to join, leave or sign out.
Fairness ==
    /\ WF_vars(Transition)
    /\ \A j \in Joins :
        /\ WF_vars(pc[j] # "new" /\ JoinStep(j))
        /\ WF_vars(HangUp(j))
        /\ WF_vars(HangUpDrained(j))
        /\ WF_vars(DelayedLeave(j))

LiveSpec == Spec /\ Fairness

-----------------------------------------------------------------------------
(* Properties                                                              *)

\* Once a transition is over, every call the Core still keeps belongs to the
\* session it left in place.
EndedWithTheSession ==
    tran = Idle => \A j \in calls : Current(j) /\ SignedIn /\ home[j] = session

\* A join that answered with an error and no session id left no call behind
\* that somebody would have to end.
FailedJoinLeavesNoCall ==
    tran = Idle => \A j \in calls : pc[j] \notin {"orphaned", "failed"}

\* A call is ended by one party: whoever takes it out of call_sessions.
EndedOnce ==
    /\ \A j \in calls \cup draining : ender[j] = "none"
    /\ calls \cap draining = {}

\* However a call ends, by leaving, by a cut off task, by a sign out that
\* overtakes the hang up, the room stops showing the membership of a
\* session that is no more.
MembershipEndsWithTheSession ==
    \A j \in Joins :
        (pc[j] \notin Unjoined /\ ~Current(j)) ~> (j \notin present)
=============================================================================

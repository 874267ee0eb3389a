------------------------- MODULE CallSessionsProofs -------------------------
(***************************************************************************)
(* Proofs about CallSessions for any set of joins and any number of        *)
(* session transitions.                                                    *)
(***************************************************************************)
EXTENDS CallSessions, TLAPS

\* Which phases a transition of each kind goes through.
TranShape ==
    \/ tran = Idle
    \/ /\ tran.kind = "end"
       /\ tran.pc \in {"drain", "hangup"}
       /\ tran.gen = generation
    \/ /\ tran.kind = "start"
       /\ tran.pc \in {"drain", "hangup", "store"}
       /\ tran.gen = attempt
       /\ generation < attempt
    \/ /\ tran.kind = "start"
       /\ tran.pc = "install"
       /\ tran.gen = generation

\* TypeOK with what it needs to be inductive.
TypeInv == TypeOK /\ TranShape

LEMMA TypeInit == Init => TypeInv
<1> SUFFICES ASSUME Init PROVE TypeInv
  OBVIOUS
<1>1. TypeOK
  <2>1. attempt \in 1 .. MaxGen /\ generation \in 1 .. attempt
    BY MaxGenAssumption DEF Init
  <2>2. session \in 0 .. generation /\ tran \in
           [kind : {"none", "end", "start"},
            pc : {"idle", "drain", "hangup", "store", "install"},
            gen : 0 .. MaxGen]
    BY MaxGenAssumption DEF Init, Idle
  <2>3. /\ pc \in [Joins -> Unjoined \cup Joining \cup Inserted \cup Ended]
        /\ ender \in [Joins -> {"none", "rpc", "task", "done"}]
    BY DEF Init, Unjoined
  <2>4. gen \in [Joins -> 0 .. MaxGen] /\ home \in [Joins -> 0 .. MaxGen]
    BY MaxGenAssumption DEF Init
  <2> QED
    BY <2>1, <2>2, <2>3, <2>4 DEF Init, TypeOK
<1> QED
  BY <1>1 DEF Init, TypeInv, TranShape

LEMMA TypeNext == TypeInv /\ [Next]_vars => TypeInv'
<1> SUFFICES ASSUME TypeInv, [Next]_vars PROVE TypeInv'
  OBVIOUS
<1> USE MaxGenAssumption DEF TypeInv, TypeOK, TranShape, Idle, tranVars, idVars
<1>1. ASSUME NEW j \in Joins, JoinStep(j) PROVE TypeInv'
  BY <1>1 DEF JoinStep, Load, Discover, Publish, Confirm, Insert, AbortJoin,
              Return, Goto, Unjoined, Joining, Inserted, Ended
<1>2. ASSUME NEW j \in Joins, LeaveCall(j) \/ Terminate(j) PROVE TypeInv'
  BY <1>2 DEF LeaveCall, Terminate, TakeOut
<1>3. ASSUME NEW j \in Joins, HangUp(j) \/ HangUpDrained(j) \/ DelayedLeave(j)
      PROVE TypeInv'
  BY <1>3 DEF HangUp, HangUpDrained, DelayedLeave
<1>4. CASE EndSession \/ StartSession \/ FailToStart
  BY <1>4 DEF EndSession, StartSession, FailToStart
<1>5. CASE Transition
  <2>1. CASE Drain
    BY <2>1 DEF Drain
  <2>2. CASE TakeSession
    BY <2>2 DEF TakeSession
  <2>3. CASE StoreGeneration
    BY <2>3 DEF StoreGeneration
  <2>4. CASE InstallSession
    BY <2>4 DEF InstallSession
  <2> QED
    BY <1>5, <2>1, <2>2, <2>3, <2>4 DEF Transition
<1>6. CASE UNCHANGED vars
  BY <1>6 DEF vars
<1> QED
  BY <1>1, <1>2, <1>3, <1>4, <1>5, <1>6 DEF Next, CallStep

\* The model keeps its types, whatever transitions overlap with joins.
THEOREM TypeCorrect == Spec => []TypeOK
<1>1. TypeInv => TypeOK
  BY DEF TypeInv
<1> QED
  BY <1>1, TypeInit, TypeNext, PTL DEF Spec

-----------------------------------------------------------------------------
(* One party ends a call                                                   *)

\* A call in the map, or drained from it, was inserted by its join, and one
\* that was not inserted yet has nobody to end it.
InsertedFirst ==
    /\ \A j \in calls \cup draining : pc[j] \in Inserted
    /\ \A j \in Joins : pc[j] \notin Inserted => ender[j] = "none"

OnceInv == TypeInv /\ InsertedFirst /\ EndedOnce /\ (tran.pc # "hangup" => draining = {})

LEMMA OnceInit == Init => OnceInv
<1> SUFFICES ASSUME Init PROVE OnceInv
  OBVIOUS
<1>1. InsertedFirst /\ EndedOnce
  BY DEF Init, InsertedFirst, EndedOnce, Inserted
<1> QED
  BY <1>1, TypeInit DEF Init, OnceInv

LEMMA OnceNext == OnceInv /\ [Next]_vars => OnceInv'
<1> SUFFICES ASSUME OnceInv, [Next]_vars PROVE OnceInv'
  OBVIOUS
<1>0. TypeInv'
  BY TypeNext DEF OnceInv
<1> USE <1>0 DEF OnceInv, TypeInv, TypeOK, TranShape, InsertedFirst, EndedOnce, Idle,
                 tranVars, idVars
<1>1. ASSUME NEW j \in Joins, JoinStep(j) PROVE OnceInv'
  BY <1>1 DEF JoinStep, Load, Discover, Publish, Confirm, Insert, AbortJoin,
              Return, Goto, Unjoined, Joining, Inserted, Ended
<1>2. ASSUME NEW j \in Joins, LeaveCall(j) \/ Terminate(j) PROVE OnceInv'
  BY <1>2 DEF LeaveCall, Terminate, TakeOut
<1>3. ASSUME NEW j \in Joins, HangUp(j) \/ HangUpDrained(j) \/ DelayedLeave(j)
      PROVE OnceInv'
  BY <1>3 DEF HangUp, HangUpDrained, DelayedLeave
<1>4. CASE EndSession \/ StartSession \/ FailToStart
  BY <1>4 DEF EndSession, StartSession, FailToStart
<1>5. CASE Transition
  <2>1. CASE Drain
    BY <2>1 DEF Drain
  <2>2. CASE TakeSession
    BY <2>2 DEF TakeSession
  <2>3. CASE StoreGeneration
    BY <2>3 DEF StoreGeneration
  <2>4. CASE InstallSession
    BY <2>4 DEF InstallSession
  <2> QED
    BY <1>5, <2>1, <2>2, <2>3, <2>4 DEF Transition
<1>6. CASE UNCHANGED vars
  BY <1>6 DEF vars
<1> QED
  BY <1>1, <1>2, <1>3, <1>4, <1>5, <1>6 DEF Next, CallStep

\* Whoever takes a call out of call_sessions, leave_call, a failed update
\* loop or end_all_calls, nobody else hangs it up as well.
THEOREM OneEnder == Spec => []EndedOnce
<1>1. OnceInv => EndedOnce
  BY DEF OnceInv
<1> QED
  BY <1>1, OnceInit, OnceNext, PTL DEF Spec

-----------------------------------------------------------------------------
(* The call ends with the session                                          *)

\* Outside of a switch a generation is only ever replaced by a larger one,
\* and a join that is past its room lookup while no session is in place
\* noted a generation that is over.
NotedEarlier ==
    /\ \A j \in Joins : gen[j] <= generation
    /\ tran.kind = "end" => \A j \in Joins : gen[j] < generation
    /\ tran.pc = "install" => \A j \in Joins : gen[j] < generation
    /\ ~SignedIn => \A j \in Joins : pc[j] \in Joining => gen[j] < generation
    /\ \A j \in Joins : pc[j] = "orphaned" => gen[j] < generation

\* What is signed in, and which room a join that is still current has.
SessionShape ==
    /\ tran.kind = "end" => SignedIn
    /\ tran.kind = "start" => ~SignedIn
    /\ tran = Idle /\ SignedIn => session = generation
    /\ tran = Idle /\ SignedIn =>
          \A j \in Joins : pc[j] \in Joining /\ Current(j) => home[j] = session

\* The calls kept are those of the session, until a transition that ends it
\* has drained them.
KeptCalls ==
    \A j \in calls :
        \/ Current(j) /\ SignedIn /\ home[j] = session
        \/ tran.kind = "end" /\ tran.pc = "drain"

EndInv == OnceInv /\ NotedEarlier /\ SessionShape /\ KeptCalls

LEMMA EndInit == Init => EndInv
<1> SUFFICES ASSUME Init PROVE EndInv
  OBVIOUS
<1>1. NotedEarlier
  BY DEF Init, NotedEarlier, Idle, Joining
<1>2. SessionShape /\ KeptCalls
  BY DEF Init, SessionShape, KeptCalls, Idle, SignedIn
<1> QED
  BY <1>1, <1>2, OnceInit DEF EndInv

LEMMA EndNext ==
    ASSUME ~Switching, ~Overlapping
    PROVE  EndInv /\ [Next]_vars => EndInv'
<1> SUFFICES ASSUME EndInv, [Next]_vars PROVE EndInv'
  OBVIOUS
<1>0. OnceInv'
  BY OnceNext DEF EndInv
<1> USE <1>0 DEF EndInv, OnceInv, TypeInv, TypeOK, TranShape, InsertedFirst, NotedEarlier,
                 SessionShape, KeptCalls, SignedIn, Current, Idle, tranVars, idVars
<1>1. ASSUME NEW j \in Joins, JoinStep(j) PROVE EndInv'
  <2>1. CASE Load(j)
    BY <2>1 DEF Load, Goto, Joining, Inserted
  <2>2. CASE Discover(j)
    BY <2>2 DEF Discover, Goto, Joining, Inserted
  <2>3. CASE Publish(j) \/ Confirm(j) \/ AbortJoin(j)
    BY <2>3 DEF Publish, Confirm, AbortJoin, Goto, Joining, Inserted
  <2>4. CASE Insert(j)
    BY <2>4 DEF Insert, MayInsert, Goto, Joining, Inserted
  <2>5. CASE Return(j)
    BY <2>5 DEF Return, Goto, Joining, Inserted
  <2> QED
    BY <1>1, <2>1, <2>2, <2>3, <2>4, <2>5 DEF JoinStep
<1>2. ASSUME NEW j \in Joins, LeaveCall(j) \/ Terminate(j) PROVE EndInv'
  BY <1>2 DEF LeaveCall, Terminate, TakeOut
<1>3. ASSUME NEW j \in Joins, HangUp(j) \/ HangUpDrained(j) \/ DelayedLeave(j)
      PROVE EndInv'
  BY <1>3 DEF HangUp, HangUpDrained, DelayedLeave
<1>4. CASE EndSession \/ StartSession \/ FailToStart
  BY <1>4 DEF EndSession, StartSession, FailToStart
<1>5. CASE Transition
  <2>1. CASE Drain
    BY <2>1 DEF Drain
  <2>2. CASE TakeSession
    BY <2>2 DEF TakeSession
  <2>3. CASE StoreGeneration
    BY <2>3 DEF StoreGeneration
  <2>4. CASE InstallSession
    BY <2>4 DEF InstallSession
  <2> QED
    BY <1>5, <2>1, <2>2, <2>3, <2>4 DEF Transition
<1>6. CASE UNCHANGED vars
  BY <1>6 DEF vars
<1> QED
  BY <1>1, <1>2, <1>3, <1>4, <1>5, <1>6 DEF Next, CallStep

\* A sign out ends every call: no call is kept that does not belong to the
\* session in place, when sessions are only started with none in place and
\* no join begins in the middle of a transition.
THEOREM CallsEndWithTheSession ==
    ASSUME ~Switching, ~Overlapping
    PROVE  Spec => []EndedWithTheSession
<1>1. EndInv => EndedWithTheSession
  BY DEF EndInv, KeptCalls, EndedWithTheSession, Idle
<1> QED
  BY <1>1, EndInit, EndNext, PTL DEF Spec

\* Under the same restrictions no join fails with its call left behind.
THEOREM FailedJoinIsClean ==
    ASSUME ~Switching, ~Overlapping
    PROVE  Spec => []FailedJoinLeavesNoCall
<1>1. ASSUME EndInv, tran = Idle, NEW j \in calls
      PROVE  pc[j] \notin {"orphaned", "failed"}
  <2>1. j \in Joins /\ gen[j] \in Int /\ generation \in Int
    BY <1>1 DEF EndInv, OnceInv, TypeInv, TypeOK
  <2>2. gen[j] = generation
    BY <1>1 DEF EndInv, KeptCalls, Current, Idle
  <2>3. pc[j] # "orphaned"
    BY <1>1, <2>1, <2>2 DEF EndInv, NotedEarlier
  <2>4. pc[j] \in Inserted
    BY <1>1 DEF EndInv, OnceInv, InsertedFirst
  <2> QED
    BY <2>3, <2>4 DEF Inserted
<1>2. EndInv => FailedJoinLeavesNoCall
  BY <1>1 DEF FailedJoinLeavesNoCall
<1> QED
  BY <1>2, EndInit, EndNext, PTL DEF Spec
=============================================================================

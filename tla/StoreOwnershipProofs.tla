------------------------ MODULE StoreOwnershipProofs ------------------------
(* That there is one core (OneCore) and that a worker that failed a page    *)
(* stays behind (FailedStaysBehind), for any workers, pages, builds and     *)
(* times.                                                                   *)
(*                                                                          *)
(* Whoever has a core holds the lock or is excused: it was hung and is      *)
(* superseded, or was robbed by such a one. The lock is stolen only after   *)
(* the wait; so the invariant says why whoever is ahead of a waiting worker *)
(* is gone, or excused, before that wait is over: it has been asked, and    *)
(* hears it before the clock moves, or it is stopping and has less time     *)
(* left than the other will wait.                                           *)
EXTENDS StoreOwnership, TLAPS

-----------------------------------------------------------------------------
(* The invariant                                                           *)

Excused(w) == worker[w].slept /\ (Heard(w) \/ worker[w].told)

Owning == {"stealing", "owned", "live", "stopping", "panicked"}
Contending == {"waiting"} \cup Owning

RobbedIsExcused ==
    \A w \in Workers : worker[w].stolen => worker[w].slept /\ worker[w].phase \in Contending

ToldIsStopping ==
    \A w \in Workers :
       /\ worker[w].told => worker[w].phase \in {"stopping", "panicked"}
       /\ worker[w].phase \in {"stopping", "panicked"} => worker[w].timer <= StopLimit

LockIsHeld ==
    /\ lock.holder # Nobody => worker[lock.holder].phase \in Contending
    /\ lock.holder = Nobody => lock.queue = {}
    /\ \A w \in lock.queue : worker[w].phase = "waiting" /\ ~worker[w].stolen /\ w # lock.holder

WaiterIsQueued ==
    \A w \in Workers : worker[w].phase = "waiting" =>
       w = lock.holder \/ w \in lock.queue \/ worker[w].stolen

OwnerHolds ==
    \A w \in Workers : worker[w].phase \in Owning => w = lock.holder \/ Excused(w)

Ahead(v, u) ==
    /\ v # u /\ worker[u].phase = "waiting" /\ u # lock.holder
    /\ \/ v = lock.holder
       \/ v \in lock.queue /\ u \in lock.queue /\ worker[v].turn <= worker[u].turn

Clears(v, u) ==
    \/ Excused(v) \/ Excused(u)
    \/ worker[v].asked /\ worker[u].timer = StealAfter
    \/ worker[v].told /\ worker[v].timer < worker[u].timer

AheadClears == \A u, v \in Workers : Ahead(v, u) => Clears(v, u)

LockInv == /\ RobbedIsExcused /\ ToldIsStopping /\ LockIsHeld
           /\ WaiterIsQueued /\ OwnerHolds /\ AheadClears

\* What a page has heard to have failed is older than the generation.
PageIsBound(p) ==
    /\ page[p].mail # "none" => page[p].at # Nobody
    /\ page[p].at # Nobody => /\ worker[page[p].at].phase # "none"
                              /\ worker[page[p].at].gen = page[p].gen
    /\ \A w \in page[p].failed : worker[w].phase # "none" /\ worker[w].gen < generation

PagesAreBound == \A p \in Pages : PageIsBound(p)

IInv == TypeOK /\ LockInv /\ PagesAreBound /\ FailedStaysBehind

-----------------------------------------------------------------------------
(* Types                                                                   *)

LEMMA Times == StopLimit \in Nat /\ StealAfter \in Nat /\ 0 < StealAfter /\ StopLimit < StealAfter
BY TimesAssumption

LEMMA NoWorkerTyped == NoWorker \in Worker
BY Times DEF NoWorker, Worker, Phase

LEMMA TimerValues ==
    0 \in 0 .. StealAfter /\ StopLimit \in 0 .. StealAfter /\ StealAfter \in 0 .. StealAfter
BY Times

LEMMA WorkerFields ==
    ASSUME NEW r \in Worker
    PROVE  /\ \A x \in Phase : [r EXCEPT !.phase = x] \in Worker
           /\ \A x \in Nat : [r EXCEPT !.build = x] \in Worker
           /\ \A x \in Nat : [r EXCEPT !.gen = x] \in Worker
           /\ \A x \in Nat : [r EXCEPT !.turn = x] \in Worker
           /\ \A x \in 0 .. StealAfter : [r EXCEPT !.timer = x] \in Worker
           /\ \A x \in BOOLEAN : [r EXCEPT !.asked = x] \in Worker
           /\ \A x \in BOOLEAN : [r EXCEPT !.stolen = x] \in Worker
           /\ \A x \in BOOLEAN : [r EXCEPT !.hung = x] \in Worker
           /\ \A x \in BOOLEAN : [r EXCEPT !.slept = x] \in Worker
           /\ \A x \in BOOLEAN : [r EXCEPT !.told = x] \in Worker
BY DEF Worker

LEMMA NobodyIsNoWorker == Nobody \notin Workers
BY WorkersAssumption DEF Nobody, Workers

LEMMA ReleaseTyped ==
    ASSUME TypeOK, NEW w \in Workers, Release(w)
    PROVE  lock' \in [holder : Workers \cup {Nobody}, queue : SUBSET Workers]
BY DEF TypeOK, Release

LEMMA CloseTyped ==
    ASSUME TypeOK, NEW w \in Workers, Close(w)
    PROVE  /\ worker' \in [Workers -> Worker]
           /\ lock' \in [holder : Workers \cup {Nobody}, queue : SUBSET Workers]
<1>1. lock' \in [holder : Workers \cup {Nobody}, queue : SUBSET Workers]
  BY ReleaseTyped DEF Close
<1>2. worker[w] \in Worker
  BY DEF TypeOK
<1>3. worker[w].build \in Nat /\ worker[w].gen \in Nat
  BY <1>2 DEF Worker
<1>4. [NoWorker EXCEPT !.phase = "closed", !.build = worker[w].build, !.gen = worker[w].gen] \in Worker
  BY <1>3, NoWorkerTyped, WorkerFields DEF Phase
<1> QED BY <1>1, <1>4 DEF Close, TypeOK

LEMMA TellTyped ==
    ASSUME TypeOK, NEW S, NEW what \in {"panic", "superseded", "reset"}
    PROVE  Tell(S, what) \in [Pages -> Page]
BY DEF TypeOK, Tell, Page

LEMMA NoPageTyped == NoPage \in Page
BY DEF NoPage, Page, State

LEMMA AttachTyped ==
    ASSUME TypeOK, NEW p \in Pages, NEW build \in Nat, NEW failed \in SUBSET Workers,
           Attach(p, build, failed)
    PROVE  worker' \in [Workers -> Worker] /\ page' \in [Pages -> Page]
<1>1. PICK w \in Workers :
        /\ page' = [page EXCEPT ![p] = [NoPage EXCEPT !.state = "open", !.build = build, !.at = w,
                                                      !.gen = generation, !.failed = failed]]
        /\ worker' = IF w \in Unused
                     THEN [worker EXCEPT ![w] = [NoWorker EXCEPT !.phase = "fetching",
                                                     !.build = build, !.gen = generation]]
                     ELSE worker
  BY DEF Attach, Named, Unused
<1>2. generation \in Nat
  BY DEF TypeOK
<1>3. [NoPage EXCEPT !.state = "open", !.build = build, !.at = w,
                     !.gen = generation, !.failed = failed] \in Page
  BY <1>2 DEF NoPage, Page, State
<1>4. [NoWorker EXCEPT !.phase = "fetching", !.build = build, !.gen = generation] \in Worker
  BY <1>2, NoWorkerTyped, WorkerFields DEF Phase
<1> QED BY <1>1, <1>3, <1>4 DEF TypeOK

LEMMA PageWorkTyped ==
    ASSUME TypeOK, IInv, NEW p \in Pages, PageWork(p), mode' = mode
    PROVE  TypeOK'
<1> USE DEF TypeOK
<1>1. CASE HearPanic(p)
  <2>1. page[p] \in Page /\ page[p].at \in Workers /\ generation \in Nat
    BY <1>1, NobodyIsNoWorker DEF HearPanic, IInv, PagesAreBound, PageIsBound, Page
  <2>2. generation' \in Nat
    BY <1>1, <2>1 DEF HearPanic, Retired, Page
  <2>3. [NoPage EXCEPT !.state = "retry", !.build = page[p].build,
                       !.failed = page[p].failed \cup {page[p].at}] \in Page
    BY <2>1 DEF NoPage, Page, State
  <2> QED BY <1>1, <2>2, <2>3 DEF HearPanic
<1>2. CASE HearSuperseded(p)
  <2>1. [NoPage EXCEPT !.state = "superseded"] \in Page
    BY DEF NoPage, Page, State
  <2> QED BY <1>2, <2>1 DEF HearSuperseded
<1>3. CASE Stall(p)
  BY <1>3 DEF Stall, Page, State
<1>4. CASE Join(p)
  <2>1. page[p] \in Page
    OBVIOUS
  <2>2. [page[p] EXCEPT !.joined = TRUE] \in Page
    BY <2>1 DEF Page
  <2>3. page' = [page EXCEPT ![p] = [page[p] EXCEPT !.joined = TRUE]]
    BY <1>4 DEF Join
  <2> QED BY <1>4, <2>2, <2>3 DEF Join
<1>5. CASE Responsive(p)
  BY <1>5 DEF Responsive, Page, State
<1>6. CASE Clear(p)
  <2>1. [NoPage EXCEPT !.state = "clearing"] \in Page
    BY DEF NoPage, Page, State
  <2> QED BY <1>6, <2>1 DEF Clear
<1>7. CASE Cleared(p)
  BY <1>7, NoPageTyped DEF Cleared
<1> QED BY <1>1, <1>2, <1>3, <1>4, <1>5, <1>6, <1>7 DEF PageWork

\* What a reset does to its page and its worker.
ResetAt(p, w) ==
    /\ page[p].at = w
    /\ \E mail \in {"none", "reset"} : page' =
          [page EXCEPT ![p] = [page[p] EXCEPT !.state = "resetting", !.joined = FALSE, !.mail = mail]]
    /\ \/ /\ worker[w].phase = "live"
          /\ worker' = [worker EXCEPT ![w] = [worker[w] EXCEPT !.phase = "stopping",
                                                              !.timer = StopLimit]]
          /\ UNCHANGED lock
       \/ UNCHANGED <<worker, lock>>
       \/ Close(w)
    /\ UNCHANGED <<generation, faults>>

LEMMA ResetIs ==
    ASSUME TypeOK, NEW p \in Pages, Reset(p)
    PROVE  \E w \in Workers : ResetAt(p, w)
<1> DEFINE asking == [page EXCEPT ![p].state = "resetting", ![p].joined = FALSE]
           answered == [asking EXCEPT ![p].mail = "reset"]
           Asked(mail) == [page[p] EXCEPT !.state = "resetting", !.joined = FALSE, !.mail = mail]
<1>1. page[p] \in Page /\ page \in [Pages -> Page]
  BY DEF TypeOK
<1>2. page[p].mail = "none"
  BY DEF Reset
<1>3. asking = [page EXCEPT ![p] = Asked("none")]
  BY <1>1, <1>2 DEF Page
<1>4. answered = [page EXCEPT ![p] = Asked("reset")]
  BY <1>1 DEF Page
<1>5. PICK w \in Workers :
         /\ page[p].at = w
         /\ \/ /\ worker[w].phase = "live"
               /\ worker' = [worker EXCEPT ![w].phase = "stopping", ![w].timer = StopLimit]
               /\ page' = asking
               /\ UNCHANGED lock
            \/ page' = asking /\ UNCHANGED <<worker, lock>>
            \/ page' = answered /\ Close(w)
         /\ UNCHANGED <<generation, faults>>
  BY DEF Reset
<1>6. [worker EXCEPT ![w].phase = "stopping", ![w].timer = StopLimit]
         = [worker EXCEPT ![w] = [worker[w] EXCEPT !.phase = "stopping", !.timer = StopLimit]]
  BY DEF TypeOK, Worker
<1>7. page' \in {[page EXCEPT ![p] = Asked("none")], [page EXCEPT ![p] = Asked("reset")]}
  BY <1>3, <1>4, <1>5
<1> QED BY <1>5, <1>6, <1>7 DEF ResetAt

LEMMA ChoiceTyped ==
    ASSUME TypeOK, NEW p \in Pages, Open(p) \/ Reconnect(p) \/ Leave(p) \/ Reset(p), mode' = mode
    PROVE  TypeOK'
<1>1. CASE Open(p)
  <2>1. PICK build \in mode.builds[p] : Attach(p, build, {})
    BY <1>1 DEF Open
  <2>2. build \in Nat
    BY ModesAssumption DEF TypeOK, Mode
  <2>3. UNCHANGED <<lock, generation, faults>>
    BY <2>1 DEF Attach
  <2> QED BY <2>1, <2>2, <2>3, AttachTyped DEF TypeOK
<1>2. CASE Reconnect(p)
  <2>1. page[p].build \in Nat /\ page[p].failed \in SUBSET Workers
    BY DEF TypeOK, Page
  <2>2. Attach(p, page[p].build, page[p].failed)
    BY <1>2 DEF Reconnect
  <2>3. UNCHANGED <<lock, generation, faults>>
    BY <2>2 DEF Attach
  <2> QED BY <2>1, <2>2, <2>3, AttachTyped DEF TypeOK
<1>3. CASE Leave(p)
  BY <1>3, NoPageTyped DEF Leave, TypeOK
<1>4. CASE Reset(p)
  <2>1. PICK w \in Workers : ResetAt(p, w)
    BY <1>4, ResetIs
  <2>2. page' \in [Pages -> Page]
    <3>1. PICK mail \in {"none", "reset"} : page' =
             [page EXCEPT ![p] = [page[p] EXCEPT !.state = "resetting", !.joined = FALSE,
                                                 !.mail = mail]]
      BY <2>1 DEF ResetAt
    <3>2. page[p] \in Page /\ page \in [Pages -> Page]
      BY DEF TypeOK
    <3>3. [page[p] EXCEPT !.state = "resetting", !.joined = FALSE, !.mail = mail] \in Page
      BY <3>2 DEF Page, State
    <3> QED BY <3>1, <3>2, <3>3
  <2>3. worker' \in [Workers -> Worker]
    <3>1. worker[w] \in Worker
      BY DEF TypeOK
    <3>2. [worker[w] EXCEPT !.phase = "stopping", !.timer = StopLimit] \in Worker
      BY <3>1, WorkerFields, TimerValues DEF Phase
    <3> QED BY <2>1, <3>2, CloseTyped DEF ResetAt, TypeOK
  <2>4. lock' \in [holder : Workers \cup {Nobody}, queue : SUBSET Workers]
    BY <2>1, CloseTyped DEF ResetAt, TypeOK
  <2> QED BY <2>1, <2>2, <2>3, <2>4 DEF ResetAt, TypeOK
<1> QED BY <1>1, <1>2, <1>3, <1>4

LEMMA FaultTyped ==
    ASSUME TypeOK, NEW w \in Workers, mode' = mode,
           Panic(w) \/ FailToLoad(w) \/ Hang(w) \/ Wake(w) \/ Kill(w) \/ Abandon(w)
    PROVE  TypeOK'
<1>1. CASE Panic(w)
  <2>1. page' \in [Pages -> Page]
    BY <1>1, TellTyped DEF Panic
  <2>2. [worker[w] EXCEPT !.phase = "panicked", !.timer = 0] \in Worker
    BY WorkerFields, TimerValues DEF TypeOK, Phase
  <2>3. worker' = [worker EXCEPT ![w] = [worker[w] EXCEPT !.phase = "panicked", !.timer = 0]]
    BY <1>1 DEF Panic
  <2>4. worker' \in [Workers -> Worker]
    BY <2>2, <2>3 DEF TypeOK
  <2> QED BY <1>1, <2>1, <2>4 DEF Panic, TypeOK
<1>2. CASE FailToLoad(w)
  BY <1>2, TellTyped, CloseTyped DEF FailToLoad, TypeOK
<1>3. CASE Hang(w)
  <2>1. [worker[w] EXCEPT !.hung = TRUE] \in Worker
    BY WorkerFields DEF TypeOK
  <2>2. worker' = [worker EXCEPT ![w] = [worker[w] EXCEPT !.hung = TRUE]]
    BY <1>3 DEF Hang
  <2> QED BY <1>3, <2>1, <2>2 DEF Hang, TypeOK
<1>4. CASE Wake(w)
  <2> DEFINE slept == worker[w].slept /\ (Heard(w) \/ worker[w].told)
  <2>1. slept \in BOOLEAN
    OBVIOUS
  <2>2. worker' = [worker EXCEPT ![w] = [worker[w] EXCEPT !.hung = FALSE, !.slept = slept]]
    BY <1>4 DEF Wake
  <2> HIDE DEF slept
  <2>3. [worker[w] EXCEPT !.hung = FALSE, !.slept = slept] \in Worker
    BY <2>1, WorkerFields DEF TypeOK
  <2> QED BY <1>4, <2>2, <2>3 DEF Wake, TypeOK
<1>5. CASE Kill(w)
  BY <1>5, CloseTyped DEF Kill, TypeOK
<1>6. CASE Abandon(w)
  BY <1>6, CloseTyped DEF Abandon, TypeOK
<1> QED BY <1>1, <1>2, <1>3, <1>4, <1>5, <1>6

LEMMA WorkerWorkTyped ==
    ASSUME TypeOK, NEW w \in Workers, WorkerWork(w), mode' = mode
    PROVE  TypeOK'
<1>1. CASE OpenChannel(w)
  BY <1>1 DEF OpenChannel, TypeOK, Worker, Phase
<1>2. CASE Claim(w)
  <2>1. PICK turn \in {1} \cup {worker[v].turn + 1 : v \in lock.queue} :
          worker' = [v \in Workers |->
                       IF v = w THEN [worker[v] EXCEPT !.phase = "waiting", !.turn = turn,
                                                       !.timer = StealAfter]
                       ELSE [worker[v] EXCEPT !.asked = @ \/ HasChannel(v)]]
    BY <1>2 DEF Claim
  <2>2. turn \in Nat
    BY DEF TypeOK, Worker
  <2>3. [worker[w] EXCEPT !.phase = "waiting", !.turn = turn, !.timer = StealAfter] \in Worker
    BY <2>2, WorkerFields, TimerValues DEF TypeOK, Phase
  <2>4. \A v \in Workers : [worker[v] EXCEPT !.asked = @ \/ HasChannel(v)] \in Worker
    BY DEF TypeOK, Worker, HasChannel
  <2>5. worker' \in [Workers -> Worker]
    BY <2>1, <2>3, <2>4
  <2>6. lock' \in [holder : Workers \cup {Nobody}, queue : SUBSET Workers]
    BY <1>2 DEF Claim, TypeOK
  <2> QED BY <1>2, <2>5, <2>6 DEF Claim, TypeOK
<1>3. CASE Own(w)
  <2>1. [worker[w] EXCEPT !.phase = "owned", !.turn = 0, !.timer = 0] \in Worker
    BY WorkerFields, TimerValues DEF TypeOK, Phase
  <2>2. worker' = [worker EXCEPT ![w] = [worker[w] EXCEPT !.phase = "owned", !.turn = 0, !.timer = 0]]
    BY <1>3 DEF Own
  <2> QED BY <1>3, <2>1, <2>2 DEF Own, TypeOK
<1>4. CASE Steal(w)
  <2>1. [worker[w] EXCEPT !.phase = "stealing"] \in Worker
    BY DEF TypeOK, Worker, Phase
  <2>2. \A v \in Workers :
          [worker[v] EXCEPT !.stolen = TRUE, !.slept = @ \/ worker[w].slept] \in Worker
    BY DEF TypeOK, Worker
  <2>3. worker' \in [Workers -> Worker]
    BY <1>4, <2>1, <2>2 DEF Steal, TypeOK
  <2> QED BY <1>4, <2>3 DEF Steal, TypeOK
<1>5. CASE Supersede(w)
  <2>1. CASE worker[w].told
    <3>1. [worker[w] EXCEPT !.asked = FALSE, !.stolen = FALSE] \in Worker
      BY WorkerFields DEF TypeOK
    <3>2. worker' = [worker EXCEPT ![w] = [worker[w] EXCEPT !.asked = FALSE, !.stolen = FALSE]]
      BY <1>5, <2>1 DEF Supersede
    <3> QED BY <1>5, <2>1, <3>1, <3>2 DEF Supersede, TypeOK
  <2>2. CASE ~worker[w].told /\ worker[w].phase \in {"live", "stopping", "panicked"}
    <3>1. page' \in [Pages -> Page]
      BY <1>5, <2>2, TellTyped DEF Supersede
    <3> DEFINE live == worker[w].phase = "live"
               next == IF live THEN "stopping" ELSE worker[w].phase
               time == IF live THEN StopLimit ELSE worker[w].timer
               stopped == [worker[w] EXCEPT !.asked = FALSE, !.stolen = FALSE, !.told = TRUE,
                                            !.phase = next, !.timer = time]
    <3>3. worker' = [worker EXCEPT ![w] = stopped]
      BY <1>5, <2>2 DEF Supersede
    <3>4. next \in Phase /\ time \in 0 .. StealAfter /\ worker[w] \in Worker
      BY TimerValues DEF TypeOK, Worker, Phase
    <3> HIDE DEF next, time
    <3>5. stopped \in Worker
      BY <3>4, WorkerFields
    <3>2. worker' \in [Workers -> Worker]
      BY <3>3, <3>5 DEF TypeOK
    <3> QED BY <1>5, <2>2, <3>1, <3>2 DEF Supersede, TypeOK
  <2>3. CASE ~worker[w].told /\ worker[w].phase \notin {"live", "stopping", "panicked"}
    BY <1>5, <2>3, TellTyped, CloseTyped DEF Supersede, TypeOK
  <2> QED BY <2>1, <2>2, <2>3
<1>6. CASE StartCore(w)
  BY <1>6 DEF StartCore, TypeOK, Worker, Phase
<1>7. CASE Stop(w)
  <2>1. page' \in [Pages -> Page]
    BY <1>7, TellTyped DEF Stop
  <2> QED BY <1>7, <2>1, CloseTyped DEF Stop, TypeOK
<1>8. CASE ClosePanicked(w)
  BY <1>8, CloseTyped DEF ClosePanicked, TypeOK
<1> QED BY <1>1, <1>2, <1>3, <1>4, <1>5, <1>6, <1>7, <1>8 DEF WorkerWork

LEMMA TickTyped ==
    ASSUME TypeOK, Tick, mode' = mode
    PROVE  TypeOK'
<1>1. ASSUME NEW w \in Workers
      PROVE  [worker[w] EXCEPT !.timer = IF Timed(w) THEN @ - 1 ELSE @,
                               !.slept = @ \/ worker[w].hung] \in Worker
  <2> DEFINE left == IF Timed(w) THEN worker[w].timer - 1 ELSE worker[w].timer
             slept == worker[w].slept \/ worker[w].hung
  <2>1. left \in 0 .. StealAfter /\ slept \in BOOLEAN /\ worker[w] \in Worker
    BY Times DEF TypeOK, Worker, Timed
  <2> HIDE DEF left, slept
  <2>2. [worker[w] EXCEPT !.timer = left, !.slept = slept] \in Worker
    BY <2>1, WorkerFields
  <2> QED BY <2>2 DEF left, slept
<1> QED BY <1>1 DEF Tick, TypeOK

-----------------------------------------------------------------------------
(* The lock                                                                *)

\* Whoever closes lets the next one have the lock, before whom nobody is.
LEMMA CloseKeepsLock ==
    ASSUME TypeOK, LockInv, NEW w \in Workers, Close(w)
    PROVE  LockInv'
<1> USE NobodyIsNoWorker
<1>1. /\ \A u \in Workers : u # w => worker'[u] = worker[u]
      /\ worker'[w].phase = "closed" /\ worker'[w].told = FALSE /\ worker'[w].stolen = FALSE
  BY DEF Close, TypeOK, NoWorker
<1>2. /\ lock.holder \in Workers \cup {Nobody} /\ lock.queue \subseteq Workers
      /\ lock'.holder \in Workers \cup {Nobody} /\ lock'.queue \subseteq Workers
  BY CloseTyped DEF TypeOK
<1>3. /\ lock'.queue \subseteq lock.queue \ {w}
      /\ lock'.holder # w /\ lock'.holder \notin lock'.queue
      /\ lock'.holder = Nobody => lock'.queue = {}
      /\ lock.holder # w => lock'.holder = lock.holder /\ lock'.queue = lock.queue \ {w}
      /\ lock.holder = w /\ lock'.holder # Nobody =>
            /\ lock'.holder \in lock.queue
            /\ lock'.queue = lock.queue \ {w, lock'.holder}
            /\ \A v \in lock.queue \ {w} : worker[lock'.holder].turn <= worker[v].turn
      /\ lock.holder = w /\ lock'.holder = Nobody => lock.queue \subseteq {w}
  <2>1. CASE lock.holder # w
    <3>1. lock' = [lock EXCEPT !.queue = lock.queue \ {w}]
      BY <2>1 DEF Close, Release
    <3>2. lock'.queue = lock.queue \ {w} /\ lock'.holder = lock.holder
      BY <3>1 DEF TypeOK
    <3> QED BY <2>1, <3>2 DEF LockInv, LockIsHeld
  <2>2. CASE lock.holder = w /\ lock.queue \ {w} = {}
    <3>1. lock' = [lock EXCEPT !.holder = Nobody]
      BY <2>2 DEF Close, Release
    <3>2. lock'.queue = lock.queue /\ lock'.holder = Nobody
      BY <3>1 DEF TypeOK
    <3>3. w \notin lock.queue
      BY <2>2 DEF LockInv, LockIsHeld
    <3> QED BY <2>2, <3>2, <3>3
  <2>3. CASE lock.holder = w /\ lock.queue \ {w} # {}
    <3>1. PICK next \in lock.queue \ {w} :
            /\ \A v \in lock.queue \ {w} : worker[next].turn <= worker[v].turn
            /\ lock' = [lock EXCEPT !.holder = next, !.queue = (lock.queue \ {w}) \ {next}]
      BY <2>3 DEF Close, Release
    <3>2. lock'.queue = (lock.queue \ {w}) \ {next} /\ lock'.holder = next
      BY <3>1 DEF TypeOK
    <3> QED BY <1>2, <2>3, <3>1, <3>2
  <2> QED BY <2>1, <2>2, <2>3
<1>4. \A u \in Workers : u # w => (Excused(u) <=> Excused(u)')
  BY <1>1 DEF Excused, Heard
<1>5. RobbedIsExcused'
  BY <1>1 DEF LockInv, RobbedIsExcused, Contending, Owning
<1>6. ToldIsStopping'
  BY <1>1 DEF LockInv, ToldIsStopping
<1>7. LockIsHeld'
  <2>1. CASE lock.holder # w
    BY <1>1, <1>2, <1>3, <2>1 DEF LockInv, LockIsHeld, Contending
  <2>2. CASE lock.holder = w /\ lock'.holder # Nobody
    BY <1>1, <1>2, <1>3, <2>2 DEF LockInv, LockIsHeld, Contending
  <2>3. CASE lock.holder = w /\ lock'.holder = Nobody
    BY <1>3, <2>3 DEF LockIsHeld
  <2> QED BY <2>1, <2>2, <2>3
<1>8. WaiterIsQueued'
  BY <1>1, <1>2, <1>3 DEF LockInv, WaiterIsQueued
<1>9. OwnerHolds'
  <2> SUFFICES ASSUME NEW u \in Workers,
                      worker'[u].phase \in Owning
               PROVE  u = lock'.holder \/ Excused(u)'
    BY DEF OwnerHolds
  <2>1. u # w
    BY <1>1 DEF Owning
  <2>2. u = lock.holder \/ Excused(u)
    BY <1>1, <2>1 DEF LockInv, OwnerHolds
  <2> QED BY <1>3, <1>4, <2>1, <2>2
<1>10. AheadClears'
  <2> SUFFICES ASSUME NEW u \in Workers, NEW v \in Workers, Ahead(v, u)'
               PROVE  Clears(v, u)'
    BY DEF AheadClears
  <2>1. u # w /\ v # w
    BY <1>1, <1>3 DEF Ahead
  <2>2. worker'[u] = worker[u] /\ worker'[v] = worker[v]
    BY <1>1, <2>1
  <2>3. Excused(u) \/ Ahead(v, u)
    <3>1. worker[u].phase = "waiting" /\ v # u
      BY <2>2 DEF Ahead
    <3>2. CASE u \notin lock.queue /\ u # lock.holder
      BY <3>1, <3>2 DEF LockInv, WaiterIsQueued, RobbedIsExcused, Excused, Heard
    <3>3. CASE u = lock.holder
      BY <1>3, <2>1, <3>3 DEF Ahead
    <3>4. CASE u \in lock.queue /\ u # lock.holder
      <4>1. CASE v = lock.holder
        BY <3>1, <3>4, <4>1 DEF Ahead
      <4>2. CASE v # lock.holder
        BY <1>3, <2>1, <2>2, <3>1, <3>4, <4>2 DEF Ahead
      <4> QED BY <4>1, <4>2
    <3> QED BY <3>2, <3>3, <3>4
  <2>4. Clears(v, u)
    BY <2>3 DEF LockInv, AheadClears, Clears
  <2> QED BY <1>4, <2>1, <2>2, <2>4 DEF Clears
<1> QED BY <1>5, <1>6, <1>7, <1>8, <1>9, <1>10 DEF LockInv

\* A step that leaves the lock and the waiting alone, and excuses nobody any less.
LEMMA QuietStep ==
    ASSUME TypeOK, LockInv, UNCHANGED lock,
           \A u \in Workers :
              /\ worker'[u].phase = "waiting" <=> worker[u].phase = "waiting"
              /\ worker'[u].phase \in Owning <=> worker[u].phase \in Owning
              /\ worker[u].phase \in Contending /\ Excused(u) => Excused(u)'
              /\ worker'[u].stolen => worker[u].stolen
              /\ worker[u].phase = "waiting" => worker'[u].turn = worker[u].turn,
           RobbedIsExcused', ToldIsStopping', WaiterIsQueued',
           \A u, v \in Workers : Ahead(v, u) /\ Clears(v, u) => Clears(v, u)'
    PROVE  LockInv'
<1> USE NobodyIsNoWorker
<1>1. LockIsHeld'
  BY DEF TypeOK, LockInv, LockIsHeld, Contending
<1>2. OwnerHolds'
  BY DEF LockInv, OwnerHolds, Contending
<1>3. AheadClears'
  <2> SUFFICES ASSUME NEW u \in Workers, NEW v \in Workers, Ahead(v, u)'
               PROVE  Clears(v, u)'
    BY DEF AheadClears
  <2>1. Ahead(v, u)
    BY DEF LockInv, LockIsHeld, Ahead
  <2> QED BY <2>1 DEF LockInv, AheadClears
<1> QED BY <1>1, <1>2, <1>3 DEF LockInv

LEMMA Contenders ==
    ASSUME TypeOK, LockInv, NEW u \in Workers, NEW v \in Workers, Ahead(v, u)
    PROVE  worker[u].phase = "waiting" /\ worker[v].phase \in Contending
BY NobodyIsNoWorker DEF LockInv, LockIsHeld, Ahead, Contending

LEMMA NobodyMoves ==
    ASSUME LockInv, UNCHANGED <<worker, lock>>
    PROVE  LockInv'
BY DEF LockInv, RobbedIsExcused, ToldIsStopping, LockIsHeld, WaiterIsQueued, OwnerHolds,
       AheadClears, Ahead, Clears, Excused, Heard

LEMMA Fields ==
    ASSUME TypeOK, NEW w \in Workers
    PROVE  /\ worker[w] \in Worker /\ worker[w].timer \in 0 .. StealAfter /\ worker[w].turn \in Nat
           /\ worker[w].asked \in BOOLEAN /\ worker[w].stolen \in BOOLEAN
           /\ worker[w].slept \in BOOLEAN /\ worker[w].told \in BOOLEAN
BY DEF TypeOK, Worker

LEMMA AttachKeepsLock ==
    ASSUME TypeOK, LockInv, NEW p \in Pages, NEW build \in Nat, NEW failed,
           Attach(p, build, failed)
    PROVE  LockInv'
<1>1. PICK w \in Workers :
        worker' = IF w \in Unused
                  THEN [worker EXCEPT ![w] = [NoWorker EXCEPT !.phase = "fetching",
                                                  !.build = build, !.gen = generation]]
                  ELSE worker
  BY DEF Attach, Named, Unused
<1>2. UNCHANGED lock
  BY DEF Attach
<1>3. CASE w \notin Unused
  BY <1>1, <1>2, <1>3, NobodyMoves
<1>4. CASE w \in Unused
  <2>1. \A u \in Workers : u # w => worker'[u] = worker[u]
    BY <1>1, <1>4 DEF TypeOK
  <2>2. worker[w].phase = "none"
    BY <1>4 DEF Unused
  <2>3. worker'[w].phase = "fetching" /\ ~worker'[w].told /\ ~worker'[w].stolen
    BY <1>1, <1>4 DEF TypeOK, NoWorker
  <2>4. \A u \in Workers : worker[u].phase \in Contending => worker'[u] = worker[u]
    BY <2>1, <2>2 DEF Contending, Owning
  <2>5. RobbedIsExcused' /\ ToldIsStopping' /\ WaiterIsQueued'
    BY <1>2, <2>1, <2>3 DEF LockInv, RobbedIsExcused, ToldIsStopping, WaiterIsQueued
  <2>6. \A u \in Workers :
           /\ worker'[u].phase = "waiting" <=> worker[u].phase = "waiting"
           /\ worker'[u].phase \in Owning <=> worker[u].phase \in Owning
           /\ worker[u].phase \in Contending /\ Excused(u) => Excused(u)'
           /\ worker'[u].stolen => worker[u].stolen
           /\ worker[u].phase = "waiting" => worker'[u].turn = worker[u].turn
    BY <2>1, <2>2, <2>3, <2>4 DEF Excused, Heard, Owning
  <2>7. ASSUME NEW u \in Workers, NEW v \in Workers, Ahead(v, u), Clears(v, u)
        PROVE  Clears(v, u)'
    <3>1. worker'[u] = worker[u] /\ worker'[v] = worker[v]
      BY <2>4, <2>7, Contenders DEF Contending
    <3> QED BY <2>7, <3>1 DEF Clears, Excused, Heard
  <2> QED BY <1>2, <2>5, <2>6, <2>7, QuietStep
<1> QED BY <1>3, <1>4

LEMMA OpenChannelKeepsLock ==
    ASSUME TypeOK, LockInv, NEW w \in Workers, OpenChannel(w)
    PROVE  LockInv'
<1>1. \A u \in Workers : u # w => worker'[u] = worker[u]
  BY DEF OpenChannel, TypeOK
<1>2. worker[w] \in Worker /\ worker[w].phase = "fetching"
  BY Fields DEF OpenChannel
<1>3. /\ worker'[w].phase = "opened" /\ worker'[w].told = worker[w].told
      /\ worker'[w].stolen = worker[w].stolen /\ worker'[w].slept = worker[w].slept
      /\ worker'[w].asked = worker[w].asked /\ worker'[w].timer = worker[w].timer
      /\ worker'[w].turn = worker[w].turn
  BY <1>2 DEF OpenChannel, TypeOK, Worker
<1>4. \A u \in Workers : Excused(u) <=> Excused(u)'
  BY <1>1, <1>3 DEF Excused, Heard
<1>5. UNCHANGED lock
  BY DEF OpenChannel
<1>6. RobbedIsExcused' /\ ToldIsStopping' /\ WaiterIsQueued'
  BY <1>1, <1>2, <1>3, <1>5
     DEF LockInv, RobbedIsExcused, ToldIsStopping, WaiterIsQueued, Contending, Owning
<1>7. \A u, v \in Workers : Ahead(v, u) /\ Clears(v, u) => Clears(v, u)'
  BY <1>1, <1>3, <1>4 DEF Clears
<1>8. \A u \in Workers :
         /\ worker'[u].phase = "waiting" <=> worker[u].phase = "waiting"
         /\ worker'[u].phase \in Owning <=> worker[u].phase \in Owning
         /\ worker'[u].stolen => worker[u].stolen
         /\ worker'[u].turn = worker[u].turn
  BY <1>1, <1>2, <1>3 DEF Owning
<1> QED BY <1>4, <1>5, <1>6, <1>7, <1>8, QuietStep

LEMMA ClaimKeepsLock ==
    ASSUME TypeOK, LockInv, NEW w \in Workers, Claim(w)
    PROVE  LockInv'
<1> USE NobodyIsNoWorker
<1>1. PICK turn \in {1} \cup {worker[v].turn + 1 : v \in lock.queue} :
        /\ \A v \in lock.queue : worker[v].turn < turn
        /\ worker' = [v \in Workers |->
                        IF v = w THEN [worker[v] EXCEPT !.phase = "waiting", !.turn = turn,
                                                        !.timer = StealAfter]
                        ELSE [worker[v] EXCEPT !.asked = @ \/ HasChannel(v)]]
  BY DEF Claim
<1>2. /\ worker'[w].phase = "waiting" /\ worker'[w].turn = turn /\ worker'[w].timer = StealAfter
      /\ worker'[w].told = worker[w].told /\ worker'[w].stolen = worker[w].stolen
      /\ worker'[w].slept = worker[w].slept /\ worker'[w].asked = worker[w].asked
  BY <1>1, Fields DEF Worker
<1>3. ASSUME NEW u \in Workers, u # w
      PROVE  /\ worker'[u].phase = worker[u].phase /\ worker'[u].turn = worker[u].turn
             /\ worker'[u].timer = worker[u].timer /\ worker'[u].told = worker[u].told
             /\ worker'[u].stolen = worker[u].stolen /\ worker'[u].slept = worker[u].slept
             /\ worker'[u].asked <=> worker[u].asked \/ HasChannel(u)
  <2>1. worker'[u] = [worker[u] EXCEPT !.asked = worker[u].asked \/ HasChannel(u)]
    BY <1>1, <1>3
  <2> QED BY <2>1, Fields DEF Worker
<1>4. worker[w].phase = "opened"
  BY DEF Claim
<1>5. ~worker[w].told /\ ~worker[w].stolen /\ w # lock.holder /\ w \notin lock.queue
  BY <1>4 DEF LockInv, ToldIsStopping, RobbedIsExcused, LockIsHeld, Contending, Owning
<1>6. /\ lock.holder \in Workers \cup {Nobody} /\ lock.queue \subseteq Workers
      /\ lock.holder = Nobody => lock'.holder = w /\ lock'.queue = lock.queue
      /\ lock.holder # Nobody => lock'.holder = lock.holder /\ lock'.queue = lock.queue \cup {w}
  <2>1. lock' = IF lock.holder = Nobody THEN [lock EXCEPT !.holder = w]
                ELSE [lock EXCEPT !.queue = lock.queue \cup {w}]
    BY DEF Claim
  <2> QED BY <2>1 DEF TypeOK
<1>7. \A u \in Workers : Excused(u) => Excused(u)'
  BY <1>2, <1>3 DEF Excused, Heard
<1>8. RobbedIsExcused'
  BY <1>2, <1>3, <1>4 DEF LockInv, RobbedIsExcused, Contending, Owning
<1>9. ToldIsStopping'
  BY <1>2, <1>3, <1>5 DEF LockInv, ToldIsStopping
<1>10. LockIsHeld'
  <2>1. CASE lock.holder = Nobody
    <3>1. lock'.holder = w /\ lock'.queue = {}
      BY <1>6, <2>1 DEF LockInv, LockIsHeld
    <3> QED BY <1>2, <3>1 DEF LockIsHeld, Contending
  <2>2. CASE lock.holder # Nobody
    BY <1>2, <1>3, <1>5, <1>6, <2>2 DEF LockInv, LockIsHeld, Contending
  <2> QED BY <2>1, <2>2
<1>11. WaiterIsQueued'
  BY <1>3, <1>5, <1>6 DEF LockInv, WaiterIsQueued
<1>12. OwnerHolds'
  <2> SUFFICES ASSUME NEW u \in Workers, worker'[u].phase \in Owning
               PROVE  u = lock'.holder \/ Excused(u)'
    BY DEF OwnerHolds
  <2>1. u # w /\ worker[u].phase \in Owning
    BY <1>2, <1>3 DEF Owning
  <2> QED BY <1>6, <1>7, <2>1 DEF LockInv, OwnerHolds
<1>13. ASSUME NEW u \in Workers, NEW v \in Workers, Ahead(v, u)'
       PROVE  Clears(v, u)'
  <2>1. CASE u = w
    <3>1. v # w /\ (v = lock.holder \/ v \in lock.queue)
      BY <1>6, <1>13, <2>1 DEF Ahead
    <3>2. worker[v].phase \in Contending
      BY <3>1 DEF LockInv, LockIsHeld, Contending
    <3>3. HasChannel(v)
      BY <3>2 DEF HasChannel, Running, Contending, Owning
    <3> QED BY <1>2, <1>3, <2>1, <3>1, <3>3 DEF Clears
  <2>2. CASE u # w /\ v = w
    <3>1. CASE lock.holder = Nobody
      <4>1. worker[u].stolen
        BY <1>3, <1>6, <1>13, <2>2, <3>1 DEF Ahead, LockInv, WaiterIsQueued, LockIsHeld
      <4> QED BY <1>7, <4>1 DEF LockInv, RobbedIsExcused, Excused, Heard, Clears
    <3>2. CASE lock.holder # Nobody
      <4>1. u \in lock.queue /\ worker'[w].turn <= worker'[u].turn
        BY <1>5, <1>6, <1>13, <2>2, <3>2 DEF Ahead
      <4>2. worker[u].turn < turn /\ turn <= worker[u].turn
        BY <1>1, <1>2, <1>3, <2>2, <4>1
      <4>3. worker[u].turn \in Nat /\ turn \in Nat
        BY Fields, <1>6
      <4> QED BY <4>2, <4>3
    <3> QED BY <3>1, <3>2
  <2>3. CASE u # w /\ v # w
    <3>1. Ahead(v, u)
      BY <1>3, <1>6, <1>13, <2>3 DEF Ahead
    <3>2. Clears(v, u)
      BY <3>1 DEF LockInv, AheadClears
    <3> QED BY <1>3, <1>7, <2>3, <3>2 DEF Clears
  <2> QED BY <2>1, <2>2, <2>3
<1> QED BY <1>8, <1>9, <1>10, <1>11, <1>12, <1>13 DEF LockInv, AheadClears

LEMMA OwnKeepsLock ==
    ASSUME TypeOK, LockInv, NEW w \in Workers, Own(w)
    PROVE  LockInv'
<1> USE NobodyIsNoWorker
<1>1. \A u \in Workers : u # w => worker'[u] = worker[u]
  BY DEF Own, TypeOK
<1>2. /\ worker'[w].phase = "owned" /\ worker'[w].told = worker[w].told
      /\ worker'[w].stolen = worker[w].stolen /\ worker'[w].slept = worker[w].slept
      /\ worker'[w].asked = worker[w].asked
  <2>1. worker'[w] = [worker[w] EXCEPT !.phase = "owned", !.turn = 0, !.timer = 0]
    BY DEF Own, TypeOK
  <2> QED BY <2>1, Fields DEF Worker
<1>3. /\ worker[w].phase \in {"waiting", "stealing"} /\ UNCHANGED lock
      /\ lock.holder = w \/ worker[w].stolen
  BY DEF Own, Granted
<1>4. ~worker[w].told
  BY <1>3 DEF LockInv, ToldIsStopping
<1>5. \A u \in Workers : Excused(u) <=> Excused(u)'
  BY <1>1, <1>2 DEF Excused, Heard
<1>6. RobbedIsExcused' /\ ToldIsStopping'
  BY <1>1, <1>2, <1>4 DEF LockInv, RobbedIsExcused, ToldIsStopping, Contending, Owning
<1>7. w \notin lock.queue
  BY <1>3 DEF LockInv, LockIsHeld
<1>8. LockIsHeld'
  BY <1>1, <1>2, <1>3, <1>7 DEF TypeOK, LockInv, LockIsHeld, Contending, Owning
<1>9. WaiterIsQueued'
  BY <1>1, <1>2, <1>3 DEF LockInv, WaiterIsQueued
<1>10. OwnerHolds'
  <2>1. w = lock.holder \/ Excused(w)
    BY <1>3 DEF LockInv, RobbedIsExcused, Excused, Heard
  <2> QED BY <1>1, <1>3, <1>5, <2>1 DEF LockInv, OwnerHolds
<1>11. ASSUME NEW u \in Workers, NEW v \in Workers, Ahead(v, u)'
       PROVE  Clears(v, u)'
  <2>1. u # w
    BY <1>2, <1>11 DEF Ahead
  <2>2. Ahead(v, u)
    BY <1>1, <1>3, <1>7, <1>11, <2>1 DEF Ahead
  <2>3. Clears(v, u)
    BY <2>2 DEF LockInv, AheadClears
  <2> QED BY <1>1, <1>2, <1>4, <1>5, <2>1, <2>3 DEF Clears
<1> QED BY <1>6, <1>8, <1>9, <1>10, <1>11 DEF LockInv, AheadClears
\* The thief and whom it robs are settled by the wait that is over: one of them is excused.
LEMMA StealKeepsLock ==
    ASSUME TypeOK, LockInv, NEW w \in Workers, Steal(w)
    PROVE  LockInv'
<1> USE NobodyIsNoWorker
<1>0. PICK h : h = lock.holder
  OBVIOUS
<1>1. /\ worker[w].phase = "waiting" /\ worker[w].timer = 0 /\ h # w
      /\ lock'.holder = w /\ lock'.queue = lock.queue \ {w}
  BY <1>0 DEF Steal, TypeOK
<1>2. ~worker[w].told
  BY <1>1 DEF LockInv, ToldIsStopping
<1>3. /\ worker'[w].phase = "stealing" /\ worker'[w].told = worker[w].told
      /\ worker'[w].stolen = worker[w].stolen /\ worker'[w].slept = worker[w].slept
      /\ worker'[w].asked = worker[w].asked /\ worker'[w].timer = worker[w].timer
      /\ worker'[w].turn = worker[w].turn
  <2>1. worker'[w] = [worker[w] EXCEPT !.phase = "stealing"]
    BY DEF Steal
  <2> QED BY <2>1, Fields DEF Worker
<1>4. \A u \in Workers : u # w /\ u # h => worker'[u] = worker[u]
  BY <1>0 DEF Steal
<1>5. h \in Workers =>
         /\ worker'[h].phase = worker[h].phase /\ worker'[h].told = worker[h].told
         /\ worker'[h].stolen /\ worker'[h].timer = worker[h].timer
         /\ worker'[h].slept <=> worker[h].slept \/ worker[w].slept
  <2> SUFFICES ASSUME h \in Workers
               PROVE  /\ worker'[h].phase = worker[h].phase /\ worker'[h].told = worker[h].told
                      /\ worker'[h].stolen /\ worker'[h].timer = worker[h].timer
                      /\ worker'[h].slept <=> worker[h].slept \/ worker[w].slept
    OBVIOUS
  <2>1. worker'[h] = [worker[h] EXCEPT !.stolen = TRUE,
                                       !.slept = worker[h].slept \/ worker[w].slept]
    BY <1>0, <1>1 DEF Steal
  <2> QED BY <2>1, Fields DEF Worker
<1>6. h \in Workers => worker'[h].slept /\ Excused(h)'
  <2> SUFFICES ASSUME h \in Workers PROVE worker'[h].slept
    BY <1>5 DEF Excused, Heard
  <2>1. Clears(h, w)
    BY <1>0, <1>1 DEF LockInv, AheadClears, Ahead
  <2>2. Excused(h) \/ Excused(w)
    BY <1>1, <2>1, Fields, Times DEF Clears
  <2> QED BY <1>5, <2>2 DEF Excused
<1>7. \A u \in Workers : u # h => (Excused(u) <=> Excused(u)')
  BY <1>3, <1>4 DEF Excused, Heard
<1>8. h \in Workers \cup {Nobody} /\ (h # Nobody => worker[h].phase \in Contending)
  BY <1>0 DEF LockInv, LockIsHeld, TypeOK
<1>9. RobbedIsExcused'
  BY <1>3, <1>4, <1>5, <1>6, <1>8 DEF LockInv, RobbedIsExcused, Contending, Owning
<1>10. ToldIsStopping'
  BY <1>2, <1>3, <1>4, <1>5 DEF LockInv, ToldIsStopping
<1>11. LockIsHeld'
  BY <1>0, <1>1, <1>3, <1>4 DEF LockInv, LockIsHeld, Contending, Owning, TypeOK
<1>12. WaiterIsQueued'
  BY <1>0, <1>1, <1>3, <1>4, <1>5 DEF LockInv, WaiterIsQueued
<1>13. OwnerHolds'
  <2> SUFFICES ASSUME NEW u \in Workers, worker'[u].phase \in Owning, u # w
               PROVE  Excused(u)'
    BY <1>1 DEF OwnerHolds
  <2> QED BY <1>0, <1>4, <1>6, <1>7 DEF LockInv, OwnerHolds
<1>14. ASSUME NEW u \in Workers, NEW v \in Workers, Ahead(v, u)'
       PROVE  Clears(v, u)'
  <2>1. u # w /\ v # u
    BY <1>3, <1>14 DEF Ahead
  <2>2. CASE Excused(u)'
    BY <2>2 DEF Clears
  <2>3. CASE ~Excused(u)'
    <3>1. u # h /\ worker'[u] = worker[u] /\ ~Excused(u) /\ worker[u].phase = "waiting"
      BY <1>4, <1>6, <1>7, <1>14, <2>1, <2>3 DEF Ahead
    <3>2. ~worker[u].stolen /\ ~worker[u].told
      BY <3>1 DEF LockInv, RobbedIsExcused, ToldIsStopping, Excused, Heard
    <3>3. u \in lock.queue
      BY <1>0, <3>1, <3>2 DEF LockInv, WaiterIsQueued
    <3>4. CASE v = w
      <4>1. CASE worker[w].stolen
        <5>1. Excused(w)
          BY <4>1 DEF LockInv, RobbedIsExcused, Excused, Heard
        <5> QED BY <1>1, <1>7, <3>4, <5>1 DEF Clears
      <4>2. CASE w \in lock.queue
        <5>1. worker[w].turn \in Nat /\ worker[u].turn \in Nat
          BY Fields
        <5>2. CASE worker[w].turn <= worker[u].turn
          <6>1. Clears(w, u)
            BY <1>0, <2>1, <3>1, <3>3, <4>2, <5>2 DEF Ahead, LockInv, AheadClears
          <6> QED BY <1>1, <1>3, <1>7, <3>1, <3>4, <6>1 DEF Clears
        <5>3. CASE worker[u].turn <= worker[w].turn
          <6>1. Clears(u, w)
            BY <1>0, <1>1, <2>1, <3>3, <4>2, <5>3 DEF Ahead, LockInv, AheadClears
          <6>2. Excused(w)
            BY <1>1, <3>1, <3>2, <6>1, Times DEF Clears
          <6> QED BY <1>1, <1>7, <3>4, <6>2 DEF Clears
        <5> QED BY <5>1, <5>2, <5>3
      <4> QED BY <1>0, <1>1, <4>1, <4>2 DEF LockInv, WaiterIsQueued
    <3>5. CASE v # w
      <4>1. v \in lock.queue /\ worker'[v].turn <= worker'[u].turn
        BY <1>1, <1>14, <3>5 DEF Ahead
      <4>2. v # h
        BY <1>0, <4>1 DEF LockInv, LockIsHeld
      <4>3. worker'[v] = worker[v]
        BY <1>4, <3>5, <4>2
      <4>4. Clears(v, u)
        BY <1>0, <2>1, <3>1, <3>3, <4>1, <4>3 DEF Ahead, LockInv, AheadClears
      <4> QED BY <1>7, <3>1, <4>2, <4>3, <4>4 DEF Clears
    <3> QED BY <3>4, <3>5
  <2> QED BY <2>2, <2>3
<1> QED BY <1>9, <1>10, <1>11, <1>12, <1>13, <1>14 DEF LockInv, AheadClears

\* The owner w goes on to another phase of an owner, or hears what it is told.
LEMMA OwnerStep ==
    ASSUME TypeOK, LockInv, UNCHANGED lock, NEW w \in Workers,
           worker[w].phase \in Owning, worker'[w].phase \in Owning,
           \A u \in Workers : u # w => worker'[u] = worker[u],
           worker'[w].slept = worker[w].slept,
           worker'[w].stolen => worker[w].stolen,
           Heard(w) \/ worker[w].told => Heard(w)' \/ worker'[w].told,
           worker'[w].told => worker'[w].phase \in {"stopping", "panicked"},
           worker'[w].phase \in {"stopping", "panicked"} => worker'[w].timer <= StopLimit,
           \/ worker'[w].told /\ (worker[w].told => worker'[w].timer <= worker[w].timer)
           \/ worker'[w].asked = worker[w].asked /\ ~worker[w].told,
           worker'[w].timer \in Nat
    PROVE  LockInv'
<1> USE NobodyIsNoWorker
<1>1. \A u \in Workers : Excused(u) => Excused(u)'
  BY DEF Excused, Heard
<1>2. RobbedIsExcused' /\ ToldIsStopping' /\ WaiterIsQueued'
  BY DEF LockInv, RobbedIsExcused, ToldIsStopping, WaiterIsQueued, Contending, Owning
<1>3. \A u \in Workers :
         /\ worker'[u].phase = "waiting" <=> worker[u].phase = "waiting"
         /\ worker'[u].phase \in Owning <=> worker[u].phase \in Owning
         /\ worker'[u].stolen => worker[u].stolen
         /\ worker[u].phase = "waiting" => worker'[u].turn = worker[u].turn
  BY DEF Owning
<1>4. ASSUME NEW u \in Workers, NEW v \in Workers, Ahead(v, u), Clears(v, u)
      PROVE  Clears(v, u)'
  <2>1. worker'[u] = worker[u] /\ worker[u].timer \in 0 .. StealAfter
    BY <1>4, Fields DEF Ahead, Owning
  <2>2. CASE v # w
    BY <1>1, <1>4, <2>1, <2>2 DEF Clears
  <2>3. CASE v = w
    <3>1. CASE Excused(v) \/ Excused(u)
      BY <1>1, <3>1 DEF Clears
    <3>2. CASE worker[v].asked /\ worker[u].timer = StealAfter
      <4>1. CASE worker'[w].told
        <5>1. worker'[w].timer <= StopLimit
          BY <4>1
        <5>2. worker'[w].timer < worker'[u].timer
          BY <2>1, <3>2, <5>1, Times
        <5> QED BY <2>3, <4>1, <5>2 DEF Clears
      <4>2. CASE worker'[w].asked = worker[w].asked
        BY <2>1, <2>3, <3>2, <4>2 DEF Clears
      <4> QED BY <4>1, <4>2
    <3>3. CASE worker[v].told /\ worker[v].timer < worker[u].timer
      <4>1. worker'[w].told /\ worker'[w].timer <= worker[w].timer
        BY <2>3, <3>3
      <4>2. worker[w].timer \in Nat /\ worker[u].timer \in Nat
        BY <2>1, Fields, Times
      <4>3. worker'[w].timer < worker'[u].timer
        BY <2>1, <2>3, <3>3, <4>1, <4>2
      <4> QED BY <2>3, <4>1, <4>3 DEF Clears
    <3> QED BY <1>4, <3>1, <3>2, <3>3 DEF Clears
  <2> QED BY <2>2, <2>3
<1> QED BY <1>1, <1>2, <1>3, <1>4, QuietStep
LEMMA StartCoreKeepsLock ==
    ASSUME TypeOK, LockInv, NEW w \in Workers, StartCore(w)
    PROVE  LockInv'
<1>1. \A u \in Workers : u # w => worker'[u] = worker[u]
  BY DEF StartCore, TypeOK
<1>2. worker'[w] = [worker[w] EXCEPT !.phase = "live"] /\ worker[w].phase = "owned"
  BY DEF StartCore, TypeOK
<1>3. /\ worker'[w].phase = "live" /\ worker'[w].told = worker[w].told
      /\ worker'[w].stolen = worker[w].stolen /\ worker'[w].slept = worker[w].slept
      /\ worker'[w].asked = worker[w].asked /\ worker'[w].timer \in Nat
  BY <1>2, Fields, Times DEF Worker
<1>4. ~worker[w].told
  BY <1>2 DEF LockInv, ToldIsStopping
<1>5. UNCHANGED lock
  BY DEF StartCore
<1>6. worker[w].phase \in Owning /\ worker'[w].phase \in Owning
  BY <1>2, <1>3 DEF Owning
<1> QED BY <1>1, <1>3, <1>4, <1>5, <1>6, OwnerStep DEF Heard

LEMMA PanicKeepsLock ==
    ASSUME TypeOK, LockInv, NEW w \in Workers, Panic(w)
    PROVE  LockInv'
<1>1. \A u \in Workers : u # w => worker'[u] = worker[u]
  BY DEF Panic, TypeOK
<1>2. /\ worker'[w] = [worker[w] EXCEPT !.phase = "panicked", !.timer = 0]
      /\ worker[w].phase \in {"owned", "live", "stopping"}
  BY DEF Panic, TypeOK
<1>3. /\ worker'[w].phase = "panicked" /\ worker'[w].told = worker[w].told
      /\ worker'[w].stolen = worker[w].stolen /\ worker'[w].slept = worker[w].slept
      /\ worker'[w].asked = worker[w].asked /\ worker'[w].timer = 0
  BY <1>2, Fields DEF Worker
<1>4. 0 <= worker[w].timer /\ 0 <= StopLimit
  BY Fields, Times
<1>5. UNCHANGED lock
  BY DEF Panic
<1>6. worker[w].phase \in Owning /\ worker'[w].phase \in Owning
  BY <1>2, <1>3 DEF Owning
<1>7. worker[w].told \in BOOLEAN
  BY Fields
<1> QED BY <1>1, <1>3, <1>4, <1>5, <1>6, <1>7, OwnerStep DEF Heard

LEMMA ResetKeepsLock ==
    ASSUME TypeOK, LockInv, NEW p \in Pages, Reset(p)
    PROVE  LockInv'
<1>1. PICK w \in Workers : ResetAt(p, w)
  BY ResetIs
<1>2. CASE Close(w)
  BY <1>2, CloseKeepsLock
<1>3. CASE UNCHANGED <<worker, lock>>
  BY <1>3, NobodyMoves
<1>4. CASE /\ worker[w].phase = "live" /\ UNCHANGED lock
           /\ worker' = [worker EXCEPT ![w] = [worker[w] EXCEPT !.phase = "stopping",
                                                               !.timer = StopLimit]]
  <2>1. \A u \in Workers : u # w => worker'[u] = worker[u]
    BY <1>4 DEF TypeOK
  <2>2. worker'[w] = [worker[w] EXCEPT !.phase = "stopping", !.timer = StopLimit]
    BY <1>4 DEF TypeOK
  <2>3. /\ worker'[w].phase = "stopping" /\ worker'[w].told = worker[w].told
        /\ worker'[w].stolen = worker[w].stolen /\ worker'[w].slept = worker[w].slept
        /\ worker'[w].asked = worker[w].asked /\ worker'[w].timer = StopLimit
    BY <2>2, Fields DEF Worker
  <2>4. ~worker[w].told
    BY <1>4 DEF LockInv, ToldIsStopping
  <2>5. worker[w].phase \in Owning /\ worker'[w].phase \in Owning
    BY <1>4, <2>3 DEF Owning
  <2> QED BY <1>4, <2>1, <2>3, <2>4, <2>5, Times, OwnerStep DEF Heard
<1> QED BY <1>1, <1>2, <1>3, <1>4 DEF ResetAt

LEMMA SupersedeKeepsLock ==
    ASSUME TypeOK, LockInv, NEW w \in Workers, Supersede(w)
    PROVE  LockInv'
<1>1. CASE worker[w].told
  <2>1. \A u \in Workers : u # w => worker'[u] = worker[u]
    BY <1>1 DEF Supersede, TypeOK
  <2>2. worker'[w] = [worker[w] EXCEPT !.asked = FALSE, !.stolen = FALSE]
    BY <1>1 DEF Supersede, TypeOK
  <2>3. /\ worker'[w].phase = worker[w].phase /\ worker'[w].told
        /\ ~worker'[w].stolen /\ worker'[w].slept = worker[w].slept
        /\ worker'[w].timer = worker[w].timer
    BY <1>1, <2>2, Fields DEF Worker
  <2>4. worker[w].phase \in {"stopping", "panicked"} /\ worker[w].timer <= StopLimit
    BY <1>1 DEF LockInv, ToldIsStopping
  <2>5. worker[w].phase \in Owning
    BY <2>4 DEF Owning
  <2>6. worker[w].timer \in Nat /\ UNCHANGED lock
    BY <1>1, Fields, Times DEF Supersede
  <2> QED BY <1>1, <2>1, <2>3, <2>4, <2>5, <2>6, OwnerStep
<1>2. CASE ~worker[w].told /\ worker[w].phase \in {"live", "stopping", "panicked"}
  <2> DEFINE live == worker[w].phase = "live"
             next == IF live THEN "stopping" ELSE worker[w].phase
             time == IF live THEN StopLimit ELSE worker[w].timer
  <2>1. /\ worker' = [worker EXCEPT ![w] =
                        [worker[w] EXCEPT !.asked = FALSE, !.stolen = FALSE, !.told = TRUE,
                                          !.phase = next, !.timer = time]]
        /\ UNCHANGED lock
    BY <1>2 DEF Supersede
  <2>2. \A u \in Workers : u # w => worker'[u] = worker[u]
    BY <2>1 DEF TypeOK
  <2>3. worker'[w] = [worker[w] EXCEPT !.asked = FALSE, !.stolen = FALSE, !.told = TRUE,
                                       !.phase = next, !.timer = time]
    BY <2>1 DEF TypeOK
  <2>4. next \in {"stopping", "panicked"} /\ time \in Nat /\ time <= StopLimit
    BY <1>2, Fields, Times DEF LockInv, ToldIsStopping
  <2> HIDE DEF next, time
  <2>5. /\ worker'[w].phase = next /\ worker'[w].told /\ ~worker'[w].stolen
        /\ worker'[w].slept = worker[w].slept /\ worker'[w].timer = time
    BY <2>3, Fields DEF Worker
  <2>6. worker[w].phase \in Owning /\ worker'[w].phase \in Owning
    BY <1>2, <2>4, <2>5 DEF Owning
  <2> QED BY <1>2, <2>1, <2>2, <2>4, <2>5, <2>6, OwnerStep
<1>3. CASE ~worker[w].told /\ worker[w].phase \notin {"live", "stopping", "panicked"}
  <2>1. Close(w)
    BY <1>3 DEF Supersede
  <2> QED BY <2>1, CloseKeepsLock
<1> QED BY <1>1, <1>2, <1>3

LEMMA HangKeepsLock ==
    ASSUME TypeOK, LockInv, NEW w \in Workers, Hang(w) \/ Wake(w)
    PROVE  LockInv'
<1>1. \A u \in Workers : u # w => worker'[u] = worker[u]
  BY DEF Hang, Wake, TypeOK
<1>2. /\ worker'[w].phase = worker[w].phase /\ worker'[w].told = worker[w].told
      /\ worker'[w].stolen = worker[w].stolen /\ worker'[w].asked = worker[w].asked
      /\ worker'[w].timer = worker[w].timer /\ worker'[w].turn = worker[w].turn
      /\ Heard(w) \/ worker[w].told => worker'[w].slept = worker[w].slept
  <2> DEFINE slept == worker[w].slept /\ (Heard(w) \/ worker[w].told)
  <2>1. \/ worker'[w] = [worker[w] EXCEPT !.hung = TRUE]
        \/ worker'[w] = [worker[w] EXCEPT !.hung = FALSE, !.slept = slept]
    BY DEF Hang, Wake, TypeOK
  <2>2. Heard(w) \/ worker[w].told => slept = worker[w].slept
    BY Fields
  <2> HIDE DEF slept
  <2> QED BY <2>1, <2>2, Fields DEF Worker
<1>3. \A u \in Workers : Excused(u) => Excused(u)'
  BY <1>1, <1>2 DEF Excused, Heard
<1>4. UNCHANGED lock
  BY DEF Hang, Wake
<1>5. RobbedIsExcused' /\ ToldIsStopping' /\ WaiterIsQueued'
  BY <1>1, <1>2, <1>4 DEF LockInv, RobbedIsExcused, ToldIsStopping, WaiterIsQueued, Heard
<1>6. \A u, v \in Workers : Ahead(v, u) /\ Clears(v, u) => Clears(v, u)'
  BY <1>1, <1>2, <1>3 DEF Clears
<1>7. \A u \in Workers :
         /\ worker'[u].phase = "waiting" <=> worker[u].phase = "waiting"
         /\ worker'[u].phase \in Owning <=> worker[u].phase \in Owning
         /\ worker'[u].stolen => worker[u].stolen
         /\ worker[u].phase = "waiting" => worker'[u].turn = worker[u].turn
  BY <1>1, <1>2
<1> QED BY <1>3, <1>4, <1>5, <1>6, <1>7, QuietStep
\* The clock moves only when whoever can hear has heard, so who is still asked sleeps.
LEMMA TickKeepsLock ==
    ASSUME TypeOK, LockInv, Tick
    PROVE  LockInv'
<1>1. ASSUME NEW u \in Workers
      PROVE  /\ worker'[u].phase = worker[u].phase /\ worker'[u].told = worker[u].told
             /\ worker'[u].stolen = worker[u].stolen /\ worker'[u].asked = worker[u].asked
             /\ worker'[u].turn = worker[u].turn
             /\ worker'[u].timer = IF Timed(u) THEN worker[u].timer - 1 ELSE worker[u].timer
             /\ worker'[u].slept <=> worker[u].slept \/ worker[u].hung
             /\ worker[u].timer \in Nat
  <2> DEFINE left == IF Timed(u) THEN worker[u].timer - 1 ELSE worker[u].timer
             slept == worker[u].slept \/ worker[u].hung
  <2>1. worker'[u] = [worker[u] EXCEPT !.timer = left, !.slept = slept]
    BY DEF Tick
  <2>2. /\ worker'[u].phase = worker[u].phase /\ worker'[u].told = worker[u].told
        /\ worker'[u].stolen = worker[u].stolen /\ worker'[u].asked = worker[u].asked
        /\ worker'[u].turn = worker[u].turn /\ worker'[u].timer = left
        /\ worker'[u].slept = slept
    <3> HIDE DEF left, slept
    <3> QED BY <2>1, Fields DEF Worker
  <2>3. worker[u].timer \in Nat
    BY Fields, Times
  <2>4. worker'[u].slept <=> worker[u].slept \/ worker[u].hung
    BY <2>2, Zenon
  <2>5. worker'[u].timer = IF Timed(u) THEN worker[u].timer - 1 ELSE worker[u].timer
    BY <2>2
  <2> HIDE DEF left, slept
  <2> QED BY <2>2, <2>3, <2>4, <2>5
<1>2. \A u \in Workers : Excused(u) => Excused(u)'
  BY <1>1 DEF Excused, Heard
<1>3. UNCHANGED lock
  BY DEF Tick
<1>4. RobbedIsExcused' /\ WaiterIsQueued'
  BY <1>1, <1>3 DEF LockInv, RobbedIsExcused, WaiterIsQueued
<1>5. ToldIsStopping'
  BY <1>1, Times DEF LockInv, ToldIsStopping, Timed
<1>6. \A u \in Workers :
         /\ worker'[u].phase = "waiting" <=> worker[u].phase = "waiting"
         /\ worker'[u].phase \in Owning <=> worker[u].phase \in Owning
         /\ worker'[u].stolen => worker[u].stolen
         /\ worker[u].phase = "waiting" => worker'[u].turn = worker[u].turn
  BY <1>1
<1>7. ASSUME NEW u \in Workers, NEW v \in Workers, Ahead(v, u), Clears(v, u)
      PROVE  Clears(v, u)'
  <2>1. worker[u].phase = "waiting" /\ worker[v].phase \in Contending
    BY <1>7, Contenders
  <2>2. CASE Excused(v) \/ Excused(u)
    BY <1>2, <2>2 DEF Clears
  <2>3. CASE worker[v].hung /\ (Heard(v) \/ worker[v].told)
    BY <1>1, <2>3 DEF Clears, Excused, Heard
  <2>4. CASE ~worker[v].hung \/ ~(Heard(v) \/ worker[v].told)
    <3>1. ~Urgent(v)
      BY DEF Tick
    <3>2. CASE worker[v].asked
      BY <2>1, <2>4, <3>1, <3>2 DEF Urgent, Heard, CanRun, Running, Contending, Owning
    <3>3. CASE worker[v].told /\ worker[v].timer < worker[u].timer
      <4>1. CanRun(v)
        BY <2>1, <2>4, <3>3 DEF CanRun, Running, Contending, Owning
      <4>2. worker[v].phase = "stopping" /\ worker[v].timer # 0
        BY <3>1, <3>3, <4>1 DEF Urgent, LockInv, ToldIsStopping
      <4>3. Timed(v) /\ Timed(u)
        BY <1>1, <2>1, <3>3, <4>2 DEF Timed
      <4> QED BY <1>1, <3>3, <4>3 DEF Clears
    <3>4. CASE Excused(v) \/ Excused(u)
      BY <1>2, <3>4 DEF Clears
    <3> QED BY <1>7, <3>2, <3>3, <3>4 DEF Clears
  <2> QED BY <2>2, <2>3, <2>4
<1> QED BY <1>2, <1>3, <1>4, <1>5, <1>6, <1>7, QuietStep

LEMMA NextKeepsLock ==
    ASSUME TypeOK, LockInv, Next
    PROVE  LockInv'
<1>1. CASE Tick
  BY <1>1, TickKeepsLock
<1>2. ASSUME NEW w \in Workers, WorkerWork(w)
      PROVE  LockInv'
  BY <1>2, OpenChannelKeepsLock, ClaimKeepsLock, OwnKeepsLock, StealKeepsLock, SupersedeKeepsLock,
     StartCoreKeepsLock, CloseKeepsLock DEF WorkerWork, Stop, ClosePanicked
<1>3. ASSUME NEW p \in Pages, PageWork(p)
      PROVE  LockInv'
  <2>1. UNCHANGED <<worker, lock>>
    BY <1>3 DEF PageWork, HearPanic, HearSuperseded, Stall, Join, Responsive, Clear, Cleared
  <2> QED BY <2>1, NobodyMoves
<1>4. ASSUME NEW p \in Pages, Open(p) \/ Reconnect(p) \/ Leave(p) \/ Reset(p)
      PROVE  LockInv'
  <2>1. CASE Open(p)
    <3>1. PICK build \in mode.builds[p] : Attach(p, build, {})
      BY <2>1 DEF Open
    <3>2. build \in Nat
      BY ModesAssumption DEF TypeOK, Mode
    <3> QED BY <3>1, <3>2, AttachKeepsLock
  <2>2. CASE Reconnect(p)
    <3>1. page[p].build \in Nat
      BY DEF TypeOK, Page
    <3> QED BY <2>2, <3>1, AttachKeepsLock DEF Reconnect
  <2>3. CASE Leave(p)
    BY <2>3, NobodyMoves DEF Leave
  <2>4. CASE Reset(p)
    BY <2>4, ResetKeepsLock
  <2> QED BY <1>4, <2>1, <2>2, <2>3, <2>4
<1>5. ASSUME NEW w \in Workers,
             Panic(w) \/ FailToLoad(w) \/ Hang(w) \/ Wake(w) \/ Kill(w) \/ Abandon(w)
      PROVE  LockInv'
  BY <1>5, PanicKeepsLock, HangKeepsLock, CloseKeepsLock DEF FailToLoad, Kill, Abandon
<1> QED BY <1>1, <1>2, <1>3, <1>4, <1>5 DEF Next, Work, Choices, Faults
-----------------------------------------------------------------------------
(* The pages                                                               *)

\* Once a worker is started it stays that of its generation.
Stays(w) == worker[w].phase # "none" =>
               worker'[w].phase # "none" /\ worker'[w].gen = worker[w].gen

LEMMA CloseStays ==
    ASSUME TypeOK, NEW w \in Workers, Close(w), NEW u \in Workers
    PROVE  Stays(u)
BY DEF TypeOK, Close, NoWorker, Stays

LEMMA AttachStays ==
    ASSUME TypeOK, NEW p \in Pages, NEW build, NEW failed, Attach(p, build, failed),
           NEW u \in Workers
    PROVE  Stays(u)
BY DEF TypeOK, Attach, Unused, Stays

LEMMA WorkersStay ==
    ASSUME TypeOK, Next, NEW u \in Workers
    PROVE  Stays(u)
<1>1. CASE Tick
  <2>1. worker'[u] = [worker[u] EXCEPT !.timer = IF Timed(u) THEN @ - 1 ELSE @,
                                       !.slept = @ \/ worker[u].hung]
    BY <1>1 DEF Tick
  <2> QED BY <2>1, Fields DEF Stays, Worker
<1>2. ASSUME NEW w \in Workers, WorkerWork(w)
      PROVE  Stays(u)
  <2>1. CASE OpenChannel(w)
    BY <2>1 DEF OpenChannel, TypeOK, Worker, Stays
  <2>2. CASE Claim(w)
    <3> DEFINE asked == worker[u].asked \/ HasChannel(u)
    <3>1. PICK turn : worker' = [v \in Workers |->
                          IF v = w THEN [worker[v] EXCEPT !.phase = "waiting", !.turn = turn,
                                                          !.timer = StealAfter]
                          ELSE [worker[v] EXCEPT !.asked = @ \/ HasChannel(v)]]
      BY <2>2 DEF Claim
    <3>2. \/ worker'[u] = [worker[u] EXCEPT !.phase = "waiting", !.turn = turn,
                                            !.timer = StealAfter]
          \/ worker'[u] = [worker[u] EXCEPT !.asked = asked]
      BY <3>1
    <3> HIDE DEF asked
    <3> QED BY <3>2, Fields DEF Stays, Worker
  <2>3. CASE Own(w)
    <3>1. \/ worker'[u] = worker[u]
          \/ worker'[u] = [worker[u] EXCEPT !.phase = "owned", !.turn = 0, !.timer = 0]
      BY <2>3 DEF Own, TypeOK
    <3> QED BY <3>1, Fields DEF Stays, Worker
  <2>4. CASE Steal(w)
    <3>1. \/ worker'[u] = worker[u]
          \/ worker'[u] = [worker[u] EXCEPT !.phase = "stealing"]
          \/ worker'[u] = [worker[u] EXCEPT !.stolen = TRUE, !.slept = @ \/ worker[w].slept]
      BY <2>4 DEF Steal
    <3> QED BY <3>1, Fields DEF Stays, Worker
  <2>5. CASE Supersede(w)
    <3>1. CASE worker[w].told
      <4>1. \/ worker'[u] = worker[u]
            \/ worker'[u] = [worker[u] EXCEPT !.asked = FALSE, !.stolen = FALSE]
        BY <2>5, <3>1 DEF Supersede, TypeOK
      <4> QED BY <4>1, Fields DEF Stays, Worker
    <3>2. CASE ~worker[w].told /\ worker[w].phase \in {"live", "stopping", "panicked"}
      <4> DEFINE live == worker[w].phase = "live"
                 next == IF live THEN "stopping" ELSE worker[w].phase
                 time == IF live THEN StopLimit ELSE worker[w].timer
      <4>1. worker' = [worker EXCEPT ![w] =
                         [worker[w] EXCEPT !.asked = FALSE, !.stolen = FALSE, !.told = TRUE,
                                           !.phase = next, !.timer = time]]
        BY <2>5, <3>2 DEF Supersede
      <4>2. next # "none"
        BY <3>2
      <4> HIDE DEF next, time
      <4>3. \/ worker'[u] = worker[u]
            \/ worker'[u] = [worker[u] EXCEPT !.asked = FALSE, !.stolen = FALSE, !.told = TRUE,
                                              !.phase = next, !.timer = time]
        BY <4>1 DEF TypeOK
      <4> QED BY <4>2, <4>3, Fields DEF Stays, Worker
    <3>3. CASE ~worker[w].told /\ worker[w].phase \notin {"live", "stopping", "panicked"}
      BY <2>5, <3>3, CloseStays DEF Supersede
    <3> QED BY <3>1, <3>2, <3>3
  <2>6. CASE StartCore(w)
    BY <2>6 DEF StartCore, TypeOK, Worker, Stays
  <2>7. CASE Stop(w) \/ ClosePanicked(w)
    BY <2>7, CloseStays DEF Stop, ClosePanicked
  <2> QED BY <1>2, <2>1, <2>2, <2>3, <2>4, <2>5, <2>6, <2>7 DEF WorkerWork
<1>3. ASSUME NEW p \in Pages, PageWork(p)
      PROVE  Stays(u)
  BY <1>3 DEF PageWork, HearPanic, HearSuperseded, Stall, Join, Responsive, Clear, Cleared, Stays
<1>4. ASSUME NEW p \in Pages, Open(p) \/ Reconnect(p) \/ Leave(p) \/ Reset(p)
      PROVE  Stays(u)
  <2>1. CASE Open(p) \/ Reconnect(p)
    BY <2>1, AttachStays DEF Open, Reconnect
  <2>2. CASE Leave(p)
    BY <2>2 DEF Leave, Stays
  <2>3. CASE Reset(p)
    <3>1. PICK w \in Workers : ResetAt(p, w)
      BY <2>3, ResetIs
    <3>2. CASE Close(w)
      BY <3>2, CloseStays
    <3>3. CASE ~Close(w)
      <4>1. \/ worker'[u] = worker[u]
            \/ worker'[u] = [worker[u] EXCEPT !.phase = "stopping", !.timer = StopLimit]
        BY <3>1, <3>3 DEF ResetAt, TypeOK
      <4> QED BY <4>1, Fields DEF Stays, Worker
    <3> QED BY <3>2, <3>3
  <2> QED BY <1>4, <2>1, <2>2, <2>3
<1>5. ASSUME NEW w \in Workers,
             Panic(w) \/ FailToLoad(w) \/ Hang(w) \/ Wake(w) \/ Kill(w) \/ Abandon(w)
      PROVE  Stays(u)
  <2>1. CASE Panic(w)
    <3>1. \/ worker'[u] = worker[u]
          \/ worker'[u] = [worker[u] EXCEPT !.phase = "panicked", !.timer = 0]
      BY <2>1 DEF Panic, TypeOK
    <3> QED BY <3>1, Fields DEF Stays, Worker
  <2>2. CASE Hang(w) \/ Wake(w)
    <3> DEFINE slept == worker[w].slept /\ (Heard(w) \/ worker[w].told)
    <3>1. \/ worker'[u] = worker[u]
          \/ worker'[u] = [worker[u] EXCEPT !.hung = TRUE]
          \/ worker'[u] = [worker[u] EXCEPT !.hung = FALSE, !.slept = slept]
      BY <2>2 DEF Hang, Wake, TypeOK
    <3> HIDE DEF slept
    <3> QED BY <3>1, Fields DEF Stays, Worker
  <2> QED BY <1>5, <2>1, <2>2, CloseStays DEF FailToLoad, Kill, Abandon
<1> QED BY <1>1, <1>2, <1>3, <1>4, <1>5 DEF Next, Work, Choices, Faults
\* A page that keeps its worker, or has none any more.
PageKeeps(p) ==
    \/ /\ page'[p].at = page[p].at /\ page'[p].gen = page[p].gen
       /\ page'[p].failed = page[p].failed
       /\ page'[p].mail # "none" => page[p].at # Nobody
    \/ page'[p].at = Nobody /\ page'[p].failed = {} /\ page'[p].mail = "none"

LEMMA KeptPages ==
    ASSUME TypeOK, PagesAreBound, FailedStaysBehind, generation' = generation,
           \A w \in Workers : Stays(w), \A p \in Pages : PageKeeps(p)
    PROVE  PagesAreBound' /\ FailedStaysBehind'
<1> USE NobodyIsNoWorker
<1> SUFFICES ASSUME NEW p \in Pages
             PROVE  PageIsBound(p)' /\ page'[p].at \notin page'[p].failed
  BY DEF PagesAreBound, FailedStaysBehind
<1>1. PageIsBound(p) /\ page[p].at \notin page[p].failed
  BY DEF PagesAreBound, FailedStaysBehind
<1>2. page[p].at \in Workers \cup {Nobody} /\ page[p].failed \subseteq Workers
  BY DEF TypeOK, Page
<1>3. CASE page'[p].at = Nobody /\ page'[p].failed = {} /\ page'[p].mail = "none"
  BY <1>3 DEF PageIsBound
<1>4. CASE ~(page'[p].at = Nobody /\ page'[p].failed = {} /\ page'[p].mail = "none")
  <2>1. /\ page'[p].at = page[p].at /\ page'[p].gen = page[p].gen
        /\ page'[p].failed = page[p].failed
        /\ page'[p].mail # "none" => page[p].at # Nobody
    BY <1>4 DEF PageKeeps
  <2> QED BY <1>1, <1>2, <2>1 DEF PageIsBound, Stays
<1> QED BY <1>3, <1>4

LEMMA NoPageKeeps ==
    ASSUME TypeOK, NEW p \in Pages, NEW x, page' = [page EXCEPT ![p] = x],
           x.at = Nobody, x.failed = {}, x.mail = "none", PagesAreBound, NEW q \in Pages
    PROVE  PageKeeps(q)
BY DEF TypeOK, PageKeeps, PagesAreBound, PageIsBound

LEMMA TellKeeps ==
    ASSUME TypeOK, PagesAreBound, NEW S, \A p \in S : page[p].at # Nobody, NEW what,
           page' = Tell(S, what), NEW q \in Pages
    PROVE  PageKeeps(q)
<1>1. \/ page'[q] = page[q]
      \/ q \in S /\ page'[q] = [page[q] EXCEPT !.mail = what]
  BY DEF Tell
<1>2. page[q] \in Page
  BY DEF TypeOK
<1>3. page[q].mail # "none" => page[q].at # Nobody
  BY DEF PagesAreBound, PageIsBound
<1> QED BY <1>1, <1>2, <1>3 DEF PageKeeps, Page

LEMMA SamePages ==
    ASSUME TypeOK, PagesAreBound, page' = page, NEW q \in Pages
    PROVE  PageKeeps(q)
BY DEF PageKeeps, PagesAreBound, PageIsBound

LEMMA AttachBinds ==
    ASSUME TypeOK, PagesAreBound, FailedStaysBehind, \A w \in Workers : Stays(w),
           NEW p \in Pages, NEW build, NEW failed \in SUBSET Workers,
           \A w \in failed : worker[w].phase # "none" /\ worker[w].gen < generation,
           Attach(p, build, failed)
    PROVE  PagesAreBound' /\ FailedStaysBehind'
<1> USE NobodyIsNoWorker
<1>1. PICK w \in Workers :
        /\ w \in Named(build, generation) \/ w \in Unused
        /\ page' = [page EXCEPT ![p] = [NoPage EXCEPT !.state = "open", !.build = build, !.at = w,
                                                      !.gen = generation, !.failed = failed]]
        /\ worker' = IF w \in Unused
                     THEN [worker EXCEPT ![w] = [NoWorker EXCEPT !.phase = "fetching",
                                                     !.build = build, !.gen = generation]]
                     ELSE worker
  BY DEF Attach, Named, Unused
<1>2. generation' = generation /\ generation \in Nat
  BY DEF Attach, TypeOK
<1>3. worker'[w].phase # "none" /\ worker'[w].gen = generation
  BY <1>1 DEF TypeOK, NoWorker, Named, Running, Unused
<1>4. /\ page'[p].at = w /\ page'[p].gen = generation /\ page'[p].failed = failed
      /\ page'[p].mail = "none"
  BY <1>1 DEF TypeOK, NoPage
<1>5. w \notin failed
  BY <1>1, <1>2 DEF Named, Unused
<1>6. ASSUME NEW q \in Pages, q # p
      PROVE  PageIsBound(q)' /\ page'[q].at \notin page'[q].failed
  <2>1. page'[q] = page[q] /\ page[q].at \in Workers \cup {Nobody} /\ page[q].failed \subseteq Workers
    BY <1>1, <1>6 DEF TypeOK, Page
  <2>2. PageIsBound(q) /\ page[q].at \notin page[q].failed
    BY DEF PagesAreBound, FailedStaysBehind
  <2> QED BY <1>2, <2>1, <2>2 DEF PageIsBound, Stays
<1>7. PageIsBound(p)' /\ page'[p].at \notin page'[p].failed
  BY <1>2, <1>3, <1>4, <1>5 DEF PageIsBound, Stays
<1> QED BY <1>6, <1>7 DEF PagesAreBound, FailedStaysBehind

\* Whatever other tabs have done to the generation, it is past that of the failed worker.
LEMMA PanicIsBehind ==
    ASSUME TypeOK, PagesAreBound, FailedStaysBehind, NEW p \in Pages, HearPanic(p)
    PROVE  PagesAreBound' /\ FailedStaysBehind'
<1> USE NobodyIsNoWorker
<1>1. PICK w \in Workers : w = page[p].at
  BY DEF HearPanic, PagesAreBound, PageIsBound, TypeOK, Page
<1>2. generation \in Nat /\ page[p].gen \in Nat
  BY DEF TypeOK, Page
<1>3. generation' >= generation /\ generation' > page[p].gen /\ generation' \in Nat
  BY <1>2 DEF HearPanic, Retired
<1>4. worker' = worker
  BY DEF HearPanic
<1>5. /\ page'[p].at = Nobody /\ page'[p].mail = "none"
      /\ page'[p].failed = page[p].failed \cup {w}
  BY <1>1 DEF HearPanic, TypeOK, NoPage
<1>6. worker[w].phase # "none" /\ worker[w].gen = page[p].gen
  BY <1>1 DEF PagesAreBound, PageIsBound
<1>7. \A v \in Workers : worker[v].gen \in Nat
  BY DEF TypeOK, Worker
<1>8. \A q \in Pages : page[q].failed \subseteq Workers
  BY DEF TypeOK, Page
<1>9. ASSUME NEW v \in page'[p].failed
      PROVE  worker'[v].phase # "none" /\ worker'[v].gen < generation'
  <2>1. CASE v = w
    BY <1>3, <1>4, <1>6, <2>1
  <2>2. CASE v \in page[p].failed
    BY <1>2, <1>3, <1>4, <1>7, <1>8, <2>2 DEF PagesAreBound, PageIsBound
  <2> QED BY <1>5, <2>1, <2>2
<1>10. ASSUME NEW q \in Pages, q # p
       PROVE  PageIsBound(q)' /\ page'[q].at \notin page'[q].failed
  <2>1. page'[q] = page[q]
    BY <1>10 DEF HearPanic, TypeOK
  <2>2. PageIsBound(q) /\ page[q].at \notin page[q].failed
    BY DEF PagesAreBound, FailedStaysBehind
  <2>3. \A v \in page[q].failed : worker[v].gen < generation'
    BY <1>2, <1>3, <1>7, <1>8, <2>2 DEF PageIsBound
  <2> QED BY <1>4, <2>1, <2>2, <2>3 DEF PageIsBound
<1>11. PageIsBound(p)' /\ page'[p].at \notin page'[p].failed
  BY <1>1, <1>5, <1>8, <1>9 DEF PageIsBound
<1> QED BY <1>10, <1>11 DEF PagesAreBound, FailedStaysBehind
LEMMA NextKeepsPages ==
    ASSUME TypeOK, PagesAreBound, FailedStaysBehind, Next
    PROVE  PagesAreBound' /\ FailedStaysBehind'
<1> USE NobodyIsNoWorker
<1>1. \A w \in Workers : Stays(w)
  BY WorkersStay
<1>2. CASE UNCHANGED <<page, generation>>
  BY <1>1, <1>2, SamePages, KeptPages
<1>3. ASSUME NEW p \in Pages, NEW x, page' = [page EXCEPT ![p] = x], x.at = Nobody,
             x.failed = {}, x.mail = "none", UNCHANGED generation
      PROVE  PagesAreBound' /\ FailedStaysBehind'
  BY <1>1, <1>3, NoPageKeeps, KeptPages
<1>4. ASSUME NEW S, NEW what, page' = Tell(S, what), \A p \in S : page[p].at # Nobody,
             UNCHANGED generation
      PROVE  PagesAreBound' /\ FailedStaysBehind'
  BY <1>1, <1>4, TellKeeps, KeptPages
<1>5. ASSUME NEW w \in Workers, WorkerWork(w)
      PROVE  PagesAreBound' /\ FailedStaysBehind'
  <2>1. \A p \in Ports(w) : page[p].at # Nobody
    BY DEF Ports
  <2>2. CASE Supersede(w)
    BY <1>2, <1>4, <2>1, <2>2 DEF Supersede
  <2>3. CASE Stop(w)
    <3>1. PICK heard \in SUBSET {q \in Pages : page[q].at = w /\ page[q].state = "resetting"} :
             page' = Tell(heard, "reset")
      BY <2>3 DEF Stop
    <3>2. \A p \in heard : page[p].at # Nobody
      BY <3>1
    <3> QED BY <1>2, <1>4, <2>3, <3>1, <3>2 DEF Stop
  <2>4. CASE ~Supersede(w) /\ ~Stop(w)
    BY <1>2, <1>5, <2>4 DEF WorkerWork, OpenChannel, Claim, Own, Steal, StartCore, ClosePanicked
  <2> QED BY <2>2, <2>3, <2>4
<1>6. ASSUME NEW p \in Pages, PageWork(p)
      PROVE  PagesAreBound' /\ FailedStaysBehind'
  <2>1. CASE HearPanic(p)
    BY <2>1, PanicIsBehind
  <2>2. CASE HearSuperseded(p)
    <3> DEFINE x == [NoPage EXCEPT !.state = "superseded"]
    <3>1. x.at = Nobody /\ x.failed = {} /\ x.mail = "none"
      BY DEF NoPage
    <3>2. page' = [page EXCEPT ![p] = x] /\ UNCHANGED generation
      BY <2>2 DEF HearSuperseded
    <3> HIDE DEF x
    <3> QED BY <1>3, <3>1, <3>2
  <2>3. CASE Clear(p)
    <3> DEFINE x == [NoPage EXCEPT !.state = "clearing"]
    <3>1. x.at = Nobody /\ x.failed = {} /\ x.mail = "none"
      BY DEF NoPage
    <3>2. page' = [page EXCEPT ![p] = x] /\ UNCHANGED generation
      BY <2>3 DEF Clear
    <3> HIDE DEF x
    <3> QED BY <1>3, <3>1, <3>2
  <2>4. CASE Cleared(p)
    <3> DEFINE x == NoPage
    <3>1. x.at = Nobody /\ x.failed = {} /\ x.mail = "none"
      BY DEF NoPage
    <3>2. page' = [page EXCEPT ![p] = x] /\ UNCHANGED generation
      BY <2>4 DEF Cleared
    <3> HIDE DEF x
    <3> QED BY <1>3, <3>1, <3>2
  <2>5. CASE Stall(p) \/ Join(p) \/ Responsive(p)
    <3>1. \A q \in Pages : PageKeeps(q)
      BY <2>5 DEF Stall, Join, Responsive, TypeOK, Page, PageKeeps, PagesAreBound, PageIsBound
    <3> QED BY <1>1, <2>5, <3>1, KeptPages DEF Stall, Join, Responsive
  <2> QED BY <1>6, <2>1, <2>2, <2>3, <2>4, <2>5 DEF PageWork
<1>7. ASSUME NEW p \in Pages, Open(p) \/ Reconnect(p) \/ Leave(p) \/ Reset(p)
      PROVE  PagesAreBound' /\ FailedStaysBehind'
  <2>1. CASE Open(p)
    BY <1>1, <2>1, AttachBinds DEF Open
  <2>2. CASE Reconnect(p)
    <3>1. page[p].failed \in SUBSET Workers
      BY DEF TypeOK, Page
    <3> QED BY <1>1, <2>2, <3>1, AttachBinds DEF Reconnect, PagesAreBound, PageIsBound
  <2>3. CASE Leave(p)
    <3> DEFINE x == NoPage
    <3>1. x.at = Nobody /\ x.failed = {} /\ x.mail = "none"
      BY DEF NoPage
    <3>2. page' = [page EXCEPT ![p] = x] /\ UNCHANGED generation
      BY <2>3 DEF Leave
    <3> HIDE DEF x
    <3> QED BY <1>3, <3>1, <3>2
  <2>4. CASE Reset(p)
    <3>1. PICK w \in Workers : ResetAt(p, w)
      BY <2>4, ResetIs
    <3>2. \A q \in Pages : PageKeeps(q)
      BY <3>1, NobodyIsNoWorker DEF ResetAt, TypeOK, Page, PageKeeps, PagesAreBound, PageIsBound
    <3> QED BY <1>1, <3>1, <3>2, KeptPages DEF ResetAt
  <2> QED BY <1>7, <2>1, <2>2, <2>3, <2>4
<1>8. ASSUME NEW w \in Workers,
             Panic(w) \/ FailToLoad(w) \/ Hang(w) \/ Wake(w) \/ Kill(w) \/ Abandon(w)
      PROVE  PagesAreBound' /\ FailedStaysBehind'
  <2>1. CASE Panic(w)
    <3>1. \A p \in Ports(w) : page[p].at # Nobody
      BY DEF Ports
    <3> QED BY <1>4, <2>1, <3>1 DEF Panic
  <2>2. CASE FailToLoad(w)
    <3>1. \A p \in {q \in Pages : page[q].at = w} : page[p].at # Nobody
      OBVIOUS
    <3> QED BY <1>4, <2>2, <3>1 DEF FailToLoad
  <2>3. CASE ~Panic(w) /\ ~FailToLoad(w)
    BY <1>2, <1>8, <2>3 DEF Hang, Wake, Kill, Abandon
  <2> QED BY <2>1, <2>2, <2>3
<1>9. CASE Tick
  BY <1>2, <1>9 DEF Tick
<1> QED BY <1>5, <1>6, <1>7, <1>8, <1>9 DEF Next, Work, Choices, Faults

-----------------------------------------------------------------------------
(* The theorems                                                            *)

\* At the start there are no workers, and no page has one.
LEMMA InitHolds ==
    ASSUME Init
    PROVE  IInv
<1>1. TypeOK
  <2>1. worker \in [Workers -> Worker] /\ page \in [Pages -> Page]
    BY NoWorkerTyped, NoPageTyped DEF Init
  <2> QED BY <2>1 DEF Init, TypeOK
<1>2. \A w \in Workers : worker[w] = NoWorker
  BY DEF Init
<1>3. lock.holder = Nobody /\ lock.queue = {}
  BY DEF Init
<1>4. LockInv
  BY <1>2, <1>3, NobodyIsNoWorker
     DEF LockInv, RobbedIsExcused, ToldIsStopping, LockIsHeld, WaiterIsQueued, OwnerHolds,
         AheadClears, Ahead, NoWorker, Owning
<1>5. PagesAreBound /\ FailedStaysBehind
  BY DEF Init, NoPage, PagesAreBound, PageIsBound, FailedStaysBehind
<1> QED BY <1>1, <1>4, <1>5 DEF IInv

LEMMA NextTyped ==
    ASSUME IInv, Next
    PROVE  TypeOK'
<1>1. TypeOK /\ mode' = mode
  BY DEF IInv, Next
<1> QED BY <1>1, TickTyped, WorkerWorkTyped, PageWorkTyped, ChoiceTyped, FaultTyped
        DEF Next, Work, Choices, Faults

LEMMA Inductive ==
    ASSUME IInv, [Next]_vars
    PROVE  IInv'
<1>1. CASE Next
  BY <1>1, NextTyped, NextKeepsLock, NextKeepsPages DEF IInv
<1>2. CASE UNCHANGED vars
  BY <1>2 DEF vars, IInv, TypeOK, LockInv, RobbedIsExcused, ToldIsStopping, LockIsHeld,
              WaiterIsQueued, OwnerHolds, AheadClears, Ahead, Clears, Excused, Heard,
              PagesAreBound, PageIsBound, FailedStaysBehind
<1> QED BY <1>1, <1>2

LEMMA Always == Spec => []IInv
<1>1. Init => IInv
  BY InitHolds
<1>2. IInv /\ [Next]_vars => IInv'
  BY Inductive
<1> QED BY <1>1, <1>2, PTL DEF Spec

\* Two live cores of one store are never both of workers that kept up: of any two, one
\* was hung for the time of a stop, or stole the lock as such a one.
THEOREM OneCoreHolds == Spec => []OneCore
<1>1. IInv => OneCore
  <2> SUFFICES ASSUME IInv, NEW v \in Workers, NEW w \in Workers, v # w, HasCore(v), HasCore(w)
               PROVE  worker[v].slept \/ worker[w].slept
    BY DEF OneCore
  <2>1. (v = lock.holder \/ Excused(v)) /\ (w = lock.holder \/ Excused(w))
    BY DEF IInv, LockInv, OwnerHolds, HasCore, Owning
  <2> QED BY <2>1 DEF Excused
<1> QED BY <1>1, Always, PTL

\* No page is ever given a worker again whose failure it has handled.
THEOREM FailedStaysBehindHolds == Spec => []FailedStaysBehind
<1>1. IInv => FailedStaysBehind
  BY DEF IInv
<1> QED BY <1>1, Always, PTL

\* The state has its type: the pages and the workers of any number and any builds.
THEOREM TypeCorrect == Spec => []TypeOK
<1>1. IInv => TypeOK
  BY DEF IInv
<1> QED BY <1>1, Always, PTL
=============================================================================

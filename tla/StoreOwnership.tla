--------------------------- MODULE StoreOwnership ---------------------------
(* The pages of the web app share one core, which runs in a shared worker   *)
(* and owns the stores of the browser. A page opens the worker by a name    *)
(* (its build and a generation kept in localStorage), so two builds, or a   *)
(* generation after a panic, are two workers, and claimStore lets one of    *)
(* them have the store: a newer worker asks the others to close over a      *)
(* BroadcastChannel, waits for a Web Lock, and steals it from an owner that *)
(* does not answer for 10 s. Modelled are src/worker/store-ownership.ts,    *)
(* core.worker.ts, the ports of core-worker-boundary.ts and the connection  *)
(* of src/transport/web.ts; the lock, the channel and the workers' life are *)
(* the browser's and modelled by what this code relies on.                  *)
(*                                                                          *)
(* A tick is 5 s (SHUTDOWN_LIMIT_MS); it comes only when no worker that can *)
(* run has a message, a callback or an expired timer before it. A page may  *)
(* take any time, as background tabs do. Left out: a browser without Web    *)
(* Locks, where the store is nobody's; a localStorage that cannot be        *)
(* written; requests other than the one to reset the caches.                *)
EXTENDS Integers

CONSTANTS Pages,
          MaxWorkers,     \* how many workers are ever started
          StealAfter,     \* HUNG_OWNER_MS in ticks
          StopLimit,      \* SHUTDOWN_LIMIT_MS in ticks
          Modes           \* the kinds of behaviours, see Mode
ASSUME WorkersAssumption == MaxWorkers \in Nat
ASSUME TimesAssumption == StopLimit \in Nat /\ StealAfter \in Nat /\ StopLimit < StealAfter

\* builds: those that each page may be served; hangs: how often a worker blocks; panics: how
\* often one panics or fails to load or to start; kills: how often the browser
\* ends one with its pages open; leaves, resets: whether a page may be left, and may
\* reset the caches.
Mode == [builds : [Pages -> SUBSET Nat], hangs : Nat, panics : Nat, kills : Nat, leaves : BOOLEAN, resets : BOOLEAN]
ASSUME ModesAssumption == Modes \subseteq Mode

Workers == 1 .. MaxWorkers
Nobody == 0

\* fetching: the script is not loaded; opened: the channel is open, the claim not
\* posted; stealing: the wait is aborted; owned: claimStore has resolved, the core is not constructed.
Phase == {"none", "fetching", "opened", "waiting", "stealing", "owned", "live", "stopping",
          "panicked", "closed"}
\* retry: the connection is gone, the next request makes a new one; stalled: the
\* stall is shown; superseded: closed, the page says that a newer tab runs.
State == {"away", "open", "stalled", "retry", "superseded", "resetting", "clearing"}

VARIABLES
    mode,        \* the kind of this behaviour; it never changes
    worker,      \* the workers, in the order they were started
    lock,        \* the Web Lock: who holds it, who waits for it
    page,        \* a page and its connection
    generation,  \* localStorage: sable-core-generation
    faults       \* how often a worker hung, panicked and was killed so far

vars == <<mode, worker, lock, page, generation, faults>>

NoWorker == [phase |-> "none", build |-> 0, gen |-> 0, turn |-> 0, timer |-> 0, asked |-> FALSE,
             stolen |-> FALSE, hung |-> FALSE, slept |-> FALSE, told |-> FALSE]
NoPage == [state |-> "away", build |-> 0, at |-> Nobody, gen |-> 0, joined |-> FALSE,
           mail |-> "none", failed |-> {}]

\* turn: its place among those that wait; asked: a claim of another worker waits to be
\* heard; stolen: so does the end of its lock; slept: it was hung for a tick, and is
\* or woke to hear that it is superseded, or one that did stole its lock; told: its
\* pages know that it is superseded. joined: the worker has the page's port; mail:
\* what the page will hear; failed: the workers whose failure the page has handled.
Worker == [phase : Phase, build : Nat, gen : Nat, turn : Nat, timer : 0 .. StealAfter,
           asked : BOOLEAN, stolen : BOOLEAN, hung : BOOLEAN, slept : BOOLEAN, told : BOOLEAN]
Page == [state : State, build : Nat, at : Workers \cup {Nobody}, gen : Nat,
         joined : BOOLEAN, mail : {"none", "panic", "superseded", "reset"},
         failed : SUBSET Workers]

TypeOK ==
    /\ mode \in Modes
    /\ worker \in [Workers -> Worker]
    /\ lock \in [holder : Workers \cup {Nobody}, queue : SUBSET Workers]
    /\ page \in [Pages -> Page]
    /\ generation \in Nat
    /\ faults \in [hangs : Nat, panics : Nat, kills : Nat]

Init ==
    /\ mode \in Modes
    /\ worker = [w \in Workers |-> NoWorker]
    /\ lock = [holder |-> Nobody, queue |-> {}]
    /\ page = [p \in Pages |-> NoPage]
    /\ generation = 0
    /\ faults = [hangs |-> 0, panics |-> 0, kills |-> 0]

----------------------------------------------------------------------------
(* What the browser does.                                                   *)

Running(w) == worker[w].phase \notin {"none", "closed"}
CanRun(w) == Running(w) /\ ~worker[w].hung
HasChannel(w) == Running(w) /\ worker[w].phase # "fetching"

\* The lock without w: its next holder is who claimed it first.
Release(w) ==
    LET left == lock.queue \ {w} IN
    IF lock.holder # w THEN lock' = [lock EXCEPT !.queue = left]
    ELSE IF left = {} THEN lock' = [lock EXCEPT !.holder = Nobody]
    ELSE \E next \in left :
            /\ \A v \in left : worker[next].turn <= worker[v].turn
            /\ lock' = [lock EXCEPT !.holder = next, !.queue = left \ {next}]

\* Closing lets go of the lock, of the channel and of all that waited to be heard.
Close(w) ==
    /\ worker' = [worker EXCEPT ![w] = [NoWorker EXCEPT !.phase = "closed", !.build = worker[w].build,
                                                        !.gen = worker[w].gen]]
    /\ Release(w)

\* The worker of a name, if it runs.
Named(build, gen) ==
    {w \in Workers : Running(w) /\ worker[w].build = build /\ worker[w].gen = gen}
Unused == {w \in Workers : worker[w].phase = "none"}

----------------------------------------------------------------------------
(* Messages of a worker to its pages. A page hears the first one that ends  *)
(* its connection; what comes after it is for a port it has closed.         *)

Ports(w) == {p \in Pages : page[p].at = w /\ page[p].joined}
Tell(pages, what) ==
    [p \in Pages |-> IF p \in pages /\ page[p].mail = "none"
                     THEN [page[p] EXCEPT !.mail = what] ELSE page[p]]

----------------------------------------------------------------------------
(* Pages.                                                                   *)

\* new SharedWorker(url, name): the one that runs, or a new one.
Attach(p, build, failed) ==
    \E w \in IF Named(build, generation) # {} THEN Named(build, generation)
             ELSE {v \in Unused : \A u \in Unused : v <= u} :
       /\ page' = [page EXCEPT ![p] = [NoPage EXCEPT !.state = "open", !.build = build, !.at = w,
                                                     !.gen = generation, !.failed = failed]]
       /\ worker' = IF w \in Unused
                    THEN [worker EXCEPT ![w] = [NoWorker EXCEPT !.phase = "fetching",
                                                    !.build = build, !.gen = generation]]
                    ELSE worker
       /\ UNCHANGED <<lock, generation, faults>>

\* A page is opened or loaded again, with whatever build it is served.
Open(p) == /\ page[p].state \in {"away", "superseded", "stalled"}
           /\ page[p].state # "away" => page[p].mail = "none"
           /\ \E build \in mode.builds[p] : Attach(p, build, {})

\* The user goes on after a panic: the next request connects again.
Reconnect(p) == page[p].state = "retry" /\ Attach(p, page[p].build, page[p].failed)

\* pagehide, or close(): the port is given back.
Leave(p) == /\ mode.leaves
            /\ page[p].state \in {"open", "stalled"}
            /\ page' = [page EXCEPT ![p] = NoPage]
            /\ UNCHANGED <<worker, lock, generation, faults>>

\* mutant
RetiredBelow(used) == IF generation < used THEN used + 1 ELSE generation
\* retireGeneration(used)
Retired(used) == IF generation <= used THEN used + 1 ELSE generation

\* handleCrash: retire the worker and its name.
HearPanic(p) ==
    /\ page[p].mail = "panic"
    /\ generation' = Retired(page[p].gen)
    /\ page' = [page EXCEPT ![p] = [NoPage EXCEPT !.state = "retry", !.build = page[p].build,
                                        !.failed = page[p].failed \cup {page[p].at}]]
    /\ UNCHANGED <<worker, lock, faults>>

\* handleSuperseded: connecting again would claim the store back.
HearSuperseded(p) ==
    /\ page[p].mail = "superseded"
    /\ page' = [page EXCEPT ![p] = [NoPage EXCEPT !.state = "superseded"]]
    /\ UNCHANGED <<worker, lock, generation, faults>>

\* A request is overdue and so is the pong: the worker is closed, or hung.
Stall(p) ==
    /\ page[p].state = "open" /\ page[p].mail = "none"
    /\ ~CanRun(page[p].at) \/ worker[page[p].at].phase = "fetching"
    /\ page' = [page EXCEPT ![p].state = "stalled"]
    /\ UNCHANGED <<worker, lock, generation, faults>>

\* markWorkerResponsive
Responsive(p) ==
    /\ page[p].state = "stalled" /\ page[p].joined
    /\ CanRun(page[p].at)
    /\ page' = [page EXCEPT ![p].state = "open"]
    /\ UNCHANGED <<worker, lock, generation, faults>>

----------------------------------------------------------------------------
(* Workers: claimStore.                                                     *)

\* The script is loaded: claimStore opens the channel ...
OpenChannel(w) ==
    /\ worker[w].phase = "fetching"
    /\ worker' = [worker EXCEPT ![w].phase = "opened"]
    /\ UNCHANGED <<lock, page, generation, faults>>

\* ... asks whoever has it open to close, and for the lock.
Claim(w) ==
    /\ worker[w].phase = "opened" /\ CanRun(w)
    /\ \E turn \in {1} \cup {worker[v].turn + 1 : v \in lock.queue} :
          /\ \A v \in lock.queue : worker[v].turn < turn
          /\ worker' = [v \in Workers |->
                          IF v = w THEN [worker[v] EXCEPT !.phase = "waiting", !.turn = turn,
                                                          !.timer = StealAfter]
                          ELSE [worker[v] EXCEPT !.asked = @ \/ HasChannel(v)]]
    /\ lock' = IF lock.holder = Nobody THEN [lock EXCEPT !.holder = w]
               ELSE [lock EXCEPT !.queue = @ \cup {w}]
    /\ UNCHANGED <<page, generation, faults>>

\* hold(): the lock is granted; it may have been stolen again since.
Granted(w) == lock.holder = w \/ worker[w].stolen
Own(w) ==
    /\ worker[w].phase \in {"waiting", "stealing"} /\ Granted(w) /\ CanRun(w)
    /\ worker' = [worker EXCEPT ![w].phase = "owned", ![w].turn = 0, ![w].timer = 0]
    /\ UNCHANGED <<lock, page, generation, faults>>

\* mutant
StealIfFree(w) ==
    /\ worker[w].phase = "waiting" /\ worker[w].timer = 0 /\ CanRun(w)
    /\ lock.holder = Nobody
    /\ lock' = [lock EXCEPT !.holder = w, !.queue = @ \ {w}]
    /\ UNCHANGED <<worker, page, generation, faults>>

\* The wait is over: abort it and steal the lock.
Steal(w) ==
    /\ worker[w].phase = "waiting" /\ worker[w].timer = 0 /\ CanRun(w)
    /\ lock.holder # w
    /\ lock' = [lock EXCEPT !.holder = w, !.queue = @ \ {w}]
    /\ worker' = [v \in Workers |->
                    IF v = w THEN [worker[v] EXCEPT !.phase = "stealing"]
                    ELSE IF v # lock.holder THEN worker[v]
                    ELSE [worker[v] EXCEPT !.stolen = TRUE, !.slept = @ \/ worker[w].slept]]
    /\ UNCHANGED <<page, generation, faults>>

\* mutant
HeardStolen(w) == worker[w].stolen

\* onSuperseded, once: tell the pages and stop the core, at most StopLimit; a core
\* that was never constructed needs no stop. A claim or the loss of the lock.
Heard(w) == worker[w].asked \/ worker[w].stolen
Supersede(w) ==
    /\ CanRun(w) /\ Heard(w)
    /\ worker[w].phase # "opened"            \* its claim is posted in the same task
    /\ IF worker[w].told
       THEN /\ worker' = [worker EXCEPT ![w].asked = FALSE, ![w].stolen = FALSE]
            /\ UNCHANGED <<lock, page>>
       ELSE /\ page' = Tell(Ports(w), "superseded")
            /\ IF worker[w].phase \in {"live", "stopping", "panicked"}
               THEN /\ worker' = [worker EXCEPT
                         ![w].asked = FALSE, ![w].stolen = FALSE, ![w].told = TRUE,
                         ![w].phase = IF @ = "live" THEN "stopping" ELSE @,
                         ![w].timer = IF worker[w].phase = "live" THEN StopLimit ELSE @]
                    /\ UNCHANGED lock
               ELSE Close(w)
    /\ UNCHANGED <<generation, faults>>

----------------------------------------------------------------------------
(* Workers: the core and its pages.                                         *)

\* init() and new SableCore.
StartCore(w) ==
    /\ worker[w].phase = "owned" /\ CanRun(w)
    /\ worker' = [worker EXCEPT ![w].phase = "live"]
    /\ UNCHANGED <<lock, page, generation, faults>>

\* shutdown() is through, or has taken StopLimit: close. A page that asked for the
\* reset is answered, unless another that asked, or a newer worker that was heard,
\* closed this one first.
Stop(w) ==
    /\ worker[w].phase = "stopping" /\ CanRun(w)
    /\ LET askers == {p \in Pages : page[p].at = w /\ page[p].state = "resetting"}
       IN \E heard \in SUBSET askers :
             /\ heard # {} \/ worker[w].told \/ askers = {}
             /\ page' = Tell(heard, "reset")
    /\ Close(w)
    /\ UNCHANGED <<generation, faults>>

\* crash(): tell the pages; the worker closes in a task of its own.
Panic(w) ==
    /\ faults.panics < mode.panics
    /\ worker[w].phase \in {"owned", "live", "stopping"} /\ CanRun(w)
    /\ faults' = [faults EXCEPT !.panics = @ + 1]
    /\ worker' = [worker EXCEPT ![w].phase = "panicked", ![w].timer = 0]
    /\ page' = Tell(Ports(w), "panic")
    /\ UNCHANGED <<lock, generation>>

ClosePanicked(w) ==
    /\ worker[w].phase = "panicked" /\ CanRun(w)
    /\ Close(w)
    /\ UNCHANGED <<page, generation, faults>>

\* The script does not load: the browser tells the pages, joined or not.
FailToLoad(w) ==
    /\ faults.panics < mode.panics
    /\ worker[w].phase = "fetching"
    /\ faults' = [faults EXCEPT !.panics = @ + 1]
    /\ page' = Tell({p \in Pages : page[p].at = w}, "panic")
    /\ Close(w)
    /\ UNCHANGED generation

\* onconnect: boundary.connect.
Join(p) ==
    /\ page[p].state \in {"open", "stalled"} /\ ~page[p].joined
    /\ CanRun(page[p].at) /\ HasChannel(page[p].at)
    /\ page' = [page EXCEPT ![p].joined = TRUE]
    /\ UNCHANGED <<worker, lock, generation, faults>>

\* reset: the only page, whose port is closed; it is answered, and the worker closed,
\* when the core has stopped, and at once if none was constructed.
Reset(p) == \E w \in Workers :
    LET asking == [page EXCEPT ![p].state = "resetting", ![p].joined = FALSE] IN
    /\ mode.resets
    /\ page[p].state = "open" /\ page[p].mail = "none"
    /\ page[p].at = w /\ CanRun(w)
    /\ Ports(w) = {p}
    /\ \/ /\ worker[w].phase = "live"
          /\ worker' = [worker EXCEPT ![w].phase = "stopping", ![w].timer = StopLimit]
          /\ page' = asking
          /\ UNCHANGED lock
       \/ /\ worker[w].phase \in {"stopping", "panicked"}
          /\ page' = asking
          /\ UNCHANGED <<worker, lock>>
       \/ /\ worker[w].phase \in {"waiting", "stealing", "owned", "panicked"}
          /\ page' = [asking EXCEPT ![p].mail = "reset"]
          /\ Close(w)
    /\ UNCHANGED <<generation, faults>>

\* resetCaches goes on: the transport is closed and the databases are deleted.
Clear(p) ==
    /\ page[p].mail = "reset"
    /\ page' = [page EXCEPT ![p] = [NoPage EXCEPT !.state = "clearing"]]
    /\ UNCHANGED <<worker, lock, generation, faults>>

\* The page loads again, when the databases are deleted.
Cleared(p) ==
    /\ page[p].state = "clearing"
    /\ page' = [page EXCEPT ![p] = NoPage]
    /\ UNCHANGED <<worker, lock, generation, faults>>

----------------------------------------------------------------------------
(* Workers: what befalls them.                                              *)

\* The event loop is blocked, or the worker is suspended.
Hang(w) ==
    /\ faults.hangs < mode.hangs
    /\ CanRun(w) /\ HasChannel(w)
    /\ faults' = [faults EXCEPT !.hangs = @ + 1]
    /\ worker' = [worker EXCEPT ![w].hung = TRUE]
    /\ UNCHANGED <<lock, page, generation>>

Wake(w) ==
    /\ worker[w].hung
    /\ worker' = [worker EXCEPT ![w].hung = FALSE,
                                ![w].slept = @ /\ (Heard(w) \/ worker[w].told)]
    /\ UNCHANGED <<lock, page, generation, faults>>

\* The browser ends a worker, of whose pages none hears of it.
Kill(w) ==
    /\ faults.kills < mode.kills
    /\ Running(w)
    /\ faults' = [faults EXCEPT !.kills = @ + 1]
    /\ Close(w)
    /\ UNCHANGED <<page, generation>>

\* A worker without pages ends.
Abandon(w) ==
    /\ Running(w)
    /\ \A p \in Pages : page[p].at # w
    /\ Close(w)
    /\ UNCHANGED <<page, generation, faults>>

\* What a worker has to do in this tick.
Urgent(w) ==
    /\ CanRun(w)
    /\ \/ worker[w].phase \in {"opened", "panicked"}
       \/ Heard(w)
       \/ worker[w].phase = "waiting" /\ (lock.holder = w \/ worker[w].timer = 0)
       \/ worker[w].phase = "stealing"
       \/ worker[w].phase = "stopping" /\ worker[w].timer = 0

Timed(w) == worker[w].phase \in {"waiting", "stopping"} /\ worker[w].timer > 0

Tick ==
    /\ \A w \in Workers : ~Urgent(w)
    /\ \E w \in Workers : Timed(w)
    /\ worker' = [w \in Workers |->
                    [worker[w] EXCEPT !.timer = IF Timed(w) THEN @ - 1 ELSE @,
                                      !.slept = @ \/ worker[w].hung]]
    /\ UNCHANGED <<lock, page, generation, faults>>

----------------------------------------------------------------------------
(* Work is what the code and the browser do unasked; a page decides for     *)
(* itself to open, to go on, to leave and to reset.                         *)

WorkerWork(w) == OpenChannel(w) \/ Claim(w) \/ Own(w) \/ Steal(w) \/ Supersede(w)
                   \/ StartCore(w) \/ Stop(w) \/ ClosePanicked(w)
PageWork(p) == HearPanic(p) \/ HearSuperseded(p) \/ Stall(p) \/ Join(p) \/ Responsive(p)
                 \/ Clear(p) \/ Cleared(p)
Work == Tick \/ (\E w \in Workers : WorkerWork(w)) \/ (\E p \in Pages : PageWork(p))
Choices == \E p \in Pages : Open(p) \/ Reconnect(p) \/ Leave(p) \/ Reset(p)
Faults == \E w \in Workers : Panic(w) \/ FailToLoad(w) \/ Hang(w) \/ Wake(w) \/ Kill(w) \/ Abandon(w)

Next == (Work \/ Choices \/ Faults) /\ mode' = mode

Fairness == /\ WF_vars((Tick \/ \E w \in Workers : WorkerWork(w)) /\ mode' = mode)
            /\ \A p \in Pages : WF_vars(PageWork(p) /\ mode' = mode)
Spec == Init /\ [][Next]_vars
FairSpec == Spec /\ Fairness

----------------------------------------------------------------------------
(* What the ownership is for.                                               *)

\* Two live cores on one store corrupt Olm sessions (store-ownership.ts:7): there
\* are two only when one of them was hung for the time of a stop, and so had its
\* lock stolen, or when such a one stole the lock before it heard that it is superseded.
HasCore(w) == worker[w].phase \in {"live", "stopping", "panicked"}
OneCore ==
    \A v, w \in Workers :
       v # w /\ HasCore(v) /\ HasCore(w) => worker[v].slept \/ worker[w].slept

\* A worker that panicked cannot be reused (web.ts:95): a page that has heard of
\* the failure of a worker never gets that worker again, by whatever tabs retire
\* the name and open the next one meanwhile.
FailedStaysBehind == \A p \in Pages : page[p].at \notin page[p].failed

\* A page that waits for the core gets to a live one, or is told why not: a newer
\* tab, a panic, a core that does not respond. It waits neither for an owner that
\* hangs nor for a worker that is gone.
Served(p) == page[p].joined /\ worker[page[p].at].phase = "live"
NobodyLeftSilent ==
    \A p \in Pages : page[p].state = "open" ~> (page[p].state # "open" \/ Served(p))
=============================================================================

# Sable: verification project

TLA+ models of sable-next's own protocol logic, the TLC configurations that check
them, and TLAPS proofs about them. Most of the code is `crates/sable-core` (Rust), the
engine every Sable client runs, natively, in a browser worker, or behind
`sable-server`; two parts are TypeScript of the web app. Source paths below are relative to
`src/crates/sable-core/src/`, or begin with `src/`.

## 1. The system

Sable is a Matrix client. The SDK (`matrix-sdk`) does rooms, sync and end to end
encryption; it is not part of the repository. What is Sable's own is a set of small
protocols that several devices of several users, or several tabs of one browser, run
against each other, over a homeserver that loses, delays, repeats and reorders.

| part | state it keeps | operations | hard because |
|---|---|---|---|
| **call keys, sending** (`calls/keys.rs`, `publish_update` in `calls/runtime.rs`) | the outbound key: index, age, who has it, who missed it; announced keys waiting to be used | `roll` (share, rotate, defer), one send per roll | the roster is read before the send, a send fails or fails to report, rotation races the delay before use |
| **call keys, receiving** (`receive_call_key`, `emit_pending`) | roster, waiting keys, last key per sender and index | receive, refresh | keys and memberships arrive in any order, indices are few and start over |
| **sticky memberships** (`calls/membership.rs`, `calls/sticky.rs`) | one entry per sender, key and format; redactions | apply (plain, untrusted, authenticated), redact, members | events late, repeated, reordered, expired, authenticated afterwards |
| **call lifecycle, one call** (`calls/runtime.rs`, `calls/mod.rs`) | the membership on the server, the delayed leave and its id, the update and postpone loops, a mutex between them | join, refresh, renew, protect, restore, encrypted refresh, postpone, screen share, hang up | four tasks over one mutex, requests lost or carried out unanswered, crashes, futures dropped mid-request |
| **call lifecycle, calls and sessions** (`calls/mod.rs`, `accounts.rs`) | the running calls, the session, its generation | join, leave, terminate, end all; sign in, switch, sign out | a join is a long chain of awaits that a transition overtakes |
| **search index of a room** (`search/index.rs`, `search/chunks.rs`, `search/persist.rs`, `search/core_api.rs`) | documents in chunks, what is dirty, what is unloaded, redactions; chunk documents and a manifest on disk | ingest, redact, split, unload, flush, save, restore | a save is many writes, each may fail or be the last; the index changes during each |
| **crawl of a room** (`search/crawl.rs`) | token, pages awaiting saving, checkpoint | fetch, advance, ingest, save the checkpoint | the checkpoint must not pass what is not saved; two tasks save it |
| **search copied between own devices, the catch-up** (`search/sharing/peer.rs`) | the attempt under way, the devices that answered, slots, RTC sessions | start, find, discover, rank, pick, give up, serve, complete, cancel | three clocks, cancellation at any await, late frames, a page that vanishes |
| **account documents** (`src/src/lib/settings/account-sync.svelte.ts`, `sync.ts`, `sync-documents.ts`, `src/src/lib/composer/composer-drafts.svelte.ts`) | per document base, remote, pulled, locked, a timer; drafts with what was discarded | edit, push, debounce, pull, merge, adopt, upload, flush, restart | no compare and set; reads, writes and their answers interleave with edits and with other devices |
| **store ownership** (`src/src/worker/store-ownership.ts`, `core.worker.ts`, `core-worker-boundary.ts`, `src/src/transport/web.ts`) | the Web Lock and who waits, the worker's phase, the ports, the generation in localStorage, a page's connection | open, join, claim, own, steal, supersede, stop, panic, retire, reset, stall | several tabs and builds, a worker may hang, panic, be killed or closed at any time |
| sealed account data (`sealed_account_data.rs`, `account_documents.rs`) | one key per user, sealed documents | adopt, share, read, write | read-then-write by several devices |
| search copied between own devices, the transfer (`search/sharing/peer/transfer.rs`, `search/sharing/live.rs`) | snapshots, the parts received, receipts | list, room, part, done | parts against a changing index |
| call discovery and SFU (`calls/discover.rs`, `calls/sfu.rs`, `calls/content.rs`) | none | requests and parsing | pure I/O |
| call invites (`calls/invite_service.rs`, `calls/notify.rs`, `sable-model/src/rtc_invites.rs`) | watched rooms, pending invites | ring, decline, expire, withdraw | slots reopened, expiry against late events |
| sessions and stores (`session.rs`, `account_lock.rs`, `store_disposal.rs`, `auth.rs`) | stores on disk, leases, registry | open, dispose, re-authenticate | crash between steps, two processes |
| verification, backup, room keys | thin over the SDK | | |
| timelines, subscriptions, watchers; messages; push | views over the SDK | | |
| requests over the worker boundary, `sable-server`, bindings, shells, UI | glue | | |

How the parts interact. `join` publishes a membership and schedules a delayed
leave, then inserts the call and spawns its tasks. The update loop, woken by room
changes and by sticky events, refreshes the roster from the memberships
(*StickyMemberships* → *CallHangup*, *CallKeys*, *CallKeyReceive*), rolls the own key
to the roster, and renews the membership. To-device key events come in by an event
handler and meet the roster in `emit_pending`. `leave_call`, `terminate` and
`end_all_calls` take the call out of `call_sessions` and hang it up (*CallSessions*). The
crawl fills the index of a room through the same lock as the sync and shares the save
with the persist loop and with a device that asks for a copy (*SearchCrawl* over
*SearchIndex*); the copy itself is arranged by the catch-up (*SearchPeers*). All of that
runs in one core, and *StoreOwnership* is about there being one.

What makes each part correct:

- keys: whoever was given a key is on the books, a leaver loses the key in use, a
  joiner gets none that is old, keys come in use in order, a member that stays gets
  the key;
- received keys: no fall back to an older key, none forgotten, none given to the
  wrong membership;
- memberships: the last one written decides whatever the order, a redacted one shows
  nobody, in an encrypted room only the member's own device speaks for it;
- lifecycle: no call outlives its session, no membership outlives its call for good,
  a call is ended once, nothing is scheduled after the hang up;
- index: a message is found from when it was indexed until it is redacted, what was
  written stays written, and a checkpoint never passes over what a restart would not find;
- catch-up: one attempt at a time, each device tried once, every attempt ends, a
  copy is credited to the device it came from, and a device keeps asking until it has one;
- documents: an edit the server never held stands, devices agree in the end, a sealed
  document is not written by a device that cannot read it;
- ownership: one live core per store, no way back to a worker that failed, nobody
  waits for a core without being told.

Everything in this code that is hard to test is listed, at its line, under `hazards`
in `PROJECT.json`, with the properties that would catch it.

## 2. Modules

| module | models | proofs |
|---|---|---|
| `CallKeys` | `KeyDistributor::roll`, `plan_rollout`, `rotation_wait_ms`, `publish_update` | `CallKeysProofs` |
| `CallKeyReceive` | `receive_call_key`, `emit_pending`, the part of `refresh` that feeds it | `CallKeysProofs` |
| `StickyMemberships` | `StickyMemberships` of `calls/membership.rs`, `Event::apply` | `StickyMembershipsProofs` |
| `CallHangup` | `join` to `hang_up` of one device's calls, the loops in between | `CallHangupProofs` |
| `CallSessions` | `join`, `leave_call`, `terminate`, `end_all_calls` against `logout`, `start_session`, `take_session` | `CallSessionsProofs` |
| `SearchKept` | what the persisted index of a room promises: the abstract specification | |
| `SearchIndex` | one room's index in memory and on disk, its saves, unloading, crash and restore | `SearchCrawlProofs` |
| `SearchCrawl` | the crawl and its checkpoint; extends `SearchIndex`, implements `SearchKept` | `SearchCrawlProofs` |
| `SearchPeers` | the catch-up in `search/sharing/peer.rs`, both roles, with what `rtc.rs` and the page (`src/src/lib/search/search-peer.ts`) do to it | `SearchPeersProofs` |
| `SyncedDocuments` | what settings and drafts make of the content they read, as operators | |
| `AccountSync` | `AccountSync` of several devices against the account data of the homeserver; extends `SyncedDocuments` | `AccountSyncProofs` |
| `StoreOwnership` | `claimStore`, the core worker's life, the ports, the page's connection, the generation | `StoreOwnershipProofs` |

Each `MC...` module instantiates its component for TLC. Every definition that models
code names its lines in `PROJECT.json` under `map`. A component with several
configurations has a variable `mode`, chosen in `Init` and never changed, so that one run
covers them all and each mode has only the hazards it is about.

### CallKeys

Time is a `Tick` of one unit for every age the code compares: the age of the key, the
time since it was last sent, the delay before an announced key is used. Counters stop
at the largest limit they are compared with, so calls may be of any length. A turn of
the update loop is three steps, `Refresh` (the roster is read), `Roll` (the decision),
`FinishShare` or `FinishRotate` (the send has ended and its outcome is booked), and the room
may change, and up to `MaxBusy` ticks pass, between any two of them. `Use` is the task
`publish_update` spawns for a key that is not the first. A send
reaches everyone but those whose device is `down`, or fails as a whole during an
`outage`; with `LostAck` a send that fails may have delivered to some. Rejoining gives a member a new
generation, as a new `created_ts` or member id does in the code.

`holders`, `joinAge` and `away` are history: what was really delivered, how old the
key was when a peer joined, how long a peer has been gone. A leaver that is on the
books loses its key in the next rotation; one whose send is booked as failed although it
arrived (`calls/keys.rs:464`) keeps it until the hourly rotation, which is why
`BookedLeaverLosesKey` speaks of the former and `LeaverEventuallyLosesKey` of all.

### CallKeyReceive

Peers make keys, number them modulo `IndexMod` and send them, again if need be; keys
travel in a set and arrive in any order. `Receive` appends to the waiting queue, whose
oldest is dropped when it is full, and runs `EmitPending`; `RefreshRoster` reads the roster
and runs it too. The names are kept apart from those of `CallKeys`, so that one module of proofs is about both ends. `legacy`, fixed at the start of a behaviour, says whether a peer keeps
its identity over a rejoin (legacy state events) or gets a new one (sticky events). The
clock of a sender is taken to be monotone: when it is set back, its newer keys lose
against its older ones (`calls/runtime.rs:1143`).

### StickyMemberships

The events of a room are a constant; each may be applied at any time after it was
created, any number of times, in any order, and redacted. `room` fixes whether the room is
encrypted and which events it has. In an encrypted room `Authenticate` is the arrival of the
sender's keys: before it an event may only be applied as untrusted. Wire formats and
parsing are left out: an event has the fields the store compares. The server's and the
device's clock agree, so a time to live stated by the server and the expiry computed from the
event come to the same. An event is ordered by the duration it declares and expires within
the hour (`Order`, `Expiry`), so an event may expire before one it has superseded: that one
is then not shown until it is delivered again, which is why `LastWriterShows` lets the last
of all the events that were applied decide while it is sticky, and of the others says only
that whoever is shown is there by one that is still sticky.

### CallHangup

One device, up to two calls one after the other. `lock` is the `DelayState` mutex
with the name of the request that is made under it. Every request has three outcomes: `ok`,
`failed` (lost before the server), `unanswered` (carried out, answer lost), the last two
counted in `faults`. `LeaveCall` drops the loops where they await, with whatever their
request did. Delayed leaves fire at the server: freely when nobody postpones them, as a
fault when somebody does, since seconds are not modelled. `mode` fixes the kind of call:
sticky or state event, encrypted or not, with crashes or screen shares or not, on a server
that has delayed events (`Delayed`) or that has none, where nothing is scheduled and nothing counts as
a failure. Closing the slot and switching on encryption during a call end it (`EndedMidcall`).

### CallSessions

Any number of joins, each a chain of the steps between its awaits, and a transition of
the session, also step by step, under the lock that serialises transitions. `gen` is the generation a
join noted, `home` the session it took its room from. Requests succeed here, which is
what `CallHangup` is for. `Switching` allows a session to be started over a live one,
`Overlapping` allows a join to begin inside a transition.

### SearchKept, SearchIndex, SearchCrawl

`SearchIndex` is one room: `index` is its `RoomIndex` (documents, chunks by the time they
begin at, which are cold or dirty, what waits for a cold chunk, the revision and how far it
is durable), `disk` the chunk documents and the manifest, `saving` where each of the two savers
is. A save is a sequence of atomic writes in the order of `save_rooms`: chunks, manifest,
merges into cold chunks, manifest again. Each write may fail (`faults`) and the process
may end between any two (`crashes`), after which `Restore` reads back what is there.
`SearchCrawl` adds the crawl of the history with its token, and the checkpoint, which is a document of its own
that two tasks may write. The lock sections of the code are the steps.

An event is a number, its timestamp at once; a redaction names an earlier event. Words and
queries are left out: a message is found if the index holds it. The latest event of the SDK is
taken to be the newest message, which the code relies on when it decides after a restart
which rooms to read again.

`SearchKept` says what is promised: messages learned are held until redacted or the process
ends, a write never costs a message that is not redacted, and a restart holds what was
kept. `SearchIndex` defines
`Promise == INSTANCE SearchKept WITH held <- Held, kept <- Promised, gone <- Gone`. `Held` is what the
process has hold of: `Found`, what a search finds in memory or in an unloaded chunk on disk, and `InFlight`, what a
save under way has yet to write, which no search reads. `Kept` is what `Restore` would find, computed from the documents
on disk, in every mode. `Promised` adds `Pieces`: a chunk that is split is overwritten with its first piece before the others are
written and listed, and until then a restart misses their messages. `Gone` are the redactions that are
known. `KeepsItsPromise` is the refinement. `CheckpointKeepsUp` speaks of `Kept`, and excepts `Pieces`; without splits there are none
(`NoPieces`, proved). `PassedIsFound` speaks of `Found`, and excepts `Unread`: `take_flush` clears `dirty_chunks`, so a chunk whose save
has begun may be unloaded, and until it is written (`search/index.rs:283`, `384`) a search misses what is new in it.

### SearchPeers

One Core in both roles. A catch-up is what one `Catchup` holds: `phase`, `query`, `asked`,
`candidates`, `current`, `outcome`. The code changes it under one mutex, the slots under
another, and awaits the network in between, so every lock section is an action and every
future that is between two of them is in a set: `entering` (`start_search_peers`,
`find_search_peers`), `asking` (`discover_search_peers`), `loops` (`next_search_peer`, called by the
tick, by `rtc.close` and by its own failures), `exchange` (a frame of a session being worked on),
`received` (a request of another device). The other devices answer when they like or never,
with any rank. The page opens and closes connections; in one mode it may vanish.
The order of candidates of equal rank is the
order of arrival, as the code's stable sort has it. A candidate also carries the session
it was tried under, which the code does not need.

The model has these races of the code, which break none of its properties: a cancellation
between the choice of a device and the insertion of its slot leaves a stray slot; one that was begun
before sharing was switched on again ends the next attempt, or drops its signalling session (`Cancel`,
`CancelCatchup` and `CancelRtc` are its three locks; `cancelling` says which are left); a
broadcast that fails late ends an attempt whose copy then goes on unrecorded; a copy that
completes while the user asks for another one forgets the wish; answers that come after
the choice are tried in the order they came.

### SyncedDocuments, AccountSync

`SyncedDocuments` has the pure part: the three-way merge of settings (`Merge`, `Pick`) and the
adoption of drafts with what was discarded and offered (`AdoptedTexts`, `AdoptedDrafts`). A content gives
each field a number; 0 is not there.

`AccountSync` has per device what the code keeps per document, and the requests: a read is
asked, takes the content of the server at some time (`Read`) and is answered later
(`Pulled`); a write lands (`Land`) and is answered (`Uploaded`), in any order in modes
without `ordered`, and may fail before or after it landed. `Event` is the sync that tells
every device of a change, also the writer. `TimerFires` is the end of the debounce, `Flush` the
page that is hidden. `#schedule` clears `state.timer` and leaves it defined, so that a page that is hidden a
second time uploads again what is still being uploaded (`timer` is none, set or cleared). `Restart` is `stop` and `start`, `Reload` a new page. Drafts are sealed: a device without
the key finds the document locked until `GetKey`.

`edited`, `landed` and `drawn` are history: the edits made after a device had synced, what the server
ever held, and the last number given. No two edits have the same number, so that an edit that
is lost cannot hide behind another of the same value.

### StoreOwnership

A worker is a record: its phase from the loading of the script to its close, its turn among
those that wait for the lock, the timer of the wait or of the stop, and what it has been sent
and not yet heard (`asked`, `stolen`). `lock` is the Web Lock, its holder and its queue;
`Claim` posts the claim to every worker with the channel open and requests the lock, `Steal` is the
timer of `claimStore`, `Supersede` its callback in `core.worker.ts`. A page is at a worker, has joined it once
`onconnect` ran, and has at most one message before it that ends its connection (panic,
superseded, the answer to a reset): what comes later is for a port that it has closed.
`generation` is the number in localStorage that names the workers.

A worker may hang and wake, panic, fail to load, be killed by the browser, or end with its last
page. A page may ask for the reset whatever its worker is at: one without a core answers and closes at once,
others when the core has stopped, and of two that asked one after the other the second may get no answer.
A tick is five seconds, the limit of a stop; it comes only when no worker that can run has a
message, a callback or an expired timer before it, so code that runs is fast compared with
ten seconds, and only a worker that hangs is slow. Pages are never fast: a tab in the background may
take any time.

## 3. Runs

| run | configuration | checks |
|---|---|---|
| `keys` | one peer, two generations, indices mod 3; UseDelay 2, Grace 3, Reshare 4, MaxAge 6, Interval 2; turns of up to one tick; sends that lose their answer | `TypeOK`, `HoldersOnTheBooks`, `JoinersGetNoOldKey`, `BookedLeaverLosesKey`, `KeysUsedInOrder`, `MemberGetsKey`, `LeaverEventuallyLosesKey` |
| `receive` | two peers, two memberships each, of which one names no focus, three sends, two indices, a queue of two, both modes | `ShownIsHeard`, `NeverBackwards`, `StayerIsHeard` |
| `sticky` | six events of one key in a plain and in an encrypted room, two redactions, time to 7 with an hour of 3 | `LastWriterShows`, `RedactedShowsNobody`, `GoneByItsDevice` |
| `hangup_safety` | five modes, two of them without delayed events; three faults, two detached refreshes or two calls with crashes | `TypeOK`, `ClosedForGood`, `ForgottenAreCounted`, `GhostTakesTwo` |
| `hangup_live` | five modes, two of them without delayed events; one call, one fault | `SeenOrEnded`, `ProtectedOrEnded`, `SlotVacated` |
| `sessions_live` | two joins, generations to 4, no switching, no overlapping | `TypeOK`, `EndedOnce`, `EndedWithTheSession`, `MembershipEndsWithTheSession` |
| `sessions_lost` | two joins, generations to 3, switching and overlapping | `EndedWithTheSession` is **violated** |
| `index` | three messages of history and up to two events of the session; six modes: a room copied for another device; a crash and a failed write; unloaded chunks with two crashes; a redaction in an unloaded chunk; a split; two failed writes | `CheckpointKeepsUp`, `PassedIsFound`, `KeepsItsPromise`, `EverythingKept`, `RedactedPurged` |
| `search` | five modes: two devices in one query; one device in two queries with interruptions; both roles at once with interruptions; six requests of three devices; a page that vanishes | `TypeOK`, `OneAttempt`, `TriedOnce`, `CompletedByItsOwn`, `AsksAgain` |
| `sync` | two devices, two fields, up to three edits; thirteen modes: three that converge, six of settings with failures, undos, restarts, reloads or a fresh account, four of drafts with and without the key | `TypeOK`, `EditStands`, `Converges` |
| `sync_locked` | two devices type drafts, one gets the key | `LockedIsNotOverwritten` is **violated** |
| `ownership` | two pages, three workers, a wait of two ticks, a stop of one; four modes: a hang beside a newer build; two failures of one build; a kill, pages left and updated; a reset | `OneCore`, `FailedStaysBehind`, `NobodyLeftSilent` |

The type invariants of `CallKeyReceive`, `StickyMemberships` and `SearchCrawl` say little that
the runs would miss and are stated, not run; those of `StoreOwnership`, `StickyMemberships` and `CallKeyReceive` are proved.

Why the bounds suffice. *CallKeys*: the limits keep the order they have in the code
(delay < grace < rotation interval), one peer with two generations is enough for a
leave, a rejoin and a key of the old generation, and the properties speak of one peer
each; the proofs cover any number of peers. *CallKeyReceive*: two memberships with two
indices give the reuse of an index within and across memberships; three sends give a new key, an old
one repeated behind it, and a full queue; the proofs cover any peers, indices and any length of the queue. *StickyMemberships*: the events of one key are
independent of those of another, and the six chosen contain a join, a renewal, a leave,
a renewal level with the leave in order, another device, and a renewal of more than an hour that is late in the order and
expires early; the proofs cover any events and times. *CallHangup*: faults decide;
`GhostTakesTwo` needs two and gets three (a million states, under a minute); the proofs cover any number of calls, tasks and faults. *CallSessions*: `EndedWithTheSession` and `EndedOnce` speak of one call at
a time and are proved for any number, with switching and overlapping too. *SearchCrawl*: rooms share nothing; three
messages make two pages of the crawl with something before and after a chunk border, one
message and a redaction of the session run against them; two crashes allow one during the recovery from the other.
*SearchPeers*: two
candidates are enough for an attempt, a successor and a late frame of the first; two
queries for a late answer, failure or cancellation of the first in the second, of which one is under way at a time; three devices with
two requests each for the limit of two, a replacement at the limit and one request too many; the proofs cover any number of each.
*AccountSync*: two devices and two fields have an edit of each kind cross another; two reads and two
writes at once overtake one another. *StoreOwnership*: three workers are an owner, one that waits
or steals, and one that supersedes the thief; the proofs cover any number of pages and workers.

Runs but `keys` do not check for deadlock: calls end, clocks are bounded, a crawl
comes to its end, pages may stay closed; a system
with nothing left to do may stop. The update loop of CallKeys never stops.

### What the violations show

- **`sessions_lost`.** `start_session` drains the calls in `take_session`
  (`accounts.rs:1057`) and stores the new generation after it (`accounts.rs:1066`).
  A join between the two passes its check under the lock and inserts a call that nobody
  ends; the caller of `join` gets `NotLoggedIn` and no id. `logout` does it the other way round
  (`accounts.rs:336`, then `339`): a join that begins in between notes the new
  generation, and still finds the old session. With either alone the property fails. Both are against the changelog, which
  says calls end "when you sign out or switch accounts" (`src/CHANGELOG.md:119`).
- **`sync_locked`.** A device without the key has a draft of its own and its debounce timer runs when it reads the document
  that another device has sealed. `#pull` notes `locked` and returns
  (`src/src/lib/settings/account-sync.svelte.ts:178`), the timer stays, and `#upload` (`253`) looks at neither
  `locked` nor `pulled`: the sealed document is replaced, and in the clear. The test at
  `account-sync.svelte.test.ts:437` says a sealed document "is neither adopted nor
  overwritten while this device lacks the key"; it has no edit before the read.

### Limits found while modelling

TLC finds counterexamples to the properties when the modes combine more than they do. No
document of the repository promises otherwise unless one is named, so no run claims it.

*Search index and crawl.*
- A room that is copied for another device while it is crawled
  (`sharing/peer/transfer.rs:321`): the token advances (`search/crawl.rs:990`) before its page is noted as
  awaiting saving (`1027`), so the checkpoint saved in between passes over a page a crash then
  loses. `CheckpointKeepsUp` fails with `Modes <- SharingCrawl`. The test
  `test_a_checkpoint_is_not_persisted_ahead_of_the_documents_it_skips` (`search/crawl.rs:1733`) has one task.
- Two `save_rooms` of one room (`search/core_api.rs:393`) with further changes in between: the
  older manifest may be written last.
- A crash or a failing write during the split of a chunk (`search/chunks.rs:30`), and a failing write of a chunk that is unloaded meanwhile
  (`search/index.rs:384`): documents a checkpoint may have passed are lost.
- While a chunk that was unloaded is still to be written by the save under way, a search misses the messages
  that are new in it (`Unread`): the invariant with `Found` alone fails.
- A crash after a redaction of a message that is not the latest, before it is written
  (`search/index.rs:799`): it is found again.
- `index_room_search` gives up after 200 tries of 25 ms; `forget` removes the
  manifest before the chunks (`search/persist.rs:439`).

*Catch-up.* A page that vanishes during a transfer leaves the phase `Transferring`, which the tick does not end
(`search/sharing/peer.rs:634`): until sharing is switched off, the network is lost or the page is hidden, every later start or find
returns. `AsksAgain` excepts it; `src/docs/search-sharing.md:7` says the device "keeps asking
every minute while it is open".

*Calls.* A screen share update answered after the hang up brings the membership back
(`calls/runtime.rs:958`); renewing a membership in an encrypted room and crashing between the cancel and the new delayed
leave leaves a ghost (`1467`). On a server without delayed events
(`calls/mod.rs:1025`) one crash or one failed leave does, which is why `GhostTakesTwo` and
`SlotVacated` ask less there. All end with the lifetime of the membership.

*Account documents.*
- `Converges` needs `prompt`, the answer to a write before that to any read after it
  landed: otherwise the answer sets back `base` and `remote` (`account-sync.svelte.ts:271`) and devices
  may differ for good.
- The mode of `Converges` with two writes under way leaves out (`again`) that a page is hidden a second time while its write
  is under way: the content then goes out twice (`:140`, `:162`), a read from before the first lands after its answer and is
  adopted, and the answer to the second makes of that older content an edit, which is uploaded. TLC finds the device's own
  edit lost. `EditStands` is checked with it.
- Of two writes that cross, the later replaces the earlier and the edit that only it had:
  the devices agree, on the later write. That the last edit arrives is checked when one device edits.
- An undo of a setting while its upload is under way may be lost. A restart or a fresh start with edits not yet
  uploaded, and drafts of two devices, need not converge, and a sent draft may come back with a stale read.
- A failed write is tried again only with the next change.
- `EditStands` does not cover edits made before a device has synced for the first time.

*Store ownership.*
- Two workers that both opened the channel before either posted its claim
  (`src/src/worker/store-ownership.ts:25`) supersede each other: both pages are told of a newer tab, and there is none.
- A reset is answered before the worker has given up the lock (`core-worker-boundary.ts:235`); a worker
  that waits, or that another tab opens meanwhile, may have a live core on the stores that the page then deletes.
  The page that asked has closed its port and has no timer: if its worker is
  superseded, panics or answers an earlier request before it answers this one, the page waits for ever.
- A page that joins a worker that is being superseded or has panicked learns of it by the stall alone,
  22 s later. After a panic a page may open the old name before the first
  tab retires it, and get a healthy worker that the next generation supersedes.
  A message that cannot be decoded retires a healthy worker.
- A worker that slept while it waited may, on waking, steal from a healthy owner before it hears that it is superseded:
  the exception of `OneCore`.

## 4. Fairness

*CallKeys*: the loop and the sleeping tasks are polled (weak fairness), and time passes
however often a wake-up cuts a wait short (strong fairness of `Tick`, which is what a
clock is). *CallKeyReceive*: the roster is refreshed after changes, sent events are
delivered. *CallHangup*: tasks are polled to their end; the mutex is tokio's, which hands
it out first come first served, so its users get strong fairness; the server fires what
nobody postpones and syncs keep coming. *CallSessions*: started futures and transitions
are polled to their end. *SearchCrawl*: the tasks of the crawl, of the persist loop and of the session go on while they have
something to do; the three conditions have their `ENABLED` written out, as TLC would take long to find it.
*SearchPeers*: the tick comes every second, loops, saves, cancellations and
broadcasts end, the page closes an idle connection after a minute and starts a catch-up every minute.
*AccountSync*: requests are carried out and answered, timers fire, the sync goes on. *StoreOwnership*: workers that can run
and the clock go on, and each page hears its messages; nothing makes a worker wake. Nobody has to
join, leave, switch, edit, type, open a page or share a screen, and no fairness makes a request fail or succeed: a
fault is always a choice, bounded by the mode or by `MaxFaults`, or in CallKeys lasting as long as it likes.

## 5. Proofs

The safety properties are not inductive as they stand; each proof has an invariant that is,
with one step per action.

`CallKeysProofs`, for any peers, generations and limits in the order
`ConstantsAssumption` states. `IInv` adds
`UseOrder` (what waits to be used is nothing, the current key, or the key before it, due now, and the
current one, with its remaining delay tied to the age of the key), `SendInFlight` (a rotation under way
began when the key before it was at least `UseDelay` old), `JoinedBefore` and
`OnlyYoung` (whoever has or is being sent the key joined within the grace period).
From `Inductive` follow `TypeCorrect`, `Booked`, `NoOldKey`, `NoPileUp` and, as an action property,
`UsedInOrder`; `Exact` (the books are exact when no answer is lost) by one more induction. `NoPileUp` and `Exact` are proved only.
`LeaversAreRotatedOut` is `BookedLeaverLosesKey`. Its invariant, `Lagging`, says how long a peer that has left and
still has the key may be away: `Late` ties that time to the age of the key, to what the loop will wait at most
(`limit`), and, while a share is sent, to the deferral that comes with it. `LeaveBound` is two turns of the loop and the longer of the poll
interval and of a turn with the delay before use; on the instance of `keys`, where it is 5, TLC refutes a bound of 3.

The last section of `CallKeysProofs` is about the receiving end, `CallKeyReceive`, for any senders, indices, length of the queue and bounds. `RInv` says that
an identity's sends are numbered in the order of their times (`Counts`, `SentInOrder`), that what the UI has for a slot is the
latest key taken for it (`InstalledIsLatest`), that no waiting key could be resolved with the
roster as shown (`NoneResolved`), and that the current key of a member is dropped, on the wire, waiting
or the one its slot has (`CurrentIsSomewhere`). One refresh looks at a queue of any length: `Looked` is a recursive function on the positions of
the queue, and what holds of the start and is kept by one `Look` holds of the end by `Stepwise`, which is
induction from a least counterexample (`WFMin` of the library). From `ReceiverInductive` follow
`ShownMembersAreHeard` and, with the same induction over one step, `NeverFallsBack`.

`StickyMembershipsProofs`, for any events, rooms and times. Each entry stands for an event of its key (`EntriesStand`). For redactions:
a redaction is remembered until its event has expired (`RedactionsLast`), and the entry of a redacted event is a tombstone
(`RedactedAreTombstones`), so what is delivered again is refused. For the order: in a plain room an entry stands for an event
that counts (`EntriesCount`), and the last of those that count holds the entry of its key while it is sticky (`LastHolds`): it is
refused for no other, and none of the others replaces it, even where one after the other expires out of order. Hence `RedactedIsHidden` and `LastWriterDecides`; `OwnDeviceSpeaks` is an action property of the same invariant.

`CallHangupProofs`, for any number of calls, delayed leaves, tasks and failures. `Shape` says what each phase of
a call lets the mutex, the loops and the remembered ids be; `TypeCorrect` and
`ClosedStaysClosed` follow. `ForgottenArePaidFor` is inductive with it: each step that makes a pending leave forgotten is a
failure or the end of a call. `GhostsTakeTwo` says two failures where the server has delayed events and one where it has
none; its invariant speaks of `Troubles`, which counts the lack of delayed events as one. It needs to know
why one failure is not enough: a call that is on has its delayed leave pending, or a failure has happened, or a refresh is just about to send one (`Covered`); one
call is on at a time (`Alone`); and a slot without a call that is joined with nothing pending has cost two (`IdleTakesTwo`). It
assumes `Plain`: no screen sharing, and, where there are delayed events, no crash in an encrypted room with sticky memberships. All modes of `hangup_safety` are plain. With either hazard the property is
false, as TLC shows: they are the two limits of calls named in section 3.

`CallSessionsProofs`, for any joins and any number of generations. `TypeInv` adds the
shape of a transition; `OnceInv` that a call in the window was inserted by a join and a drained one
is out of it, which gives `OneEnder` whatever `Switching` and `Overlapping` are; `EndInv` adds
that a join noted a generation no newer than the present one, and that a kept call is of
the session in place unless a transition that ends it has yet to drain it. `CallsEndWithTheSession` and
`FailedJoinIsClean` (proved only) assume neither switching nor overlapping: with either they are false,
as `sessions_lost` shows.

`SearchCrawlProofs` shows that `SearchCrawl` implements `SearchKept`: `KeepsThePromise` is the refinement `KeepsItsPromise`, `CheckpointIsHonest` is
`CheckpointKeepsUp`, `PassedStaysFound` is `PassedIsFound`. They hold for any history, store, redactions and any number of crashes, in
every kind of behaviour (the constant `kind`, the value of `mode`) that is `Plain`: chunks have no limit,
no other device asks for a copy, and either no write fails or nothing is unloaded. The modes `Ending`, `EndingCold`, `Cold` and `Failing` of `index` are plain. With
failing writes and unloading together the properties are false: `take_flush` clears `dirty_chunks` before the write
(`search/index.rs:384`). So they are with a copy for another device during the crawl, and with a split that a crash cuts short
(`search/chunks.rs:30`), see the limits in section 3; `Sharing` and `Splitting`, which have only one of the hazards each, stay with TLC.

Without splits the chunks of a room never change, so an event has a chunk for good (`Layout`, `Home`). The invariant of the index, `StoreInv`, says that
index, store and save are well formed and agree on the chunks (`IndexFits`, `StoreFits`, `FlushFits`, `Linked`); that a chunk that was loaded is in memory (`Loaded`); that
a document in memory is in the store, in the save under way, or in a dirty chunk (`Saved`); that a save takes what is there
and overwrites nothing else (`Takes`); and, which ties it to the crawl, that a revision
the index calls durable covers what was held when it was reached (`Covered`): it is on disk if the revision is durable, and will be if the
save under way brings it there (`Coming`). A step writes a document, passes by without a change to the documents, or
makes the index grow; the lemmas about these three keep `Covered` for every set of events at once. `CrawlInv` adds that the stored checkpoint, the one
being written and the one being built are `Safe`, that what the crawl passed was `Reached`, and that what is still
awaited is `Pending`: covered by the revision the crawl noted with it. `Ingest` takes the events one by one as a recursive function, and
what each event keeps holds of the whole by induction from a least counterexample (`WFMin`).
From the refinement follow `WrittenStaysWritten` and `RestartInventsNothing`.

`AccountSyncProofs`, for any devices, fields and modes: `NoReadTakesAnEdit` is `EditStands`. A read, a merge or an adoption could take an edit
only if its number were in the content read or in the base. `IInv` says why it is not:
`Numbers` and `Contents` (no number beyond the last drawn, all documents well formed), `Traffic` (what is being read or
was read has landed, or is nothing), `BaseIsLanded` (so has the base), `NothingBeforeTheFirst`
(a device that has not synced has no edits that count).

`TypeCorrect` is proved from `Moves`, the ways a
step may change the requests under way.

`SearchPeersProofs`, for any devices, ranks, queries and requests. `Fit` says that a device answers a query once, that no
two candidates share a session, and that those that wait have none; `PhaseAndCurrent` that the phase and the index
of the current candidate are set together. What holds `OneAttempt` up between the locks is `LoopsFit`: the
session a call of `next_search_peer` has yet to open is nobody's, and the session it has given up has no slot any more; and
`AskingFits`: the targets of a query are chosen once, before anyone answers. For the action properties
`ComesFrom` lists what a step makes of a candidate: from it follow `DevicesAreTriedOnce` and
`CopiesCompleteThemselves`. That a best candidate exists whenever one waits (`LeastExists`) is proved from a least
counterexample, by `WFMin` of the library.

`StoreOwnershipProofs`, for any pages, workers, builds, faults and any times with the stop shorter than the
wait. A core is not stopped by its owner's knowing that it is the only one, but by a claim and two clocks. `OwnerHolds`
says that whoever is past the wait holds the lock or is `Excused`: it slept for a tick and is superseded, or was
robbed by such a one. A theft keeps that because of `AheadClears`: whoever holds the lock, or waits before, a worker that
waits is excused, or is asked and the wait has just begun, or is stopping and has less time left than the other will wait.
The clock keeps it, since it moves only when whoever can hear has heard. From it follows `OneCoreHolds`. `PagesAreBound` ties a page to the
generation of its worker and what has failed it to older ones, from which `FailedStaysBehindHolds`. `TypeCorrect` is proved on the way.

The assumptions are those the modules name (`ConstantsAssumption`, `MaxGenAssumption`, `TimesAssumption`,
`StoredAssumption`, which says that a store of an earlier session holds the newest part of the history, in chunks the first of which begins at 0,
...); TLC evaluates them in every run.

Only model-checked:

- everything about liveness: temporal properties under fairness and `ENABLED` are beyond the prover;
- `CheckpointKeepsUp`, `PassedIsFound` and `KeepsItsPromise` in the modes `Sharing` and `Splitting` of `index`: they hold for want of a second hazard only
  (section 3), and with splits the chunk of an event changes under the save;
- the two violated properties, of which TLC gives the counterexample.

## 6. Not modelled, and why

- Formats, parsing, the SFU and discovery: I/O and pure functions.
- Most of the repository by size: the UI and view models, the views over rooms, timelines and push rules that the SDK keeps,
  bindings, shells and `sable-server`'s front. They hold little state that
  two parties change, and what there is belongs to the SDK. It is why the modelled lines are a small share of all lines.
- In SearchIndex and SearchCrawl: edits, undecryptable events, the disk budget, the words and queries, the choice of rooms, forgetting a room, old schemas, covers of other devices, server search.
- In SearchPeers: signing out (`reset_session` drops it all), the minute between two
  attempts, the day after which a wish for a copy lapses, the transfer itself, frames of the provider
  role, and a failing random number generator.
- In AccountSync: the limit of 50 drafts and of 8 offered texts per room, staged files, themes, the workspace and scheduled
  documents, which are adopted whole, and how the key is made: two devices may each create one (`sealed_account_data.rs:209`), and adopting it is a read and then a write.
- In StoreOwnership: browsers without Web Locks, where the store is nobody's; a localStorage that cannot be written, so that
  a generation does not advance; requests and their cancellation; the routing of timeline events.
- The seconds of the postpone schedule (`calls/mod.rs:1050`, `1074`), the sync of sticky events and
  its queue of undecrypted ones (`calls/sticky.rs:150`, `250`), the full queue of waiting keys in long calls (`calls/runtime.rs:1341`).
- The rest of the table in section 1.

## 7. Plan

In order of what a mistake would cost:

1. `SearchTransfer`: requester and provider of `peer/transfer.rs` against an index that
   changes; contiguous parts, `complete`, coverage sent only from a checkpoint without gaps. An abstract
   "what is marked complete was received" as the promise. It takes over from
   `SearchPeers` at `Copied`.
2. The account data key: several devices adopting, creating and sharing the one key;
   an abstract register that the devices agree on, below `AccountSync`.
3. `PostponeLoop`: the seconds of `postpone_hangup`, the budget and its backoffs,
   against the delay at the server; `CallHangup`'s fault "a postponed leave fires" refined.
4. `RtcInvites`: watched rooms and invites, with slots reopened and late withdrawals.
5. `SessionLifecycle`: store leases, disposal, re-authentication, crash and restart.
6. Requests over the worker boundary: cancellation, ports that close, events routed to the page that asked, over `StoreOwnership`.
7. Composition: `CallKeys` and `CallKeyReceive` as two ends of one channel, implementing
   an abstract "every member hears every member".

To prove next: the refinement of `SearchKept` with chunks that are split, where no crash and no failed write
cuts a split short, and with two savers of one room; and `GhostTakesTwo` of CallHangup in the encrypted mode with crashes, for those that come at another place.

--------------------------- MODULE SearchCrawlProofs ---------------------------
(* The persisted search index of a room and its crawl, for any history and   *)
(* any kind of behaviour that is plain: without limit to a chunk, with no    *)
(* other device asking, and with failing writes or unloading but not both.   *)
(* The index implements its promise (SearchKept), and the checkpoint of the  *)
(* crawl is never ahead of the documents on disk.                            *)
EXTENDS SearchCrawl, FiniteSetTheorems, WellFoundedInduction, TLAPS

CONSTANT kind    \* the kind of the behaviour, the value of mode

Plain ==
    /\ kind \in Modes
    /\ kind.weight = 0
    /\ kind.sharing = 0
    /\ kind.faults = 0 \/ ~kind.unloading

-----------------------------------------------------------------------------
(* Chunks *)

Layout ==
    IF kind.starts = {} THEN [s \in {0} |-> 0]
    ELSE [s \in kind.starts |-> Cardinality({t \in kind.starts : t < s})]
Chunk == Ids(Layout)

\* The chunk an event lies in.
Home(t) == Layout[Max({s \in DOMAIN Layout : s <= t})]

Shapes == {NoChunks, Layout}
IndexShape ==
    [docs : SUBSET Event, ids : SUBSET Event, redacted : SUBSET Event,
     pending : SUBSET Event, chunks : Shapes, cold : SUBSET Chunk,
     dirtyChunks : SUBSET Chunk, dirty : BOOLEAN, revision : Nat, durable : Nat,
     meta : SUBSET Chunk, next : Nat]
Doc == [docs : SUBSET Event, ids : SUBSET Event]
Piece == [start : Nat, id : Chunk, docs : SUBSET Event, ids : SUBSET Event]
ManifestShape ==
    [chunks : Shapes, next : Nat, redacted : SUBSET Event, pending : SUBSET Event]
StoreShape == [manifest : ManifestShape, chunks : UNION {[C -> Doc] : C \in SUBSET Chunk}]
FlushShape ==
    [pc : {"idle", "chunks", "merge", "manifest", "saved"}, todo : SUBSET Piece,
     hot : SUBSET Chunk, cold : SUBSET Piece, targets : SUBSET Chunk,
     manifest : ManifestShape, redactions : SUBSET Event, revision : Nat]

\* What no search should find, now or later.
Void == Redacted \cup Redactions

ContentFits(c, x, void) ==
    /\ \A e \in x.docs \cup x.ids : Home(e) = c
    /\ x.ids \subseteq x.docs \cup void

ManifestFits(m, void) ==
    /\ m.chunks = NoChunks => kind.starts = {} /\ m.next = 0
    /\ m.pending \subseteq m.redacted
    /\ m.redacted \subseteq void

IndexFits(ix, void) ==
    /\ ix \in IndexShape
    /\ ix.chunks = NoChunks =>
          kind.starts = {} /\ ix.next = 0 /\ ix.docs = {} /\ ix.ids = {} /\ ix.meta = {}
    /\ ix.docs \cap ix.redacted = {}
    /\ ix.pending \subseteq ix.redacted
    /\ ix.redacted \subseteq void
    /\ ix.cold \subseteq ix.meta
    /\ ix.durable <= ix.revision
    /\ kind.unloading \/ ix.cold = {}

StoreFits(dk, void) ==
    /\ dk \in StoreShape
    /\ ManifestFits(dk.manifest, void)
    /\ Ids(dk.manifest.chunks) \subseteq DOMAIN dk.chunks
    /\ \A c \in DOMAIN dk.chunks : ContentFits(c, dk.chunks[c], void)

FlushFits(fl, void) ==
    /\ fl \in FlushShape
    /\ fl.pc = "idle" => fl = Idle
    /\ fl.todo # {} => fl.pc = "chunks"
    /\ fl.targets # {} => fl.pc \in {"chunks", "merge"}
    /\ \A p \in fl.todo \cup fl.cold : ContentFits(p.id, p, void)
    /\ \A p, q \in fl.todo : p.id = q.id => p = q
    /\ \A p \in fl.todo : p.id \in fl.hot
    /\ fl.hot \subseteq Ids(fl.manifest.chunks)
    /\ fl.pc # "idle" => ManifestFits(fl.manifest, void)
    /\ fl.redactions \subseteq fl.manifest.redacted

\* What a restart would find, redactions aside.
Listed(dk) == Ids(dk.manifest.chunks)
InChunk(dk, e) == Home(e) \in DOMAIN dk.chunks /\ e \in dk.chunks[Home(e)].docs
OnDisk(dk) == {e \in Event : Home(e) \in Listed(dk) /\ InChunk(dk, e)}

\* Chunks a save has written and not yet listed.
Fresh(fl) == IF fl.pc = "chunks" THEN {c \in fl.hot : \A p \in fl.todo : p.id # c} ELSE {}
Written(dk, fl) ==
    {e \in Event : Home(e) \in Listed(dk) \cup Fresh(fl) /\ InChunk(dk, e)}
Todo(fl) == UNION {p.docs : p \in fl.todo}
ToMerge(fl) == UNION {p.docs : p \in {q \in fl.cold : q.id \in fl.targets}}
\* What a restart would find if the save under way got through.
Coming(dk, fl) == Written(dk, fl) \cup Todo(fl) \cup ToMerge(fl)

HeldBy(ix, dk, fl) ==
    ix.docs \cup
    ({e \in Event : (Home(e) \in ix.cold /\ InChunk(dk, e)) \/ e \in Todo(fl)} \ ix.redacted)

\* Events S are on disk once the index is durable at revision r.
Covered(S, r, ix, dk, fl, void) ==
    /\ ix.durable >= r => S \subseteq OnDisk(dk) \cup void
    /\ fl.pc # "idle" /\ fl.revision >= r => S \subseteq Coming(dk, fl) \cup void

Linked(ix, dk, fl) ==
    /\ dk.manifest.chunks # NoChunks =>
          ix.chunks = Layout /\ (fl.pc # "idle" => fl.manifest.chunks = Layout)
    /\ fl.manifest.chunks = Layout => ix.chunks = Layout
    /\ fl.pc \in {"merge", "manifest", "saved"} => dk.manifest.chunks = fl.manifest.chunks
    /\ ix.meta \subseteq Listed(dk)
    /\ dk.manifest.redacted \cup fl.manifest.redacted \subseteq ix.redacted
    /\ Fresh(fl) \subseteq DOMAIN dk.chunks
    /\ fl.targets \cup Patched(fl) \subseteq ix.cold
    /\ fl.revision <= ix.revision
    /\ dk.manifest.chunks = NoChunks /\ ix.chunks = Layout =>
          Chunk \subseteq ix.dirtyChunks \cup fl.hot
    /\ fl.pc = "chunks" /\ dk.manifest.chunks = NoChunks /\ fl.manifest.chunks = Layout =>
          Chunk \subseteq fl.hot

\* What is classified is indexed, unless it is void.
Classified(ix, void) == ix.ids \subseteq ix.docs \cup void

\* A loaded chunk is in memory ...
Loaded(ix, dk, fl) ==
    \A e \in Written(dk, fl) : e \in ix.docs \cup ix.redacted \/ Home(e) \in ix.cold
\* ... and a document in memory is on disk, or will be.
Saved(ix, dk, fl) ==
    \A e \in ix.docs : Home(e) \in ix.dirtyChunks \/ e \in Coming(dk, fl)
Takes(ix, dk, fl) ==
    /\ \A p \in fl.todo : p.docs \subseteq ix.docs \cup ix.redacted \/ p.id \in ix.cold
    /\ \A e \in OnDisk(dk), p \in fl.todo : Home(e) = p.id => e \in p.docs \cup ix.redacted
    /\ ToMerge(fl) \subseteq ix.docs \cup ix.redacted

Sound(ix, dk, fl, void) ==
    /\ IndexFits(ix, void)
    /\ Classified(ix, void)
    /\ StoreFits(dk, void)
    /\ FlushFits(fl, void)
    /\ Linked(ix, dk, fl)
    /\ Loaded(ix, dk, fl)
    /\ Saved(ix, dk, fl)
    /\ Takes(ix, dk, fl)
    /\ Covered(HeldBy(ix, dk, fl), ix.revision, ix, dk, fl, void)

StoreInv ==
    /\ mode = kind
    /\ edge \in History..Newest
    /\ saving \in [Savers -> FlushShape] /\ saving["peer"] = Idle
    /\ shares = 0 /\ faults \in Nat
    /\ phase \in {"down", "restored", "running"}
    /\ IF phase = "down" THEN index = NewIndex /\ saving["loop"] = Idle /\ StoreFits(disk, Void)
       ELSE Sound(index, disk, saving["loop"], Void)

-----------------------------------------------------------------------------
(* The crawl *)

Safe(token) == Passed(token) \subseteq Kept \cup Void
Reached(token) == Passed(token) \subseteq Held \cup Void
Pending(token, r) ==
    /\ r <= index.revision
    /\ Covered(Passed(token), r, index, disk, saving["loop"], Void)

CrawlShape ==
    [token : 0..NoToken, awaiting : SUBSET Nat, changed : BOOLEAN, saved : 0..NoToken,
     page : [events : SUBSET Event, redacted : SUBSET Event, revision : Nat],
     pc : {"loop", "save", "page", "ingest", "await"}]

PageFits ==
    \E first \in 1..History, last \in 1..History :
        /\ first <= last
        /\ crawl.page.events = first..last
        /\ crawl.page.redacted \subseteq Redacted
        /\ crawl.token = (IF crawl.pc = "page" THEN last + 1
                          ELSE IF first = 1 THEN NoToken ELSE first)
        /\ crawl.pc \in {"page", "ingest"} => Reached(last + 1)
        /\ crawl.pc = "await" => Reached(first) /\ Pending(first, crawl.page.revision)

CrawlInv ==
    /\ crawl \in CrawlShape
    /\ stored \in 0..NoToken /\ crawl.saved = stored
    /\ Safe(stored)
    /\ DOMAIN cp = Tasks /\ cp["peer"] = NoCheckpoint
    /\ cp["crawl"].pc \in {"idle", "due", "build", "write"}
    /\ cp["crawl"].pc # "idle" => crawl.pc = "save"
    /\ cp["crawl"].pc = "build" =>
          cp["crawl"].unflushed \in BOOLEAN /\ (~cp["crawl"].unflushed => Safe(crawl.token))
    /\ cp["crawl"].pc = "write" =>
          cp["crawl"].checkpoint \in 0..NoToken /\ Safe(cp["crawl"].checkpoint)
    /\ phase = "down" => crawl = NewCrawl(stored) /\ cp["crawl"] = NoCheckpoint
    /\ crawl.pc \in {"loop", "save"} =>
          /\ Reached(crawl.token)
          /\ crawl.awaiting = {} => Safe(crawl.token)
          /\ \A r \in crawl.awaiting : Pending(crawl.token, r)
    /\ crawl.pc \in {"page", "ingest", "await"} => PageFits

-----------------------------------------------------------------------------
(* Arithmetic *)

LEMMA LeastExists ==
    ASSUME NEW S \in SUBSET Nat, S # {}
    PROVE  Min(S) \in S /\ \A y \in S : Min(S) <= y
<1> DEFINE smaller == {ss \in Nat \X Nat : ss[1] < ss[2]}
<1>1. IsWellFoundedOn(smaller, Nat)
  BY NatLessThanWellFounded DEF OpToRel
<1> HIDE DEF smaller
<1>2. PICK x \in S : \A y \in S : <<y, x>> \notin smaller
  BY <1>1, WFMin
<1>3. ASSUME NEW y \in S
      PROVE  x <= y
  <2>1. <<y, x>> \notin smaller /\ <<y, x>> \in Nat \X Nat
    BY <1>2
  <2> QED BY <2>1 DEF smaller
<1> QED BY <1>3 DEF Min

LEMMA GreatestExists ==
    ASSUME NEW n \in Nat, NEW S \in SUBSET (0..n), S # {}
    PROVE  Max(S) \in S /\ \A y \in S : y <= Max(S)
<1> DEFINE T == {x \in 0..n : n - x \in S}
<1>1. T \in SUBSET Nat /\ T # {}
  <2>1. PICK y : y \in S
    OBVIOUS
  <2>2. n - y \in 0..n /\ n - (n - y) = y
    BY <2>1
  <2>3. n - y \in T
    BY <2>1, <2>2
  <2> QED BY <2>3
<1>2. PICK x \in T : \A z \in T : x <= z
  BY <1>1, LeastExists
<1>3. ASSUME NEW y \in S
      PROVE  y <= n - x
  <2>1. n - y \in T
    OBVIOUS
  <2>2. x <= n - y
    BY <1>2, <2>1
  <2>3. x \in Int /\ y \in Int
    BY <1>2
  <2> QED BY <2>2, <2>3
<1>4. n - x \in S
  BY <1>2
<1>5. \E m \in S : \A y \in S : m >= y
  BY <1>3, <1>4
<1> QED BY <1>5 DEF Max

LEMMA MaxOfTwo ==
    ASSUME NEW m \in Nat, NEW n \in Nat
    PROVE  Max({m, n}) = IF m >= n THEN m ELSE n
<1> DEFINE top == IF m >= n THEN m ELSE n
<1>1. top \in {m, n} /\ \A y \in {m, n} : top >= y
  OBVIOUS
<1>2. \A x \in {m, n} : (\A y \in {m, n} : x >= y) => x = top
  OBVIOUS
<1> QED BY <1>1, <1>2 DEF Max

-----------------------------------------------------------------------------
(* The chunks of a plain room never change: there is one, or there are those *)
(* of the earlier session                                                    *)

LEMMA KindTypes ==
    ASSUME Plain
    PROVE  /\ History \in Nat /\ Newest \in Nat /\ History <= Newest /\ Event = 1..Newest
           /\ kind.starts \in SUBSET (0..Newest) /\ kind.stored \in SUBSET (1..History)
           /\ kind.last \in Event /\ kind.unloading \in BOOLEAN
           /\ kind.faults \in Nat /\ kind.crashes \in Nat
           /\ \E R \in SUBSET Event : kind.target \in [R -> Event]
           /\ \A e \in kind.stored : e..History \subseteq kind.stored
           /\ kind.starts = {} <=> kind.stored = {}
           /\ kind.starts # {} => 0 \in kind.starts
<1>1. kind \in Modes /\ kind \in Mode
  BY ModesAssumption DEF Plain
<1> QED BY <1>1, EventAssumption, StoredAssumption DEF Mode, Event

LEMMA LayoutIs ==
    ASSUME Plain
    PROVE  /\ DOMAIN Layout \in SUBSET (0..Newest) /\ 0 \in DOMAIN Layout
           /\ \A s \in DOMAIN Layout : Layout[s] \in Nat
           /\ \A s, t \in DOMAIN Layout : Layout[s] = Layout[t] => s = t
<1> DEFINE before(s) == {t \in kind.starts : t < s}
<1>1. CASE kind.starts = {}
  BY <1>1, KindTypes DEF Layout
<1>2. CASE kind.starts # {}
  <2>1. DOMAIN Layout = kind.starts /\ \A s \in kind.starts : Layout[s] = Cardinality(before(s))
    BY <1>2 DEF Layout
  <2>2. \A s \in kind.starts : IsFiniteSet(before(s)) /\ Cardinality(before(s)) \in Nat
    <3>1. IsFiniteSet(0..Newest) /\ kind.starts \in SUBSET (0..Newest)
      <4>1. 0 \in Int /\ Newest \in Int /\ kind.starts \in SUBSET (0..Newest)
        BY KindTypes
      <4> QED BY <4>1, FS_Interval
    <3>2. IsFiniteSet(kind.starts)
      BY <3>1, FS_Subset
    <3> QED BY <3>2, FS_Subset, FS_CardinalityType
  <2>3. ASSUME NEW s \in kind.starts, NEW t \in kind.starts, s < t
        PROVE  Cardinality(before(s)) # Cardinality(before(t))
    <3>1. /\ before(s) \in SUBSET before(t) /\ s \in before(t) /\ s \notin before(s)
      BY <2>3, KindTypes
    <3> QED BY <2>2, <3>1, FS_Subset
  <2> HIDE DEF before
  <2>4. \A s, t \in kind.starts : s < t \/ t < s \/ s = t
    BY KindTypes
  <2> QED BY <1>2, <2>1, <2>2, <2>3, <2>4, KindTypes
<1> QED BY <1>1, <1>2

\* Every time is in one chunk: the one of Home.
LEMMA HomeIs ==
    ASSUME Plain, NEW t \in 0..Newest
    PROVE  \E s \in DOMAIN Layout :
              /\ s <= t /\ Home(t) = Layout[s]
              /\ \A r \in DOMAIN Layout : r <= t => r <= s
<1> DEFINE S == {s \in DOMAIN Layout : s <= t}
<1>1. S \in SUBSET (0..Newest) /\ S # {} /\ Newest \in Nat
  BY KindTypes, LayoutIs
<1>2. Max(S) \in S /\ \A y \in S : y <= Max(S)
  BY <1>1, GreatestExists
<1> QED BY <1>2 DEF Home

LEMMA HomeIsChunk ==
    ASSUME Plain
    PROVE  /\ \A t \in 0..Newest : Home(t) \in Chunk
           /\ \A e \in Event : Home(e) \in Chunk
           /\ Chunk \in SUBSET Nat /\ Chunk # {}
<1>1. Event \subseteq 0..Newest
  BY KindTypes
<1> QED BY <1>1, HomeIs, LayoutIs DEF Chunk, Ids

LEMMA RangeIs ==
    ASSUME Plain, NEW c \in Chunk
    PROVE  RangeOf(Layout, c) = {t \in 0..Newest : Home(t) = c}
<1>1. PICK start \in DOMAIN Layout : Layout[start] = c
  BY DEF Chunk, Ids
<1>2. (CHOOSE s \in DOMAIN Layout : Layout[s] = c) = start
  BY <1>1, LayoutIs
<1>3. ASSUME NEW t \in 0..Newest
      PROVE  (t >= start /\ \A s \in {r \in DOMAIN Layout : r > start} : t < s) <=> Home(t) = c
  <2>1. PICK s \in DOMAIN Layout :
              /\ s <= t /\ Home(t) = Layout[s]
              /\ \A r \in DOMAIN Layout : r <= t => r <= s
    BY HomeIs
  <2>2. Home(t) = c <=> s = start
    BY <1>1, <2>1, LayoutIs
  <2>3. DOMAIN Layout \subseteq Nat /\ t \in Nat
    BY LayoutIs
  <2> QED BY <1>1, <2>1, <2>2, <2>3
<1> QED BY <1>2, <1>3 DEF RangeOf

LEMMA ChunkAtIs ==
    ASSUME NEW ix, ix.chunks = Layout, NEW t
    PROVE  ChunkAt(ix, t) = Home(t)
BY DEF ChunkAt, Home

LEMMA ShapesAre ==
    ASSUME Plain
    PROVE  /\ NoChunks # Layout /\ DOMAIN NoChunks = {}
           /\ Ids(NoChunks) = {} /\ Ids(Layout) = Chunk
           /\ \A m \in Shapes : Ids(m) \subseteq Chunk
           /\ kind.starts = {} => Layout = [s \in {0} |-> 0] /\ Chunk = {0}
<1>1. DOMAIN NoChunks = {} /\ DOMAIN Layout # {}
  BY LayoutIs DEF NoChunks
<1>2. Ids(NoChunks) = {}
  BY DEF NoChunks, Ids
<1>3. ASSUME kind.starts = {}
      PROVE  Layout = [s \in {0} |-> 0] /\ Chunk = {0}
  BY <1>3 DEF Layout, Chunk, Ids
<1> QED BY <1>1, <1>2, <1>3 DEF Chunk, Shapes

-----------------------------------------------------------------------------
(* What comes in *)

\* y is what x may become by indexing.
Grown(x, y, void) ==
    /\ IndexFits(y, void)
    /\ y.cold = x.cold /\ y.meta = x.meta /\ y.durable = x.durable
    /\ x.dirtyChunks \subseteq y.dirtyChunks
    /\ x.chunks = Layout => y.chunks = Layout
    /\ y.chunks = Layout /\ x.chunks = NoChunks => Chunk \subseteq y.dirtyChunks
    /\ x.redacted \subseteq y.redacted
    /\ x.revision <= y.revision
    /\ y.revision = x.revision => y.docs = x.docs /\ y.redacted = x.redacted
    /\ x.docs \ y.docs \subseteq y.redacted
    /\ \A e \in y.docs \ x.docs : Home(e) \in y.dirtyChunks

LEMMA IndexTypes ==
    ASSUME NEW ix \in IndexShape
    PROVE  /\ ix.docs \subseteq Event /\ ix.ids \subseteq Event /\ ix.redacted \subseteq Event
           /\ ix.pending \subseteq Event /\ ix.chunks \in Shapes /\ ix.cold \subseteq Chunk
           /\ ix.dirtyChunks \subseteq Chunk /\ ix.dirty \in BOOLEAN
           /\ ix.revision \in Nat /\ ix.durable \in Nat /\ ix.meta \subseteq Chunk
           /\ ix.next \in Nat
BY DEF IndexShape

LEMMA GrownFromItself ==
    ASSUME Plain, NEW void, NEW x, IndexFits(x, void)
    PROVE  Grown(x, x, void)
BY ShapesAre, IndexTypes DEF Grown, IndexFits

LEMMA GrownOnwards ==
    ASSUME NEW void, NEW x, NEW y, NEW z, IndexFits(x, void),
           Grown(x, y, void), Grown(y, z, void)
    PROVE  Grown(x, z, void)
<1>1. /\ x.revision \in Nat /\ y.revision \in Nat /\ z.revision \in Nat
      /\ y.chunks \in Shapes
  BY IndexTypes DEF IndexFits, Grown
<1> QED BY <1>1 DEF Grown, Shapes

LEMMA MarkDirtyIs ==
    ASSUME Plain, NEW ix \in IndexShape, NEW t \in 0..Newest,
           ix.chunks = NoChunks => kind.starts = {} /\ ix.next = 0
    PROVE  LET y == MarkDirty(ix, t) IN
           /\ y \in IndexShape
           /\ y.chunks = Layout /\ y.dirtyChunks = ix.dirtyChunks \cup {Home(t)}
           /\ ix.chunks = NoChunks => Chunk \subseteq y.dirtyChunks
           /\ y.docs = ix.docs /\ y.ids = ix.ids /\ y.redacted = ix.redacted
           /\ y.pending = ix.pending /\ y.cold = ix.cold /\ y.meta = ix.meta
           /\ y.revision = ix.revision /\ y.durable = ix.durable
<1> DEFINE x == WithChunk(ix)
           y == MarkDirty(ix, t)
<1>1. /\ x \in IndexShape /\ x.chunks = Layout /\ x.dirtyChunks = ix.dirtyChunks
      /\ x.docs = ix.docs /\ x.ids = ix.ids /\ x.redacted = ix.redacted
      /\ x.pending = ix.pending /\ x.cold = ix.cold /\ x.meta = ix.meta
      /\ x.revision = ix.revision /\ x.durable = ix.durable
  <2>1. CASE ix.chunks = NoChunks
    <3>1. x = [ix EXCEPT !.chunks = Layout, !.next = ix.next + 1]
      BY <2>1, ShapesAre DEF WithChunk
    <3>2. Layout \in Shapes /\ ix.next + 1 \in Nat
      BY IndexTypes DEF Shapes
    <3> QED BY <3>1, <3>2 DEF IndexShape
  <2>2. CASE ix.chunks = Layout
    <3>1. DOMAIN ix.chunks # {}
      BY <2>2, LayoutIs
    <3> QED BY <2>2, <3>1 DEF WithChunk
  <2> QED BY <2>1, <2>2, IndexTypes DEF Shapes
<1>2. y = [x EXCEPT !.dirty = TRUE, !.dirtyChunks = x.dirtyChunks \cup {Home(t)}]
  BY <1>1, ChunkAtIs DEF MarkDirty
<1>3. x.dirtyChunks \cup {Home(t)} \in SUBSET Chunk
  BY <1>1, HomeIsChunk, IndexTypes
<1> HIDE DEF x
<1>4. /\ y \in IndexShape /\ y.chunks = Layout /\ y.dirtyChunks = ix.dirtyChunks \cup {Home(t)}
      /\ y.docs = ix.docs /\ y.ids = ix.ids /\ y.redacted = ix.redacted
      /\ y.pending = ix.pending /\ y.cold = ix.cold /\ y.meta = ix.meta
      /\ y.revision = ix.revision /\ y.durable = ix.durable
  BY <1>1, <1>2, <1>3 DEF IndexShape
<1>5. ix.chunks = NoChunks => Chunk \subseteq y.dirtyChunks
  BY <1>4, HomeIsChunk, ShapesAre
<1> QED BY <1>4, <1>5

LEMMA TouchIs ==
    ASSUME Plain, NEW ix \in IndexShape, NEW t \in 0..Newest,
           ix.chunks = NoChunks => kind.starts = {} /\ ix.next = 0
    PROVE  LET y == Touch(ix, t) IN
           /\ y \in IndexShape
           /\ y.chunks = Layout /\ y.dirtyChunks = ix.dirtyChunks \cup {Home(t)}
           /\ ix.chunks = NoChunks => Chunk \subseteq y.dirtyChunks
           /\ y.docs = ix.docs /\ y.ids = ix.ids /\ y.redacted = ix.redacted
           /\ y.pending = ix.pending /\ y.cold = ix.cold /\ y.meta = ix.meta
           /\ y.revision = ix.revision + 1 /\ y.durable = ix.durable
<1> DEFINE x == MarkDirty(ix, t)
           y == Touch(ix, t)
<1>1. y = [x EXCEPT !.revision = x.revision + 1]
  BY DEF Touch
<1>2. /\ x \in IndexShape /\ x.chunks = Layout
      /\ x.dirtyChunks = ix.dirtyChunks \cup {Home(t)}
      /\ ix.chunks = NoChunks => Chunk \subseteq x.dirtyChunks
      /\ x.docs = ix.docs /\ x.ids = ix.ids /\ x.redacted = ix.redacted
      /\ x.pending = ix.pending /\ x.cold = ix.cold /\ x.meta = ix.meta
      /\ x.revision = ix.revision /\ x.durable = ix.durable
  BY MarkDirtyIs
<1> HIDE DEF x
<1>3. x.revision + 1 \in Nat
  BY <1>2, IndexTypes
<1> QED BY <1>1, <1>2, <1>3 DEF IndexShape

LEMMA MarkClassifiedGrows ==
    ASSUME Plain, NEW void, NEW x, IndexFits(x, void), NEW e \in Event
    PROVE  LET y == MarkClassified(x, e) IN
           Grown(x, y, void) /\ y.ids = x.ids \cup {e} /\ y.docs = x.docs
<1> DEFINE y == MarkClassified(x, e)
           z == [x EXCEPT !.ids = @ \cup {e}]
<1>1. CASE e \in x.ids
  BY <1>1, GrownFromItself DEF MarkClassified
<1>2. CASE e \notin x.ids
  <2>1. e \in 0..Newest /\ x \in IndexShape /\ z \in IndexShape
    <3>1. e \in 0..Newest /\ x \in IndexShape
      BY KindTypes DEF IndexFits
    <3> QED BY <3>1 DEF IndexShape
  <2>2. /\ z.docs = x.docs /\ z.ids = x.ids \cup {e} /\ z.redacted = x.redacted
        /\ z.pending = x.pending /\ z.chunks = x.chunks /\ z.cold = x.cold
        /\ z.dirtyChunks = x.dirtyChunks /\ z.revision = x.revision
        /\ z.durable = x.durable /\ z.meta = x.meta /\ z.next = x.next
    BY <2>1 DEF IndexShape
  <2>3. y = MarkDirty(z, e)
    BY <1>2 DEF MarkClassified
  <2> HIDE DEF y, z
  <2>4. /\ y \in IndexShape
        /\ y.chunks = Layout /\ y.dirtyChunks = z.dirtyChunks \cup {Home(e)}
        /\ z.chunks = NoChunks => Chunk \subseteq y.dirtyChunks
        /\ y.docs = z.docs /\ y.ids = z.ids /\ y.redacted = z.redacted
        /\ y.pending = z.pending /\ y.cold = z.cold /\ y.meta = z.meta
        /\ y.revision = z.revision /\ y.durable = z.durable
    BY <2>1, <2>2, <2>3, MarkDirtyIs DEF IndexFits
  <2>5. IndexFits(y, void)
    BY <2>2, <2>4, ShapesAre DEF IndexFits
  <2>6. x.revision \in Nat
    BY <2>1, IndexTypes
  <2> QED BY <2>2, <2>4, <2>5, <2>6 DEF Grown, y
<1> QED BY <1>1, <1>2

LEMMA UpsertGrows ==
    ASSUME Plain, NEW void, NEW x, IndexFits(x, void), NEW e \in Event
    PROVE  LET y == Upsert(x, e) IN
           Grown(x, y, void) /\ y.ids = x.ids /\ e \in y.docs \cup void /\ x.docs \subseteq y.docs
<1> DEFINE y == Upsert(x, e)
           z == [x EXCEPT !.docs = @ \cup {e}]
<1>1. CASE e \in x.redacted \cup x.docs
  BY <1>1, GrownFromItself DEF Upsert, IndexFits
<1>2. CASE e \notin x.redacted \cup x.docs
  <2>1. e \in 0..Newest /\ x \in IndexShape /\ z \in IndexShape
    <3>1. e \in 0..Newest /\ x \in IndexShape
      BY KindTypes DEF IndexFits
    <3> QED BY <3>1 DEF IndexShape
  <2>2. /\ z.docs = x.docs \cup {e} /\ z.ids = x.ids /\ z.redacted = x.redacted
        /\ z.pending = x.pending /\ z.chunks = x.chunks /\ z.cold = x.cold
        /\ z.dirtyChunks = x.dirtyChunks /\ z.revision = x.revision
        /\ z.durable = x.durable /\ z.meta = x.meta /\ z.next = x.next
    BY <2>1 DEF IndexShape
  <2>3. y = Touch(z, e)
    BY <1>2 DEF Upsert
  <2> HIDE DEF y, z
  <2>4. /\ y \in IndexShape
        /\ y.chunks = Layout /\ y.dirtyChunks = z.dirtyChunks \cup {Home(e)}
        /\ z.chunks = NoChunks => Chunk \subseteq y.dirtyChunks
        /\ y.docs = z.docs /\ y.ids = z.ids /\ y.redacted = z.redacted
        /\ y.pending = z.pending /\ y.cold = z.cold /\ y.meta = z.meta
        /\ y.revision = z.revision + 1 /\ y.durable = z.durable
    BY <2>1, <2>2, <2>3, TouchIs DEF IndexFits
  <2>5. x.revision \in Nat /\ x.durable \in Nat
    BY <2>1, IndexTypes
  <2>6. IndexFits(y, void)
    BY <1>2, <2>2, <2>4, <2>5, ShapesAre DEF IndexFits
  <2> QED BY <2>2, <2>4, <2>5, <2>6 DEF Grown, y
<1> QED BY <1>1, <1>2

LEMMA RetireIs ==
    ASSUME Plain, NEW void, NEW x \in IndexShape, NEW e \in Event,
           x.chunks = NoChunks => kind.starts = {} /\ x.next = 0
    PROVE  LET y == Retire(x, e) IN
           /\ y \in IndexShape
           /\ y.docs = x.docs \ {e} /\ y.ids = x.ids /\ y.redacted = x.redacted
           /\ y.pending = x.pending /\ y.cold = x.cold /\ y.meta = x.meta
           /\ y.durable = x.durable /\ x.dirtyChunks \subseteq y.dirtyChunks
           /\ y.revision >= x.revision
           /\ y.chunks = NoChunks => x.chunks = NoChunks /\ y.next = x.next
           /\ x.chunks = Layout => y.chunks = Layout
           /\ y.chunks = Layout /\ x.chunks = NoChunks => Chunk \subseteq y.dirtyChunks
<1> DEFINE y == Retire(x, e)
           z == [x EXCEPT !.docs = @ \ {e}]
<1>1. CASE e \notin x.docs
  <2>1. y = x /\ x.docs \ {e} = x.docs
    BY <1>1 DEF Retire
  <2> QED BY <2>1, IndexTypes, ShapesAre
<1>2. CASE e \in x.docs
  <2>1. e \in 0..Newest /\ z \in IndexShape
    <3>1. e \in 0..Newest
      BY KindTypes
    <3> QED BY <3>1 DEF IndexShape
  <2>2. /\ z.docs = x.docs \ {e} /\ z.ids = x.ids /\ z.redacted = x.redacted
        /\ z.pending = x.pending /\ z.chunks = x.chunks /\ z.cold = x.cold
        /\ z.dirtyChunks = x.dirtyChunks /\ z.revision = x.revision
        /\ z.durable = x.durable /\ z.meta = x.meta /\ z.next = x.next
    BY DEF IndexShape
  <2>3. y = Touch(z, e)
    BY <1>2 DEF Retire
  <2> HIDE DEF y, z
  <2>4. /\ y \in IndexShape
        /\ y.chunks = Layout /\ y.dirtyChunks = z.dirtyChunks \cup {Home(e)}
        /\ z.chunks = NoChunks => Chunk \subseteq y.dirtyChunks
        /\ y.docs = z.docs /\ y.ids = z.ids /\ y.redacted = z.redacted
        /\ y.pending = z.pending /\ y.cold = z.cold /\ y.meta = z.meta
        /\ y.revision = z.revision + 1 /\ y.durable = z.durable
    BY <2>1, <2>2, <2>3, TouchIs
  <2>5. x.revision \in Nat /\ NoChunks # Layout
    BY IndexTypes, ShapesAre
  <2> QED BY <2>2, <2>4, <2>5 DEF y
<1> QED BY <1>1, <1>2

LEMMA ApplyRedactedGrows ==
    ASSUME Plain, NEW void, NEW x, IndexFits(x, void), NEW e \in Event, e \in void
    PROVE  LET y == ApplyRedacted(x, e) IN
           Grown(x, y, void) /\ y.ids = x.ids
<1> DEFINE y == ApplyRedacted(x, e)
           z == [x EXCEPT !.redacted = @ \cup {e}, !.dirty = TRUE, !.revision = @ + 1]
           w == Retire(z, e)
<1>1. CASE e \in x.redacted
  BY <1>1, GrownFromItself DEF ApplyRedacted
<1>2. CASE e \notin x.redacted
  <2>1. x \in IndexShape /\ x.revision \in Nat /\ x.durable \in Nat /\ z \in IndexShape
    <3>1. x \in IndexShape /\ x.revision \in Nat /\ x.durable \in Nat
      BY IndexTypes DEF IndexFits
    <3>2. x.revision + 1 \in Nat
      BY <3>1
    <3> QED BY <3>1, <3>2 DEF IndexShape
  <2>2. /\ z.docs = x.docs /\ z.ids = x.ids /\ z.redacted = x.redacted \cup {e}
        /\ z.pending = x.pending /\ z.chunks = x.chunks /\ z.cold = x.cold
        /\ z.dirtyChunks = x.dirtyChunks /\ z.revision = x.revision + 1
        /\ z.durable = x.durable /\ z.meta = x.meta /\ z.next = x.next
    BY <2>1 DEF IndexShape
  <2>3. y = IF ~IsHot(z, e) /\ z.cold # {}
            THEN [w EXCEPT !.pending = @ \cup {e}, !.dirty = TRUE] ELSE w
    BY <1>2 DEF ApplyRedacted, ForgetMessage
  <2> HIDE DEF z
  <2>4. /\ w \in IndexShape
        /\ w.docs = z.docs \ {e} /\ w.ids = z.ids /\ w.redacted = z.redacted
        /\ w.pending = z.pending /\ w.cold = z.cold /\ w.meta = z.meta
        /\ w.durable = z.durable /\ z.dirtyChunks \subseteq w.dirtyChunks
        /\ w.revision >= z.revision
        /\ w.chunks = NoChunks => z.chunks = NoChunks /\ w.next = z.next
        /\ z.chunks = Layout => w.chunks = Layout
        /\ w.chunks = Layout /\ z.chunks = NoChunks => Chunk \subseteq w.dirtyChunks
    BY <2>1, <2>2, RetireIs DEF IndexFits
  <2> HIDE DEF y, w
  <2>5. /\ y \in IndexShape
        /\ y.docs = w.docs /\ y.ids = w.ids /\ y.redacted = w.redacted
        /\ y.pending \subseteq w.pending \cup {e} /\ y.cold = w.cold /\ y.meta = w.meta
        /\ y.durable = w.durable /\ y.dirtyChunks = w.dirtyChunks
        /\ y.revision = w.revision /\ y.next = w.next /\ y.chunks = w.chunks
    BY <2>3, <2>4 DEF IndexShape
  <2>6. y.revision \in Nat /\ y.revision > x.revision
    BY <2>1, <2>2, <2>4, <2>5, IndexTypes
  <2>7. IndexFits(y, void)
    BY <2>1, <2>2, <2>4, <2>5, <2>6, ShapesAre DEF IndexFits
  <2>8. Grown(x, y, void)
    BY <2>1, <2>2, <2>4, <2>5, <2>6, <2>7 DEF Grown
  <2> QED BY <2>2, <2>4, <2>5, <2>8 DEF y
<1> QED BY <1>1, <1>2

LEMMA VoidIs ==
    ASSUME Plain, mode = kind
    PROVE  /\ Redacted \subseteq Event /\ Redactions \subseteq Event /\ Void \subseteq Event
           /\ Redacted \subseteq Void /\ Redactions \subseteq Void
           /\ \A e \in Redactions : e <= edge => mode.target[e] \in Redacted
<1>1. PICK R \in SUBSET Event : kind.target \in [R -> Event]
  BY KindTypes
<1> QED BY <1>1 DEF Redacted, Redactions, Void

LEMMA IngestEventGrows ==
    ASSUME Plain, mode = kind, NEW x, IndexFits(x, Void), Classified(x, Void),
           NEW e \in Event, e <= edge, NEW redacted \in SUBSET Redacted
    PROVE  LET y == IngestEvent(x, e, redacted) IN
           Grown(x, y, Void) /\ Classified(y, Void) /\ e \in y.docs \cup Void
<1> DEFINE y == IngestEvent(x, e, redacted)
           z == MarkClassified(x, e)
<1>0. /\ Void \subseteq Event /\ Redacted \subseteq Void /\ Redactions \subseteq Void
      /\ e \in Redactions => mode.target[e] \in Redacted
  BY VoidIs
<1>1. ASSUME NEW w, Grown(x, w, Void), w.ids = x.ids
      PROVE  Classified(w, Void)
  BY <1>1 DEF Classified, Grown, IndexFits
<1>2. CASE e \in redacted
  <2>1. y = ApplyRedacted(x, e)
    BY <1>2 DEF IngestEvent
  <2> HIDE DEF y
  <2>2. Grown(x, y, Void) /\ y.ids = x.ids
    BY <1>0, <1>2, <2>1, ApplyRedactedGrows
  <2> QED BY <1>0, <1>1, <1>2, <2>2 DEF y
<1>3. CASE e \notin redacted /\ e \in x.ids
  <2>1. y = x
    BY <1>3 DEF IngestEvent
  <2> QED BY <1>3, <2>1, GrownFromItself DEF Classified
<1>4. CASE e \notin redacted /\ e \notin x.ids
  <2>1. Grown(x, z, Void) /\ z.ids = x.ids \cup {e} /\ z.docs = x.docs /\ IndexFits(z, Void)
    BY MarkClassifiedGrows DEF Grown
  <2>2. CASE e \in Redactions
    <3>1. y = ApplyRedacted(z, mode.target[e])
      BY <1>4, <2>2 DEF IngestEvent
    <3> HIDE DEF y, z
    <3>2. Grown(z, y, Void) /\ y.ids = z.ids
      BY <1>0, <2>1, <2>2, <3>1, ApplyRedactedGrows
    <3>3. Grown(x, y, Void)
      BY <2>1, <3>2, GrownOnwards
    <3>4. Classified(y, Void)
      BY <1>0, <2>1, <2>2, <3>2 DEF Classified, Grown, IndexFits
    <3> QED BY <1>0, <2>2, <3>3, <3>4 DEF y
  <2>3. CASE e \notin Redactions
    <3>1. y = Upsert(z, e)
      BY <1>4, <2>3 DEF IngestEvent
    <3> HIDE DEF y, z
    <3>2. Grown(z, y, Void) /\ y.ids = z.ids /\ e \in y.docs \cup Void /\ z.docs \subseteq y.docs
      BY <2>1, <3>1, UpsertGrows
    <3>3. Grown(x, y, Void)
      BY <2>1, <3>2, GrownOnwards
    <3>4. Classified(y, Void)
      BY <2>1, <3>2 DEF Classified
    <3> QED BY <3>2, <3>3, <3>4 DEF y
  <2> QED BY <2>2, <2>3
<1> QED BY <1>2, <1>3, <1>4

LEMMA Stepwise ==
    ASSUME NEW n \in Nat, NEW S, 0 \in S, \A i \in 0..(n - 1) : i \in S => i + 1 \in S
    PROVE  0..n \subseteq S
<1> DEFINE missing == {i \in 0..n : i \notin S}
<1> SUFFICES ASSUME missing # {} PROVE FALSE
  OBVIOUS
<1>1. missing \in SUBSET Nat
  OBVIOUS
<1>2. PICK x \in missing : \A y \in missing : x <= y
  <2> HIDE DEF missing
  <2> QED BY <1>1, LeastExists
<1>3. x \in 1..n /\ x - 1 \notin missing
  BY <1>2
<1> QED BY <1>2, <1>3

LEMMA IngestIs ==
    ASSUME Plain, NEW ix, NEW events, NEW redacted
    PROVE  \E f : /\ f[0] = ix
                  /\ \A e \in Event : f[e] = IF e \in events THEN IngestEvent(f[e - 1], e, redacted)
                                             ELSE f[e - 1]
                  /\ Ingest(ix, events, redacted) = f[Newest]
<1> DEFINE n == Newest
           Body(g, e) == IF e = 0 THEN ix
                         ELSE IF e \in events THEN IngestEvent(g[e - 1], e, redacted)
                         ELSE g[e - 1]
           S == {m \in 0..n : \E g : g = [e \in 0..m |-> Body(g, e)]}
<1>0. n \in Nat /\ Event = 1..n
  BY KindTypes
<1>1. 0 \in S
  <2> DEFINE g == [e \in 0..0 |-> ix]
  <2>1. g = [e \in 0..0 |-> Body(g, e)]
    OBVIOUS
  <2>2. \E q : q = [e \in 0..0 |-> Body(q, e)]
    BY <2>1
  <2> QED BY <1>0, <2>2
<1>2. ASSUME NEW m \in 0..(n - 1), m \in S
      PROVE  m + 1 \in S
  <2>1. PICK g : g = [e \in 0..m |-> Body(g, e)]
    BY <1>2
  <2> DEFINE last == m + 1
             h == [e \in 0..(m + 1) |->
                      IF e <= m THEN g[e]
                      ELSE IF last \in events THEN IngestEvent(g[m], last, redacted) ELSE g[m]]
  <2>2. ASSUME NEW e \in 0..(m + 1)
        PROVE  h[e] = Body(h, e)
    <3>1. CASE e = 0
      BY <2>1, <3>1
    <3>2. CASE e > 0 /\ e <= m
      <4>1. h[e] = g[e] /\ h[e - 1] = g[e - 1] /\ g[e] = Body(g, e)
        BY <2>1, <3>2
      <4> QED BY <3>2, <4>1
    <3>3. CASE e = m + 1
      <4>1. h[e - 1] = g[m] /\ e = last /\ e # 0 /\ ~(e <= m)
        BY <3>3
      <4> QED BY <4>1
    <3> QED BY <3>1, <3>2, <3>3
  <2>3. h = [e \in 0..(m + 1) |-> Body(h, e)]
    BY <2>2
  <2>4. \E q : q = [e \in 0..(m + 1) |-> Body(q, e)]
    BY <2>3
  <2> QED BY <1>0, <2>4
<1>3. n \in S
  <2>1. \A m \in 0..(n - 1) : m \in S => m + 1 \in S
    BY <1>2
  <2> HIDE DEF S, n
  <2>2. 0..n \subseteq S
    BY <1>0, <1>1, <2>1, Stepwise
  <2> QED BY <1>0, <2>2
<1> DEFINE F == CHOOSE g : g = [e \in 0..n |-> Body(g, e)]
<1>4. F = [e \in 0..n |-> Body(F, e)]
  BY <1>3
<1>5. Ingest(ix, events, redacted) = F[n]
  BY DEF Ingest
<1> HIDE DEF F
<1>6. /\ F[0] = ix
      /\ \A e \in Event : F[e] = IF e \in events THEN IngestEvent(F[e - 1], e, redacted) ELSE F[e - 1]
  BY <1>0, <1>4
<1> QED BY <1>5, <1>6

\* Whatever is ingested, the index grows, and has what it was given unless it is void.
LEMMA IngestGrows ==
    ASSUME Plain, mode = kind, NEW ix, IndexFits(ix, Void), Classified(ix, Void),
           NEW events \in SUBSET Event, \A e \in events : e <= edge,
           NEW redacted \in SUBSET Redacted
    PROVE  LET y == Ingest(ix, events, redacted) IN
           Grown(ix, y, Void) /\ Classified(y, Void) /\ events \subseteq y.docs \cup Void
<1>1. PICK f : /\ f[0] = ix
               /\ \A e \in Event : f[e] = IF e \in events THEN IngestEvent(f[e - 1], e, redacted)
                                          ELSE f[e - 1]
               /\ Ingest(ix, events, redacted) = f[Newest]
  BY IngestIs
<1> DEFINE Fine(e) == /\ Grown(ix, f[e], Void) /\ Classified(f[e], Void)
                      /\ \A d \in events : d <= e => d \in f[e].docs \cup Void
           S == {e \in 0..Newest : Fine(e)}
<1>2. Newest \in Nat /\ Event = 1..Newest
  BY KindTypes
<1>3. 0 \in S
  BY <1>1, <1>2, GrownFromItself
<1>4. ASSUME NEW m \in 0..(Newest - 1), m \in S
      PROVE  m + 1 \in S
  <2> DEFINE e == m + 1
  <2>1. e \in Event /\ e - 1 = m /\ e \in 0..Newest /\ m \in Nat
    BY <1>2
  <2>2. Grown(ix, f[m], Void) /\ Classified(f[m], Void) /\ IndexFits(f[m], Void)
        /\ \A d \in events : d <= m => d \in f[m].docs \cup Void
    BY <1>4 DEF Grown
  <2> HIDE DEF e
  <2>3. Grown(f[m], f[e], Void) /\ Classified(f[e], Void) /\ (e \in events => e \in f[e].docs \cup Void)
    <3>1. CASE e \in events
      <4>1. f[e] = IngestEvent(f[m], e, redacted)
        BY <1>1, <2>1, <3>1
      <4> QED BY <2>1, <2>2, <3>1, <4>1, IngestEventGrows
    <3>2. CASE e \notin events
      <4>1. f[e] = f[m]
        BY <1>1, <2>1, <3>2
      <4> QED BY <2>2, <3>2, <4>1, GrownFromItself
    <3> QED BY <3>1, <3>2
  <2>4. Grown(ix, f[e], Void)
    BY <2>2, <2>3, GrownOnwards
  <2>5. ASSUME NEW d \in events, d <= e
        PROVE  d \in f[e].docs \cup Void
    <3>1. CASE d = e
      BY <2>3, <2>5, <3>1
    <3>2. CASE d <= m
      BY <2>2, <2>3, <3>2 DEF Grown, IndexFits
    <3> QED BY <1>2, <2>1, <2>5, <3>1, <3>2 DEF e
  <2> QED BY <2>1, <2>3, <2>4, <2>5 DEF e
<1>5. Fine(Newest)
  <2>1. \A m \in 0..(Newest - 1) : m \in S => m + 1 \in S
    BY <1>4
  <2>2. 0..Newest \subseteq S
    <3> HIDE DEF S
    <3> QED BY <1>2, <1>3, <2>1, Stepwise
  <2> QED BY <1>2, <2>2
<1> QED BY <1>1, <1>2, <1>5

-----------------------------------------------------------------------------
(* Unloading *)

LEMMA DropRangeIs ==
    ASSUME Plain, NEW ix \in IndexShape, NEW gone \in SUBSET Chunk,
           ix.chunks = Layout \/ gone = {}
    PROVE  LET y == DropRange(ix, gone) IN
           /\ y \in IndexShape
           /\ y = [ix EXCEPT !.docs = y.docs, !.ids = y.ids]
           /\ y.docs = {e \in ix.docs : Home(e) \notin gone}
           /\ y.ids = {e \in ix.ids : Home(e) \notin gone}
           /\ y.redacted = ix.redacted /\ y.pending = ix.pending /\ y.chunks = ix.chunks
           /\ y.cold = ix.cold /\ y.dirtyChunks = ix.dirtyChunks /\ y.dirty = ix.dirty
           /\ y.revision = ix.revision /\ y.durable = ix.durable /\ y.meta = ix.meta
           /\ y.next = ix.next
<1> DEFINE range == UNION {RangeOf(ix.chunks, c) : c \in gone}
<1>1. \A e \in Event : e \in range <=> Home(e) \in gone
  <2>1. Event \subseteq 0..Newest
    BY KindTypes
  <2>2. \A c \in gone : RangeOf(ix.chunks, c) = {t \in 0..Newest : Home(t) = c}
    BY RangeIs
  <2> QED BY <2>1, <2>2
<1>2. DropRange(ix, gone) = [ix EXCEPT !.docs = @ \ range, !.ids = @ \ range]
  BY DEF DropRange
<1> HIDE DEF range
<1>3. ix.docs \subseteq Event /\ ix.ids \subseteq Event
  BY IndexTypes
<1>4. /\ ix.docs \ range = {e \in ix.docs : Home(e) \notin gone}
      /\ ix.ids \ range = {e \in ix.ids : Home(e) \notin gone}
  BY <1>1, <1>3
<1> QED BY <1>2, <1>3, <1>4 DEF IndexShape

\* y is x with some clean chunks unloaded.
Unloaded(x, y, some) ==
    /\ some \subseteq x.meta /\ some \cap (x.cold \cup x.dirtyChunks) = {}
    /\ kind.unloading \/ some = {}
    /\ y \in IndexShape
    /\ y.docs = {e \in x.docs : Home(e) \notin some}
    /\ y.ids = {e \in x.ids : Home(e) \notin some}
    /\ y.cold = x.cold \cup some
    /\ y.redacted = x.redacted /\ y.pending = x.pending /\ y.chunks = x.chunks
    /\ y.dirtyChunks = x.dirtyChunks /\ y.revision = x.revision /\ y.durable = x.durable
    /\ y.meta = x.meta /\ y.next = x.next

LEMMA UnloadedIs ==
    ASSUME Plain, mode = kind, NEW x \in IndexShape, NEW y \in UnloadToBudget(x)
    PROVE  \E some \in SUBSET Chunk : Unloaded(x, y, some)
<1>1. PICK some \in SUBSET Unloadable(x) :
          /\ ~mode.unloading => some = {}
          /\ y = [DropRange(x, some) EXCEPT !.cold = @ \cup some]
  BY DEF UnloadToBudget
<1> DEFINE z == DropRange(x, some)
<1>2. x.chunks \in Shapes /\ x.meta \subseteq Chunk /\ x.cold \subseteq Chunk
  BY IndexTypes
<1>3. some \in SUBSET Chunk /\ (x.chunks = Layout \/ some = {})
  BY <1>1, <1>2, ShapesAre DEF Unloadable, Shapes
<1>4. /\ z \in IndexShape
      /\ z.docs = {e \in x.docs : Home(e) \notin some}
      /\ z.ids = {e \in x.ids : Home(e) \notin some}
      /\ z.redacted = x.redacted /\ z.pending = x.pending /\ z.chunks = x.chunks
      /\ z.cold = x.cold /\ z.dirtyChunks = x.dirtyChunks /\ z.dirty = x.dirty
      /\ z.revision = x.revision /\ z.durable = x.durable /\ z.meta = x.meta
      /\ z.next = x.next
  BY <1>3, DropRangeIs
<1>5. y = [z EXCEPT !.cold = @ \cup some]
  BY <1>1
<1> HIDE DEF z
<1>6. /\ y \in IndexShape
      /\ y.docs = z.docs /\ y.ids = z.ids /\ y.cold = x.cold \cup some
      /\ y.redacted = z.redacted /\ y.pending = z.pending /\ y.chunks = z.chunks
      /\ y.dirtyChunks = z.dirtyChunks /\ y.revision = z.revision /\ y.durable = z.durable
      /\ y.meta = z.meta /\ y.next = z.next
  BY <1>2, <1>3, <1>4, <1>5 DEF IndexShape
<1>7. some \subseteq x.meta /\ some \cap (x.cold \cup x.dirtyChunks) = {}
  BY <1>1 DEF Unloadable
<1>8. kind.unloading \/ some = {}
  BY <1>1
<1> QED BY <1>3, <1>4, <1>6, <1>7, <1>8 DEF Unloaded

LEMMA FlushTypes ==
    ASSUME Plain, NEW void, NEW fl, FlushFits(fl, void)
    PROVE  /\ fl \in FlushShape /\ Todo(fl) \subseteq Event /\ ToMerge(fl) \subseteq Event
           /\ \A e \in Todo(fl) : Home(e) \in {p.id : p \in fl.todo}
           /\ \A e \in ToMerge(fl) : Home(e) \in fl.targets
           /\ fl.revision \in Nat /\ fl.hot \subseteq Chunk /\ fl.targets \subseteq Chunk
           /\ fl.manifest \in ManifestShape /\ fl.redactions \subseteq Event
           /\ \A p \in fl.todo \cup fl.cold : p \in Piece
BY DEF FlushFits, FlushShape, Piece, Todo, ToMerge, ContentFits

\* Unloading loses nothing.
LEMMA UnloadKeeps ==
    ASSUME Plain, mode = kind, NEW dk, NEW fl, NEW void, NEW x, Sound(x, dk, fl, void),
           NEW y \in UnloadToBudget(x)
    PROVE  /\ Sound(y, dk, fl, void) /\ HeldBy(y, dk, fl) = HeldBy(x, dk, fl)
           /\ y.redacted = x.redacted /\ y.revision = x.revision /\ y.durable = x.durable
<1>0. IndexFits(x, void) /\ x \in IndexShape
  BY DEF Sound, IndexFits
<1>1. PICK some \in SUBSET Chunk : Unloaded(x, y, some)
  BY <1>0, UnloadedIs
<1>2. x.docs \subseteq Event /\ y.docs \subseteq Event
  BY <1>0, <1>1, IndexTypes DEF Unloaded
<1>3. IndexFits(y, void) /\ Classified(y, void)
  BY <1>1 DEF Unloaded, Sound, IndexFits, Classified
<1>4. StoreFits(dk, void) /\ FlushFits(fl, void)
  BY DEF Sound
<1>5. Linked(y, dk, fl)
  BY <1>1 DEF Unloaded, Sound, Linked
<1>6. Loaded(y, dk, fl)
  BY <1>1 DEF Unloaded, Sound, Loaded
<1>7. Saved(y, dk, fl)
  BY <1>1 DEF Unloaded, Sound, Saved
<1>8. Takes(y, dk, fl)
  <2>1. ASSUME NEW p \in fl.todo
        PROVE  p.docs \subseteq y.docs \cup y.redacted \/ p.id \in y.cold
    <3>1. \A e \in p.docs : Home(e) = p.id
      BY <1>4 DEF FlushFits, ContentFits
    <3> QED BY <1>1, <3>1 DEF Unloaded, Sound, Takes
  <2>2. \A e \in OnDisk(dk), p \in fl.todo : Home(e) = p.id => e \in p.docs \cup y.redacted
    BY <1>1 DEF Unloaded, Sound, Takes
  <2>3. ToMerge(fl) \subseteq y.docs \cup y.redacted
    <3>1. \A e \in ToMerge(fl) : Home(e) \in x.cold
      BY <1>4, FlushTypes DEF Sound, Linked
    <3> QED BY <1>1, <3>1 DEF Unloaded, Sound, Takes
  <2> QED BY <2>1, <2>2, <2>3 DEF Takes
<1>9. HeldBy(y, dk, fl) = HeldBy(x, dk, fl)
  <2>1. ASSUME NEW e \in Event, e \in x.docs, Home(e) \in some
        PROVE  e \notin x.redacted /\ (InChunk(dk, e) \/ e \in Todo(fl))
    <3>1. Home(e) \notin x.dirtyChunks /\ Home(e) \notin x.cold
      BY <1>1, <2>1 DEF Unloaded
    <3>2. e \notin ToMerge(fl)
      BY <1>4, <3>1, FlushTypes DEF Sound, Linked
    <3>3. e \in Coming(dk, fl)
      BY <2>1, <3>1 DEF Sound, Saved
    <3> QED BY <2>1, <3>2, <3>3 DEF Coming, Written, Sound, IndexFits
  <2>2. ASSUME NEW e \in Event, Home(e) \in some, InChunk(dk, e), e \notin x.redacted
        PROVE  e \in x.docs
    <3>1. Home(e) \in Listed(dk) /\ Home(e) \notin x.cold
      BY <1>1, <2>2 DEF Unloaded, Sound, Linked
    <3>2. e \in Written(dk, fl)
      BY <2>2, <3>1 DEF Written
    <3> QED BY <2>2, <3>1, <3>2 DEF Sound, Loaded
  <2> QED BY <1>1, <1>2, <2>1, <2>2 DEF HeldBy, Unloaded
<1>10. Covered(HeldBy(y, dk, fl), y.revision, y, dk, fl, void)
  BY <1>1, <1>9 DEF Unloaded, Sound, Covered
<1> QED BY <1>1, <1>3, <1>4, <1>5, <1>6, <1>7, <1>8, <1>9, <1>10 DEF Sound, Unloaded

\* What comes in takes nothing away but what is redacted.
LEMMA GrownIsSound ==
    ASSUME Plain, NEW dk, NEW fl, NEW void, NEW x, Sound(x, dk, fl, void),
           NEW y, Grown(x, y, void), Classified(y, void)
    PROVE  /\ Sound(y, dk, fl, void)
           /\ HeldBy(x, dk, fl) \subseteq HeldBy(y, dk, fl) \cup y.redacted
<1>1. IndexFits(x, void) /\ IndexFits(y, void) /\ StoreFits(dk, void) /\ FlushFits(fl, void)
  BY DEF Sound, Grown
<1>2. /\ x.revision \in Nat /\ y.revision \in Nat /\ x.durable \in Nat /\ fl.revision \in Nat
      /\ x.docs \subseteq Event /\ y.docs \subseteq Event /\ x.chunks \in Shapes
  BY <1>1, IndexTypes, FlushTypes DEF IndexFits
<1>3. Linked(y, dk, fl)
  <2>1. x.chunks = Layout \/ x.chunks = NoChunks
    BY <1>2 DEF Shapes
  <2> QED BY <1>2, <2>1 DEF Sound, Linked, Grown
<1>4. Loaded(y, dk, fl)
  BY DEF Sound, Loaded, Grown
<1>5. Saved(y, dk, fl)
  BY DEF Sound, Saved, Grown
<1>6. Takes(y, dk, fl)
  BY DEF Sound, Takes, Grown
<1>7. HeldBy(x, dk, fl) \subseteq HeldBy(y, dk, fl) \cup y.redacted
  BY <1>2 DEF HeldBy, Grown
<1>8. Covered(HeldBy(y, dk, fl), y.revision, y, dk, fl, void)
  <2>1. CASE y.revision = x.revision
    <3>1. HeldBy(y, dk, fl) = HeldBy(x, dk, fl)
      BY <2>1 DEF HeldBy, Grown
    <3> QED BY <2>1, <3>1 DEF Sound, Covered, Grown
  <2>2. CASE y.revision # x.revision
    <3>1. y.revision > x.revision /\ x.durable <= x.revision /\ fl.revision <= x.revision
          /\ y.durable = x.durable
      BY <1>1, <1>2, <2>2 DEF Grown, IndexFits, Sound, Linked
    <3> QED BY <1>2, <3>1 DEF Covered
  <2> QED BY <2>1, <2>2
<1> QED BY <1>1, <1>3, <1>4, <1>5, <1>6, <1>7, <1>8 DEF Sound

-----------------------------------------------------------------------------
(* The steps of a save *)

\* What was to be durable at some revision still is after a step.
Carried(ix, dk, fl, ix2, dk2, fl2, void) ==
    \A S \in SUBSET Event, r \in Nat :
        /\ r <= ix.revision
        /\ S \subseteq HeldBy(ix, dk, fl) \cup void
        /\ Covered(S, r, ix, dk, fl, void)
        => Covered(S, r, ix2, dk2, fl2, void)

\* A write to the store: of what is held or void, and it loses only what is void.
Writes(ix, dk, fl, dk2, fl2, void) ==
    /\ Sound(ix, dk2, fl2, void)
    /\ HeldBy(ix, dk2, fl2) = HeldBy(ix, dk, fl)
    /\ OnDisk(dk) \subseteq OnDisk(dk2) \cup ix.redacted
    /\ OnDisk(dk2) \subseteq OnDisk(dk) \cup HeldBy(ix, dk, fl) \cup ix.redacted
    /\ Carried(ix, dk, fl, ix, dk2, fl2, void)

LEMMA HeldIsEvents ==
    ASSUME Plain, NEW ix, NEW dk, NEW fl, NEW void, IndexFits(ix, void)
    PROVE  HeldBy(ix, dk, fl) \subseteq Event /\ ix.redacted \subseteq void
BY IndexTypes DEF HeldBy, IndexFits

\* A write keeps what is covered if it keeps what is on disk and what is coming.
LEMMA WriteCarries ==
    ASSUME Plain, NEW ix, NEW dk, NEW fl, NEW dk2, NEW fl2, NEW void,
           Sound(ix, dk, fl, void),
           OnDisk(dk) \subseteq OnDisk(dk2) \cup void,
           Coming(dk, fl) \subseteq Coming(dk2, fl2) \cup void,
           fl.pc # "idle", fl2.revision = fl.revision,
           HeldBy(ix, dk2, fl2) = HeldBy(ix, dk, fl)
    PROVE  /\ Covered(HeldBy(ix, dk2, fl2), ix.revision, ix, dk2, fl2, void)
           /\ Carried(ix, dk, fl, ix, dk2, fl2, void)
<1>1. ASSUME NEW S, NEW r, Covered(S, r, ix, dk, fl, void)
      PROVE  Covered(S, r, ix, dk2, fl2, void)
  BY <1>1 DEF Covered
<1> QED BY <1>1 DEF Carried, Sound

LEMMA PutIs ==
    ASSUME Plain, NEW dk \in StoreShape, NEW c, c.id \in Chunk,
           c.docs \subseteq Event, c.ids \subseteq Event
    PROVE  LET dk2 == [dk EXCEPT !.chunks = Put(@, c)] IN
           /\ dk2 \in StoreShape /\ dk2.manifest = dk.manifest
           /\ DOMAIN dk2.chunks = DOMAIN dk.chunks \cup {c.id}
           /\ dk2.chunks[c.id].docs = c.docs /\ dk2.chunks[c.id].ids = c.ids
           /\ \A d \in DOMAIN dk.chunks : d # c.id => dk2.chunks[d] = dk.chunks[d]
<1> DEFINE new == Put(dk.chunks, c)
           dk2 == [dk EXCEPT !.chunks = Put(@, c)]
<1>1. PICK C \in SUBSET Chunk : dk.chunks \in [C -> Doc]
  BY DEF StoreShape
<1>2. [docs |-> c.docs, ids |-> c.ids] \in Doc
  BY DEF Doc
<1>3. /\ DOMAIN new = DOMAIN dk.chunks \cup {c.id}
      /\ new[c.id] = [docs |-> c.docs, ids |-> c.ids]
      /\ \A d \in DOMAIN dk.chunks : d # c.id => new[d] = dk.chunks[d]
      /\ new = [d \in DOMAIN new |-> new[d]]
  BY DEF Put
<1>4. new \in [C \cup {c.id} -> Doc]
  <2>1. DOMAIN new = C \cup {c.id}
    BY <1>1, <1>3
  <2>2. \A d \in DOMAIN new : new[d] \in Doc
    BY <1>1, <1>2, <1>3
  <2> HIDE DEF new
  <2> QED BY <1>3, <2>1, <2>2
<1>5. dk2.manifest = dk.manifest /\ dk2.chunks = new /\ dk2 = [manifest |-> dk.manifest, chunks |-> new]
  BY DEF StoreShape
<1>6. dk2 \in StoreShape
  <2>1. C \cup {c.id} \in SUBSET Chunk
    BY <1>1
  <2>2. dk.manifest \in ManifestShape
    BY DEF StoreShape
  <2> HIDE DEF new, dk2
  <2> QED BY <1>4, <1>5, <2>1, <2>2 DEF StoreShape
<1> HIDE DEF new
<1> QED BY <1>3, <1>5, <1>6

LEMMA StoreTypes ==
    ASSUME Plain, NEW void, NEW dk, StoreFits(dk, void)
    PROVE  /\ dk \in StoreShape /\ DOMAIN dk.chunks \subseteq Chunk
           /\ \A c \in DOMAIN dk.chunks : /\ dk.chunks[c] \in Doc
                                          /\ dk.chunks[c].docs \subseteq Event
                                          /\ dk.chunks[c].ids \subseteq Event
           /\ dk.manifest \in ManifestShape /\ dk.manifest.chunks \in Shapes
           /\ Listed(dk) \subseteq Chunk
<1>1. dk \in StoreShape
  BY DEF StoreFits
<1>2. PICK C \in SUBSET Chunk : dk.chunks \in [C -> Doc]
  BY <1>1 DEF StoreShape
<1>3. dk.manifest \in ManifestShape /\ dk.manifest.chunks \in Shapes
  BY <1>1 DEF StoreShape, ManifestShape
<1>4. Listed(dk) \subseteq Chunk
  BY <1>3, ShapesAre DEF Listed
<1> QED BY <1>1, <1>2, <1>3, <1>4 DEF Doc

LEMMA WriteChunkIs ==
    ASSUME Plain, NEW ix, NEW dk, NEW fl, NEW void, Sound(ix, dk, fl, void),
           NEW c \in fl.todo
    PROVE  Writes(ix, dk, fl, [dk EXCEPT !.chunks = Put(@, c)], [fl EXCEPT !.todo = @ \ {c}], void)
<1> DEFINE dk2 == [dk EXCEPT !.chunks = Put(@, c)]
           fl2 == [fl EXCEPT !.todo = @ \ {c}]
<1>1. /\ IndexFits(ix, void) /\ Classified(ix, void) /\ StoreFits(dk, void)
      /\ FlushFits(fl, void) /\ Linked(ix, dk, fl) /\ Loaded(ix, dk, fl)
      /\ Saved(ix, dk, fl) /\ Takes(ix, dk, fl)
  BY DEF Sound
<1>2. /\ fl \in FlushShape /\ fl.pc = "chunks" /\ c \in Piece /\ c.id \in Chunk /\ c.id \in fl.hot
      /\ c.docs \subseteq Event /\ c.ids \subseteq Event /\ ContentFits(c.id, c, void)
      /\ \A e \in c.docs : Home(e) = c.id
      /\ \A p \in fl.todo : p # c => p.id # c.id
  BY <1>1, FlushTypes DEF FlushFits, Piece, ContentFits
<1>3. /\ dk2 \in StoreShape /\ dk2.manifest = dk.manifest
      /\ DOMAIN dk2.chunks = DOMAIN dk.chunks \cup {c.id}
      /\ dk2.chunks[c.id].docs = c.docs /\ dk2.chunks[c.id].ids = c.ids
      /\ \A d \in DOMAIN dk.chunks : d # c.id => dk2.chunks[d] = dk.chunks[d]
  BY <1>1, <1>2, PutIs DEF StoreFits
<1>4. /\ fl2 \in FlushShape /\ fl2.todo = fl.todo \ {c} /\ fl2.pc = fl.pc /\ fl2.hot = fl.hot
      /\ fl2.cold = fl.cold /\ fl2.targets = fl.targets /\ fl2.manifest = fl.manifest
      /\ fl2.redactions = fl.redactions /\ fl2.revision = fl.revision
  BY <1>2 DEF FlushShape
<1> HIDE DEF dk2, fl2
<1>5. /\ \A e \in Event : InChunk(dk2, e) <=> IF Home(e) = c.id THEN e \in c.docs ELSE InChunk(dk, e)
      /\ Listed(dk2) = Listed(dk)
      /\ Fresh(fl2) = Fresh(fl) \cup {c.id} /\ c.id \notin Fresh(fl)
      /\ ToMerge(fl2) = ToMerge(fl) /\ Patched(fl2) = Patched(fl)
      /\ \A e : e \in Todo(fl) <=> e \in Todo(fl2) \/ e \in c.docs
      /\ \A e \in Todo(fl2) : Home(e) # c.id
  <2>1. \A e \in Event : InChunk(dk2, e) <=> IF Home(e) = c.id THEN e \in c.docs ELSE InChunk(dk, e)
    BY <1>3 DEF InChunk
  <2>2. Listed(dk2) = Listed(dk)
    BY <1>3 DEF Listed
  <2>3. Fresh(fl2) = Fresh(fl) \cup {c.id} /\ c.id \notin Fresh(fl)
    BY <1>2, <1>4 DEF Fresh
  <2>4. ToMerge(fl2) = ToMerge(fl) /\ Patched(fl2) = Patched(fl)
    BY <1>4 DEF ToMerge, Patched
  <2>5. \A e : e \in Todo(fl) <=> e \in Todo(fl2) \/ e \in c.docs
    BY <1>4 DEF Todo
  <2>6. \A e \in Todo(fl2) : Home(e) # c.id
    BY <1>1, <1>2, <1>4 DEF Todo, FlushFits, ContentFits
  <2> QED BY <2>1, <2>2, <2>3, <2>4, <2>5, <2>6
\* A document of the chunk as it was on disk is in what is written.
<1>6. \A e \in OnDisk(dk) : Home(e) = c.id => e \in c.docs \cup ix.redacted
  BY <1>1 DEF Takes
<1>7. StoreFits(dk2, void)
  <2>1. Ids(dk2.manifest.chunks) \subseteq DOMAIN dk2.chunks
    BY <1>1, <1>3 DEF StoreFits
  <2>2. ASSUME NEW d \in DOMAIN dk2.chunks
        PROVE  ContentFits(d, dk2.chunks[d], void)
    BY <1>1, <1>2, <1>3 DEF StoreFits, ContentFits
  <2> QED BY <1>1, <1>3, <2>1, <2>2 DEF StoreFits
<1>8. FlushFits(fl2, void)
  BY <1>1, <1>2, <1>4 DEF FlushFits
<1>9. Linked(ix, dk2, fl2)
  BY <1>1, <1>3, <1>4, <1>5 DEF Linked
<1>10. \A e \in Event : e \in Written(dk2, fl2) <=>
           IF Home(e) = c.id THEN e \in c.docs ELSE e \in Written(dk, fl)
  BY <1>5 DEF Written
<1>11. Loaded(ix, dk2, fl2)
  <2> SUFFICES ASSUME NEW e \in Written(dk2, fl2)
               PROVE  e \in ix.docs \cup ix.redacted \/ Home(e) \in ix.cold
    BY DEF Loaded
  <2>1. e \in Event
    BY DEF Written
  <2> QED BY <1>1, <1>10, <2>1 DEF Loaded, Takes
<1>12. ASSUME NEW e \in Event, e \in Written(dk, fl), Home(e) = c.id
       PROVE  e \in c.docs \cup ix.redacted
  BY <1>5, <1>6, <1>12 DEF Written, OnDisk
<1>13. Coming(dk, fl) \subseteq Coming(dk2, fl2) \cup ix.redacted
  <2> SUFFICES ASSUME NEW e \in Coming(dk, fl), e \notin ix.redacted
               PROVE  e \in Coming(dk2, fl2)
    OBVIOUS
  <2>1. e \in Event
    BY <1>1, FlushTypes DEF Coming, Written
  <2> QED BY <1>2, <1>5, <1>10, <1>12, <2>1 DEF Coming
<1>14. Saved(ix, dk2, fl2)
  BY <1>1, <1>13 DEF Saved, IndexFits
<1>15. Takes(ix, dk2, fl2)
  <2>1. \A e \in OnDisk(dk2), p \in fl2.todo : Home(e) = p.id => e \in p.docs \cup ix.redacted
    BY <1>1, <1>2, <1>4, <1>5 DEF Takes, OnDisk
  <2> QED BY <1>1, <1>4, <1>5, <2>1 DEF Takes
<1>16. HeldBy(ix, dk2, fl2) = HeldBy(ix, dk, fl)
  <2>1. ASSUME NEW e \in Event, Home(e) = c.id, c.id \in ix.cold, InChunk(dk, e)
        PROVE  e \in c.docs \cup ix.redacted
    BY <1>1, <1>6, <2>1 DEF OnDisk, Linked, IndexFits
  <2>2. c.id \notin ix.cold => c.docs \subseteq ix.docs \cup ix.redacted
    BY <1>1 DEF Takes
  <2> QED BY <1>2, <1>5, <2>1, <2>2 DEF HeldBy
<1>17. OnDisk(dk) \subseteq OnDisk(dk2) \cup ix.redacted
  BY <1>5, <1>6 DEF OnDisk
<1>18. OnDisk(dk2) \subseteq OnDisk(dk) \cup HeldBy(ix, dk, fl) \cup ix.redacted
  BY <1>2, <1>5 DEF OnDisk, HeldBy
<1>19. /\ Covered(HeldBy(ix, dk2, fl2), ix.revision, ix, dk2, fl2, void)
       /\ Carried(ix, dk, fl, ix, dk2, fl2, void)
  BY <1>1, <1>2, <1>4, <1>13, <1>16, <1>17, WriteCarries, HeldIsEvents
<1>20. Sound(ix, dk2, fl2, void)
  BY <1>1, <1>7, <1>8, <1>9, <1>11, <1>14, <1>15, <1>19 DEF Sound
<1> QED BY <1>16, <1>17, <1>18, <1>19, <1>20 DEF Writes, dk2, fl2

LEMMA WriteManifestIs ==
    ASSUME Plain, NEW ix, NEW dk, NEW fl, NEW void, Sound(ix, dk, fl, void),
           NEW m \in {fl.manifest, [fl.manifest EXCEPT !.pending = {}]},
           NEW pc \in {"merge", "manifest", "saved"}, fl.targets # {} => pc = "merge",
           fl.todo = {}, fl.pc \in {"chunks", "manifest"}
    PROVE  Writes(ix, dk, fl, [dk EXCEPT !.manifest = m], [fl EXCEPT !.pc = pc], void)
<1> DEFINE dk2 == [dk EXCEPT !.manifest = m]
           fl2 == [fl EXCEPT !.pc = pc]
<1>1. /\ IndexFits(ix, void) /\ Classified(ix, void) /\ StoreFits(dk, void)
      /\ FlushFits(fl, void) /\ Linked(ix, dk, fl) /\ Loaded(ix, dk, fl)
      /\ Saved(ix, dk, fl) /\ Takes(ix, dk, fl)
  BY DEF Sound
<1>2. /\ fl \in FlushShape /\ fl.manifest \in ManifestShape /\ fl.manifest.chunks \in Shapes
      /\ fl.hot \subseteq Ids(fl.manifest.chunks) /\ ManifestFits(fl.manifest, void)
  BY <1>1, FlushTypes DEF FlushFits, ManifestShape
<1>3. /\ m \in ManifestShape /\ m.chunks = fl.manifest.chunks /\ m.redacted = fl.manifest.redacted
      /\ ManifestFits(m, void)
  BY <1>2 DEF ManifestShape, ManifestFits
<1>4. dk2 \in StoreShape /\ dk2.manifest = m /\ dk2.chunks = dk.chunks
  BY <1>1, <1>3, StoreTypes DEF StoreShape
<1>5. /\ fl2 \in FlushShape /\ fl2.todo = {} /\ fl2.pc = pc /\ fl2.hot = fl.hot
      /\ fl2.cold = fl.cold /\ fl2.targets = fl.targets /\ fl2.manifest = fl.manifest
      /\ fl2.redactions = fl.redactions /\ fl2.revision = fl.revision
  BY <1>2 DEF FlushShape
<1> HIDE DEF dk2, fl2
<1>6. Listed(dk2) = Listed(dk) \cup Fresh(fl)
  <2>1. Listed(dk2) = Ids(fl.manifest.chunks)
    BY <1>3, <1>4 DEF Listed
  <2>2. CASE fl.pc = "manifest"
    BY <1>1, <2>1, <2>2 DEF Linked, Listed, Fresh
  <2>3. CASE fl.pc = "chunks"
    <3>1. Fresh(fl) = fl.hot
      BY <2>3 DEF Fresh
    <3>2. CASE fl.manifest.chunks = NoChunks
      <4>1. dk.manifest.chunks = NoChunks
        BY <1>1, <2>3, <3>2, ShapesAre DEF Linked
      <4> QED BY <1>2, <2>1, <3>1, <3>2, <4>1, ShapesAre DEF Listed
    <3>3. CASE fl.manifest.chunks = Layout
      <4>1. dk.manifest.chunks \in Shapes /\ fl.hot \subseteq Chunk
        BY <1>1, StoreTypes, FlushTypes
      <4>2. CASE dk.manifest.chunks = Layout
        BY <2>1, <3>1, <3>3, <4>1, <4>2, ShapesAre DEF Listed
      <4>3. CASE dk.manifest.chunks = NoChunks
        <5>1. Chunk \subseteq fl.hot
          BY <1>1, <2>3, <3>3, <4>3 DEF Linked
        <5> QED BY <2>1, <3>1, <3>3, <4>1, <4>3, <5>1, ShapesAre DEF Listed
      <4> QED BY <4>1, <4>2, <4>3 DEF Shapes
    <3> QED BY <1>2, <3>2, <3>3 DEF Shapes
  <2> QED BY <2>2, <2>3
<1>7. /\ \A e \in Event : InChunk(dk2, e) <=> InChunk(dk, e)
      /\ Fresh(fl2) = {} /\ Todo(fl) = {} /\ Todo(fl2) = {}
      /\ ToMerge(fl2) = ToMerge(fl) /\ Patched(fl2) = Patched(fl)
  BY <1>4, <1>5 DEF InChunk, Fresh, Todo, ToMerge, Patched
<1>8. Written(dk2, fl2) = Written(dk, fl) /\ OnDisk(dk2) = Written(dk, fl)
  BY <1>6, <1>7 DEF Written, OnDisk
<1>9. StoreFits(dk2, void)
  <2>1. Listed(dk2) \subseteq DOMAIN dk.chunks
    BY <1>1, <1>6 DEF StoreFits, Linked, Listed
  <2> QED BY <1>1, <1>3, <1>4, <2>1 DEF StoreFits, Listed
<1>10. FlushFits(fl2, void)
  BY <1>1, <1>2, <1>5 DEF FlushFits
<1>11. Linked(ix, dk2, fl2)
  <2>1. dk.manifest.chunks # NoChunks => dk2.manifest.chunks # NoChunks
    BY <1>1, <1>3, <1>4, ShapesAre DEF Linked
  <2>2. dk2.manifest.chunks # NoChunks => dk2.manifest.chunks = Layout
    BY <1>2, <1>3, <1>4 DEF Shapes
  <2> QED BY <1>1, <1>3, <1>4, <1>5, <1>6, <1>7, <2>1, <2>2 DEF Linked
<1>12. Loaded(ix, dk2, fl2)
  BY <1>1, <1>8 DEF Loaded
<1>13. Coming(dk2, fl2) = Coming(dk, fl)
  BY <1>7, <1>8 DEF Coming
<1>14. Saved(ix, dk2, fl2)
  BY <1>1, <1>13 DEF Saved
<1>15. Takes(ix, dk2, fl2)
  BY <1>1, <1>5, <1>7 DEF Takes
<1>16. HeldBy(ix, dk2, fl2) = HeldBy(ix, dk, fl)
  BY <1>7 DEF HeldBy
<1>17. OnDisk(dk) \subseteq OnDisk(dk2)
  BY <1>8 DEF OnDisk, Written
<1>18. OnDisk(dk2) \subseteq OnDisk(dk) \cup HeldBy(ix, dk, fl) \cup ix.redacted
  BY <1>1, <1>8 DEF Loaded, HeldBy, Written
<1>19. /\ Covered(HeldBy(ix, dk2, fl2), ix.revision, ix, dk2, fl2, void)
       /\ Carried(ix, dk, fl, ix, dk2, fl2, void)
  <2>1. Coming(dk, fl) \subseteq Coming(dk2, fl2) \cup void
    BY <1>13
  <2> QED BY <1>5, <1>16, <1>17, <2>1, WriteCarries
<1>20. Sound(ix, dk2, fl2, void)
  BY <1>1, <1>9, <1>10, <1>11, <1>12, <1>14, <1>15, <1>19 DEF Sound
<1> QED BY <1>16, <1>17, <1>18, <1>19, <1>20 DEF Writes, dk2, fl2

LEMMA MergeChunkIs ==
    ASSUME Plain, NEW ix, NEW dk, NEW fl, NEW void, Sound(ix, dk, fl, void),
           NEW c \in fl.targets, fl.pc = "merge",
           NEW pc \in {"merge", "manifest"}, fl.targets = {c} <=> pc = "manifest"
    PROVE  Writes(ix, dk, fl, [dk EXCEPT !.chunks = Put(@, Merged(@[c], fl, c))],
                  [fl EXCEPT !.targets = @ \ {c}, !.pc = pc], void)
<1> DEFINE new == Merged(dk.chunks[c], fl, c)
           dk2 == [dk EXCEPT !.chunks = Put(@, Merged(@[c], fl, c))]
           fl2 == [fl EXCEPT !.targets = @ \ {c}, !.pc = pc]
           old == dk.chunks[c]
           patch == {p \in fl.cold : p.id = c}
<1>1. /\ IndexFits(ix, void) /\ Classified(ix, void) /\ StoreFits(dk, void)
      /\ FlushFits(fl, void) /\ Linked(ix, dk, fl) /\ Loaded(ix, dk, fl)
      /\ Saved(ix, dk, fl) /\ Takes(ix, dk, fl)
  BY DEF Sound
<1>2. /\ fl \in FlushShape /\ fl.manifest \in ManifestShape /\ fl.todo = {} /\ c \in Chunk
      /\ c \in ix.cold /\ c \in Listed(dk) /\ c \in DOMAIN dk.chunks
      /\ dk.chunks[c] \in Doc /\ ContentFits(c, dk.chunks[c], void)
      /\ fl.manifest.redacted \cup fl.redactions \subseteq ix.redacted
      /\ \A p \in fl.cold : p \in Piece /\ ContentFits(p.id, p, void)
  <2>1. /\ fl \in FlushShape /\ fl.manifest \in ManifestShape /\ fl.targets \subseteq Chunk
        /\ \A p \in fl.cold : p \in Piece
    BY <1>1, FlushTypes
  <2>2. /\ fl.todo = {} /\ fl.redactions \subseteq fl.manifest.redacted
        /\ \A p \in fl.cold : ContentFits(p.id, p, void)
    BY <1>1 DEF FlushFits
  <2>3. c \in ix.cold /\ c \in Listed(dk) /\ fl.manifest.redacted \subseteq ix.redacted
    BY <1>1 DEF Linked, IndexFits
  <2>4. c \in DOMAIN dk.chunks /\ ContentFits(c, dk.chunks[c], void)
    BY <1>1, <2>3 DEF StoreFits, Listed
  <2>5. dk.chunks[c] \in Doc
    BY <1>1, <2>4, StoreTypes
  <2> QED BY <2>1, <2>2, <2>3, <2>4, <2>5
<1>3. /\ new.id = c /\ new.docs \subseteq Event /\ new.ids \subseteq Event
      /\ new.docs = (old.docs \cup UNION {p.docs : p \in patch})
                       \ (fl.manifest.redacted \cup fl.redactions)
      /\ new.ids = old.ids \cup UNION {p.ids : p \in patch}
  BY <1>2 DEF Merged, Doc, Piece
<1>4. /\ dk2 \in StoreShape /\ dk2.manifest = dk.manifest
      /\ DOMAIN dk2.chunks = DOMAIN dk.chunks
      /\ dk2.chunks[c].docs = new.docs /\ dk2.chunks[c].ids = new.ids
      /\ \A d \in DOMAIN dk.chunks : d # c => dk2.chunks[d] = dk.chunks[d]
  <2> HIDE DEF new
  <2>1. /\ [dk EXCEPT !.chunks = Put(@, new)] \in StoreShape
        /\ [dk EXCEPT !.chunks = Put(@, new)].manifest = dk.manifest
        /\ DOMAIN [dk EXCEPT !.chunks = Put(@, new)].chunks = DOMAIN dk.chunks \cup {new.id}
        /\ [dk EXCEPT !.chunks = Put(@, new)].chunks[new.id].docs = new.docs
        /\ [dk EXCEPT !.chunks = Put(@, new)].chunks[new.id].ids = new.ids
        /\ \A d \in DOMAIN dk.chunks : d # new.id =>
              [dk EXCEPT !.chunks = Put(@, new)].chunks[d] = dk.chunks[d]
    BY <1>1, <1>2, <1>3, PutIs DEF StoreFits
  <2>2. dk2 = [dk EXCEPT !.chunks = Put(@, new)]
    BY DEF new
  <2> HIDE DEF dk2
  <2> QED BY <1>2, <1>3, <2>1, <2>2
<1>5. /\ fl2 \in FlushShape /\ fl2.todo = {} /\ fl2.pc = pc /\ fl2.hot = fl.hot
      /\ fl2.cold = fl.cold /\ fl2.targets = fl.targets \ {c} /\ fl2.manifest = fl.manifest
      /\ fl2.redactions = fl.redactions /\ fl2.revision = fl.revision
  BY <1>2 DEF FlushShape
<1> HIDE DEF dk2, fl2, new
<1>6. /\ \A e \in Event : InChunk(dk2, e) <=> IF Home(e) = c THEN e \in new.docs ELSE InChunk(dk, e)
      /\ \A e \in Event : Home(e) = c => (InChunk(dk, e) <=> e \in old.docs)
      /\ Listed(dk2) = Listed(dk) /\ Fresh(fl) = {} /\ Fresh(fl2) = {}
      /\ Patched(fl2) = Patched(fl) /\ Todo(fl) = {} /\ Todo(fl2) = {}
  BY <1>2, <1>4, <1>5 DEF InChunk, Listed, Fresh, Patched, Todo
<1>7. /\ ToMerge(fl) = ToMerge(fl2) \cup UNION {p.docs : p \in patch}
      /\ UNION {p.docs : p \in patch} \subseteq ToMerge(fl)
      /\ \A e \in UNION {p.docs : p \in patch} : Home(e) = c
  BY <1>2, <1>5 DEF ToMerge, ContentFits
<1>8. ToMerge(fl) \subseteq ix.docs \cup ix.redacted /\ ToMerge(fl) \subseteq Event
  BY <1>1, FlushTypes DEF Takes
<1>9. StoreFits(dk2, void)
  <2>1. ContentFits(c, dk2.chunks[c], void)
    <3>1. ix.redacted \subseteq void
      BY <1>1 DEF IndexFits
    <3> QED BY <1>2, <1>3, <1>4, <3>1 DEF ContentFits
  <2> QED BY <1>1, <1>4, <2>1 DEF StoreFits
<1>10. FlushFits(fl2, void)
  BY <1>1, <1>2, <1>5 DEF FlushFits
<1>11. Linked(ix, dk2, fl2)
  BY <1>1, <1>4, <1>5, <1>6 DEF Linked
<1>12. Loaded(ix, dk2, fl2)
  BY <1>1, <1>2, <1>6 DEF Loaded, Written
<1>13. \A e \in Event : InChunk(dk, e) => InChunk(dk2, e) \/ e \in ix.redacted
  BY <1>2, <1>3, <1>6
<1>14. Coming(dk, fl) \subseteq Coming(dk2, fl2) \cup ix.redacted
  <2>1. Written(dk, fl) \subseteq Written(dk2, fl2) \cup ix.redacted
    BY <1>6, <1>13 DEF Written
  <2>2. UNION {p.docs : p \in patch} \subseteq Written(dk2, fl2) \cup ix.redacted
    BY <1>2, <1>3, <1>6, <1>7, <1>8 DEF Written
  <2> QED BY <1>6, <1>7, <2>1, <2>2 DEF Coming
<1>15. Saved(ix, dk2, fl2)
  BY <1>1, <1>14 DEF Saved, IndexFits
<1>16. Takes(ix, dk2, fl2)
  BY <1>1, <1>5, <1>7 DEF Takes
<1>17. HeldBy(ix, dk2, fl2) = HeldBy(ix, dk, fl)
  <2>1. ASSUME NEW e \in Event, InChunk(dk2, e), ~InChunk(dk, e)
        PROVE  e \in ix.docs \cup ix.redacted
    BY <1>3, <1>6, <1>7, <1>8, <2>1
  <2> QED BY <1>6, <1>13, <2>1 DEF HeldBy
<1>18. OnDisk(dk) \subseteq OnDisk(dk2) \cup ix.redacted
  BY <1>6, <1>13 DEF OnDisk
<1>19. OnDisk(dk2) \subseteq OnDisk(dk) \cup HeldBy(ix, dk, fl) \cup ix.redacted
  <2>1. ASSUME NEW e \in OnDisk(dk2), e \notin OnDisk(dk)
        PROVE  e \in ix.docs \cup ix.redacted
    BY <1>3, <1>6, <1>7, <1>8, <2>1 DEF OnDisk
  <2> QED BY <2>1 DEF HeldBy
<1>20. /\ Covered(HeldBy(ix, dk2, fl2), ix.revision, ix, dk2, fl2, void)
       /\ Carried(ix, dk, fl, ix, dk2, fl2, void)
  <2>1. /\ OnDisk(dk) \subseteq OnDisk(dk2) \cup void
        /\ Coming(dk, fl) \subseteq Coming(dk2, fl2) \cup void
    BY <1>1, <1>14, <1>18 DEF IndexFits
  <2> QED BY <1>5, <1>17, <2>1, WriteCarries
<1>21. Sound(ix, dk2, fl2, void)
  BY <1>1, <1>9, <1>10, <1>11, <1>12, <1>15, <1>16, <1>20 DEF Sound
<1> QED BY <1>17, <1>18, <1>19, <1>20, <1>21 DEF Writes, dk2, fl2

LEMMA IdleFits ==
    ASSUME Plain, NEW void
    PROVE  /\ Idle \in FlushShape /\ FlushFits(Idle, void) /\ Idle.pc = "idle"
           /\ Idle.todo = {} /\ Idle.hot = {} /\ Idle.cold = {} /\ Idle.targets = {}
           /\ Idle.revision = 0 /\ Idle.manifest.chunks = NoChunks
           /\ Idle.manifest.redacted = {} /\ Idle.redactions = {}
           /\ Todo(Idle) = {} /\ ToMerge(Idle) = {} /\ Fresh(Idle) = {} /\ Patched(Idle) = {}
<1>1. Idle \in FlushShape
  BY DEF Idle, FlushShape, ManifestShape, NoManifest, Shapes
<1>2. /\ Idle.pc = "idle" /\ Idle.todo = {} /\ Idle.hot = {} /\ Idle.cold = {} /\ Idle.targets = {}
      /\ Idle.revision = 0 /\ Idle.manifest = NoManifest /\ Idle.redactions = {}
  BY DEF Idle
<1>3. NoManifest.chunks = NoChunks /\ NoManifest.redacted = {}
  BY DEF NoManifest
<1>4. Todo(Idle) = {} /\ ToMerge(Idle) = {} /\ Fresh(Idle) = {} /\ Patched(Idle) = {}
  BY <1>2 DEF Todo, ToMerge, Fresh, Patched
<1> QED BY <1>1, <1>2, <1>3, <1>4 DEF FlushFits

\* A save begins, or ends, and nothing that is held changes.
Passes(ix, dk, fl, y, fl2, void) ==
    /\ Sound(y, dk, fl2, void)
    /\ HeldBy(y, dk, fl2) = HeldBy(ix, dk, fl)
    /\ y.redacted = ix.redacted
    /\ y.revision = ix.revision
    /\ Carried(ix, dk, fl, y, dk, fl2, void)

LEMMA FinishSaveIs ==
    ASSUME Plain, NEW ix, NEW dk, NEW fl, NEW void, Sound(ix, dk, fl, void), fl.pc = "saved"
    PROVE  Passes(ix, dk, fl, Flushed(ix, fl), Idle, void)
<1> DEFINE x == [ix EXCEPT !.durable = Max({@, fl.revision}),
                           !.meta = @ \cup fl.hot \cup Patched(fl),
                           !.pending = @ \ fl.redactions]
           gone == (Patched(fl) \cap Ids(x.chunks)) \ x.dirtyChunks
           y == Flushed(ix, fl)
<1>1. /\ IndexFits(ix, void) /\ Classified(ix, void) /\ StoreFits(dk, void)
      /\ FlushFits(fl, void) /\ Linked(ix, dk, fl) /\ Loaded(ix, dk, fl)
      /\ Saved(ix, dk, fl) /\ Takes(ix, dk, fl)
  BY DEF Sound
<1>2. /\ ix \in IndexShape /\ ix.cold \subseteq Chunk /\ ix.meta \subseteq Chunk
      /\ ix.docs \subseteq Event /\ ix.pending \subseteq Event /\ ix.chunks \in Shapes
      /\ ix.durable \in Nat /\ ix.revision \in Nat /\ fl.revision \in Nat /\ fl.hot \subseteq Chunk
  BY <1>1, IndexTypes, FlushTypes DEF IndexFits
<1>3. fl.todo = {} /\ fl.targets = {} /\ Patched(fl) \subseteq ix.cold
  BY <1>1 DEF FlushFits, Linked
<1>4. /\ x \in IndexShape /\ x.durable = (IF ix.durable >= fl.revision THEN ix.durable ELSE fl.revision)
      /\ x.meta = ix.meta \cup fl.hot \cup Patched(fl) /\ x.pending = ix.pending \ fl.redactions
      /\ x.docs = ix.docs /\ x.ids = ix.ids /\ x.redacted = ix.redacted /\ x.chunks = ix.chunks
      /\ x.cold = ix.cold /\ x.dirtyChunks = ix.dirtyChunks /\ x.revision = ix.revision
      /\ x.next = ix.next
  <2>1. Max({ix.durable, fl.revision}) = IF ix.durable >= fl.revision THEN ix.durable ELSE fl.revision
    BY <1>2, MaxOfTwo
  <2> QED BY <1>2, <1>3, <2>1 DEF IndexShape
<1>5. y = DropRange(x, gone)
  BY DEF Flushed
<1>6. gone \in SUBSET Chunk /\ (x.chunks = Layout \/ gone = {})
  <2>1. gone \subseteq Ids(ix.chunks)
    BY <1>4
  <2> QED BY <1>2, <1>4, <2>1, ShapesAre DEF Shapes
<1>7. gone \subseteq ix.cold /\ gone \cap ix.dirtyChunks = {}
  BY <1>3, <1>4
<1> HIDE DEF x, y, gone
<1>8. /\ y \in IndexShape
      /\ y.docs = {e \in ix.docs : Home(e) \notin gone}
      /\ y.ids = {e \in ix.ids : Home(e) \notin gone}
      /\ y.redacted = ix.redacted /\ y.pending = ix.pending \ fl.redactions
      /\ y.chunks = ix.chunks /\ y.cold = ix.cold /\ y.dirtyChunks = ix.dirtyChunks
      /\ y.revision = ix.revision /\ y.durable = x.durable
      /\ y.meta = ix.meta \cup fl.hot \cup Patched(fl) /\ y.next = ix.next
  <2> DEFINE z == DropRange(x, gone)
  <2>1. /\ z \in IndexShape
        /\ z.docs = {e \in x.docs : Home(e) \notin gone}
        /\ z.ids = {e \in x.ids : Home(e) \notin gone}
        /\ z.redacted = x.redacted /\ z.pending = x.pending /\ z.chunks = x.chunks
        /\ z.cold = x.cold /\ z.dirtyChunks = x.dirtyChunks
        /\ z.revision = x.revision /\ z.durable = x.durable /\ z.meta = x.meta
        /\ z.next = x.next
    <3>1. x \in IndexShape
      BY <1>4
    <3> QED BY <1>6, <3>1, DropRangeIs
  <2> HIDE DEF z
  <2>2. y = z
    BY <1>5 DEF z
  <2> QED BY <1>4, <2>1, <2>2
<1>9. fl.hot \subseteq Listed(dk) /\ dk.manifest.chunks = fl.manifest.chunks
  BY <1>1 DEF FlushFits, Linked, Listed
<1>10. fl.manifest.chunks \in Shapes /\ (ix.chunks = NoChunks => fl.hot = {})
  <2>1. fl.manifest.chunks \in Shapes
    BY <1>1, FlushTypes DEF ManifestShape
  <2> QED BY <1>1, <2>1, ShapesAre DEF Shapes, Linked, FlushFits
<1>11. IndexFits(y, void)
  <2>1. fl.revision <= ix.revision
    BY <1>1 DEF Linked
  <2> QED BY <1>1, <1>2, <1>3, <1>4, <1>8, <1>10, <2>1 DEF IndexFits
<1>12. Classified(y, void)
  BY <1>1, <1>8 DEF Classified
<1>13. Linked(y, dk, Idle)
  <2>1. dk.manifest.chunks = NoChunks => fl.hot = {}
    BY <1>9, ShapesAre DEF Listed
  <2> QED BY <1>1, <1>2, <1>3, <1>8, <1>9, <2>1, IdleFits, ShapesAre DEF Linked, IndexFits
<1>14. Written(dk, Idle) = OnDisk(dk) /\ Written(dk, fl) = OnDisk(dk) /\ Coming(dk, fl) = OnDisk(dk)
       /\ Coming(dk, Idle) = OnDisk(dk) /\ Todo(fl) = {}
  <2>1. Fresh(fl) = {} /\ Todo(fl) = {} /\ ToMerge(fl) = {}
    BY <1>3 DEF Fresh, Todo, ToMerge
  <2> QED BY <2>1, IdleFits DEF Written, OnDisk, Coming
<1>15. Loaded(y, dk, Idle)
  BY <1>1, <1>7, <1>8, <1>14 DEF Loaded
<1>16. Saved(y, dk, Idle)
  BY <1>1, <1>8, <1>14 DEF Saved
<1>17. Takes(y, dk, Idle)
  BY IdleFits DEF Takes
<1>18. HeldBy(y, dk, Idle) = HeldBy(ix, dk, fl)
  <2>1. ASSUME NEW e \in ix.docs, Home(e) \in gone
        PROVE  e \notin ix.redacted /\ InChunk(dk, e) /\ Home(e) \in ix.cold
    BY <1>1, <1>7, <1>14, <2>1 DEF Saved, IndexFits, OnDisk
  <2> QED BY <1>2, <1>8, <1>14, <2>1, IdleFits DEF HeldBy
<1>19. ASSUME NEW S, NEW r \in Nat, Covered(S, r, ix, dk, fl, void)
       PROVE  Covered(S, r, y, dk, Idle, void)
  BY <1>2, <1>4, <1>8, <1>14, <1>19, IdleFits DEF Covered
<1>20. Covered(HeldBy(y, dk, Idle), y.revision, y, dk, Idle, void)
  BY <1>2, <1>8, <1>18, <1>19 DEF Sound
<1>21. Sound(y, dk, Idle, void)
  BY <1>1, <1>11, <1>12, <1>13, <1>15, <1>16, <1>17, <1>20, IdleFits DEF Sound
<1>22. Carried(ix, dk, fl, y, dk, Idle, void)
  BY <1>19 DEF Carried
<1> QED BY <1>8, <1>18, <1>21, <1>22 DEF Passes, y

LEMMA FailSaveIs ==
    ASSUME Plain, NEW ix, NEW dk, NEW fl, NEW void, Sound(ix, dk, fl, void),
           ~kind.unloading
    PROVE  Passes(ix, dk, fl, FlushFailed(ix, fl), Idle, void)
<1> DEFINE y == FlushFailed(ix, fl)
<1>1. /\ IndexFits(ix, void) /\ Classified(ix, void) /\ StoreFits(dk, void)
      /\ FlushFits(fl, void) /\ Linked(ix, dk, fl) /\ Loaded(ix, dk, fl)
      /\ Saved(ix, dk, fl) /\ Takes(ix, dk, fl)
  BY DEF Sound
<1>2. /\ ix \in IndexShape /\ ix.cold = {} /\ ix.dirtyChunks \subseteq Chunk /\ ix.revision \in Nat
      /\ ix.docs \subseteq Event /\ fl.hot \subseteq Chunk /\ fl.targets = {} /\ Patched(fl) = {}
  BY <1>1, IndexTypes, FlushTypes DEF IndexFits, Linked
<1>3. /\ y \in IndexShape /\ y.dirtyChunks = ix.dirtyChunks \cup fl.hot
      /\ y.docs = ix.docs /\ y.ids = ix.ids /\ y.redacted = ix.redacted /\ y.pending = ix.pending
      /\ y.chunks = ix.chunks /\ y.cold = ix.cold /\ y.revision = ix.revision
      /\ y.durable = ix.durable /\ y.meta = ix.meta /\ y.next = ix.next
  BY <1>2 DEF FlushFailed, IndexShape
<1> HIDE DEF y
<1>4. IndexFits(y, void) /\ Classified(y, void)
  BY <1>1, <1>3 DEF IndexFits, Classified
<1>5. Linked(y, dk, Idle)
  BY <1>1, <1>2, <1>3, IdleFits, ShapesAre DEF Linked
<1>6. /\ Written(dk, Idle) = OnDisk(dk) /\ OnDisk(dk) \subseteq Written(dk, fl)
      /\ Coming(dk, Idle) = OnDisk(dk) /\ ToMerge(fl) = {}
  <2>1. ToMerge(fl) = {}
    BY <1>2 DEF ToMerge
  <2> QED BY <2>1, IdleFits DEF Written, OnDisk, Coming
<1>7. Loaded(y, dk, Idle)
  BY <1>1, <1>3, <1>6 DEF Loaded
<1>8. Saved(y, dk, Idle)
  <2>1. \A e \in Todo(fl) : Home(e) \in fl.hot
    BY <1>1, FlushTypes DEF FlushFits
  <2>2. Fresh(fl) \subseteq fl.hot
    BY DEF Fresh
  <2> QED BY <1>1, <1>3, <1>6, <2>1, <2>2 DEF Saved, Coming, Written, OnDisk
<1>9. Takes(y, dk, Idle)
  BY IdleFits DEF Takes
<1>10. HeldBy(y, dk, Idle) = HeldBy(ix, dk, fl)
  <2>1. Todo(fl) \subseteq ix.docs \cup ix.redacted
    BY <1>1, <1>2 DEF Takes, Todo
  <2> QED BY <1>2, <1>3, <2>1, IdleFits DEF HeldBy
<1>11. ASSUME NEW S, NEW r, Covered(S, r, ix, dk, fl, void)
       PROVE  Covered(S, r, y, dk, Idle, void)
  BY <1>3, <1>11, IdleFits DEF Covered
<1>12. Covered(HeldBy(y, dk, Idle), y.revision, y, dk, Idle, void)
  BY <1>3, <1>10, <1>11 DEF Sound
<1>13. Sound(y, dk, Idle, void)
  BY <1>1, <1>4, <1>5, <1>7, <1>8, <1>9, <1>12, IdleFits DEF Sound
<1>14. Carried(ix, dk, fl, y, dk, Idle, void)
  BY <1>11 DEF Carried
<1> QED BY <1>3, <1>10, <1>13, <1>14 DEF Passes, y

LEMMA UnloadPasses ==
    ASSUME Plain, mode = kind, NEW ix, NEW dk, NEW fl, NEW x, NEW fl2, NEW void,
           Passes(ix, dk, fl, x, fl2, void), NEW y \in UnloadToBudget(x)
    PROVE  Passes(ix, dk, fl, y, fl2, void)
<1>1. /\ Sound(y, dk, fl2, void) /\ HeldBy(y, dk, fl2) = HeldBy(x, dk, fl2)
      /\ y.redacted = x.redacted /\ y.revision = x.revision /\ y.durable = x.durable
  BY UnloadKeeps DEF Passes
<1>2. Carried(ix, dk, fl, y, dk, fl2, void)
  BY <1>1 DEF Passes, Carried, Covered
<1> QED BY <1>1, <1>2 DEF Passes

\* What a save takes from an index: all that is dirty, and the manifest.
LEMMA TakeFlushIs ==
    ASSUME Plain, mode = kind, NEW void, NEW ix, IndexFits(ix, void)
    PROVE  LET y == TakeFlush(ix).index
               fl == TakeFlush(ix).flush
           IN  /\ y = [ix EXCEPT !.dirty = FALSE, !.dirtyChunks = {}]
               /\ fl.pc = "chunks" /\ fl.revision = ix.revision /\ fl.redactions = ix.pending
               /\ fl.manifest = [chunks |-> ix.chunks, next |-> ix.next,
                                 redacted |-> ix.redacted, pending |-> ix.pending]
               /\ fl.hot = (ix.dirtyChunks \ ix.cold) \cap Ids(ix.chunks)
               /\ Patched(fl) = (ix.dirtyChunks \cap ix.cold) \cap Ids(ix.chunks)
               /\ fl.targets = Patched(fl) \cup (IF ix.pending = {} THEN {} ELSE ix.cold)
               /\ \A p \in fl.todo : p.id \in fl.hot
               /\ \A c \in fl.hot : \E p \in fl.todo : p.id = c
               /\ \A p, q \in fl.todo : p.id = q.id => p = q
               /\ \A p \in fl.todo \cup fl.cold :
                     /\ p \in Piece
                     /\ p.docs = {e \in ix.docs : Home(e) = p.id}
                     /\ p.ids = {e \in ix.ids : Home(e) = p.id}
               /\ fl \in FlushShape
<1> DEFINE y == TakeFlush(ix).index
           fl == TakeFlush(ix).flush
           dirty == {s \in DOMAIN ix.chunks : ix.chunks[s] \in ix.dirtyChunks}
           coldDirty == {s \in dirty : ix.chunks[s] \in ix.cold}
           written == UNION {PieceStarts(ix, s) : s \in dirty \ coldDirty}
           new == written \ DOMAIN ix.chunks
           chunks == [s \in DOMAIN ix.chunks \cup new |->
                          IF s \in new THEN ix.next + Cardinality({n \in new : n < s})
                          ELSE ix.chunks[s]]
           next == ix.next + Cardinality(new)
<1>1. /\ ix \in IndexShape /\ ix.chunks \in Shapes /\ ix.next \in Nat /\ ix.cold \subseteq Chunk
      /\ ix.docs \subseteq Event /\ ix.ids \subseteq Event /\ ix.pending \subseteq Event
      /\ ix.redacted \subseteq Event /\ ix.revision \in Nat
  BY IndexTypes DEF IndexFits
<1>2. \A s \in dirty : PieceStarts(ix, s) = {s}
  BY DEF PieceStarts, Plain
<1>3. written = dirty \ coldDirty /\ new = {}
  BY <1>2
<1>4. /\ ix.chunks = [s \in DOMAIN ix.chunks |-> ix.chunks[s]] /\ DOMAIN ix.chunks \subseteq Nat
      /\ \A s \in DOMAIN ix.chunks : ix.chunks[s] \in Chunk
      /\ \A s, t \in DOMAIN ix.chunks : ix.chunks[s] = ix.chunks[t] => s = t
  <2>1. CASE ix.chunks = NoChunks
    BY <2>1, ShapesAre DEF NoChunks
  <2>2. CASE ix.chunks = Layout
    <3>1. Layout = [s \in DOMAIN Layout |-> Layout[s]]
      BY DEF Layout
    <3> QED BY <2>2, <3>1, LayoutIs DEF Chunk, Ids
  <2> QED BY <1>1, <2>1, <2>2 DEF Shapes
<1>5. chunks = ix.chunks /\ next = ix.next
  <2>1. Cardinality({}) = 0
    BY FS_EmptySet
  <2> HIDE DEF new
  <2>2. next = ix.next
    BY <1>1, <1>3, <2>1
  <2>3. DOMAIN ix.chunks \cup new = DOMAIN ix.chunks /\ \A s : s \notin new
    BY <1>3
  <2> QED BY <1>4, <2>2, <2>3
<1>6. TakeFlush(ix) =
         [index |-> [ix EXCEPT !.chunks = chunks, !.next = next, !.dirty = FALSE,
                               !.dirtyChunks = {}],
          flush |-> [pc |-> "chunks",
                     todo |-> {Content(ix, chunks, s) : s \in written},
                     hot |-> {chunks[s] : s \in written},
                     cold |-> {Content(ix, chunks, s) : s \in coldDirty},
                     targets |-> {ix.chunks[s] : s \in coldDirty}
                                 \cup (IF ix.pending = {} THEN {} ELSE ix.cold),
                     manifest |-> [chunks |-> chunks, next |-> next,
                                   redacted |-> ix.redacted, pending |-> ix.pending],
                     redactions |-> ix.pending,
                     revision |-> ix.revision]]
  BY DEF TakeFlush
<1> HIDE DEF written, chunks, next, new
<1>7. y = [ix EXCEPT !.dirty = FALSE, !.dirtyChunks = {}]
  <2>1. y = [ix EXCEPT !.chunks = ix.chunks, !.next = ix.next, !.dirty = FALSE, !.dirtyChunks = {}]
    BY <1>5, <1>6
  <2> QED BY <1>1, <2>1 DEF IndexShape
<1>8. fl = [pc |-> "chunks",
            todo |-> {Content(ix, ix.chunks, s) : s \in dirty \ coldDirty},
            hot |-> {ix.chunks[s] : s \in dirty \ coldDirty},
            cold |-> {Content(ix, ix.chunks, s) : s \in coldDirty},
            targets |-> {ix.chunks[s] : s \in coldDirty}
                        \cup (IF ix.pending = {} THEN {} ELSE ix.cold),
            manifest |-> [chunks |-> ix.chunks, next |-> ix.next,
                          redacted |-> ix.redacted, pending |-> ix.pending],
            redactions |-> ix.pending,
            revision |-> ix.revision]
  BY <1>3, <1>5, <1>6
<1>9. ASSUME NEW s \in DOMAIN ix.chunks
      PROVE  LET p == Content(ix, ix.chunks, s) IN
             /\ p \in Piece /\ p.start = s /\ p.id = ix.chunks[s]
             /\ p.docs = {e \in ix.docs : Home(e) = p.id}
             /\ p.ids = {e \in ix.ids : Home(e) = p.id}
  <2>1. ix.chunks = Layout
    BY <1>1, ShapesAre DEF Shapes
  <2>2. RangeOf(ix.chunks, ix.chunks[s]) = {t \in 0..Newest : Home(t) = ix.chunks[s]}
    BY <1>4, <2>1, RangeIs
  <2>3. Event \subseteq 0..Newest
    BY KindTypes
  <2>4. /\ ix.docs \cap RangeOf(ix.chunks, ix.chunks[s]) = {e \in ix.docs : Home(e) = ix.chunks[s]}
        /\ ix.ids \cap RangeOf(ix.chunks, ix.chunks[s]) = {e \in ix.ids : Home(e) = ix.chunks[s]}
    BY <1>1, <2>2, <2>3
  <2>5. Content(ix, ix.chunks, s) =
           [start |-> s, id |-> ix.chunks[s], docs |-> {e \in ix.docs : Home(e) = ix.chunks[s]},
            ids |-> {e \in ix.ids : Home(e) = ix.chunks[s]}]
    BY <2>4 DEF Content
  <2>6. /\ {e \in ix.docs : Home(e) = ix.chunks[s]} \in SUBSET Event
        /\ {e \in ix.ids : Home(e) = ix.chunks[s]} \in SUBSET Event
        /\ s \in Nat /\ ix.chunks[s] \in Chunk
    BY <1>1, <1>4
  <2> QED BY <2>5, <2>6 DEF Piece
<1> DEFINE content(s) == Content(ix, ix.chunks, s)
<1>10. \A s \in DOMAIN ix.chunks :
             /\ content(s) \in Piece /\ content(s).start = s /\ content(s).id = ix.chunks[s]
             /\ content(s).docs = {e \in ix.docs : Home(e) = content(s).id}
             /\ content(s).ids = {e \in ix.ids : Home(e) = content(s).id}
  BY <1>9
<1>11. /\ fl.pc = "chunks" /\ fl.revision = ix.revision /\ fl.redactions = ix.pending
       /\ fl.manifest = [chunks |-> ix.chunks, next |-> ix.next,
                         redacted |-> ix.redacted, pending |-> ix.pending]
       /\ fl.todo = {content(s) : s \in dirty \ coldDirty}
       /\ fl.cold = {content(s) : s \in coldDirty}
       /\ fl.hot = {ix.chunks[s] : s \in dirty \ coldDirty}
       /\ fl.targets = {ix.chunks[s] : s \in coldDirty}
                       \cup (IF ix.pending = {} THEN {} ELSE ix.cold)
       /\ fl = [pc |-> fl.pc, todo |-> fl.todo, hot |-> fl.hot, cold |-> fl.cold,
                targets |-> fl.targets, manifest |-> fl.manifest,
                redactions |-> fl.redactions, revision |-> fl.revision]
  BY <1>8
<1> HIDE DEF content, fl, y
<1>12. fl.hot = (ix.dirtyChunks \ ix.cold) \cap Ids(ix.chunks)
  BY <1>11 DEF Ids
<1>13. Patched(fl) = (ix.dirtyChunks \cap ix.cold) \cap Ids(ix.chunks)
  <2>1. Patched(fl) = {content(s).id : s \in coldDirty}
    BY <1>11 DEF Patched
  <2>2. Patched(fl) = {ix.chunks[s] : s \in coldDirty}
    BY <1>10, <2>1
  <2> QED BY <2>2 DEF Ids
<1>14. fl.targets = Patched(fl) \cup (IF ix.pending = {} THEN {} ELSE ix.cold)
  BY <1>11, <1>13 DEF Ids
<1>15. /\ \A p \in fl.todo : p.id \in fl.hot
       /\ \A c \in fl.hot : \E p \in fl.todo : p.id = c
       /\ \A p, q \in fl.todo : p.id = q.id => p = q
       /\ \A p \in fl.todo \cup fl.cold :
             /\ p \in Piece
             /\ p.docs = {e \in ix.docs : Home(e) = p.id}
             /\ p.ids = {e \in ix.ids : Home(e) = p.id}
  BY <1>4, <1>10, <1>11
<1>16. fl \in FlushShape
  <2>1. Ids(ix.chunks) \subseteq Chunk
    BY <1>1, ShapesAre
  <2>2. fl.hot \subseteq Chunk /\ fl.targets \subseteq Chunk
    BY <1>1, <1>12, <1>13, <1>14, <2>1
  <2>3. fl.todo \subseteq Piece /\ fl.cold \subseteq Piece
    BY <1>15
  <2>4. fl.manifest \in ManifestShape
    BY <1>1, <1>11 DEF ManifestShape
  <2> QED BY <1>1, <1>11, <2>2, <2>3, <2>4 DEF FlushShape
<1> QED BY <1>7, <1>11, <1>12, <1>13, <1>14, <1>15, <1>16 DEF y, fl

\* What a save takes it is to write: nothing is lost between memory and the store.
LEMMA TakeSaveIs ==
    ASSUME Plain, mode = kind, NEW ix, NEW dk, NEW void, Sound(ix, dk, Idle, void)
    PROVE  Passes(ix, dk, Idle, TakeFlush(ix).index, TakeFlush(ix).flush, void)
<1> DEFINE y == TakeFlush(ix).index
           fl == TakeFlush(ix).flush
<1>1. /\ IndexFits(ix, void) /\ Classified(ix, void) /\ StoreFits(dk, void)
      /\ FlushFits(Idle, void) /\ Linked(ix, dk, Idle) /\ Loaded(ix, dk, Idle)
      /\ Saved(ix, dk, Idle)
  BY DEF Sound
<1>2. /\ y = [ix EXCEPT !.dirty = FALSE, !.dirtyChunks = {}]
      /\ fl.pc = "chunks" /\ fl.revision = ix.revision /\ fl.redactions = ix.pending
      /\ fl.manifest = [chunks |-> ix.chunks, next |-> ix.next,
                        redacted |-> ix.redacted, pending |-> ix.pending]
      /\ fl.hot = (ix.dirtyChunks \ ix.cold) \cap Ids(ix.chunks)
      /\ Patched(fl) = (ix.dirtyChunks \cap ix.cold) \cap Ids(ix.chunks)
      /\ fl.targets = Patched(fl) \cup (IF ix.pending = {} THEN {} ELSE ix.cold)
      /\ \A p \in fl.todo : p.id \in fl.hot
      /\ \A c \in fl.hot : \E p \in fl.todo : p.id = c
      /\ \A p, q \in fl.todo : p.id = q.id => p = q
      /\ \A p \in fl.todo \cup fl.cold :
            /\ p \in Piece
            /\ p.docs = {e \in ix.docs : Home(e) = p.id}
            /\ p.ids = {e \in ix.ids : Home(e) = p.id}
      /\ fl \in FlushShape
  BY <1>1, TakeFlushIs
<1> HIDE DEF y, fl
<1>3. /\ ix \in IndexShape /\ ix.docs \subseteq Event /\ ix.cold \subseteq Chunk
      /\ ix.chunks \in Shapes /\ ix.dirtyChunks \subseteq Chunk /\ ix.revision \in Nat
      /\ ix.durable \in Nat
  BY <1>1, IndexTypes DEF IndexFits
<1>4. /\ y \in IndexShape /\ y.docs = ix.docs /\ y.ids = ix.ids /\ y.redacted = ix.redacted
      /\ y.pending = ix.pending /\ y.chunks = ix.chunks /\ y.cold = ix.cold /\ y.dirtyChunks = {}
      /\ y.revision = ix.revision /\ y.durable = ix.durable /\ y.meta = ix.meta
      /\ y.next = ix.next
  BY <1>2, <1>3 DEF IndexShape
<1>5. /\ fl.manifest.chunks = ix.chunks /\ fl.manifest.redacted = ix.redacted
      /\ fl.manifest.pending = ix.pending /\ fl.manifest.next = ix.next
  BY <1>2
<1>6. IndexFits(y, void) /\ Classified(y, void)
  BY <1>1, <1>4 DEF IndexFits, Classified
<1>7. FlushFits(fl, void)
  <2>1. ManifestFits(fl.manifest, void)
    BY <1>1, <1>5 DEF ManifestFits, IndexFits
  <2>2. \A p \in fl.todo \cup fl.cold : ContentFits(p.id, p, void)
    BY <1>1, <1>2 DEF Classified, ContentFits
  <2>3. fl.redactions \subseteq fl.manifest.redacted
    BY <1>1, <1>2, <1>5 DEF IndexFits
  <2> QED BY <1>2, <1>5, <2>1, <2>2, <2>3 DEF FlushFits
<1>8. Fresh(fl) = {}
  BY <1>2 DEF Fresh
<1>9. /\ Written(dk, fl) = OnDisk(dk) /\ Written(dk, Idle) = OnDisk(dk)
      /\ Coming(dk, Idle) = OnDisk(dk)
  BY <1>8, IdleFits DEF Written, OnDisk, Coming
\* Before the first save everything is dirty.
<1>10. dk.manifest.chunks = NoChunks /\ ix.chunks = Layout => Chunk \subseteq fl.hot
  <2> SUFFICES ASSUME dk.manifest.chunks = NoChunks, ix.chunks = Layout
               PROVE  Chunk \subseteq fl.hot
    OBVIOUS
  <2>1. Chunk \subseteq ix.dirtyChunks
    BY <1>1, IdleFits DEF Linked
  <2>2. ix.cold = {}
    BY <1>1, ShapesAre DEF Linked, Listed, IndexFits
  <2> QED BY <1>2, <2>1, <2>2, ShapesAre
<1>11. Linked(y, dk, fl)
  <2>1. fl.targets \cup Patched(fl) \subseteq ix.cold
    BY <1>2
  <2> QED BY <1>1, <1>2, <1>3, <1>4, <1>5, <1>8, <1>10, <2>1 DEF Linked
<1>12. Loaded(y, dk, fl)
  BY <1>1, <1>4, <1>9 DEF Loaded
<1>13. ASSUME NEW e \in ix.docs
       PROVE  e \in Coming(dk, fl)
  <2>1. ix.chunks = Layout /\ Home(e) \in Ids(ix.chunks)
    BY <1>1, <1>3, HomeIsChunk, ShapesAre DEF IndexFits, Shapes
  <2>2. CASE Home(e) \notin ix.dirtyChunks
    BY <1>1, <1>9, <2>2 DEF Saved, Coming
  <2>3. CASE Home(e) \in ix.dirtyChunks /\ Home(e) \notin ix.cold
    <3>1. PICK p \in fl.todo : p.id = Home(e)
      BY <1>2, <2>1, <2>3
    <3>2. e \in p.docs
      BY <1>2, <3>1
    <3> QED BY <3>2 DEF Coming, Todo
  <2>4. CASE Home(e) \in ix.dirtyChunks /\ Home(e) \in ix.cold
    <3>1. Home(e) \in Patched(fl)
      BY <1>2, <2>1, <2>4
    <3>2. PICK p \in fl.cold : p.id = Home(e)
      BY <3>1 DEF Patched
    <3>3. e \in p.docs /\ p.id \in fl.targets
      BY <1>2, <3>1, <3>2
    <3> QED BY <3>3 DEF Coming, ToMerge
  <2> QED BY <2>2, <2>3, <2>4
<1>14. Saved(y, dk, fl)
  BY <1>4, <1>13 DEF Saved
<1>15. Todo(fl) \subseteq ix.docs /\ ToMerge(fl) \subseteq ix.docs
  BY <1>2 DEF Todo, ToMerge
<1>16. Takes(y, dk, fl)
  <2>1. ASSUME NEW e \in OnDisk(dk), NEW p \in fl.todo, Home(e) = p.id
        PROVE  e \in p.docs \cup ix.redacted
    <3>1. Home(e) \notin ix.cold
      BY <1>2, <2>1
    <3>2. e \in ix.docs \cup ix.redacted
      BY <1>1, <1>9, <3>1 DEF Loaded
    <3> QED BY <1>2, <2>1, <3>2
  <2> QED BY <1>2, <1>4, <1>15, <2>1 DEF Takes
<1>17. HeldBy(y, dk, fl) = HeldBy(ix, dk, Idle)
  BY <1>4, <1>15, IdleFits DEF HeldBy
<1>18. HeldBy(ix, dk, Idle) \subseteq Coming(dk, fl)
  <2>1. ASSUME NEW e \in Event, Home(e) \in ix.cold, InChunk(dk, e)
        PROVE  e \in OnDisk(dk)
    BY <1>1, <2>1 DEF OnDisk, IndexFits, Linked
  <2> QED BY <1>9, <1>13, <2>1, IdleFits DEF HeldBy, Coming
<1>19. Covered(HeldBy(y, dk, fl), y.revision, y, dk, fl, void)
  BY <1>4, <1>17, <1>18 DEF Covered, Sound
<1>20. Carried(ix, dk, Idle, y, dk, fl, void)
  BY <1>4, <1>18 DEF Covered, Carried
<1>21. Sound(y, dk, fl, void)
  BY <1>1, <1>6, <1>7, <1>11, <1>12, <1>14, <1>16, <1>19 DEF Sound
<1> QED BY <1>4, <1>17, <1>20, <1>21 DEF Passes, y, fl

-----------------------------------------------------------------------------
(* The restart and the sync *)

\* A restart finds what is listed, less what is redacted, in memory or unloaded.
LEMMA RestoredIs ==
    ASSUME Plain, mode = kind, StoreFits(disk, Void),
           NEW loaded \in SUBSET Listed(disk), kind.unloading \/ loaded = Listed(disk)
    PROVE  LET x == Restored(disk.manifest, loaded) IN
           /\ Sound(x, disk, Idle, Void)
           /\ HeldBy(x, disk, Idle) = OnDisk(disk) \ disk.manifest.redacted
           /\ x.redacted = disk.manifest.redacted
<1> DEFINE m == disk.manifest
           loadedChunks == [c \in loaded |-> disk.chunks[c]]
           x0 == [NewIndex EXCEPT
                 !.docs = (UNION {loadedChunks[c].docs : c \in loaded}) \ m.redacted,
                 !.ids = UNION {loadedChunks[c].ids : c \in loaded},
                 !.redacted = m.redacted, !.pending = m.pending,
                 !.chunks = m.chunks, !.next = m.next,
                 !.meta = Ids(m.chunks), !.cold = Ids(m.chunks) \ loaded]
           redacted == {c \in loaded : loadedChunks[c].docs \cap m.redacted # {}}
           homes(c) == {ChunkAt(x0, t) : t \in loadedChunks[c].docs \cup loadedChunks[c].ids}
           strays == {c \in loaded : ~(homes(c) \subseteq {c})}
           misplaced == redacted \cup strays \cup UNION {homes(c) : c \in strays}
           x == Restored(m, loaded)
<1>1. /\ m \in ManifestShape /\ m.chunks \in Shapes /\ Listed(disk) \subseteq Chunk
      /\ m.redacted \subseteq Event /\ m.pending \subseteq Event /\ m.next \in Nat
      /\ ManifestFits(m, Void) /\ Listed(disk) \subseteq DOMAIN disk.chunks
      /\ Listed(disk) = Ids(m.chunks)
      /\ \A c \in DOMAIN disk.chunks : /\ ContentFits(c, disk.chunks[c], Void)
                                       /\ disk.chunks[c].docs \subseteq Event
                                       /\ disk.chunks[c].ids \subseteq Event
  BY StoreTypes DEF StoreFits, ManifestShape, Listed
<1>2. /\ x0.chunks = m.chunks
      /\ x0 = [docs |-> (UNION {loadedChunks[c].docs : c \in loaded}) \ m.redacted,
               ids |-> UNION {loadedChunks[c].ids : c \in loaded},
               redacted |-> m.redacted, pending |-> m.pending, chunks |-> m.chunks,
               cold |-> Ids(m.chunks) \ loaded, dirtyChunks |-> {}, dirty |-> FALSE,
               revision |-> 0, durable |-> 0, meta |-> Ids(m.chunks), next |-> m.next]
  <2> DEFINE d == (UNION {loadedChunks[c].docs : c \in loaded}) \ m.redacted
             i == UNION {loadedChunks[c].ids : c \in loaded}
             k == Ids(m.chunks) \ loaded
  <2>1. x0 = [NewIndex EXCEPT !.docs = d, !.ids = i, !.redacted = m.redacted,
                  !.pending = m.pending, !.chunks = m.chunks, !.next = m.next,
                  !.meta = Ids(m.chunks), !.cold = k]
    OBVIOUS
  <2> HIDE DEF d, i, k, x0
  <2>2. x0 = [docs |-> d, ids |-> i, redacted |-> m.redacted, pending |-> m.pending,
              chunks |-> m.chunks, cold |-> k, dirtyChunks |-> {}, dirty |-> FALSE,
              revision |-> 0, durable |-> 0, meta |-> Ids(m.chunks), next |-> m.next]
    BY <2>1 DEF NewIndex
  <2>3. x0.chunks = m.chunks
    BY <2>2
  <2> QED BY <2>2, <2>3 DEF d, i, k
<1>3. ASSUME NEW c \in loaded
      PROVE  homes(c) \subseteq {c}
  <2>1. m.chunks = Layout
    BY <1>1, ShapesAre DEF Shapes
  <2>2. \A t : ChunkAt(x0, t) = Home(t)
    BY <1>2, <2>1, ChunkAtIs
  <2>3. \A t \in loadedChunks[c].docs \cup loadedChunks[c].ids : Home(t) = c
    BY <1>1 DEF ContentFits
  <2> QED BY <2>2, <2>3
<1>4. misplaced = redacted
  <2>1. strays = {}
    BY <1>3
  <2> HIDE DEF strays, homes, redacted
  <2> QED BY <2>1
<1>5. x = [x0 EXCEPT !.dirtyChunks = misplaced, !.dirty = misplaced # {} \/ m.pending # {}]
  BY DEF Restored
<1> DEFINE docs == {e \in Event : Home(e) \in loaded /\ InChunk(disk, e) /\ e \notin m.redacted}
           ids == UNION {disk.chunks[c].ids : c \in loaded}
<1>6. x0.docs = docs /\ x0.ids = ids
  <2>1. \A c \in loaded : loadedChunks[c] = disk.chunks[c] /\ c \in DOMAIN disk.chunks
    BY <1>1
  <2>2. ids = UNION {loadedChunks[c].ids : c \in loaded}
    BY <2>1
  <2>3. (UNION {loadedChunks[c].docs : c \in loaded}) \ m.redacted = docs
    <3>1. ASSUME NEW c \in loaded, NEW e \in disk.chunks[c].docs
          PROVE  e \in Event /\ Home(e) = c /\ InChunk(disk, e)
      BY <1>1, <2>1 DEF InChunk, ContentFits
    <3>2. ASSUME NEW e \in Event, Home(e) \in loaded, InChunk(disk, e)
          PROVE  \E c \in loaded : e \in disk.chunks[c].docs
      BY <3>2 DEF InChunk
    <3> DEFINE all == UNION {loadedChunks[c].docs : c \in loaded}
    <3>3. \A e : e \in all <=> e \in Event /\ Home(e) \in loaded /\ InChunk(disk, e)
      <4> HIDE DEF loadedChunks
      <4> QED BY <2>1, <3>1, <3>2
    <3>4. all \ m.redacted = docs
      <4> HIDE DEF all
      <4> QED BY <3>3
    <3> QED BY <3>4
  <2> HIDE DEF loadedChunks, docs, ids, x0
  <2> QED BY <1>2, <2>2, <2>3
<1> HIDE DEF loadedChunks, x0, homes, strays, misplaced
<1>7. /\ x = [docs |-> docs, ids |-> ids, redacted |-> m.redacted, pending |-> m.pending,
              chunks |-> m.chunks, cold |-> Listed(disk) \ loaded, dirtyChunks |-> redacted,
              dirty |-> redacted # {} \/ m.pending # {},
              revision |-> 0, durable |-> 0, meta |-> Listed(disk), next |-> m.next]
  <2> HIDE DEF redacted, docs, ids
  <2>1. x0 = [docs |-> docs, ids |-> ids, redacted |-> m.redacted, pending |-> m.pending,
              chunks |-> m.chunks, cold |-> Listed(disk) \ loaded, dirtyChunks |-> {},
              dirty |-> FALSE, revision |-> 0, durable |-> 0, meta |-> Listed(disk),
              next |-> m.next]
    BY <1>1, <1>2, <1>6
  <2>2. x = [x0 EXCEPT !.dirtyChunks = redacted, !.dirty = redacted # {} \/ m.pending # {}]
    BY <1>4, <1>5
  <2> HIDE DEF x
  <2> QED BY <2>1, <2>2
<1>8. redacted \subseteq loaded
  OBVIOUS
<1> HIDE DEF x, docs, ids, redacted
<1>9. /\ x.docs = docs /\ x.ids = ids /\ x.redacted = m.redacted /\ x.pending = m.pending
      /\ x.chunks = m.chunks /\ x.cold = Listed(disk) \ loaded /\ x.dirtyChunks = redacted
      /\ x.revision = 0 /\ x.durable = 0 /\ x.meta = Listed(disk) /\ x.next = m.next
  BY <1>7
<1>10. /\ docs \subseteq Event /\ ids \subseteq Event
       /\ \A e \in docs : Home(e) \in loaded /\ InChunk(disk, e) /\ e \notin m.redacted
       /\ \A e \in Event : Home(e) \in loaded /\ InChunk(disk, e) => e \in docs \cup m.redacted
       /\ ids \subseteq docs \cup Void
  <2>1. \A c \in loaded : disk.chunks[c].ids \subseteq Event
    BY <1>1
  <2>2. ASSUME NEW e \in ids
        PROVE  e \in docs \cup Void
    <3>1. PICK c \in loaded : e \in disk.chunks[c].ids
      BY DEF ids
    <3>2. c \in DOMAIN disk.chunks /\ Home(e) = c
      BY <1>1, <3>1 DEF ContentFits
    <3>3. e \in Event /\ (e \in disk.chunks[c].docs \/ e \in Void) /\ m.redacted \subseteq Void
      BY <1>1, <3>1, <3>2 DEF ContentFits, ManifestFits
    <3> QED BY <3>2, <3>3 DEF docs, InChunk
  <2> QED BY <2>1, <2>2 DEF docs, ids
<1>11. x \in IndexShape
  <2>1. redacted \subseteq Chunk /\ Listed(disk) \ loaded \subseteq Chunk
    BY <1>1, <1>8
  <2> QED BY <1>1, <1>7, <1>10, <2>1 DEF IndexShape
<1>12. IndexFits(x, Void) /\ Classified(x, Void)
  <2>1. m.chunks = NoChunks => Listed(disk) = {} /\ docs = {} /\ ids = {}
    BY <1>1, <1>10, ShapesAre DEF ids
  <2> QED BY <1>1, <1>9, <1>10, <1>11, <2>1 DEF IndexFits, Classified, ManifestFits
<1>13. Written(disk, Idle) = OnDisk(disk) /\ Coming(disk, Idle) = OnDisk(disk)
  BY IdleFits DEF Written, OnDisk, Coming
<1>14. Linked(x, disk, Idle)
  <2>1. m.chunks # NoChunks => m.chunks = Layout
    BY <1>1 DEF Shapes
  <2> QED BY <1>1, <1>9, <2>1, IdleFits, ShapesAre DEF Linked
<1>15. Loaded(x, disk, Idle)
  BY <1>9, <1>10, <1>13 DEF Loaded, OnDisk
<1>16. Saved(x, disk, Idle)
  BY <1>9, <1>10, <1>13 DEF Saved, OnDisk
<1>17. Takes(x, disk, Idle)
  BY IdleFits DEF Takes
<1>18. HeldBy(x, disk, Idle) = OnDisk(disk) \ m.redacted
  BY <1>9, <1>10, IdleFits DEF HeldBy, OnDisk
<1>19. Covered(HeldBy(x, disk, Idle), x.revision, x, disk, Idle, Void)
  BY <1>18, IdleFits DEF Covered
<1>20. Sound(x, disk, Idle, Void)
  BY <1>12, <1>14, <1>15, <1>16, <1>17, <1>19, IdleFits DEF Sound
<1> QED BY <1>9, <1>18, <1>20 DEF x

\* What is void stays void, and more becomes it.
LEMMA SoundStays ==
    ASSUME Plain, NEW ix, NEW dk, NEW fl, NEW void, NEW void2, void \subseteq void2
    PROVE  /\ Sound(ix, dk, fl, void) => Sound(ix, dk, fl, void2)
           /\ StoreFits(dk, void) => StoreFits(dk, void2)
           /\ \A S, r : Covered(S, r, ix, dk, fl, void) => Covered(S, r, ix, dk, fl, void2)
<1>1. IndexFits(ix, void) => IndexFits(ix, void2)
  BY DEF IndexFits
<1>2. Classified(ix, void) => Classified(ix, void2)
  BY DEF Classified
<1>3. \A c, x : ContentFits(c, x, void) => ContentFits(c, x, void2)
  BY DEF ContentFits
<1>4. \A m : ManifestFits(m, void) => ManifestFits(m, void2)
  BY DEF ManifestFits
<1>5. StoreFits(dk, void) => StoreFits(dk, void2)
  BY <1>3, <1>4 DEF StoreFits
<1>6. FlushFits(fl, void) => FlushFits(fl, void2)
  BY <1>3, <1>4 DEF FlushFits
<1>7. \A S, r : Covered(S, r, ix, dk, fl, void) => Covered(S, r, ix, dk, fl, void2)
  BY DEF Covered
<1> QED BY <1>1, <1>2, <1>5, <1>6, <1>7 DEF Sound

-----------------------------------------------------------------------------
(* The steps of the index and of the saves *)

\* What the promise is about, in terms of the invariant.
Views ==
    /\ StoreFits(disk, Void)
    /\ Kept = OnDisk(disk) \ disk.manifest.redacted
    /\ Gone \subseteq Event
    /\ IF phase = "down" THEN Held = Kept /\ Gone = disk.manifest.redacted
       ELSE Held = HeldBy(index, disk, saving["loop"]) /\ Gone = index.redacted

LEMMA ViewsFit == Plain /\ StoreInv => Views
<1> SUFFICES ASSUME Plain, StoreInv
             PROVE  Views
  OBVIOUS
<1>1. StoreFits(disk, Void)
  BY DEF StoreInv, Sound
<1>3. ASSUME NEW C \in SUBSET Chunk
      PROVE  DocsIn(C) = {e \in Event : Home(e) \in C /\ InChunk(disk, e)}
  <2>1. /\ \A c \in C \cap DOMAIN disk.chunks :
             disk.chunks[c].docs \subseteq Event /\ \A e \in disk.chunks[c].docs : Home(e) = c
    BY <1>1, StoreTypes DEF StoreFits, ContentFits
  <2> QED BY <2>1 DEF DocsIn, InChunk
<1>4. Listed(disk) \subseteq Chunk
  BY <1>1, StoreTypes
<1>5. Kept = OnDisk(disk) \ disk.manifest.redacted
  BY <1>3, <1>4 DEF Listed, OnDisk, Kept
<1>6. disk.manifest.redacted \subseteq Event
  BY <1>1, StoreTypes DEF ManifestShape
<1>7. CASE phase = "down"
  BY <1>1, <1>5, <1>6, <1>7 DEF Views, Held, Gone
<1>8. CASE phase # "down"
  <2>1. Sound(index, disk, saving["loop"], Void) /\ saving["peer"] = Idle
    BY <1>8 DEF StoreInv
  <2>2. index.cold \subseteq Chunk /\ index.redacted \subseteq Event /\ index.docs \subseteq Event
    BY <2>1, IndexTypes DEF Sound, IndexFits
  <2>3. InFlight = Todo(saving["loop"])
    <3>1. InFlight = UNION {Todo(saving[s]) : s \in Savers}
      BY DEF InFlight, Todo
    <3>2. Todo(saving["peer"]) = {}
      BY <2>1, IdleFits
    <3> QED BY <3>1, <3>2 DEF Savers
  <2>4. Todo(saving["loop"]) \subseteq Event
    BY <2>1, FlushTypes DEF Sound
  <2>5. DocsIn(index.cold) = {e \in Event : Home(e) \in index.cold /\ InChunk(disk, e)}
    BY <1>3, <2>2
  <2>6. Held = HeldBy(index, disk, saving["loop"])
    BY <1>8, <2>2, <2>3, <2>4, <2>5 DEF Held, Found, HeldBy
  <2> QED BY <1>1, <1>5, <1>8, <2>2, <2>6 DEF Views, Gone
<1> QED BY <1>7, <1>8

LEMMA ViewsFitNext == Plain /\ StoreInv' => Views'
<1>1. (Plain /\ StoreInv => Views)'
  BY ViewsFit, PTL
<1>2. Plain' <=> Plain
  BY DEF Plain
<1> QED BY <1>1, <1>2

\* What a step of the store may do: what is void stays void, what is held or kept is
\* lost only when it is void, and what was to be durable still is.
Keeps ==
    /\ Redacted \subseteq Redacted'
    /\ Void \subseteq Void'
    /\ Kept \subseteq Kept' \cup Void'
    /\ phase' # "down" => Held \subseteq Held' \cup Void'
    /\ phase # "down" /\ phase' # "down" =>
          /\ index.revision <= index'.revision
          /\ \A S \in SUBSET Event, r \in Nat :
                /\ r <= index.revision
                /\ S \subseteq Held \cup Void
                /\ Covered(S, r, index, disk, saving["loop"], Void)
                => Covered(S, r, index', disk', saving'["loop"], Void')

\* Without splits the promise is about Kept itself.
Plainly == INSTANCE SearchKept WITH held <- Held, kept <- Kept, gone <- Gone

StepFits == StoreInv' /\ Keeps /\ [Plainly!Next]_(Plainly!vars)

LEMMA VoidStays ==
    ASSUME UNCHANGED <<mode, edge>>
    PROVE  Void' = Void /\ Redacted' = Redacted
BY DEF Void, Redacted, Redactions

\* A write of a save.
LEMMA WriteFits ==
    ASSUME Plain, StoreInv, phase # "down", UNCHANGED <<mode, phase, index, edge, shares, faults>>,
           saving' = [saving EXCEPT !["loop"] = saving'["loop"]],
           Writes(index, disk, saving["loop"], disk', saving'["loop"], Void)
    PROVE  StepFits
<1> DEFINE fl == saving["loop"]
           fl2 == saving'["loop"]
<1>1. /\ Sound(index, disk', fl2, Void) /\ HeldBy(index, disk', fl2) = HeldBy(index, disk, fl)
      /\ OnDisk(disk) \subseteq OnDisk(disk') \cup index.redacted
      /\ OnDisk(disk') \subseteq OnDisk(disk) \cup HeldBy(index, disk, fl) \cup index.redacted
      /\ Carried(index, disk, fl, index, disk', fl2, Void)
  BY DEF Writes
<1>2. Sound(index, disk, fl, Void)
  BY DEF StoreInv
<1>3. Void' = Void /\ Redacted' = Redacted
  BY VoidStays
<1>4. StoreInv'
  <2>1. fl2 \in FlushShape
    BY <1>1 DEF Sound, FlushFits
  <2>2. saving' \in [Savers -> FlushShape] /\ saving'["peer"] = Idle
    BY <2>1 DEF StoreInv, Savers
  <2> QED BY <1>1, <1>3, <2>2 DEF StoreInv
<1>5. Views /\ Views'
  BY <1>4, ViewsFit, ViewsFitNext
<1>6. /\ Held' = Held /\ Gone' = Gone /\ Gone = index.redacted
      /\ Held = HeldBy(index, disk, fl)
      /\ Kept = OnDisk(disk) \ disk.manifest.redacted
      /\ Kept' = OnDisk(disk') \ disk'.manifest.redacted
  BY <1>1, <1>5 DEF Views
<1>7. /\ disk.manifest.redacted \subseteq index.redacted
      /\ disk'.manifest.redacted \subseteq index.redacted
      /\ index.redacted \subseteq Void
  BY <1>1, <1>2 DEF Sound, Linked, IndexFits
<1>8. Keeps
  <2>1. index.revision \in Nat
    BY <1>2, IndexTypes DEF Sound, IndexFits
  <2> QED BY <1>1, <1>3, <1>6, <1>7, <2>1 DEF Keeps, Carried
<1>9. Kept' \in SUBSET (Kept \cup Held \cup Gone) /\ Kept \ Kept' \subseteq Gone
  BY <1>1, <1>6, <1>7
<1>10. Plainly!Write
  BY <1>6, <1>9 DEF Plainly!Write
<1> QED BY <1>4, <1>8, <1>10 DEF StepFits, Plainly!Next

\* A save begins or ends.
LEMMA PassFits ==
    ASSUME Plain, StoreInv, phase # "down", UNCHANGED <<mode, phase, disk, edge, shares>>,
           faults' \in Nat, saving' = [saving EXCEPT !["loop"] = saving'["loop"]],
           Passes(index, disk, saving["loop"], index', saving'["loop"], Void)
    PROVE  StepFits
<1> DEFINE fl == saving["loop"]
           fl2 == saving'["loop"]
<1>1. /\ Sound(index', disk, fl2, Void) /\ HeldBy(index', disk, fl2) = HeldBy(index, disk, fl)
      /\ index'.redacted = index.redacted /\ index'.revision = index.revision
      /\ Carried(index, disk, fl, index', disk, fl2, Void)
  BY DEF Passes
<1>2. Sound(index, disk, fl, Void)
  BY DEF StoreInv
<1>3. Void' = Void /\ Redacted' = Redacted
  BY VoidStays
<1>4. StoreInv'
  <2>1. fl2 \in FlushShape
    BY <1>1 DEF Sound, FlushFits
  <2>2. saving' \in [Savers -> FlushShape] /\ saving'["peer"] = Idle
    BY <2>1 DEF StoreInv, Savers
  <2> QED BY <1>1, <1>3, <2>2 DEF StoreInv
<1>5. Views /\ Views'
  BY <1>4, ViewsFit, ViewsFitNext
<1>6. /\ Held' = Held /\ Gone' = Gone /\ Kept' = Kept
      /\ Held = HeldBy(index, disk, fl)
  BY <1>1, <1>5 DEF Views
<1>7. Keeps
  <2>1. index.revision \in Nat
    BY <1>2, IndexTypes DEF Sound, IndexFits
  <2> QED BY <1>1, <1>3, <1>6, <2>1 DEF Keeps, Carried
<1> QED BY <1>4, <1>6, <1>7 DEF StepFits, Plainly!vars

LEMMA SaveStepFits ==
    ASSUME Plain, StoreInv, NEW s \in Savers, SaveStep(s) \/ FailSave(s)
    PROVE  StepFits /\ UNCHANGED <<mode, phase>> /\ s = "loop" /\ phase # "down"
<1> DEFINE fl == saving["loop"]
           fl2 == saving'["loop"]
<1>0. /\ saving \in [Savers -> FlushShape] /\ saving["peer"] = Idle /\ shares = 0 /\ mode = kind
      /\ Idle.pc = "idle" /\ kind.sharing = 0 /\ faults \in Nat
  BY IdleFits DEF StoreInv, Plain
<1>1. s = "loop"
  BY <1>0 DEF SaveStep, TakeSave, WriteChunk, WriteManifest, MergeChunk, WriteManifestAgain,
     FinishSave, FailSave, Savers
<1>2. phase # "down"
  <2> SUFFICES ASSUME phase = "down"
               PROVE  FALSE
    OBVIOUS
  <2>1. fl.pc = "idle"
    BY <1>0 DEF StoreInv
  <2> QED BY <1>1, <2>1 DEF SaveStep, TakeSave, WriteChunk, WriteManifest, MergeChunk,
             WriteManifestAgain, FinishSave, FailSave
<1>3. Sound(index, disk, fl, Void) /\ FlushFits(fl, Void) /\ fl \in FlushShape
  BY <1>0, <1>2 DEF StoreInv, Sound, FlushFits
<1>4. CASE TakeSave("loop")
  <2>1. /\ fl = Idle /\ index' = TakeFlush(index).index
        /\ saving' = [saving EXCEPT !["loop"] = TakeFlush(index).flush]
        /\ UNCHANGED <<mode, phase, disk, edge, shares, faults>>
    BY <1>4 DEF TakeSave
  <2>2. fl2 = TakeFlush(index).flush
    BY <1>0, <2>1 DEF Savers
  <2>3. Passes(index, disk, fl, index', fl2, Void)
    BY <1>0, <1>3, <2>1, <2>2, TakeSaveIs
  <2> QED BY <1>0, <1>1, <1>2, <2>1, <2>2, <2>3, PassFits
<1>5. CASE WriteChunk("loop")
  <2>1. PICK c \in fl.todo :
           /\ disk' = [disk EXCEPT !.chunks = Put(@, c)]
           /\ saving' = [saving EXCEPT !["loop"].todo = @ \ {c}]
    BY <1>5 DEF WriteChunk
  <2>2. fl2 = [fl EXCEPT !.todo = @ \ {c}] /\ saving' = [saving EXCEPT !["loop"] = fl2]
    BY <1>0, <2>1 DEF Savers
  <2>3. Writes(index, disk, fl, disk', fl2, Void)
    BY <1>3, <2>1, <2>2, WriteChunkIs
  <2>4. UNCHANGED <<mode, phase, index, edge, shares, faults>>
    BY <1>5 DEF WriteChunk
  <2> QED BY <1>1, <1>2, <2>2, <2>3, <2>4, WriteFits
<1>6. CASE WriteManifest("loop")
  <2> DEFINE pc == IF fl.targets # {} THEN "merge"
                   ELSE IF fl.redactions # {} THEN "manifest" ELSE "saved"
  <2>1. /\ fl.pc = "chunks" /\ fl.todo = {} /\ disk' = [disk EXCEPT !.manifest = fl.manifest]
        /\ saving' = [saving EXCEPT !["loop"].pc = pc]
        /\ UNCHANGED <<mode, phase, index, edge, shares, faults>>
    BY <1>6 DEF WriteManifest
  <2>2. pc \in {"merge", "manifest", "saved"} /\ (fl.targets # {} => pc = "merge")
    OBVIOUS
  <2> HIDE DEF pc
  <2>3. fl2 = [fl EXCEPT !.pc = pc] /\ saving' = [saving EXCEPT !["loop"] = fl2]
    BY <1>0, <2>1 DEF Savers
  <2>4. Writes(index, disk, fl, [disk EXCEPT !.manifest = fl.manifest], [fl EXCEPT !.pc = pc], Void)
    <3>1. fl.manifest \in {fl.manifest, [fl.manifest EXCEPT !.pending = {}]}
      OBVIOUS
    <3> QED BY ONLY <1>3, <2>1, <2>2, <3>1, WriteManifestIs, Plain
  <2>5. Writes(index, disk, fl, disk', fl2, Void)
    BY <2>1, <2>3, <2>4
  <2> QED BY <1>1, <1>2, <2>1, <2>3, <2>5, WriteFits
<1>7. CASE MergeChunk("loop")
  <2>1. PICK c \in fl.targets :
           /\ disk' = [disk EXCEPT !.chunks = Put(@, Merged(@[c], fl, c))]
           /\ saving' = [saving EXCEPT !["loop"].targets = @ \ {c},
                            !["loop"].pc = IF fl.targets = {c} THEN "manifest" ELSE @]
    BY <1>7 DEF MergeChunk
  <2> DEFINE pc == IF fl.targets = {c} THEN "manifest" ELSE "merge"
  <2>2. fl.pc = "merge" /\ UNCHANGED <<mode, phase, index, edge, shares, faults>>
    BY <1>7 DEF MergeChunk
  <2>3. /\ fl2 = [fl EXCEPT !.targets = @ \ {c}, !.pc = pc]
        /\ saving' = [saving EXCEPT !["loop"] = fl2]
    BY <1>0, <1>3, <2>1, <2>2 DEF Savers, FlushShape
  <2>4. pc \in {"merge", "manifest"} /\ (fl.targets = {c} <=> pc = "manifest")
    OBVIOUS
  <2> HIDE DEF pc
  <2>5. Writes(index, disk, fl, [disk EXCEPT !.chunks = Put(@, Merged(@[c], fl, c))],
               [fl EXCEPT !.targets = @ \ {c}, !.pc = pc], Void)
    BY <1>3, <2>2, <2>4, MergeChunkIs
  <2>6. Writes(index, disk, fl, disk', fl2, Void)
    BY <2>1, <2>3, <2>5
  <2> QED BY <1>1, <1>2, <2>2, <2>3, <2>6, WriteFits
<1>8. CASE WriteManifestAgain("loop")
  <2>1. /\ fl.pc = "manifest" /\ disk' = [disk EXCEPT !.manifest = [fl.manifest EXCEPT !.pending = {}]]
        /\ saving' = [saving EXCEPT !["loop"].pc = "saved"]
        /\ UNCHANGED <<mode, phase, index, edge, shares, faults>>
    BY <1>8 DEF WriteManifestAgain
  <2>2. fl2 = [fl EXCEPT !.pc = "saved"] /\ saving' = [saving EXCEPT !["loop"] = fl2]
    BY <1>0, <2>1 DEF Savers
  <2>3. fl.todo = {} /\ fl.targets = {}
    BY <1>3, <2>1 DEF FlushFits
  <2>4. Writes(index, disk, fl, [disk EXCEPT !.manifest = [fl.manifest EXCEPT !.pending = {}]],
               [fl EXCEPT !.pc = "saved"], Void)
    <3>1. [fl.manifest EXCEPT !.pending = {}] \in {fl.manifest, [fl.manifest EXCEPT !.pending = {}]}
      OBVIOUS
    <3> QED BY ONLY <1>3, <2>1, <2>3, <3>1, WriteManifestIs, Plain
  <2>5. Writes(index, disk, fl, disk', fl2, Void)
    BY <2>1, <2>2, <2>4
  <2> QED BY <1>1, <1>2, <2>1, <2>2, <2>5, WriteFits
<1>9. CASE FinishSave("loop")
  <2>1. /\ fl.pc = "saved" /\ index' \in UnloadToBudget(Flushed(index, fl))
        /\ saving' = [saving EXCEPT !["loop"] = Idle]
        /\ UNCHANGED <<mode, phase, disk, edge, shares, faults>>
    BY <1>9 DEF FinishSave
  <2>2. fl2 = Idle
    BY <1>0, <2>1 DEF Savers
  <2>3. Passes(index, disk, fl, Flushed(index, fl), Idle, Void)
    BY <1>3, <2>1, FinishSaveIs
  <2>4. Passes(index, disk, fl, index', Idle, Void)
    BY <1>0, <2>1, <2>3, UnloadPasses
  <2> QED BY <1>0, <1>1, <1>2, <2>1, <2>2, <2>4, PassFits
<1>10. CASE FailSave("loop")
  <2>1. /\ faults < mode.faults /\ index' \in UnloadToBudget(FlushFailed(index, fl))
        /\ saving' = [saving EXCEPT !["loop"] = Idle] /\ faults' = faults + 1
        /\ UNCHANGED <<mode, phase, disk, edge, shares>>
    BY <1>10 DEF FailSave
  <2>2. fl2 = Idle
    BY <1>0, <2>1 DEF Savers
  <2>3. ~kind.unloading
    BY <1>0, <2>1 DEF Plain
  <2>4. Passes(index, disk, fl, FlushFailed(index, fl), Idle, Void)
    BY <1>3, <2>3, FailSaveIs
  <2>5. Passes(index, disk, fl, index', Idle, Void)
    BY <1>0, <2>1, <2>4, UnloadPasses
  <2> QED BY <1>0, <1>1, <1>2, <2>1, <2>2, <2>5, PassFits
<1> QED BY <1>1, <1>4, <1>5, <1>6, <1>7, <1>8, <1>9, <1>10 DEF SaveStep

\* Events and redactions come in.
LEMMA LearnFits ==
    ASSUME Plain, StoreInv, phase # "down", phase' # "down", phase' \in {"restored", "running"},
           UNCHANGED <<mode, disk, saving, edge, shares, faults>>,
           NEW events \in SUBSET Event, \A e \in events : e <= edge,
           NEW redacted \in SUBSET Redacted,
           index' \in UnloadToBudget(Ingest(index, events, redacted))
    PROVE  StepFits /\ events \subseteq Held' \cup Void'
<1> DEFINE fl == saving["loop"]
           x == Ingest(index, events, redacted)
<1>1. Sound(index, disk, fl, Void) /\ IndexFits(index, Void) /\ Classified(index, Void) /\ mode = kind
  BY DEF StoreInv, Sound
<1>2. Grown(index, x, Void) /\ Classified(x, Void) /\ events \subseteq x.docs \cup Void
  BY <1>1, IngestGrows
<1> HIDE DEF x
<1>3. Sound(x, disk, fl, Void) /\ HeldBy(index, disk, fl) \subseteq HeldBy(x, disk, fl) \cup x.redacted
  BY <1>1, <1>2, GrownIsSound
<1>4. /\ Sound(index', disk, fl, Void) /\ HeldBy(index', disk, fl) = HeldBy(x, disk, fl)
      /\ index'.redacted = x.redacted /\ index'.revision = x.revision
      /\ index'.durable = x.durable
  BY <1>1, <1>3, UnloadKeeps DEF x
<1>5. /\ index.redacted \subseteq index'.redacted /\ index.revision <= index'.revision
      /\ index'.durable = index.durable
  BY <1>2, <1>4 DEF Grown
<1>6. Void' = Void /\ Redacted' = Redacted
  BY VoidStays
<1>7. StoreInv'
  BY <1>4, <1>6 DEF StoreInv
<1>8. Views /\ Views'
  BY <1>7, ViewsFit, ViewsFitNext
<1>9. /\ Kept' = Kept /\ Held = HeldBy(index, disk, fl) /\ Gone = index.redacted
      /\ Held' = HeldBy(x, disk, fl) /\ Gone' = index'.redacted /\ Gone' \subseteq Event
  BY <1>4, <1>8 DEF Views
<1>10. /\ IndexFits(x, Void) /\ Held \subseteq Held' \cup Gone' /\ Gone' \subseteq Void
       /\ Held' \subseteq Event /\ Held' \cap Gone' = {}
  <2>1. IndexFits(x, Void)
    BY <1>2 DEF Grown
  <2> QED BY <1>3, <1>4, <1>9, <2>1, HeldIsEvents DEF IndexFits, HeldBy
<1>11. Keeps
  BY <1>5, <1>6, <1>9, <1>10 DEF Keeps, Covered
<1>12. Plainly!Learn
  <2>1. Gone' = Gone \cup Gone' /\ Held' = (Held \cup Held') \ Gone'
    BY <1>5, <1>9, <1>10
  <2> QED BY <1>9, <1>10, <2>1 DEF Plainly!Learn
<1>13. events \subseteq Held' \cup Void'
  BY <1>2, <1>6, <1>9 DEF HeldBy
<1> QED BY <1>7, <1>11, <1>12, <1>13 DEF StepFits, Plainly!Next

LEMMA LiveIs ==
    ASSUME Plain, StoreInv
    PROVE  Live \in SUBSET Event /\ \A e \in Live : e <= edge
BY KindTypes DEF Live, StoreInv

\* The store stays as it is.
LEMMA StayFits ==
    ASSUME Plain, StoreInv, UNCHANGED <<mode, phase, index, disk, saving, edge, shares>>,
           faults' \in Nat
    PROVE  StepFits /\ Kept' = Kept /\ Held' = Held /\ Void' = Void
<1>1. Void' = Void /\ Redacted' = Redacted
  BY VoidStays
<1>2. StoreInv'
  BY <1>1 DEF StoreInv
<1>3. Views /\ Views'
  BY <1>2, ViewsFit, ViewsFitNext
<1>4. Held' = Held /\ Gone' = Gone /\ Kept' = Kept
  BY <1>3 DEF Views
<1>5. Keeps
  <2>1. phase # "down" => index.revision \in Nat
    BY IndexTypes DEF StoreInv, Sound, IndexFits
  <2> QED BY <1>1, <1>4, <2>1 DEF Keeps
<1> QED BY <1>1, <1>2, <1>4, <1>5 DEF StepFits, Plainly!vars

LEMMA SyncFits ==
    ASSUME Plain, StoreInv, Sync
    PROVE  StepFits
<1>1. /\ phase # "down" /\ edge < kind.last /\ edge' = edge + 1 /\ mode = kind
      /\ UNCHANGED <<mode, phase, index, disk, saving, faults, crashes, shares>>
  BY DEF Sync, StoreInv
<1>2. edge \in Nat /\ edge' \in History..Newest /\ edge < edge'
  BY <1>1, KindTypes DEF StoreInv
<1>3. Void \subseteq Void' /\ Redacted \subseteq Redacted'
  <2>1. \A r \in Redactions : r \in Nat
    BY <1>1, VoidIs, KindTypes
  <2>2. Redacted \subseteq Redacted' /\ Redactions' = Redactions
    BY <1>1, <1>2, <2>1 DEF Redacted, Redactions
  <2> QED BY <2>2 DEF Void
<1>4. Sound(index, disk, saving["loop"], Void) /\ index.revision \in Nat
  BY <1>1, IndexTypes DEF StoreInv, Sound, IndexFits
<1>5. /\ Sound(index, disk, saving["loop"], Void')
      /\ \A S, r : Covered(S, r, index, disk, saving["loop"], Void) =>
                   Covered(S, r, index, disk, saving["loop"], Void')
  BY <1>3, <1>4, SoundStays
<1>6. StoreInv'
  BY <1>1, <1>2, <1>5 DEF StoreInv
<1>7. Views /\ Views'
  BY <1>6, ViewsFit, ViewsFitNext
<1>8. Held' = Held /\ Gone' = Gone /\ Kept' = Kept
  BY <1>1, <1>7 DEF Views
<1>9. Keeps
  BY <1>1, <1>3, <1>4, <1>5, <1>8 DEF Keeps
<1> QED BY <1>6, <1>8, <1>9 DEF StepFits, Plainly!vars

LEMMA CrashFits ==
    ASSUME Plain, StoreInv, Crash
    PROVE  StepFits /\ phase' = "down"
<1>1. /\ phase # "down" /\ phase' = "down" /\ index' = NewIndex /\ mode = kind
      /\ saving' = [s \in Savers |-> Idle] /\ UNCHANGED <<mode, disk, edge, faults, shares>>
  BY DEF Crash, StoreInv
<1>2. Void' = Void /\ Redacted' = Redacted
  BY <1>1, VoidStays
<1>3. Sound(index, disk, saving["loop"], Void) /\ StoreFits(disk, Void)
  BY <1>1 DEF StoreInv, Sound
<1>4. StoreInv'
  <2>1. saving' \in [Savers -> FlushShape] /\ saving'["peer"] = Idle /\ saving'["loop"] = Idle
    BY <1>1, IdleFits DEF Savers
  <2> QED BY <1>1, <1>2, <1>3, <2>1 DEF StoreInv
<1>5. Views /\ Views'
  BY <1>4, ViewsFit, ViewsFitNext
<1>6. /\ Kept' = Kept /\ Held' = Kept /\ Gone' = disk.manifest.redacted /\ Gone = index.redacted
      /\ Kept = OnDisk(disk) \ disk.manifest.redacted
  BY <1>1, <1>5 DEF Views
<1>7. Gone' \subseteq Gone
  BY <1>3, <1>6 DEF Sound, Linked
<1>8. Keeps
  BY <1>1, <1>2, <1>6 DEF Keeps
<1>9. Plainly!Stop
  BY <1>6, <1>7 DEF Plainly!Stop
<1> QED BY <1>1, <1>4, <1>8, <1>9 DEF StepFits, Plainly!Next

LEMMA RestoreFits ==
    ASSUME Plain, StoreInv, Restore
    PROVE  StepFits /\ phase = "down" /\ phase' # "down"
<1>1. /\ phase = "down" /\ phase' = "restored" /\ mode = kind
      /\ UNCHANGED <<mode, disk, saving, edge, faults, shares>>
      /\ saving["loop"] = Idle /\ StoreFits(disk, Void)
  BY DEF Restore, StoreInv
<1>2. PICK loaded \in SUBSET Ids(disk.manifest.chunks) :
         /\ mode.unloading \/ loaded = Ids(disk.manifest.chunks)
         /\ index' \in UnloadToBudget(Restored(disk.manifest, loaded))
  BY DEF Restore
<1> DEFINE x == Restored(disk.manifest, loaded)
<1>3. /\ Sound(x, disk, Idle, Void)
      /\ HeldBy(x, disk, Idle) = OnDisk(disk) \ disk.manifest.redacted
      /\ x.redacted = disk.manifest.redacted
  <2>1. loaded \in SUBSET Listed(disk) /\ (kind.unloading \/ loaded = Listed(disk))
    BY <1>1, <1>2 DEF Listed
  <2> QED BY <1>1, <2>1, RestoredIs
<1>4. /\ Sound(index', disk, Idle, Void) /\ HeldBy(index', disk, Idle) = HeldBy(x, disk, Idle)
      /\ index'.redacted = x.redacted
  BY <1>1, <1>2, <1>3, UnloadKeeps
<1> HIDE DEF x
<1>5. Void' = Void /\ Redacted' = Redacted
  BY <1>1, VoidStays
<1>6. StoreInv'
  BY <1>1, <1>4, <1>5 DEF StoreInv
<1>7. Views /\ Views'
  BY <1>6, ViewsFit, ViewsFitNext
<1>8. Held' = Held /\ Gone' = Gone /\ Kept' = Kept
  BY <1>1, <1>3, <1>4, <1>7 DEF Views
<1>9. Keeps
  BY <1>1, <1>5, <1>8 DEF Keeps
<1> QED BY <1>1, <1>6, <1>8, <1>9 DEF StepFits, Plainly!vars

LEMMA IndexRoomFits ==
    ASSUME Plain, StoreInv, IndexRoom
    PROVE  StepFits /\ phase # "down" /\ phase' # "down"
<1>1. /\ phase = "running" /\ phase' = "running" /\ UNCHANGED <<mode, disk, saving, edge, shares, faults>>
      /\ index' \in UnloadToBudget(Ingest(index, Live, Redacted))
  BY DEF IndexRoom
<1> QED BY <1>1, LiveIs, LearnFits

LEMMA PrimeFits ==
    ASSUME Plain, StoreInv, Prime
    PROVE  StepFits /\ phase # "down" /\ phase' # "down"
<1>1. /\ phase = "restored" /\ phase' = "running" /\ UNCHANGED <<mode, disk, saving, edge, shares, faults>>
      /\ index' = index \/ index' \in UnloadToBudget(Ingest(index, Live, Redacted))
  BY DEF Prime
<1>2. CASE index' \in UnloadToBudget(Ingest(index, Live, Redacted))
  BY <1>1, <1>2, LiveIs, LearnFits
<1>3. CASE index' = index
  <2>1. Void' = Void /\ Redacted' = Redacted
    BY <1>1, VoidStays
  <2>2. StoreInv'
    BY <1>1, <1>3, <2>1 DEF StoreInv
  <2>3. Views /\ Views'
    BY <2>2, ViewsFit, ViewsFitNext
  <2>4. Held' = Held /\ Gone' = Gone /\ Kept' = Kept
    BY <1>1, <1>3, <2>3 DEF Views
  <2>5. index.revision \in Nat
    BY <1>1, IndexTypes DEF StoreInv, Sound, IndexFits
  <2>6. Keeps
    BY <1>1, <1>3, <2>1, <2>4, <2>5 DEF Keeps
  <2> QED BY <1>1, <2>2, <2>4, <2>6 DEF StepFits, Plainly!vars
<1> QED BY <1>1, <1>2, <1>3

-----------------------------------------------------------------------------
(* The crawl: its own steps, and those of the store around it *)

LEMMA PassedIs ==
    ASSUME Plain
    PROVE  /\ \A t : Passed(t) \subseteq 1..History /\ Passed(t) \in SUBSET Event
           /\ Passed(NoToken) = {} /\ Passed(Exhausted) = Passed(1)
           /\ \A first, last \in 1..History :
                 first <= last => Passed(first) = first..last \cup Passed(last + 1)
<1>1. History \in Nat /\ 1..History \subseteq Event
  BY KindTypes
<1>2. \A t : Passed(t) \subseteq 1..History
  BY DEF Passed
<1>3. Passed(NoToken) = {} /\ Passed(Exhausted) = Passed(1)
  BY <1>1 DEF Passed, NoToken, Exhausted
<1>4. ASSUME NEW first \in 1..History, NEW last \in 1..History, first <= last
      PROVE  Passed(first) = first..last \cup Passed(last + 1)
  BY <1>1, <1>4 DEF Passed
<1> QED BY <1>1, <1>2, <1>3, <1>4

\* A step of the store that leaves the crawl alone.
LEMMA CrawlKeeps ==
    ASSUME Plain, StoreInv, CrawlInv, StepFits, phase' # "down", UNCHANGED <<crawl, cp, stored>>
    PROVE  CrawlInv'
<1>1. \A t : Safe(t) => Passed(t) \subseteq Kept' \cup Void'
  BY DEF StepFits, Keeps, Safe
<1>2. \A t : Reached(t) => Passed(t) \subseteq Held' \cup Void'
  BY DEF StepFits, Keeps, Reached
<1>3. ASSUME phase # "down", NEW t, NEW r \in Nat, Reached(t), Pending(t, r)
      PROVE  /\ r <= index'.revision
             /\ Covered(Passed(t), r, index', disk', saving'["loop"], Void')
  <2>1. Sound(index, disk, saving["loop"], Void) /\ Sound(index', disk', saving'["loop"], Void')
    BY <1>3 DEF StepFits, StoreInv
  <2>2. index.revision \in Nat /\ index'.revision \in Nat
    BY <2>1, IndexTypes DEF Sound, IndexFits
  <2>3. /\ index.revision <= index'.revision
        /\ \A S \in SUBSET Event, q \in Nat :
              /\ q <= index.revision
              /\ S \subseteq Held \cup Void
              /\ Covered(S, q, index, disk, saving["loop"], Void)
              => Covered(S, q, index', disk', saving'["loop"], Void')
    BY <1>3 DEF StepFits, Keeps
  <2>4. /\ Passed(t) \in SUBSET Event /\ Passed(t) \subseteq Held \cup Void
        /\ r <= index.revision /\ Covered(Passed(t), r, index, disk, saving["loop"], Void)
    BY <1>3, PassedIs DEF Reached, Pending
  <2> QED BY <2>2, <2>3, <2>4
<1>4. /\ crawl \in CrawlShape /\ stored \in 0..NoToken /\ crawl.saved = stored /\ Safe(stored)
      /\ DOMAIN cp = Tasks /\ cp["peer"] = NoCheckpoint
      /\ cp["crawl"].pc \in {"idle", "due", "build", "write"}
      /\ cp["crawl"].pc # "idle" => crawl.pc = "save"
      /\ cp["crawl"].pc = "build" =>
            cp["crawl"].unflushed \in BOOLEAN /\ (~cp["crawl"].unflushed => Safe(crawl.token))
      /\ cp["crawl"].pc = "write" =>
            cp["crawl"].checkpoint \in 0..NoToken /\ Safe(cp["crawl"].checkpoint)
      /\ phase = "down" => crawl = NewCrawl(stored) /\ cp["crawl"] = NoCheckpoint
      /\ crawl.pc \in {"loop", "save"} =>
            /\ Reached(crawl.token)
            /\ crawl.awaiting = {} => Safe(crawl.token)
            /\ \A r \in crawl.awaiting : Pending(crawl.token, r)
      /\ crawl.pc \in {"page", "ingest", "await"} => PageFits
  BY DEF CrawlInv
<1>5. phase = "down" => crawl.pc = "loop" /\ crawl.awaiting = {}
  BY <1>4 DEF NewCrawl
<1>6. crawl.awaiting \subseteq Nat /\ crawl.page.revision \in Nat
  BY <1>4 DEF CrawlShape
<1>7. crawl.pc \in {"loop", "save"} =>
          /\ Reached(crawl.token)'
          /\ crawl.awaiting = {} => Safe(crawl.token)'
          /\ \A r \in crawl.awaiting : Pending(crawl.token, r)'
  <2>1. \A r \in crawl.awaiting : phase # "down" /\ r \in Nat
    BY <1>5, <1>6
  <2> QED BY <1>1, <1>2, <1>3, <1>4, <2>1 DEF Reached, Safe, Pending
<1>8. crawl.pc \in {"page", "ingest", "await"} => PageFits'
  <2> SUFFICES ASSUME crawl.pc \in {"page", "ingest", "await"}
               PROVE  PageFits'
    OBVIOUS
  <2>1. PICK first \in 1..History, last \in 1..History :
           /\ first <= last
           /\ crawl.page.events = first..last
           /\ crawl.page.redacted \subseteq Redacted
           /\ crawl.token = (IF crawl.pc = "page" THEN last + 1
                             ELSE IF first = 1 THEN NoToken ELSE first)
           /\ crawl.pc \in {"page", "ingest"} => Reached(last + 1)
           /\ crawl.pc = "await" => Reached(first) /\ Pending(first, crawl.page.revision)
    BY <1>4 DEF PageFits
  <2>2. phase # "down"
    BY <1>5
  <2>3. Redacted \subseteq Redacted'
    BY DEF StepFits, Keeps
  <2>4. Pending(first, crawl.page.revision) /\ Reached(first) =>
            Pending(first, crawl.page.revision)'
    BY <1>3, <1>6, <2>2 DEF Pending
  <2> QED BY <1>2, <2>1, <2>3, <2>4 DEF PageFits, Reached
<1> QED BY <1>1, <1>4, <1>7, <1>8 DEF CrawlInv, Safe

LEMMA CrawlTypes ==
    ASSUME Plain, CrawlInv
    PROVE  /\ crawl \in CrawlShape /\ crawl.token \in 0..NoToken /\ crawl.awaiting \subseteq Nat
           /\ crawl.changed \in BOOLEAN /\ crawl.saved \in 0..NoToken /\ crawl.saved = stored
           /\ crawl.page.events \subseteq Event /\ crawl.page.redacted \subseteq Event
           /\ crawl.page.revision \in Nat
           /\ crawl.page \in [events : SUBSET Event, redacted : SUBSET Event, revision : Nat]
           /\ crawl.pc \in {"loop", "save", "page", "ingest", "await"}
           /\ NewCrawl(stored) \in CrawlShape /\ NoToken \in Nat
<1>1. crawl \in CrawlShape /\ crawl.saved = stored /\ stored \in 0..NoToken
  BY DEF CrawlInv
<1>2. NewCrawl(stored) \in CrawlShape
  BY <1>1 DEF NewCrawl, CrawlShape
<1>3. crawl.page \in [events : SUBSET Event, redacted : SUBSET Event, revision : Nat]
  BY <1>1 DEF CrawlShape
<1>4. NoToken \in Nat
  BY KindTypes DEF NoToken
<1> QED BY <1>1, <1>2, <1>3, <1>4 DEF CrawlShape

\* A checkpoint is taken once the store has what it passes, and nobody can tell how
\* long ago that was decided.
LEMMA CheckpointStepFits ==
    ASSUME Plain, StoreInv, CrawlInv, NEW t \in Tasks, CheckpointStep(t) \/ FailCheckpoint(t)
    PROVE  StepFits /\ CrawlInv'
<1>1. t = "crawl" /\ NoCheckpoint.pc = "idle"
  BY DEF CrawlInv, Tasks, NoCheckpoint, CheckpointStep, ReadDurable, BuildCheckpoint,
     WriteCheckpoint, FailCheckpoint
<1>2. /\ UNCHANGED <<mode, phase, index, disk, saving, edge, shares>> /\ faults' \in Nat
  BY DEF CheckpointStep, ReadDurable, BuildCheckpoint, WriteCheckpoint, FailCheckpoint,
     indexVars, StoreInv
<1>3. StepFits /\ Kept' = Kept /\ Held' = Held /\ Void' = Void
  BY <1>2, StayFits
<1>4. /\ crawl.pc = "save" /\ phase # "down" /\ DOMAIN cp = Tasks /\ cp["peer"] = NoCheckpoint
      /\ "crawl" \in Tasks /\ "peer" \in Tasks
  BY <1>1 DEF CrawlInv, Tasks, CheckpointStep, ReadDurable, BuildCheckpoint, WriteCheckpoint,
     FailCheckpoint
<1>5. /\ crawl \in CrawlShape /\ stored \in 0..NoToken /\ crawl.saved = stored /\ Safe(stored)
      /\ Reached(crawl.token)
      /\ crawl.awaiting = {} => Safe(crawl.token)
      /\ \A r \in crawl.awaiting : Pending(crawl.token, r)
  BY <1>4 DEF CrawlInv
<1>6. /\ \A x : Safe(x) => Passed(x) \subseteq Kept' \cup Void'
      /\ \A x : Reached(x) => Passed(x) \subseteq Held' \cup Void'
      /\ \A x, r : Pending(x, r) =>
            /\ r <= index'.revision
            /\ Covered(Passed(x), r, index', disk', saving'["loop"], Void')
  BY <1>2, <1>3 DEF Safe, Reached, Pending
<1>7. CASE ReadDurable("crawl")
  <2>1. /\ cp' = [cp EXCEPT !["crawl"] = [pc |-> "build",
                     unflushed |-> \E revision \in crawl.awaiting : revision > index.durable]]
        /\ UNCHANGED <<crawl, stored>>
    BY <1>7 DEF ReadDurable
  <2>2. /\ cp'["crawl"].pc = "build" /\ DOMAIN cp' = Tasks /\ cp'["peer"] = NoCheckpoint
        /\ cp'["crawl"].unflushed = \E revision \in crawl.awaiting : revision > index.durable
    BY <1>4, <2>1
  <2>3. ASSUME ~ \E revision \in crawl.awaiting : revision > index.durable
        PROVE  Safe(crawl.token)
    <3>1. CASE crawl.awaiting = {}
      BY <1>5, <3>1
    <3>2. CASE crawl.awaiting # {}
      <4>1. PICK r \in crawl.awaiting : Pending(crawl.token, r)
        BY <1>5, <3>2
      <4>2. Sound(index, disk, saving["loop"], Void)
        BY <1>4 DEF StoreInv
      <4>3. r \in Nat /\ index.durable \in Nat
        BY <1>5, <4>2, IndexTypes DEF CrawlShape, Sound, IndexFits
      <4>4. index.durable >= r
        BY <2>3, <4>3
      <4>5. Passed(crawl.token) \subseteq OnDisk(disk) \cup Void
        BY <4>1, <4>4 DEF Pending, Covered
      <4>6. disk.manifest.redacted \subseteq Void
        BY <4>2 DEF Sound, Linked, IndexFits
      <4>7. Views
        BY ViewsFit
      <4> QED BY <4>5, <4>6, <4>7 DEF Views, Safe
    <3> QED BY <3>1, <3>2
  <2> QED BY <1>2, <1>3, <1>4, <1>5, <1>6, <2>1, <2>2, <2>3 DEF CrawlInv, Safe, Reached, Pending
<1>8. CASE BuildCheckpoint("crawl")
  <2> DEFINE unflushed == cp["crawl"].unflushed
             checkpoint == IF unflushed THEN crawl.saved ELSE crawl.token
  <2>1. cp["crawl"].pc = "build" /\ stored' = stored /\ (~unflushed => Safe(crawl.token))
    BY <1>8 DEF BuildCheckpoint, CrawlInv
  <2>2. checkpoint \in 0..NoToken /\ Safe(checkpoint)
    BY <1>5, <2>1 DEF CrawlShape
  <2>3. CASE ~crawl.changed
    <3>1. cp' = [cp EXCEPT !["crawl"] = NoCheckpoint] /\ crawl' = crawl
      BY <1>8, <2>3 DEF BuildCheckpoint
    <3>2. cp'["crawl"] = NoCheckpoint /\ DOMAIN cp' = Tasks /\ cp'["peer"] = NoCheckpoint
      BY <1>4, <3>1
    <3> QED BY <1>1, <1>2, <1>3, <1>4, <1>5, <1>6, <2>1, <3>1, <3>2
            DEF CrawlInv, Safe, Reached, Pending
  <2>4. CASE crawl.changed
    <3>1. /\ crawl' = [crawl EXCEPT !.changed = unflushed,
                          !.awaiting = IF unflushed THEN @ ELSE {}]
          /\ cp' = [cp EXCEPT !["crawl"] =
                        IF checkpoint = crawl.saved THEN NoCheckpoint
                        ELSE [pc |-> "write", checkpoint |-> checkpoint]]
      BY <1>8, <2>4 DEF BuildCheckpoint
    <3>2. /\ crawl'.token = crawl.token /\ crawl'.saved = crawl.saved /\ crawl'.pc = "save"
          /\ crawl'.awaiting = (IF unflushed THEN crawl.awaiting ELSE {})
      BY <1>4, <1>5, <3>1 DEF CrawlShape
    <3>3. crawl' \in CrawlShape
      <4>1. unflushed \in BOOLEAN
        BY <2>1 DEF CrawlInv
      <4> QED BY <1>5, <3>1, <4>1 DEF CrawlShape
    <3> QED BY <1>2, <1>3, <1>4, <1>5, <1>6, <2>1, <2>2, <3>1, <3>2, <3>3
            DEF CrawlInv, Safe, Reached, Pending, NoCheckpoint
  <2> QED BY <1>3, <2>3, <2>4
<1>9. CASE WriteCheckpoint("crawl")
  <2>1. /\ cp["crawl"].pc = "write" /\ stored' = cp["crawl"].checkpoint
        /\ crawl' = [crawl EXCEPT !.saved = cp["crawl"].checkpoint]
        /\ cp' = [cp EXCEPT !["crawl"] = NoCheckpoint]
    BY <1>9 DEF WriteCheckpoint
  <2>2. cp'["crawl"] = NoCheckpoint /\ DOMAIN cp' = Tasks /\ cp'["peer"] = NoCheckpoint
    BY <1>4, <2>1
  <2>3. stored' \in 0..NoToken /\ Safe(stored')
    BY <2>1 DEF CrawlInv
  <2>4. /\ crawl' \in CrawlShape /\ crawl'.saved = stored' /\ crawl'.token = crawl.token
        /\ crawl'.awaiting = crawl.awaiting /\ crawl'.pc = "save"
    BY <1>4, <1>5, <2>1, <2>3 DEF CrawlShape
  <2> QED BY <1>1, <1>2, <1>3, <1>4, <1>5, <1>6, <2>2, <2>3, <2>4
          DEF CrawlInv, Safe, Reached, Pending
<1>10. CASE FailCheckpoint("crawl")
  <2>1. /\ crawl' = [crawl EXCEPT !.changed = TRUE] /\ stored' = stored
        /\ cp' = [cp EXCEPT !["crawl"] = NoCheckpoint]
    BY <1>10 DEF FailCheckpoint
  <2>2. cp'["crawl"] = NoCheckpoint /\ DOMAIN cp' = Tasks /\ cp'["peer"] = NoCheckpoint
    BY <1>4, <2>1
  <2>3. /\ crawl' \in CrawlShape /\ crawl'.saved = stored /\ crawl'.token = crawl.token
        /\ crawl'.awaiting = crawl.awaiting /\ crawl'.pc = "save"
    BY <1>4, <1>5, <2>1 DEF CrawlShape
  <2> QED BY <1>1, <1>2, <1>3, <1>4, <1>5, <1>6, <2>1, <2>2, <2>3
          DEF CrawlInv, Safe, Reached, Pending
<1> QED BY <1>1, <1>7, <1>8, <1>9, <1>10 DEF CheckpointStep

\* The steps of the crawl that leave the index alone.
LEMMA CrawlStepFits ==
    ASSUME Plain, StoreInv, CrawlInv, Turn \/ Fetch \/ Rest \/ Advance \/ Await
    PROVE  StepFits /\ CrawlInv'
<1>1. UNCHANGED <<mode, phase, index, disk, saving, edge, shares, faults>> /\ stored' = stored
  BY DEF Turn, Fetch, Rest, Advance, Await, indexVars
<1>2. StepFits /\ Kept' = Kept /\ Held' = Held /\ Void' = Void /\ Redacted \subseteq Redacted'
  <2>1. faults' \in Nat
    BY <1>1 DEF StoreInv
  <2>2. StepFits /\ Kept' = Kept /\ Held' = Held /\ Void' = Void
    BY <1>1, <2>1, StayFits
  <2> QED BY <2>2 DEF StepFits, Keeps
<1>3. /\ \A x : Safe(x) => Passed(x) \subseteq Kept' \cup Void'
      /\ \A x : Reached(x) => Passed(x) \subseteq Held' \cup Void'
      /\ \A x, r : Pending(x, r) =>
            /\ r <= index'.revision
            /\ Covered(Passed(x), r, index', disk', saving'["loop"], Void')
  BY <1>1, <1>2 DEF Safe, Reached, Pending
<1>4. /\ crawl \in CrawlShape /\ crawl.token \in 0..NoToken /\ crawl.saved = stored
      /\ crawl.pc \in {"loop", "save", "page", "ingest", "await"}
      /\ crawl.page \in [events : SUBSET Event, redacted : SUBSET Event, revision : Nat]
      /\ stored \in 0..NoToken /\ Safe(stored)
      /\ DOMAIN cp = Tasks /\ cp["peer"] = NoCheckpoint /\ NoCheckpoint.pc = "idle"
      /\ cp["crawl"].pc \in {"idle", "due", "build", "write"}
      /\ cp["crawl"].pc # "idle" => crawl.pc = "save"
      /\ History \in Nat /\ NoToken = History + 1 /\ 1..History \subseteq Event
  BY CrawlTypes, KindTypes DEF CrawlInv, NoCheckpoint, NoToken
<1>5. phase # "down"
  <2>1. phase = "down" => crawl.pc = "loop"
    BY DEF CrawlInv, NewCrawl
  <2> QED BY <2>1 DEF Turn, Fetch, Rest, Advance, Await
<1>6. CASE Turn
  <2>1. /\ crawl.pc = "loop" /\ crawl' = [crawl EXCEPT !.pc = "save"]
        /\ cp' = [cp EXCEPT !["crawl"] = [pc |-> "due"]]
    BY <1>6 DEF Turn
  <2>2. cp'["crawl"].pc = "due" /\ DOMAIN cp' = Tasks /\ cp'["peer"] = NoCheckpoint
    BY <1>4, <2>1 DEF Tasks
  <2>3. /\ crawl' \in CrawlShape /\ crawl'.saved = stored /\ crawl'.token = crawl.token
        /\ crawl'.awaiting = crawl.awaiting /\ crawl'.pc = "save"
    BY <1>4, <2>1 DEF CrawlShape
  <2> QED BY <1>1, <1>2, <1>3, <1>4, <1>5, <2>1, <2>2, <2>3 DEF CrawlInv, Safe, Reached, Pending
<1>7. CASE Rest
  <2>1. /\ crawl.pc = "save" /\ crawl' = [crawl EXCEPT !.pc = "loop"] /\ cp' = cp
        /\ cp["crawl"].pc = "idle"
    BY <1>7 DEF Rest
  <2>2. /\ crawl' \in CrawlShape /\ crawl'.saved = stored /\ crawl'.token = crawl.token
        /\ crawl'.awaiting = crawl.awaiting /\ crawl'.pc = "loop"
    BY <1>4, <2>1 DEF CrawlShape
  <2> QED BY <1>1, <1>2, <1>3, <1>4, <1>5, <2>1, <2>2 DEF CrawlInv, Safe, Reached, Pending
<1>8. CASE Fetch
  <2>1. /\ crawl.pc \in {"loop", "save"} /\ crawl.token # Exhausted /\ cp' = cp
        /\ cp["crawl"].pc = "idle"
    BY <1>4, <1>8 DEF Fetch
  <2>2. PICK end \in 1..(crawl.token - 1) :
           crawl' = [crawl EXCEPT !.pc = "page",
                        !.page = [events |-> end..(crawl.token - 1), redacted |-> Redacted,
                                  revision |-> 0]]
    BY <1>8 DEF Fetch
  <2> DEFINE last == crawl.token - 1
  <2>3. /\ end \in 1..History /\ last \in 1..History /\ end <= last /\ last + 1 = crawl.token
        /\ end..last \subseteq 1..History
    BY <1>4, <2>2
  <2>4. Redacted \subseteq Event
    BY VoidIs DEF StoreInv
  <2>5. /\ crawl' \in CrawlShape /\ crawl'.saved = stored /\ crawl'.token = crawl.token
        /\ crawl'.pc = "page" /\ crawl'.page.events = end..last /\ crawl'.page.redacted = Redacted
    <3>1. [events |-> end..last, redacted |-> Redacted, revision |-> 0] \in
             [events : SUBSET Event, redacted : SUBSET Event, revision : Nat]
      BY <1>4, <2>3, <2>4
    <3> HIDE DEF last
    <3>2. crawl' = [crawl EXCEPT !.pc = "page",
                       !.page = [events |-> end..last, redacted |-> Redacted, revision |-> 0]]
      BY <2>2 DEF last
    <3> QED BY <1>4, <3>1, <3>2 DEF CrawlShape
  <2>6. Reached(crawl.token)
    BY <2>1 DEF CrawlInv
  <2>7. PageFits'
    <3> HIDE DEF last
    <3> QED BY <1>2, <1>3, <2>3, <2>5, <2>6 DEF PageFits, Reached
  <2> QED BY <1>1, <1>2, <1>3, <1>4, <1>5, <2>1, <2>5, <2>7 DEF CrawlInv, Safe
<1>9. ASSUME crawl.pc \in {"page", "ingest", "await"}
      PROVE  \E first, last \in 1..History :
                /\ first <= last
                /\ crawl.page.events = first..last
                /\ crawl.page.redacted \subseteq Redacted
                /\ crawl.token = (IF crawl.pc = "page" THEN last + 1
                                  ELSE IF first = 1 THEN NoToken ELSE first)
                /\ crawl.pc \in {"page", "ingest"} => Reached(last + 1)
                /\ crawl.pc = "await" => Reached(first) /\ Pending(first, crawl.page.revision)
  BY <1>9 DEF CrawlInv, PageFits
<1>10. CASE Advance
  <2>1. /\ crawl.pc = "page" /\ cp' = cp
        /\ crawl' = [crawl EXCEPT !.pc = "ingest", !.changed = TRUE,
                        !.token = IF Min(crawl.page.events) = 1 THEN NoToken
                                  ELSE Min(crawl.page.events)]
    BY <1>10 DEF Advance
  <2>2. PICK first, last \in 1..History :
           /\ first <= last
           /\ crawl.page.events = first..last
           /\ crawl.page.redacted \subseteq Redacted
           /\ Reached(last + 1)
    BY <1>9, <2>1
  <2>3. Min(crawl.page.events) = first
    <3>1. first..last \in SUBSET Nat /\ first..last # {} /\ first \in first..last
          /\ \A y \in first..last : first <= y
      BY <2>2
    <3>2. Min(first..last) \in first..last /\ \A y \in first..last : Min(first..last) <= y
      BY <3>1, LeastExists
    <3> HIDE DEF Min
    <3> QED BY <2>2, <3>1, <3>2
  <2>4. /\ crawl' \in CrawlShape /\ crawl'.saved = stored /\ crawl'.page = crawl.page
        /\ crawl'.token = (IF first = 1 THEN NoToken ELSE first)
        /\ crawl'.pc = "ingest"
    <3> DEFINE token == IF first = 1 THEN NoToken ELSE first
    <3>1. token \in 0..NoToken
      BY <1>4, <2>2
    <3> HIDE DEF token
    <3>2. crawl' = [crawl EXCEPT !.pc = "ingest", !.changed = TRUE, !.token = token]
      BY <2>1, <2>3 DEF token
    <3>3. /\ crawl' \in CrawlShape /\ crawl'.saved = stored /\ crawl'.page = crawl.page
          /\ crawl'.token = token /\ crawl'.pc = "ingest"
      BY <1>4, <3>1, <3>2 DEF CrawlShape
    <3> QED BY <3>3 DEF token
  <2>5. PageFits'
    BY <1>2, <1>3, <2>2, <2>4 DEF PageFits, Reached
  <2> QED BY <1>1, <1>2, <1>3, <1>4, <1>5, <2>1, <2>4, <2>5 DEF CrawlInv, Safe
<1>11. CASE Await
  <2>1. /\ crawl.pc = "await" /\ cp' = cp
        /\ crawl' = [NewCrawl(crawl.saved) EXCEPT
                        !.token = IF 1 \in crawl.page.events THEN Exhausted ELSE crawl.token,
                        !.changed = crawl.changed \/ 1 \in crawl.page.events,
                        !.awaiting = {crawl.page.revision}]
    BY <1>11 DEF Await, Awaiting
  <2>2. PICK first, last \in 1..History :
           /\ first <= last
           /\ crawl.page.events = first..last
           /\ crawl.token = (IF first = 1 THEN NoToken ELSE first)
           /\ Reached(first) /\ Pending(first, crawl.page.revision)
    BY <1>9, <2>1
  <2>3. 1 \in crawl.page.events <=> first = 1
    BY <2>2
  <2> DEFINE token == IF 1 \in crawl.page.events THEN Exhausted ELSE crawl.token
             changed == crawl.changed \/ 1 \in crawl.page.events
  <2>4. token \in 0..NoToken /\ Passed(token) = Passed(first)
    BY <1>4, <2>2, <2>3, PassedIs DEF Exhausted
  <2>5. crawl.page.revision \in Nat /\ changed \in BOOLEAN
    BY <1>4
  <2> HIDE DEF token, changed
  <2>6. crawl' = [NewCrawl(crawl.saved) EXCEPT !.token = token, !.changed = changed,
                      !.awaiting = {crawl.page.revision}]
    BY <2>1 DEF token, changed
  <2>7. /\ crawl' \in CrawlShape /\ crawl'.saved = stored /\ crawl'.token = token
        /\ crawl'.awaiting = {crawl.page.revision} /\ crawl'.pc = "loop"
    BY <1>4, <2>4, <2>5, <2>6 DEF CrawlShape, NewCrawl
  <2>8. /\ Passed(token) \subseteq Held' \cup Void'
        /\ crawl.page.revision <= index'.revision
        /\ Covered(Passed(token), crawl.page.revision, index', disk', saving'["loop"], Void')
    BY <1>3, <2>2, <2>4
  <2>9. cp["crawl"].pc = "idle"
    BY <1>4, <2>1
  <2> QED BY <1>1, <1>2, <1>3, <1>4, <1>5, <2>1, <2>7, <2>8, <2>9
          DEF CrawlInv, Safe, Reached, Pending
<1> QED BY <1>2, <1>6, <1>7, <1>8, <1>10, <1>11

\* A page that was ingested is found, and on disk once the index is durable.
LEMMA IngestPageFits ==
    ASSUME Plain, StoreInv, CrawlInv, IngestPage
    PROVE  StepFits /\ CrawlInv'
<1>1. /\ crawl.pc = "ingest" /\ cp' = cp /\ stored' = stored
      /\ index' \in UnloadToBudget(Ingest(index, crawl.page.events, crawl.page.redacted))
      /\ crawl' = [crawl EXCEPT !.pc = "await", !.page.revision = index'.revision]
      /\ UNCHANGED <<mode, phase, disk, saving, edge, shares, faults>>
  BY DEF IngestPage
<1>2. phase # "down" /\ phase \in {"restored", "running"}
  BY <1>1 DEF CrawlInv, StoreInv, NewCrawl
<1>3. PICK first, last \in 1..History :
         /\ first <= last
         /\ crawl.page.events = first..last
         /\ crawl.page.redacted \subseteq Redacted
         /\ crawl.token = (IF first = 1 THEN NoToken ELSE first)
         /\ Reached(last + 1)
  BY <1>1 DEF CrawlInv, PageFits
<1>4. first..last \in SUBSET Event /\ \A e \in first..last : e <= edge
  <2>1. History \in Nat /\ Newest \in Nat /\ History <= Newest /\ edge \in History..Newest
        /\ Event = 1..Newest
    BY KindTypes DEF StoreInv
  <2> QED BY <1>3, <2>1
<1>5. StepFits /\ first..last \subseteq Held' \cup Void'
  BY <1>1, <1>2, <1>3, <1>4, LearnFits
<1>6. Sound(index', disk', saving'["loop"], Void') /\ index'.revision \in Nat
  BY <1>1, <1>2, <1>5, IndexTypes DEF StepFits, StoreInv, Sound, IndexFits
<1>7. Views'
  BY <1>5, ViewsFitNext DEF StepFits
<1>8. Passed(first) \subseteq Held' \cup Void'
  BY <1>1, <1>2, <1>3, <1>5, PassedIs DEF StepFits, Keeps, Reached
<1>9. Covered(Passed(first), index'.revision, index', disk', saving'["loop"], Void')
  <2>1. Held' = HeldBy(index', disk', saving'["loop"])
    BY <1>1, <1>2, <1>7 DEF Views
  <2> QED BY <1>6, <1>8, <2>1 DEF Sound, Covered
<1>10. /\ crawl' \in CrawlShape /\ crawl'.saved = stored /\ crawl'.token = crawl.token
       /\ crawl'.pc = "await" /\ crawl'.page.events = crawl.page.events
       /\ crawl'.page.redacted = crawl.page.redacted
       /\ crawl'.page.revision = index'.revision
  BY <1>1, <1>6, CrawlTypes DEF CrawlShape
<1>11. Redacted \subseteq Redacted' /\ (Safe(stored) => Safe(stored)')
  BY <1>1, <1>5 DEF StepFits, Keeps, Safe
<1>12. PageFits'
  BY <1>3, <1>6, <1>8, <1>9, <1>10, <1>11 DEF PageFits, Reached, Pending
<1> QED BY <1>1, <1>2, <1>5, <1>10, <1>11, <1>12 DEF CrawlInv, Safe

LEMMA EndFits ==
    ASSUME Plain, StoreInv, CrawlInv, End
    PROVE  StepFits /\ CrawlInv'
<1>1. /\ Crash /\ stored' = stored /\ crawl' = NewCrawl(stored)
      /\ cp' = [t \in Tasks |-> NoCheckpoint]
  BY DEF End
<1>2. StepFits /\ phase' = "down"
  BY <1>1, CrashFits
<1>3. Safe(stored)' /\ Held' = Kept'
  <2>1. Views'
    BY <1>2, ViewsFitNext DEF StepFits
  <2> QED BY <1>1, <1>2, <2>1 DEF CrawlInv, StepFits, Keeps, Safe, Views
<1>4. /\ cp'["crawl"] = NoCheckpoint /\ cp'["peer"] = NoCheckpoint /\ DOMAIN cp' = Tasks
      /\ NoCheckpoint.pc = "idle"
  BY <1>1 DEF Tasks, NoCheckpoint
<1>5. /\ crawl' \in CrawlShape /\ crawl'.pc = "loop" /\ crawl'.awaiting = {}
      /\ crawl'.token = stored /\ crawl'.saved = stored /\ stored \in 0..NoToken
  BY <1>1, CrawlTypes DEF NewCrawl, CrawlInv
<1> QED BY <1>1, <1>2, <1>3, <1>4, <1>5 DEF CrawlInv, Safe, Reached

-----------------------------------------------------------------------------
(* What the session begins with *)

LEMMA InitFits ==
    ASSUME Plain, Init, mode = kind
    PROVE  StoreInv /\ CrawlInv
<1>1. /\ phase = "down" /\ index = NewIndex /\ disk = InitialDisk(kind)
      /\ saving = [s \in Savers |-> Idle] /\ edge = History /\ faults = 0 /\ shares = 0
      /\ stored = (LET old == kind.stored \cap 1..History IN
                   IF old = {} THEN NoToken ELSE IF 1 \in old THEN Exhausted ELSE Min(old))
      /\ crawl = NewCrawl(stored) /\ cp = [t \in Tasks |-> NoCheckpoint]
  BY DEF Init, IndexInit
<1> DEFINE id(s) == Cardinality({t \in kind.starts : t < s})
           chunks == [s \in kind.starts |-> id(s)]
           part(c) == kind.stored \cap RangeOf(chunks, c)
           stores == [c \in Ids(chunks) |-> [docs |-> part(c), ids |-> part(c)]]
<1>2. disk = [manifest |-> [NoManifest EXCEPT !.chunks = chunks, !.next = Cardinality(kind.starts)],
              chunks |-> stores]
  BY <1>1 DEF InitialDisk
<1>3. /\ disk.manifest = [chunks |-> chunks, next |-> Cardinality(kind.starts), redacted |-> {},
                          pending |-> {}]
      /\ disk.chunks = stores
      /\ disk = [manifest |-> disk.manifest, chunks |-> disk.chunks]
  <2> HIDE DEF chunks, stores
  <2> QED BY <1>2 DEF NoManifest
<1>4. chunks = (IF kind.starts = {} THEN NoChunks ELSE Layout)
  BY DEF Layout, NoChunks
<1>5. kind.stored \subseteq 1..History /\ 1..History \subseteq Event /\ Event \subseteq 0..Newest
      /\ (kind.starts = {} <=> kind.stored = {}) /\ History \in Nat /\ Newest \in Nat
      /\ \A e \in kind.stored : e..History \subseteq kind.stored
  BY KindTypes
<1>6. \A c \in Ids(chunks) : c \in Chunk /\ part(c) = {e \in kind.stored : Home(e) = c}
  <2> SUFFICES ASSUME NEW c \in Ids(chunks)
               PROVE  c \in Chunk /\ part(c) = {e \in kind.stored : Home(e) = c}
    OBVIOUS
  <2>1. chunks = Layout /\ c \in Chunk
    BY <1>4, ShapesAre
  <2>2. RangeOf(chunks, c) = {t \in 0..Newest : Home(t) = c}
    BY <2>1, RangeIs
  <2> QED BY <1>5, <2>1, <2>2
<1>7. /\ DOMAIN disk.chunks = Ids(chunks)
      /\ \A c \in Ids(chunks) : /\ disk.chunks[c].docs = {e \in kind.stored : Home(e) = c}
                                /\ disk.chunks[c].ids = {e \in kind.stored : Home(e) = c}
                                /\ disk.chunks[c] \in Doc
  <2>1. \A c \in Ids(chunks) : disk.chunks[c] = [docs |-> part(c), ids |-> part(c)]
    BY <1>3
  <2>2. \A c \in Ids(chunks) : part(c) \in SUBSET Event
    BY <1>5
  <2>3. DOMAIN disk.chunks = Ids(chunks)
    BY <1>3
  <2> HIDE DEF chunks, part
  <2>4. ASSUME NEW c \in Ids(chunks)
        PROVE  /\ disk.chunks[c].docs = part(c) /\ disk.chunks[c].ids = part(c)
               /\ disk.chunks[c] \in Doc
    <3> DEFINE p == part(c)
    <3>1. p \in SUBSET Event /\ disk.chunks[c] = [docs |-> p, ids |-> p]
      BY <2>1, <2>2
    <3> HIDE DEF p
    <3>2. [docs |-> p, ids |-> p] \in Doc
      BY <3>1 DEF Doc
    <3>3. disk.chunks[c].docs = p /\ disk.chunks[c].ids = p
      BY <3>1
    <3> QED BY <3>1, <3>2, <3>3 DEF p
  <2> QED BY <1>6, <2>3, <2>4
<1>8. disk.chunks \in [Ids(chunks) -> Doc] /\ Ids(chunks) \in SUBSET Chunk
  <2>1. disk.chunks = [c \in Ids(chunks) |-> disk.chunks[c]]
    BY <1>3
  <2>2. Ids(chunks) \subseteq Chunk
    BY <1>6
  <2> HIDE DEF chunks, stores
  <2> QED BY <1>7, <2>1, <2>2
<1>9. Cardinality(kind.starts) \in Nat /\ (kind.starts = {} => Cardinality(kind.starts) = 0)
  <2>1. 0 \in Int /\ Newest \in Int /\ kind.starts \in SUBSET (0..Newest)
    BY KindTypes
  <2>2. IsFiniteSet(0..Newest)
    BY <2>1, FS_Interval
  <2>3. IsFiniteSet(kind.starts)
    BY <2>1, <2>2, FS_Subset
  <2> QED BY <2>3, FS_CardinalityType, FS_EmptySet
<1>10. chunks \in Shapes /\ (chunks = NoChunks => kind.starts = {})
  BY <1>4, ShapesAre DEF Shapes
<1> HIDE DEF chunks, part, stores
<1>11. disk.manifest.chunks = chunks /\ disk.manifest.redacted = {} /\ disk.manifest.pending = {}
       /\ disk.manifest.next = Cardinality(kind.starts)
  BY <1>3
<1>12. StoreFits(disk, Void)
  <2>1. disk.manifest \in ManifestShape
    BY <1>3, <1>9, <1>10 DEF ManifestShape
  <2>2. disk \in StoreShape
    BY <1>3, <1>8, <2>1 DEF StoreShape
  <2>3. ManifestFits(disk.manifest, Void)
    BY <1>9, <1>10, <1>11 DEF ManifestFits
  <2>4. \A c \in DOMAIN disk.chunks : ContentFits(c, disk.chunks[c], Void)
    BY <1>7 DEF ContentFits
  <2> QED BY <1>7, <1>11, <2>2, <2>3, <2>4 DEF StoreFits
<1>13. StoreInv
  <2>1. saving \in [Savers -> FlushShape] /\ saving["peer"] = Idle /\ saving["loop"] = Idle
    BY <1>1, IdleFits DEF Savers
  <2>2. edge \in History..Newest
    BY <1>1, KindTypes
  <2> QED BY <1>1, <1>12, <2>1, <2>2 DEF StoreInv
<1>14. Kept = kind.stored /\ Held = Kept
  <2>1. Views
    BY <1>13, ViewsFit
  <2>2. \A e \in kind.stored : Home(e) \in Ids(chunks)
    <3>1. \A e \in kind.stored : Home(e) \in Chunk /\ kind.starts # {}
      BY <1>5, HomeIsChunk
    <3> QED BY <1>4, <3>1, ShapesAre DEF chunks
  <2>3. OnDisk(disk) = kind.stored
    BY <1>5, <1>7, <1>11, <2>2 DEF OnDisk, InChunk, Listed
  <2> QED BY <1>1, <1>11, <2>1, <2>3 DEF Views
<1>15. stored \in 0..NoToken /\ Passed(stored) \subseteq kind.stored
  <2> DEFINE old == kind.stored \cap 1..History
  <2>1. old = kind.stored
    BY <1>5
  <2>2. CASE old = {}
    <3>1. stored = NoToken
      BY <1>1, <2>2
    <3> QED BY <1>5, <3>1, PassedIs DEF NoToken
  <2>3. CASE old # {} /\ 1 \in old
    <3>1. stored = Exhausted
      BY <1>1, <2>3
    <3> QED BY <1>5, <2>1, <2>3, <3>1, PassedIs DEF NoToken, Exhausted
  <2>4. CASE old # {} /\ 1 \notin old
    <3>1. stored = Min(old)
      BY <1>1, <2>4
    <3>2. Min(old) \in old
      BY <1>5, <2>4, LeastExists
    <3>3. Min(old)..History \subseteq kind.stored /\ Min(old) \in 1..History
      BY <1>5, <2>1, <3>2
    <3> DEFINE m == Min(old)
    <3> HIDE DEF m
    <3>4. stored = m /\ m..History \subseteq kind.stored /\ m \in 1..History
      BY <3>1, <3>3 DEF m
    <3> QED BY <1>5, <3>4 DEF NoToken, Passed
  <2> QED BY <2>2, <2>3, <2>4
<1>16. /\ cp["crawl"] = NoCheckpoint /\ cp["peer"] = NoCheckpoint /\ DOMAIN cp = Tasks
       /\ NoCheckpoint.pc = "idle"
  BY <1>1 DEF Tasks, NoCheckpoint
<1>17. /\ crawl \in CrawlShape /\ crawl.pc = "loop" /\ crawl.awaiting = {}
       /\ crawl.token = stored /\ crawl.saved = stored
  BY <1>1, <1>15 DEF NewCrawl, CrawlShape
<1>18. CrawlInv
  BY <1>1, <1>14, <1>15, <1>16, <1>17 DEF CrawlInv, Safe, Reached
<1> QED BY <1>13, <1>18

-----------------------------------------------------------------------------
(* The theorems *)

IInv == StoreInv /\ CrawlInv

LEMMA StepKeeps ==
    ASSUME Plain, IInv, Next
    PROVE  StepFits /\ CrawlInv'
<1>0. StoreInv /\ CrawlInv
  BY DEF IInv
<1>1. ASSUME NEW s \in Savers, Save(SaveStep(s), s) \/ Save(FailSave(s), s)
      PROVE  StepFits /\ CrawlInv'
  <2>1. SaveStep(s) \/ FailSave(s)
    BY <1>1 DEF Save
  <2>2. StepFits /\ s = "loop" /\ phase' # "down"
    BY <1>0, <2>1, SaveStepFits
  <2>3. UNCHANGED <<crawl, cp, stored>>
    BY <1>1, <2>2 DEF Save
  <2> QED BY <1>0, <2>2, <2>3, CrawlKeeps
<1>2. ASSUME NEW t \in Tasks, CheckpointStep(t) \/ FailCheckpoint(t)
      PROVE  StepFits /\ CrawlInv'
  BY <1>0, <1>2, CheckpointStepFits
<1>3. CASE CrawlStep
  BY <1>0, <1>3, CrawlStepFits, IngestPageFits DEF CrawlStep
<1>4. CASE Other(Sync) \/ Other(IndexRoom) \/ Other(Restore) \/ Other(Prime)
  <2>1. StepFits /\ phase' # "down"
    BY <1>0, <1>4, SyncFits, IndexRoomFits, RestoreFits, PrimeFits DEF Other, Sync
  <2>2. UNCHANGED <<crawl, cp, stored>>
    BY <1>4 DEF Other
  <2> QED BY <1>0, <2>1, <2>2, CrawlKeeps
<1>5. CASE End
  BY <1>0, <1>5, EndFits
<1> QED BY <1>1, <1>2, <1>3, <1>4, <1>5 DEF Next

LEMMA NothingChanges ==
    ASSUME Plain, IInv, UNCHANGED vars
    PROVE  IInv' /\ UNCHANGED Plainly!vars
<1>1. UNCHANGED <<mode, phase, index, disk, saving, edge, shares, faults, crawl, cp, stored>>
  BY DEF vars, indexVars
<1>2. StepFits /\ Kept' = Kept /\ Held' = Held /\ Void' = Void /\ faults' \in Nat
  <2>1. faults' \in Nat
    BY <1>1 DEF IInv, StoreInv
  <2> QED BY <1>1, <2>1, StayFits DEF IInv
<1>3. Gone' = Gone
  BY <1>1 DEF Gone
<1>4. CrawlInv'
  <2>1. /\ \A x : Safe(x) => Passed(x) \subseteq Kept' \cup Void'
        /\ \A x : Reached(x) => Passed(x) \subseteq Held' \cup Void'
        /\ \A x, r : Pending(x, r) =>
              /\ r <= index'.revision
              /\ Covered(Passed(x), r, index', disk', saving'["loop"], Void')
    BY <1>1, <1>2 DEF Safe, Reached, Pending
  <2>2. Redacted' = Redacted
    BY <1>1, VoidStays
  <2>3. PageFits => PageFits'
    BY <1>1, <2>1, <2>2 DEF PageFits, Reached, Pending
  <2> QED BY <1>1, <2>1, <2>3 DEF IInv, CrawlInv, Safe, Reached, Pending
<1> QED BY <1>2, <1>3, <1>4 DEF IInv, StepFits, Plainly!vars

\* The invariant of the index, its store, its saves and its crawl.
THEOREM Invariant ==
    ASSUME Plain
    PROVE  Init /\ mode = kind /\ [][Next]_vars => []IInv
<1>1. Init /\ mode = kind => IInv
  BY InitFits DEF IInv
<1>2. IInv /\ [Next]_vars => IInv'
  <2>1. IInv /\ Next => IInv'
    BY StepKeeps DEF IInv, StepFits
  <2> QED BY <2>1, NothingChanges
<1> QED BY <1>1, <1>2, PTL

\* No split is under way.
LEMMA NoPieces == Plain /\ StoreInv => Promised = Kept
<1> SUFFICES ASSUME Plain, StoreInv
             PROVE  Pieces = {}
  BY DEF Promised
<1>1. SUFFICES ASSUME NEW s \in Savers, saving[s].pc = "chunks",
                      disk.manifest.chunks # NoChunks
               PROVE  PiecesOf(s) = {}
  BY DEF Pieces
<1>2. s = "loop" /\ phase # "down"
  BY <1>1 DEF StoreInv, Savers, Idle
<1>3. Sound(index, disk, saving["loop"], Void)
  BY <1>2 DEF StoreInv
<1>4. /\ saving["loop"].hot \subseteq Ids(saving["loop"].manifest.chunks)
      /\ \A p \in saving["loop"].todo : p.id \in saving["loop"].hot
  BY <1>3 DEF Sound, FlushFits
<1>5. saving["loop"].manifest.chunks = Layout /\ disk.manifest.chunks = Layout
  BY <1>1, <1>2, <1>3, StoreTypes DEF Sound, Linked, StoreFits, ManifestShape, StoreShape, Shapes
<1>6. saving["loop"].hot \ Ids(disk.manifest.chunks) = {}
  BY <1>4, <1>5
<1>7. {d \in saving["loop"].todo : d.id \notin Ids(disk.manifest.chunks)} = {}
  BY <1>4, <1>5
<1>8. DocsIn({}) = {}
  BY DEF DocsIn
<1> QED BY <1>2, <1>6, <1>7, <1>8 DEF PiecesOf

LEMMA NoPiecesNext == Plain /\ StoreInv' => Promised' = Kept'
<1>1. (Plain /\ StoreInv => Promised = Kept)'
  BY NoPieces, PTL
<1>2. Plain' <=> Plain
  BY DEF Plain
<1> QED BY <1>1, <1>2

\* What is to be written is in memory too, unless its chunk was unloaded since.
LEMMA HeldIsFound ==
    ASSUME Plain, StoreInv, phase # "down"
    PROVE  Held \subseteq Found \cup Unread
<1>1. Sound(index, disk, saving["loop"], Void) /\ saving["peer"] = Idle
  BY DEF StoreInv
<1>2. ASSUME NEW s \in Savers, NEW p \in saving[s].todo, NEW e \in p.docs \ index.redacted
      PROVE  e \in Found \cup Unread
  <2>1. s = "loop"
    BY <1>1 DEF Savers, Idle
  <2>2. p.docs \subseteq index.docs \cup index.redacted \/ p.id \in index.cold
    BY <1>1, <2>1 DEF Sound, Takes
  <2>3. CASE p.id \in index.cold
    BY <2>3 DEF Unread
  <2> QED BY <2>2, <2>3 DEF Found
<1>3. InFlight \ index.redacted \subseteq Found \cup Unread
  BY <1>2 DEF InFlight
<1> QED BY <1>3 DEF Held

LEMMA CheckpointFits ==
    ASSUME Plain, IInv
    PROVE  CheckpointKeepsUp /\ PassedIsFound
<1>1. CheckpointKeepsUp
  BY DEF IInv, CrawlInv, Safe, CheckpointKeepsUp, Unredacted, Void
<1>2. ASSUME phase # "down", crawl.pc \in {"loop", "save"}
      PROVE  Unredacted(Passed(crawl.token)) \subseteq Found \cup Unread
  <2>1. Passed(crawl.token) \subseteq Held \cup Void
    BY <1>2 DEF IInv, CrawlInv, Reached
  <2> QED BY <1>2, <2>1, HeldIsFound DEF IInv, Unredacted, Void
<1> QED BY <1>1, <1>2 DEF PassedIsFound

\* The checkpoint in the store is never ahead of the documents: whatever writes
\* fail, whatever is unloaded and whenever the process ends, a message the crawl will
\* not ask for again is one a restart finds, or one that was redacted.
THEOREM CheckpointIsHonest ==
    ASSUME Plain
    PROVE  Spec /\ mode = kind => []CheckpointKeepsUp
<1>1. IInv => CheckpointKeepsUp
  BY CheckpointFits
<1> QED BY <1>1, Invariant, PTL DEF Spec

\* A message the crawl has passed is found by a search until it is redacted, from
\* memory or from its unloaded chunk, except while a save has yet to write what the
\* chunk held when it was unloaded (unloadable, take_flush).
THEOREM PassedStaysFound ==
    ASSUME Plain
    PROVE  Spec /\ mode = kind => []PassedIsFound
<1>1. IInv => PassedIsFound
  BY CheckpointFits
<1> QED BY <1>1, Invariant, PTL DEF Spec

\* The index, its store, its saves and its crawl implement the promise of SearchKept:
\* what was indexed is held until it is redacted or the process ends, what was
\* written stays written until it is redacted, and a restart finds what was written.
THEOREM KeepsThePromise ==
    ASSUME Plain
    PROVE  Spec /\ mode = kind => KeepsItsPromise
<1>1. Init /\ mode = kind => Promise!Init
  <2> SUFFICES ASSUME Init, mode = kind
               PROVE  Promise!Init
    OBVIOUS
  <2>1. StoreInv /\ phase = "down" /\ disk.manifest.redacted = {}
    BY InitFits DEF Init, IndexInit, InitialDisk, NoManifest
  <2>2. Views
    BY <2>1, ViewsFit
  <2>3. Held = Kept /\ Gone = {} /\ Kept \subseteq Event
    BY <2>1, <2>2 DEF Views, OnDisk
  <2> QED BY <2>1, <2>3, NoPieces DEF Promise!Init
<1>2. IInv /\ [Next]_vars => [Promise!Next]_(Promise!vars)
  <2> SUFFICES ASSUME IInv, [Next]_vars
               PROVE  [Promise!Next]_(Promise!vars)
    OBVIOUS
  <2>1. [Plainly!Next]_(Plainly!vars) /\ IInv'
    BY StepKeeps, NothingChanges DEF StepFits, IInv
  <2>2. Promised = Kept /\ Promised' = Kept'
    BY <2>1, NoPieces, NoPiecesNext DEF IInv
  <2> QED BY <2>1, <2>2 DEF Plainly!Next, Plainly!Learn, Plainly!Write, Plainly!Stop, Plainly!vars,
             Promise!Next, Promise!Learn, Promise!Write, Promise!Stop, Promise!vars
<1> QED BY <1>1, <1>2, Invariant, PTL DEF Spec, KeepsItsPromise, Promise!Spec

\* What a restart finds was held, or was redacted since it was written:
\* restore_persisted_index invents nothing.
THEOREM RestartInventsNothing ==
    ASSUME Plain
    PROVE  Spec /\ mode = kind => []Promise!KeptIsKnown
<1>1. IInv => Promise!KeptIsKnown
  <2> SUFFICES ASSUME IInv
               PROVE  Promise!KeptIsKnown
    OBVIOUS
  <2>1. Views /\ StoreInv
    BY ViewsFit DEF IInv
  <2>0. Promised = Kept
    BY <2>1, NoPieces
  <2>2. CASE phase = "down"
    BY <2>0, <2>1, <2>2 DEF Views, Promise!KeptIsKnown
  <2>3. CASE phase # "down"
    <3>1. Sound(index, disk, saving["loop"], Void)
      BY <2>1, <2>3 DEF StoreInv
    <3>2. \A e \in OnDisk(disk) : e \in Written(disk, saving["loop"]) /\ InChunk(disk, e) /\ e \in Event
      BY DEF OnDisk, Written
    <3>3. OnDisk(disk) \subseteq HeldBy(index, disk, saving["loop"]) \cup index.redacted
      BY <3>1, <3>2 DEF Sound, Loaded, HeldBy
    <3> QED BY <2>0, <2>1, <2>3, <3>3 DEF Views, Promise!KeptIsKnown
  <2> QED BY <2>2, <2>3
<1> QED BY <1>1, Invariant, PTL DEF Spec

\* A message that is written and not known to be redacted stays written over every
\* step, a failed write and the end of the process included (save_room, flush_failed,
\* restored_with).
THEOREM WrittenStaysWritten ==
    ASSUME Plain, NEW e \in Event
    PROVE  Spec /\ mode = kind => [][(e \in Kept /\ e \notin Gone) => (e \in Kept')]_vars
<1>1. IInv /\ [Next]_vars => [(e \in Kept /\ e \notin Gone) => (e \in Kept')]_vars
  <2> SUFFICES ASSUME IInv, [Next]_vars, ~UNCHANGED vars, e \in Kept, e \notin Gone
               PROVE  e \in Kept'
    OBVIOUS
  <2>1. [Plainly!Next]_(Plainly!vars)
    BY StepKeeps, NothingChanges DEF StepFits
  <2> QED BY <2>1 DEF Plainly!Next, Plainly!Learn, Plainly!Write, Plainly!Stop, Plainly!vars
<1> QED BY <1>1, Invariant, PTL DEF Spec
=============================================================================

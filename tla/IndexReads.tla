----------------------------- MODULE IndexReads -----------------------------
(***************************************************************************)
(* Layers 3 to 5, the index and the reads over it (tephra/src/index and    *)
(* tephra/src/read/mod.rs).  The writer thread feeds each committed event  *)
(* into the ActiveTail that reader threads query at the same time, seals   *)
(* the tail on a rollover, and publishes snapshot and watermark.  A read   *)
(* pins a watermark, then a snapshot, estimates its result from posting    *)
(* lengths, and either streams the log or plans positions from the index.  *)
(*                                                                         *)
(* A reader's steps are the loads another thread can come between: the     *)
(* watermark, the snapshot, the planner's estimate, the unindexable latch, *)
(* the view of the tail, each probe of its interners and posting lists.    *)
(* Failed commits are WriteCoordinator's subject: every batch succeeds.    *)
(***************************************************************************)
EXTENDS Dcb, SequencesExt

CONSTANTS
    Appendable,   \* the events a batch may hold
    Queries,      \* the queries a reader may ask
    Limits,       \* the limits it may set; NoLimit is None
    Cursors,      \* where its first page may begin
    TypeLimit,    \* distinct types a segment's column can hold (u16::MAX + 1)
    Chunk,        \* slots per chunk of a ChunkedVec (CHUNK)
    Biases,       \* the scan_bias of the handles' ReadConfig
    MaxLog,       \* bound on the log's length
    MaxBatch,     \* bound on the events of a batch
    MaxPages,     \* bound on the pages a reader asks for
    MaxReopens    \* bound on crashes and restarts

NoLimit == 0 - 1

ASSUME IndexReadsAssumption ==
    /\ Appendable \subseteq Event
    /\ \A event \in Appendable : IsFiniteSet(event.tags)
    /\ Queries \subseteq Query
    /\ Limits \subseteq Nat \cup {NoLimit}
    /\ Cursors \subseteq Nat
    /\ Biases \cup {TypeLimit, Chunk} \subseteq Nat \ {0}
    /\ {MaxLog, MaxBatch, MaxPages, MaxReopens} \subseteq Nat

VARIABLES
    \* the log
    log,          \* the durable events
    bases,        \* base positions of the segments, the last one active
    \* IndexSet
    tails,        \* per segment, the ActiveTail fed with it
    sealed,       \* IndexSet::sealed
    span,         \* IndexSet::active_span
    latched,      \* IndexSet::active_unindexable
    \* the writer thread
    pc,           \* where it is between two commits
    rolled,       \* the batch began a new segment
    feeding,      \* the position being fed
    untagged,     \* the tags of that event not yet interned
    \* ReadCore
    watermark,
    snap,         \* the published Snapshot
    \* a reader thread
    r,            \* the read in progress and the pages before it
    reopens

logVars    == <<log, bases>>
indexVars  == <<tails, sealed, span, latched>>
writerVars == <<pc, rolled, feeding, untagged>>
coreVars   == <<watermark, snap>>
vars       == <<logVars, indexVars, writerVars, coreVars, r, reopens>>

Lesser(x, y) == Min({x, y})
-----------------------------------------------------------------------------
\* One segment's index. A tail's locals are 0-based; `types' and `terms' list what was interned,
\* in id order. `reopened' is a ghost: this tail was rebuilt by IndexSet::open and hit the type
\* limit there.
EmptyTail(base) ==
    [base |-> base, types |-> <<>>, column |-> <<>>, terms |-> <<>>,
     postings |-> [t \in Tag |-> {}], unindexable |-> FALSE, reopened |-> FALSE]

Active == Len(tails)

ActiveTail == tails[Active]

\* The slots a ChunkedVec's backbone covers after n pushes: whole chunks, doubled (ensure) each
\* time a push needs one more.
Covered(n) ==
    LET need(i) == (i - 1) \div Chunk + 1
        chunks[i \in 0..n] ==
            IF i = 0 THEN 0
            ELSE IF chunks[i - 1] >= need(i) THEN chunks[i - 1]
            ELSE Max({need(i), 2 * chunks[i - 1]})
    IN Chunk * chunks[n]

IdOf(t, seq) == (CHOOSE i \in DOMAIN seq : seq[i] = t) - 1

Interned(t, seq) == t \in ToSet(seq)

\* ActiveTail::push in one piece, for a rebuild nobody else can see: intern_type, which must
\* succeed, then the tags, then the column.
InternType(tail, type) ==
    [tail EXCEPT !.types = IF Interned(type, @) THEN @ ELSE Append(@, type)]

TypeFits(tail, type) == Interned(type, tail.types) \/ Len(tail.types) < TypeLimit

PushTerm(tail, tag) ==
    [tail EXCEPT !.terms = IF Interned(tag, @) THEN @ ELSE Append(@, tag),
                 !.postings[tag] = @ \cup {Len(tail.column)}]

PushColumn(tail, type) ==
    [tail EXCEPT !.column = Append(@, IdOf(type, tail.types))]

TailPush(tail, event) ==
    PushColumn(FoldSet(LAMBDA tag, t : PushTerm(t, tag),
                       InternType(tail, event.type), event.tags), event.type)

\* Rebuilder: feed the segment's events in order; the first rejected one latches `unindexable' and
\* stops the feeding, not the count. Nothing here calls mark_unindexable.
Feed(built, event) ==
    IF built.unindexable THEN built
    ELSE IF TypeFits(built.index, event.type)
         THEN [built EXCEPT !.index = TailPush(@, event)]
         ELSE [built EXCEPT !.unindexable = TRUE, !.index.reopened = TRUE]

SegmentEvents(k) ==
    SubSeq(log, bases[k], IF k = Len(bases) THEN Len(log) ELSE bases[k + 1] - 1)

RebuildRange(k) ==
    FoldLeft(Feed, [index |-> EmptyTail(bases[k]), unindexable |-> FALSE], SegmentEvents(k))
-----------------------------------------------------------------------------
\* SegmentIndex, as search sees it: the ids and posting lists it got, and the type id at each
\* local. An absent tag and one with no visible posting are the same to search and to the planner.
NoId == 0 - 1

ColumnAt(tail, local) == IF local < Len(tail.column) THEN tail.column[local + 1] ELSE 0

IndexSegment(tail) ==
    [base |-> tail.base,
     len  |-> Len(tail.column),
     ids  |-> [t \in EventType |-> IF Interned(t, tail.types) THEN IdOf(t, tail.types)
                                   ELSE NoId],
     posts |-> tail.postings]

ItemLocals(index, tail, item) ==
    LET ids == {index.ids[t] : t \in item.types} \ {NoId}
    IN {l \in 0..(index.len - 1) :
          /\ item.types = {} \/ ColumnAt(tail, l) \in ids
          /\ \A t \in item.tags : l \in index.posts[t]}

LocalMatches(index, tail, query) ==
    IF query.all THEN 0..(index.len - 1)
    ELSE UNION {ItemLocals(index, tail, item) : item \in query.items}

Search(index, tail, query) == {index.base + l : l \in LocalMatches(index, tail, query)}

\* The scan oracle: the positions of a range whose event matches.
ScanMatches(query, first, last) ==
    {p \in first..last : p \in DOMAIN log /\ Matches(query, log[p])}
-----------------------------------------------------------------------------
\* The writer thread, from the log's rollover to the published watermark. A rollover and the
\* commit it makes room for are two durable steps.
Rollover ==
    /\ pc = "idle"
    /\ Last(bases) <= Len(log) /\ Len(log) < MaxLog
    /\ bases' = Append(bases, Len(log) + 1)
    /\ rolled' = TRUE
    /\ pc' = "rolled"
    /\ UNCHANGED <<log, indexVars, feeding, untagged, coreVars, r, reopens>>

CommitBatch ==
    /\ pc \in {"idle", "rolled"}
    /\ \E n \in 1..MaxBatch : \E batch \in [1..n -> Appendable] :
        /\ Len(log) + n <= MaxLog
        /\ log' = log \o batch
    /\ feeding' = Len(log) + 1
    /\ pc' = IF rolled THEN "seal" ELSE "push"
    /\ UNCHANGED <<bases, indexVars, rolled, untagged, coreVars, r, reopens>>

\* Variant: a latched tail is sealed as if its columns were whole.
SealActiveTrusting ==
    /\ pc = "seal"
    /\ sealed' = Append(sealed, [base |-> ActiveTail.base, count |-> span, indexed |-> TRUE])
    /\ tails' = Append(tails, EmptyTail(feeding))
    /\ span' = 0
    /\ latched' = FALSE
    /\ pc' = "push"
    /\ UNCHANGED <<logVars, rolled, feeding, untagged, coreVars, r, reopens>>

\* seal_active: the tail's encoding answers for the sealed segment, unless it was latched. Whether
\* the .idx file was written only matters to the next open.
SealActive ==
    /\ pc = "seal"
    /\ sealed' = Append(sealed, [base |-> ActiveTail.base, count |-> span,
                                 indexed |-> ~latched])
    /\ tails' = Append(tails, EmptyTail(feeding))
    /\ span' = 0
    /\ latched' = FALSE
    /\ pc' = "push"
    /\ UNCHANGED <<logVars, rolled, feeding, untagged, coreVars, r, reopens>>

EventFed ==
    IF feeding < Len(log)
    THEN pc' = "push" /\ feeding' = feeding + 1
    ELSE pc' = (IF rolled THEN "segments" ELSE "watermark") /\ UNCHANGED feeding

\* IndexSet::push of one event: skipped once latched; rejected by the type column, which latches
\* the writer's flag and the tail's; or interned.
PushSkipped ==
    /\ pc = "push" /\ latched
    /\ span' = span + 1
    /\ EventFed
    /\ UNCHANGED <<logVars, tails, sealed, latched, rolled, untagged, coreVars, r, reopens>>

\* Variant: the latch is set on the writer's side only.
PushRejectedUnmarked ==
    /\ pc = "push" /\ ~latched /\ ~TypeFits(ActiveTail, log[feeding].type)
    /\ span' = span + 1
    /\ latched' = TRUE
    /\ EventFed
    /\ UNCHANGED <<logVars, tails, sealed, rolled, untagged, coreVars, r, reopens>>

PushRejected ==
    /\ pc = "push" /\ ~latched /\ ~TypeFits(ActiveTail, log[feeding].type)
    /\ span' = span + 1
    /\ latched' = TRUE
    /\ tails' = [tails EXCEPT ![Active].unindexable = TRUE]
    /\ EventFed
    /\ UNCHANGED <<logVars, sealed, rolled, untagged, coreVars, r, reopens>>

PushType ==
    /\ pc = "push" /\ ~latched /\ TypeFits(ActiveTail, log[feeding].type)
    /\ span' = span + 1
    /\ tails' = [tails EXCEPT ![Active] = InternType(@, log[feeding].type)]
    /\ untagged' = log[feeding].tags
    /\ pc' = "tags"
    /\ UNCHANGED <<logVars, sealed, latched, rolled, feeding, coreVars, r, reopens>>

PushTag ==
    /\ pc = "tags" /\ untagged # {}
    /\ LET tag == CHOOSE t \in untagged : TRUE
       IN /\ tails' = [tails EXCEPT ![Active] = PushTerm(@, tag)]
          /\ untagged' = untagged \ {tag}
    /\ UNCHANGED <<logVars, sealed, span, latched, pc, rolled, feeding, coreVars, r, reopens>>

PushLocal ==
    /\ pc = "tags" /\ untagged = {}
    /\ tails' = [tails EXCEPT ![Active] = PushColumn(@, log[feeding].type)]
    /\ EventFed
    /\ UNCHANGED <<logVars, sealed, span, latched, rolled, untagged, coreVars, r, reopens>>

Capture(segs, index, active) == [sealed |-> index, base |-> Last(segs), tail |-> active]

PublishSegments ==
    /\ pc = "segments"
    /\ snap' = Capture(bases, sealed, Active)
    /\ pc' = "watermark"
    /\ UNCHANGED <<logVars, indexVars, rolled, feeding, untagged, watermark, r, reopens>>

PublishWatermark ==
    /\ pc = "watermark"
    /\ watermark' = Len(log)
    /\ rolled' = FALSE
    /\ pc' = "idle"
    /\ UNCHANGED <<logVars, indexVars, feeding, untagged, snap, r, reopens>>
-----------------------------------------------------------------------------
\* find_match, what the writer's durable arm asks between batches: the first match in the earliest
\* touched segment, or a log scan when a touched segment is unindexable.
Touched(after) ==
    {k \in 1..Active :
        IF k < Active THEN sealed[k].base + sealed[k].count - 1 > after
        ELSE ActiveTail.base + span - 1 > after /\ span > 0}

Indexable(k) == IF k < Active THEN sealed[k].indexed ELSE ~latched

FindMatch(query, after) ==
    LET hits(k) == {p \in Search(IndexSegment(tails[k]), tails[k], query) : p > after}
        hit == {k \in Touched(after) : hits(k) # {}}
    IN IF \E k \in Touched(after) : ~Indexable(k)
       THEN Lowest(ScanMatches(query, after + 1, Len(log)))
       ELSE IF hit = {} THEN {} ELSE Lowest(hits(Min(hit)))
-----------------------------------------------------------------------------
\* The planner: estimate_read over the segments of the reader's snapshot.
FirstAfter(after, base) == Max({after, base - 1}) + 1

SegmentWidth(after, base, last) == Max({last + 1 - FirstAfter(after, base), 0})

\* term_len of an item's tags; no tag at all is as broad as the range.
EstimateItem(lens, item, width) == Min({lens[t] : t \in item.tags} \cup {width})

EstimateMatches(lens, query, width) ==
    IF query.all THEN width
    ELSE Lesser(MapThenSumSet(LAMBDA item : EstimateItem(lens, item, width), query.items), width)

SealedLast(seg) == Lesser(seg.base + seg.count - 1, r.upto)

Pruned(seg) == seg.count = 0 \/ SealedLast(seg) <= r.after

SealedWidth(k) ==
    LET seg == r.snap.sealed[k]
    IN IF Pruned(seg) THEN 0 ELSE SegmentWidth(r.after, seg.base, SealedLast(seg))

SealedEstimate(k) ==
    IF SealedWidth(k) = 0 \/ ~r.snap.sealed[k].indexed THEN SealedWidth(k)
    ELSE EstimateMatches([t \in Tag |-> Cardinality(tails[k].postings[t])], r.query,
                         SealedWidth(k))

ReaderTail == tails[r.snap.tail]

TailWidth ==
    IF r.upto >= r.snap.base THEN SegmentWidth(r.after, r.snap.base, r.upto) ELSE 0

\* visible_len, clamped to the slots the cloned column covers.
VisibleLen == Lesser(r.upto - ReaderTail.base + 1, Covered(Len(ReaderTail.column)))

TailEstimate ==
    IF TailWidth = 0 \/ ReaderTail.unindexable THEN TailWidth
    ELSE EstimateMatches([t \in Tag |-> Lesser(Cardinality(ReaderTail.postings[t]), VisibleLen)],
                         r.query, TailWidth)

ReadWidth == MapThenSumSet(SealedWidth, DOMAIN r.snap.sealed) + TailWidth

EstimateRead ==
    Lesser(MapThenSumSet(SealedEstimate, DOMAIN r.snap.sealed) + TailEstimate, ReadWidth)

Access(estimate, width, bias) == IF estimate * bias <= width THEN "index" ELSE "scan"
-----------------------------------------------------------------------------
\* A reader thread. `pages' counts the pages of one pagination; `joined' is everything they
\* yielded; `start' and `top' are the first page's.
IdleRead ==
    [at |-> "idle", query |-> Nothing, dir |-> "forward", limit |-> NoLimit, cursor |-> 0,
     watermark |-> 0, snap |-> Capture(<<1>>, <<>>, 1), after |-> 0, upto |-> 0,
     access |-> "done", index |-> IndexSegment(EmptyTail(1)), terms |-> 0,
     types |-> {}, tags |-> {}, out |-> <<>>, pos |-> 0, left |-> 0, hitLimit |-> FALSE,
     err |-> FALSE, page |-> <<>>, joined |-> <<>>, start |-> 0, top |-> 0, pages |-> 0]

Reading(place) ==
    r.at = place /\ UNCHANGED <<logVars, indexVars, writerVars, coreVars, reopens>>

Forward == r.dir = "forward"

\* The Reads is dropped.
Ended(read) ==
    [read EXCEPT !.at = "end", !.snap = IdleRead.snap, !.index = IdleRead.index,
                 !.terms = 0, !.access = "done", !.out = <<>>, !.pos = 0, !.left = 0]

Precedes(p, q) == IF Forward THEN p < q ELSE q < p

\* A set of positions in the read's order.
Ordered(S) ==
    CHOOSE seq \in [1..Cardinality(S) -> S] :
        \A i, j \in DOMAIN seq : i < j => Precedes(seq[i], seq[j])

Capped(seq) ==
    IF r.limit = NoLimit THEN seq ELSE SubSeq(seq, 1, Lesser(r.limit, Len(seq)))

Full(seq) == r.limit # NoLimit /\ Len(seq) >= r.limit

\* ReadHandle::read and read_back begin with ReadCore::load: the watermark first, the snapshot
\* after it.
StartRead ==
    /\ Reading("idle")
    /\ \E query \in Queries, limit \in Limits, cursor \in Cursors,
         dir \in {"forward", "backward"} :
         r' = [r EXCEPT !.at = "load", !.query = query, !.limit = limit, !.dir = dir,
                        !.cursor = cursor, !.start = cursor, !.watermark = watermark,
                        !.pages = 1]

\* The documented pagination: the next page's cursor is the last position.
NextPage ==
    /\ Reading("end")
    /\ r.pages < MaxPages /\ ~r.err /\ r.page # <<>>
    /\ r' = [r EXCEPT !.at = "load", !.cursor = Last(r.page), !.watermark = watermark,
                      !.pages = @ + 1]

\* Variant: `before' is taken as an inclusive bound.
LoadSnapshotInclusive ==
    /\ Reading("load")
    /\ LET after == IF Forward THEN r.cursor ELSE 0
           upto  == IF Forward THEN r.watermark ELSE Lesser(r.cursor, r.watermark)
           empty == after >= upto \/ r.limit = 0
       IN r' = [r EXCEPT !.snap = snap, !.after = after, !.upto = upto,
                         !.left = r.limit, !.hitLimit = FALSE, !.out = <<>>, !.page = <<>>,
                         !.top = IF r.pages = 1 THEN upto ELSE @,
                         !.access = "done", !.at = IF empty THEN "stream" ELSE "choose"]

LoadSnapshot ==
    /\ Reading("load")
    /\ LET after == IF Forward THEN r.cursor ELSE 0
           upto  == IF Forward THEN r.watermark
                    ELSE Lesser(Max({r.cursor - 1, 0}), r.watermark)
           empty == after >= upto \/ r.limit = 0
       IN r' = [r EXCEPT !.snap = snap, !.after = after, !.upto = upto,
                         !.left = r.limit, !.hitLimit = FALSE, !.out = <<>>, !.page = <<>>,
                         !.top = IF r.pages = 1 THEN upto ELSE @,
                         !.access = "done", !.at = IF empty THEN "stream" ELSE "choose"]

\* Segments as the log keeps them: locate the owner, then its sidecar.
Locate(s, p) ==
    IF p >= s.base THEN s.base
    ELSE Max({0} \cup {s.sealed[k].base : k \in {j \in DOMAIN s.sealed : s.sealed[j].base <= p}})

Held(p) ==
    \E k \in DOMAIN bases : bases[k] = Locate(r.snap, p) /\ p - bases[k] < Len(SegmentEvents(k))

\* plan_directional: one verdict, then a streaming scan or the planning of positions, sealed
\* segments first going forward, the tail first going backward. A forward scan that cannot find
\* its first record fails.
ChooseScan ==
    /\ Reading("choose")
    /\ \E bias \in Biases : Access(EstimateRead, ReadWidth, bias) = "scan"
    /\ LET first == IF Forward THEN r.after + 1 ELSE r.upto
       IN r' = IF Forward /\ ~Held(first) THEN Ended([r EXCEPT !.err = TRUE])
               ELSE [r EXCEPT !.access = "scan", !.pos = first, !.at = "stream"]

ChooseIndex ==
    /\ Reading("choose")
    /\ \E bias \in Biases : Access(EstimateRead, ReadWidth, bias) = "index"
    /\ r' = [r EXCEPT !.access = "index",
                      !.at = IF ~Forward /\ r.upto >= r.snap.base THEN "latch" ELSE "sealed"]

\* One sealed segment's matches in (after, upto], by its index or a scan.
SealedRun(k) ==
    LET seg == r.snap.sealed[k]
    IN IF Pruned(seg) THEN {}
       ELSE IF seg.indexed
       THEN {p \in Search(IndexSegment(tails[k]), tails[k], r.query) :
               p > r.after /\ p <= r.upto}
       ELSE ScanMatches(r.query, FirstAfter(r.after, seg.base), SealedLast(seg))

PlanSealed ==
    /\ Reading("sealed") /\ Forward
    /\ LET runs == [k \in DOMAIN r.snap.sealed |-> Ordered(SealedRun(k))]
           out  == Capped(FlattenSeq(runs))
       IN r' = [r EXCEPT !.out = out,
                         !.at = IF Full(out) \/ r.upto < r.snap.base THEN "stream"
                                ELSE "latch"]

SealedRunBack(k) ==
    LET seg == r.snap.sealed[k]
    IN IF seg.count = 0 \/ seg.base > r.upto THEN {}
       ELSE IF seg.indexed
       THEN {p \in Search(IndexSegment(tails[k]), tails[k], r.query) : p <= SealedLast(seg)}
       ELSE ScanMatches(r.query, seg.base, SealedLast(seg))

PlanSealedBack ==
    /\ Reading("sealed") /\ ~Forward
    /\ LET runs == Reverse([k \in DOMAIN r.snap.sealed |-> Ordered(SealedRunBack(k))])
       IN r' = [r EXCEPT !.out = Capped(@ \o FlattenSeq(runs)), !.at = "stream"]

\* What the active segment's arm found goes in; going backward, more may follow.
TailPlanned(found) ==
    LET out == Capped(r.out \o Ordered(found))
    IN r' = [r EXCEPT !.out = out, !.at = IF Forward \/ Full(out) THEN "stream" ELSE "sealed"]

\* The active segment. The latch is read live off the shared tail; then a view clones the
\* backbones and bounds the locals; then search probes the interners and posting lists one by one
\* while the writer keeps pushing.
ScanLatched ==
    /\ Reading("latch") /\ ReaderTail.unindexable
    /\ TailPlanned(ScanMatches(r.query, FirstAfter(r.after, r.snap.base), r.upto))

TrustTail ==
    /\ Reading("latch") /\ ~ReaderTail.unindexable
    /\ r' = [r EXCEPT !.at = "view"]

ViewTail ==
    /\ Reading("view")
    /\ r' = [r EXCEPT !.index = [IndexSegment(EmptyTail(ReaderTail.base)) EXCEPT !.len = VisibleLen],
                      !.terms = Covered(Len(ReaderTail.terms)),
                      !.types = UNION {item.types : item \in r.query.items},
                      !.tags = UNION {item.tags : item \in r.query.items},
                      !.at = "probe"]

ProbeType ==
    /\ Reading("probe") /\ r.types # {}
    /\ LET t == CHOOSE t \in r.types : TRUE
       IN r' = [r EXCEPT !.types = @ \ {t}, !.index.ids[t] = IndexSegment(ReaderTail).ids[t]]

ProbeTag ==
    /\ Reading("probe") /\ r.types = {} /\ r.tags # {}
    /\ LET t == CHOOSE t \in r.tags : TRUE
           known == Interned(t, ReaderTail.terms) /\ IdOf(t, ReaderTail.terms) < r.terms
       IN r' = [r EXCEPT !.tags = @ \ {t},
                         !.index.posts[t] = IF known
                                            THEN {l \in ReaderTail.postings[t] : l < r.index.len}
                                            ELSE {}]

EvaluateTail ==
    /\ Reading("probe") /\ r.types = {} /\ r.tags = {}
    /\ TailPlanned({p \in Search(r.index, ReaderTail, r.query) : p > r.after /\ p <= r.upto})

\* Reads::next, called until it returns None or an error, when the Reads is dropped. The budget is
\* spent on the attempt.
Spent == IF r.left = NoLimit THEN NoLimit ELSE r.left - 1

Yield(p) == [r EXCEPT !.left = Spent, !.page = Append(@, p), !.joined = Append(@, p)]

NextCapped ==
    /\ Reading("stream") /\ r.left = 0
    /\ r' = Ended([r EXCEPT !.hitLimit = TRUE])

NextDone ==
    /\ Reading("stream") /\ r.left # 0 /\ r.access = "done"
    /\ r' = Ended(r)

\* The forward scan rolls over the snapshot's segments and stops where they end.
NextScanned ==
    /\ Reading("stream") /\ r.left # 0 /\ r.access = "scan" /\ Forward
    /\ LET hits == {p \in ScanMatches(r.query, r.pos, r.upto) : \A x \in r.pos..p : Held(x)}
       IN r' = IF hits = {} THEN Ended(r)
               ELSE [Yield(Min(hits)) EXCEPT !.pos = Min(hits) + 1]

\* The backward scan locates each record; one it cannot find is an error.
NextScannedBack ==
    /\ Reading("stream") /\ r.left # 0 /\ r.access = "scan" /\ ~Forward
    /\ LET first == r.after + 1
           hits == {p \in ScanMatches(r.query, first, r.pos) : \A x \in p..r.pos : Held(x)}
       IN r' = IF hits = {}
               THEN Ended([r EXCEPT !.err = \E x \in first..r.pos : ~Held(x)])
               ELSE [Yield(Max(hits)) EXCEPT !.pos = Max(hits) - 1]

NextIndexed ==
    /\ Reading("stream") /\ r.left # 0 /\ r.access = "index"
    /\ r' = IF r.out = <<>> THEN Ended(r)
            ELSE IF Held(Head(r.out)) THEN [Yield(Head(r.out)) EXCEPT !.out = Tail(@)]
            ELSE Ended([r EXCEPT !.err = TRUE])
-----------------------------------------------------------------------------
\* load_valid, or build_and_seal when there is no whole .idx file.
OpenSealed(k, kept) ==
    [base |-> bases[k], count |-> Len(SegmentEvents(k)),
     indexed |-> k \in kept \/ ~RebuildRange(k).unindexable]

\* A crash anywhere, then IndexSet::open over the surviving log: a sealed segment's .idx is loaded
\* if a whole one was left, and rebuilt if not; the active tail is always rebuilt. Readers do not
\* survive.
Reopen ==
    /\ reopens < MaxReopens
    /\ \E kept \in SUBSET {k \in DOMAIN sealed : sealed[k].indexed} :
         /\ tails' = [k \in DOMAIN bases |-> IF k \in kept THEN tails[k]
                                             ELSE RebuildRange(k).index]
         /\ sealed' = [k \in 1..(Len(bases) - 1) |-> OpenSealed(k, kept)]
    /\ span' = Len(SegmentEvents(Len(bases)))
    /\ latched' = RebuildRange(Len(bases)).unindexable
    /\ watermark' = Len(log)
    /\ snap' = Capture(bases, sealed', Len(bases))
    /\ pc' = "idle" /\ rolled' = FALSE /\ feeding' = 0 /\ untagged' = {}
    /\ r' = IdleRead
    /\ reopens' = reopens + 1
    /\ UNCHANGED logVars

Init ==
    /\ log = <<>> /\ bases = <<1>>
    /\ tails = <<EmptyTail(1)>> /\ sealed = <<>> /\ span = 0 /\ latched = FALSE
    /\ pc = "idle" /\ rolled = FALSE /\ feeding = 0 /\ untagged = {}
    /\ watermark = 0 /\ snap = Capture(bases, sealed, 1)
    /\ r = IdleRead
    /\ reopens = 0

Writer ==
    \/ Rollover \/ CommitBatch \/ SealActive
    \/ PushSkipped \/ PushRejected \/ PushType \/ PushTag \/ PushLocal
    \/ PublishSegments \/ PublishWatermark

Reader ==
    \/ StartRead \/ NextPage \/ LoadSnapshot \/ ChooseScan \/ ChooseIndex
    \/ PlanSealed \/ PlanSealedBack \/ ScanLatched \/ TrustTail \/ ViewTail
    \/ ProbeType \/ ProbeTag \/ EvaluateTail
    \/ NextCapped \/ NextDone \/ NextScanned \/ NextScannedBack \/ NextIndexed

Next == Writer \/ Reader \/ Reopen

Spec == Init /\ [][Next]_vars
-----------------------------------------------------------------------------
TypeOK ==
    /\ log \in BoundedSeq(Appendable, MaxLog)
    /\ bases[1] = 1 /\ \A k \in DOMAIN bases \ {1} : bases[k] \in (bases[k - 1] + 1)..(MaxLog + 1)
    /\ \A k \in DOMAIN tails : /\ ToSet(tails[k].types) \subseteq EventType
                               /\ ToSet(tails[k].terms) \subseteq Tag
                               /\ tails[k].postings \in [Tag -> SUBSET (0..(MaxLog - 1))]
    /\ span \in 0..MaxLog /\ latched \in BOOLEAN /\ rolled \in BOOLEAN
    /\ pc \in {"idle", "rolled", "seal", "push", "tags", "segments", "watermark"}
    /\ feeding \in 0..MaxLog /\ untagged \subseteq Tag
    /\ watermark \in 0..Len(log)
    /\ snap.tail \in DOMAIN tails
    /\ r.at \in {"idle", "load", "choose", "sealed", "latch", "view", "probe", "stream", "end"}
    /\ ToSet(r.joined) \subseteq 1..MaxLog /\ r.left \in 0..MaxLog \cup {NoLimit}

\* The tails the unindexable latch of IndexSet::open did not reach.
LatchLost == \E k \in DOMAIN tails : tails[k].reopened

\* What the read should have yielded had it looked at every event.
Wanted == Ordered(ScanMatches(r.query, r.after + 1, r.upto))

PageIsExact ==
    /\ ~r.err
    /\ r.page = Capped(Wanted)
    /\ ~r.hitLimit => r.page = Wanted

\* A read that ended yielded exactly the matching events of its pinned range, in order, up to its
\* limit, with no NotFound; and is_exhausted is only TRUE when nothing was left. This is what
\* search.rs and plan.rs promise of both access paths ("both execution modes return the identical
\* positions the scan oracle does"), whatever the writer pushes, latches, seals and publishes
\* meanwhile. (Tails that a restart left unmarked are ReadsAreNeverShort's subject.)
ReadExact == r.at = "end" /\ ~LatchLost => PageIsExact

\* The same with no exception: tail.rs says of a latched tail "Readers then scan the log for the
\* active range instead of trusting the short columns".
ReadsAreNeverShort == r.at = "end" => PageIsExact

\* Pages join with no gap and no duplicate at the seam (ReadHandle::read and read_back):
\* everything the pages yielded is every match between the first page's cursor and the last
\* position yielded, although each page pinned its own watermark and snapshot and chose its own
\* access path.
PagesJoin ==
    r.at = "end" /\ ~LatchLost /\ r.joined # <<>> =>
        LET last == Last(r.joined)
        IN r.joined = Ordered(IF Forward THEN ScanMatches(r.query, r.start + 1, last)
                              ELSE ScanMatches(r.query, last, r.top))

\* estimate_read "never underestimates": when the planner is about to choose, the estimate is at
\* least the number of matches in the range, however far the writer has got with the events past
\* the watermark.
EstimateCovers ==
    r.at = "choose" /\ ~LatchLost =>
        EstimateRead >= Cardinality(ScanMatches(r.query, r.after + 1, r.upto))

\* Between batches find_match returns the lowest matching position after `after', or none, exactly
\* as the scan oracle: through sealed, rebuilt, unindexable and reopened segments. ConditionSound
\* of WriteCoordinator rests on it.
FindMatchExact ==
    pc = "idle" => \A query \in Queries, after \in 0..Len(log) :
        FindMatch(query, after) = Lowest(ScanMatches(query, after + 1, Len(log)))
=============================================================================

-------------------------- MODULE WriteCoordinator --------------------------
(***************************************************************************)
(* Layer 2, the write coordinator (tephra/src/writer): many callers hand   *)
(* append requests to one writer thread over a bounded queue.  The thread  *)
(* drains a batch, evaluates each request's append condition against the   *)
(* durable log and against what is already staged, group-commits the       *)
(* accepted ones under one fsync, feeds the index, publishes to readers    *)
(* and only then replies.                                                  *)
(*                                                                         *)
(* The log (SegmentSet) is a sequence of records cut into segments; the    *)
(* index (IndexSet) is known by what it covers.  A commit that fails       *)
(* leaves the log as it was, but its bytes stay behind the log's end, with *)
(* their marker when it was the fsync that failed: a crash before they are *)
(* written over can bring that batch back.  Two things end what this       *)
(* module describes (pc = "astray"), and SegmentLog takes over: a crash    *)
(* that mixes the remains of one batch with another, and a commit through  *)
(* a writer whose rewind left the cursor where it was.                     *)
(***************************************************************************)
EXTENDS Dcb

CONSTANTS
    Req,             \* request tokens, each used for one append call
    Request,         \* the requests callers may submit
    Shutdown,        \* the Message::Shutdown sentinel
    QueueCapacity,   \* WriterConfig::queue_capacity
    MaxBatchRecords, \* WriterConfig::max_batch_records
    MaxBatchBytes,   \* WriterConfig::max_batch_bytes
    MarkerBytes,     \* BATCH_OVERHEAD, the commit marker's framed size
    MaxRecordLen,    \* SegmentConfig::max_record_len
    SegmentCapacity, \* segment_size - header_size
    TipsWindow,      \* WriterConfig::tips_window
    MaxEntries,      \* TagTips::max_entries
    MaxTypes,        \* distinct types an index segment can hold
    VerifyTips,      \* WriterConfig::verify_tips
    ForceScan,       \* WriterConfig::condition_force_scan
    MaxFaults,       \* bound on failed rollovers and commits
    MaxCrashes       \* bound on crashes of the process

\* A request: its events, what measure() finds of them (total framed bytes, largest framed event),
\* the boundary clause (`match', `after') and the existence clause.
RequestType ==
    [events : Seq(Event), size : Nat, largest : Nat,
     match : Query, after : Nat, exists : Query]

ASSUME ConstantsAssumption ==
    /\ Request \subseteq RequestType
    /\ Shutdown \notin Req
    /\ QueueCapacity \in Nat \ {0}
    /\ MaxBatchRecords \in Nat \ {0}
    /\ SegmentCapacity \in Nat
    /\ MaxBatchBytes \in 0..SegmentCapacity
    /\ MarkerBytes \in Nat
    /\ MaxRecordLen \in Nat
    /\ TipsWindow \in Nat
    /\ MaxEntries \in Nat
    /\ MaxTypes \in Nat
    /\ VerifyTips \in BOOLEAN
    /\ ForceScan \in BOOLEAN
    /\ MaxFaults \in Nat
    /\ MaxCrashes \in Nat

VARIABLES
    \* callers
    arg,          \* the request behind each token, once submitted
    reply,        \* what the caller was answered
    \* the channel and the drain
    queue,        \* the bounded channel
    pushback,     \* Worker.pushback, a sequence of at most one token
    drained,      \* the requests of this drain still to be evaluated
    bytes,        \* the drain's running byte budget
    shutdown,     \* Worker.shutdown
    pc,           \* where the writer thread is
    \* the batch
    staged,       \* the records accepted so far
    stagedBytes,  \* their framed size
    granted,      \* the staged requests with their ranges, still to be replied to
    outcome,      \* how the batch ended
    sealedBefore, \* sealed_len before append_batch
    \* the log
    log,          \* the committed records
    segs,         \* base positions of the segments; the last one is active
    used,         \* bytes used in the active segment
    remains,      \* what failed and torn commits left behind the log's end
    \* the index
    idxBases,     \* base positions of the index segments; the last one is the tail
    idxEnd,       \* the last position fed
    \* the tips
    tipMax,       \* TagTips::max_pos
    tipFloor,     \* TagTips::window_floor
    \* published to readers
    watermark,    \* ReadCore's watermark
    snap,         \* base positions of the published snapshot's segments
    \* bounds
    faults, crashes

callerVars == <<arg, reply>>
drainVars  == <<queue, pushback, drained, bytes, shutdown>>
batchVars  == <<staged, stagedBytes, granted, outcome, sealedBefore>>
logVars    == <<log, segs, used, remains>>
indexVars  == <<idxBases, idxEnd>>
tipVars    == <<tipMax, tipFloor>>
readVars   == <<watermark, snap>>
boundVars  == <<faults, crashes>>

vars == <<callerVars, drainVars, batchVars, logVars, indexVars, tipVars,
          readVars, boundVars, pc>>

NoRequest == [events |-> <<>>, size |-> 0, largest |-> 0,
              match |-> Nothing, after |-> 0, exists |-> Nothing]

Record == [event : Event, req : Req]

\* The last batch whose marker was written and whose fsync failed, as long as nothing has been
\* written over it; whether any bytes lie there at all; and whether the cursor has been left among
\* them.
Remains == [records : Seq(Record), bytes : Nat, torn : BOOLEAN, skewed : BOOLEAN]

Grant == [req : Req, first : Nat, last : Nat]

ErrorKinds == {"empty", "tooLarge", "log", "shutdown", "afterBeyondTip"}

\* What a caller sees: nothing yet, the assigned range, a conflict (`at' is the durable position,
\* 0 for ConflictSite::SameBatch), an error, or the process died before it answered.
Reply ==
    [kind : {"ok"}, first : Nat, last : Nat]
        \cup [kind : {"conflict"}, clause : {"boundary", "existence"}, at : Nat]
        \cup [kind : ErrorKinds \cup {"none", "lost"}]

None == [kind |-> "none"]
Err(kind) == [kind |-> kind]
Conflict(clause, at) == [kind |-> "conflict", clause |-> clause, at |-> at]
Ok(grant) == [kind |-> "ok", first |-> grant.first, last |-> grant.last]

InFlight(r) == arg[r] # NoRequest /\ reply[r] = None

NextPosition == Len(log) + 1

Nowhere == [records |-> <<>>, bytes |-> 0, torn |-> FALSE, skewed |-> FALSE]

Bytes(torn) == [Nowhere EXCEPT !.torn = torn]

NoTips == [tag \in {} |-> 0]

-----------------------------------------------------------------------------
\* Condition evaluation (writer/condition.rs, writer/tips.rs).

\* StagedTips: every tag of the records staged so far.
StagedTags == UNION {staged[i].event.tags : i \in DOMAIN staged}

\* StagedTips::may_conflict: tag-only, and FALSE while no tag is staged.
StagedMayConflict(query) ==
    /\ StagedTags # {}
    /\ query.all \/ \E item \in query.items : item.tags \subseteq StagedTags

\* Variant: an absent tag is taken for one never seen.
MaxForZero(tag) == IF tag \in DOMAIN tipMax THEN tipMax[tag] ELSE 0

MaxFor(tag) == IF tag \in DOMAIN tipMax THEN tipMax[tag] ELSE tipFloor

\* TagTips::may_match answers Unknown: some item cannot be ruled out.
TipsUnknown(query, after) ==
    query.all \/ \E item \in query.items : \A tag \in item.tags : MaxFor(tag) > after

\* The scan oracle and the index, as the set of matching positions after `after' each of them
\* sees.
ScanMatches(query, after) ==
    {p \in DOMAIN log : p > after /\ Matches(query, log[p].event)}

IndexMatches(query, after) ==
    {p \in ScanMatches(query, after) : p <= idxEnd}

\* The positions index segment i covers, and whether it holds more types than its dense type
\* column can address.
IndexRange(i) ==
    idxBases[i] .. (IF i = Len(idxBases) THEN idxEnd ELSE idxBases[i + 1] - 1)

Unindexable(i) ==
    Cardinality({log[p].event.type : p \in IndexRange(i) \cap DOMAIN log}) > MaxTypes

\* IndexSet::plan_touched errs: a segment reaching past `after' is unindexable.
TouchesUnindexable(after) ==
    \E i \in DOMAIN idxBases : (\E p \in IndexRange(i) : p > after) /\ Unindexable(i)

\* The fast path, without the verify cross-check: tips, then the index, with the scan as the
\* escape hatch and as the fallback.
FastMatches(query, after) ==
    IF ~ TipsUnknown(query, after) THEN {}
    ELSE IF ForceScan \/ TouchesUnindexable(after) THEN ScanMatches(query, after)
    ELSE IndexMatches(query, after)

DurableMatches(query, after) ==
    IF VerifyTips THEN ScanMatches(query, after) ELSE FastMatches(query, after)

\* The clause is settled by reading the log, which may fail.
ClauseScans(query, after) ==
    /\ ~ StagedMayConflict(query)
    /\ \/ VerifyTips
       \/ TipsUnknown(query, after) /\ (ForceScan \/ TouchesUnindexable(after))

\* evaluate_clause: the sites (0 for SameBatch) at which a clause conflicts; at most one, and none
\* when the clause passes.
ClauseConflicts(query, after) ==
    IF StagedMayConflict(query) THEN {0} ELSE Lowest(DurableMatches(query, after))

\* Variant: the same-batch arm is left out.
ClausePassesDurable(query, after) == DurableMatches(query, after) = {}

ClausePasses(query, after) ==
    ~ StagedMayConflict(query) /\ DurableMatches(query, after) = {}

-----------------------------------------------------------------------------
\* Callers (writer/handle.rs).

\* append / append_submit / their async twins: an empty append is refused by the handle, a full
\* queue blocks the caller, a disconnected one answers Shutdown.
Submit(r) ==
    /\ pc \notin {"down", "astray"}
    /\ arg[r] = NoRequest
    /\ reply[r] = None
    /\ \E q \in Request :
        \/ /\ q.events = <<>>
           /\ reply' = [reply EXCEPT ![r] = Err("empty")]
           /\ UNCHANGED <<arg, queue>>
        \/ /\ q.events # <<>>
           /\ pc = "exited"
           /\ arg' = [arg EXCEPT ![r] = q]
           /\ reply' = [reply EXCEPT ![r] = Err("shutdown")]
           /\ UNCHANGED queue
        \/ /\ q.events # <<>>
           /\ pc # "exited"
           /\ Len(queue) < QueueCapacity
           /\ arg' = [arg EXCEPT ![r] = q]
           /\ queue' = Append(queue, r)
           /\ UNCHANGED reply
    /\ UNCHANGED <<pushback, drained, bytes, shutdown, batchVars, logVars, indexVars,
                   tipVars, readVars, boundVars, pc>>

\* WriteCoordinator::shutdown and its Drop send the sentinel through the same queue, once.
SendShutdown ==
    /\ pc \notin {"down", "astray", "exited"}
    /\ ~ shutdown
    /\ \A i \in DOMAIN queue : queue[i] # Shutdown
    /\ Len(queue) < QueueCapacity
    /\ queue' = Append(queue, Shutdown)
    /\ UNCHANGED <<callerVars, pushback, drained, bytes, shutdown, batchVars, logVars,
                   indexVars, tipVars, readVars, boundVars, pc>>

-----------------------------------------------------------------------------
\* Worker::collect.

\* Worker::is_oversized: the request cannot share a batch.
Oversized(r) ==
    \/ MarkerBytes + arg[r].size > MaxBatchBytes
    \/ arg[r].largest > MaxRecordLen

Start(r) ==
    /\ drained' = <<r>>
    /\ bytes' = MarkerBytes + arg[r].size
    /\ staged' = <<>>
    /\ stagedBytes' = 0
    /\ granted' = <<>>
    /\ pc' = IF Oversized(r) THEN "eval" ELSE "drain"
    /\ UNCHANGED <<callerVars, shutdown, outcome, sealedBefore, logVars, indexVars,
                   tipVars, readVars, boundVars>>

\* The first request of a drain: the deferred one, else a blocking recv.
TakePushback ==
    /\ pc = "recv"
    /\ pushback # <<>>
    /\ pushback' = <<>>
    /\ UNCHANGED queue
    /\ Start(Head(pushback))

\* Variant: the channel is read before the deferred request.
ReceiveFirstAnyway ==
    /\ pc = "recv"
    /\ queue # <<>>
    /\ Head(queue) # Shutdown
    /\ queue' = Tail(queue)
    /\ UNCHANGED pushback
    /\ Start(Head(queue))

ReceiveFirst ==
    /\ pc = "recv"
    /\ pushback = <<>>
    /\ queue # <<>>
    /\ Head(queue) # Shutdown
    /\ queue' = Tail(queue)
    /\ UNCHANGED pushback
    /\ Start(Head(queue))

ReceiveShutdown ==
    /\ pc = "recv"
    /\ pushback = <<>>
    /\ queue # <<>>
    /\ Head(queue) = Shutdown
    /\ queue' = Tail(queue)
    /\ shutdown' = TRUE
    /\ pc' = "loop"
    /\ UNCHANGED <<callerVars, pushback, drained, bytes, batchVars, logVars, indexVars,
                   tipVars, readVars, boundVars>>

\* One try_recv of the drain loop: fold the request in, defer it to the next batch, or note the
\* shutdown and stop.
Overflows(r) == Oversized(r) \/ bytes + arg[r].size > MaxBatchBytes

\* Variant: a request that overflows the budget is not put back.
DrainOneLoses ==
    /\ pc = "drain"
    /\ Len(drained) < MaxBatchRecords
    /\ queue # <<>>
    /\ queue' = Tail(queue)
    /\ LET r == Head(queue) IN
        \/ /\ r # Shutdown
           /\ ~ Overflows(r)
           /\ drained' = Append(drained, r)
           /\ bytes' = bytes + arg[r].size
           /\ UNCHANGED <<shutdown, pc>>
        \/ /\ r # Shutdown
           /\ Overflows(r)
           /\ pc' = "eval"
           /\ UNCHANGED <<drained, bytes, shutdown>>
        \/ /\ r = Shutdown
           /\ shutdown' = TRUE
           /\ pc' = "eval"
           /\ UNCHANGED <<drained, bytes>>
    /\ UNCHANGED <<pushback, callerVars, batchVars, logVars, indexVars, tipVars, readVars,
                   boundVars>>

DrainOne ==
    /\ pc = "drain"
    /\ Len(drained) < MaxBatchRecords
    /\ queue # <<>>
    /\ queue' = Tail(queue)
    /\ LET r == Head(queue) IN
        \/ /\ r # Shutdown
           /\ ~ Overflows(r)
           /\ drained' = Append(drained, r)
           /\ bytes' = bytes + arg[r].size
           /\ UNCHANGED <<pushback, shutdown, pc>>
        \/ /\ r # Shutdown
           /\ Overflows(r)
           /\ pushback' = <<r>>
           /\ pc' = "eval"
           /\ UNCHANGED <<drained, bytes, shutdown>>
        \/ /\ r = Shutdown
           /\ shutdown' = TRUE
           /\ pc' = "eval"
           /\ UNCHANGED <<pushback, drained, bytes>>
    /\ UNCHANGED <<callerVars, batchVars, logVars, indexVars, tipVars, readVars, boundVars>>

DrainEnd ==
    /\ pc = "drain"
    /\ Len(drained) >= MaxBatchRecords \/ queue = <<>>
    /\ pc' = "eval"
    /\ UNCHANGED <<callerVars, drainVars, batchVars, logVars, indexVars, tipVars,
                   readVars, boundVars>>

-----------------------------------------------------------------------------
\* Worker::process, first half: one step per drained request.

Answer(r, answer) == reply' = [reply EXCEPT ![r] = answer]

RejectAfterBeyondTip(r) ==
    /\ arg[r].after > Len(log)
    /\ Answer(r, Err("afterBeyondTip"))
    /\ UNCHANGED <<staged, stagedBytes, granted>>

\* condition::evaluate: the boundary clause first, then the existence clause over the whole log.
RejectConflict(r) ==
    /\ arg[r].after <= Len(log)
    /\ \/ \E at \in ClauseConflicts(arg[r].match, arg[r].after) :
            Answer(r, Conflict("boundary", at))
       \/ /\ ClausePasses(arg[r].match, arg[r].after)
          /\ \E at \in ClauseConflicts(arg[r].exists, 0) :
                Answer(r, Conflict("existence", at))
    /\ UNCHANGED <<staged, stagedBytes, granted>>

\* The scan hits an I/O error: the request alone is refused.
RejectError(r) ==
    /\ arg[r].after <= Len(log)
    /\ faults < MaxFaults
    /\ \/ ClauseScans(arg[r].match, arg[r].after)
       \/ ClausePasses(arg[r].match, arg[r].after) /\ ClauseScans(arg[r].exists, 0)
    /\ faults' = faults + 1
    /\ Answer(r, Err("log"))
    /\ UNCHANGED <<staged, stagedBytes, granted>>

\* Batch::stage: the events take the next dense range.
RecordsOf(r) == [i \in 1..Len(arg[r].events) |-> [event |-> arg[r].events[i], req |-> r]]

Stage(r) ==
    /\ staged' = staged \o RecordsOf(r)
    /\ stagedBytes' = stagedBytes + arg[r].size
    /\ granted' = Append(granted,
                         [req |-> r,
                          first |-> Len(log) + Len(staged) + 1,
                          last |-> Len(log) + Len(staged) + Len(arg[r].events)])

Accept(r) ==
    /\ arg[r].after <= Len(log)
    /\ ClausePasses(arg[r].match, arg[r].after)
    /\ ClausePasses(arg[r].exists, 0)
    /\ Stage(r)
    /\ UNCHANGED reply

Evaluate ==
    /\ pc = "eval"
    /\ drained # <<>>
    /\ drained' = Tail(drained)
    /\ LET r == Head(drained) IN
        \/ (RejectAfterBeyondTip(r) \/ RejectConflict(r) \/ Accept(r)) /\ UNCHANGED faults
        \/ RejectError(r)
    /\ UNCHANGED <<arg, queue, pushback, bytes, shutdown, outcome, sealedBefore, logVars,
                   indexVars, tipVars, readVars, crashes, pc>>

\* Variant: the sealed count is one short, below zero at first.
EvaluateEndShort ==
    /\ pc = "eval"
    /\ drained = <<>>
    /\ pc' = IF staged = <<>> THEN "loop" ELSE "append"
    /\ sealedBefore' = Len(segs) - 2
    /\ UNCHANGED <<callerVars, drainVars, staged, stagedBytes, granted, outcome, logVars,
                   indexVars, tipVars, readVars, boundVars>>

EvaluateEnd ==
    /\ pc = "eval"
    /\ drained = <<>>
    /\ pc' = IF staged = <<>> THEN "loop" ELSE "append"
    /\ sealedBefore' = Len(segs) - 1
    /\ UNCHANGED <<callerVars, drainVars, staged, stagedBytes, granted, outcome, logVars,
                   indexVars, tipVars, readVars, boundVars>>

-----------------------------------------------------------------------------
\* SegmentSet::append_batch.

BatchBytes == stagedBytes + MarkerBytes

TooLarge ==
    \/ \E i \in DOMAIN granted : arg[granted[i].req].largest > MaxRecordLen
    \/ BatchBytes > SegmentCapacity

NeedsRollover == BatchBytes > SegmentCapacity - used

RejectTooLarge ==
    /\ pc = "append"
    /\ TooLarge
    /\ outcome' = "tooLarge"
    /\ pc' = "reply"
    /\ UNCHANGED <<callerVars, drainVars, staged, stagedBytes, granted, sealedBefore,
                   logVars, indexVars, tipVars, readVars, boundVars>>

FitsActive ==
    /\ pc = "append"
    /\ ~ TooLarge
    /\ ~ NeedsRollover
    /\ pc' = "commit"
    /\ UNCHANGED <<callerVars, drainVars, batchVars, logVars, indexVars, tipVars,
                   readVars, boundVars>>

\* SegmentSet::rollover: a fresh segment at next_position becomes active. What remains in the one
\* sealed before it cannot come back any more: an open that finds it refuses the directory, and
\* the process stays down.
Rollover ==
    /\ pc = "append"
    /\ ~ TooLarge
    /\ NeedsRollover
    /\ segs' = Append(segs, NextPosition)
    /\ used' = 0
    /\ remains' = Bytes(remains.torn)
    /\ pc' = "commit"
    /\ UNCHANGED <<callerVars, drainVars, batchVars, log, indexVars, tipVars, readVars,
                   boundVars>>

RolloverFails ==
    /\ pc = "append"
    /\ ~ TooLarge
    /\ NeedsRollover
    /\ faults < MaxFaults
    /\ faults' = faults + 1
    /\ outcome' = "log"
    /\ pc' = "reply"
    /\ UNCHANGED <<callerVars, drainVars, staged, stagedBytes, granted, sealedBefore,
                   logVars, indexVars, tipVars, readVars, crashes>>

\* Records and commit marker under one fsync.
Commit ==
    /\ pc = "commit"
    /\ ~ remains.skewed
    /\ log' = log \o staged
    /\ used' = used + BatchBytes
    /\ remains' = Bytes(remains.torn)
    /\ outcome' = "ok"
    /\ pc' = "feed"
    /\ UNCHANGED <<callerVars, drainVars, staged, stagedBytes, granted, sealedBefore,
                   segs, indexVars, tipVars, readVars, boundVars>>

\* The batch lands beside its place, synced and acknowledged: SegmentLog's subject from here on.
CommitMisplaced ==
    /\ pc = "commit"
    /\ remains.skewed
    /\ pc' = "astray"
    /\ UNCHANGED <<callerVars, drainVars, batchVars, logVars, indexVars, tipVars, readVars,
                   boundVars>>

\* Variant: the writer is not rewound.
CommitFailsKeeps ==
    /\ pc = "commit"
    /\ faults < MaxFaults
    /\ faults' = faults + 1
    /\ log' = log \o staged
    /\ used' = used + BatchBytes
    /\ outcome' = "log"
    /\ pc' = "reply"
    /\ UNCHANGED <<callerVars, drainVars, staged, stagedBytes, granted, sealedBefore, segs,
                   remains, indexVars, tipVars, readVars, crashes>>

\* A write or the fsync fails: the log is as it was, and the batch lies behind its end, whole when
\* it was the fsync, in part otherwise; then the remains of an earlier one may still be whole. The
\* rewind may leave the cursor where the failed write had moved it, or fail itself.
CommitFails ==
    /\ pc = "commit"
    /\ ~ remains.skewed
    /\ faults < MaxFaults
    /\ faults' = faults + 1
    /\ outcome' = "log"
    /\ \E skewed \in BOOLEAN :
        remains' \in {[records |-> staged, bytes |-> BatchBytes, torn |-> TRUE,
                       skewed |-> skewed],
                      [remains EXCEPT !.torn = TRUE, !.skewed = skewed],
                      [Bytes(TRUE) EXCEPT !.skewed = skewed]}
    /\ pc' = "reply"
    /\ UNCHANGED <<callerVars, drainVars, staged, stagedBytes, granted, sealedBefore,
                   log, segs, used, indexVars, tipVars, readVars, crashes>>

-----------------------------------------------------------------------------
\* Worker::process, second half: index, readers, tips, replies.

Rolled == Len(segs) - 1 > sealedBefore

\* IndexSet::seal_active on a rollover, then push of every record.
FeedIndex ==
    /\ pc = "feed"
    /\ idxBases' = IF Rolled THEN Append(idxBases, Len(log) - Len(staged) + 1) ELSE idxBases
    /\ idxEnd' = idxEnd + Len(staged)
    /\ pc' = "publish"
    /\ UNCHANGED <<callerVars, drainVars, batchVars, logVars, tipVars, readVars, boundVars>>

\* Variant: the snapshot is the one captured before append_batch.
PublishSegmentsBefore ==
    /\ pc = "publish"
    /\ snap' = IF Rolled THEN SubSeq(segs, 1, sealedBefore + 1) ELSE snap
    /\ pc' = "watermark"
    /\ UNCHANGED <<callerVars, drainVars, batchVars, logVars, indexVars, tipVars,
                   watermark, boundVars>>

\* publish_segments(Snapshot::capture), on a rollover only.
PublishSegments ==
    /\ pc = "publish"
    /\ snap' = IF Rolled THEN segs ELSE snap
    /\ pc' = "watermark"
    /\ UNCHANGED <<callerVars, drainVars, batchVars, logVars, indexVars, tipVars,
                   watermark, boundVars>>

\* The staged tags, each with the highest staged position carrying it.
StagedTip(tag) ==
    {p \in (Len(log) - Len(staged) + 1)..Len(log) :
        /\ tag \in log[p].event.tags
        /\ \A x \in p + 1 .. Len(log) : tag \notin log[x].event.tags}

StagedTips ==
    {m \in [StagedTags -> DOMAIN log] : \A tag \in StagedTags : m[tag] \in StagedTip(tag)}

\* TagTips::absorb: keep the higher position per tag.
Merge(m) ==
    [tag \in DOMAIN tipMax \cup DOMAIN m |->
        IF tag \in DOMAIN m /\ (tag \in DOMAIN tipMax => tipMax[tag] < m[tag])
        THEN m[tag] ELSE tipMax[tag]]

\* TagTips::evict_if_needed: past the cap, raise the floor to next_position - window (saturating,
\* never lowering it) and drop the entries at or below it.
RaisedFloor ==
    LET target == IF NextPosition > TipsWindow THEN NextPosition - TipsWindow ELSE 0
    IN  IF target > tipFloor THEN target ELSE tipFloor

Retain(m, floor) == [tag \in {t \in DOMAIN m : m[t] > floor} |-> m[tag]]

AbsorbTips ==
    \E m \in StagedTips :
        LET merged == Merge(m) IN
        IF Cardinality(DOMAIN merged) > MaxEntries
        THEN /\ tipFloor' = RaisedFloor
             /\ tipMax' = Retain(merged, RaisedFloor)
        ELSE /\ tipMax' = merged
             /\ UNCHANGED tipFloor

\* Variant: the tip read before append_batch is published.
PublishWatermarkBefore ==
    /\ pc = "watermark"
    /\ watermark' = Len(log) - Len(staged)
    /\ AbsorbTips
    /\ pc' = "reply"
    /\ UNCHANGED <<callerVars, drainVars, batchVars, logVars, indexVars, snap, boundVars>>

\* publish_watermark and wake, then Batch::commit_ok's absorb; the worker is the only one to see
\* the tips, so they are one step.
PublishWatermark ==
    /\ pc = "watermark"
    /\ watermark' = Len(log)
    /\ AbsorbTips
    /\ pc' = "reply"
    /\ UNCHANGED <<callerVars, drainVars, batchVars, logVars, indexVars, snap, boundVars>>

\* commit_ok / commit_err: one reply per staged request, in order.
ReplyOne ==
    /\ pc = "reply"
    /\ granted # <<>>
    /\ granted' = Tail(granted)
    /\ LET g == Head(granted) IN
        Answer(g.req, IF outcome = "ok" THEN Ok(g) ELSE Err(outcome))
    /\ UNCHANGED <<arg, drainVars, staged, stagedBytes, outcome, sealedBefore, logVars,
                   indexVars, tipVars, readVars, boundVars, pc>>

ReplyEnd ==
    /\ pc = "reply"
    /\ granted = <<>>
    /\ staged' = <<>>
    /\ stagedBytes' = 0
    /\ pc' = "loop"
    /\ UNCHANGED <<callerVars, drainVars, granted, outcome, sealedBefore, logVars,
                   indexVars, tipVars, readVars, boundVars>>

\* Worker::run: go round, or exit. Exiting drops the receiver: the reply senders of the requests
\* still queued go with it, which their callers see as Shutdown.
GoRound ==
    /\ pc = "loop"
    /\ ~ shutdown
    /\ pc' = "recv"
    /\ UNCHANGED <<callerVars, drainVars, batchVars, logVars, indexVars, tipVars,
                   readVars, boundVars>>

Exit ==
    /\ pc = "loop"
    /\ shutdown
    /\ pc' = "exited"
    /\ queue' = <<>>
    /\ reply' = [r \in Req |-> IF \E i \in DOMAIN queue : queue[i] = r
                               THEN Err("shutdown") ELSE reply[r]]
    /\ UNCHANGED <<arg, pushback, drained, bytes, shutdown, batchVars, logVars, indexVars,
                   tipVars, readVars, boundVars>>

-----------------------------------------------------------------------------
\* A crash of the process and the next start.

\* Everything in memory is gone. The log keeps what was committed, and may gain the batch whose
\* commit had begun, or the one whose fsync had failed. Where other bytes lay, part of one batch
\* may be taken for part of another.
Crash ==
    /\ pc \notin {"down", "astray"}
    /\ crashes < MaxCrashes
    /\ crashes' = crashes + 1
    /\ \/ UNCHANGED <<log, used>>
       \/ /\ pc = "commit"
          /\ log' = log \o staged
          /\ used' = used + BatchBytes
       \/ /\ remains.records # <<>>
          /\ log' = log \o remains.records
          /\ used' = used + remains.bytes
    /\ remains' = Bytes(remains.torn \/ pc = "commit")
    /\ \/ pc' = "down"
       \/ remains.torn /\ pc' = "astray"
    /\ reply' = [r \in Req |-> IF InFlight(r) THEN Err("lost") ELSE reply[r]]
    /\ queue' = <<>>
    /\ pushback' = <<>>
    /\ drained' = <<>>
    /\ bytes' = 0
    /\ shutdown' = FALSE
    /\ staged' = <<>>
    /\ stagedBytes' = 0
    /\ granted' = <<>>
    /\ UNCHANGED <<arg, outcome, sealedBefore, segs, indexVars, tipVars, readVars, faults>>

\* WriteCoordinator::start over a reopened SegmentSet: IndexSet::open rebuilds what is missing,
\* ReadCore::new captures and publishes all of it, and the tips start cold.
Restart ==
    /\ pc = "down"
    /\ idxBases' = segs
    /\ idxEnd' = Len(log)
    /\ tipMax' = NoTips
    /\ tipFloor' = NextPosition
    /\ watermark' = Len(log)
    /\ snap' = segs
    /\ pc' = "recv"
    /\ UNCHANGED <<callerVars, drainVars, batchVars, logVars, boundVars>>

-----------------------------------------------------------------------------
Init ==
    /\ arg = [r \in Req |-> NoRequest]
    /\ reply = [r \in Req |-> None]
    /\ queue = <<>>
    /\ pushback = <<>>
    /\ drained = <<>>
    /\ bytes = 0
    /\ shutdown = FALSE
    /\ pc = "recv"
    /\ staged = <<>>
    /\ stagedBytes = 0
    /\ granted = <<>>
    /\ outcome = "ok"
    /\ sealedBefore = 0
    /\ log = <<>>
    /\ segs = <<1>>
    /\ used = 0
    /\ remains = Nowhere
    /\ idxBases = <<1>>
    /\ idxEnd = 0
    /\ tipMax = NoTips
    /\ tipFloor = 1
    /\ watermark = 0
    /\ snap = <<1>>
    /\ faults = 0
    /\ crashes = 0

Worker ==
    \/ TakePushback \/ ReceiveFirst \/ ReceiveShutdown \/ DrainOne \/ DrainEnd
    \/ Evaluate \/ EvaluateEnd
    \/ RejectTooLarge \/ FitsActive \/ Rollover \/ RolloverFails
    \/ Commit \/ CommitMisplaced \/ CommitFails
    \/ FeedIndex \/ PublishSegments \/ PublishWatermark \/ ReplyOne \/ ReplyEnd
    \/ GoRound \/ Exit

Next ==
    \/ \E r \in Req : Submit(r)
    \/ SendShutdown
    \/ Worker
    \/ Crash
    \/ Restart

Spec == Init /\ [][Next]_vars

\* The writer thread keeps running; nothing is assumed of callers, faults, shutdown or the next
\* start.
FairSpec == Spec /\ WF_vars(Worker)
-----------------------------------------------------------------------------
\* Properties.

Phases == {"recv", "drain", "eval", "append", "commit", "feed", "publish", "watermark",
           "reply", "loop", "exited", "down", "astray"}

CallersOK ==
    /\ arg \in [Req -> RequestType]
    /\ reply \in [Req -> Reply]

DrainOK ==
    /\ queue \in Seq(Req \cup {Shutdown})
    /\ pushback \in Seq(Req)
    /\ drained \in Seq(Req)
    /\ bytes \in Nat

ControlOK ==
    /\ shutdown \in BOOLEAN
    /\ pc \in Phases

BatchOK ==
    /\ staged \in Seq(Record)
    /\ stagedBytes \in Nat
    /\ granted \in Seq(Grant)
    /\ outcome \in {"ok", "tooLarge", "log"}
    /\ sealedBefore \in Nat

LogOK ==
    /\ log \in Seq(Record)
    /\ segs \in Seq(Nat) /\ segs # <<>>
    /\ used \in Nat
    /\ remains \in Remains

IndexOK ==
    /\ idxBases \in Seq(Nat)
    /\ idxEnd \in Nat

TipsOK ==
    /\ DOMAIN tipMax \subseteq Tag /\ tipMax \in [DOMAIN tipMax -> Nat]
    /\ tipFloor \in Nat

ReadOK ==
    /\ watermark \in Nat
    /\ snap \in Seq(Nat)

BoundsOK ==
    /\ faults \in Nat
    /\ crashes \in Nat

\* Every variable holds what the Rust type behind it can hold: positions are never negative,
\* queues hold only requests and the sentinel, the set always has an active segment.
TypeOK ==
    /\ CallersOK /\ DrainOK /\ ControlOK /\ BatchOK /\ LogOK
    /\ IndexOK /\ TipsOK /\ ReadOK /\ BoundsOK

\* Whether an earlier event at position p makes request q fail.
Forbids(q, event, p) ==
    \/ p > q.after /\ Matches(q.match, event)
    \/ Matches(q.exists, event)

\* The append condition under group commit: no record on the log was preceded by another request's
\* event that its own request's condition forbids, whether that event was durable or staged in the
\* same drain (condition.rs: "neither arm may ever produce a false negative").
ConditionSound ==
    \A p, q \in DOMAIN log :
        q < p /\ log[q].req # log[p].req => ~ Forbids(arg[log[p].req], log[q].event, q)

Committed(r) == {p \in DOMAIN log : log[p].req = r}

\* The records of a request, wherever they came from (a commit or a recovery), are all of its
\* events, in order, in one dense range, once.
RequestsAreWhole ==
    \A r \in Req : Committed(r) # {} =>
        \E f \in DOMAIN log :
            /\ Committed(r) = f .. f + Len(arg[r].events) - 1
            /\ \A p \in Committed(r) : log[p].event = arg[r].events[p - f + 1]

\* An answer tells the truth for ever, crashes included: an acknowledged range holds the request's
\* records, a refused request has none unless it was refused for an I/O error, and a durable
\* conflict names the earliest event that forbids the append.
AnswersAreTrue ==
    \A r \in Req :
        /\ reply[r].kind = "ok" => Committed(r) = reply[r].first .. reply[r].last
        /\ reply[r].kind \in (ErrorKinds \ {"log"}) \cup {"conflict"} => Committed(r) = {}
        /\ reply[r].kind = "conflict" /\ reply[r].at > 0 =>
            LET query == IF reply[r].clause = "boundary" THEN arg[r].match ELSE arg[r].exists
                after == IF reply[r].clause = "boundary" THEN arg[r].after ELSE 0
            IN  reply[r].at \in Lowest(ScanMatches(query, after))

\* While requests are evaluated, tips and index together answer every clause in flight exactly as
\* the scan oracle would: verify's assertion never fires.
FastPathExact ==
    pc = "eval" =>
        \A i \in DOMAIN drained :
            LET q == arg[drained[i]] IN
            /\ FastMatches(q.match, q.after) = ScanMatches(q.match, q.after)
            /\ FastMatches(q.exists, 0) = ScanMatches(q.exists, 0)

\* The size limits of append_batch trip only on a batch of one request (classify's comment), so no
\* caller is refused for another's size.
TooLargeIsSolo == pc = "append" /\ TooLarge => Len(granted) = 1

\* Segment i is in the published snapshot.
Published(i) == i \in DOMAIN snap /\ snap[i] = segs[i]

\* A segment up to the i-th began without the index being sealed for it: its append failed after
\* the rollover, and the next one finds sealed_len as that one left it.
SealLost(i) == \E k \in 1..i : k \notin DOMAIN idxBases \/ idxBases[k] # segs[k]

\* A caller that was acknowledged reads its own write: the watermark has passed it, the index
\* holds it, and so does the published snapshot, unless the seal of its segment or of an earlier
\* one was lost.
ReadYourWrites ==
    pc \notin {"down", "astray"} =>
        \A r \in Req : reply[r].kind = "ok" =>
            /\ reply[r].last <= watermark /\ reply[r].last <= idxEnd
            /\ \A i \in DOMAIN segs : segs[i] <= reply[r].last => Published(i) \/ SealLost(i)

\* The published snapshot has every segment that holds a position up to the published watermark
\* (read/mod.rs, ordering note). A lost seal breaks this, and what handle.rs says of reading one's
\* own write: the next batch publishes a watermark without the new segment.
SnapshotCovers == \A i \in DOMAIN segs : segs[i] <= watermark => Published(i)

\* Without a failed append, whatever rolls over, crashes or is refused, "the loaded snapshot
\* always covers the loaded watermark" (read/mod.rs).
SnapshotCoversWatermark == faults = 0 => SnapshotCovers

\* The requests on their way, in the order the store will answer them.
Line ==
    LET ofRecords(s) == [i \in DOMAIN s |-> s[i].req]
        uncommitted == IF pc \in {"eval", "append", "commit"} THEN staged ELSE <<>>
    IN  ofRecords(log) \o ofRecords(uncommitted) \o drained \o pushback \o queue

Ahead(r, s) == \E i, j \in DOMAIN Line : i < j /\ Line[i] = r /\ Line[j] = s

\* No request overtakes one that was queued before it, deferred requests (pushback) included.
NoOvertaking == [][\A r, s \in Req : r # s /\ Ahead(r, s) => ~ Ahead(s, r)']_vars

\* Every request a handle accepted is answered, or its process crashed, or its writer writes
\* beside the place it believes.
EveryRequestAnswered == \A r \in Req : InFlight(r) ~> (~ InFlight(r) \/ pc = "astray")

-----------------------------------------------------------------------------
\* The coordinator implements the store its callers are promised. The store's log is the committed
\* one: what is queued, staged or written and not yet synced is no part of it, and a crash may add
\* to it what it found whole behind its end.
Store == INSTANCE DcbStore WITH
    Req <- Req, Request <- Request, NoRequest <- NoRequest, None <- None,
    arg <- arg, reply <- reply, log <- log

RefinesStore == Store!Spec
=============================================================================

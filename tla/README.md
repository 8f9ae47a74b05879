# TLA+ models of the Tephra event store

Tephra is an append-only event store with *dynamic consistency boundaries* (DCB):
a caller appends events under a condition ("no event matching this query after
position p, and none matching that query at all"), and the store must never let
an append in whose condition does not hold. One writer thread group-commits the
requests of many callers; readers never block it.

This directory holds TLA+ models of the parts where the store's promises are
made or broken, TLC configurations that check them on small instances, and
TLAPS proofs of the most important ones for every instance. Run
`tlc -config <run>.cfg <module>` for a check and `tlapm <module>.tla` for a proof;
`PROJECT.json` lists every run, the source lines behind each definition, the
hazards the properties are aimed at, and for each property a mutation of the
model that breaks it.

## 1. The system

| component | source (`src/crates/…`) | state it keeps | operations | model |
|---|---|---|---|---|
| Query vocabulary | `tephra-types/src/query.rs`, `tephra/src/query.rs` | none | match an event, build a condition | `Dcb` |
| Store contract | `tephra/src/lib.rs` | the log as callers see it | append, read, subscribe | `DcbStore` |
| Write coordinator | `tephra/src/writer/*` | queue, deferred request, batch, tag tips, published watermark | submit, drain, evaluate, commit, reply, shut down | `WriteCoordinator` |
| Segment log | `tephra/src/log/set.rs`, `seglog/src/{write,read}.rs` | segment files, cursor, next position, flushed offset, offset sidecar | append_batch, rollover, open, recover, scan | `SegmentLog`, `SegmentReads` |
| Read core | `tephra/src/read/{mod,subscribe}.rs` | snapshot, watermark, parked subscribers | publish, load, poll, wait, close | `ReadCore` |
| Index | `tephra/src/index/*` | posting lists per segment, a growing tail | extend, seal, search, recover | `IndexReads`; what it covers, in `WriteCoordinator` |
| Read planner | `tephra/src/read/mod.rs` (`Reads`) | an iterator over segments | plan, next, limit, backwards | `IndexReads`; its result, in `ReadCore` |
| Read pool | `tephra/src/read/pool.rs` | worker threads, bounded queue, result channels | submit, run, abort, shut down | `ReadPool` |
| Server connections | `tephra-server/src/conn.rs` | permits, cancels, two response lanes | handle, pipeline, flow control, close | `ServerConn`; `run_subscribe`, in `ReadCore` |
| Server life cycle | `tephra-server/src/{lib,main}.rs` | connection registry, slots, flags | accept, admit, serve, shut down | `ServerLife` |
| Wire protocol | `tephra-proto/src/{framing,tls}.rs` | a frame reader's partial buffer | read and write a frame, handshake | `Framing`, `ServerLife` |
| Client | `tephra-client/src/{lib,asynchronous}.rs` | pending calls by id, a stream's buffer | call, stream, cancel, drop | `BlockingClient`, `AsyncClient` |
| Server edges | `tephra-server/src/{settings,metrics,healthcheck,tls}.rs` | configuration, counters | start, scrape | metrics thread in `ServerLife`, else not modelled |
| Crash-test harness | `tephra-crashtest/src/*` | a test driver | - | not modelled |

**How they interact.** A caller's `WriteHandle::append` sends a request over a
bounded channel and blocks on a reply channel. The writer thread drains the
channel up to two budgets, evaluates conditions against the log (through tips and
index, or by scanning) and against what it has staged, calls
`SegmentSet::append_batch` (which may roll over to a new segment file and ends in
one fsync), feeds the index, publishes the segment snapshot if it rolled over,
publishes the watermark, wakes subscribers, and replies. Readers load watermark
and snapshot from atomics with no lock; subscribers park on a condition variable
or an async event. The read pool runs reads on worker threads for async callers. The
server drives the same handles for remote clients: per connection a reader thread that
dispatches, a pump that turns append replies into frames, read jobs on a shared pool, a
thread per subscription, and a writer thread that drains a control and a bulk lane onto the
socket. Clients either use a connection for one request at a time (blocking) or multiplex
calls over it by request id (async).

**What is hard.**

* *Group commit.* Conditions are evaluated against a log that does not yet hold the
  batch; the same-batch arm must see what the durable arm cannot.
* *A fast path that must equal a slow one.* Tag tips are a bounded cache of "newest
  position per tag"; after an eviction or a restart they must err on one side only.
* *Publication order.* Index, snapshot, watermark and reply are separate steps that
  readers run between.
* *Crash consistency.* fsync orders nothing within a flush: after a power loss any
  subset of unsynced pages may be there, and recovery must tell a batch that was
  committed from one that was not. A failed call leaves bytes behind, its marker among
  them if it was the fsync that failed, and the rewind after it may do nothing.
* *An index read while it is written.* Readers probe the tail's interners, posting lists
  and type column with no lock, bounded only by the watermark they pinned; the latch
  that takes a segment out of the index fires under them.
* *Wakeups.* The writer skips the notification when it counts no subscriber; blocking
  and async subscribers register in different ways, and a close races the last commit.
* *Reading files that are being written.* Scans fill read-ahead buffers past the flushed
  offset, with bytes of a batch that may yet fail and be replaced.
* *Bounded everything.* Job queue, result channels, permits, overflow slots and lanes are
  all bounded, and most waits have no timeout: who waits for whom decides whether a slow
  or dead peer stops the others, and whether teardown ends.
* *Ends that look alike.* A finished read, a failed one, a dropped pool and a cut connection
  all end in a closed channel or socket; the consumer must be able to tell.

## 2. The modules

### Dcb — vocabulary
Events, queries, the match predicate (`ItemMatches`, `Matches`). Positions are
1-based and dense, so position *p* is index *p* of a sequence; 0 is
`Position::ZERO`.

### DcbStore — what callers are promised
An abstract specification: a log that only grows, by groups of whole requests each
of whose conditions holds against everything before it; answers that agree with the
log; a crash after which a waiting caller knows nothing and the log stays. A request that
was answered with an I/O error may still take effect, at a crash only and where its condition
holds. It has no queue, batch, tips, index or segment. `WriteCoordinator!RefinesStore` says that the
coordinator implements it: `Store == INSTANCE DcbStore WITH arg <- arg, reply <- reply,
log <- log`, the specification `Store!Spec` as a property. A refusal that names an event must
name the earliest one that its clause forbids.

### WriteCoordinator — `tephra/src/writer`
One action per step of `Worker::run` and `Worker::process` that another actor can
observe between: `Submit`, `SendShutdown` (callers); `TakePushback`, `ReceiveFirst`,
`ReceiveShutdown`, `DrainOne`, `DrainEnd` (the drain and its deferral); `Evaluate`,
`EvaluateEnd` (one request's condition against `DurableMatches` and
`StagedConflict`); `RejectTooLarge`, `FitsActive`, `Rollover`, `RolloverFails`,
`Commit`, `CommitFails`, `CommitMisplaced` (`append_batch`); `FeedIndex`, `PublishSegments`,
`PublishWatermark`, `ReplyOne`, `ReplyEnd`, `GoRound`, `Exit`; `Crash`, `Restart`.
The tips are modelled exactly (window, floor, eviction at `MaxEntries`), the index by
the positions each of its segments covers and by the segments it had to give up as
unindexable. The channel is the flume crate's: a bounded queue whose remaining
messages are dropped, and their callers told `Shutdown`, when the receiver goes.

A crash keeps the committed log, plus possibly the whole batch whose commit was under way,
or one whose fsync had failed: its marker was written before (`write.rs:319`), the rewind
leaves it there, and as long as nothing is written over it (`remains`) recovery can bring it
back. Two things take the writer where this module does not follow, and it then stops in the
state `astray`: a crash that mixes the remains of one batch with another, and a commit after a
rewind that left the cursor where it was (`CommitMisplaced`). `SegmentLog` shows what storage
does then, and section 3 ("Where the code falls short") what it costs.

### SegmentLog — `log/set.rs` over `seglog`
A segment is an array of cells in the page cache and one on the disk; a frame of
length *n* fills *n* cells and validates when all of them are there in order.
`Begin`, `CreateFile`, `WriteHeader`, `WriteBatch`, `SyncBatch` are `append_batch`;
`CreateExists`, `CreateFails`, `HeaderFails`, `WriteFails`, `FirstWriteFails`,
`RewindFails`, `SyncFails` its error paths with the rewind they end in. `rewind_to` moves the
cursor back unless `write_offset` is where it is asked to go: that is the case when the very
first record's write failed, and a record longer than the writer's buffer has then left a part
of itself in the file or the buffer (`FirstWriteFails`). `drift` is by how much the next byte
lands behind `write_offset`, after this and after a rewind whose own flush failed. `Kill` ends
the process and leaves the page cache as it is, `PowerLoss` keeps any subset of the unsynced
cells; `OpenSet`, `OpenRefused`, `OpenFresh`, `FirstHeader` are `SegmentSet::open` with its
chain, gap and marker checks. `OpenSet` syncs nothing, as in the code, so what a kill left in
the page cache may be served without being on the disk (`Volatile`). `flaws` records what the
code cannot undo: a batch synced behind its offsets (`misplaced`), a rewind that failed
(`wedged`), records of the page cache sealed in without a sync (`unsynced`).

### ReadCore — `tephra/src/read`
The writer's publication steps and any number of subscriptions, each driven by
`Subscription::next_batch` ("blocking"), its async twin ("async") or the server's
`run_subscribe` ("server"). Every load, store, lock, park, notify and check is a step
of its own. SeqCst accesses interleave; an Acquire load of the watermark may return
any value the thread has not yet seen past. A poll is the planner's *result*: the
matching positions of the pinned range that the loaded snapshot holds. A batch that fails
after its rollover loses the seal (`LoseSeal`): its segment and what follows is never published,
reads that reach it fail (`PollFails`, with the cursor where it was), and a caller of
`next_batch` may go on polling. Dropping a
subscription is allowed at every poll, which is a superset of what callers do. The
server's loop, unlike `next_batch`, does not poll once more after a close; its
clients reconnect from their cursor, so `EndedIsDrained` leaves it out.

### IndexReads — `tephra/src/index` and the reads of `read/mod.rs`
The writer thread feeds every committed event into the tail of the active segment
(`PushType`, one `PushTag` per tag, `PushLocal`; `PushRejected` at the type limit and
`PushSkipped` after it), seals it on a rollover (`SealActive`) and publishes
(`PublishSegments`, `PublishWatermark`). A reader starts a read or asks for the next page
(`StartRead`, `NextPage`: forward from a cursor or backward below one), loads the snapshot
(`LoadSnapshot`), lets the planner choose (`ChooseScan`, `ChooseIndex`), collects positions
segment by segment (`PlanSealed`, `PlanSealedBack`) and from the shared tail (`ScanLatched`,
`TrustTail`, `ViewTail`, `ProbeType`, `ProbeTag`, `EvaluateTail`), and is drained
(`NextScanned`, `NextScannedBack`, `NextIndexed`, `NextCapped`, `NextDone`). `Reopen` is a
crash and `IndexSet::open`, which rebuilds the tail. `FindMatch` is the writer's own search.

Where steps were joined, nothing another thread does can be seen between them: a posting
list that is absent and one that is empty are the same to a reader, so interning a tag and
its first push are one step; lengths only grow, so each outcome the planner can reach by
reading them at different moments it can also reach at one moment. Posting lists are sets;
their encoding, the galloping merge and the decoding of events are left out; the scans
themselves are in `SegmentReads`. Every batch succeeds here; failures are `WriteCoordinator`'s subject.

### SegmentReads - `seglog/src/{read,parse}.rs` and the scans of `log/set.rs`
One writer (`Begin`, `WriteThrough`, `Sync`, `ExtendSidecar`, `PublishSegments`,
`PublishWatermark`, and the failures `AppendFails`, `FirstWriteFails`, `RewindFails` as in
`SegmentLog`) and one read at a time. Bytes reach the page cache one cell
at a time, so a reader's buffer can hold any prefix of a batch. A read pins the watermark and
the snapshot in two steps (or is `ReadLive`, the writer thread's own scan, which the writer
cannot interleave with) and is one of three kinds: forward (`ScanStart`, `ScanNext`,
`PeekLoad`, `PeekHead`, `ReadSequential`: the loop of `Scan::position_at_data` over a
`ReadAheadBuf`), backward (`BackStart`, `EnsureSegment`, `CountEvents`, `EnsureWindow`,
`EmitBack`: windows of bytes computed from the sidecar and clamped to the flushed offset), or
point reads of planned positions (`PointStart`, `PointRead`, `PointPayload`, `PointCheck`:
the optimistic read and the second one for a long record). The flushed offset is loaded
where the code loads it, the buffer is kept where the code keeps it. `lost` says that a
rollover's batch failed, `astray` that a batch was synced behind a drifted cursor or a rewind
failed: a segment then holds records its sidecar does not name.

### ReadPool - `tephra/src/read/pool.rs`
Streams submit lazily at their first poll (`PollSubmit`, waiting for room in the queue),
workers take jobs (`Receive`, `BeginRead`), fill batches (`ScanNext`, `ScanEnd`,
`ScanFails`), and send them with the shutdown poll of `send_item` (`SendCheck`, `SendOk`,
`SendTimeout`, `SendDisconnected`); a panic leads to the blocking `SendAborted`. `Signal`,
`DropSender`, `WorkerExit` and `Join` are `Drop`. A stream that is still submitting, one
nobody polls included, owns a clone of the job sender (`Submitting`), and workers leave `recv`
only when the last sender is gone. What a read yields is a range of positions.

### ServerConn - `tephra-server/src/conn.rs`
A client sends the frames of a script and reads what comes. The reader
thread handles hello, dispatches (`DispatchInline`, `DispatchAppend`, `DispatchRead`,
`DispatchSubscribe`, `DispatchCancel`), blocks for an append permit (`SubmitAppend`) or for
its own reply (`ReplySent`) and leaves through `Breaks` (end of stream, shutdown, or a
deadline in `Reaper`) to `Join`. Jobs acquire, send, end, fail or panic; the pump answers
appends; the writer thread's `WriteControl`, `WriteBulk`, `Flush`, `WriterIdle`, `WriterWakes`
follow `drive_writer`, lanes and flushes included. The coordinator is external here: it
answers every submitted append.

### ServerLife - `tephra-server/src/{lib,main,metrics}.rs`, `tephra-proto/src/tls.rs`
The accept loop (`Accept`, `Refuse`, `Admit`, `Register`, `Spawn` and the failures of each),
the connection threads from handshake to `ThreadEnds`, the signal handler's three steps
(`FirstSignal`, `WakeAccept`, `ShutdownAll`) and the second signal, the joins, `CloseWriter`,
and the metrics thread with one scrape at a time. An established connection is a phase, which
ends when its socket is shut and its reads are over (`ServeReturns`), or never: its reader may
be waiting for an append permit that no pump will release (`Wedges`, the state that
`ServerConn` calls `Wedged`). The connect that wakes the accept loop may fail, and the code
ignores that (`WakeAccept`).

### Framing, BlockingClient - `tephra-proto/src/framing.rs`, `tephra-client/src/lib.rs`
`Framing` has the operators: `Encode`, `Poll` of a reader with a chunk, `AtEof`. A byte knows
the frame and place it was written for, so a shifted stream decodes a length from whatever is
there. `BlockingClient` sends a request and takes frames with a fresh reader per
`read_frame`; the server keeps one reader. Streams are consumed, dropped (a read drains, a
subscription does not) or cancelled from another thread.

### AsyncClient - `tephra-client/src/asynchronous.rs`
Calls acquire a permit and register (`Register`), queue their request (`Enqueue`), wait or
consume (`Take`), and may be dropped at each await (`DropFuture`, `DropStream`). The writer
task batches writes and flushes, the reader task routes (`ReaderRoutes`) and at the end fails
what is registered, at the end of the stream (`ReaderEnds`) or at a frame it cannot take
(`ReaderBreaks`). When a task ends it drops its half of the stream (`Dropped`): on a plain
socket the write half shuts that direction, over TLS (`tls`) nothing happens until both halves
are gone. `late` marks calls that registered after the reader task ended, `lost` those whose
request went down with the writer task.

### Proof modules
`<Module>_proofs` extends `<Module>` with its inductive invariant and the theorems about it:
`WriteCoordinator_proofs`, `SegmentLog_proofs`, `SegmentReads_proofs`, `ReadCore_proofs`,
`IndexReads_proofs` and `ReadPool_proofs`. `Server_proofs` extends both `ServerConn` and
`ServerLife`, `Client_proofs` both `AsyncClient` and `BlockingClient`; the two modules of such a
pair have no name in common for that reason (`CallSpec`, `CallNext`, ... in `BlockingClient`).
Section 4 gives the theorems and the argument of each.

## 3. The runs

Bounds are named constants of the modules. Deadlock is not checked anywhere: each
system may stop legitimately (all requests answered, a closed store, a refused log, a
stopped server).

| run | what it checks | result |
|---|---|---|
| `write_conditions` | typing; no record follows one its condition forbids (`ConditionSound`); tips and index answer exactly as the scan (`FastPathExact`); an acknowledged append is below the watermark, in the index and in the snapshot, unless its seal was lost (`ReadYourWrites`); the coordinator implements the store contract (`RefinesStore`) | holds, 575 667 states |
| `write_segments` | the snapshot covers the watermark as long as no append failed; no overtaking; every accepted request is answered, or its process crashed, or its writer went astray (`EveryRequestAnswered`) | holds, 252 488 states |
| `write_tagless` | `ConditionSound` when events may have no tags | violated |
| `log_recovery` | acknowledged batches survive (`AckedSurvives`), what lies under the cursor is what the log serves and a power loss keeps what was acknowledged of it (`CursorIsRecoverable`), both unless one of the three flaws occurred; one crash without a failed call leaves whole batches and a log that opens | holds, 1 655 544 states |
| `log_reads` | scans, backward scans and point reads yield exactly the committed records (`YieldsCommitted`, until records go astray), all of them and without an error (`ReadsAreWhole`, unless a seal was lost, too); nothing below the flushed offset changes (`FlushedIsImmutable`, always) | holds, 1 153 696 states |
| `index_reads` | a page holds exactly the matches in its range below the pinned watermark, in order, up to the limit (`ReadExact`); the pages of a traversal join without gap or repetition across watermarks (`PagesJoin`); the writer's index search agrees with the log (`FindMatchExact`) | holds, 1 059 171 states |
| `read_delivery` | each matching event once and in order, up to the first lost seal; a close loses nothing; every published event reaches every live subscriber and every close ends it, unless its reads fail over a lost seal | holds, 455 977 states |
| `pool_reads` | a truncated result never looks complete (`CleanEndIsWhole`); reads somebody drains end, whatever other consumers do; dropping the pool returns unless a consumer holds it up in one of two named ways (`DropReturnsUnlessHeld`) | holds, 431 741 states |
| `conn_requests` | permits and cancels balance; frames of a request arrive in order and nothing after its terminator; control frames do not starve bulk ones; requests are answered; a dead connection is torn down or stands at the one known wedge | holds, 187 859 states |
| `client_async` | an entry stays registered only while an answer is due; a read that ends without error is whole; callers registered while the reader task ran resolve; both but for requests lost with the writer task over TLS | holds, 381 922 states |
| `client_frames` | requests and reads cross the wire whole, whatever the chunks; no request meets another's response; calls return | holds, 937 563 states |
| `server_life` | slots and registry agree with the connections there are; shutdown misses no connection; no client is kept waiting for ever; a signal ends the process, or it hangs in one of two named ways (`ShutdownCompletesOrHangs`) | holds, 193 302 states |

Each module's `TypeOK`, and the properties `RequestsAreWhole`, `AnswersAreTrue` and
`TooLargeIsSolo` of `WriteCoordinator`, `PinnedIsCovered` of `ReadCore`,
`EstimateCovers` of `IndexReads`, `InFlightBounded` of `ReadPool`, `WindowIsBounded` and (under
`FairSpec`) `ReadsEnd` of `SegmentReads` and `WriterClosesLast` of `ServerLife` hold on the same
instances (`ServerLife` and `BlockingClient` call theirs `LifeTypeOK` and `CallTypeOK`); the runs leave them out because they are implied by what is listed (the first two by
`RefinesStore`), or say less. `PinnedIsCovered`, and `TypeOK` of `ReadPool` and `AsyncClient`,
are also proved (section 4).

**Bounds and why they are enough.** The writer runs use three request tokens: two to
conflict and one to come between, or two in a batch and one deferred. Two tags, two
types, a tips window of 1 with one entry and an index segment of one type make
eviction, the floor and the unindexable case happen within three events. A segment of 5
units holds one or two batches, so the third rolls over. `write_conditions` allows two
failed calls and a crash (enough to lose a seal, acknowledge the next batch, and bring back a
failed one), `write_segments` one of each, with requests of one unit, of three, and one that is
over every limit. `log_recovery` has segments of five cells, three batches of one or two records
of one or two cells (so that one batch can end where a record of another began, the shape behind
stale bytes), a buffer of one cell (so that a record of two is longer than it), two
failed calls of any kind and two kills or power losses; each of the three flaws occurs within
these bounds and loses an acknowledged batch there.
`log_reads` has segments of nine cells with a header, batches of one short or two longer
records (one segment is filled exactly, one keeps a zero tail), a read-ahead and a
window smaller than the largest record plus its marker, three batches and one failure: a
buffer is filled with a half-written batch, which fails and is replaced by one of another
shape, in its place or behind a drift. `read_delivery` has one subscriber of any kind, batches
of up to two events, a log of 3, any number of lost seals, and a start at 0 or 2, which is
before, at or beyond the tip of the moment. `index_reads` has three events in batches of up to two, of two
types that share a tag, a column for one type (so the latch fires at the second), chunks
of two slots, both a bias that prefers the index and one that prefers the scan, cursors
before, inside and beyond the log, limits of one and none, two pages and one restart; its
log fits three segments, two segments with a tail of two, or one. The properties of reads
are stated for states where no rebuilt tail has lost its latch (`LatchLost`), a defect
described below.

`pool_reads` has two workers and two streams, of which one may be left undrained, with every
depth at 1, two events and one fault: the undrained stream can hold one worker while the
other serves, or keep its job sender. `conn_requests` has every budget, lane, buffer and the fairness limit at 1, so
each blocks, and eleven scripts that pair what can interfere (reads with a cancel, a read
with control traffic, subscriptions over budget, appends over budget, a half frame behind an
append, garbage, a refused hello). `client_async` has two or three calls on a budget of 2
and a queue of 1, over a plain or a TLS connection. `client_frames` has three requests, a two-byte prefix, limits that some
frames exceed and chunks of one byte or as many as wanted. `server_life` has two clients for
one slot, TLS, one scrape and two faults. Request tokens are interchangeable, so the run
without liveness properties, `write_conditions`, uses symmetry.

**Fairness.** `write_segments` assumes that the writer thread keeps running
(`WF(Worker)`: it is a dedicated OS thread that only blocks on its channel). Nothing is
assumed of callers, failures, shutdown or a restart.
`read_delivery` assumes that the writer finishes the publication it began and that each
subscription's consumer keeps calling (`WF(Drive(s))`). It assumes no fairness of
timeouts, cancelled waits, further commits or closes, so nothing but the notification
itself can rescue a lost wakeup. `pool_reads` assumes that pool threads run and that the
consumers in `Drains` poll their streams to the end; the other stream may be held without
being polled once. `conn_requests` assumes that each thread of the connection and
the coordinator run and that the client reads what it is sent; nothing of its sending, of
disconnects, of the reaper's deadlines or of shutdown. `client_async` and `client_frames`
assume that the client's tasks run and that the server takes requests and answers them,
except subscriptions; not that it closes, unless it has seen the client's end of the
stream. `server_life` assumes that the threads run and
that a set deadline passes some time; nothing of clients, signals or failures, and not that a
connection whose socket is shut returns: it may wedge instead.

### What the violation shows

**`write_tagless`** - `StagedTips::may_conflict` returns false while no *tag* is
staged. An event without tags staged first is invisible to a later request of the
same drain whose query names no tag: both are accepted. `ConditionsHold` (section 4)
proves that this is the only hole: with a tag on every event the condition always holds.

### Where the code falls short

The passing runs state what does hold. Next to the property a run checks, its module defines the
stronger one that a reader of the code's comments would expect, and TLC refutes it when it is
put in the run's configuration instead:

| stronger property | in run | what happens |
|---|---|---|
| `SnapshotCovers` | `write_segments` | `append_batch` fails after its rollover succeeded. The next batch takes `sealed_before` after that rollover, sees no growth, and neither seals the index tail nor publishes the snapshot: the watermark passes the published segments, and an acknowledged append cannot be read, against `handle.rs:97` and the comment at `coordinator.rs:289` |
| `ReadsAreAlwaysWhole` | `log_reads` | the same lost seal seen by a reader: reads end short without an error, or fail. They also do after a rewind that did nothing (next row), with no seal lost |
| `AckedIsDurable` | `log_recovery` | three ways, each without the others. *Misplaced*: the write of a first record longer than the buffer fails; `write_offset` has not moved, so `rewind_to` does nothing (`write.rs:428`), while part of the record is out; the next batch is written, synced and acknowledged behind it, and the next open does not find it. One I/O error is enough. *Wedged*: the flush in `rewind_to` fails too; "the writer is wedged" says `set.rs:579`, but it goes on; `open` later counts the orphan records and refuses the directory (`PositionMismatch`), or, where a marker of an earlier failed batch agrees with the count, serves an orphan at an acknowledged position. *Unsynced*: a kill leaves a batch in the page cache, `open` takes it for committed and syncs nothing, a rollover seals it ("everything is already synced", `set.rs:600`), and a power loss takes it from under the acknowledged batch behind it |
| `BatchesAreWhole` | `log_recovery` | a crash keeps the later pages of a batch but not its first; the next, shorter batch overwrites the head only and ends where one of the old records starts; the next recovery walks into them and finds the old marker |
| `SealedScanIsExact` | `log_recovery` | records a torn or failed batch left behind the last commit stay in a segment that is then sealed; the scan of sealed segments counts them and the chain check refuses the log |
| `ReadsAreNeverShort` | `index_reads` | the active segment passed its type limit before a restart. `IndexSet::open` keeps the rebuilder's latch in `active_unindexable`, which only the writer reads: readers trust the truncated columns of the shared tail until it is sealed. `FindMatchExact` holds throughout, so conditions are not affected |
| `DropReturns` | `pool_reads` | two ways, against "bounded even if a consumer is holding an undrained stream" (`pool.rs:296`). A stream that was never polled keeps its submit future, and with it a clone of the job sender, so the workers stay in `recv`; and a worker reports a panic with a blocking send to a stream nobody drains |
| `TeardownEnds` | `conn_requests` | the writer thread failed, the pump ended with it, and the reader waits for an append permit that nobody is left to release |
| `NoCallerHangs` | `client_async` | a call registers after the reader task failed the others and ended; or, over TLS, the writer task ends and takes requests with it: the reader's half keeps the socket open, the server sees no end, and nobody fails the calls |
| `DroppedCallsRelease` | `client_async` | a call dropped while it waits for the request queue never sends its request; its entry and permit stay for the life of the connection (`Workloads <- Appends` is enough) |
| `ShutdownCompletes` | `server_life` | a connection whose socket `shutdown_all` has shut stands at the wedge of `TeardownEnds`, and `run` joins its thread for ever; or the connect that should wake the accept loop fails, which is ignored (`lib.rs:534`), and nobody else connects |

The store contract itself has a weaker promise than "the append is all-or-nothing" suggests to a
caller: a batch whose fsync failed was written with its marker, the rewind leaves those bytes,
and a crash before they are overwritten brings back a batch whose callers were told it failed
(`DcbStore`'s `Crash`; the comment at `write.rs:424` is true of failed writes only).

Further observations that are modelled and that no property is about: the leftover file of a
failed segment creation can be overtaken by later batches, and `open` then refuses the log
(`UnwrittenNonLast`) though no position is missing; a failed thread spawn makes `Server::run`
return past its joins while connections are served; a connection that panics leaves its
registry entry; the scrape timeout is per read, so only the cap on the request head bounds a
scrape; a server read that panics is not answered, and a subscription ends without a frame
when the store closes; the blocking client is out of step with its stream after a frame over
the limit; and the comment at `tips.rs:94` is off by one in the harmless direction.

## 4. The proofs

TLAPS checks the theorems below for every value of the constants that satisfies the
assumption of the module: any set of requests, batches, scripts or clients, any budget,
depth, size, and any number of faults and crashes. The assumptions ask for no more than the
types and positive limits the code has itself. `SegmentReads` needs one more,
`FitsAssumption`: no batch is larger than an empty segment, which `append_batch` refuses
before it writes.

| module | theorem | property |
|---|---|---|
| `WriteCoordinator_proofs` | `TypeCorrect` | `TypeOK` |
| | `FastPathCorrect` | `FastPathExact` |
| | `ConditionsHold` (`ASSUME Tagged`) | `ConditionSound` |
| | `AckedIsVisible` | `ReadYourWrites` |
| | `SnapshotIsAhead` | `SnapshotCoversWatermark` |
| | `Implementation` (`ASSUME Tagged`) | `RefinesStore` |
| | `NobodyOvertakes` | `NoOvertaking` |
| `SegmentLog_proofs` | `AckedHolds` | `AckedSurvives` |
| | `CursorHolds` | `CursorIsRecoverable` |
| | `OneCrashIsWhole` | `OneCrashKeepsBatchesWhole` |
| | `OneCrashOpens` | `OneCrashReopens` |
| `SegmentReads_proofs` | `FlushedStays` | `FlushedIsImmutable` |
| | `ReadsYieldCommitted` | `YieldsCommitted` |
| | `NoReadFallsShort` | `ReadsAreWhole` |
| `ReadCore_proofs` | `DeliveryIsExact` | `DeliveredExactly` |
| | `EndIsDrained` | `EndedIsDrained` |
| | `LoadedSnapshotCovers` | `PinnedIsCovered` |
| `IndexReads_proofs` | `IndexKnowsTheLog` | (`IndexInv`, the invariant) |
| | `FindMatchAgrees` | `FindMatchExact` |
| | `ReadsAreExact` | `ReadExact` |
| | `PagesMeet` | `PagesJoin` |
| `ReadPool_proofs` | `TypeCorrect`, `CleanEndsHold` | `TypeOK`, `CleanEndIsWhole` |
| `Server_proofs` | `PermitsAreKept` | `PermitsBalance` |
| | `BulkGetsItsTurn` | `BulkNotStarved` |
| | `FramesKeepOrder` | `FramesInOrder` |
| | `BooksCorrect`, `NoneIsMissed` | `BooksAreExact`, `ShutdownMissesNone` |
| `Client_proofs` | `TypeCorrect`, `RepliesAreDue` | `TypeOK`, `EntriesAreDue` |
| | `CleanEndsHold` | `CleanEndsAreWhole` |
| | `MessagesWhole`, `StaysInStep` | `MessagesAreWhole`, `StaysAligned` |

**The writer.** `TypeOK` is not inductive alone: `FeedIndex` computes the length of the
tail it seals, and the reply loop reads `granted`. `TypeInv` adds `Fed` (what each phase
of the writer may rely on), one lemma per action. `FastPathExact` follows from `FastInv`:
outside the window between commit and feed the index ends at the tip (`IndexCaughtUp`), and
every event at or above the floor has each of its tags recorded at its position or later
(`TipsCover`). The delicate step is the feed: the floor moves and entries at it are dropped in
the same action, and the comparison is strict on one side only.

`ConditionsHold` assumes `Tagged`, that every event of every request carries a tag;
`write_tagless` is the counterexample without it. `SoundInv` adds `StagedSound`, the same
statement for staged records against log and staged ones, and `RemainsSound`, the same for
the batch a failed fsync left behind the log's end; `Frozen` (the arguments of requests
never change once submitted) carries it over steps, and `FastPathCorrect` replaces the fast
answer by the scan at the moment of acceptance. A crash may add the whole in-doubt batch, which
`StagedSound` covers, or the one whose fsync failed, which `RemainsSound` does: the log has not
grown since, or the remains would have been written over.

`Implementation` maps every step to a step of `DcbStore` or to a stutter. Its invariant
`StoreInv` says where a request is: it waits in one place, once, with no record anywhere; or it is
staged and granted the range its records will take; or it is committed and has that range until
it is replied to. A commit (or a crash that keeps the batch) is the abstract append of
all granted requests, each condition holding by `StagedSound`; a reply is an abstract answer.
`RemainsInv` says the same of what a failed commit left: each of its records belongs to a request
that was answered with the I/O error, or is about to be, and that has no record on the log; so
that a crash that brings it back is the abstract crash that lets failed requests take effect.
`PublishInv` tracks watermark and snapshot through a batch and gives `SnapshotCoversWatermark`.
`SealInv` says which segments the snapshot may lack when appends do fail: each segment is
published, or behind a lost seal, or was begun by the batch being published (`Explained`). The
two together give `ReadYourWrites`, for as many rollovers, failures and restarts as there are.

`NobodyOvertakes` reads the line of requests in its five parts: log, batch, drain, deferred
request, queue (`LineParts`). A step either leaves the line as it is, moving a request from one
part to the next, or cuts a piece out of it, or adds a request at its end that stands nowhere in
it (`JoinsLast`), and none of these turns two requests around (`StepLine`). That no request
stands in two places (`StoreInv`) is what makes "before" mean one thing (`Apart`), and a drain
that begins with a deferred request must take it before it receives another (`DrainPhases`).

**The segment log.** What is written is a concatenation of frames and what recovery computes is
a recursive function over cells, so the proofs need induction over the length of the data. The
library's induction theorems take an operator, which the provers cannot instantiate;
the argument is made with least elements instead (`NatLeast`, from `WFMin`, which takes a set):
a nonempty set of counterexamples has a least one. The lemmas so proved describe
`FlattenSeq`, the walk over cells and the frames it recovers, for every length.
`LogInv` says that the page cache of the active segment holds, below the cursor, frames
that end in a marker and whose records are the log's (`CursorInv`), and that every *anchored*
record, one that was acknowledged or lies before a later segment, is in frames of some segment
that cache and disk both hold and no later write touches (`StoredInv`). It cannot ask the disk
for more: what `open` found in the page cache after a kill is served, and on the disk perhaps
not. Because it asks for both copies of what is anchored, a power loss that keeps any subset of
unsynced cells leaves it intact; `OpenSet` then has to find the promised records, which it does
segment by segment. The invariant is `Sound`: `LogInv` until one of the `flaws` occurs; they never
go away (`FlawsGrow`), and each of them is where an inductive step would fail: `SyncBatch` with a
drift, a rewind that fails, a rollover over a `Volatile` segment. Faults and crashes are
unbounded here. `OnceInv` is for at most one crash and no fault: until the crash a
segment holds its frames and then zeros, the crash leaves at most one torn batch behind the
last one (`Torn`), and what recovery walks over is therefore whole batches. It uses `LogInv` up to
the first reopening only, since what is found there may be sealed in before a sync covers it.

**Reading while it is written.** `Inv` has a part for the writer and one for the read.
`WriterInv`: segments hold consecutive positions, each record stored at its sidecar offset and
followed directly, or over one marker, by the next (`Linked`, `SegmentOK`); a sealed segment
ends where the next begins; the writer's cursor is behind the last record. From it follows
`Grew`: what a writer's step may do under a reader. Segments are only added, cells below the
flushed offset stay, sidecars extend. All this holds until records go `astray`. That nothing
below the flushed offset changes holds even then: a drift and a failed rewind only move writes
further back (`CursorOK`: the cursor is never before the flushed offset, and nothing is written
before the cursor), and `FlushedStays` rests on that alone. `ReadOK`
places the read: at the record it wants next or at the marker before it (`AtSpot`), with an
extent and a window that cover what is still wanted, and with a buffer that may be stale only
behind every wanted record (`BufOK`). That is why serving from a buffer filled before a
failed batch was replaced is harmless: positions a read wants were flushed before it pinned
them. `ReadKept` carries `ReadOK` over `Grew` once and for all, so writer and reader steps are
proved apart; each reader step has a lemma of its own. That the snapshot covers what is wanted
(`Covers`) holds unless a rollover's batch was lost, the other exception `ReadsAreWhole` states.

**The index and its reads.** `IndexInv` says what the writer's side keeps. Below the length of
its column a tail describes the events of its segment (`Describes`: types and terms are
interned once, the column has the type of each slot, and a slot is in exactly the posting
lists of its event's tags). The active tail has as many as were fed (`ActiveInv`, with
`HalfFed` for the event whose tags are being pushed), unless it is latched. A sealed segment
counts all of its events, its index knows them all if it is trusted, and it is trusted unless
its tail hit the type limit (`SealedInv`). The published snapshot covers the published
watermark in each phase of a batch (`PublishInv`). `Reopen` rebuilds the active tail by pushing
the segment's events again, a fold over the sequence; the lemma about it takes the shortest
prefix for which it could fail. `FindMatchAgrees`: if every segment that reaches
past `after` is indexable, each one's hits are its matching events, and since segments are
consecutive the lowest hit of the first one with a hit is the lowest match of the log.

`ReadInv` adds the read (`ReadOK`). The pinned snapshot covers the pinned range (`PinnedOK`).
The segments already searched have given exactly their matches (`PlanOK`). What a probe took
from the shared tail is right for every slot up to the pinned end (`ProbeOK`): what the writer
pushes meanwhile lies above it and is cut off. The page and what is still to come list the
matches after the cursor (`StreamOK`), all pages so far those before the next page (`JoinOK`).
A strictly increasing (or decreasing) sequence is determined by its elements (`ListsUnique`),
which turns these statements about sets into the equalities of `ReadExact` and `PagesJoin`. A
writer's step keeps all of it because a tail only grows. They hold as long as no latch was lost
(`LatchLost`), the exception section 3 reports; `FindMatchExact` needs no exception.

**Subscriptions.** `ReadInv`: the snapshot goes out before the watermark
(`PublishedInOrder`), so a view loaded after a watermark knows every segment up to it that
is not behind a lost seal (`LoadsAreCovered`); the poll after `Closed` has seen the last watermark, and nothing is
committed after a close (`LastPollSeesAll`). A poll then extends what was delivered by exactly
the matching positions between two cursors.

**The read pool.** A job is in one place, and whoever holds it holds the only sender of its
channel (`OnePlace`). What the consumer got, the batches in its channel and what the worker
holds are consecutive pieces of the whole read (`Ledger`), so a channel that closes without an
error, while the pool is not closing, has carried all of it.

**The connection.** `BaseInv`: every request is in one place between the wire and its job, in
order of its id, and each job is in a phase its kind allows. The permits are counted job by
job (`PermitsAreKept`). `RoundsAreFair` says what the writer thread owes the bulk lane at each point of
its round, and gives `BulkGetsItsTurn`. `FramesNumbered` numbers the frames of a request
through wire, buffer and lane, with nothing in the lane it does not use: what is put into a
queue is always the next number, what leaves is the lowest, and the terminal one is the last.

**The server's life.** `LifeInv` follows the one socket in the hands of the accept loop:
it holds a permit from admission on and is in the registry before its thread starts, so
that either `shutdown_all` finds it there or the flag is seen by the registration.

**The async client.** `RepliesAreDue` rests on the fact that a cancel is only sent for a
stream whose entry is gone (`CancelsAreDropped`), so no cancel removes an answer somebody waits
for, and on where a request can be: queued, buffered, travelling, served, or lost with the
writer task; a plain socket is half closed from then on, a TLS one only when both tasks are gone,
which is the exception in the statement. `CleanEndsHold` keeps a ledger per stream: what it took, what its channel holds and what
is coming add up to what the server sent, and only the routing of a final item removes the entry.

**The blocking client and its frames.** A byte knows the frame and the place it was written for,
so what a wire holds can be said byte by byte (`Good`): around each byte lies the rest of its
frame, all but what is already gone in front, and behind the last byte of a frame comes the
first of another. The wire is what the reader holds followed by what is in transit, so a
poll that takes any chunk leaves it as it was, or takes one frame off its front. Every decoder
step is thereby reduced to appending a frame at the end and cutting one (or, after a fault, some
bytes) off the front; no induction over bytes is needed. `CallInv` builds on that: up to the
server the wire is `Aligned`, and its frames are the requests the server has not read, in order
of their ids (`UpFits`); down to the client it is `Good` but, after a fault, no longer aligned,
and each frame answers a request that was taken (`DownFits`). For a read in progress, what was
yielded, what is buffered and the event frames on the wire add up to what the server sent, the
terminal frame coming last (`Tally`), which gives `ReadsAreWhole` even out of step. As long as
nothing has `shifted`, the wire holds what the call in progress waits for and nothing else
(`Pending`): that a dropped read drains to its terminal frame before the client is idle again is
what leaves nothing there for the next request, and gives `StaysAligned`.

**Only model-checked** is liveness (`EveryRequestAnswered`, `EventsReachSubscribers`,
`CloseEndsSubscribers`, `DrainedReadsEnd`, `DropReturnsUnlessHeld`, `RequestsAnswered`,
`TeardownEndsOrWedges`, `CallersResolve`, `CallsReturn`, `NoneKeptWaiting`,
`ShutdownCompletesOrHangs`), which is out of the prover's reach.

## 5. Plan

Done: the modules of section 2 and the theorems of section 4. Next, in this order:

1. The lemmas on induction, sequences and `FlattenSeq` that `SegmentLog_proofs`,
   `SegmentReads_proofs` and `IndexReads_proofs` each state, in a module of their own.
2. `ReadsAreNeverShort` once `IndexSet::open` marks every tail it rebuilds (section 3): the
   proof of `ReadExact` then loses its exception.

## 6. Not modelled

* Byte layouts and checksums (a frame validates or it does not), posting-list encoding and the
  galloping merge (sets instead), the layout of `.idx` files, name validation, and message
  conversions that copy fields: pure functions of one argument, better tested than checked.
* What conditions and replies mean once a writer has gone astray: `WriteCoordinator` stops there,
  and `SegmentLog` and `SegmentReads` show what happens to the records.
* `Reader::replace_header` and `Writer::set_len`, which the store never calls.
* How the two halves of a TLS connection share a session (`tephra-proto/src/tls.rs`); that they
  share the socket's life is in `AsyncClient`. Building TLS configurations.
* Configuration, the text of metrics, health probes, logging, the counters of a stats reply.
* The crash-test harness, a test driver. Disk corruption other than torn or missing writes is
  outside the store's own claims.

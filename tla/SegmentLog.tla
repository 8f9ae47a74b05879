----------------------------- MODULE SegmentLog -----------------------------
(***************************************************************************)
(* The storage layer: seglog's Writer and its recovery                     *)
(* (seglog/src/write.rs, read.rs) under SegmentSet's append_batch,         *)
(* rollover and open (tephra/src/log/set.rs), down to what a segment file  *)
(* holds in the page cache and on the disk.                                *)
(*                                                                         *)
(* A segment's data area is an array of cells.  A frame (a data record or  *)
(* a commit marker) of length n fills n cells; its checksum validates      *)
(* exactly when all n are there, in order.  A fresh cell is zero, which a  *)
(* reader takes for the end of the log.  The end of the process leaves the *)
(* page cache as it is; a power loss keeps, of the cells written but not   *)
(* yet synced, any subset: fsync orders nothing within a flush             *)
(* (ARCHITECTURE.md, 4.3).                                                 *)
(***************************************************************************)
EXTENDS Naturals, Sequences, FiniteSets, SequencesExt, FiniteSetsExt

CONSTANTS
    Capacity,     \* cells of a segment's data area
    MarkerLen,    \* cells of a commit marker
    BufferLen,    \* cells of the writer's buffer, WRITE_BUF_SIZE
    Shapes,       \* the batches a caller may append, as lengths of their records
    FaultKinds,   \* which calls may fail: "write", "rewind", "sync", "create", "header"
    MaxBatches,   \* bound on append_batch calls
    MaxFaults,    \* bound on failed calls
    MaxCrashes    \* bound on kills and power losses

ASSUME ShapesAssumption ==
    /\ Capacity \in Nat
    /\ MarkerLen \in Nat \ {0}
    /\ BufferLen \in Nat
    /\ Shapes \subseteq Seq(Nat \ {0}) \ {<<>>}

VARIABLES
    files,     \* segment files by base position: header written, header synced,
               \* cells in the page cache, cells on the disk
    pc,        \* where the set is, see Phases
    base,      \* base position of the active segment
    offset,    \* Writer::write_offset of the active segment
    drift,     \* by how much the next byte lands behind it
    log,       \* the records the open set serves, as frames
    batch,     \* the frames of the batch being appended, marker last
    promised,  \* the log as of the last successful append_batch
    flaws,     \* what went wrong for good, see Flaws
    batches, faults, crashes

vars == <<files, pc, base, offset, drift, log, batch, promised, flaws,
          batches, faults, crashes>>

\* History, for the properties: a batch was synced behind the place its offsets name
\* ("misplaced"); a rewind failed, and the cursor stayed behind records nobody committed
\* ("wedged"); records that only the page cache held were sealed in, or lost their claim on a sync
\* ("unsynced").
Flaws == {"misplaced", "wedged", "unsynced"}

-----------------------------------------------------------------------------
\* Frames and cells.
Data(n, i, shape) ==
    [kind |-> "data", batch |-> n, index |-> i, len |-> shape[i], mates |-> Len(shape)]

Marker(n, highest) ==
    [kind |-> "commit", batch |-> n, index |-> highest, len |-> MarkerLen, mates |-> 0]

Zero == [frame |-> [kind |-> "zero", batch |-> 0, index |-> 0, len |-> 0, mates |-> 0],
         nth |-> 0]

Fresh == [i \in 1..Capacity |-> Zero]

CellsOf(frame) == [k \in 1..frame.len |-> [frame |-> frame, nth |-> k]]

Layout(frames) == FlattenSeq([i \in DOMAIN frames |-> CellsOf(frames[i])])

Size(frames) == Len(Layout(frames))

Overwrite(cells, at, new) ==
    [i \in DOMAIN cells |->
        IF i \in at + 1 .. at + Len(new) THEN new[i - at] ELSE cells[i]]

\* The frame that starts at cell `at' validates: length in bounds, checksum over all of it.
ValidAt(cells, at) ==
    /\ at \in DOMAIN cells
    /\ cells[at].nth = 1
    /\ at + cells[at].frame.len - 1 <= Len(cells)
    /\ \A k \in 1..cells[at].frame.len :
        cells[at + k - 1] = [frame |-> cells[at].frame, nth |-> k]

\* The longest run of valid frames from the start of the data area.
Run(cells) ==
    LET from[at \in 1 .. Capacity + 1] ==
            IF ValidAt(cells, at)
            THEN <<cells[at].frame>> \o from[at + cells[at].frame.len]
            ELSE <<>>
    IN  from[1]

IsMarker(frame) == frame.kind = "commit"

Records(frames) ==
    FlattenSeq([i \in DOMAIN frames |-> IF IsMarker(frames[i]) THEN <<>> ELSE <<frames[i]>>])

\* Variant: a valid record is taken for a committed one.
RecoveredRun(cells) == Run(cells)

\* recover: the run up to its last commit marker is committed.
Recovered(cells) ==
    LET run == Run(cells) IN SubSeq(run, 1, SelectLastInSeq(run, IsMarker))

\* scan_offsets of a sealed segment stops cleanly at a zero cell or at the end of the file. Where
\* it stops at anything else, those bytes read as a header may be out of bounds (a clean stop) or
\* fail their checksum.
StopsClean(cells) ==
    LET stop == Size(Run(cells)) + 1 IN stop > Capacity \/ cells[stop] = Zero

-----------------------------------------------------------------------------
\* SegmentSet::append_batch.
NextPosition == Len(log) + 1

Frames(n, shape) ==
    [i \in DOMAIN shape |-> Data(n, i, shape)]
        \o <<Marker(n, Len(log) + Len(shape))>>

Begin ==
    /\ pc = "idle"
    /\ batches < MaxBatches
    /\ batches' = batches + 1
    /\ \E shape \in Shapes :
        LET new == Frames(batches + 1, shape) IN
        /\ Size(new) <= Capacity
        /\ batch' = new
        /\ pc' = IF Size(new) > Capacity - offset THEN "create" ELSE "write"
    /\ UNCHANGED <<files, base, offset, drift, log, promised, flaws, faults, crashes>>

Fail(kind) ==
    /\ kind \in FaultKinds
    /\ faults < MaxFaults
    /\ faults' = faults + 1

\* The caller is told the append failed.
GiveUp ==
    /\ batch' = <<>>
    /\ pc' = "idle"

\* rollover, create_segment: create_new, fallocate and the two fsyncs of Writer::create leave an
\* unwritten file; then the header is written.
NewFile(header, firm) == [header |-> header, firm |-> firm, cache |-> Fresh, disk |-> Fresh]

Put(b, file) == [x \in DOMAIN files \cup {b} |-> IF x = b THEN file ELSE files[x]]

\* Something the open set relies on is in the page cache only: recover found it there, and
\* Writer::open syncs nothing.
Volatile ==
    \/ ~ files[base].firm
    \/ \E i \in 1..offset : files[base].cache[i] # files[base].disk[i]

FlawedIf(P, flaw) == flaws' = IF P THEN flaws \cup {flaw} ELSE flaws

\* The sync at the head of rollover does nothing: open and rewind_to left the writer clean. After
\* a rewind that did nothing or failed it does sync; that a power loss keeps all there is covers
\* it here.
CreateFile ==
    /\ pc = "create"
    /\ NextPosition \notin DOMAIN files
    /\ files' = Put(NextPosition, NewFile(FALSE, FALSE))
    /\ FlawedIf(Volatile, "unsynced")
    /\ pc' = "header"
    /\ UNCHANGED <<base, offset, drift, log, batch, promised, batches, faults, crashes>>

\* create_new refuses a name that is taken.
CreateExists ==
    /\ pc = "create"
    /\ NextPosition \in DOMAIN files
    /\ GiveUp
    /\ UNCHANGED <<files, base, offset, drift, log, promised, flaws, batches, faults, crashes>>

\* fallocate or an fsync fails: the file stays, unwritten.
CreateFails ==
    /\ pc = "header"
    /\ Fail("create")
    /\ GiveUp
    /\ UNCHANGED <<files, base, offset, drift, log, promised, flaws, batches, crashes>>

\* The header's write or its fsync fails: it may be there all the same.
HeaderFails ==
    /\ pc = "header"
    /\ Fail("header")
    /\ \E header \in BOOLEAN : files' = Put(NextPosition, NewFile(header, FALSE))
    /\ GiveUp
    /\ UNCHANGED <<base, offset, drift, log, promised, flaws, batches, crashes>>

WriteHeader ==
    /\ pc = "header"
    /\ files' = Put(NextPosition, NewFile(TRUE, TRUE))
    /\ base' = NextPosition
    /\ offset' = 0
    /\ drift' = 0
    /\ pc' = "write"
    /\ UNCHANGED <<log, batch, promised, flaws, batches, faults, crashes>>

\* The bytes land in the page cache. What they overwrite there, the kernel may have written back
\* before.
Dirty(at, n) == {i \in at + 1 .. at + n : i <= Capacity /\ files[base].cache[i] # files[base].disk[i]}

WriteCells(cells) ==
    \E early \in SUBSET Dirty(offset + drift, Len(cells)) :
        files' = [files EXCEPT
            ![base].cache = Overwrite(@, offset + drift, cells),
            ![base].disk = [i \in 1..Capacity |-> IF i \in early THEN files[base].cache[i] ELSE @[i]]]

\* append_data of every record, write_commit_marker, and the flush of sync: the batch is in the
\* page cache.
WriteBatch ==
    /\ pc = "write"
    /\ WriteCells(Layout(batch))
    /\ pc' = "sync"
    /\ UNCHANGED <<base, offset, drift, log, batch, promised, flaws, batches, faults, crashes>>

\* Variant: the cursor is not moved back over the records that were written.
WriteFailsNoRewind ==
    /\ pc = "write"
    /\ Fail("write")
    /\ \E n \in 1 .. Len(batch) - 1 :
        LET part == SubSeq(batch, 1, n) IN
        /\ WriteCells(Layout(part))
        /\ offset' = offset + Size(part)
    /\ GiveUp
    /\ UNCHANGED <<base, drift, log, promised, flaws, batches, crashes>>

\* A write fails behind the first record and before the marker is out; rewind_to flushes what was
\* buffered and moves the cursor back.
WriteFails ==
    /\ pc = "write"
    /\ Fail("write")
    /\ \E n \in batch[1].len .. Size(batch) - 1 : WriteCells(SubSeq(Layout(batch), 1, n))
    /\ drift' = 0
    /\ GiveUp
    /\ UNCHANGED <<base, offset, log, promised, flaws, batches, crashes>>

\* The write of the first record fails: write_offset has not moved, so rewind_to is a no-op, while
\* a part of the record is out or in the buffer. A record that fits the buffer cannot fail here.
FirstWriteFails ==
    /\ pc = "write"
    /\ batch[1].len > BufferLen
    /\ Fail("write")
    /\ \E n \in 1 .. batch[1].len - 1 :
        /\ WriteCells(SubSeq(Layout(batch), 1, n))
        /\ drift' = drift + n
    /\ GiveUp
    /\ UNCHANGED <<base, offset, log, promised, flaws, batches, crashes>>

\* The flush inside rewind_to fails as well: the caller gets that error, and write_offset stays
\* behind the frames that were appended.
RewindFails ==
    /\ pc = "write"
    /\ Fail("rewind")
    /\ \E n \in 1 .. Len(batch) : \E cut \in 0 .. IF n < Len(batch) THEN batch[n + 1].len - 1 ELSE 0 :
        LET part == SubSeq(batch, 1, n) IN
        /\ WriteCells(SubSeq(Layout(batch), 1, Size(part) + cut))
        /\ offset' = offset + Size(part)
        /\ drift' = drift + cut
    /\ flaws' = flaws \cup {"wedged"}
    /\ GiveUp
    /\ UNCHANGED <<base, log, promised, batches, crashes>>

Synced ==
    [i \in 1..Capacity |->
        IF i <= offset + drift + Size(batch) THEN files[base].cache[i] ELSE files[base].disk[i]]

\* Variant: the cursor stays where the batch began.
SyncBatchInPlace ==
    /\ pc = "sync"
    /\ files' = [files EXCEPT ![base].disk = Synced, ![base].firm = TRUE]
    /\ log' = log \o Records(batch)
    /\ promised' = log'
    /\ FlawedIf(drift # 0, "misplaced")
    /\ batch' = <<>>
    /\ pc' = "idle"
    /\ UNCHANGED <<base, offset, drift, batches, faults, crashes>>

\* sync_data succeeds: the batch is on the disk and append_batch returns.
SyncBatch ==
    /\ pc = "sync"
    /\ files' = [files EXCEPT ![base].disk = Synced, ![base].firm = TRUE]
    /\ offset' = offset + Size(batch)
    /\ log' = log \o Records(batch)
    /\ promised' = log'
    /\ FlawedIf(drift # 0, "misplaced")
    /\ batch' = <<>>
    /\ pc' = "idle"
    /\ UNCHANGED <<base, drift, batches, faults, crashes>>

\* The flush or sync_data fails: rewind_to flushes the rest and moves the cursor back over a
\* complete batch, marker included, that is in the page cache and perhaps on the disk. A failed
\* fsync may also drop what was dirty before: a later one reports nothing of it.
SyncFails ==
    /\ pc = "sync"
    /\ Fail("sync")
    /\ drift' = 0
    /\ FlawedIf(Volatile, "unsynced")
    /\ GiveUp
    /\ UNCHANGED <<files, base, offset, log, promised, batches, crashes>>

-----------------------------------------------------------------------------
\* The process ends, by a kill, a panic or a stop. Its buffer is gone: of the batch being written
\* any part may be in the page cache, which stays. The header being written may be there, not
\* synced.
Down ==
    /\ pc \notin {"down", "refused"}
    /\ crashes < MaxCrashes
    /\ crashes' = crashes + 1
    /\ batch' = <<>>
    /\ drift' = 0
    /\ pc' = "down"
    /\ UNCHANGED <<base, offset, log, promised, flaws, batches, faults>>

Kill ==
    /\ Down
    /\ \/ UNCHANGED files
       \/ /\ pc = "write"
          /\ \E n \in 1 .. Size(batch) - 1 : WriteCells(SubSeq(Layout(batch), 1, n))
       \/ /\ pc \in {"header", "first"}
          /\ files' = Put(NextPosition, NewFile(TRUE, FALSE))

\* The machine goes down: any subset of the cells that differ between cache and disk is kept, a
\* header that was not synced may be there or not, and a file without one may be gone.
Unsynced ==
    {c \in (DOMAIN files) \X (1..Capacity) :
        files[c[1]].cache[c[2]] # files[c[1]].disk[c[2]]}

Unsure(b) ==
    ~ files[b].firm /\ (files[b].header \/ (pc \in {"header", "first"} /\ b = NextPosition))

Settled(b, kept, header) ==
    LET cells == [i \in 1..Capacity |->
                    IF <<b, i>> \in kept THEN files[b].cache[i] ELSE files[b].disk[i]]
    IN  [header |-> header, firm |-> header, cache |-> cells, disk |-> cells]

PowerLoss ==
    /\ Down
    /\ \E kept \in SUBSET Unsynced,
          gone \in SUBSET {b \in DOMAIN files : ~ files[b].header},
          headed \in SUBSET {b \in DOMAIN files : Unsure(b)} :
        files' = [b \in DOMAIN files \ gone |->
                    Settled(b, kept, files[b].firm \/ b \in headed)]

\* SegmentSet::open. The files that have a header, in position order; the last one becomes active.
Written == {b \in DOMAIN files : files[b].header}

Unwritten == DOMAIN files \ Written

Content(b) ==
    IF b = Max(Written) THEN Records(Recovered(files[b].cache)) ELSE Records(Run(files[b].cache))

\* The base-position chain: the first segment starts at position 1, each other where the one
\* before it ends.
After(b) == Min({x \in Written : x > b})

Contiguous ==
    /\ Min(Written) = 1
    /\ \A b \in Written \ {Max(Written)} : After(b) = b + Len(Content(b))

\* The records the segments hold together, each served by the last segment based at or below its
\* position.
Owner(p) == Max({x \in Written : x <= p})

Contents ==
    [p \in 1 .. Max(Written) + Len(Content(Max(Written))) - 1 |->
        Content(Owner(p))[p - Owner(p) + 1]]

\* The last marker of the active segment names its last position.
MarkerAgrees ==
    LET run == Recovered(files[Max(Written)].cache) IN
    run # <<>> => Last(run).index + 1 = Max(Written) + Len(Records(run))

\* Variant: an unwritten trailing file is an error too.
OpensStrictly ==
    /\ Unwritten = {}
    /\ Contiguous
    /\ MarkerAgrees

Opens ==
    /\ \A b \in Unwritten : b > Max(Written)
    /\ Contiguous
    /\ MarkerAgrees

OpenSet ==
    /\ pc = "down"
    /\ Written # {}
    /\ Opens
    /\ files' = [b \in Written |-> files[b]]
    /\ base' = Max(Written)
    /\ offset' = Size(Recovered(files[Max(Written)].cache))
    /\ log' = Contents
    /\ pc' = "idle"
    /\ UNCHANGED <<drift, batch, promised, flaws, batches, faults, crashes>>

\* UnwrittenNonLast, NonContiguous, PositionMismatch, or a checksum error in a sealed segment: the
\* set refuses to open.
OpenRefused ==
    /\ pc = "down"
    /\ Written # {}
    /\ ~ Opens \/ \E b \in Written \ {Max(Written)} : ~ StopsClean(files[b].cache)
    /\ pc' = "refused"
    /\ UNCHANGED <<files, base, offset, drift, log, batch, promised, flaws, batches, faults,
                   crashes>>

\* A directory with no written segment is a fresh log: unwritten files are deleted and the first
\* segment is created at position 1.
OpenFresh ==
    /\ pc = "down"
    /\ Written = {}
    /\ files' = [b \in {1} |-> NewFile(FALSE, FALSE)]
    /\ log' = <<>>
    /\ pc' = "first"
    /\ UNCHANGED <<base, offset, drift, batch, promised, flaws, batches, faults, crashes>>

FirstHeader ==
    /\ pc = "first"
    /\ files' = [b \in {1} |-> NewFile(TRUE, TRUE)]
    /\ base' = 1
    /\ offset' = 0
    /\ pc' = "idle"
    /\ UNCHANGED <<drift, log, batch, promised, flaws, batches, faults, crashes>>

-----------------------------------------------------------------------------
Init ==
    /\ files = [b \in {} |-> NewFile(FALSE, FALSE)]
    /\ pc = "down"
    /\ base = 1
    /\ offset = 0
    /\ drift = 0
    /\ log = <<>>
    /\ batch = <<>>
    /\ promised = <<>>
    /\ flaws = {}
    /\ batches = 0
    /\ faults = 0
    /\ crashes = 0

Next ==
    \/ Begin
    \/ CreateFile \/ CreateExists \/ CreateFails \/ HeaderFails \/ WriteHeader
    \/ WriteBatch \/ WriteFails \/ FirstWriteFails \/ RewindFails \/ SyncBatch \/ SyncFails
    \/ Kill \/ PowerLoss \/ OpenFresh \/ FirstHeader \/ OpenSet \/ OpenRefused

Spec == Init /\ [][Next]_vars

-----------------------------------------------------------------------------
\* Properties.

Phases == {"idle", "create", "header", "write", "sync", "down", "first", "refused"}

IsOpen == pc \notin {"down", "first", "refused"}

\* The cursor and the files are where the writer's types allow them.
TypeOK ==
    /\ DOMAIN files \subseteq Nat \ {0}
    /\ \A b \in DOMAIN files :
        files[b].header \in BOOLEAN /\ files[b].firm \in BOOLEAN /\ Len(files[b].cache) = Capacity /\ Len(files[b].disk) = Capacity
    /\ pc \in Phases
    /\ IsOpen => base \in Written
    /\ offset \in 0..Capacity /\ drift \in Nat
    /\ flaws \subseteq Flaws

\* Whatever failed or crashed since, every record append_batch returned a position for is at that
\* position once the set is open again (ARCHITECTURE.md 4.3: a batch that was acknowledged is
\* durable).
AckedIsDurable == IsOpen => IsPrefix(promised, log)

\* The same, with the three exceptions the code makes: a batch that was synced behind the cursor
\* after a no-op rewind, a rewind that failed, and records of the page cache that were sealed in
\* without a sync.
AckedSurvives == flaws = {} => AckedIsDurable

\* What the cursor stands behind is what the log serves: readers find it in the page cache, and a
\* power loss at this moment keeps of it whatever append_batch returned a position for.
CursorIsRecoverable ==
    IsOpen /\ flaws = {} =>
        /\ \E n \in 0 .. Len(Run(files[base].cache)) :
            LET run == SubSeq(Run(files[base].cache), 1, n) IN
            /\ Size(run) = offset
            /\ Records(run) = SubSeq(log, base, Len(log))
        /\ IsPrefix(SubSeq(promised, base, Len(promised)), Records(Recovered(files[base].disk)))

\* Batches are all-or-nothing (append_batch: "The append is all-or-nothing"): the log never serves
\* a part of one.
BatchesAreWhole ==
    \A p \in DOMAIN log :
        LET first == p - log[p].index + 1
            last == first + log[p].mates - 1
        IN  /\ {q \in DOMAIN log : log[q].batch = log[p].batch} = first .. last
            /\ \A q \in first .. last : log[q].index = q - first + 1

\* recover brings a batch back whole or not at all, whatever part of it one power loss kept. What
\* a failed sync or a first crash left in the file can undo this, see BatchesAreWhole.
OneCrashKeepsBatchesWhole == crashes <= 1 /\ faults = 0 => BatchesAreWhole

\* A power loss between any two steps of append_batch, rollover and open leaves a directory that
\* SegmentSet::open accepts. Records left behind the last commit of a segment that is sealed later
\* can make it refuse after a failed write or a second crash, see SealedScanIsExact.
OneCrashReopens == crashes <= 1 /\ faults = 0 => pc # "refused"

\* Scanning a sealed segment to its zero-filled tail finds the records that were committed to it
\* and nothing else (scan_offsets; "trailing garbage cannot masquerade as a valid record",
\* ARCHITECTURE.md 4.3).
SealedScanIsExact ==
    IsOpen =>
        \A b \in {x \in Written : x < base} :
            LET end == Min({x \in Written : x > b}) - 1
            IN  Records(Run(files[b].cache)) = SubSeq(log, b, end)
=============================================================================

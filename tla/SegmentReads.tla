---------------------------- MODULE SegmentReads ----------------------------
(***************************************************************************)
(* Reading the segment files while the writer appends to them: seglog's    *)
(* Reader with its read-ahead buffer (seglog/src/read.rs, parse.rs) under  *)
(* the forward Scan, the windowed ScanBack and the indexed point reads     *)
(* (tephra/src/log/set.rs, tephra/src/read/mod.rs).                        *)
(*                                                                         *)
(* No lock is held: a reader sees the page cache as the writer fills it,   *)
(* and relies on three published values alone: a segment's flushed offset, *)
(* its sidecar of record offsets, and the watermark with its snapshot.     *)
(* Cells are as in SegmentLog, counted from 0 in the file: the first cell  *)
(* of a frame is its head (length, flags, checksum), the others its        *)
(* payload, and a zero cell reads as a truncation marker.  Crashes are     *)
(* SegmentLog's subject.                                                   *)
(***************************************************************************)
EXTENDS Naturals, Sequences, FiniteSets, SequencesExt, FiniteSetsExt

CONSTANTS
    SegmentSize,   \* cells of a segment file, header included
    HeaderSize,    \* cells of the segment header
    MarkerLen,     \* cells of a commit marker
    Shapes,        \* the batches appended, as lengths of their records
    ReadAhead,     \* cells of the read-ahead buffer, READ_AHEAD_SIZE
    Window,        \* cells of a reverse window, REVERSE_WINDOW_BYTES
    Optimistic,    \* payload cells of a first random read, OPTIMISTIC_DATA_SIZE
    MaxPlanned,    \* bound on the positions of an indexed read
    MaxBatches,    \* bound on append_batch calls
    MaxFaults      \* bound on failed ones

ASSUME ReadsAssumption ==
    /\ {SegmentSize, MaxPlanned} \subseteq Nat
    /\ {HeaderSize, MarkerLen, ReadAhead, Window, Optimistic} \subseteq Nat \ {0}
    /\ HeaderSize <= SegmentSize
    /\ Shapes \subseteq Seq(Nat \ {0}) \ {<<>>}

VARIABLES
    segs,       \* the segments in order: base, cells, flushed, offsets
    writer,     \* append_batch in progress: pc, write offset, by how much the next
                \* byte lands behind it (drift), cells, rolled
    snap,       \* segments of the published snapshot, the last one active
    watermark,  \* the published watermark
    log,        \* the committed records in order of position
    lost,       \* a rollover's batch failed: its segment was never published
    astray,     \* the segment holds a record its offsets do not name, see Sync
    rd,         \* the one read under way
    batches, faults

vars == <<segs, writer, snap, watermark, log, lost, astray, rd, batches, faults>>

-----------------------------------------------------------------------------
\* Frames, cells, segments.
Record(n, i, len) == [kind |-> "data", batch |-> n, index |-> i, len |-> len]

Marker(n) == [kind |-> "commit", batch |-> n, index |-> 0, len |-> MarkerLen]

Zero == [frame |-> [kind |-> "zero", batch |-> 0, index |-> 0, len |-> 0], nth |-> 0]

CellsOf(frame) == [k \in 1..frame.len |-> [frame |-> frame, nth |-> k]]

Frames(n, shape) == [i \in DOMAIN shape |-> Record(n, i, shape[i])]

RecordCells(n, shape) ==
    FlattenSeq([i \in DOMAIN shape |-> CellsOf(Record(n, i, shape[i]))])

Layout(n, shape) == RecordCells(n, shape) \o CellsOf(Marker(n))

\* append_batch refuses a batch that an empty segment cannot hold.
ASSUME FitsAssumption ==
    \A shape \in Shapes : HeaderSize + Len(Layout(0, shape)) <= SegmentSize

\* Offsets of a batch's records when it is written at cell `at'.
Offsets(at, shape) ==
    [i \in DOMAIN shape |-> at + Len(RecordCells(0, SubSeq(shape, 1, i - 1)))]

NewSegment(base) ==
    [base |-> base, cells |-> [i \in 0 .. SegmentSize - 1 |-> Zero],
     flushed |-> HeaderSize, offsets |-> <<>>]

Overwrite(cells, at, new) ==
    [i \in DOMAIN cells |->
        IF i \in at .. at + Len(new) - 1 THEN new[i - at + 1] ELSE cells[i]]

NextPosition == LET last == segs[Len(segs)] IN last.base + Len(last.offsets)

-----------------------------------------------------------------------------
\* The writer: SegmentSet::append_batch and the publication after it.
Active == Len(segs)

IdleWriter(at, drift) ==
    [pc |-> "idle", offset |-> at, drift |-> drift, shape |-> <<>>, put |-> 0, rolled |-> FALSE]

Idle == writer.pc = "idle" /\ ~ rd.live

\* A batch that does not fit seals the active segment, which readers keep. rollover's sync moves
\* the flushed offset up to the cursor first.
Begin(shape) ==
    /\ Idle
    /\ batches < MaxBatches
    /\ batches' = batches + 1
    /\ LET fits == writer.offset + Len(Layout(0, shape)) <= SegmentSize IN
       /\ segs' = IF fits THEN segs
                   ELSE Append([segs EXCEPT ![Active].flushed = writer.offset],
                               NewSegment(NextPosition))
       /\ writer' = [pc |-> "write", shape |-> shape, put |-> 0, rolled |-> ~ fits,
                     offset |-> IF fits THEN writer.offset ELSE HeaderSize,
                     drift |-> IF fits THEN writer.drift ELSE 0]
    /\ UNCHANGED <<snap, watermark, log, lost, astray, rd, faults>>

Pending == Layout(batches, writer.shape)

\* The records and the marker pass through a BufWriter: any prefix of them may have reached the
\* page cache.
WriteThrough ==
    /\ writer.pc = "write"
    /\ writer.put < Len(Pending)
    /\ writer' = [writer EXCEPT !.put = @ + 1]
    /\ segs' = [segs EXCEPT ![Active].cells =
                    Overwrite(@, writer.offset + writer.drift + writer.put,
                              <<Pending[writer.put + 1]>>)]
    /\ UNCHANGED <<snap, watermark, log, lost, astray, rd, batches, faults>>

\* Writer::sync: flush, fsync, then the flushed offset. Behind a drift the records are not where
\* the offsets say.
Sync ==
    /\ writer.pc = "write"
    /\ writer.put = Len(Pending)
    /\ writer' = [writer EXCEPT !.pc = "sidecar"]
    /\ segs' = [segs EXCEPT ![Active].flushed = writer.offset + Len(Pending)]
    /\ log' = log \o Frames(batches, writer.shape)
    /\ astray' = (astray \/ writer.drift # 0)
    /\ UNCHANGED <<snap, watermark, lost, rd, batches, faults>>

\* append_batch returns an error. A segment the batch rolled to stays unpublished.
Fail ==
    /\ writer.pc = "write"
    /\ faults < MaxFaults
    /\ faults' = faults + 1
    /\ lost' = (lost \/ writer.rolled)
    /\ UNCHANGED <<segs, snap, watermark, log, rd, batches>>

\* Variant: a failed batch is rewound to the start of the segment's data.
RewindTooFar ==
    /\ Fail
    /\ writer' = IdleWriter(HeaderSize, 0)
    /\ UNCHANGED astray

\* A write behind the first record or the fsync fails: rewind_to leaves the bytes and moves the
\* cursor back.
AppendFails ==
    /\ Fail
    /\ writer.put >= writer.shape[1]
    /\ writer' = IdleWriter(writer.offset, 0)
    /\ UNCHANGED astray

\* The write of the first record fails half way: write_offset has not moved, so rewind_to is a
\* no-op, and the next batch lands behind the part that is out or buffered. (A record that fits
\* the buffer is safe from this; here any record may be longer.)
FirstWriteFails ==
    /\ Fail
    /\ writer.put \in 1 .. writer.shape[1] - 1
    /\ writer' = IdleWriter(writer.offset, writer.drift + writer.put)
    /\ UNCHANGED astray

\* The flush inside rewind_to fails as well: write_offset stays behind the frames that were
\* appended, the last of which ends at `end'.
FrameEnds ==
    {Len(RecordCells(0, SubSeq(writer.shape, 1, i))) : i \in DOMAIN writer.shape}
        \union {Len(Pending)}

RewindFails ==
    /\ Fail
    /\ \E end \in {e \in FrameEnds : e <= writer.put} :
        /\ \A e \in FrameEnds : e <= writer.put => e <= end
        /\ writer' = IdleWriter(writer.offset + end, writer.drift + writer.put - end)
    /\ astray' = TRUE

ExtendSidecar ==
    /\ writer.pc = "sidecar"
    /\ writer' = [writer EXCEPT !.pc = "publish"]
    /\ segs' = [segs EXCEPT ![Active].offsets = @ \o Offsets(writer.offset, writer.shape)]
    /\ UNCHANGED <<snap, watermark, log, lost, astray, rd, batches, faults>>

PublishSegments ==
    /\ writer.pc = "publish"
    /\ writer.rolled
    /\ writer' = [writer EXCEPT !.rolled = FALSE]
    /\ snap' = Active
    /\ UNCHANGED <<segs, watermark, log, lost, astray, rd, batches, faults>>

\* Variant: the watermark is published before the sidecar is extended.
PublishEarly ==
    /\ writer.pc \in {"sidecar", "publish"}
    /\ ~ writer.rolled
    /\ writer' = IF writer.pc = "publish"
                 THEN IdleWriter(writer.offset + Len(Pending), writer.drift)
                 ELSE writer
    /\ watermark' = Len(log)
    /\ UNCHANGED <<segs, snap, log, lost, astray, rd, batches, faults>>

PublishWatermark ==
    /\ writer.pc = "publish"
    /\ ~ writer.rolled
    /\ writer' = IdleWriter(writer.offset + Len(Pending), writer.drift)
    /\ watermark' = NextPosition - 1
    /\ UNCHANGED <<segs, snap, log, lost, astray, rd, batches, faults>>

WriterStep ==
    \/ \E shape \in Shapes : Begin(shape)
    \/ WriteThrough
    \/ Sync
    \/ AppendFails \/ FirstWriteFails \/ RewindFails
    \/ ExtendSidecar
    \/ PublishSegments
    \/ PublishWatermark

-----------------------------------------------------------------------------
\* The reader. A read pins what it may see, then fetches the positions `want' one after the other:
\* the cursor is at want[Len(out) + 1].
Kinds == {"forward", "back", "indexed"}

NoBuf == [at |-> 0, cells |-> <<>>]

NoRead ==
    [pc |-> "none", kind |-> "forward", live |-> FALSE, want |-> <<>>, view |-> 0,
     seg |-> 0, off |-> 0, ext |-> 0, count |-> 0, lo |-> 0, buf |-> NoBuf,
     out |-> <<>>, end |-> "open"]

Ended(how) ==
    [NoRead EXCEPT !.pc = "done", !.kind = rd.kind, !.want = rd.want,
                   !.out = rd.out, !.end = how]

Go(pc) == [rd EXCEPT !.pc = pc]

Cursor == rd.want[Len(rd.out) + 1]

Spent == Len(rd.out) = Len(rd.want)

Upwards(first, last) == [i \in 1 .. last + 1 - first |-> first + i - 1]

Downwards(first, last) == [i \in 1 .. last + 1 - first |-> last + 1 - i]

\* The positions of an indexed read, in either order.
Planned(upto) ==
    {want \in UNION {[1 .. n -> 1 .. upto] : n \in 0 .. MaxPlanned} :
        \/ \A i, j \in DOMAIN want : i < j => want[i] < want[j]
        \/ \A i, j \in DOMAIN want : i < j => want[i] > want[j]}

\* What a read of positions up to `upto' fetches.
Wanted(kind, upto) ==
    CASE kind = "forward" -> {Upwards(first, upto) : first \in 1 .. upto + 1}
      [] kind = "back"    -> {Downwards(first, upto) : first \in 1 .. upto + 1}
      [] kind = "indexed" -> Planned(upto)

\* ReadCore::load: the watermark, then the snapshot.
PinWatermark(kind) ==
    /\ rd.pc = "none"
    /\ \E want \in Wanted(kind, watermark) :
        rd' = [NoRead EXCEPT !.pc = "pin", !.kind = kind, !.want = want]

PinSnapshot ==
    /\ rd.pc = "pin"
    /\ rd' = [Go("start") EXCEPT !.view = snap]

\* scan_after, scan_from, scan_back, read_at: the coordinator reads its own set, up to
\* next_position, between two batches.
ReadLive(kind) ==
    /\ rd.pc = "none"
    /\ writer.pc = "idle"
    /\ \E want \in Wanted(kind, NextPosition - 1) :
        rd' = [NoRead EXCEPT !.pc = "start", !.kind = kind, !.want = want,
                             !.view = Active, !.live = TRUE]

\* SegmentSource::locate: the last segment of the view based at or below.
Owners(pos) == {i \in 1 .. rd.view : segs[i].base <= pos}

Locate(pos) == Max(Owners(pos))

Local(seg, pos) == pos - segs[seg].base + 1

HasOffset(seg, pos) == Local(seg, pos) \in DOMAIN segs[seg].offsets

DataOffset(seg, pos) == segs[seg].offsets[Local(seg, pos)]

Opened(seg) == [rd EXCEPT !.seg = seg, !.buf = NoBuf, !.ext = 0]

\* ReadAheadBuf: served from the buffer, stale or not, when it holds the range; else filled from
\* the aligned offset up to the end of the file.
Slice(cells, from, to) == [i \in 1 .. to - from |-> cells[from + i - 1]]

InBuf(buf, off, len) == off >= buf.at /\ off + len <= buf.at + Len(buf.cells)

Fill(off, len) ==
    LET at == off - (off % ReadAhead)
        to == Min({at + Max({ReadAhead, off + len - at}), SegmentSize})
    IN  [at |-> at, cells |-> Slice(segs[rd.seg].cells, at, to)]

BufFor(off, len) == IF InBuf(rd.buf, off, len) THEN rd.buf ELSE Fill(off, len)

CellIn(buf, off) ==
    IF InBuf(buf, off, 1) THEN buf.cells[off - buf.at + 1] ELSE Zero

\* The payload of the frame headed at `off' is there: the checksum in its head validates.
HasPayload(buf, off, frame) ==
    /\ InBuf(buf, off + 1, frame.len - 1)
    /\ \A k \in 2..frame.len : CellIn(buf, off + k - 1) = [frame |-> frame, nth |-> k]

Whole(buf, off) ==
    /\ CellIn(buf, off).nth = 1
    /\ HasPayload(buf, off, CellIn(buf, off).frame)

-----------------------------------------------------------------------------
\* Scan: forward over the records, skipping markers, rolling across segments.
ScanStart ==
    /\ rd.pc = "start" /\ rd.kind = "forward"
    /\ rd' =
        IF Spent THEN Ended("clean")
        ELSE IF Owners(Cursor) = {} THEN Ended("error")
        ELSE LET seg == Locate(Cursor) IN
             IF HasOffset(seg, Cursor)
             THEN [Opened(seg) EXCEPT !.pc = "next", !.off = DataOffset(seg, Cursor)]
             ELSE Ended("error")

\* Variant: the upper bound is checked after the record is read.
ScanNextLate ==
    /\ rd.pc = "next"
    /\ rd' = Go("peek")

ScanNext ==
    /\ rd.pc = "next"
    /\ rd' = IF Spent THEN Ended("clean") ELSE Go("peek")

\* peek loads the flushed offset once, then reads the head.
PeekLoad ==
    /\ rd.pc = "peek"
    /\ rd' = [Go("head") EXCEPT !.ext = segs[rd.seg].flushed]

\* End of the segment: the next one of the view, from its header on.
AdvanceSegment ==
    IF rd.seg < rd.view
    THEN [Opened(rd.seg + 1) EXCEPT !.pc = "peek", !.off = HeaderSize]
    ELSE Ended("clean")

PeekHead ==
    /\ rd.pc = "head"
    /\ LET buf  == BufFor(rd.off, 1)
           cell == CellIn(buf, rd.off)
           len  == cell.frame.len
       IN  rd' =
            IF rd.off + 1 > rd.ext \/ cell = Zero THEN AdvanceSegment
            ELSE IF cell.nth # 1 THEN Ended("error")
            ELSE IF rd.off + len > rd.ext THEN AdvanceSegment
            ELSE IF cell.frame.kind = "commit"
                 THEN [Go("peek") EXCEPT !.buf = buf, !.off = rd.off + len]
                 ELSE [Go("record") EXCEPT !.buf = buf]

\* read_record, sequential: the payload through the same buffer, refilled when it reaches past it.
ReadSequential ==
    /\ rd.pc = "record"
    /\ LET frame == CellIn(rd.buf, rd.off).frame
           buf   == BufFor(rd.off + 1, frame.len - 1)
       IN  rd' =
            IF rd.off + frame.len <= segs[rd.seg].flushed /\ HasPayload(buf, rd.off, frame)
            THEN [Go("next") EXCEPT !.buf = buf, !.off = rd.off + frame.len,
                                    !.out = Append(@, frame)]
            ELSE Ended("error")

-----------------------------------------------------------------------------
\* ScanBack: windows of records, cut by the sidecar, emitted downwards. `buf' holds the window and
\* `lo' the lowest position it covers, 0 when none is loaded.
BackStart ==
    /\ rd.pc = "start" /\ rd.kind = "back"
    /\ rd' = Go("segment")

EnsureSegment ==
    /\ rd.pc = "segment"
    /\ rd' =
        IF Spent THEN Ended("clean")
        ELSE IF rd.seg # 0 /\ Cursor >= segs[rd.seg].base THEN Go("window")
        ELSE IF Owners(Cursor) = {} THEN Ended("clean")
        ELSE LET seg == Locate(Cursor) IN
             [Opened(seg) EXCEPT !.pc = "count", !.ext = segs[seg].flushed, !.lo = 0]

\* The event count is read after the flushed extent, so the sidecar may lead it.
CountEvents ==
    /\ rd.pc = "count"
    /\ rd' = [Go("window") EXCEPT !.count = Len(segs[rd.seg].offsets)]

First == rd.want[Len(rd.want)]

\* The cell after the record at `pos': the next record's offset or, for the last record counted,
\* its own length; 0 when peek finds no record. peek fills a fresh buffer here: it is asked once
\* per opened segment.
EndOf(pos) ==
    LET seg  == rd.seg
        off  == DataOffset(seg, pos)
        head == segs[seg].cells[off]
    IN  IF Local(seg, pos) < rd.count
        THEN Min({DataOffset(seg, pos + 1), rd.ext})
        ELSE IF head.nth = 1 /\ head.frame.kind = "data"
                /\ off + head.frame.len <= segs[seg].flushed
             THEN Min({off + head.frame.len, rd.ext})
             ELSE 0

\* The lowest position a window ending at `end' reaches: down to `first' or the segment's base,
\* within the budget, at least the record itself.
LowestFor(pos, end) ==
    Min({pos} \union
        {p \in First .. pos :
            /\ p >= segs[rd.seg].base
            /\ \A q \in p .. pos - 1 : end - DataOffset(rd.seg, q) <= Window})

EnsureWindow ==
    /\ rd.pc = "window"
    /\ rd' =
        IF rd.lo # 0 /\ Cursor >= rd.lo THEN Go("emit")
        ELSE IF ~ HasOffset(rd.seg, Cursor) THEN Ended("error")
        ELSE LET end == EndOf(Cursor)
                 lo  == LowestFor(Cursor, end)
                 at  == DataOffset(rd.seg, lo)
             IN  IF end = 0 \/ end > segs[rd.seg].flushed \/ end < at
                 THEN Ended("error")
                 ELSE [Go("emit") EXCEPT !.lo = lo,
                            !.buf = [at |-> at, cells |-> Slice(segs[rd.seg].cells, at, end)]]

\* parse_record_ref at the record's place in the window.
EmitBack ==
    /\ rd.pc = "emit"
    /\ LET off == DataOffset(rd.seg, Cursor) IN
       rd' = IF HasOffset(rd.seg, Cursor) /\ InBuf(rd.buf, off, 1)
                /\ CellIn(rd.buf, off).frame.kind = "data" /\ Whole(rd.buf, off)
             THEN [Go("segment") EXCEPT !.out = Append(@, CellIn(rd.buf, off).frame)]
             ELSE Ended("error")

-----------------------------------------------------------------------------
\* Indexed reads: one random read per planned position, one reader per segment. A payload longer
\* than the optimistic read takes a second one.
PointStart ==
    /\ rd.pc = "start" /\ rd.kind = "indexed"
    /\ rd' =
        IF Spent THEN Ended("clean")
        ELSE IF Owners(Cursor) = {} THEN Ended("error")
        ELSE LET seg == Locate(Cursor) IN
             IF HasOffset(seg, Cursor)
             THEN [(IF seg = rd.seg THEN rd ELSE Opened(seg)) EXCEPT
                        !.pc = "point", !.off = DataOffset(seg, Cursor)]
             ELSE Ended("error")

PointRead ==
    /\ rd.pc = "point"
    /\ LET ext == segs[rd.seg].flushed
           to  == Min({rd.off + 1 + Optimistic, ext})
           buf == [at |-> rd.off, cells |-> Slice(segs[rd.seg].cells, rd.off, to)]
           cell == CellIn(buf, rd.off)
       IN  rd' =
            IF rd.off + 1 > ext \/ cell.nth # 1 \/ cell.frame.kind # "data"
                \/ rd.off + cell.frame.len > ext
            THEN Ended("error")
            ELSE [Go(IF InBuf(buf, rd.off, cell.frame.len) THEN "check" ELSE "payload")
                    EXCEPT !.buf = buf]

PointPayload ==
    /\ rd.pc = "payload"
    /\ LET len == CellIn(rd.buf, rd.off).frame.len IN
       rd' = [Go("check") EXCEPT !.buf.cells =
                <<@[1]>> \o Slice(segs[rd.seg].cells, rd.off + 1, rd.off + len)]

PointCheck ==
    /\ rd.pc = "check"
    /\ rd' = IF Whole(rd.buf, rd.off)
             THEN [Go("start") EXCEPT !.out = Append(@, CellIn(rd.buf, rd.off).frame),
                                      !.buf = NoBuf]
             ELSE Ended("error")

-----------------------------------------------------------------------------
ReaderStep ==
    /\ \/ PinSnapshot
       \/ ScanStart \/ ScanNext \/ PeekLoad \/ PeekHead \/ ReadSequential
       \/ BackStart \/ EnsureSegment \/ CountEvents \/ EnsureWindow \/ EmitBack
       \/ PointStart \/ PointRead \/ PointPayload \/ PointCheck
    /\ UNCHANGED <<segs, writer, snap, watermark, log, lost, astray, batches, faults>>

StartRead ==
    /\ \E kind \in Kinds : PinWatermark(kind) \/ ReadLive(kind)
    /\ UNCHANGED <<segs, writer, snap, watermark, log, lost, astray, batches, faults>>

\* A fresh log, or one reopened with a sealed segment. Of a segment sealed at startup a reader
\* derives the extent from the file's length, so it stops at the zeroes that follow the last
\* marker.
Reopened(shape) ==
    [base |-> 1, cells |-> Overwrite(NewSegment(1).cells, HeaderSize, Layout(0, shape)),
     flushed |-> SegmentSize, offsets |-> Offsets(HeaderSize, shape)]

Init ==
    /\ \/ /\ segs = <<NewSegment(1)>>
          /\ log = <<>>
       \/ \E shape \in Shapes :
            /\ segs = <<Reopened(shape), NewSegment(Len(shape) + 1)>>
            /\ log = Frames(0, shape)
    /\ writer = IdleWriter(HeaderSize, 0)
    /\ snap = Len(segs)
    /\ watermark = Len(log)
    /\ lost = FALSE
    /\ astray = FALSE
    /\ rd = NoRead
    /\ batches = 0
    /\ faults = 0

Next == WriterStep \/ StartRead \/ ReaderStep

Spec == Init /\ [][Next]_vars

\* A reader's steps wait for nothing: its thread only has to be scheduled.
FairSpec == Spec /\ WF_vars(ReaderStep)

-----------------------------------------------------------------------------
Cell == [frame : [kind : {"data", "commit", "zero"}, batch : 0..MaxBatches,
                  index : Nat, len : Nat],
         nth : Nat]

\* The segments' bases and sidecars, the writer's cursor and the read.
TypeOK ==
    /\ \A i \in DOMAIN segs :
        /\ segs[i].base \in 1 .. Len(log) + 1
        /\ segs[i].cells \in [0 .. SegmentSize - 1 -> Cell]
        /\ segs[i].flushed \in HeaderSize .. SegmentSize
        /\ \A k \in DOMAIN segs[i].offsets :
            segs[i].offsets[k] \in HeaderSize .. SegmentSize - 1
    /\ writer.pc \in {"idle", "write", "sidecar", "publish"}
    /\ writer.offset \in HeaderSize .. SegmentSize /\ writer.drift \in Nat
    /\ snap \in DOMAIN segs
    /\ watermark \in 0 .. Len(log)
    /\ rd.end \in {"open", "clean", "error"}
    /\ rd.seg \in 0 .. Len(segs)
    /\ rd.off \in 0 .. SegmentSize

\* Every read, however it fetches, yields the committed records at the positions asked for, in
\* order, each under its own position: never a marker, never a record of a failed batch left in
\* the page cache or in a read-ahead buffer, never one twice or skipped (Scan::next,
\* ScanBack::next, Segment::read_at_local). Excepted is what follows a batch synced behind a no-op
\* rewind, or a rewind that failed: the sidecar then names the wrong cells.
YieldsCommitted ==
    ~ astray =>
        /\ Len(rd.out) <= Len(rd.want)
        /\ \A i \in DOMAIN rd.out : rd.out[i] = log[rd.want[i]]

\* A read that has pinned a watermark never fails and never ends short of it, whatever the writer
\* does meanwhile: the flushed offset, the sidecar and the snapshot already cover it. There are
\* two exceptions: a rollover whose batch failed, for its segment is never published (the
\* coordinator compares the number of sealed segments around each append_batch alone), and records
\* astray, see YieldsCommitted.
ReadsAreWhole ==
    ~ lost /\ ~ astray =>
        /\ rd.end # "error"
        /\ rd.end = "clean" => Len(rd.out) = Len(rd.want)

\* ReadsAreWhole without its exceptions. It does not hold.
ReadsAreAlwaysWhole ==
    /\ rd.end # "error"
    /\ rd.end = "clean" => Len(rd.out) = Len(rd.want)

\* A reverse window exceeds its budget only to hold one record whole (ScanBack::ensure_window),
\* whatever markers lie between the records.
WindowIsBounded ==
    rd.pc = "emit" =>
        \/ Len(rd.buf.cells) <= Window
        \/ DataOffset(rd.seg, Cursor) = rd.buf.at

\* Content below a segment's flushed offset never changes and the offset never moves back, through
\* failures and rewinds: readers rely on it without a lock (Writer::flushed_offset,
\* Writer::rewind_to).
FlushedIsImmutable ==
    [][\A i \in DOMAIN segs :
        /\ segs'[i].flushed >= segs[i].flushed
        /\ \A c \in HeaderSize .. segs[i].flushed - 1 :
            segs'[i].cells[c] = segs[i].cells[c]]_vars

\* A read that was started ends, on whatever it meets: the scans have no bound but the records
\* themselves (Scan::position_at_data's loop, ScanBack::ensure_segment).
ReadsEnd == rd.pc # "none" ~> rd.pc = "done"
=============================================================================

------------------------------ MODULE ReadCore ------------------------------
(***************************************************************************)
(* Layer 5, publication and subscriptions (tephra/src/read): the writer    *)
(* thread publishes the segment snapshot, then the watermark, then wakes   *)
(* parked subscribers; each subscription reads (cursor, watermark] over a  *)
(* snapshot loaded after the watermark, and parks at the live edge.  Three *)
(* consumers drive it: Subscription::next_batch ("blocking"), its async    *)
(* twin ("async") and the server's run_subscribe ("server").               *)
(*                                                                         *)
(* Atomics: SeqCst accesses and everything under the notify lock           *)
(* interleave.  The watermark load of poll_batch is only Acquire: it may   *)
(* return any watermark the thread has not already seen past (`seen').     *)
(*                                                                         *)
(* An append that fails after its rollover leaves a segment nobody is      *)
(* told of: the next snapshot goes out with the next rollover only, and    *)
(* from there on the index segments are paired with the wrong log          *)
(* segments.  From that segment on (`lostFrom') a read may miss, repeat or *)
(* fail; what it hands out there is not recorded in `delivered'.           *)
(***************************************************************************)
EXTENDS Dcb

CONSTANTS
    Sub,            \* subscriptions
    Kinds,          \* who may drive each subscription
    Queries,        \* the queries a subscription may have
    Starts,         \* the positions a subscription may be opened after
    Committable,    \* the events the writer may commit
    MaxBatchEvents, \* Subscription::max_batch_events
    MaxLog,         \* bound on the log's length
    MaxBatch,       \* bound on the events of one commit
    MaxTimeouts,    \* bound on elapsed timeouts and cancelled waits
    Nobody          \* the owner of a free lock

ASSUME ReadCoreAssumption ==
    /\ Kinds \in [Sub -> SUBSET {"blocking", "async", "server"}]
    /\ Queries \subseteq Query
    /\ Starts \subseteq Nat
    /\ Committable \subseteq Event
    /\ MaxBatchEvents \in Nat \ {0}
    /\ {MaxLog, MaxBatch, MaxTimeouts} \subseteq Nat
    /\ Nobody \notin Sub

VARIABLES
    \* the writer thread
    log,          \* the durable events
    segs,         \* base positions of the segments, the last one active
    step,         \* where the writer thread is between two commits
    lostFrom,     \* the base of the first segment whose seal was lost, 0 if none
    \* ReadCore
    snap,         \* ReadCore::segments, by the bases it holds
    watermark,    \* ReadCore::watermark
    closed,       \* Notify::closed
    subscribers,  \* Notify::subscribers
    lock,         \* who holds Notify::lock
    \* subscriptions
    kind,         \* who drives it
    query,        \* Subscription::query
    start,        \* the position it was opened after
    cursor,       \* Subscription::cursor
    at,           \* where it is in its loop
    pinned,       \* the watermark load() returned
    view,         \* the snapshot load() returned
    seen,         \* the lowest watermark an Acquire load may still return
    timed,        \* whether the current wait has timed out
    heard,        \* the async listener: "none", "armed" or "notified"
    closing,      \* the poll in progress is the one after Closed
    delivered,    \* the positions below lostFrom handed to the consumer, in order
    timeouts

writerVars == <<log, segs, step, lostFrom>>
coreVars   == <<snap, watermark, closed, subscribers>>
identity   == <<kind, query, start>>
readVars   == <<cursor, pinned, view, delivered>>
waitVars   == <<seen, timed, heard, closing>>

vars == <<writerVars, coreVars, lock, identity, readVars, waitVars, at, timeouts>>

Max(a, b) == IF a > b THEN a ELSE b

Go(s, place) == at' = [at EXCEPT ![s] = place]
-----------------------------------------------------------------------------
\* The writer thread: Worker::process from the fsync on, and Worker::run's exit.

\* A batch is durable and indexed; when it began a new segment the snapshot is published first.
CommitBatch ==
    /\ step = "idle"
    /\ \E n \in 1..MaxBatch : \E batch \in [1..n -> Committable] :
        /\ Len(log) + n <= MaxLog
        /\ log' = log \o batch
    /\ \/ /\ segs' = segs
          /\ step' = "watermark"
       \/ /\ segs[Len(segs)] <= Len(log)
          /\ segs' = Append(segs, Len(log) + 1)
          /\ step' = "segments"
    /\ UNCHANGED <<lostFrom, coreVars, lock, identity, readVars, waitVars, at, timeouts>>

\* append_batch rolled over and failed: nothing is sealed or published, and the next batch, which
\* does not roll over, will not do it either.
LoseSeal ==
    /\ step = "idle"
    /\ segs[Len(segs)] <= Len(log)
    /\ segs' = Append(segs, Len(log) + 1)
    /\ lostFrom' = IF lostFrom = 0 THEN Len(log) + 1 ELSE lostFrom
    /\ UNCHANGED <<log, step, coreVars, lock, identity, readVars, waitVars, at, timeouts>>

PublishSegments ==
    /\ step = "segments"
    /\ snap' = segs
    /\ step' = "watermark"
    /\ UNCHANGED <<log, segs, lostFrom, watermark, closed, subscribers, lock, identity, readVars,
                   waitVars, at, timeouts>>

PublishWatermark ==
    /\ step = "watermark"
    /\ watermark' = Len(log)
    /\ step' = "gate"
    /\ UNCHANGED <<log, segs, lostFrom, snap, closed, subscribers, lock, identity, readVars,
                   waitVars, at, timeouts>>

\* wake(): nothing to do when the count is zero.
WakeGate ==
    /\ step = "gate"
    /\ step' = IF subscribers = 0 THEN "idle" ELSE "notify"
    /\ UNCHANGED <<log, segs, lostFrom, coreVars, lock, identity, readVars, waitVars, at,
                   timeouts>>

\* Under the lock, notify_all on the condition variable and notify on the async event: every
\* parked thread will retake the lock, every listener created before this is notified.
NotifyAll ==
    /\ lock = Nobody
    /\ at' = [s \in Sub |-> IF at[s] = "parked" THEN "woken" ELSE at[s]]
    /\ heard' = [s \in Sub |-> IF heard[s] = "armed" THEN "notified" ELSE heard[s]]

WakeNotify ==
    /\ step = "notify"
    /\ NotifyAll
    /\ step' = "idle"
    /\ UNCHANGED <<log, segs, lostFrom, coreVars, lock, identity, readVars, seen, timed, closing,
                   timeouts>>

\* ReadCore::close, once no commit can follow.
Close ==
    /\ step = "idle"
    /\ closed' = TRUE
    /\ step' = "closeNotify"
    /\ UNCHANGED <<log, segs, lostFrom, snap, watermark, subscribers, lock, identity, readVars,
                   waitVars, at, timeouts>>

\* Variant: the async event is forgotten at the close.
CloseNotifyThreads ==
    /\ step = "closeNotify"
    /\ lock = Nobody
    /\ at' = [s \in Sub |-> IF at[s] = "parked" THEN "woken" ELSE at[s]]
    /\ step' = "exited"
    /\ UNCHANGED <<log, segs, lostFrom, coreVars, lock, identity, readVars, waitVars, timeouts>>

CloseNotify ==
    /\ step = "closeNotify"
    /\ NotifyAll
    /\ step' = "exited"
    /\ UNCHANGED <<log, segs, lostFrom, coreVars, lock, identity, readVars, seen, timed, closing,
                   timeouts>>

-----------------------------------------------------------------------------
\* Variant: the subscriber is not counted.
SubscribeUncounted(s) ==
    /\ at[s] = "new"
    /\ \E k \in Kinds[s], q \in Queries, after \in Starts :
        /\ kind' = [kind EXCEPT ![s] = k]
        /\ query' = [query EXCEPT ![s] = q]
        /\ start' = [start EXCEPT ![s] = after]
        /\ cursor' = [cursor EXCEPT ![s] = after]
    /\ Go(s, "poll")
    /\ UNCHANGED <<writerVars, coreVars, lock, pinned, view, delivered, waitVars, timeouts>>

\* Subscription::new: the count goes up before the first watermark load. `after' comes from the
\* caller and may lie beyond the tip.
Subscribe(s) ==
    /\ at[s] = "new"
    /\ subscribers' = subscribers + 1
    /\ \E k \in Kinds[s], q \in Queries, after \in Starts :
        /\ kind' = [kind EXCEPT ![s] = k]
        /\ query' = [query EXCEPT ![s] = q]
        /\ start' = [start EXCEPT ![s] = after]
        /\ cursor' = [cursor EXCEPT ![s] = after]
    /\ Go(s, "poll")
    /\ UNCHANGED <<writerVars, snap, watermark, closed, lock, pinned, view, delivered, waitVars,
                   timeouts>>

\* poll_batch, load(): the watermark, then the snapshot.
LoadWatermark(s) ==
    /\ at[s] = "poll"
    /\ \E w \in seen[s]..watermark :
        /\ pinned' = [pinned EXCEPT ![s] = w]
        /\ seen' = [seen EXCEPT ![s] = w]
    /\ Go(s, "load")
    /\ UNCHANGED <<writerVars, coreVars, lock, identity, cursor, view, delivered, timed, heard,
                   closing, timeouts>>

LoadSnapshot(s) ==
    /\ at[s] = "load"
    /\ view' = [view EXCEPT ![s] = snap]
    /\ Go(s, "read")
    /\ UNCHANGED <<writerVars, coreVars, lock, identity, cursor, pinned, delivered, waitVars,
                   timeouts>>

\* The positions of the segments of a snapshot. A segment ends where the next one begins, known to
\* the snapshot or not.
Holds(snapshot, p) == \A i \in DOMAIN segs : i > Len(snapshot) => p < segs[i]

\* The positions no read answers for any more.
Lost(p) == lostFrom # 0 /\ lostFrom <= p

Wanted(s) ==
    {p \in DOMAIN log : cursor[s] < p /\ p <= pinned[s] /\ Matches(query[s], log[p])}

\* What Reads::plan yields of (cursor, pinned] over the loaded snapshot: these first, and then it
\* may go astray.
Readable(s) == {p \in Wanted(s) : Holds(view[s], p) /\ ~ Lost(p)}

Astray(s) == {p \in Wanted(s) : Lost(p)}

\* The next n of a set of positions, ascending.
Ascending(S, n) ==
    {b \in [1..n -> S] :
        /\ \A i, j \in 1..n : i < j => b[i] < b[j]
        /\ \A p \in S : (\E i \in 1..n : b[i] = p) \/ \A i \in 1..n : b[i] < p}

\* The Reads goes, and with it the pinned pair.
Release(s) ==
    /\ pinned' = [pinned EXCEPT ![s] = 0]
    /\ view' = [view EXCEPT ![s] = <<>>]

\* Variant: the cursor jumps to the watermark when the batch is full.
PollCappedJumps(s) ==
    /\ at[s] = "read"
    /\ Cardinality(Readable(s)) >= MaxBatchEvents
    /\ \E batch \in Ascending(Readable(s), MaxBatchEvents) :
        delivered' = [delivered EXCEPT ![s] = @ \o batch]
    /\ cursor' = [cursor EXCEPT ![s] = pinned[s]]
    /\ closing' = [closing EXCEPT ![s] = FALSE]
    /\ Release(s)
    /\ Go(s, "poll")
    /\ UNCHANGED <<writerVars, coreVars, lock, identity, seen, timed, heard, timeouts>>

\* The batch is full: the cursor stops at its last event.
PollCapped(s) ==
    /\ at[s] = "read"
    /\ \/ /\ Cardinality(Readable(s)) >= MaxBatchEvents
          /\ \E batch \in Ascending(Readable(s), MaxBatchEvents) :
              /\ delivered' = [delivered EXCEPT ![s] = @ \o batch]
              /\ cursor' = [cursor EXCEPT ![s] = batch[MaxBatchEvents]]
       \/ /\ Cardinality(Readable(s)) < MaxBatchEvents
          /\ \E batch \in Ascending(Readable(s), Cardinality(Readable(s))) :
              delivered' = [delivered EXCEPT ![s] = @ \o batch]
          /\ \E last \in Astray(s) : cursor' = [cursor EXCEPT ![s] = last]
    /\ closing' = [closing EXCEPT ![s] = FALSE]
    /\ Release(s)
    /\ Go(s, "poll")
    /\ UNCHANGED <<writerVars, coreVars, lock, identity, seen, timed, heard, timeouts>>

\* The read ran out: the cursor jumps to the pinned watermark, past any tail that does not match.
\* An empty batch goes on to wait, or ends the subscription when this was the last poll after
\* Closed.
PollExhausted(s) ==
    /\ at[s] = "read"
    /\ Cardinality(Readable(s)) < MaxBatchEvents
    /\ \E batch \in Ascending(Readable(s), Cardinality(Readable(s))) :
        delivered' = [delivered EXCEPT ![s] = @ \o batch]
    /\ cursor' = [cursor EXCEPT ![s] = Max(@, pinned[s])]
    /\ closing' = [closing EXCEPT ![s] = FALSE]
    /\ timed' = [timed EXCEPT ![s] = FALSE]
    /\ \/ /\ Readable(s) \cup Astray(s) # {}
          /\ Go(s, "poll")
       \/ /\ Readable(s) = {}
          /\ Go(s, IF closing[s] THEN "ended"
                   ELSE IF kind[s] = "async" THEN "asyncWait" ELSE "wait")
    /\ Release(s)
    /\ UNCHANGED <<writerVars, coreVars, lock, identity, seen, heard, timeouts>>

\* The read fails on a position the index knows and the snapshot does not: what was gathered is
\* dropped and the cursor stays. The server's loop ends with the error, next_batch hands it to a
\* caller that may go on.
PollFails(s) ==
    /\ at[s] = "read"
    /\ Astray(s) # {}
    /\ closing' = [closing EXCEPT ![s] = FALSE]
    /\ Release(s)
    /\ Go(s, IF kind[s] = "server" THEN "ended" ELSE "poll")
    /\ UNCHANGED <<writerVars, coreVars, lock, identity, cursor, delivered, seen, timed, heard,
                   timeouts>>

-----------------------------------------------------------------------------
\* Variant: no last poll.
SeeClosedEnds(s) ==
    /\ seen' = [seen EXCEPT ![s] = watermark]
    /\ closing' = [closing EXCEPT ![s] = TRUE]
    /\ Go(s, "ended")

\* What follows WaitOutcome::Closed: next_batch polls once more, since the last commit may have
\* come between its poll and the close; the server's loop just returns. The Acquire load of
\* `closed' orders every earlier watermark store before the next load.
SeeClosed(s) ==
    /\ seen' = [seen EXCEPT ![s] = watermark]
    /\ closing' = [closing EXCEPT ![s] = TRUE]
    /\ Go(s, IF kind[s] = "server" THEN "ended" ELSE "poll")

\* wait_past: take the lock, or retake it after the condition variable.
TakeLock(s) ==
    /\ at[s] \in {"wait", "woken"}
    /\ lock = Nobody
    /\ lock' = s
    /\ Go(s, "checkClosed")
    /\ UNCHANGED <<writerVars, coreVars, identity, readVars, waitVars, timeouts>>

CheckClosed(s) ==
    /\ at[s] = "checkClosed"
    /\ \/ /\ closed
          /\ SeeClosed(s)
          /\ lock' = Nobody
       \/ /\ ~ closed
          /\ Go(s, "checkWatermark")
          /\ UNCHANGED <<seen, closing, lock>>
    /\ UNCHANGED <<writerVars, coreVars, identity, readVars, timed, heard, timeouts>>

\* The gate: past the cursor, return; else park, which frees the lock in the same step. A wait
\* that has timed out returns TimedOut instead.
CheckWatermark(s) ==
    /\ at[s] = "checkWatermark"
    /\ seen' = [seen EXCEPT ![s] = watermark]
    /\ lock' = Nobody
    /\ Go(s, IF watermark > cursor[s] \/ timed[s] THEN "poll" ELSE "parked")
    /\ UNCHANGED <<writerVars, coreVars, identity, readVars, timed, heard, closing, timeouts>>

\* wait_timeout elapses (the server's tick): the lock is retaken and both conditions are looked at
\* once more.
Timeout(s) ==
    /\ at[s] = "parked"
    /\ kind[s] = "server"
    /\ timeouts < MaxTimeouts
    /\ timeouts' = timeouts + 1
    /\ timed' = [timed EXCEPT ![s] = TRUE]
    /\ Go(s, "woken")
    /\ UNCHANGED <<writerVars, coreVars, lock, identity, readVars, seen, heard, closing>>

\* wait_past_async: check, create the listener, check again, await.
AsyncClosed(s) ==
    /\ at[s] \in {"asyncWait", "asyncAgain"}
    /\ \/ /\ closed
          /\ SeeClosed(s)
          /\ heard' = [heard EXCEPT ![s] = "none"]
       \/ /\ ~ closed
          /\ Go(s, IF at[s] = "asyncWait" THEN "asyncGate" ELSE "asyncLastGate")
          /\ UNCHANGED <<seen, closing, heard>>
    /\ UNCHANGED <<writerVars, coreVars, lock, identity, readVars, timed, timeouts>>

AsyncGate(s) ==
    /\ at[s] \in {"asyncGate", "asyncLastGate"}
    /\ seen' = [seen EXCEPT ![s] = watermark]
    /\ \/ /\ watermark > cursor[s]
          /\ heard' = [heard EXCEPT ![s] = "none"]
          /\ Go(s, "poll")
       \/ /\ watermark <= cursor[s]
          /\ Go(s, IF at[s] = "asyncGate" THEN "listen" ELSE "await")
          /\ UNCHANGED heard
    /\ UNCHANGED <<writerVars, coreVars, lock, identity, readVars, timed, closing, timeouts>>

Listen(s) ==
    /\ at[s] = "listen"
    /\ heard' = [heard EXCEPT ![s] = "armed"]
    /\ Go(s, "asyncAgain")
    /\ UNCHANGED <<writerVars, coreVars, lock, identity, readVars, seen, timed, closing, timeouts>>

Await(s) ==
    /\ at[s] = "await"
    /\ heard[s] = "notified"
    /\ heard' = [heard EXCEPT ![s] = "none"]
    /\ Go(s, "asyncWait")
    /\ UNCHANGED <<writerVars, coreVars, lock, identity, readVars, seen, timed, closing, timeouts>>

\* The caller's select! drops the pending wait and calls again later.
CancelWait(s) ==
    /\ at[s] = "await"
    /\ timeouts < MaxTimeouts
    /\ timeouts' = timeouts + 1
    /\ heard' = [heard EXCEPT ![s] = "none"]
    /\ Go(s, "poll")
    /\ UNCHANGED <<writerVars, coreVars, lock, identity, readVars, seen, timed, closing>>

\* Drop for Subscription, between two calls or after the end.
DropSubscription(s) ==
    /\ at[s] \in {"ended", "poll"}
    /\ ~ (at[s] = "poll" /\ closing[s])
    /\ subscribers' = subscribers - 1
    /\ Go(s, "dropped")
    /\ UNCHANGED <<writerVars, snap, watermark, closed, lock, identity, readVars, waitVars,
                   timeouts>>

-----------------------------------------------------------------------------
Init ==
    /\ log = <<>>
    /\ segs = <<1>>
    /\ step = "idle"
    /\ lostFrom = 0
    /\ snap = <<1>>
    /\ watermark = 0
    /\ closed = FALSE
    /\ subscribers = 0
    /\ lock = Nobody
    /\ kind = [s \in Sub |-> "blocking"]
    /\ query = [s \in Sub |-> Nothing]
    /\ start = [s \in Sub |-> 0]
    /\ cursor = [s \in Sub |-> 0]
    /\ at = [s \in Sub |-> "new"]
    /\ pinned = [s \in Sub |-> 0]
    /\ view = [s \in Sub |-> <<>>]
    /\ seen = [s \in Sub |-> 0]
    /\ timed = [s \in Sub |-> FALSE]
    /\ heard = [s \in Sub |-> "none"]
    /\ closing = [s \in Sub |-> FALSE]
    /\ delivered = [s \in Sub |-> <<>>]
    /\ timeouts = 0

\* The writer between two commits, and its exit's second half.
Publish == PublishSegments \/ PublishWatermark \/ WakeGate \/ WakeNotify \/ CloseNotify

\* A subscription driven by a consumer that keeps calling it.
Drive(s) ==
    \/ LoadWatermark(s) \/ LoadSnapshot(s) \/ PollCapped(s) \/ PollExhausted(s) \/ PollFails(s)
    \/ TakeLock(s) \/ CheckClosed(s) \/ CheckWatermark(s)
    \/ AsyncClosed(s) \/ AsyncGate(s) \/ Listen(s) \/ Await(s)

Next ==
    \/ CommitBatch \/ LoseSeal \/ Publish \/ Close
    \/ \E s \in Sub : Subscribe(s) \/ Drive(s) \/ Timeout(s) \/ CancelWait(s)
                        \/ DropSubscription(s)

Spec == Init /\ [][Next]_vars

\* The writer finishes what it began and consumers keep calling; timeouts and cancelled waits may
\* never happen, nor commits, closes or drops.
FairSpec == Spec /\ WF_vars(Publish) /\ \A s \in Sub : WF_vars(Drive(s))
-----------------------------------------------------------------------------
\* Properties.

Live(s) == at[s] \notin {"new", "ended", "dropped"}

\* Every variable holds what the Rust type behind it can hold.
TypeOK ==
    /\ log \in Seq(Event)
    /\ segs \in Seq(Nat)
    /\ step \in {"idle", "segments", "watermark", "gate", "notify", "closeNotify", "exited"}
    /\ lostFrom \in Nat
    /\ snap \in Seq(Nat)
    /\ watermark \in Nat
    /\ closed \in BOOLEAN
    /\ subscribers \in Nat
    /\ lock \in Sub \cup {Nobody}
    /\ kind \in [Sub -> {"blocking", "async", "server"}]
    /\ query \in [Sub -> Query]
    /\ start \in [Sub -> Nat]
    /\ cursor \in [Sub -> Nat]
    /\ at \in [Sub -> {"new", "poll", "load", "read", "wait", "woken", "checkClosed",
                       "checkWatermark", "parked", "asyncWait", "asyncGate", "listen",
                       "asyncAgain", "asyncLastGate", "await", "ended", "dropped"}]
    /\ pinned \in [Sub -> Nat]
    /\ view \in [Sub -> Seq(Nat)]
    /\ seen \in [Sub -> Nat]
    /\ timed \in [Sub -> BOOLEAN]
    /\ heard \in [Sub -> {"none", "armed", "notified"}]
    /\ closing \in [Sub -> BOOLEAN]
    /\ delivered \in [Sub -> Seq(Nat)]
    /\ timeouts \in Nat

\* A loaded snapshot covers the watermark loaded before it, however many rollovers lie between the
\* two loads (read/mod.rs, ordering note), up to the first segment whose seal was lost.
PinnedIsCovered ==
    \A s \in Sub : at[s] = "read" =>
        \A p \in 1..pinned[s] : p \in DOMAIN log /\ (Lost(p) \/ Holds(view[s], p))

\* No gap and no duplicate: what a subscription was handed is exactly the matching events in
\* (start, cursor], in log order, through every seam between catch-up, full batches, failed reads,
\* waits and the close; up to the first segment whose seal was lost.
DeliveredExactly ==
    \A s \in Sub :
        LET d == delivered[s] IN
        /\ \A i, j \in DOMAIN d : i < j => d[i] < d[j]
        /\ {d[i] : i \in DOMAIN d} =
              {p \in DOMAIN log : /\ start[s] < p /\ p <= cursor[s] /\ ~ Lost(p)
                                  /\ Matches(query[s], log[p])}

\* When next_batch answers None the subscription has been handed all the store will ever hold, the
\* batch committed just before the close included.
EndedIsDrained ==
    \A s \in Sub :
        at[s] = "ended" /\ kind[s] # "server" => closed /\ cursor[s] >= Len(log)

\* No wakeup is lost: a published event reaches every subscription that wants it, with no further
\* commit, timeout or cancel to help, unless its reads fail over a segment whose seal was lost.
EventsReachSubscribers ==
    \A s \in Sub : \A p \in 1..MaxLog :
        (Live(s) /\ p <= watermark /\ p > start[s] /\ Matches(query[s], log[p]))
            ~> (cursor[s] >= p \/ ~ Live(s) \/ lostFrom # 0)

\* A close ends every subscription, parked or not, that is not handed the error of such a read
\* over and over.
CloseEndsSubscribers == \A s \in Sub : (closed /\ Live(s)) ~> (~ Live(s) \/ lostFrom # 0)
=============================================================================

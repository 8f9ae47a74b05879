------------------------------ MODULE ReadPool ------------------------------
(***************************************************************************)
(* The async read pool (tephra/src/read/pool.rs).  Worker threads take     *)
(* jobs from a bounded queue, run each read on a watermark they pin when   *)
(* they start it, and stream its events in batches over a bounded channel  *)
(* to the ReadStream that asked.  A stream submits its job the first time  *)
(* it is polled; dropping the pool joins the workers.                      *)
(*                                                                         *)
(* What a read returns is IndexReads' subject: here it is the positions of *)
(* a range, in the direction asked for and up to the limit.  Both channels *)
(* are the flume crate's: a receiver takes the oldest message and lets the *)
(* oldest parked sender's in, so a queue is one sequence whose part beyond *)
(* the capacity belongs to senders that still wait.                        *)
(***************************************************************************)
EXTENDS Integers, SequencesExt, FiniteSetsExt

CONSTANTS
    Workers, Streams,
    Drains,          \* the streams whose consumers go on polling
    Jobs,            \* the reads a caller may ask for
    Size,            \* bytes of the event at each position
    BatchEvents, BatchBytes, ChannelDepth, QueueCapacity,   \* ReadPoolConfig
    MaxPublished,    \* bound on the log
    MaxFaults        \* bound on failed and panicking reads

NoLimit == 0 - 1
Nobody == "nobody"

ASSUME ReadPoolAssumption ==
    /\ Drains \subseteq Streams
    /\ Jobs \subseteq [cursor : Nat, reverse : BOOLEAN, limit : Nat \cup {NoLimit}]
    /\ Size \in [1..MaxPublished -> Nat]
    /\ {BatchEvents, BatchBytes, ChannelDepth, QueueCapacity} \subseteq Nat \ {0}
    /\ {MaxPublished, MaxFaults} \subseteq Nat

VARIABLES
    pool,        \* "open", "signalled", "closing" or "joined"
    queue,       \* streams whose job was submitted, oldest first
    stream,      \* per stream: its state, job, channel and what its consumer got
    worker,      \* per worker: the job it runs and how far it is
    faults

vars == <<pool, queue, stream, worker, faults>>
-----------------------------------------------------------------------------
\* ReadHandle::read and read_back with the watermark at `upto'.
ReadRange(job, upto) ==
    LET first == IF job.reverse THEN 1 ELSE job.cursor + 1
        last  == IF job.reverse THEN Min({upto, Max({job.cursor - 1, 0})}) ELSE upto
        count == Max({last - first + 1, 0})
        all   == [i \in 1..count |-> IF job.reverse THEN last + 1 - i ELSE first + i - 1]
    IN SubSeq(all, 1, IF job.limit = NoLimit THEN count ELSE Min({count, job.limit}))

Bytes(batch) == FoldLeft(LAMBDA sum, p : sum + Size[p], 0, batch)

IdleWorker == [at |-> "idle", s |-> Nobody, reads |-> <<>>, item |-> <<>>, failed |-> FALSE]

Unused == [at |-> "unused", job |-> [cursor |-> 0, reverse |-> FALSE, limit |-> NoLimit],
           pinned |-> 0, out |-> <<>>, sender |-> FALSE, got |-> <<>>, told |-> "nothing"]

Closing == pool # "open"

\* The clones of the job sender: the pool's own, and the one the submit future of a stream keeps
\* until it has completed.
Submitting(s) == stream[s].at \in {"lazy", "waiting"}

SendersGone == pool \in {"closing", "joined"} /\ \A s \in Streams : ~Submitting(s)
-----------------------------------------------------------------------------
\* The caller. ReadPool::read and read_back build the job and its channel and hand out a stream
\* that has submitted nothing yet. read_all and read_all_back are the same with the caller as the
\* consumer; they borrow the pool, which therefore is not dropped meanwhile.
Read(s, job) ==
    /\ stream[s].at = "unused"
    /\ ~Closing
    /\ stream' = [stream EXCEPT ![s].at = "lazy", ![s].job = job, ![s].sender = TRUE]
    /\ UNCHANGED <<pool, queue, worker, faults>>

\* ReadStream::poll_next while Submitting. The first poll hands the job over; when the queue is
\* full the future waits for its turn, and a poll after that completes it and lets go of the
\* sender.
PollSubmit(s) ==
    /\ stream[s].at = "lazy"
    /\ queue' = Append(queue, s)
    /\ stream' = [stream EXCEPT ![s].at =
                      IF Len(queue) < QueueCapacity THEN "streaming" ELSE "waiting"]
    /\ UNCHANGED <<pool, worker, faults>>

Accepted(s) == s \notin ToSet(SubSeq(queue, QueueCapacity + 1, Len(queue)))

PollWaiting(s) ==
    /\ stream[s].at = "waiting"
    /\ Accepted(s)
    /\ stream' = [stream EXCEPT ![s].at = "streaming"]
    /\ UNCHANGED <<pool, queue, worker, faults>>

\* poll_next while Streaming: the oldest item, or the end once the worker has dropped its senders.
\* An error is the final item.
PollItem(s) ==
    /\ stream[s].at = "streaming"
    /\ stream[s].out # <<>>
    /\ LET item == Head(stream[s].out)
       IN stream' = [stream EXCEPT ![s].out = Tail(@),
                        ![s].got = @ \o item.batch,
                        ![s].told = IF item.err = "none" THEN @ ELSE item.err]
    /\ UNCHANGED <<pool, queue, worker, faults>>

PollEnd(s) ==
    /\ stream[s].at = "streaming"
    /\ stream[s].out = <<>>
    /\ ~stream[s].sender
    /\ stream' = [stream EXCEPT ![s].at = "ended"]
    /\ UNCHANGED <<pool, queue, worker, faults>>

\* The consumer drops its stream. A job still waiting for a slot goes with it; an accepted one
\* stays and its worker finds the channel closed.
DropStream(s) ==
    /\ stream[s].at \in {"lazy", "waiting", "streaming"}
    /\ queue' = IF Accepted(s) THEN queue
                ELSE RemoveAt(queue, CHOOSE i \in DOMAIN queue : queue[i] = s)
    /\ stream' = [stream EXCEPT ![s].at = "dropped", ![s].out = <<>>,
                     ![s].sender = @ /\ stream[s].at # "lazy" /\ Accepted(s)]
    /\ UNCHANGED <<pool, worker, faults>>
-----------------------------------------------------------------------------
\* A worker: worker_loop, run_job and send_item.
Receive(w) ==
    /\ worker[w].at = "idle"
    /\ queue # <<>>
    /\ queue' = Tail(queue)
    /\ worker' = [worker EXCEPT ![w] = [IdleWorker EXCEPT !.at = "start", !.s = Head(queue)]]
    /\ UNCHANGED <<pool, stream, faults>>

\* The read pins the watermark of the moment when the worker begins it.
BeginRead(w) ==
    /\ worker[w].at = "start"
    /\ \E watermark \in 0..MaxPublished :
        LET s == worker[w].s
        IN /\ worker' = [worker EXCEPT ![w].at = "scan",
                                       ![w].reads = ReadRange(stream[s].job, watermark)]
           /\ stream' = [stream EXCEPT ![s].pinned = watermark]
    /\ UNCHANGED <<pool, queue, faults>>

BatchFull(batch) == Len(batch) >= BatchEvents \/ Bytes(batch) >= BatchBytes

ScanNext(w) ==
    /\ worker[w].at = "scan"
    /\ worker[w].reads # <<>>
    /\ LET batch == Append(worker[w].item, Head(worker[w].reads))
       IN worker' = [worker EXCEPT ![w].reads = Tail(@), ![w].item = batch,
                        ![w].at = IF BatchFull(batch) THEN "check" ELSE "scan"]
    /\ UNCHANGED <<pool, queue, stream, faults>>

\* Variant: a sender of the channel outlives the job.
FinishJobOpen(w) ==
    /\ worker' = [worker EXCEPT ![w] = IdleWorker]
    /\ UNCHANGED stream

\* The end of a job: both senders of its channel are dropped.
FinishJob(w) ==
    /\ worker' = [worker EXCEPT ![w] = IdleWorker]
    /\ stream' = [stream EXCEPT ![worker[w].s].sender = FALSE]

ScanEnd(w) ==
    /\ worker[w].at = "scan"
    /\ worker[w].reads = <<>>
    /\ IF worker[w].item = <<>>
       THEN FinishJob(w)
       ELSE /\ worker' = [worker EXCEPT ![w].at = "check"]
            /\ UNCHANGED stream
    /\ UNCHANGED <<pool, queue, faults>>

\* reads.next() yields an error: what was gathered is left, the error is the item to send.
ScanFails(w) ==
    /\ worker[w].at = "scan"
    /\ faults < MaxFaults
    /\ faults' = faults + 1
    /\ worker' = [worker EXCEPT ![w].at = "check", ![w].failed = TRUE,
                                ![w].reads = <<>>, ![w].item = <<>>]
    /\ UNCHANGED <<pool, queue, stream>>

\* Variant: the shutdown flag is not looked at before parking.
SendCheckOnce(w) ==
    /\ worker[w].at = "check"
    /\ worker' = [worker EXCEPT ![w].at = "send"]
    /\ UNCHANGED <<pool, queue, stream, faults>>

\* send_item: look for the shutdown, then park on the channel for at most SHUTDOWN_POLL, and
\* again.
SendCheck(w) ==
    /\ worker[w].at = "check"
    /\ IF Closing
       THEN FinishJob(w)
       ELSE /\ worker' = [worker EXCEPT ![w].at = "send"]
            /\ UNCHANGED stream
    /\ UNCHANGED <<pool, queue, faults>>

HasRoom(s) == Len(stream[s].out) < ChannelDepth

SendOk(w) ==
    LET s == worker[w].s IN
    /\ worker[w].at = "send"
    /\ stream[s].at # "dropped"
    /\ HasRoom(s)
    /\ LET item == [batch |-> worker[w].item,
                    err |-> IF worker[w].failed THEN "error" ELSE "none"]
           done == worker[w].failed \/ (worker[w].reads = <<>> /\ ~BatchFull(worker[w].item))
       IN /\ stream' = [stream EXCEPT ![s].out = Append(@, item), ![s].sender = ~done]
          /\ worker' = [worker EXCEPT ![w] = IF done THEN IdleWorker
                           ELSE [@ EXCEPT !.at = "scan", !.item = <<>>]]
    /\ UNCHANGED <<pool, queue, faults>>

SendTimeout(w) ==
    /\ worker[w].at = "send"
    /\ stream[worker[w].s].at # "dropped"
    /\ ~HasRoom(worker[w].s)
    /\ worker' = [worker EXCEPT ![w].at = "check"]
    /\ UNCHANGED <<pool, queue, stream, faults>>

SendDisconnected(w) ==
    /\ worker[w].at = "send"
    /\ stream[worker[w].s].at = "dropped"
    /\ FinishJob(w)
    /\ UNCHANGED <<pool, queue, faults>>

\* A panic inside the read. The retained sender reports it, with a send that has no timeout and
\* looks for no shutdown.
Panic(w) ==
    /\ worker[w].at \in {"start", "scan"}
    /\ faults < MaxFaults
    /\ faults' = faults + 1
    /\ worker' = [worker EXCEPT ![w].at = "abort", ![w].reads = <<>>, ![w].item = <<>>]
    /\ UNCHANGED <<pool, queue, stream>>

\* Variant: a panic ends the job without a marker.
SwallowPanic(w) ==
    /\ worker[w].at = "abort"
    /\ FinishJob(w)
    /\ UNCHANGED <<pool, queue, faults>>

SendAborted(w) ==
    LET s == worker[w].s IN
    /\ worker[w].at = "abort"
    /\ stream[s].at = "dropped" \/ HasRoom(s)
    /\ worker' = [worker EXCEPT ![w] = IdleWorker]
    /\ stream' = [stream EXCEPT
                     ![s].out = IF stream[s].at = "dropped" THEN @
                                ELSE Append(@, [batch |-> <<>>, err |-> "aborted"]),
                     ![s].sender = FALSE]
    /\ UNCHANGED <<pool, queue, faults>>

\* recv fails once the queue is empty and every job sender is gone.
WorkerExit(w) ==
    /\ worker[w].at = "idle"
    /\ queue = <<>>
    /\ SendersGone
    /\ worker' = [worker EXCEPT ![w].at = "exited"]
    /\ UNCHANGED <<pool, queue, stream, faults>>
-----------------------------------------------------------------------------
\* Drop for ReadPool: signal, drop the sender, join every worker.
Signal ==
    /\ pool = "open"
    /\ pool' = "signalled"
    /\ UNCHANGED <<queue, stream, worker, faults>>

DropSender ==
    /\ pool = "signalled"
    /\ pool' = "closing"
    /\ UNCHANGED <<queue, stream, worker, faults>>

Join ==
    /\ pool = "closing"
    /\ \A w \in Workers : worker[w].at = "exited"
    /\ pool' = "joined"
    /\ UNCHANGED <<queue, stream, worker, faults>>

-----------------------------------------------------------------------------
Init ==
    /\ pool = "open"
    /\ queue = <<>>
    /\ stream = [s \in Streams |-> Unused]
    /\ worker = [w \in Workers |-> IdleWorker]
    /\ faults = 0

Poll(s) == PollSubmit(s) \/ PollWaiting(s)

Take(s) == PollItem(s) \/ PollEnd(s)

Work(w) ==
    \/ Receive(w) \/ BeginRead(w) \/ ScanNext(w) \/ ScanEnd(w)
    \/ SendCheck(w) \/ SendOk(w) \/ SendTimeout(w) \/ SendDisconnected(w)
    \/ SendAborted(w) \/ WorkerExit(w)

ClosePool == DropSender \/ Join

Next ==
    \/ \E s \in Streams :
        \/ \E job \in Jobs : Read(s, job)
        \/ Poll(s) \/ Take(s) \/ DropStream(s)
    \/ \E w \in Workers : Work(w) \/ ScanFails(w) \/ Panic(w)
    \/ Signal \/ ClosePool

\* The threads run; a dropping pool goes on.
ThreadsRun ==
    /\ \A w \in Workers : WF_vars(Work(w))
    /\ WF_vars(ClosePool)

\* The consumers of Drains poll their stream to its end; the others may hold on to a stream they
\* never poll.
ConsumersPoll == \A s \in Drains : WF_vars(Poll(s)) /\ WF_vars(Take(s))

Spec == Init /\ [][Next]_vars /\ ThreadsRun /\ ConsumersPoll

-----------------------------------------------------------------------------
Item == [batch : Seq(1..MaxPublished), err : {"none", "error", "aborted"}]

StreamType ==
    [at : {"unused", "lazy", "waiting", "streaming", "ended", "dropped"},
     job : Jobs \cup {Unused.job}, pinned : 0..MaxPublished, out : Seq(Item), sender : BOOLEAN,
     got : Seq(1..MaxPublished), told : {"nothing", "error", "aborted"}]

WorkerType ==
    [at : {"idle", "start", "scan", "check", "send", "abort", "exited"},
     s : Streams \cup {Nobody}, reads : Seq(1..MaxPublished), item : Seq(1..MaxPublished),
     failed : BOOLEAN]

TypeOK ==
    /\ pool \in {"open", "signalled", "closing", "joined"}
    /\ queue \in Seq(Streams) /\ IsInjective(queue)
    /\ stream \in [Streams -> StreamType]
    /\ worker \in [Workers -> WorkerType]
    /\ faults \in 0..MaxFaults

\* What a consumer has received is the beginning of its read, in order and with nothing left out;
\* and a stream that ended without an error has all of it, unless the pool was being dropped.
\* pool.rs: "a truncated result is never mistaken for a completed one". A dropped pool is the
\* exception the code makes: the abandoned stream just ends.
CleanEndIsWhole ==
    \A s \in Streams :
        LET whole == ReadRange(stream[s].job, stream[s].pinned)
        IN stream[s].at # "unused" =>
            /\ IsPrefix(stream[s].got, whole)
            /\ stream[s].at = "ended" /\ stream[s].told = "nothing" /\ ~Closing =>
                   stream[s].got = whole

\* Memory: the events a read keeps in flight, in its channel and in the worker's hands, never
\* exceed the configured depth of full batches, and a batch is past BatchBytes by at most its last
\* event.
InFlightBounded ==
    \A w \in Workers : worker[w].s # Nobody =>
        LET batches == {stream[worker[w].s].out[i].batch :
                            i \in DOMAIN stream[worker[w].s].out} \cup {worker[w].item}
        IN /\ Len(stream[worker[w].s].out) <= ChannelDepth
           /\ \A b \in batches : b # <<>> =>
                  Len(b) <= BatchEvents /\ Bytes(Front(b)) < BatchBytes

\* While fewer consumers than workers sit on an undrained stream, every read somebody drains comes
\* to its end: a slow consumer, a failed or a panicking read costs one worker at most.
DrainedReadsEnd ==
    \A s \in Drains : stream[s].at = "lazy" ~> stream[s].at \in {"ended", "dropped"}

\* The two ways a caller holds the drop of the pool up: a stream whose submit future still owns a
\* clone of the job sender keeps the workers in recv, and a panicked read is reported with a send
\* that never gives up.
HeldOpen ==
    \/ \E s \in Streams : Submitting(s)
    \/ \E w \in Workers : worker[w].at = "abort"

\* Dropping the pool returns, although streams are left undrained, unless a caller holds it up for
\* ever in one of these two ways.
DropReturnsUnlessHeld == pool = "signalled" ~> (pool = "joined" \/ []HeldOpen)

\* pool.rs on ReadPool::shutdown: "Bounded even if a consumer is holding an undrained stream".
\* HeldOpen refutes it.
DropReturns == pool = "signalled" ~> pool = "joined"
=============================================================================

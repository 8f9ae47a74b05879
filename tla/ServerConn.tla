----------------------------- MODULE ServerConn -----------------------------
(***************************************************************************)
(* One connection of the server (tephra-server/src/conn.rs) and its end.   *)
(* The reader thread takes request frames and dispatches them; appends go  *)
(* to the write coordinator and come back through the pump, reads run on   *)
(* the server-wide worker pool, each subscription has its own thread.  All *)
(* of them queue response frames on two bounded lanes, which the writer    *)
(* thread drains onto the socket, control first.                           *)
(*                                                                         *)
(* The client sends the frames of a script in order and reads what comes;  *)
(* a faulty request may meet a failing log, a panic or no thread to run on.*)
(* Time is not modelled: a timeout may strike whenever its guard allows.   *)
(* What a read returns is IndexReads' subject and how a subscription is    *)
(* woken ReadCore's: here they are a number of event frames.  A step that  *)
(* only one thread sees is taken together with the step after it.          *)
(***************************************************************************)
EXTENDS Integers, SequencesExt, FiniteSetsExt

CONSTANTS
    Scripts,        \* the sequences of requests a client may send
    AppendBudget, ReadBudget,   \* max_inflight_requests_per_conn, for each
    SubBudget,      \* max_concurrent_subscriptions
    ReadWorkers,    \* threads of the read pool
    ControlDepth, BulkDepth,    \* frames each lane holds
    MaxControlRun,  \* MAX_CONTROL_RUN
    WireDepth,      \* frames the socket buffers hold, each way
    MaxEvents       \* bound on the event frames of a read or subscription

Kinds == {"hello", "badhello", "append", "empty", "read", "subscribe", "cancel", "stats",
          "invalid", "garbage", "partial"}

ASSUME ServerConnAssumption ==
    /\ Scripts \subseteq Seq([kind : Kinds, target : Nat, faulty : BOOLEAN])
    /\ {AppendBudget, ReadBudget, SubBudget, ReadWorkers, ControlDepth, BulkDepth,
        MaxControlRun, WireDepth} \subseteq Nat \ {0}
    /\ MaxEvents \in Nat

VARIABLES
    script,     \* what this client sends, the request id being the index
    sent,       \* how many of them it has sent
    inbox,      \* frames sent and not read by the server
    got,        \* per request, the frames the client received
    socket,     \* "open" or "shut"
    running, alive,             \* the two flags workers look at
    reader,     \* the connection's own thread
    control, bulk,              \* the egress lanes
    writer,     \* the writer thread
    buf, wire,  \* frames written and not flushed, flushed and not received
    submitted,  \* appends the coordinator has not answered
    replies,    \* its answers, not yet taken by the pump
    pumping,    \* the pump thread has not left its loop
    appendFree, readFree, slotFree, subFree,    \* free permits of the semaphores
    queue,      \* read jobs waiting for a worker
    job,        \* per request, its read job or subscription
    cancels,    \* the requests with a registered cancel flag
    cancelled   \* the flags that were set

threadVars == <<reader, writer, pumping>>
laneVars   == <<control, bulk, buf, wire>>
permitVars == <<appendFree, readFree, slotFree, subFree>>
clientVars == <<script, sent, inbox, got, socket>>
jobVars    == <<queue, job, cancels, cancelled>>
vars == <<clientVars, running, alive, threadVars, laneVars, submitted, replies, permitVars,
          jobVars>>

Ids == DOMAIN script
Kind(id) == script[id].kind

Frame(id, kind, n) == [id |-> id, kind |-> kind, n |-> n]

NoJob == [at |-> "none", holds |-> "nothing", sent |-> 0, told |-> FALSE]

\* Who still has a sender of a lane: the reader and every job hold both (ConnCtx), the pump only
\* control.
JobsAlive == {id \in Ids : job[id].at \notin {"none", "done"}}
ReaderDropped == reader.at \in {"join", "done"}
BulkConnected == ~ReaderDropped \/ JobsAlive # {}
ControlConnected == BulkConnected \/ pumping
WriterGone == writer.at = "exited"

\* Variant: a job does not look at alive.
ShouldContinueDead(id) == running /\ id \notin cancelled

\* ConnCtx::should_continue and has_activity.
ShouldContinue(id) == running /\ alive /\ id \notin cancelled

HasActivity == ~( /\ appendFree = AppendBudget /\ readFree = ReadBudget
                  /\ slotFree = ReadBudget /\ subFree = SubBudget )
-----------------------------------------------------------------------------
\* The client, and the network between.
Send ==
    /\ socket = "open"
    /\ sent < Len(script)
    /\ Len(inbox) < WireDepth
    /\ sent' = sent + 1
    /\ inbox' = Append(inbox, sent + 1)
    /\ UNCHANGED <<script, got, socket, running, alive, threadVars, laneVars, submitted,
                   replies, permitVars, jobVars>>

ClientReceive ==
    /\ wire # <<>>
    /\ wire' = Tail(wire)
    /\ LET f == Head(wire)
       IN got' = IF f.id \in Ids THEN [got EXCEPT ![f.id] = Append(@, f)] ELSE got
    /\ UNCHANGED <<script, sent, inbox, socket, running, alive, threadVars, control, bulk, buf,
                   submitted, replies, permitVars, jobVars>>

\* The socket is shut down, by the peer or by ShutdownHandle::shutdown. The reader still gets
\* whatever it had buffered; what was on its way to the client is lost (had it arrived, it had
\* arrived before).
Shut ==
    /\ socket = "open"
    /\ socket' = "shut"
    /\ \E k \in 0..Len(inbox) : inbox' = SubSeq(inbox, 1, k)
    /\ wire' = <<>>
    /\ UNCHANGED <<script, sent, got, alive, threadVars, control, bulk, buf, submitted, replies,
                   permitVars, jobVars>>

Disconnect == Shut /\ UNCHANGED running

ServerShutdown ==
    /\ running
    /\ running' = FALSE
    /\ Shut
-----------------------------------------------------------------------------
\* The reader: serve_over, handle_hello and dispatch. `reader.reply' is a control frame it still
\* has to queue, `reader.closing' that it breaks out of its loop afterwards.
Polling == reader.at = "poll"

ReadsFrame(id, kinds) ==
    /\ Polling
    /\ inbox # <<>>
    /\ id = Head(inbox)
    /\ Kind(id) \in kinds
    /\ inbox' = Tail(inbox)
    /\ UNCHANGED <<script, sent, got, socket, running, alive, writer, pumping, laneVars>>

ReplyWith(frame, closing) ==
    reader' = [reader EXCEPT !.at = "reply", !.reply = <<frame>>, !.closing = closing]

HandleHello(id) ==
    /\ ReadsFrame(id, Kinds \ {"garbage", "partial"})
    /\ ~reader.established
    /\ IF Kind(id) = "hello"
       THEN reader' = [reader EXCEPT !.at = "reply", !.reply = <<Frame(id, "ack", 1)>>,
                                     !.established = TRUE]
       ELSE ReplyWith(Frame(id, "error", 1), TRUE)
    /\ UNCHANGED <<submitted, replies, permitVars, jobVars>>

\* Requests answered on the reader's own thread: handle_stats, and the ones that fail conversion
\* or carry no known kind.
DispatchInline(id) ==
    /\ ReadsFrame(id, {"hello", "badhello", "stats", "invalid"})
    /\ reader.established
    /\ ReplyWith(Frame(id, IF Kind(id) = "stats" THEN "stats" ELSE "error", 1), FALSE)
    /\ UNCHANGED <<submitted, replies, permitVars, jobVars>>

DispatchAppend(id) ==
    /\ ReadsFrame(id, {"append", "empty"})
    /\ reader.established
    /\ reader' = [reader EXCEPT !.at = "acquire", !.id = id]
    /\ UNCHANGED <<submitted, replies, permitVars, jobVars>>

\* handle_append once it has its permit. An append the handle refuses gives it back and is
\* answered here.
SubmitAppend ==
    /\ reader.at = "acquire"
    /\ appendFree > 0
    /\ IF Kind(reader.id) = "append"
       THEN /\ appendFree' = appendFree - 1
            /\ submitted' = Append(submitted, reader.id)
            /\ reader' = [reader EXCEPT !.at = "poll"]
       ELSE /\ ReplyWith(Frame(reader.id, "error", 1), FALSE)
            /\ UNCHANGED <<appendFree, submitted>>
    /\ UNCHANGED <<clientVars, running, alive, writer, pumping, laneVars, replies, readFree,
                   slotFree, subFree, jobVars>>

\* spawn_read: a permit, else an overflow slot, else a refusal.
DispatchRead(id) ==
    /\ ReadsFrame(id, {"read"})
    /\ reader.established
    /\ IF readFree = 0 /\ slotFree = 0
       THEN /\ ReplyWith(Frame(id, "error", 1), FALSE)
            /\ UNCHANGED <<readFree, slotFree, jobVars>>
       ELSE LET holds == IF readFree > 0 THEN "permit" ELSE "slot"
            IN /\ job' = [job EXCEPT ![id] = [NoJob EXCEPT !.at = "queued", !.holds = holds]]
               /\ readFree' = readFree - (IF holds = "permit" THEN 1 ELSE 0)
               /\ slotFree' = slotFree - (IF holds = "slot" THEN 1 ELSE 0)
               /\ queue' = Append(queue, id)
               /\ cancels' = cancels \cup {id}
               /\ UNCHANGED <<reader, cancelled>>
    /\ UNCHANGED <<submitted, replies, appendFree, subFree>>

\* spawn_subscribe; the thread may fail to start.
DispatchSubscribe(id) ==
    /\ ReadsFrame(id, {"subscribe"})
    /\ reader.established
    /\ \/ /\ subFree = 0
          /\ ReplyWith(Frame(id, "error", 1), FALSE)
          /\ UNCHANGED <<subFree, jobVars>>
       \/ /\ subFree > 0 /\ script[id].faulty
          /\ ReplyWith(Frame(id, "error", 1), FALSE)
          /\ UNCHANGED <<subFree, jobVars>>
       \/ /\ subFree > 0
          /\ subFree' = subFree - 1
          /\ job' = [job EXCEPT ![id] = [NoJob EXCEPT !.at = "poll"]]
          /\ cancels' = cancels \cup {id}
          /\ UNCHANGED <<reader, queue, cancelled>>
    /\ UNCHANGED <<submitted, replies, appendFree, readFree, slotFree>>

DispatchCancel(id) ==
    /\ ReadsFrame(id, {"cancel"})
    /\ reader.established
    /\ cancelled' = cancelled \cup ({script[id].target} \cap cancels)
    /\ UNCHANGED <<reader, submitted, replies, permitVars, queue, job, cancels>>

\* ConnCtx::send_control, which blocks while the lane is full and is ignored once the writer has
\* gone.
CanSend(lane, depth) == WriterGone \/ Len(lane) < depth

Queued(lane, frame) == IF WriterGone THEN lane ELSE Append(lane, frame)

LeaveLoop == [reader EXCEPT !.at = "join", !.reply = <<>>]

ReplySent ==
    /\ reader.at = "reply"
    /\ CanSend(control, ControlDepth)
    /\ control' = Queued(control, Head(reader.reply))
    /\ IF reader.closing
       THEN reader' = LeaveLoop /\ alive' = FALSE
       ELSE reader' = [reader EXCEPT !.at = "poll", !.reply = <<>>] /\ UNCHANGED alive
    /\ UNCHANGED <<clientVars, running, writer, pumping, bulk, buf, wire, submitted, replies,
                   permitVars, jobVars>>

\* The frame reader fails: a frame that is too large or does not decode is named to the client if
\* the lane has room.
ReadGarbage(id) ==
    /\ Polling
    /\ inbox # <<>>
    /\ id = Head(inbox)
    /\ Kind(id) = "garbage"
    /\ inbox' = Tail(inbox)
    /\ control' = IF ~WriterGone /\ Len(control) < ControlDepth
                  THEN Append(control, Frame(0, "error", 1)) ELSE control
    /\ reader' = LeaveLoop /\ alive' = FALSE
    /\ UNCHANGED <<script, sent, got, socket, running, writer, pumping, bulk, buf, wire,
                   submitted, replies, permitVars, jobVars>>

\* The other ways out of the loop: the end of the stream, in or between frames; a deadline, with
\* in-flight work exempt only at a frame boundary; a poll that finds the server or the connection
\* going down.
MidFrame == inbox # <<>> /\ Kind(Head(inbox)) = "partial"

StreamEnds == socket = "shut" /\ (inbox = <<>> \/ MidFrame)

GoingDown == (inbox = <<>> \/ MidFrame) /\ ~(running /\ alive)

Overdue == MidFrame \/ (inbox = <<>> /\ (~reader.established \/ ~HasActivity))

Breaks(reason) ==
    /\ Polling
    /\ reason
    /\ reader' = LeaveLoop /\ alive' = FALSE
    /\ UNCHANGED <<clientVars, running, writer, pumping, laneVars, submitted, replies,
                   permitVars, jobVars>>

\* Teardown: the loop left `alive' false and the channel handles dropped; wait for the workers,
\* the pump and the writer.
Join ==
    /\ reader.at = "join"
    /\ JobsAlive = {} /\ ~pumping /\ WriterGone
    /\ reader' = [reader EXCEPT !.at = "done"]
    /\ UNCHANGED <<clientVars, running, alive, writer, pumping, laneVars, submitted, replies,
                   permitVars, jobVars>>
-----------------------------------------------------------------------------
\* The write coordinator answers appends in order (external here; see WriteCoordinator), and
\* pump_loop turns the answers into frames.
CoordinatorReplies ==
    /\ submitted # <<>>
    /\ submitted' = Tail(submitted)
    /\ replies' = Append(replies, Head(submitted))
    /\ UNCHANGED <<clientVars, running, alive, threadVars, laneVars, permitVars, jobVars>>

PumpSend ==
    /\ pumping /\ replies # <<>>
    /\ CanSend(control, ControlDepth)
    /\ control' = Queued(control, Frame(Head(replies), "appended", 1))
    /\ replies' = Tail(replies)
    /\ appendFree' = appendFree + 1
    /\ pumping' = ~WriterGone
    /\ UNCHANGED <<clientVars, running, alive, reader, writer, bulk, buf, wire, submitted,
                   readFree, slotFree, subFree, jobVars>>

PumpEnds ==
    /\ pumping
    /\ replies = <<>> /\ submitted = <<>> /\ ReaderDropped
    /\ pumping' = FALSE
    /\ UNCHANGED <<clientVars, running, alive, reader, writer, laneVars, submitted, replies,
                   permitVars, jobVars>>
-----------------------------------------------------------------------------
\* A read job on a pool worker: ReadJob::run and run_read.
Working == {id \in Ids : Kind(id) = "read" /\ job[id].at \notin {"none", "queued", "done"}}

JobUnchanged == UNCHANGED <<clientVars, running, alive, threadVars, control, buf, wire,
                            submitted, replies, appendFree>>

JobHoldsOn == UNCHANGED <<readFree, slotFree, subFree, cancels>>

\* Variant: a job that ends in overflow keeps its slot.
EndJobKeepsSlot(id) ==
    /\ job' = [job EXCEPT ![id].at = "done", ![id].holds = "nothing"]
    /\ cancels' = cancels \ {id}
    /\ readFree' = readFree + (IF job[id].holds = "permit" THEN 1 ELSE 0)
    /\ subFree' = subFree + (IF Kind(id) = "subscribe" THEN 1 ELSE 0)
    /\ UNCHANGED slotFree

\* WorkerCleanup and the drop of what the job held.
EndJob(id) ==
    /\ job' = [job EXCEPT ![id].at = "done", ![id].holds = "nothing"]
    /\ cancels' = cancels \ {id}
    /\ readFree' = readFree + (IF job[id].holds = "permit" THEN 1 ELSE 0)
    /\ slotFree' = slotFree + (IF job[id].holds = "slot" THEN 1 ELSE 0)
    /\ subFree' = subFree + (IF Kind(id) = "subscribe" THEN 1 ELSE 0)

\* A worker takes the oldest job; one cancelled while queued does nothing.
JobStarts ==
    /\ queue # <<>>
    /\ Cardinality(Working) < ReadWorkers
    /\ queue' = Tail(queue)
    /\ LET id == Head(queue)
       IN IF id \in cancelled
          THEN EndJob(id)
          ELSE /\ job' = [job EXCEPT ![id].at = IF job[id].holds = "permit"
                                               THEN "item" ELSE "acquire"]
               /\ JobHoldsOn
    /\ JobUnchanged
    /\ UNCHANGED <<bulk, cancelled>>

\* acquire_guard_or_cancel: the overflow read trades its slot for a permit, or gives up when
\* cancelled.
JobAcquires(id) ==
    /\ job[id].at = "acquire"
    /\ \/ /\ id \notin cancelled
          /\ readFree > 0
          /\ readFree' = readFree - 1
          /\ slotFree' = slotFree + 1
          /\ job' = [job EXCEPT ![id].at = "item", ![id].holds = "permit"]
          /\ UNCHANGED <<subFree, cancels>>
       \/ /\ id \in cancelled
          /\ EndJob(id)
    /\ JobUnchanged
    /\ UNCHANGED <<bulk, queue, cancelled>>

\* reads.next(): the end of the read, or an item, on which the flags are looked at before it is
\* sent.
JobItem(id) ==
    /\ job[id].at = "item"
    /\ \/ job' = [job EXCEPT ![id].at = "end"] /\ JobHoldsOn
       \/ /\ job[id].sent < MaxEvents
          /\ IF ShouldContinue(id)
             THEN job' = [job EXCEPT ![id].at = "send"] /\ JobHoldsOn
             ELSE EndJob(id)
    /\ JobUnchanged
    /\ UNCHANGED <<bulk, queue, cancelled>>

\* An event frame of a read or a subscription, on the bulk lane.
JobSends(id) ==
    /\ job[id].at = "send"
    /\ CanSend(bulk, BulkDepth)
    /\ bulk' = Queued(bulk, Frame(id, "events", job[id].sent + 1))
    /\ IF WriterGone
       THEN EndJob(id)
       ELSE /\ job' = [job EXCEPT ![id].sent = @ + 1, ![id].told = FALSE,
                          ![id].at = IF Kind(id) = "subscribe" THEN "poll" ELSE "item"]
            /\ JobHoldsOn
    /\ JobUnchanged
    /\ UNCHANGED <<queue, cancelled>>

\* Variant: the terminal frame goes on the control lane.
JobEndsOnControl(id) ==
    /\ job[id].at \in {"end", "error"}
    /\ CanSend(control, ControlDepth)
    /\ control' = Queued(control, Frame(id, job[id].at, job[id].sent + 1))
    /\ EndJob(id)
    /\ UNCHANGED <<clientVars, running, alive, threadVars, bulk, buf, wire, submitted, replies,
                   appendFree, queue, cancelled>>

\* The terminal frame: ReadEnd, or the error that ended the read or the subscription.
JobEnds(id) ==
    /\ job[id].at \in {"end", "error"}
    /\ CanSend(bulk, BulkDepth)
    /\ bulk' = Queued(bulk, Frame(id, job[id].at, job[id].sent + 1))
    /\ EndJob(id)
    /\ JobUnchanged
    /\ UNCHANGED <<queue, cancelled>>

\* The log fails under a read or a poll.
JobFails(id) ==
    /\ job[id].at \in {"item", "poll"}
    /\ ShouldContinue(id)
    /\ script[id].faulty
    /\ job' = [job EXCEPT ![id].at = "error"]
    /\ JobHoldsOn
    /\ JobUnchanged
    /\ UNCHANGED <<bulk, queue, cancelled>>

\* A panic in a read: the pool's worker survives, the job's guards drop, and no frame is sent.
\* `told' marks the request for the properties.
JobPanics(id) ==
    /\ Kind(id) = "read" /\ job[id].at = "item"
    /\ script[id].faulty
    /\ job' = [job EXCEPT ![id] = [NoJob EXCEPT !.at = "done", !.told = TRUE]]
    /\ cancels' = cancels \ {id}
    /\ readFree' = readFree + 1
    /\ JobUnchanged
    /\ UNCHANGED <<bulk, slotFree, subFree, queue, cancelled>>
-----------------------------------------------------------------------------
\* run_subscribe: look at the flags, poll, send what there is; at the live edge say so once and
\* wait for a commit or the tick. `left' counts the batches the store still has to come.
SubPolls(id) ==
    /\ Kind(id) = "subscribe" /\ job[id].at = "poll"
    /\ IF ShouldContinue(id)
       THEN /\ \/ job[id].sent <= MaxEvents /\ job' = [job EXCEPT ![id].at = "send"]
               \/ ~job[id].told /\ job' = [job EXCEPT ![id].at = "edge"]
            /\ JobHoldsOn
       ELSE EndJob(id)
    /\ JobUnchanged
    /\ UNCHANGED <<bulk, queue, cancelled>>

SubCaughtUp(id) ==
    /\ job[id].at = "edge"
    /\ CanSend(bulk, BulkDepth)
    /\ bulk' = Queued(bulk, Frame(id, "caughtup", job[id].sent + 1))
    /\ IF WriterGone
       THEN EndJob(id)
       ELSE /\ job' = [job EXCEPT ![id].sent = @ + 1, ![id].told = TRUE, ![id].at = "poll"]
            /\ JobHoldsOn
    /\ JobUnchanged
    /\ UNCHANGED <<queue, cancelled>>
-----------------------------------------------------------------------------
\* The writer: writer_loop and drive_writer. `run' counts the control frames of this round;
\* `passed' is a ghost, the control frames written since a bulk frame began to wait.
WriterUnchanged == UNCHANGED <<script, sent, got, running, reader, pumping, submitted, replies,
                               permitVars, jobVars>>

Passing == IF bulk = <<>> THEN 0 ELSE writer.passed + 1

TakeControl(run) ==
    /\ buf' = Append(buf, Head(control))
    /\ control' = Tail(control)
    /\ writer' = [writer EXCEPT !.at = "control", !.run = run, !.passed = Passing]
    /\ UNCHANGED bulk

TakeBulk(at) ==
    /\ buf' = Append(buf, Head(bulk))
    /\ bulk' = Tail(bulk)
    /\ writer' = [writer EXCEPT !.at = at, !.run = 0, !.passed = 0]
    /\ UNCHANGED control

WriterGoes(at) ==
    /\ writer' = [writer EXCEPT !.at = at, !.run = 0]
    /\ UNCHANGED <<control, bulk, buf>>

\* Variant: the writer goes idle with frames in its buffer.
TryBulkNoFlush ==
    IF bulk # <<>>
    THEN TakeBulk(IF Len(bulk) = 1 /\ control = <<>> THEN "flushed" ELSE "control")
    ELSE WriterGoes(IF writer.run > 0 THEN "control" ELSE "idle")

\* One bulk frame, flushed when nothing else is queued; without one, the next round, or the idle
\* state once this round wrote nothing.
TryBulk ==
    IF bulk # <<>>
    THEN TakeBulk(IF Len(bulk) = 1 /\ control = <<>> THEN "flushed" ELSE "control")
    ELSE WriterGoes(IF writer.run > 0 THEN "control" ELSE IF buf = <<>> THEN "idle" ELSE "flushidle")

\* Variant: control frames are written as long as there are any.
WriteControlEndless ==
    /\ writer.at = "control"
    /\ IF control # <<>>
       THEN TakeControl(writer.run + 1)
       ELSE IF writer.run > 0
       THEN writer' = [writer EXCEPT !.at = "flushbulk"] /\ UNCHANGED <<control, bulk, buf>>
       ELSE TryBulk
    /\ WriterUnchanged
    /\ UNCHANGED <<inbox, socket, alive, wire>>

WriteControl ==
    /\ writer.at = "control"
    /\ IF control # <<>> /\ ~(writer.run >= MaxControlRun /\ bulk # <<>>)
       THEN TakeControl(writer.run + 1)
       ELSE IF writer.run > 0
       THEN writer' = [writer EXCEPT !.at = "flushbulk"] /\ UNCHANGED <<control, bulk, buf>>
       ELSE TryBulk
    /\ WriterUnchanged
    /\ UNCHANGED <<inbox, socket, alive, wire>>

WriteBulk ==
    /\ writer.at = "bulk"
    /\ TryBulk
    /\ WriterUnchanged
    /\ UNCHANGED <<inbox, socket, alive, wire>>

\* A flush that has something to write blocks while the socket takes no more; to a socket that is
\* shut it fails, or the bytes are lost.
AfterFlush == [flushbulk |-> "bulk", flushed |-> "control", flushidle |-> "idle"]

Flush ==
    /\ writer.at \in DOMAIN AfterFlush
    /\ socket = "open" => Len(wire) < WireDepth
    /\ wire' = IF socket = "open" THEN wire \o buf ELSE wire
    /\ buf' = <<>>
    /\ writer' = [writer EXCEPT !.at = AfterFlush[@]]
    /\ WriterUnchanged
    /\ UNCHANGED <<inbox, socket, alive, control, bulk>>

\* Both lanes were empty. While both are connected the writer waits for either; else it waits for
\* the one that is, and with neither it leaves, without looking at the lanes again.
WriterIdle ==
    /\ writer.at = "idle"
    /\ \/ /\ BulkConnected /\ ControlConnected
          /\ \/ control # <<>> /\ TakeControl(0)
             \/ bulk # <<>> /\ TakeBulk("control")
       \/ /\ ~(BulkConnected /\ ControlConnected)
          /\ WriterGoes(IF ControlConnected THEN "wait" ELSE "leave")
    /\ WriterUnchanged
    /\ UNCHANGED <<inbox, socket, alive, wire>>

\* control_rx.recv() once bulk has disconnected (the pump is the last to hold a sender; bulk never
\* outlives control).
WriterWakes ==
    /\ writer.at = "wait"
    /\ \/ control # <<>> /\ TakeControl(0)
       \/ control = <<>> /\ ~ControlConnected /\ WriterGoes("control")
    /\ WriterUnchanged
    /\ UNCHANGED <<inbox, socket, alive, wire>>

\* The end of the writer, after its last flush or on a failed write: the connection is marked
\* dead, the socket shut, and both lanes closed.
WriterExits ==
    /\ writer' = [writer EXCEPT !.at = "exited"]
    /\ alive' = FALSE
    /\ socket' = "shut"
    /\ \E k \in 0..Len(inbox) : inbox' = SubSeq(inbox, 1, k)
    /\ control' = <<>> /\ bulk' = <<>> /\ buf' = <<>>
    /\ UNCHANGED wire
    /\ WriterUnchanged

WriterLeaves == writer.at = "leave" /\ WriterExits

WriterFails ==
    /\ writer.at \in DOMAIN AfterFlush
    /\ socket = "shut"
    /\ WriterExits
-----------------------------------------------------------------------------
Init ==
    /\ script \in Scripts
    /\ sent = 0 /\ inbox = <<>> /\ socket = "open"
    /\ got = [id \in DOMAIN script |-> <<>>]
    /\ running = TRUE /\ alive = TRUE
    /\ reader = [at |-> "poll", established |-> FALSE, id |-> 0, reply |-> <<>>, closing |-> FALSE]
    /\ control = <<>> /\ bulk = <<>> /\ buf = <<>> /\ wire = <<>>
    /\ writer = [at |-> "control", run |-> 0, passed |-> 0]
    /\ submitted = <<>> /\ replies = <<>>
    /\ pumping = TRUE
    /\ appendFree = AppendBudget /\ readFree = ReadBudget
    /\ slotFree = ReadBudget /\ subFree = SubBudget
    /\ queue = <<>>
    /\ job = [id \in DOMAIN script |-> NoJob]
    /\ cancels = {} /\ cancelled = {}

Reader ==
    \/ \E id \in Ids :
        \/ HandleHello(id) \/ DispatchInline(id) \/ DispatchAppend(id) \/ DispatchRead(id)
        \/ DispatchSubscribe(id) \/ DispatchCancel(id) \/ ReadGarbage(id)
    \/ SubmitAppend \/ ReplySent \/ Join \/ Breaks(StreamEnds \/ GoingDown)

Reaper == Breaks(Overdue)

Pump == PumpSend \/ PumpEnds

Job(id) ==
    \/ JobAcquires(id) \/ JobItem(id) \/ JobSends(id) \/ JobEnds(id)
    \/ SubPolls(id) \/ SubCaughtUp(id)

Writer ==
    WriteControl \/ WriteBulk \/ Flush \/ WriterIdle \/ WriterWakes \/ WriterLeaves \/ WriterFails

Next ==
    \/ Send \/ ClientReceive \/ Disconnect \/ ServerShutdown
    \/ Reader \/ Reaper \/ Pump \/ CoordinatorReplies \/ JobStarts \/ Writer
    \/ \E id \in Ids : Job(id) \/ JobFails(id) \/ JobPanics(id)

\* Every thread of the server runs, the coordinator answers, and the client reads what it is sent.
\* Nothing is assumed of its sending or of disconnects, timeouts, shutdown and failures.
Spec ==
    /\ Init /\ [][Next]_vars
    /\ WF_vars(Reader) /\ WF_vars(Pump) /\ WF_vars(CoordinatorReplies) /\ WF_vars(JobStarts)
    /\ WF_vars(Writer) /\ WF_vars(ClientReceive)
    /\ \A id \in 1..Max({Len(s) : s \in Scripts}) : WF_vars(id \in Ids /\ Job(id))
-----------------------------------------------------------------------------
FrameType == [id : 0..Max({Len(s) : s \in Scripts}), n : Nat \ {0},
              kind : {"ack", "error", "stats", "appended", "events", "end", "caughtup"}]

\* The types of the state, and the bounds of the two lanes.
TypeOK ==
    /\ script \in Scripts /\ sent \in 0..Len(script)
    /\ inbox \in Seq(Ids) /\ socket \in {"open", "shut"}
    /\ {running, alive} \subseteq BOOLEAN
    /\ \A lane \in {control, bulk, buf, wire} : \A i \in DOMAIN lane : lane[i] \in FrameType
    /\ Len(control) <= ControlDepth /\ Len(bulk) <= BulkDepth
    /\ cancels \subseteq Ids /\ cancelled \subseteq Ids

Holding(what) == Cardinality({id \in Ids : job[id].holds = what})

\* Every permit is either free or held by exactly one request in flight, and every request in
\* flight can be cancelled: none is lost or given back twice, whatever is cancelled, refused,
\* panics or dies (conn.rs on Permit: "with no leak or over-release").
PermitsBalance ==
    /\ readFree + Holding("permit") = ReadBudget
    /\ slotFree + Holding("slot") = ReadBudget
    /\ subFree + Cardinality({id \in JobsAlive : Kind(id) = "subscribe"}) = SubBudget
    /\ appendFree + Len(submitted) + Len(replies) = AppendBudget
    /\ cancels = JobsAlive

Terminal == {"ack", "error", "stats", "appended", "end"}

\* The client gets the frames of each request in the order they were made, none missing in between
\* and none after the terminal one, although lanes interleave and overtake each other (conn.rs:
\* "frames never tear").
FramesInOrder ==
    \A id \in Ids : \A i \in DOMAIN got[id] :
        /\ got[id][i].n = i
        /\ got[id][i].kind \in Terminal => i = Len(got[id])

\* A bulk frame that waits is passed by at most MaxControlRun control frames, and one more that
\* woke the writer: "a sustained control stream cannot starve the bulk lane".
BulkNotStarved == bulk # <<>> => writer.passed <= MaxControlRun + 1

\* A request the reader took is answered, unless its connection ended, it was cancelled, or its
\* read panicked.
Taken(id) == id \in Ids /\ id <= sent /\ id \notin ToSet(inbox)

Ended(id) ==
    \/ ~alive \/ reader.at = "join" \/ socket = "shut"
    \/ Kind(id) \in {"cancel", "partial", "garbage"}
    \/ got[id] # <<>> /\ (Last(got[id]).kind \in Terminal \/ Kind(id) = "subscribe")
    \/ id \in cancelled
    \/ job[id].at = "done" /\ job[id].told

RequestsAnswered ==
    \A id \in 1..Max({Len(s) : s \in Scripts}) : Taken(id) ~> (id \in Ids /\ Ended(id))

\* A dead connection is torn down to the last thread, unless the reader waits for a permit that
\* nobody is left to release.
Wedged == reader.at = "acquire" /\ appendFree = 0 /\ ~pumping

TeardownEndsOrWedges == ~alive ~> (reader.at = "done" \/ Wedged)

\* conn.rs on the writer thread: "On a transport failure it marks the connection dead and shuts
\* the socket, unblocking the reader and any parked worker." It does not hold: see Wedged.
TeardownEnds == ~alive ~> reader.at = "done"
=============================================================================

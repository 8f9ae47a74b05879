----------------------------- MODULE AsyncClient -----------------------------
(***************************************************************************)
(* One multiplexed socket of the async client (tephra-client/src/          *)
(* asynchronous.rs): a registry of in-flight requests, each entry holding  *)
(* a permit of the in-flight budget, a writer task that puts queued        *)
(* requests on the wire and a reader task that routes responses to their   *)
(* callers.  A handle holds several such sockets, which share nothing.     *)
(*                                                                         *)
(* A call is one use of append, stats, read or subscribe; its request id   *)
(* is fresh, so the call stands for it.  Futures and streams may be        *)
(* dropped at any await.  The server is external: it answers each request  *)
(* and may close the connection at any time.                               *)
(***************************************************************************)
EXTENDS Integers, SequencesExt, FiniteSetsExt

CONSTANTS
    Workloads,      \* the assignments of kinds to calls to consider
    Budget,         \* max_inflight_requests
    QueueDepth,     \* request_queue_depth
    MaxEvents       \* bound on the event frames of a stream

Kinds == {"append", "stats", "read", "subscribe", "huge", "refused"}

Nobody == 0     \* UNATTRIBUTED_REQUEST_ID; the ids of calls start at 1

ASSUME AsyncClientAssumption ==
    /\ \A w \in Workloads : Nobody \notin DOMAIN w /\ \A c \in DOMAIN w : w[c] \in Kinds
    /\ {Budget, QueueDepth} \subseteq Nat \ {0}
    /\ MaxEvents \in Nat

VARIABLES
    kind,       \* what each call asks
    tls,        \* whether the connection is a TLS one
    call,       \* each caller: where it is, what its channel holds, what it took
    registry,   \* Shared.requests: the calls with an entry, and so a permit
    out,        \* the outbound queue
    buf,        \* frames written and not flushed
    writer, reader,     \* whether each task runs
    up, down,   \* flushed requests and responses on their way
    socket,     \* "open", "half" once the client's write side is shut, "closed"
    serving,    \* per call, how far the server is
    late,       \* calls registered after the reader task had ended
    lost        \* calls whose request the writer task took with it

netVars == <<up, down, socket, serving>>
vars == <<kind, tls, call, registry, out, buf, writer, reader, netVars, late, lost>>

Calls == DOMAIN kind
Streams == {c \in Calls : kind[c] \in {"read", "subscribe"}}

Ask(c) == [call |-> c, cancels |-> FALSE]
Cancel(c) == [call |-> c, cancels |-> TRUE]

Reply(c, what) == [call |-> c, what |-> what]
Free == Budget - Cardinality(registry)
-----------------------------------------------------------------------------
\* A caller: take a permit, register, await room in the queue.
Begin(c) ==
    /\ call[c].at = "idle"
    /\ call' = [call EXCEPT ![c].at = "acquire"]
    /\ UNCHANGED <<kind, tls, registry, out, buf, writer, reader, netVars, late, lost>>

Register(c) ==
    /\ call[c].at = "acquire"
    /\ Free > 0
    /\ registry' = registry \cup {c}
    /\ late' = IF reader THEN late ELSE late \cup {c}
    /\ call' = [call EXCEPT ![c].at = "sending"]
    /\ UNCHANGED <<kind, tls, out, buf, writer, reader, netVars, lost>>

Enqueue(c) ==
    /\ call[c].at = "sending"
    /\ writer
    /\ Len(out) < QueueDepth
    /\ out' = Append(out, Ask(c))
    /\ call' = [call EXCEPT ![c].at = "open"]
    /\ UNCHANGED <<kind, tls, registry, buf, writer, reader, netVars, late, lost>>

\* The writer task has gone: the entry is taken back, and a stream learns it through its channel
\* unless fail_all told it first.
EnqueueFails(c) ==
    /\ call[c].at = "sending"
    /\ ~writer
    /\ registry' = registry \ {c}
    /\ call' = [call EXCEPT ![c].at = "open",
                   ![c].items = IF c \in registry \/ c \notin Streams THEN Append(@, "error") ELSE @]
    /\ UNCHANGED <<kind, tls, out, buf, writer, reader, netVars, late, lost>>

\* The caller takes the next item: rx.await of an append or stats, or poll_next of a stream, which
\* also ends when its channel closes without a terminal item.
Final == {"ok", "end", "error"}

Take(c) ==
    /\ call[c].at = "open"
    /\ call[c].items # <<>>
    /\ LET item == Head(call[c].items)
       IN call' = [call EXCEPT ![c].items = Tail(@),
                      ![c].got = Append(@, item),
                      ![c].at = IF item \in Final THEN "ended" ELSE @]
    /\ UNCHANGED <<kind, tls, registry, out, buf, writer, reader, netVars, late, lost>>

ChannelCloses(c) ==
    /\ call[c].at = "open"
    /\ call[c].items = <<>> /\ c \notin registry
    /\ call' = [call EXCEPT ![c].at = "ended", ![c].got = Append(@, "closed")]
    /\ UNCHANGED <<kind, tls, registry, out, buf, writer, reader, netVars, late, lost>>

\* Variant: a dropped stream leaves its entry.
DropStreamKeeps(c) ==
    /\ c \in Streams
    /\ call[c].at \in {"open", "ended"}
    /\ out' = IF call[c].at = "open" /\ writer /\ Len(out) < QueueDepth
              THEN Append(out, Cancel(c)) ELSE out
    /\ call' = [call EXCEPT ![c].at = "gone", ![c].items = <<>>]
    /\ UNCHANGED <<kind, tls, registry, buf, writer, reader, netVars, late, lost>>

\* Drop of a stream: send_cancel unless it is done, which a full queue swallows, and the entry
\* goes.
DropStream(c) ==
    /\ c \in Streams
    /\ call[c].at \in {"open", "ended"}
    /\ out' = IF call[c].at = "open" /\ writer /\ Len(out) < QueueDepth
              THEN Append(out, Cancel(c)) ELSE out
    /\ registry' = registry \ {c}
    /\ call' = [call EXCEPT ![c].at = "gone", ![c].items = <<>>]
    /\ UNCHANGED <<kind, tls, buf, writer, reader, netVars, late, lost>>

\* Drop of a future before it resolved: at the permit it holds nothing; at the queue, or awaiting
\* its reply, its entry stays behind.
DropFuture(c) ==
    /\ call[c].at \in {"acquire", "sending"} \/ (call[c].at = "open" /\ c \notin Streams)
    /\ call' = [call EXCEPT ![c].at = IF @ = "sending" THEN "unsent" ELSE "gone",
                            ![c].items = <<>>]
    /\ UNCHANGED <<kind, tls, registry, out, buf, writer, reader, netVars, late, lost>>
-----------------------------------------------------------------------------
\* writer_task: write what is queued, then flush the burst. A request over the frame limit, or a
\* failed write, ends the task, and what it had buffered or queued is lost. Dropping the write
\* half of a TcpStream shuts that direction of the socket; the halves of a TLS stream are two
\* handles on one stream, which stays open until both are dropped.
Dropped(half) ==
    socket' = IF socket = "open" /\ (IF half = "write" THEN ~tls \/ ~reader ELSE tls /\ ~writer)
              THEN "half" ELSE socket

WriterGone ==
    /\ writer' = FALSE
    /\ out' = <<>> /\ buf' = <<>>
    /\ Dropped("write")
    /\ lost' = lost \cup {c \in Calls : Ask(c) \in ToSet(out \o buf)}
    /\ UNCHANGED <<kind, tls, call, registry, reader, up, down, serving, late>>

WriterWrites ==
    /\ writer /\ out # <<>>
    /\ IF kind[Head(out).call] = "huge" /\ ~Head(out).cancels
       THEN WriterGone
       ELSE /\ buf' = Append(buf, Head(out))
            /\ out' = Tail(out)
            /\ UNCHANGED <<kind, tls, call, registry, writer, reader, netVars, late, lost>>

WriterFlushes ==
    /\ writer /\ buf # <<>> /\ out = <<>>
    /\ buf' = <<>>
    /\ up' = IF socket = "open" THEN up \o buf ELSE up
    /\ UNCHANGED <<kind, tls, call, registry, out, writer, reader, down, socket, serving, late,
                   lost>>

WriterFails ==
    /\ writer /\ buf # <<>>
    /\ socket = "closed"
    /\ WriterGone
-----------------------------------------------------------------------------
\* route, deliver_read and deliver_subscribe: the entry stays while the stream goes on, and a
\* frame for an unknown id is ignored.
Wanted(c) == call[c].at \in {"sending", "open"}

Continues(c, what) == c \in Streams /\ what \in {"events", "caughtup"}

Route(c, what) ==
    IF c \notin registry THEN UNCHANGED <<call, registry>>
    ELSE /\ registry' = IF Continues(c, what) THEN registry ELSE registry \ {c}
         /\ call' = IF Wanted(c) THEN [call EXCEPT ![c].items = Append(@, what)] ELSE call

ReaderRoutes ==
    /\ reader /\ down # <<>>
    /\ down' = Tail(down)
    /\ IF Head(down).call = Nobody THEN UNCHANGED <<call, registry>>
       ELSE Route(Head(down).call, Head(down).what)
    /\ UNCHANGED <<kind, tls, out, buf, writer, reader, up, socket, serving, late, lost>>

\* Variant: the entries are dropped without an error.
FailAllQuiet ==
    /\ registry' = {}
    /\ UNCHANGED call

\* fail_all: every entry still registered is told and its permit freed.
FailAll ==
    /\ registry' = {}
    /\ call' = [c \in Calls |-> IF c \in registry /\ Wanted(c)
                                THEN [call[c] EXCEPT !.items = Append(@, "error")] ELSE call[c]]

\* Variant: the reader task ends without failing the rest.
ReaderEndsSilent ==
    /\ reader /\ down = <<>> /\ socket = "closed"
    /\ reader' = FALSE
    /\ UNCHANGED <<kind, tls, call, registry, out, buf, writer, netVars, late, lost>>

ReaderEnds ==
    /\ reader /\ down = <<>> /\ socket = "closed"
    /\ reader' = FALSE
    /\ FailAll
    /\ UNCHANGED <<kind, tls, out, buf, writer, netVars, late, lost>>

\* The next frame is over the limit or cannot be decoded, or the transport fails before it: the
\* task ends in the same way, on an open socket too.
ReaderBreaks ==
    /\ reader /\ down # <<>>
    /\ reader' = FALSE
    /\ down' = <<>>
    /\ Dropped("read")
    /\ FailAll
    /\ UNCHANGED <<kind, tls, out, buf, writer, up, serving, late, lost>>
-----------------------------------------------------------------------------
\* The server (external; see ServerConn).
ServerUnchanged == UNCHANGED <<kind, tls, call, registry, out, buf, writer, reader, late, lost>>

ServerReceives ==
    /\ socket # "closed" /\ up # <<>>
    /\ up' = Tail(up)
    /\ LET c == Head(up).call
       IN serving' = IF Head(up).cancels
                     THEN [serving EXCEPT ![c].at = IF @ = "active" THEN "done" ELSE @]
                     ELSE [serving EXCEPT ![c].at = "active"]
    /\ ServerUnchanged
    /\ UNCHANGED <<down, socket>>

ServerAnswers(c) ==
    /\ socket # "closed"
    /\ serving[c].at = "active"
    /\ \/ /\ kind[c] # "refused"
          /\ \E what \in (IF kind[c] = "read" THEN {"end", "error"}
                          ELSE IF kind[c] = "subscribe" THEN {"error"} ELSE {"ok", "error"}) :
                down' = Append(down, Reply(c, what))
          /\ serving' = [serving EXCEPT ![c].at = "done"]
          /\ UNCHANGED socket
       \/ /\ kind[c] = "refused"
          /\ down' = Append(down, Reply(Nobody, "error"))
          /\ socket' = "closed"
          /\ UNCHANGED serving
    /\ ServerUnchanged
    /\ UNCHANGED up

ServerStreams(c) ==
    /\ socket # "closed"
    /\ serving[c].at = "active" /\ c \in Streams
    /\ serving[c].sent < MaxEvents
    /\ serving' = [serving EXCEPT ![c].sent = @ + 1]
    /\ \E what \in {"events"} \cup (IF kind[c] = "subscribe" THEN {"caughtup"} ELSE {}) :
          down' = Append(down, Reply(c, what))
    /\ ServerUnchanged
    /\ UNCHANGED <<up, socket>>

ServerCloses ==
    /\ socket # "closed"
    /\ socket' = "closed"
    /\ up' = <<>>
    /\ ServerUnchanged
    /\ UNCHANGED <<down, serving>>
-----------------------------------------------------------------------------
Init ==
    /\ kind \in Workloads
    /\ call = [c \in DOMAIN kind |-> [at |-> "idle", items |-> <<>>, got |-> <<>>]]
    /\ tls \in BOOLEAN
    /\ registry = {} /\ late = {} /\ lost = {}
    /\ out = <<>> /\ buf = <<>> /\ up = <<>> /\ down = <<>>
    /\ writer = TRUE /\ reader = TRUE
    /\ socket = "open"
    /\ serving = [c \in DOMAIN kind |-> [at |-> "no", sent |-> 0]]

Caller(c) == Register(c) \/ Enqueue(c) \/ EnqueueFails(c) \/ Take(c) \/ ChannelCloses(c)

Writer == WriterWrites \/ WriterFlushes \/ WriterFails

Next ==
    \/ \E c \in Calls : Begin(c) \/ Caller(c) \/ DropStream(c) \/ DropFuture(c)
                          \/ ServerAnswers(c) \/ ServerStreams(c)
    \/ Writer \/ ReaderRoutes \/ ReaderEnds \/ ReaderBreaks
    \/ ServerReceives \/ ServerCloses

AllCalls == UNION {DOMAIN w : w \in Workloads}

\* The tasks run and callers poll what they hold. The server reads and answers, save that a
\* subscription may run for ever, and closes its end once the client shut the other.
Spec ==
    /\ Init /\ [][Next]_vars
    /\ \A c \in AllCalls : WF_vars(c \in Calls /\ Caller(c))
    /\ WF_vars(Writer) /\ WF_vars(ReaderRoutes) /\ WF_vars(ReaderEnds)
    /\ WF_vars(ServerReceives)
    /\ \A c \in AllCalls : WF_vars(c \in Calls /\ kind[c] # "subscribe" /\ ServerAnswers(c))
    /\ WF_vars(socket = "half" /\ ServerCloses)
-----------------------------------------------------------------------------
Places == {"idle", "acquire", "sending", "open", "ended", "gone", "unsent"}

\* The types of the state, the outbound queue within its depth and the in-flight requests within
\* their budget.
TypeOK ==
    /\ kind \in Workloads
    /\ \A c \in Calls : call[c].at \in Places
    /\ registry \subseteq Calls /\ Cardinality(registry) <= Budget
    /\ Len(out) <= QueueDepth
    /\ {tls, writer, reader} \subseteq BOOLEAN
    /\ socket \in {"open", "half", "closed"}

\* While the reader task runs, an entry's reply is still to come: its request is queued, buffered,
\* travelling or being served, its answer is on the way, or the connection is ending and fail_all
\* will find it. Left behind are only the entry of a future dropped while it waited for the queue,
\* and, over TLS, those whose request was lost with the writer task: nothing closes the socket
\* then.
Mentions(frames, c) == \E i \in DOMAIN frames : frames[i].call = c

ReplyIsDue(c) ==
    \/ call[c].at = "sending"
    \/ Ask(c) \in ToSet(out \o buf \o up)
    \/ serving[c].at = "active"
    \/ \E i \in DOMAIN down : down[i].call = c /\ ~Continues(c, down[i].what)
    \/ socket # "open"

LostOverTls(c) == tls /\ c \in lost

EntriesAreDue ==
    reader => \A c \in registry : ReplyIsDue(c) \/ call[c].at = "unsent" \/ LostOverTls(c)

\* A read that ends without an error ends with the server's ReadEnd, after every batch the server
\* sent for it: a cut connection never looks like the end of the result (asynchronous.rs on a
\* closed channel: "end the stream").
CleanEndsAreWhole ==
    \A c \in Streams : call[c].got # <<>> =>
        /\ Last(call[c].got) # "closed"
        /\ Last(call[c].got) = "end" => Len(call[c].got) = serving[c].sent + 1
        /\ \A i \in 1..(Len(call[c].got) - 1) : call[c].got[i] \notin Final

\* A call that has its permit gets an answer or an error, if it is not dropped first, was
\* registered while the reader task ran, and its request was not lost with the writer task of a
\* TLS connection.
Resolved(c) == c \in Calls /\ (call[c].at \in {"ended", "gone", "unsent"} \/ kind[c] = "subscribe")

CallersResolve ==
    \A c \in AllCalls :
        (c \in Calls /\ c \in registry) ~> (Resolved(c) \/ c \in late \/ LostOverTls(c))

\* "On EOF or a transport error it fails every still-waiting request so no caller hangs"
\* (asynchronous.rs, reader_task).
NoCallerHangs == \A c \in AllCalls : (c \in Calls /\ c \in registry) ~> Resolved(c)

\* "The permit is released when this entry is dropped, which happens exactly once per request:
\* when its terminal response is routed, when its stream is dropped or cancelled, or when the
\* connection fails" (asynchronous.rs, Registered): a call that was given up gives its permit
\* back.
DroppedCallsRelease ==
    \A c \in AllCalls :
        (c \in Calls /\ call[c].at \in {"gone", "unsent"}) ~> (c \notin registry \/ c \in late)
=============================================================================

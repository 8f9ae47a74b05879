--------------------------- MODULE BlockingClient ---------------------------
(***************************************************************************)
(* The blocking client (tephra-client/src/lib.rs), one request at a time   *)
(* over one connection, and the frames it exchanges with the server as     *)
(* bytes that arrive in chunks.  Every read_frame starts a fresh           *)
(* FrameReader; the server keeps one for the connection.                   *)
(*                                                                         *)
(* The server is external (see ServerConn): it answers a request with the  *)
(* frames of its kind.  A faulty answer is one the client cannot take: an  *)
(* event that does not decode, or a frame over the limit.                  *)
(***************************************************************************)
EXTENDS Framing, SequencesExt, FiniteSets

CONSTANTS
    ClientMax,          \* the client's max_frame_len
    ServerMax,          \* the server's
    MaxRequests,        \* bound on the requests of a client
    MaxStreamEvents,    \* bound on the event frames of a stream
    MaxFaults           \* bound on faulty answers

ASSUME BlockingClientAssumption ==
    /\ {MaxRequests, MaxStreamEvents, MaxFaults} \subseteq Nat
    /\ ServerMax \in Nat \ {0} /\ ClientMax \in Nat \ {0}

VARIABLES
    client,     \* what the caller of the client is doing
    nextId,
    toServer, toClient,     \* bytes on their way to the server and to the client
    open,       \* the connection is up; else both directions end
    frames,     \* the client's current FrameReader
    requests,   \* the server's FrameReader
    taken,      \* the requests the server read
    streams,    \* the streams the server still sends, by request
    shifted,    \* why the responses need not match: a cause, or "none"
    faults

callVars == <<client, nextId, toServer, toClient, open, frames, requests, taken, streams, shifted,
              faults>>

Single == {"hello", "append", "stats", "large"}
Size(kind) == CASE kind = "huge"  -> ClientMax + 1
                [] kind = "large" -> ServerMax + 1
                [] kind \in {"append", "events"} -> ServerMax
                [] OTHER          -> 1
Frame(id, kind) == [id |-> id, kind |-> kind, size |-> Size(kind)]

NoCall == [at |-> "idle", id |-> 0, kind |-> "none", buffered |-> 0, events |-> 0,
           watermark |-> FALSE, last |-> "none"]

Idle(last) == [NoCall EXCEPT !.last = last]

\* A single request is over; connect fails when its hello does.
Over(last) == IF client.kind = "hello" /\ last # "ok"
              THEN [NoCall EXCEPT !.at = "unconnected", !.last = last] ELSE Idle(last)
-----------------------------------------------------------------------------
\* A request: hello once, from connect, then whatever the caller asks. `huge' is an append over
\* the client's own limit, refused unsent; `large' one over the server's.
Start(kind) ==
    /\ client.at = "idle"
    /\ nextId <= MaxRequests
    /\ nextId = 1 <=> kind = "hello"
    /\ nextId' = nextId + 1
    /\ IF Writable(Frame(nextId, kind), ClientMax)
       THEN /\ toServer' = IF open THEN toServer \o Encode(Frame(nextId, kind)) ELSE toServer
            /\ client' = [NoCall EXCEPT !.at = IF kind \in Single THEN "recv" ELSE "stream",
                                        !.id = nextId, !.kind = kind]
       ELSE /\ client' = Idle("refused")
            /\ UNCHANGED toServer
    /\ frames' = Boundary
    /\ UNCHANGED <<toClient, open, requests, taken, streams, shifted, faults>>

\* next on a stream: what is buffered, None once it is done, else fill.
StreamNext ==
    /\ client.at = "stream"
    /\ client' = IF client.buffered > 0
                 THEN [client EXCEPT !.buffered = @ - 1, !.events = @ + 1]
                 ELSE [client EXCEPT !.at = "fill"]
    /\ UNCHANGED <<nextId, toServer, toClient, open, frames, requests, taken, streams, shifted,
                   faults>>

\* Variant: a dropped read leaves its frames on the wire.
DropStreamDirty ==
    /\ client.at \in {"stream", "done"}
    /\ client' = Idle(client.last)
    /\ UNCHANGED <<nextId, toServer, toClient, open, frames, requests, taken, streams, shifted,
                   faults>>

\* Drop of a stream. A read that is not done drains; a subscription just goes, and its connection
\* with it.
StreamDrop ==
    /\ client.at \in {"stream", "done"}
    /\ IF client.at = "stream" /\ client.kind = "read"
       THEN client' = [client EXCEPT !.at = "drain"] /\ UNCHANGED shifted
       ELSE /\ client' = Idle(client.last)
            /\ shifted' = IF client.kind = "subscribe" THEN "subscription" ELSE shifted
    /\ UNCHANGED <<nextId, toServer, toClient, open, frames, requests, taken, streams, faults>>

\* SubscribeCancel::cancel from another thread.
CancelSubscription ==
    /\ client.kind = "subscribe" /\ open
    /\ open' = FALSE
    /\ UNCHANGED <<client, nextId, toServer, toClient, frames, requests, taken, streams, shifted,
                   faults>>
-----------------------------------------------------------------------------
\* What each reader of a frame does with it: recv, ReadStream::fill, SubscribeStream::fill and
\* drain.
Fails(why) == IF client.at = "recv" THEN Over(why)
              ELSE [client EXCEPT !.at = "done", !.last = why]

Ours(f) == f.id \in {client.id, 0}

TakeSingle(f) ==
    IF ~Ours(f) THEN Over("mismatch")
    ELSE IF f.kind = client.kind THEN Over("ok")
    ELSE Over(IF f.kind = "error" THEN "error" ELSE "protocol")

TakeStream(f) ==
    IF ~Ours(f) THEN Fails("mismatch")
    ELSE IF f.kind = "events" THEN [client EXCEPT !.at = "stream", !.buffered = 1]
    ELSE IF f.kind = "caughtup" /\ client.kind = "subscribe"
         THEN [client EXCEPT !.at = "stream"]
    ELSE IF f.kind = "end" /\ client.kind = "read"
         THEN [client EXCEPT !.at = "done", !.watermark = TRUE, !.last = "end"]
    ELSE IF f.kind = "error" THEN Fails("error") ELSE Fails("protocol")

\* Variant: only ReadEnd ends a drain.
TakeDrainedToEnd(f) == IF f.kind = "end" THEN Idle("drained") ELSE client

TakeDrained(f) == IF f.kind \in {"end", "error"} THEN Idle("drained") ELSE client

Taken(f) ==
    CASE client.at = "recv"  -> TakeSingle(f)
      [] client.at = "fill"  -> TakeStream(f)
      [] client.at = "drain" -> TakeDrained(f)

Broken(why) == IF client.at = "drain" THEN Idle(why) ELSE Fails(why)

Reading == client.at \in {"recv", "fill", "drain"}

\* read_frame: poll until a frame, its end or an error. An error leaves the bytes after it for the
\* next read_frame.
ClientReads ==
    /\ Reading /\ toClient # <<>>
    /\ \E n \in {1, Wants(frames)} \cap 1..Len(toClient) :
       \E polled \in Poll(frames, SubSeq(toClient, 1, n), ClientMax) :
        /\ toClient' = SubSeq(toClient, n + 1, Len(toClient))
        /\ frames' = IF polled.outcome = "progress" THEN polled.reader ELSE Boundary
        /\ client' = CASE polled.outcome = "progress" -> client
                       [] polled.outcome = "frame"    -> Taken(polled.frame)
                       [] OTHER                       -> Broken(polled.outcome)
        /\ shifted' = IF polled.outcome \in {"toolarge", "parse"}
                         \/ (client.at = "fill" /\ polled.frame.kind = "bad")
                      THEN "fault" ELSE shifted
    /\ UNCHANGED <<nextId, toServer, open, requests, taken, streams, faults>>

\* The connection has ended and its bytes are read. A subscription that ends between frames is
\* just over.
ClientAtEof ==
    /\ Reading /\ toClient = <<>> /\ ~open
    /\ client' = IF client.at = "fill" /\ client.kind = "subscribe" /\ AtEof(frames) = "eof"
                 THEN [client EXCEPT !.at = "done", !.last = "over"]
                 ELSE Broken(AtEof(frames))
    /\ frames' = Boundary
    /\ UNCHANGED <<nextId, toServer, toClient, open, requests, taken, streams, shifted, faults>>
-----------------------------------------------------------------------------
\* Variant: a partial frame is forgotten between reads.
RestartsEachPoll(polled) == Boundary

KeepsPartial(polled) == polled.reader

\* The server's side of the framing: the connection's reader polls its FrameReader, which keeps a
\* partial frame over a read that would block.
ServerPolls ==
    /\ open /\ toServer # <<>>
    /\ \E n \in {1, Wants(requests)} \cap 1..Len(toServer) :
       \E polled \in Poll(requests, SubSeq(toServer, 1, n), ServerMax) :
        /\ toServer' = SubSeq(toServer, n + 1, Len(toServer))
        /\ requests' = KeepsPartial(polled)
        /\ \/ /\ polled.outcome = "progress"
              /\ UNCHANGED <<toClient, open, taken, streams>>
           \/ /\ polled.outcome = "frame"
              /\ LET f == polled.frame
                 IN /\ taken' = Append(taken, f)
                    /\ IF f.kind \in Single
                       THEN /\ \E kind \in {f.kind, "error"} :
                                    toClient' = toClient \o Encode(Frame(f.id, kind))
                            /\ UNCHANGED streams
                       ELSE /\ streams' = IF f.id = 0 THEN streams
                                ELSE streams \cup {[id |-> f.id, kind |-> f.kind, sent |-> 0,
                                                    live |-> TRUE]}
                            /\ UNCHANGED toClient
              /\ UNCHANGED open
           \/ /\ polled.outcome \in {"toolarge", "parse"}
              /\ toClient' = toClient \o Encode(Frame(0, "error"))
              /\ open' = FALSE
              /\ UNCHANGED <<taken, streams>>
    /\ UNCHANGED <<client, nextId, frames, shifted, faults>>

\* A frame of a stream in progress; a faulty one spends the bound.
ServerSends(s) ==
    /\ open /\ s.live
    /\ \E kind \in {"events", "error", "end", "caughtup", "bad", "huge"} :
        /\ kind = "events" => s.sent < MaxStreamEvents
        /\ kind = "end" => s.kind = "read"
        /\ kind = "caughtup" => s.kind = "subscribe" /\ s.sent < MaxStreamEvents
        /\ kind \in {"bad", "huge"} => faults < MaxFaults
        /\ faults' = IF kind \in {"bad", "huge"} THEN faults + 1 ELSE faults
        /\ toClient' = toClient \o Encode(Frame(s.id, kind))
        /\ streams' = (streams \ {s}) \cup {[s EXCEPT
              !.sent = IF kind \in {"end", "error"} THEN @ ELSE @ + 1,
              !.live = kind \notin {"end", "error"}]}
    /\ UNCHANGED <<client, nextId, toServer, open, frames, requests, taken, shifted>>

ServerEnds ==
    /\ open
    /\ open' = FALSE
    /\ \E k \in {0, Len(toClient)} : toClient' = SubSeq(toClient, 1, k)
    /\ UNCHANGED <<client, nextId, toServer, frames, requests, taken, streams, shifted, faults>>
-----------------------------------------------------------------------------
CallInit ==
    /\ client = NoCall /\ nextId = 1
    /\ toServer = <<>> /\ toClient = <<>>
    /\ open = TRUE
    /\ frames = Boundary /\ requests = Boundary
    /\ taken = <<>> /\ streams = {}
    /\ shifted = "none" /\ faults = 0

CallNext ==
    \/ \E kind \in {"hello", "append", "stats", "read", "subscribe", "huge", "large"} : Start(kind)
    \/ StreamNext \/ StreamDrop \/ CancelSubscription
    \/ ClientReads \/ ClientAtEof
    \/ ServerPolls \/ (\E s \in streams : ServerSends(s)) \/ ServerEnds

\* A caller that waits for the client waits for its reads, and the server reads requests and ends
\* every read.
CallSpec ==
    /\ CallInit /\ [][CallNext]_callVars
    /\ WF_callVars(ClientReads) /\ WF_callVars(ClientAtEof) /\ WF_callVars(ServerPolls)
    /\ WF_callVars(\E s \in streams : s.kind = "read" /\ ServerSends(s))
-----------------------------------------------------------------------------
\* The types of the state.
CallTypeOK ==
    /\ client.at \in {"idle", "recv", "stream", "fill", "drain", "done", "unconnected"}
    /\ nextId \in 1..(MaxRequests + 1)
    /\ open \in BOOLEAN
    /\ Len(frames.prefix) <= PrefixLen /\ Len(requests.prefix) <= PrefixLen
    /\ faults \in 0..MaxFaults

\* However the bytes are cut into chunks, the server takes the requests that were sent, whole and
\* in order: "a non-blocking or read-timeout socket never desynchronizes the stream".
RequestsArriveWhole ==
    /\ \A i \in DOMAIN taken : taken[i].id # 0
    /\ \A i, j \in DOMAIN taken : i < j => taken[i].id < taken[j].id

\* No request meets the response to an earlier one, unless a subscription was dropped or a frame
\* could not be taken before: a read that is dropped half-way leaves nothing "for the next request
\* to mistake as its own".
StaysAligned == client.last \in {"mismatch", "protocol"} => shifted # "none"

\* A read that ends with its watermark yielded every event the server sent for it.
ReadsAreWhole ==
    client.watermark =>
        \E s \in streams : s.id = client.id /\ ~s.live /\ s.sent = client.events

\* In both directions, what is taken from the wire is what was put on it, whole.
MessagesAreWhole == RequestsArriveWhole /\ ReadsAreWhole

\* A call to the client returns: the answer, an error or the drain of a dropped read comes to an
\* end. A stream of subscription frames need not, and once frames are out of step the client may
\* wait for bytes that are not sent.
CallsReturn == (Reading /\ client.kind # "subscribe") ~> (~Reading \/ shifted # "none")
=============================================================================

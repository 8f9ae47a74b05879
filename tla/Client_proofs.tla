---------------------------- MODULE Client_proofs ----------------------------
\* Proofs about the two clients. The async client's socket: its typing, that no entry is left
\* waiting for nothing (EntriesAreDue), and that a stream that ends cleanly is whole
\* (CleanEndsAreWhole), for any number of calls of any kinds, any budget and any queue depth. The
\* blocking client and its frames: that messages arrive whole in both directions
\* (MessagesAreWhole) and that no request meets the answer to another (StaysAligned), for any
\* chunks of bytes and any limits.
EXTENDS AsyncClient, BlockingClient, SequenceTheorems, FiniteSetTheorems, TLAPS

Items == {"events", "caughtup", "ok", "end", "error", "closed"}
Frames == [call : Calls, cancels : BOOLEAN]
Replies == [call : Calls \cup {Nobody}, what : Items \ {"closed"}]
CallRecord == [at : Places, items : Seq(Items), got : Seq(Items)]
ServingRecord == [at : {"no", "active", "done"}, sent : Nat]

Shapes ==
    /\ kind \in Workloads /\ tls \in BOOLEAN /\ lost \subseteq Calls
    /\ call \in [Calls -> CallRecord]
    /\ registry \subseteq Calls
    /\ out \in Seq(Frames) /\ buf \in Seq(Frames) /\ up \in Seq(Frames)
    /\ down \in Seq(Replies)
    /\ writer \in BOOLEAN /\ reader \in BOOLEAN
    /\ socket \in {"open", "half", "closed"}
    /\ serving \in [Calls -> ServingRecord]

Bounds ==
    /\ IsFiniteSet(registry) /\ Cardinality(registry) <= Budget
    /\ Len(out) <= QueueDepth

\* The requests on their way, oldest first.
Line == up \o buf \o out

\* A Cancel follows the drop of its stream, which took the entry away.
CancelsAreDropped ==
    \A i \in DOMAIN Line : Line[i].cancels =>
        /\ Line[i].call \notin registry
        /\ call[Line[i].call].at = "gone"

\* A request is on its way at most once, only after its caller queued it and before the server
\* took it.
Unsent == {"idle", "acquire", "sending", "unsent"}

AskedOnce ==
    /\ \A i \in DOMAIN Line : ~Line[i].cancels =>
          /\ call[Line[i].call].at \notin Unsent
          /\ serving[Line[i].call].at = "no"
          /\ \A j \in DOMAIN Line : Line[j] = Line[i] => j = i
    /\ \A c \in Calls : call[c].at \in Unsent => serving[c].at = "no"

\* What a stream was handed and what its channel holds, in order, and the responses for it on
\* their way.
Heard(c) == call[c].got \o call[c].items
ComingIn(rest, c) == {i \in DOMAIN rest : rest[i].call = c}
Coming(c) == ComingIn(down, c)

\* Nothing is heard after a final item, and an "end" is heard after as many items as the server
\* sent.
EndsRight(c) ==
    LET h == Heard(c) IN
    /\ \A i \in DOMAIN h : h[i] # "closed"
    /\ \A i \in DOMAIN h : h[i] \in Final => i = Len(h)
    /\ \A i \in DOMAIN h : h[i] = "end" =>
          Len(h) = serving[c].sent + 1 /\ serving[c].at = "done"

\* A registered stream has heard no final item, and what it heard and what is coming make up what
\* the server sent.
Ledger(c) == c \in registry =>
    /\ \A i \in DOMAIN Heard(c) : Heard(c)[i] \notin Final
    /\ Len(Heard(c)) + Cardinality(Coming(c))
          = serving[c].sent + (IF serving[c].at = "done" THEN 1 ELSE 0)
    /\ call[c].at \in {"sending", "open", "unsent"}

\* A stream that has not ended took no final item; once it is no longer registered, one is in its
\* channel.
StillOpen(c) ==
    /\ call[c].at \notin {"ended", "gone"} =>
          \A i \in DOMAIN call[c].got : call[c].got[i] \notin Final
    /\ call[c].at \in {"sending", "open"} /\ c \notin registry =>
          call[c].items # <<>> /\ Last(call[c].items) \in Final

\* The server says nothing for a stream before it takes the request, and nothing after its
\* terminal response.
ServedOnce(c) ==
    /\ serving[c].at = "no" => serving[c].sent = 0
    /\ \A i \in Coming(c) :
          /\ serving[c].at # "no"
          /\ down[i].what \in Final =>
                serving[c].at = "done" /\ \A j \in Coming(c) : j <= i

StreamOK(c) == EndsRight(c) /\ Ledger(c) /\ StillOpen(c) /\ ServedOnce(c)
StreamsOK == \A c \in Streams : StreamOK(c)

\* A call that has not registered has no entry and heard nothing.
NotYet == \A c \in Calls : call[c].at \in {"idle", "acquire"} =>
             c \notin registry /\ call[c].items = <<>> /\ call[c].got = <<>>

DueInv == Shapes /\ CancelsAreDropped /\ EntriesAreDue
WholeInv == Shapes /\ CancelsAreDropped /\ AskedOnce /\ NotYet /\ StreamsOK

--------------------
\* What the assumption on the constants says of a state's calls.
LEMMA CallsFacts ==
    ASSUME Shapes
    PROVE  /\ Nobody \notin Calls
           /\ \A c \in Calls : kind[c] \in Kinds
           /\ Streams \subseteq Calls
           /\ \A c \in Calls : Ask(c) \in Frames /\ Cancel(c) \in Frames
           /\ \A c \in Calls, w \in Items \ {"closed"} : Reply(c, w) \in Replies
           /\ Reply(Nobody, "error") \in Replies
  BY AsyncClientAssumption DEF Shapes, Calls, Streams, Ask, Cancel, Reply, Frames, Replies, Items

\* A caller's record with one of its parts replaced.
LEMMA RecordParts ==
    ASSUME NEW r \in CallRecord
    PROVE  /\ r.items \in Seq(Items) /\ r.got \in Seq(Items) /\ r.at \in Places
           /\ r = [at |-> r.at, items |-> r.items, got |-> r.got]
           /\ \A a \in Places : [r EXCEPT !.at = a] \in CallRecord
           /\ \A a \in Places : [r EXCEPT !.at = a, !.items = <<>>] \in CallRecord
           /\ \A w \in Items : [r EXCEPT !.items = Append(@, w)] \in CallRecord
           /\ \A a \in Places, w \in Items :
                 [r EXCEPT !.at = a, !.items = Append(@, w)] \in CallRecord
           /\ \A a \in Places, w \in Items :
                 [r EXCEPT !.at = a, !.got = Append(@, w)] \in CallRecord
<1>1. /\ r.items \in Seq(Items) /\ r.got \in Seq(Items) /\ r.at \in Places
      /\ r = [at |-> r.at, items |-> r.items, got |-> r.got]
      /\ <<>> \in Seq(Items)
  BY DEF CallRecord
<1>2. \A w \in Items : Append(r.items, w) \in Seq(Items) /\ Append(r.got, w) \in Seq(Items)
  BY <1>1
<1> QED BY <1>1, <1>2 DEF CallRecord

\* The steps of a caller keep the shapes.
LEMMA CallerShapes ==
    ASSUME Shapes, NEW c \in Calls,
           Begin(c) \/ Caller(c) \/ DropStream(c) \/ DropFuture(c)
    PROVE  Shapes'
<1>1. Calls' = Calls /\ Frames' = Frames /\ Replies' = Replies
  BY DEF Begin, Caller, Register, Enqueue, EnqueueFails, Take, ChannelCloses, DropStream,
         DropFuture, Calls, Frames, Replies
<1>2. /\ call[c] \in CallRecord
      /\ \A a \in Places, i \in Seq(Items), g \in Seq(Items) :
            [at |-> a, items |-> i, got |-> g] \in CallRecord
      /\ call \in [Calls -> CallRecord]
  BY DEF Shapes, CallRecord
<1>3. "error" \in Items /\ "closed" \in Items BY DEF Items
<1>4. CASE Begin(c) \/ Register(c) \/ ChannelCloses(c) \/ DropFuture(c)
  <2>1. PICK r \in CallRecord : call' = [call EXCEPT ![c] = r]
    <3>1. CASE Begin(c) BY <1>2, <3>1, RecordParts DEF Begin, Places
    <3>2. CASE Register(c) BY <1>2, <3>2, RecordParts DEF Register, Places
    <3>3. CASE ChannelCloses(c) BY <1>2, <1>3, <3>3, RecordParts DEF ChannelCloses, Places
    <3>4. CASE DropFuture(c) BY <1>2, <3>4, RecordParts DEF DropFuture, Places
    <3> QED BY <1>4, <3>1, <3>2, <3>3, <3>4
  <2>9. call' \in [Calls -> CallRecord] BY <1>2, <2>1
  <2>2. registry' \subseteq Calls
    BY <1>4 DEF Begin, Register, ChannelCloses, DropFuture, Shapes
  <2>3. UNCHANGED <<kind, tls, lost, out, buf, writer, reader, up, down, socket, serving>>
    BY <1>4 DEF Begin, Register, ChannelCloses, DropFuture, netVars
  <2> QED BY <1>1, <2>9, <2>2, <2>3 DEF Shapes
<1>5. CASE Enqueue(c) \/ DropStream(c)
  <2>1. call' \in [Calls -> CallRecord]
    <3>1. CASE Enqueue(c) BY <1>2, <3>1, RecordParts DEF Enqueue, Places
    <3>2. CASE DropStream(c) BY <1>2, <3>2, RecordParts DEF DropStream, Places
    <3> QED BY <1>5, <3>1, <3>2
  <2>2. registry' \subseteq Calls BY <1>5 DEF Enqueue, DropStream, Shapes
  <2>3. out' = out \/ out' = Append(out, Ask(c)) \/ out' = Append(out, Cancel(c))
    BY <1>5 DEF Enqueue, DropStream
  <2>6. out \in Seq(Frames) /\ Ask(c) \in Frames /\ Cancel(c) \in Frames
    BY CallsFacts DEF Shapes
  <2>4. out' \in Seq(Frames) BY <2>3, <2>6
  <2>5. UNCHANGED <<kind, tls, lost, buf, writer, reader, up, down, socket, serving>>
    BY <1>5 DEF Enqueue, DropStream, netVars
  <2> QED BY <1>1, <2>1, <2>2, <2>4, <2>5 DEF Shapes
<1>6. CASE EnqueueFails(c)
  <2>1. call' \in [Calls -> CallRecord]
    <3>1. \/ call' = [call EXCEPT ![c] = [call[c] EXCEPT !.at = "open"]]
          \/ call' = [call EXCEPT ![c] = [call[c] EXCEPT !.at = "open",
                                                    !.items = Append(@, "error")]]
      <4>1. /\ call[c] = [at |-> call[c].at, items |-> call[c].items, got |-> call[c].got]
            /\ call[c] \in [at : Places, items : Seq(Items), got : Seq(Items)]
        BY <1>2, RecordParts DEF CallRecord
      <4> QED BY <1>2, <1>6, <4>1 DEF EnqueueFails
    <3>2. "open" \in Places BY DEF Places
    <3>3. /\ [call[c] EXCEPT !.at = "open"] \in CallRecord
          /\ [call[c] EXCEPT !.at = "open", !.items = Append(@, "error")] \in CallRecord
      BY <1>2, <1>3, <3>2, RecordParts
    <3>4. \E x \in CallRecord : call' = [call EXCEPT ![c] = x] BY <3>1, <3>3
    <3> QED BY <1>2, <3>4
  <2> QED BY <1>1, <1>6, <2>1 DEF EnqueueFails, Shapes, netVars
<1>7. CASE Take(c)
  <2>1. call[c].items \in Seq(Items) /\ call[c].items # <<>>
    BY <1>2, <1>7 DEF Take, CallRecord
  <2>2. Head(call[c].items) \in Items /\ Tail(call[c].items) \in Seq(Items) BY <2>1
  <2>3. call' \in [Calls -> CallRecord] BY <1>2, <1>7, <2>2 DEF Take, CallRecord, Places
  <2> QED BY <1>1, <1>7, <2>3 DEF Take, Shapes, netVars
<1> QED BY <1>4, <1>5, <1>6, <1>7 DEF Caller

\* The steps of the two tasks keep the shapes.
LEMMA TaskShapes ==
    ASSUME Shapes, Writer \/ ReaderRoutes \/ ReaderEnds \/ ReaderBreaks
    PROVE  Shapes'
<1>1. /\ Calls' = Calls /\ Frames' = Frames /\ Replies' = Replies /\ kind' = kind /\ tls' = tls
      /\ lost' \subseteq Calls
  BY DEF Writer, WriterWrites, WriterFlushes, WriterFails, WriterGone, ReaderRoutes, ReaderEnds, ReaderBreaks,
         Calls, Frames, Replies, Shapes
<1>2. \A c \in Calls, w \in Items :
         [call[c] EXCEPT !.items = Append(@, w)] \in CallRecord
  BY RecordParts DEF Shapes
<1>3. CASE WriterWrites \/ WriterFails
  <2>1. CASE WriterGone
    <3>1. out' \in Seq(Frames) /\ buf' \in Seq(Frames) BY <2>1 DEF WriterGone
    <3> QED BY <1>1, <2>1, <3>1 DEF WriterGone, Dropped, Shapes
  <2>2. CASE WriterWrites /\ ~WriterGone
    <3>1. out \in Seq(Frames) /\ out # <<>> BY <2>2 DEF WriterWrites, Shapes
    <3>2. Head(out) \in Frames /\ Tail(out) \in Seq(Frames) BY <3>1
    <3>3. out' = Tail(out) /\ buf' = Append(buf, Head(out)) /\ buf \in Seq(Frames)
      BY <2>2 DEF WriterWrites, Shapes
    <3>4. out' \in Seq(Frames) /\ buf' \in Seq(Frames) BY <3>2, <3>3
    <3> QED BY <1>1, <2>2, <3>4 DEF WriterWrites, Shapes, netVars
  <2> QED BY <1>3, <2>1, <2>2 DEF WriterFails
<1>4. CASE WriterFlushes
  <2>1. up \o buf \in Seq(Frames) BY DEF Shapes
  <2> QED BY <1>1, <1>4, <2>1 DEF WriterFlushes, Shapes
<1>5. CASE ReaderRoutes
  <2>1. down \in Seq(Replies) /\ down # <<>> BY <1>5 DEF ReaderRoutes, Shapes
  <2>2. Head(down) \in Replies /\ Tail(down) \in Seq(Replies) BY <2>1
  <2>3. registry' \subseteq Calls BY <1>5 DEF ReaderRoutes, Route, Shapes
  <2>4. Head(down).what \in Items BY <2>2 DEF Replies
  <2>5. call' \in [Calls -> CallRecord]
    <3>1. CASE call' = call BY <3>1 DEF Shapes
    <3>2. CASE call' # call
      <4>1. PICK c \in Calls : call' = [call EXCEPT ![c].items = Append(@, Head(down).what)]
        BY <1>5, <3>2 DEF ReaderRoutes, Route, Shapes
      <4> QED BY <1>2, <2>4, <4>1 DEF Shapes
    <3> QED BY <3>1, <3>2
  <2> QED BY <1>1, <1>5, <2>2, <2>3, <2>5 DEF ReaderRoutes, Shapes
<1>6. CASE ReaderEnds \/ ReaderBreaks
  <2>1. "error" \in Items /\ <<>> \in Seq(Replies) BY DEF Items
  <2>2. call' \in [Calls -> CallRecord]
    BY <1>2, <1>6, <2>1 DEF ReaderEnds, ReaderBreaks, FailAll, Shapes
  <2> QED
    BY <1>1, <1>6, <2>1, <2>2 DEF ReaderEnds, ReaderBreaks, Dropped, FailAll, Shapes, netVars
<1> QED BY <1>3, <1>4, <1>5, <1>6 DEF Writer

\* The steps of the server keep the shapes.
LEMMA ServerShapes ==
    ASSUME Shapes,
           ServerReceives \/ ServerCloses \/ \E c \in Calls : ServerAnswers(c) \/ ServerStreams(c)
    PROVE  Shapes'
<1>1. /\ Calls' = Calls /\ Frames' = Frames /\ Replies' = Replies
      /\ UNCHANGED <<kind, tls, lost, call, registry, out, buf, writer, reader>>
  BY DEF ServerReceives, ServerCloses, ServerAnswers, ServerStreams, ServerUnchanged,
         Calls, Frames, Replies
<1>2. CASE ServerReceives
  <2>1. up \in Seq(Frames) /\ up # <<>> BY <1>2 DEF ServerReceives, Shapes
  <2>2. Head(up) \in Frames /\ Tail(up) \in Seq(Frames) BY <2>1
  <2>3. serving' \in [Calls -> ServingRecord]
    BY <1>2, <2>2 DEF ServerReceives, Shapes, ServingRecord, Frames
  <2> QED BY <1>1, <1>2, <2>2, <2>3 DEF ServerReceives, Shapes
<1>3. CASE ServerCloses BY <1>1, <1>3 DEF ServerCloses, Shapes
<1>4. ASSUME NEW c \in Calls, ServerAnswers(c)
      PROVE  Shapes'
  <2>1. serving' \in [Calls -> ServingRecord]
    BY <1>4 DEF ServerAnswers, Shapes, ServingRecord
  <2>2. down' \in Seq(Replies)
    <3>1. \E x \in Replies : down' = Append(down, x)
      <4>1. Reply(Nobody, "error") \in Replies /\ \A w \in Final : Reply(c, w) \in Replies
        BY CallsFacts DEF Final, Items
      <4> QED BY <1>4, <4>1 DEF ServerAnswers, Final
    <3> QED BY <3>1 DEF Shapes
  <2>3. up' = up /\ socket' \in {"open", "half", "closed"}
    BY <1>4 DEF ServerAnswers, Shapes
  <2> QED BY <1>1, <2>1, <2>2, <2>3 DEF Shapes
<1>5. ASSUME NEW c \in Calls, ServerStreams(c)
      PROVE  Shapes'
  <2>1. serving' \in [Calls -> ServingRecord]
    BY <1>5 DEF ServerStreams, Shapes, ServingRecord
  <2>2. down' \in Seq(Replies) BY <1>5, CallsFacts DEF ServerStreams, Shapes, Items
  <2> QED BY <1>1, <1>5, <2>1, <2>2 DEF ServerStreams, Shapes
<1> QED BY <1>2, <1>3, <1>4, <1>5

\* Every step keeps the shapes.
LEMMA ShapesStep ==
    ASSUME Shapes, [Next]_vars
    PROVE  Shapes'
<1>1. CASE Next BY <1>1, CallerShapes, TaskShapes, ServerShapes DEF Next
<1>2. CASE UNCHANGED vars BY <1>2 DEF vars, netVars, Shapes, Calls, Frames, Replies
<1> QED BY <1>1, <1>2

--------------------
\* The in-flight budget and the queue's depth are kept, so the client is well typed.
LEMMA BoundsStep ==
    ASSUME Shapes, Bounds, [Next]_vars
    PROVE  Bounds'
<1>1. Len(out') <= QueueDepth
  <2>1. \/ out' = out
        \/ out' = <<>>
        \/ (out # <<>> /\ out' = Tail(out))
        \/ \E x \in Frames : out' = Append(out, x) /\ Len(out) < QueueDepth
    <3>1. \A c \in Calls : Ask(c) \in Frames /\ Cancel(c) \in Frames BY CallsFacts
    <3>2. CASE Next
      BY <3>1, <3>2 DEF Next, Begin, Caller, Register, Enqueue, EnqueueFails, Take, ChannelCloses,
           DropStream, DropFuture, Writer, WriterWrites, WriterFlushes, WriterFails, WriterGone,
           ReaderRoutes, ReaderEnds, ReaderBreaks, ServerReceives, ServerCloses, ServerAnswers,
           ServerStreams, ServerUnchanged
    <3> QED BY <3>2 DEF vars
  <2>2. out \in Seq(Frames) /\ QueueDepth \in Nat BY AsyncClientAssumption DEF Shapes
  <2>3. out # <<>> => Len(Tail(out)) <= Len(out) BY <2>2
  <2>4. \A x \in Frames : Len(Append(out, x)) = Len(out) + 1 BY <2>2
  <2>5. Len(<<>>) = 0 /\ Len(out) \in Nat /\ Len(out) <= QueueDepth BY <2>2 DEF Bounds
  <2>6. ASSUME out # <<>>, out' = Tail(out)
        PROVE  Len(out') <= QueueDepth
    <3>1. Len(out') = Len(out) - 1 BY <2>2, <2>6
    <3> QED BY <2>2, <2>5, <3>1
  <2>7. ASSUME NEW x \in Frames, out' = Append(out, x), Len(out) < QueueDepth
        PROVE  Len(out') <= QueueDepth
    BY <2>2, <2>4, <2>5, <2>7
  <2> QED BY <2>1, <2>2, <2>5, <2>6, <2>7
<1>2. IsFiniteSet(registry') /\ Cardinality(registry') <= Budget
  <2>1. \/ registry' \subseteq registry
        \/ \E c \in Calls : registry' = registry \cup {c} /\ Free > 0
    <3>2. CASE Next
      BY <3>2 DEF Next, Begin, Caller, Register, Enqueue, EnqueueFails, Take, ChannelCloses,
           DropStream, DropFuture, Writer, WriterWrites, WriterFlushes, WriterFails, WriterGone,
           ReaderRoutes, Route, ReaderEnds, ReaderBreaks, FailAll, ServerReceives, ServerCloses, ServerAnswers,
           ServerStreams, ServerUnchanged
    <3> QED BY <3>2 DEF vars
  <2>2. IsFiniteSet(registry) /\ Cardinality(registry) \in Nat /\ Budget \in Nat
        /\ Cardinality(registry) <= Budget
    BY FS_CardinalityType, AsyncClientAssumption DEF Bounds
  <2>3. CASE registry' \subseteq registry
    <3>1. IsFiniteSet(registry') /\ Cardinality(registry') <= Cardinality(registry)
      BY <2>2, <2>3, FS_Subset
    <3>2. Cardinality(registry') \in Nat BY <3>1, FS_CardinalityType
    <3> QED BY <2>2, <3>1, <3>2
  <2>4. ASSUME NEW c \in Calls, registry' = registry \cup {c}, Free > 0
        PROVE  IsFiniteSet(registry') /\ Cardinality(registry') <= Budget
    <3>1. /\ IsFiniteSet(registry')
          /\ Cardinality(registry') = Cardinality(registry)
               \/ Cardinality(registry') = Cardinality(registry) + 1
      BY <2>2, <2>4, FS_AddElement
    <3>2. Cardinality(registry) < Budget BY <2>2, <2>4 DEF Free
    <3> QED BY <2>2, <3>1, <3>2
  <2> QED BY <2>1, <2>3, <2>4
<1> QED BY <1>1, <1>2 DEF Bounds

\* The initial states are well formed.
LEMMA ShapesInit ==
    ASSUME Init
    PROVE  Shapes /\ Bounds
<1>1. <<>> \in Seq(Items) /\ <<>> \in Seq(Frames) /\ <<>> \in Seq(Replies) OBVIOUS
<1>2. Shapes BY <1>1 DEF Init, Shapes, Calls, CallRecord, ServingRecord, Places
<1>3. Len(<<>>) = 0 /\ IsFiniteSet({}) /\ Cardinality({}) = 0 BY FS_EmptySet
<1> QED BY <1>2, <1>3, AsyncClientAssumption DEF Init, Bounds

\* The client is well typed, its outbound queue within its depth and the entries of its registry
\* within the in-flight budget, whatever is dropped and however the connection ends: an entry
\* holds the permit its call acquired (Registered), for every budget and depth.
THEOREM TypeCorrect == Spec => []TypeOK
<1>1. Init => Shapes /\ Bounds BY ShapesInit
<1>2. Shapes /\ Bounds /\ [Next]_vars => (Shapes /\ Bounds)' BY ShapesStep, BoundsStep
<1>3. Shapes /\ Bounds => TypeOK BY DEF Shapes, Bounds, TypeOK, CallRecord
<1> QED BY <1>1, <1>2, <1>3, PTL DEF Spec

--------------------
\* t is a stretch of s.
Window(s, t) ==
    \E d \in Nat : \A i \in DOMAIN t : i + d \in DOMAIN s /\ t[i] = s[i + d]

\* Moving the head of the last of three sequences to the end of the second leaves their
\* concatenation.
LEMMA PassedOn ==
    ASSUME NEW a \in Seq(Frames), NEW b \in Seq(Frames), NEW c \in Seq(Frames), c # <<>>
    PROVE  a \o Append(b, Head(c)) \o Tail(c) = a \o b \o c
<1> DEFINE l == a \o b \o c
<1>1. l \in Seq(Frames) /\ Len(l) = Len(a) + Len(b) + Len(c) OBVIOUS
<1>2. /\ \A i \in 1..Len(a) : l[i] = a[i]
      /\ \A i \in 1..Len(b) : l[Len(a) + i] = b[i]
      /\ \A i \in 1..Len(c) : l[Len(a) + Len(b) + i] = c[i]
  OBVIOUS
<1>3. Head(c) \in Frames /\ Tail(c) \in Seq(Frames) /\ Len(Tail(c)) = Len(c) - 1 OBVIOUS
<1>4. \A i \in 1..Len(Tail(c)) : Tail(c)[i] = c[i + 1] OBVIOUS
<1>5. Head(c) = c[1] /\ Len(c) >= 1 OBVIOUS
<1> DEFINE m == a \o Append(b, Head(c)) \o Tail(c)
<1>6. m \in Seq(Frames) /\ Len(m) = Len(l) BY <1>1, <1>3
<1>7. ASSUME NEW i \in 1..Len(l)
      PROVE  m[i] = l[i]
  <2>1. CASE i <= Len(a) BY <1>2, <1>3, <2>1
  <2>2. CASE i > Len(a) /\ i <= Len(a) + Len(b) BY <1>3, <2>2
  <2>3. CASE i = Len(a) + Len(b) + 1 BY <1>3, <1>5, <2>3
  <2>4. CASE i > Len(a) + Len(b) + 1 BY <1>1, <1>3, <1>4, <1>5, <2>4
  <2>5. Len(a) \in Nat /\ Len(b) \in Nat /\ Len(l) \in Nat BY <1>1
  <2> HIDE DEF m, l
  <2>6. i \in Nat BY <2>5
  <2>7. \/ i <= Len(a)
        \/ i > Len(a) /\ i <= Len(a) + Len(b)
        \/ i = Len(a) + Len(b) + 1
        \/ i > Len(a) + Len(b) + 1
    BY <2>5, <2>6
  <2> QED BY <2>1, <2>2, <2>3, <2>4, <2>7
<1> HIDE DEF m, l
<1>8. m = l BY <1>1, <1>6, <1>7, SeqEqual
<1> QED BY <1>8 DEF m, l

\* The pipeline of the request frames: what the tasks, the server and a loss make of three
\* sequences that follow each other.
LEMMA Pipeline ==
    ASSUME NEW S, NEW a \in Seq(S), NEW b \in Seq(S), NEW c \in Seq(S)
    PROVE  /\ Window(a \o b \o c, a \o b \o c)
           /\ \A x \in S : a \o b \o Append(c, x) = Append(a \o b \o c, x)
           /\ c = <<>> => (a \o b) \o <<>> \o <<>> = a \o b \o c
           /\ Window(a \o b \o c, a \o <<>> \o <<>>)
           /\ a # <<>> => Window(a \o b \o c, Tail(a) \o b \o c)
           /\ Window(a \o b \o c, <<>> \o b \o c)
<1> DEFINE l == a \o b \o c
<1>1. l \in Seq(S) /\ Len(l) = Len(a) + Len(b) + Len(c) OBVIOUS
<1>2. /\ \A i \in 1..Len(a) : l[i] = a[i]
      /\ \A i \in 1..Len(b) : l[Len(a) + i] = b[i]
      /\ \A i \in 1..Len(c) : l[Len(a) + Len(b) + i] = c[i]
  OBVIOUS
<1>3. Window(l, l)
  <2> HIDE DEF l
  <2>1. \A i \in DOMAIN l : i + 0 \in DOMAIN l /\ l[i] = l[i + 0] BY <1>1
  <2> QED BY <2>1 DEF Window
<1>4. \A x \in S : a \o b \o Append(c, x) = Append(l, x) OBVIOUS
<1>6. c = <<>> => (a \o b) \o <<>> \o <<>> = l OBVIOUS
<1>7. Window(l, a \o <<>> \o <<>>)
  <2>1. a \o <<>> \o <<>> = a OBVIOUS
  <2>2. \A i \in DOMAIN a : i + 0 \in DOMAIN l /\ a[i] = l[i + 0] BY <1>1, <1>2
  <2> HIDE DEF l
  <2> QED BY <2>1, <2>2 DEF Window
<1>8. ASSUME a # <<>>
      PROVE  Window(l, Tail(a) \o b \o c)
  <2>1. Tail(a) \o b \o c = Tail(l) /\ l # <<>> BY <1>8
  <2>2. \A i \in DOMAIN Tail(l) : i + 1 \in DOMAIN l /\ Tail(l)[i] = l[i + 1]
    BY <1>1, <2>1
  <2> HIDE DEF l
  <2> QED BY <2>1, <2>2 DEF Window
<1>9. Window(l, <<>> \o b \o c)
  <2>1. <<>> \o b \o c = b \o c OBVIOUS
  <2>2. \A i \in DOMAIN (b \o c) : i + Len(a) \in DOMAIN l /\ (b \o c)[i] = l[i + Len(a)]
    BY <1>1, <1>2
  <2>3. Len(a) \in Nat OBVIOUS
  <2> HIDE DEF l
  <2> QED BY <2>1, <2>2, <2>3 DEF Window
<1> QED BY <1>3, <1>4, <1>6, <1>7, <1>8, <1>9

\* What a step makes of the requests on their way: it loses some at either end, hands the oldest
\* to the server, or a caller adds one.
LEMMA LineStep ==
    ASSUME Shapes, [Next]_vars
    PROVE  \/ Window(Line, Line')
           \/ \E c \in Calls : Enqueue(c) /\ Line' = Append(Line, Ask(c))
           \/ \E c \in Calls : DropStream(c) /\ Line' = Append(Line, Cancel(c))
<1>1. out \in Seq(Frames) /\ buf \in Seq(Frames) /\ up \in Seq(Frames) BY DEF Shapes
<1>2. \A c \in Calls : Ask(c) \in Frames /\ Cancel(c) \in Frames BY CallsFacts
<1>3. ASSUME UNCHANGED <<out, buf, up>>
      PROVE  Window(Line, Line')
  BY <1>1, <1>3, Pipeline DEF Line
<1>4. ASSUME NEW c \in Calls, Enqueue(c)
      PROVE  Line' = Append(Line, Ask(c))
  BY <1>1, <1>2, <1>4, Pipeline DEF Line, Enqueue, netVars
<1>5. ASSUME NEW c \in Calls, DropStream(c)
      PROVE  Window(Line, Line') \/ Line' = Append(Line, Cancel(c))
  <2>1. buf' = buf /\ up' = up /\ (out' = out \/ out' = Append(out, Cancel(c)))
    BY <1>5 DEF DropStream, netVars
  <2>2. CASE out' = out BY <1>3, <2>1, <2>2
  <2>3. CASE out' = Append(out, Cancel(c)) BY <1>1, <1>2, <2>1, <2>3, Pipeline DEF Line
  <2> QED BY <2>1, <2>2, <2>3
<1>6. ASSUME Writer
      PROVE  Window(Line, Line')
  <2>1. CASE WriterGone BY <1>1, <2>1, Pipeline DEF WriterGone, Line
  <2>2. CASE WriterWrites /\ ~WriterGone
    <3>1. Line' = Line
      <4>1. out # <<>> /\ out' = Tail(out) /\ buf' = Append(buf, Head(out)) /\ up' = up
        BY <2>2 DEF WriterWrites, netVars
      <4>3. out # <<>> BY <4>1
      <4>2. up \o Append(buf, Head(out)) \o Tail(out) = up \o buf \o out
        BY <1>1, <4>3, PassedOn
      <4> QED BY <4>1, <4>2 DEF Line
    <3> QED BY <1>1, <3>1, Pipeline DEF Line
  <2>3. CASE WriterFlushes
    <3>1. CASE socket = "open"
      <4>1. out = <<>> /\ out' = <<>> /\ buf' = <<>> /\ up' = up \o buf
        BY <2>3, <3>1 DEF WriterFlushes
      <4>2. Line' = Line BY <1>1, <4>1, Pipeline DEF Line
      <4> QED BY <1>1, <4>2, Pipeline DEF Line
    <3>2. CASE socket # "open"
      <4>1. out' = <<>> /\ buf' = <<>> /\ up' = up BY <2>3, <3>2 DEF WriterFlushes
      <4> QED BY <1>1, <4>1, Pipeline DEF Line
    <3> QED BY <3>1, <3>2
  <2> QED BY <1>6, <2>1, <2>2, <2>3 DEF Writer, WriterFails
<1>7. ASSUME ServerReceives
      PROVE  Window(Line, Line')
  BY <1>1, <1>7, Pipeline DEF ServerReceives, ServerUnchanged, Line
<1>8. ASSUME ServerCloses
      PROVE  Window(Line, Line')
  BY <1>1, <1>8, Pipeline DEF ServerCloses, ServerUnchanged, Line
<1>9. ASSUME NEW c \in Calls, Begin(c) \/ Register(c) \/ EnqueueFails(c) \/ Take(c)
                               \/ ChannelCloses(c) \/ DropFuture(c)
      PROVE  UNCHANGED <<out, buf, up>>
  BY <1>9 DEF Begin, Register, EnqueueFails, Take, ChannelCloses, DropFuture, netVars
<1>10. ASSUME ReaderRoutes \/ ReaderEnds \/ ReaderBreaks \/ \E c \in Calls : ServerAnswers(c) \/ ServerStreams(c)
       PROVE  UNCHANGED <<out, buf, up>>
  BY <1>10 DEF ReaderRoutes, ReaderEnds, ReaderBreaks, ServerAnswers, ServerStreams, ServerUnchanged, netVars
<1>11. UNCHANGED vars => UNCHANGED <<out, buf, up>> BY DEF vars, netVars
<1>12. CASE Next
  BY <1>3, <1>4, <1>5, <1>6, <1>7, <1>8, <1>9, <1>10, <1>12 DEF Next, Caller
<1> QED BY <1>3, <1>11, <1>12

--------------------
\* A call that was given up stays so, and takes no entry again.
LEMMA GoneStays ==
    ASSUME Shapes, [Next]_vars, NEW d \in Calls, call[d].at = "gone"
    PROVE  call'[d].at = "gone" /\ (d \notin registry => d \notin registry')
<1>1. call \in [Calls -> CallRecord] /\ call[d] \in [at : Places, items : Seq(Items), got : Seq(Items)]
  BY DEF Shapes, CallRecord
<1>2. ASSUME NEW c \in Calls, Begin(c) \/ Caller(c) \/ DropStream(c) \/ DropFuture(c)
      PROVE  call'[d].at = "gone" /\ (d \notin registry => d \notin registry')
  BY <1>1, <1>2 DEF Begin, Caller, Register, Enqueue, EnqueueFails, Take, ChannelCloses,
                    DropStream, DropFuture
<1>3. ASSUME ReaderRoutes \/ ReaderEnds \/ ReaderBreaks
      PROVE  call'[d].at = "gone" /\ (d \notin registry => d \notin registry')
  <2>1. CASE ReaderRoutes BY <1>1, <2>1 DEF ReaderRoutes, Route
  <2>2. CASE ReaderEnds \/ ReaderBreaks BY <1>1, <2>2 DEF ReaderEnds, ReaderBreaks, FailAll
  <2> QED BY <1>3, <2>1, <2>2
<1>4. ASSUME \/ Writer \/ ServerReceives \/ ServerCloses \/ UNCHANGED vars
             \/ \E c \in Calls : ServerAnswers(c) \/ ServerStreams(c)
      PROVE  call' = call /\ registry' = registry
  BY <1>4 DEF Writer, WriterWrites, WriterFlushes, WriterFails, WriterGone, ServerReceives,
              ServerCloses, ServerAnswers, ServerStreams, ServerUnchanged, vars
<1>5. CASE Next BY <1>2, <1>3, <1>4, <1>5 DEF Next
<1> QED BY <1>4, <1>5

\* A Cancel stays one for a stream that was dropped.
LEMMA CancelsStep ==
    ASSUME Shapes, CancelsAreDropped, [Next]_vars
    PROVE  CancelsAreDropped'
<1>1. Line \in Seq(Frames) /\ Line' \in Seq(Frames)
  <2>1. Shapes' /\ Frames' = Frames
    <3>1. kind' = kind
      BY DEF Next, Begin, Caller, Register, Enqueue, EnqueueFails, Take, ChannelCloses, DropStream,
         DropFuture, Writer, WriterWrites, WriterFlushes, WriterFails, WriterGone, ReaderRoutes,
         ReaderEnds, ReaderBreaks, ServerReceives, ServerCloses, ServerAnswers, ServerStreams,
         ServerUnchanged, vars
    <3> QED BY <3>1, ShapesStep DEF Frames, Calls
  <2> QED BY <2>1 DEF Shapes, Line
<1>2. \A i \in DOMAIN Line : Line[i].call \in Calls
  <2>1. \A i \in DOMAIN Line : Line[i] \in Frames BY <1>1
  <2> QED BY <2>1 DEF Frames
<1>3. CASE Window(Line, Line') BY <1>2, <1>3, GoneStays DEF Window, CancelsAreDropped
<1>4. ASSUME NEW c \in Calls, Enqueue(c), Line' = Append(Line, Ask(c))
      PROVE  CancelsAreDropped'
  <2>1. \A i \in DOMAIN Line' : (i \in DOMAIN Line /\ Line'[i] = Line[i]) \/ Line'[i] = Ask(c)
    BY <1>1, <1>4
  <2>2. ~Ask(c).cancels BY DEF Ask
  <2> QED BY <1>2, <2>1, <2>2, GoneStays DEF CancelsAreDropped
<1>5. ASSUME NEW c \in Calls, DropStream(c), Line' = Append(Line, Cancel(c))
      PROVE  CancelsAreDropped'
  <2>1. \A i \in DOMAIN Line' : (i \in DOMAIN Line /\ Line'[i] = Line[i]) \/ Line'[i] = Cancel(c)
    BY <1>1, <1>5
  <2>2. Cancel(c).call = c /\ call'[c].at = "gone" /\ c \notin registry'
    BY <1>5 DEF Cancel, DropStream, Shapes, CallRecord
  <2> QED BY <1>2, <2>1, <2>2, GoneStays DEF CancelsAreDropped
<1> QED BY <1>3, <1>4, <1>5, LineStep

\* The frames on their way are those of the three queues.
LEMMA FramesOnTheWay ==
    ASSUME NEW a \in Seq(Frames), NEW b \in Seq(Frames), NEW d \in Seq(Frames)
    PROVE  ToSet(a \o b \o d) = ToSet(a) \cup ToSet(b) \cup ToSet(d)
<1> DEFINE l == a \o b \o d
<1>1. /\ l \in Seq(Frames) /\ Len(l) = Len(a) + Len(b) + Len(d)
      /\ Len(a) \in Nat /\ Len(b) \in Nat /\ Len(d) \in Nat
      /\ DOMAIN l = 1..Len(l) /\ DOMAIN a = 1..Len(a) /\ DOMAIN b = 1..Len(b) /\ DOMAIN d = 1..Len(d)
  OBVIOUS
<1>2. /\ \A i \in 1..Len(a) : l[i] = a[i]
      /\ \A i \in 1..Len(b) : l[Len(a) + i] = b[i]
      /\ \A i \in 1..Len(d) : l[Len(a) + Len(b) + i] = d[i]
  OBVIOUS
<1> HIDE DEF l
<1>3. ASSUME NEW i \in 1..Len(l)
      PROVE  l[i] \in ToSet(a) \cup ToSet(b) \cup ToSet(d)
  <2>1. CASE i <= Len(a) BY <1>1, <1>2, <2>1 DEF ToSet
  <2>2. CASE i > Len(a) /\ i <= Len(a) + Len(b)
    <3>1. i - Len(a) \in 1..Len(b) /\ i = Len(a) + (i - Len(a)) BY <1>1, <2>2
    <3> QED BY <1>1, <1>2, <3>1 DEF ToSet
  <2>3. CASE i > Len(a) + Len(b)
    <3>1. i - Len(a) - Len(b) \in 1..Len(d) /\ i = Len(a) + Len(b) + (i - Len(a) - Len(b))
      BY <1>1, <2>3
    <3> QED BY <1>1, <1>2, <3>1 DEF ToSet
  <2> QED BY <1>1, <2>1, <2>2, <2>3
<1>4. /\ \A i \in 1..Len(a) : a[i] \in ToSet(l)
      /\ \A i \in 1..Len(b) : b[i] \in ToSet(l)
      /\ \A i \in 1..Len(d) : d[i] \in ToSet(l)
  <2>1. /\ \A i \in 1..Len(a) : i \in 1..Len(l)
        /\ \A i \in 1..Len(b) : Len(a) + i \in 1..Len(l)
        /\ \A i \in 1..Len(d) : Len(a) + Len(b) + i \in 1..Len(l)
    BY <1>1
  <2>2. \A k \in 1..Len(l) : l[k] \in ToSet(l) BY <1>1 DEF ToSet
  <2> QED BY <1>2, <2>1, <2>2
<1>5. ToSet(l) = ToSet(a) \cup ToSet(b) \cup ToSet(d) BY <1>1, <1>3, <1>4 DEF ToSet
<1> QED BY <1>5 DEF l

\* The frames of a queue that one joins, or whose head goes.
LEMMA QueuedFrames ==
    ASSUME NEW s \in Seq(Frames)
    PROVE  /\ \A x \in Frames : ToSet(Append(s, x)) = ToSet(s) \cup {x}
           /\ s # <<>> => ToSet(s) = {Head(s)} \cup ToSet(Tail(s))
           /\ ToSet(<<>>) = {}
<1>1. ASSUME NEW x \in Frames
      PROVE  ToSet(Append(s, x)) = ToSet(s) \cup {x}
  <2> DEFINE t == Append(s, x)
  <2>1. /\ DOMAIN t = 1..(Len(s) + 1) /\ DOMAIN s = 1..Len(s) /\ Len(s) \in Nat
        /\ t[Len(s) + 1] = x /\ \A i \in 1..Len(s) : t[i] = s[i]
    OBVIOUS
  <2> HIDE DEF t
  <2>2. \A i \in 1..(Len(s) + 1) : i \in 1..Len(s) \/ i = Len(s) + 1 BY <2>1
  <2>3. ToSet(t) \subseteq ToSet(s) \cup {x} BY <2>1, <2>2 DEF ToSet
  <2>4. /\ \A i \in 1..Len(s) : i \in 1..(Len(s) + 1)
        /\ Len(s) + 1 \in 1..(Len(s) + 1)
    BY <2>1
  <2>5. ToSet(s) \cup {x} \subseteq ToSet(t) BY <2>1, <2>4 DEF ToSet
  <2>6. ToSet(t) = ToSet(s) \cup {x} BY <2>3, <2>5
  <2> QED BY <2>6 DEF t
<1>2. ASSUME s # <<>>
      PROVE  ToSet(s) = {Head(s)} \cup ToSet(Tail(s))
  <2> DEFINE t == Tail(s)
  <2>1. /\ DOMAIN t = 1..(Len(s) - 1) /\ DOMAIN s = 1..Len(s) /\ Len(s) \in Nat /\ Len(s) >= 1
        /\ s[1] = Head(s) /\ \A i \in 1..(Len(s) - 1) : t[i] = s[i + 1]
    BY <1>2
  <2> HIDE DEF t
  <2>2. \A i \in 1..Len(s) : i = 1 \/ (i - 1 \in 1..(Len(s) - 1) /\ i = (i - 1) + 1)
    BY <2>1
  <2>3. \A i \in 1..Len(s) : s[i] = Head(s) \/ s[i] = t[i - 1] BY <2>1, <2>2
  <2>4. ToSet(s) \subseteq {Head(s)} \cup ToSet(t) BY <2>1, <2>2, <2>3 DEF ToSet
  <2>5. 1 \in 1..Len(s) /\ \A i \in 1..(Len(s) - 1) : i + 1 \in 1..Len(s) BY <2>1
  <2>6. {Head(s)} \cup ToSet(t) \subseteq ToSet(s) BY <2>1, <2>5 DEF ToSet
  <2>7. ToSet(s) = {Head(s)} \cup ToSet(t) BY <2>4, <2>6
  <2> QED BY <2>7 DEF t
<1>3. ToSet(<<>>) = {} BY DEF ToSet
<1> QED BY <1>1, <1>2, <1>3

OnTheWay == ToSet(out) \cup ToSet(buf) \cup ToSet(up)
Answered(c) == \E i \in DOMAIN down : down[i].call = c /\ ~Continues(c, down[i].what)

\* ReplyIsDue in these words.
LEMMA DueMeans ==
    ASSUME Shapes, NEW c \in Calls
    PROVE  ReplyIsDue(c) <=>
              \/ call[c].at = "sending" \/ Ask(c) \in OnTheWay \/ serving[c].at = "active"
              \/ Answered(c) \/ socket # "open"
<1>1. ToSet(out \o buf \o up) = OnTheWay BY FramesOnTheWay DEF Shapes, OnTheWay
<1> QED BY <1>1 DEF ReplyIsDue, Answered

\* The frames of two queues.
LEMMA FramesOfTwo ==
    ASSUME NEW a \in Seq(Frames), NEW b \in Seq(Frames)
    PROVE  ToSet(a \o b) = ToSet(a) \cup ToSet(b)
<1>1. <<>> \in Seq(Frames) /\ ToSet(<<>>) = {} BY DEF ToSet
<1>2. PICK e \in Seq(Frames) : e = <<>> BY <1>1, Zenon
<1>3. ToSet(a \o b \o e) = ToSet(a) \cup ToSet(b) \cup ToSet(e) BY FramesOnTheWay
<1>4. a \o b \o e = a \o b BY <1>2
<1> QED BY <1>1, <1>2, <1>3, <1>4

\* A request on its way stays so until the server takes it, unless the socket fails or the writer
\* task goes with it.
LEMMA OnTheWayStep ==
    ASSUME Shapes, [Next]_vars, socket' = "open"
    PROVE  /\ socket = "open"
           /\ ~ServerReceives /\ ~WriterGone => OnTheWay \subseteq OnTheWay'
           /\ ServerReceives => up # <<>> /\ OnTheWay \subseteq OnTheWay' \cup {Head(up)}
<1>1. out \in Seq(Frames) /\ buf \in Seq(Frames) /\ up \in Seq(Frames) BY DEF Shapes
<1>2. \A c \in Calls : Ask(c) \in Frames /\ Cancel(c) \in Frames BY CallsFacts
<1>3. ASSUME NEW c \in Calls, Begin(c) \/ Caller(c) \/ DropStream(c) \/ DropFuture(c)
      PROVE  socket' = socket /\ OnTheWay \subseteq OnTheWay'
  <2>1. /\ UNCHANGED <<socket, buf, up>>
        /\ out' = out \/ out' = Append(out, Ask(c)) \/ out' = Append(out, Cancel(c))
    BY <1>3 DEF Begin, Caller, Register, Enqueue, EnqueueFails, Take, ChannelCloses,
                DropStream, DropFuture, netVars
  <2>2. ToSet(out) \subseteq ToSet(out')
    <3>1. out \in Seq(Frames) /\ \A x \in Frames : ToSet(Append(out, x)) = ToSet(out) \cup {x}
      BY <1>1, QueuedFrames
    <3>2. Ask(c) \in Frames /\ Cancel(c) \in Frames BY <1>2
    <3>3. /\ ToSet(Append(out, Ask(c))) = ToSet(out) \cup {Ask(c)}
          /\ ToSet(Append(out, Cancel(c))) = ToSet(out) \cup {Cancel(c)}
      BY <3>1, <3>2
    <3> QED BY <2>1, <3>3
  <2> QED BY <2>1, <2>2 DEF OnTheWay
<1>4. ASSUME Writer
      PROVE  socket = "open" /\ (~WriterGone => OnTheWay \subseteq OnTheWay')
  <2>1. CASE WriterGone BY <2>1 DEF WriterGone, Dropped
  <2>2. CASE WriterWrites /\ ~WriterGone
    <3>1. /\ out # <<>> /\ out' = Tail(out) /\ buf' = Append(buf, Head(out)) /\ up' = up
          /\ socket' = socket
      BY <2>2 DEF WriterWrites, netVars
    <3>2. Head(out) \in Frames BY <1>1, <3>1
    <3>3. ToSet(out) = {Head(out)} \cup ToSet(out') BY <1>1, <3>1, QueuedFrames
    <3>4. ToSet(buf') = ToSet(buf) \cup {Head(out)} BY <1>1, <3>1, <3>2, QueuedFrames
    <3> QED BY <3>1, <3>3, <3>4 DEF OnTheWay
  <2>3. CASE WriterFlushes
    <3>1. socket = "open" /\ up' = up \o buf /\ out' = out /\ buf' = <<>>
      BY <2>3 DEF WriterFlushes
    <3>5. ToSet(up \o buf) = ToSet(up) \cup ToSet(buf) BY <1>1, FramesOfTwo
    <3>6. ToSet(<<>>) = {} BY DEF ToSet
    <3> QED BY <3>1, <3>5, <3>6 DEF OnTheWay
  <2> QED BY <1>4, <2>1, <2>2, <2>3 DEF Writer, WriterFails
<1>5. ASSUME ReaderRoutes \/ ReaderEnds \/ ReaderBreaks \/ UNCHANGED vars
      PROVE  socket = "open" /\ OnTheWay \subseteq OnTheWay'
  BY <1>5 DEF ReaderRoutes, ReaderEnds, ReaderBreaks, Dropped, vars, netVars, OnTheWay
<1>6. ASSUME ServerReceives
      PROVE  socket' = socket /\ up # <<>> /\ OnTheWay \subseteq OnTheWay' \cup {Head(up)}
  <2>1. up # <<>> /\ up' = Tail(up) /\ UNCHANGED <<socket, out, buf>>
    BY <1>6 DEF ServerReceives, ServerUnchanged
  <2>2. ToSet(up) = {Head(up)} \cup ToSet(up') BY <1>1, <2>1, QueuedFrames
  <2> QED BY <2>1, <2>2 DEF OnTheWay
<1>7. ASSUME \E c \in Calls : ServerAnswers(c) \/ ServerStreams(c)
      PROVE  socket = "open" /\ OnTheWay \subseteq OnTheWay'
  BY <1>7 DEF ServerAnswers, ServerStreams, ServerUnchanged, OnTheWay
<1>8. ~ServerCloses BY DEF ServerCloses
<1>9. CASE Next BY <1>3, <1>4, <1>5, <1>6, <1>7, <1>8, <1>9 DEF Next
<1>10. CASE UNCHANGED vars BY <1>5, <1>6, <1>10
<1> QED BY <1>9, <1>10

\* The replies of a response queue that one joins, or whose head goes.
LEMMA AnsweredStep ==
    ASSUME Shapes, [Next]_vars, NEW c \in Calls, Answered(c), ~ReaderBreaks
    PROVE  Answered(c)' \/ (ReaderRoutes /\ Head(down).call = c /\ ~Continues(c, Head(down).what))
<1>1. down \in Seq(Replies) /\ Streams' = Streams
  <2>1. kind' = kind
    BY DEF Next, Begin, Caller, Register, Enqueue, EnqueueFails, Take, ChannelCloses, DropStream,
       DropFuture, Writer, WriterWrites, WriterFlushes, WriterFails, WriterGone, ReaderRoutes,
       ReaderEnds, ReaderBreaks, ServerReceives, ServerCloses, ServerAnswers, ServerStreams,
       ServerUnchanged, vars
  <2> QED BY <2>1 DEF Shapes, Streams, Calls
<1>2. \/ down' = down
      \/ ReaderRoutes /\ down # <<>> /\ down' = Tail(down)
      \/ \E x \in Replies : down' = Append(down, x)
  <2>1. CASE \E d \in Calls : ServerAnswers(d) \/ ServerStreams(d)
    <3>1. PICK d \in Calls : ServerAnswers(d) \/ ServerStreams(d) BY <2>1
    <3>2. Reply(Nobody, "error") \in Replies /\ \A w \in Items \ {"closed"} : Reply(d, w) \in Replies
      BY CallsFacts
    <3> QED BY <3>1, <3>2 DEF ServerAnswers, ServerStreams, Items
  <2>2. CASE ~\E d \in Calls : ServerAnswers(d) \/ ServerStreams(d)
    BY <2>2 DEF Next, Begin, Caller, Register, Enqueue, EnqueueFails, Take, ChannelCloses,
       DropStream, DropFuture, Writer, WriterWrites, WriterFlushes, WriterFails, WriterGone,
       ReaderRoutes, ReaderEnds, ReaderBreaks, ServerReceives, ServerCloses, ServerUnchanged, vars, netVars
  <2> QED BY <2>1, <2>2
<1>3. PICK i \in DOMAIN down : down[i].call = c /\ ~Continues(c, down[i].what)
  BY DEF Answered
<1>4. CASE down' = down BY <1>1, <1>3, <1>4 DEF Answered, Continues
<1>5. ASSUME NEW x \in Replies, down' = Append(down, x)
      PROVE  Answered(c)'
  <2>1. i \in DOMAIN down' /\ down'[i] = down[i] BY <1>1, <1>5
  <2> QED BY <1>1, <1>3, <2>1 DEF Answered, Continues
<1>6. CASE ReaderRoutes /\ down # <<>> /\ down' = Tail(down) /\ i # 1
  <2>1. i - 1 \in DOMAIN down' /\ down'[i - 1] = down[i] BY <1>1, <1>6
  <2> QED BY <1>1, <1>3, <2>1 DEF Answered, Continues
<1>7. CASE ReaderRoutes /\ down # <<>> /\ i = 1 BY <1>1, <1>3, <1>7
<1> QED BY <1>2, <1>4, <1>5, <1>6, <1>7

\* The reader task only adds to channels: it moves no caller.
LEMMA RoutingKeepsPlaces ==
    ASSUME Shapes, ReaderRoutes \/ ReaderEnds \/ ReaderBreaks, NEW d \in Calls
    PROVE  call'[d].at = call[d].at /\ call'[d].got = call[d].got
<1>1. /\ call \in [Calls -> CallRecord]
      /\ call[d] \in [at : Places, items : Seq(Items), got : Seq(Items)]
  BY DEF Shapes, CallRecord
<1>2. CASE ReaderRoutes
  <2>1. CASE call' = call BY <2>1
  <2>2. CASE call' # call
    <3>1. call' = [call EXCEPT ![Head(down).call].items = Append(@, Head(down).what)]
      BY <1>2, <2>2 DEF ReaderRoutes, Route
    <3> QED BY <1>1, <3>1
  <2> QED BY <2>1, <2>2
<1>3. CASE ReaderEnds \/ ReaderBreaks
  <2>1. call'[d] = call[d] \/ call'[d] = [call[d] EXCEPT !.items = Append(@, "error")]
    BY <1>3 DEF ReaderEnds, ReaderBreaks, FailAll
  <2> QED BY <1>1, <2>1
<1> QED BY <1>2, <1>3

\* Every step keeps an entry's reply due.
LEMMA DueStep ==
    ASSUME DueInv, [Next]_vars
    PROVE  EntriesAreDue'
<1>1. Shapes /\ Shapes' /\ Calls' = Calls /\ Streams' = Streams
  <2>1. kind' = kind
    BY DEF Next, Begin, Caller, Register, Enqueue, EnqueueFails, Take, ChannelCloses, DropStream,
       DropFuture, Writer, WriterWrites, WriterFlushes, WriterFails, WriterGone, ReaderRoutes,
       ReaderEnds, ReaderBreaks, ServerReceives, ServerCloses, ServerAnswers, ServerStreams,
       ServerUnchanged, vars
  <2> QED BY <2>1, ShapesStep DEF DueInv, Calls, Streams
<1>2. SUFFICES ASSUME reader', NEW c \in Calls, c \in registry', socket' = "open",
                      call'[c].at \notin {"sending", "unsent"}, ~LostOverTls(c)'
               PROVE  Ask(c) \in OnTheWay' \/ serving'[c].at = "active" \/ Answered(c)'
  <2>1. ASSUME NEW c \in Calls
        PROVE  ReplyIsDue(c)' <=>
                 \/ call'[c].at = "sending" \/ Ask(c) \in OnTheWay' \/ serving'[c].at = "active"
                 \/ Answered(c)' \/ socket' # "open"
    <3>1. ToSet(out' \o buf' \o up') = OnTheWay'
      <4>1. out' \in Seq(Frames) /\ buf' \in Seq(Frames) /\ up' \in Seq(Frames)
        BY <1>1 DEF Shapes, Frames
      <4> QED BY <4>1, FramesOnTheWay DEF OnTheWay
    <3> QED BY <3>1 DEF ReplyIsDue, Answered, Ask
  <2>2. registry' \subseteq Calls BY <1>1 DEF Shapes
  <2> QED BY <2>1, <2>2 DEF EntriesAreDue
<1>3. /\ call \in [Calls -> CallRecord] /\ serving \in [Calls -> ServingRecord]
      /\ call[c] \in [at : Places, items : Seq(Items), got : Seq(Items)]
      /\ serving[c] \in [at : {"no", "active", "done"}, sent : Nat]
  BY <1>1 DEF Shapes, CallRecord, ServingRecord
<1>4. socket = "open" /\ (~ServerReceives /\ ~WriterGone => OnTheWay \subseteq OnTheWay')
      /\ (ServerReceives => up # <<>> /\ OnTheWay \subseteq OnTheWay' \cup {Head(up)})
  BY <1>1, <1>2, OnTheWayStep
<1>5. reader
  BY <1>2 DEF Next, Begin, Caller, Register, Enqueue, EnqueueFails, Take, ChannelCloses, DropStream,
       DropFuture, Writer, WriterWrites, WriterFlushes, WriterFails, WriterGone, ReaderRoutes,
       ReaderEnds, ReaderBreaks, ServerReceives, ServerCloses, ServerAnswers, ServerStreams,
       ServerUnchanged, vars
<1>13. tls' = tls /\ lost \subseteq lost'
  BY DEF Next, Begin, Caller, Register, Enqueue, EnqueueFails, Take, ChannelCloses, DropStream,
     DropFuture, Writer, WriterWrites, WriterFlushes, WriterFails, WriterGone, ReaderRoutes,
     ReaderEnds, ReaderBreaks, ServerReceives, ServerCloses, ServerAnswers, ServerStreams,
     ServerUnchanged, vars
<1>14. ~LostOverTls(c) /\ ~ReaderBreaks BY <1>2, <1>13 DEF LostOverTls, ReaderBreaks
<1>6. ASSUME c \in registry
      PROVE  \/ call[c].at \in {"sending", "unsent"} \/ Ask(c) \in OnTheWay
             \/ serving[c].at = "active" \/ Answered(c)
  BY <1>1, <1>4, <1>5, <1>6, <1>14, DueMeans DEF DueInv, EntriesAreDue
<1>7. Ask(c) \in OnTheWay => Ask(c) \in OnTheWay' \/ serving'[c].at = "active"
  <2>1. ASSUME ServerReceives, Ask(c) = Head(up)
        PROVE  serving'[c].at = "active"
    <3>1. Head(up).call = c /\ ~Head(up).cancels BY <2>1 DEF Ask
    <3> QED BY <1>3, <2>1, <3>1 DEF ServerReceives
  <2>2. ASSUME WriterGone, Ask(c) \in OnTheWay
        PROVE  Ask(c) \in OnTheWay'
    <3>1. tls /\ up' = up /\ reader BY <1>2, <1>4, <1>5, <2>2 DEF WriterGone, Dropped
    <3>2. Ask(c) \notin ToSet(out \o buf)
      BY <1>2, <1>13, <2>2, <3>1 DEF WriterGone, LostOverTls
    <3>3. ToSet(out \o buf) = ToSet(out) \cup ToSet(buf)
      BY <1>1, FramesOfTwo DEF Shapes
    <3> QED BY <2>2, <3>1, <3>2, <3>3 DEF OnTheWay
  <2> QED BY <1>4, <2>1, <2>2
<1>8. ASSUME c \in registry, serving[c].at = "active"
      PROVE  serving'[c].at = "active" \/ Answered(c)'
  <2>1. CASE ServerReceives
    <3>1. up \in Seq(Frames) /\ up # <<>> BY <1>1, <1>4, <2>1 DEF Shapes
    <3>2. Head(up) \in Frames /\ 1 \in DOMAIN Line /\ Line[1] = Head(up)
      BY <1>1, <3>1 DEF Shapes, Line
    <3>3. Head(up).cancels => Head(up).call # c
      BY <1>8, <3>2 DEF DueInv, CancelsAreDropped
    <3>4. Head(up).call \in Calls BY <3>2 DEF Frames
    <3> QED BY <1>3, <1>8, <2>1, <3>3, <3>4 DEF ServerReceives
  <2>2. ASSUME NEW d \in Calls, ServerAnswers(d)
        PROVE  serving'[c].at = "active" \/ Answered(c)'
    <3>1. CASE d # c BY <1>3, <1>8, <2>2, <3>1 DEF ServerAnswers
    <3>2. CASE d = c
      <4>1. PICK w \in {"ok", "end", "error"} : down' = Append(down, Reply(c, w))
        BY <1>2, <2>2, <3>2 DEF ServerAnswers
      <4>2. Reply(c, w) \in Replies BY <1>1, <4>1, CallsFacts DEF Items
      <4>3. Len(down) + 1 \in DOMAIN down' /\ down'[Len(down) + 1] = Reply(c, w)
        BY <1>1, <4>1, <4>2 DEF Shapes
      <4> QED BY <4>1, <4>3 DEF Answered, Continues, Reply
    <3> QED BY <3>1, <3>2
  <2>3. ASSUME NEW d \in Calls, ServerStreams(d)
        PROVE  serving'[c].at = "active"
    BY <1>3, <1>8, <2>3 DEF ServerStreams
  <2>4. CASE ~ServerReceives /\ ~\E d \in Calls : ServerAnswers(d) \/ ServerStreams(d)
    <3>1. serving' = serving
      BY <2>4 DEF Next, Begin, Caller, Register, Enqueue, EnqueueFails, Take, ChannelCloses,
         DropStream, DropFuture, Writer, WriterWrites, WriterFlushes, WriterFails, WriterGone,
         ReaderRoutes, ReaderEnds, ReaderBreaks, ServerCloses, vars, netVars
    <3> QED BY <1>8, <3>1
  <2> QED BY <2>1, <2>2, <2>3, <2>4
<1>9. ASSUME c \in registry, Answered(c)
      PROVE  Answered(c)'
  <2>1. ASSUME ReaderRoutes, Head(down).call = c, ~Continues(c, Head(down).what)
        PROVE  FALSE
    <3>1. c # Nobody BY <1>1, CallsFacts
    <3>2. c \notin registry' BY <1>9, <2>1, <3>1 DEF ReaderRoutes, Route
    <3> QED BY <1>2, <3>2
  <2> QED BY <1>1, <1>9, <1>14, <2>1, AnsweredStep
<1>10. CASE c \notin registry
  <2>1. PICK d \in Calls : Register(d) /\ d = c
    <3>1. CASE \E d \in Calls : Register(d) BY <1>2, <1>10, <3>1 DEF Register
    <3>2. CASE ~\E d \in Calls : Register(d)
      BY <1>2, <1>10, <3>2 DEF Next, Begin, Caller, Enqueue, EnqueueFails, Take, ChannelCloses,
         DropStream, DropFuture, Writer, WriterWrites, WriterFlushes, WriterFails, WriterGone,
         ReaderRoutes, Route, ReaderEnds, ReaderBreaks, FailAll, ServerReceives, ServerCloses, ServerAnswers,
         ServerStreams, ServerUnchanged, vars
    <3> QED BY <3>1, <3>2
  <2> QED BY <1>2, <1>3, <2>1 DEF Register
<1>11. CASE c \in registry /\ call[c].at = "sending"
  <2>1. CASE Enqueue(c)
    <3>1. out' = Append(out, Ask(c)) /\ out \in Seq(Frames) /\ Ask(c) \in Frames
      BY <1>1, <2>1, CallsFacts DEF Enqueue, Shapes
    <3>2. ToSet(out') = ToSet(out) \cup {Ask(c)} BY <3>1, QueuedFrames
    <3> QED BY <3>2 DEF OnTheWay
  <2>2. CASE EnqueueFails(c) BY <1>2, <2>2 DEF EnqueueFails
  <2>3. CASE ~Enqueue(c) /\ ~EnqueueFails(c)
    <3>1. ASSUME NEW d \in Calls, Begin(d) \/ Caller(d) \/ DropStream(d) \/ DropFuture(d)
          PROVE  call'[c].at \in {"sending", "unsent"}
      BY <1>3, <1>11, <2>3, <3>1 DEF Begin, Caller, Register, Enqueue, EnqueueFails, Take,
           ChannelCloses, DropStream, DropFuture
    <3>2. ASSUME ReaderRoutes \/ ReaderEnds \/ ReaderBreaks
          PROVE  call'[c].at = "sending"
      BY <1>1, <1>11, <3>2, RoutingKeepsPlaces
    <3>3. ASSUME \/ Writer \/ ServerReceives \/ ServerCloses \/ UNCHANGED vars
                 \/ \E d \in Calls : ServerAnswers(d) \/ ServerStreams(d)
          PROVE  call' = call
      BY <3>3 DEF Writer, WriterWrites, WriterFlushes, WriterFails, WriterGone, ServerReceives,
           ServerCloses, ServerAnswers, ServerStreams, ServerUnchanged, vars
    <3>4. call'[c].at \in {"sending", "unsent"}
      <4>1. CASE Next BY <1>11, <3>1, <3>2, <3>3, <4>1 DEF Next
      <4>2. CASE UNCHANGED vars BY <1>11, <3>3, <4>2
      <4> QED BY <4>1, <4>2
    <3> QED BY <1>2, <3>4
  <2> QED BY <2>1, <2>2, <2>3
<1>12. CASE c \in registry /\ call[c].at = "unsent"
  <2>1. ASSUME NEW d \in Calls, Begin(d) \/ Caller(d) \/ DropStream(d) \/ DropFuture(d)
        PROVE  call'[c].at = "unsent"
    BY <1>3, <1>12, <2>1 DEF Begin, Caller, Register, Enqueue, EnqueueFails, Take,
         ChannelCloses, DropStream, DropFuture
  <2>2. ASSUME ReaderRoutes \/ ReaderEnds \/ ReaderBreaks
        PROVE  call'[c].at = "unsent"
    BY <1>1, <1>12, <2>2, RoutingKeepsPlaces
  <2>3. ASSUME \/ Writer \/ ServerReceives \/ ServerCloses \/ UNCHANGED vars
               \/ \E d \in Calls : ServerAnswers(d) \/ ServerStreams(d)
        PROVE  call' = call
    BY <2>3 DEF Writer, WriterWrites, WriterFlushes, WriterFails, WriterGone, ServerReceives,
         ServerCloses, ServerAnswers, ServerStreams, ServerUnchanged, vars
  <2>4. CASE Next BY <1>2, <1>12, <2>1, <2>2, <2>3, <2>4 DEF Next
  <2>5. CASE UNCHANGED vars BY <1>2, <1>12, <2>3, <2>5
  <2> QED BY <2>4, <2>5
<1> QED BY <1>6, <1>7, <1>8, <1>9, <1>10, <1>11, <1>12

\* While the reader task runs, no entry of the registry, and so no permit and no caller, waits for
\* a reply that nobody owes: its request is still queued, travelling or served, its terminal
\* response is on the way, or the socket is failing and fail_all will find it
\* (AsyncClient::append, stats, read, subscribe, route, the drops of streams and futures), for any
\* calls, budget and depth. The exception is the future dropped while it waited for room in the
\* outbound queue.
THEOREM RepliesAreDue == Spec => []EntriesAreDue
<1>1. Init => DueInv
  <2>1. ASSUME Init
        PROVE  CancelsAreDropped /\ EntriesAreDue
    <3>1. Line = <<>> BY <2>1 DEF Init, Line
    <3> QED BY <2>1, <3>1 DEF Init, CancelsAreDropped, EntriesAreDue
  <2> QED BY <2>1, ShapesInit DEF DueInv
<1>2. DueInv /\ [Next]_vars => DueInv' BY ShapesStep, CancelsStep, DueStep DEF DueInv
<1>3. DueInv => EntriesAreDue BY DEF DueInv
<1> QED BY <1>1, <1>2, <1>3, PTL DEF Spec

--------------------
\* The responses for a call when one joins their queue.
LEMMA ComingAppend ==
    ASSUME Shapes, NEW x \in Replies, down' = Append(down, x), NEW c
    PROVE  /\ Cardinality(Coming(c)) \in Nat
           /\ \A i \in Coming(c) : i \in 1..Len(down) /\ down'[i] = down[i]
           /\ x.call = c => /\ Coming(c)' = Coming(c) \cup {Len(down) + 1}
                            /\ Cardinality(Coming(c)') = Cardinality(Coming(c)) + 1
                            /\ down'[Len(down) + 1] = x
           /\ x.call # c => Coming(c)' = Coming(c)
<1> DEFINE S == Coming(c)
           T == Coming(c)'
           n == Len(down)
<1>1. /\ n \in Nat /\ DOMAIN down = 1..n /\ DOMAIN (down') = 1..(n + 1)
      /\ down'[n + 1] = x /\ \A i \in 1..n : down'[i] = down[i]
  BY DEF Shapes
<1> HIDE DEF n
<1>2. S \subseteq 1..n BY <1>1 DEF Coming, ComingIn
<1>3. IsFiniteSet(S) /\ Cardinality(S) \in Nat
  <2>1. IsFiniteSet(1..n) BY <1>1, FS_Interval
  <2> QED BY <1>2, <2>1, FS_Subset, FS_CardinalityType
<1>4. \A i \in 1..(n + 1) : i \in 1..n \/ i = n + 1 BY <1>1
<1>5. n + 1 \in 1..(n + 1) /\ n + 1 \notin 1..n /\ \A i \in 1..n : i \in 1..(n + 1)
  BY <1>1
<1>6. x.call # c => T = S BY <1>1, <1>4, <1>5 DEF Coming, ComingIn
<1>7. x.call = c => T = S \cup {n + 1} BY <1>1, <1>4, <1>5 DEF Coming, ComingIn
<1>8. n + 1 \notin S BY <1>2, <1>5
<1> HIDE DEF S, T
<1>9. x.call = c => Cardinality(T) = Cardinality(S) + 1 BY <1>3, <1>7, <1>8, FS_AddElement
<1>10. \A i \in S : i \in 1..n /\ down'[i] = down[i] BY <1>1, <1>2
<1> QED BY <1>1, <1>3, <1>6, <1>7, <1>9, <1>10 DEF S, T, n

\* The responses for a call when the oldest one of their queue is taken.
LEMMA ComingTail ==
    ASSUME NEW rest \in Seq(Replies), rest # <<>>, NEW c
    PROVE  LET S == ComingIn(rest, c)
               T == ComingIn(Tail(rest), c)
           IN /\ \A i \in T : i + 1 \in S /\ i \in Nat /\ i >= 1 /\ Tail(rest)[i] = rest[i + 1]
              /\ Cardinality(S) \in Nat /\ Cardinality(T) \in Nat
              /\ Head(rest).call # c => Cardinality(T) = Cardinality(S)
              /\ Head(rest).call = c => /\ 1 \in S /\ rest[1] = Head(rest)
                                          /\ Cardinality(T) = Cardinality(S) - 1
<1> DEFINE S == ComingIn(rest, c)
           g == Tail(rest)
           T == ComingIn(g, c)
           n == Len(rest)
           m == n - 1
<1>1. /\ n \in Nat /\ n >= 1 /\ DOMAIN rest = 1..n /\ DOMAIN g = 1..(n - 1)
      /\ rest[1] = Head(rest) /\ \A i \in 1..(n - 1) : g[i] = rest[i + 1]
  OBVIOUS
<1> HIDE DEF g, n
<1>2. m \in Nat /\ n = m + 1 /\ DOMAIN rest = 1..(m + 1) /\ DOMAIN g = 1..m
      /\ \A i \in 1..m : g[i] = rest[i + 1]
  BY <1>1
<1> HIDE DEF m
<1>3. /\ \A i \in 1..m : i + 1 \in 1..(m + 1) /\ i + 1 # 1 /\ i \in Nat /\ i >= 1
      /\ \A j \in 1..(m + 1) : j = 1 \/ (j - 1 \in 1..m /\ (j - 1) + 1 = j)
      /\ 1 \in 1..(m + 1)
  BY <1>2
<1>4. \A i \in T : i \in 1..m /\ i + 1 \in S /\ g[i] = rest[i + 1]
  BY <1>2, <1>3 DEF ComingIn
<1>5. S \in SUBSET (1..(m + 1)) /\ IsFiniteSet(1..(m + 1))
  BY <1>2, FS_Interval DEF ComingIn
<1>6. IsFiniteSet(S) /\ Cardinality(S) \in Nat BY <1>5, FS_Subset, FS_CardinalityType
<1>7. T \in SUBSET (1..m) /\ IsFiniteSet(1..m) BY <1>2, FS_Interval DEF ComingIn
<1>8. IsFiniteSet(T) /\ Cardinality(T) \in Nat BY <1>7, FS_Subset, FS_CardinalityType
<1>9. \A j \in S \ {1} : j - 1 \in T /\ (j - 1) + 1 = j BY <1>2, <1>3 DEF ComingIn
<1>10. 1 \in S <=> Head(rest).call = c BY <1>1, <1>2, <1>3 DEF ComingIn
<1> HIDE DEF S, T
<1>11. ExistsBijection(T, S \ {1})
  <2> DEFINE f == [i \in T |-> i + 1]
  <2>1. f \in [T -> S \ {1}] BY <1>3, <1>4
  <2>2. \A a, b \in T : f[a] = f[b] => a = b BY <1>3, <1>4
  <2>3. \A j \in S \ {1} : \E i \in T : f[i] = j BY <1>9
  <2>4. f \in Bijection(T, S \ {1})
    BY <2>1, <2>2, <2>3 DEF Bijection, Injection, Surjection, IsInjective
  <2> QED BY <2>4 DEF ExistsBijection
<1>12. Cardinality(S \ {1}) = Cardinality(T) BY <1>8, <1>11, FS_Bijection
<1>13. Cardinality(S \ {1}) = IF 1 \in S THEN Cardinality(S) - 1 ELSE Cardinality(S)
  BY <1>6, FS_RemoveElement
<1>14. /\ \A i \in T : i + 1 \in S /\ i \in Nat /\ i >= 1 /\ g[i] = rest[i + 1]
       /\ Head(rest).call # c => Cardinality(T) = Cardinality(S)
       /\ Head(rest).call = c => 1 \in S /\ Cardinality(T) = Cardinality(S) - 1
  BY <1>3, <1>4, <1>10, <1>12, <1>13
<1> QED BY <1>1, <1>6, <1>8, <1>14 DEF S, T, g

--------------------
\* A caller that queued its request has queued it for good.
LEMMA SentStays ==
    ASSUME Shapes, [Next]_vars, NEW d \in Calls
    PROVE  /\ call[d].at \notin Unsent => call'[d].at \notin Unsent
           /\ call'[d].at # call[d].at =>
                 \E c \in Calls : c = d /\ (Begin(c) \/ Caller(c) \/ DropStream(c) \/ DropFuture(c))
<1>1. /\ call \in [Calls -> CallRecord]
      /\ call[d] \in [at : Places, items : Seq(Items), got : Seq(Items)]
  BY DEF Shapes, CallRecord
<1>2. ASSUME NEW c \in Calls, Begin(c) \/ Caller(c) \/ DropStream(c) \/ DropFuture(c)
      PROVE  /\ call[d].at \notin Unsent => call'[d].at \notin Unsent
             /\ c # d => call'[d] = call[d]
  BY <1>1, <1>2 DEF Begin, Caller, Register, Enqueue, EnqueueFails, Take, ChannelCloses,
                    DropStream, DropFuture, Unsent
<1>3. ASSUME ReaderRoutes \/ ReaderEnds \/ ReaderBreaks
      PROVE  call'[d].at = call[d].at
  BY <1>3, RoutingKeepsPlaces
<1>4. ASSUME \/ Writer \/ ServerReceives \/ ServerCloses \/ UNCHANGED vars
             \/ \E c \in Calls : ServerAnswers(c) \/ ServerStreams(c)
      PROVE  call' = call
  BY <1>4 DEF Writer, WriterWrites, WriterFlushes, WriterFails, WriterGone, ServerReceives,
              ServerCloses, ServerAnswers, ServerStreams, ServerUnchanged, vars
<1>5. CASE Next BY <1>2, <1>3, <1>4, <1>5 DEF Next
<1> QED BY <1>4, <1>5

\* What a step does to how far the server is with a call.
LEMMA ServingStep ==
    ASSUME Shapes, [Next]_vars, NEW d \in Calls
    PROVE  \/ serving'[d] = serving[d]
           \/ /\ ServerReceives /\ Head(up).call = d /\ Head(up).cancels
              /\ serving[d].at = "active" /\ serving'[d].at = "done"
              /\ serving'[d].sent = serving[d].sent
           \/ /\ ServerReceives /\ Head(up) = Ask(d)
              /\ serving'[d].at = "active" /\ serving'[d].sent = serving[d].sent
           \/ /\ \E c \in Calls : c = d /\ ServerAnswers(c)
              /\ serving[d].at = "active" /\ serving'[d].at = "done"
              /\ serving'[d].sent = serving[d].sent
           \/ /\ \E c \in Calls : c = d /\ ServerStreams(c)
              /\ serving[d].at = "active" /\ serving'[d].at = "active"
              /\ serving'[d].sent = serving[d].sent + 1
<1>1. /\ serving \in [Calls -> ServingRecord]
      /\ serving[d] \in [at : {"no", "active", "done"}, sent : Nat]
  BY DEF Shapes, ServingRecord
<1>2. CASE ServerReceives
  <2>1. up \in Seq(Frames) /\ up # <<>> BY <1>2 DEF ServerReceives, Shapes
  <2>2. Head(up) \in Frames BY <2>1
  <2>3. Head(up) \in [call : Calls, cancels : BOOLEAN] BY <2>2 DEF Frames
  <2>4. CASE Head(up).call # d BY <1>1, <1>2, <2>3, <2>4 DEF ServerReceives
  <2>5. CASE Head(up).call = d /\ Head(up).cancels BY <1>1, <1>2, <2>5 DEF ServerReceives
  <2>6. CASE Head(up).call = d /\ ~Head(up).cancels
    <3>1. Head(up) = Ask(d) BY <2>3, <2>6 DEF Ask
    <3> QED BY <1>1, <1>2, <2>6, <3>1 DEF ServerReceives
  <2> QED BY <2>4, <2>5, <2>6
<1>3. ASSUME NEW c \in Calls, ServerAnswers(c)
      PROVE  \/ serving'[d] = serving[d]
             \/ /\ c = d /\ serving[d].at = "active" /\ serving'[d].at = "done"
                /\ serving'[d].sent = serving[d].sent
  BY <1>1, <1>3 DEF ServerAnswers
<1>4. ASSUME NEW c \in Calls, ServerStreams(c)
      PROVE  \/ serving'[d] = serving[d]
             \/ /\ c = d /\ serving[d].at = "active" /\ serving'[d].at = "active"
                /\ serving'[d].sent = serving[d].sent + 1
  BY <1>1, <1>4 DEF ServerStreams
<1>5. CASE ~ServerReceives /\ ~\E c \in Calls : ServerAnswers(c) \/ ServerStreams(c)
  BY <1>5 DEF Next, Begin, Caller, Register, Enqueue, EnqueueFails, Take, ChannelCloses,
     DropStream, DropFuture, Writer, WriterWrites, WriterFlushes, WriterFails, WriterGone,
     ReaderRoutes, ReaderEnds, ReaderBreaks, ServerCloses, vars, netVars
<1> QED BY <1>2, <1>3, <1>4, <1>5

\* A request stays on its way at most once.
LEMMA AskedStep ==
    ASSUME Shapes, AskedOnce, [Next]_vars
    PROVE  AskedOnce'
<1>1. Shapes' /\ Frames' = Frames /\ Calls' = Calls
  <2>1. kind' = kind
    BY DEF Next, Begin, Caller, Register, Enqueue, EnqueueFails, Take, ChannelCloses, DropStream,
       DropFuture, Writer, WriterWrites, WriterFlushes, WriterFails, WriterGone, ReaderRoutes,
       ReaderEnds, ReaderBreaks, ServerReceives, ServerCloses, ServerAnswers, ServerStreams,
       ServerUnchanged, vars
  <2> QED BY <2>1, ShapesStep DEF Frames, Calls
<1>2. Line \in Seq(Frames) /\ Line' \in Seq(Frames) BY <1>1 DEF Shapes, Line
<1>3. \A i \in DOMAIN Line : Line[i] \in Frames /\ Line[i].call \in Calls
                              /\ (~Line[i].cancels => Line[i] = Ask(Line[i].call))
  <2>1. \A i \in DOMAIN Line : Line[i] \in Frames BY <1>2
  <2> QED BY <2>1 DEF Frames, Ask
<1>4. ServerReceives => 1 \in DOMAIN Line /\ Line[1] = Head(up)
  BY DEF ServerReceives, Shapes, Line
<1>5. \A i \in DOMAIN Line' : Line'[i] \in Frames /\ Line'[i].call \in Calls
  <2>1. \A i \in DOMAIN Line' : Line'[i] \in Frames BY <1>2
  <2> QED BY <2>1 DEF Frames
<1>6. ASSUME NEW c \in Calls, call'[c].at \in Unsent
      PROVE  serving'[c].at = "no"
  <2>1. call[c].at \in Unsent /\ serving[c].at = "no" BY <1>6, SentStays DEF AskedOnce
  <2>2. ~(ServerReceives /\ Head(up) = Ask(c)) BY <1>4, <2>1 DEF AskedOnce, Ask
  <2> QED BY <2>1, <2>2, ServingStep
<1>7. ASSUME NEW i \in DOMAIN Line, ~Line[i].cancels, ~(ServerReceives /\ i = 1)
      PROVE  call'[Line[i].call].at \notin Unsent /\ serving'[Line[i].call].at = "no"
  <2>1. PICK c \in Calls : c = Line[i].call /\ Line[i] = Ask(c) BY <1>3, <1>7
  <2>2. call[c].at \notin Unsent /\ serving[c].at = "no" BY <1>7, <2>1 DEF AskedOnce
  <2>3. ~(ServerReceives /\ Head(up) = Ask(c))
    <3>1. ServerReceives /\ Head(up) = Ask(c) => Line[1] = Line[i] /\ 1 \in DOMAIN Line
      BY <1>4, <2>1
    <3> QED BY <1>7, <3>1 DEF AskedOnce
  <2>4. serving'[c].at = "no" BY <2>2, <2>3, ServingStep
  <2> QED BY <2>1, <2>2, <2>4, SentStays
<1>8. CASE ServerReceives
  <2>1. Line' = Tail(Line) /\ Line # <<>>
    BY <1>8 DEF ServerReceives, ServerUnchanged, Shapes, Line
  <2>2. /\ \A i \in DOMAIN Line' : i + 1 \in DOMAIN Line /\ i + 1 # 1 /\ Line'[i] = Line[i + 1]
        /\ \A i, j \in DOMAIN Line' : i + 1 = j + 1 => i = j
    BY <1>2, <2>1
  <2>3. ASSUME NEW i \in DOMAIN Line', ~Line'[i].cancels
        PROVE  /\ call'[Line'[i].call].at \notin Unsent /\ serving'[Line'[i].call].at = "no"
               /\ \A j \in DOMAIN Line' : Line'[j] = Line'[i] => j = i
    BY <1>7, <2>2, <2>3 DEF AskedOnce
  <2> QED BY <1>1, <1>6, <2>3 DEF AskedOnce
<1>9. CASE Window(Line, Line') /\ ~ServerReceives
  <2>1. PICK k \in Nat : \A i \in DOMAIN Line' : i + k \in DOMAIN Line /\ Line'[i] = Line[i + k]
    BY <1>9 DEF Window
  <2>2. \A i, j \in DOMAIN Line' : i + k = j + k => i = j BY <1>2, <2>1
  <2>3. ASSUME NEW i \in DOMAIN Line', ~Line'[i].cancels
        PROVE  /\ call'[Line'[i].call].at \notin Unsent /\ serving'[Line'[i].call].at = "no"
               /\ \A j \in DOMAIN Line' : Line'[j] = Line'[i] => j = i
    BY <1>7, <1>9, <2>1, <2>2, <2>3 DEF AskedOnce
  <2> QED BY <1>1, <1>6, <2>3 DEF AskedOnce
<1>10. ASSUME NEW c \in Calls, Enqueue(c), Line' = Append(Line, Ask(c)), ~ServerReceives
       PROVE  AskedOnce'
  <2>1. /\ \A i \in DOMAIN Line' : (i \in DOMAIN Line /\ Line'[i] = Line[i])
                                    \/ (i = Len(Line) + 1 /\ Line'[i] = Ask(c))
    BY <1>2, <1>10
  <2>2. call[c].at \in Unsent /\ call'[c].at \notin Unsent
    BY <1>10 DEF Enqueue, Unsent, Shapes, CallRecord
  <2>3. \A i \in DOMAIN Line : Line[i] # Ask(c) BY <2>2 DEF AskedOnce, Ask
  <2>4. serving'[c].at = "no" BY <1>10, <2>2 DEF Enqueue, netVars, AskedOnce
  <2>5. ASSUME NEW i \in DOMAIN Line', ~Line'[i].cancels
        PROVE  /\ call'[Line'[i].call].at \notin Unsent /\ serving'[Line'[i].call].at = "no"
               /\ \A j \in DOMAIN Line' : Line'[j] = Line'[i] => j = i
    <3>1. Ask(c).call = c BY DEF Ask
    <3>2. CASE i \in DOMAIN Line /\ Line'[i] = Line[i]
      BY <1>7, <1>10, <2>1, <2>3, <2>5, <3>2 DEF AskedOnce
    <3>3. CASE i = Len(Line) + 1 /\ Line'[i] = Ask(c)
      BY <2>1, <2>2, <2>3, <2>4, <3>1, <3>3
    <3> QED BY <2>1, <3>2, <3>3
  <2> QED BY <1>1, <1>6, <2>5 DEF AskedOnce
<1>11. ASSUME NEW c \in Calls, DropStream(c), Line' = Append(Line, Cancel(c)), ~ServerReceives
       PROVE  AskedOnce'
  <2>1. /\ \A i \in DOMAIN Line' : (i \in DOMAIN Line /\ Line'[i] = Line[i]) \/ Line'[i] = Cancel(c)
    BY <1>2, <1>11
  <2>2. Cancel(c).cancels BY DEF Cancel
  <2>3. ASSUME NEW i \in DOMAIN Line', ~Line'[i].cancels
        PROVE  /\ call'[Line'[i].call].at \notin Unsent /\ serving'[Line'[i].call].at = "no"
               /\ \A j \in DOMAIN Line' : Line'[j] = Line'[i] => j = i
    BY <1>7, <1>11, <2>1, <2>2, <2>3 DEF AskedOnce
  <2> QED BY <1>1, <1>6, <2>3 DEF AskedOnce
<1> QED BY <1>8, <1>9, <1>10, <1>11, LineStep

\* A call that has not registered has no entry and heard nothing.
LEMMA NotYetStep ==
    ASSUME Shapes, NotYet, [Next]_vars
    PROVE  NotYet'
<1>1. Calls' = Calls
  BY DEF Next, Begin, Caller, Register, Enqueue, EnqueueFails, Take, ChannelCloses, DropStream,
     DropFuture, Writer, WriterWrites, WriterFlushes, WriterFails, WriterGone, ReaderRoutes,
     ReaderEnds, ReaderBreaks, ServerReceives, ServerCloses, ServerAnswers, ServerStreams,
     ServerUnchanged, vars, Calls
<1>2. SUFFICES ASSUME NEW c \in Calls, call'[c].at \in {"idle", "acquire"}
               PROVE  c \notin registry' /\ call'[c].items = <<>> /\ call'[c].got = <<>>
  BY <1>1 DEF NotYet
<1>3. /\ call \in [Calls -> CallRecord]
      /\ call[c] \in [at : Places, items : Seq(Items), got : Seq(Items)]
  BY DEF Shapes, CallRecord
<1>4. ASSUME NEW d \in Calls, Begin(d) \/ Caller(d) \/ DropStream(d) \/ DropFuture(d)
      PROVE  c \notin registry' /\ call'[c].items = <<>> /\ call'[c].got = <<>>
  <2>1. CASE d # c
    <3>1. call'[c] = call[c] /\ registry' \subseteq registry \cup {d}
      BY <1>3, <1>4, <2>1 DEF Begin, Caller, Register, Enqueue, EnqueueFails, Take,
           ChannelCloses, DropStream, DropFuture
    <3> QED BY <1>2, <2>1, <3>1 DEF NotYet
  <2>2. CASE d = c
    <3>1. Begin(c)
      BY <1>2, <1>3, <1>4, <2>2 DEF Begin, Caller, Register, Enqueue, EnqueueFails, Take,
           ChannelCloses, DropStream, DropFuture
    <3> QED BY <1>3, <3>1 DEF Begin, NotYet
  <2> QED BY <2>1, <2>2
<1>5. ASSUME ReaderRoutes \/ ReaderEnds \/ ReaderBreaks
      PROVE  c \notin registry' /\ call'[c].items = <<>> /\ call'[c].got = <<>>
  <2>1. call[c].at \in {"idle", "acquire"} BY <1>2, <1>5, RoutingKeepsPlaces
  <2>2. c \notin registry /\ call[c].items = <<>> /\ call[c].got = <<>> BY <2>1 DEF NotYet
  <2>3. c \notin registry' /\ call'[c] = call[c]
    BY <1>3, <1>5, <2>2 DEF ReaderRoutes, Route, ReaderEnds, ReaderBreaks, FailAll
  <2> QED BY <2>2, <2>3
<1>6. ASSUME \/ Writer \/ ServerReceives \/ ServerCloses \/ UNCHANGED vars
             \/ \E d \in Calls : ServerAnswers(d) \/ ServerStreams(d)
      PROVE  call' = call /\ registry' = registry
  BY <1>6 DEF Writer, WriterWrites, WriterFlushes, WriterFails, WriterGone, ServerReceives,
              ServerCloses, ServerAnswers, ServerStreams, ServerUnchanged, vars
<1>7. CASE Next BY <1>2, <1>4, <1>5, <1>6, <1>7 DEF Next, NotYet
<1> QED BY <1>2, <1>6, <1>7 DEF NotYet

--------------------
\* What a stream heard when an item joins its channel.
LEMMA HeardGrows ==
    ASSUME NEW g \in Seq(Items), NEW q \in Seq(Items), NEW w \in Items
    PROVE  LET h == g \o q
               k == g \o Append(q, w)
           IN /\ Len(h) \in Nat /\ Len(k) = Len(h) + 1
              /\ DOMAIN h = 1..Len(h) /\ DOMAIN k = 1..Len(k)
              /\ k[Len(k)] = w
              /\ \A i \in DOMAIN k : i = Len(k) \/ (i \in DOMAIN h /\ i # Len(k) /\ k[i] = h[i])
<1> DEFINE h == g \o q
<1>1. h \in Seq(Items) /\ g \o Append(q, w) = Append(h, w) OBVIOUS
<1> HIDE DEF h
<1>2. /\ Len(h) \in Nat /\ Len(Append(h, w)) = Len(h) + 1
      /\ DOMAIN h = 1..Len(h) /\ DOMAIN Append(h, w) = 1..(Len(h) + 1)
      /\ Append(h, w)[Len(h) + 1] = w
      /\ \A i \in 1..Len(h) : Append(h, w)[i] = h[i]
  BY <1>1
<1>3. \A i \in 1..(Len(h) + 1) : i = Len(h) + 1 \/ (i \in 1..Len(h) /\ i # Len(h) + 1)
  BY <1>2
<1> QED BY <1>1, <1>2, <1>3 DEF h

\* What a stream was handed and has in its channel, in order.
LEMMA HeardParts ==
    ASSUME NEW g \in Seq(Items), NEW q \in Seq(Items)
    PROVE  LET h == g \o q
           IN /\ h \in Seq(Items) /\ Len(h) = Len(g) + Len(q) /\ DOMAIN h = 1..Len(h)
              /\ Len(g) \in Nat /\ Len(q) \in Nat
              /\ DOMAIN g = 1..Len(g) /\ DOMAIN q = 1..Len(q)
              /\ \A i \in DOMAIN g : i \in DOMAIN h /\ h[i] = g[i]
              /\ \A i \in DOMAIN q : Len(g) + i \in DOMAIN h /\ h[Len(g) + i] = q[i]
              /\ q # <<>> => /\ Head(q) = q[1] /\ 1 \in DOMAIN q /\ Len(q) >= 1
                             /\ Append(g, Head(q)) \o Tail(q) = h
<1> DEFINE h == g \o q
<1>1. /\ h \in Seq(Items) /\ Len(h) = Len(g) + Len(q) /\ DOMAIN h = 1..Len(h)
      /\ Len(g) \in Nat /\ Len(q) \in Nat
      /\ DOMAIN g = 1..Len(g) /\ DOMAIN q = 1..Len(q)
      /\ \A i \in DOMAIN g : i \in DOMAIN h /\ h[i] = g[i]
      /\ \A i \in DOMAIN q : Len(g) + i \in DOMAIN h /\ h[Len(g) + i] = q[i]
  OBVIOUS
<1>2. ASSUME q # <<>>
      PROVE  /\ Head(q) = q[1] /\ 1 \in DOMAIN q /\ Len(q) >= 1
             /\ Append(g, Head(q)) \o Tail(q) = h
  <2>1. /\ Head(q) \in Items /\ Tail(q) \in Seq(Items) /\ Len(Tail(q)) = Len(q) - 1
        /\ Head(q) = q[1] /\ Len(q) >= 1 /\ 1 \in DOMAIN q
        /\ \A i \in 1..(Len(q) - 1) : Tail(q)[i] = q[i + 1]
    BY <1>2
  <2> DEFINE k == Append(g, Head(q)) \o Tail(q)
  <2>2. k \in Seq(Items) /\ Len(k) = Len(h) BY <1>1, <2>1
  <2>3. ASSUME NEW i \in 1..Len(h)
        PROVE  k[i] = h[i]
    <3>1. CASE i <= Len(g) BY <2>1, <3>1
    <3>2. CASE i = Len(g) + 1 BY <2>1, <3>2
    <3>3. CASE i > Len(g) + 1 BY <1>1, <2>1, <3>3
    <3>4. i <= Len(g) \/ i = Len(g) + 1 \/ i > Len(g) + 1
      <4> HIDE DEF h
      <4>1. i \in Nat /\ Len(g) \in Nat BY <1>1
      <4> QED BY <4>1
    <3> QED BY <3>1, <3>2, <3>3, <3>4
  <2> HIDE DEF k, h
  <2>4. k = h BY <1>1, <2>2, <2>3, SeqEqual
  <2> QED BY <2>1, <2>4 DEF k
<1> QED BY <1>1, <1>2

\* The last item of a channel.
LEMMA LastItem ==
    ASSUME NEW q \in Seq(Items)
    PROVE  /\ \A w \in Items : Append(q, w) # <<>> /\ Last(Append(q, w)) = w
           /\ q # <<>> /\ Len(q) = 1 => Last(q) = Head(q)
           /\ q # <<>> /\ Len(q) # 1 => Tail(q) # <<>> /\ Last(Tail(q)) = Last(q)
<1>1. ASSUME NEW w \in Items
      PROVE  Append(q, w) # <<>> /\ Last(Append(q, w)) = w
  <2>1. Len(Append(q, w)) = Len(q) + 1 /\ Append(q, w)[Len(q) + 1] = w OBVIOUS
  <2> QED BY <2>1 DEF Last
<1>2. ASSUME q # <<>>, Len(q) # 1
      PROVE  Tail(q) # <<>> /\ Last(Tail(q)) = Last(q)
  <2> DEFINE n == Len(q)
             m == Len(Tail(q))
  <2>4. n \in Nat /\ n # 0 /\ m = n - 1 /\ Tail(q) \in Seq(Items) BY <1>2
  <2>5. n >= 2 /\ m # 0
    <3> HIDE DEF n, m
    <3> QED BY <1>2, <2>4 DEF n
  <2>1. Len(Tail(q)) = Len(q) - 1 /\ Len(q) \in Nat /\ Len(q) >= 2 BY <2>4, <2>5
  <2>2. Tail(q)[Len(q) - 1] = q[Len(q)] BY <1>2, <2>1
  <2>3. Tail(q) # <<>>
    <3>1. \A t \in Seq(Items) : Len(t) # 0 => t # <<>> OBVIOUS
    <3> QED BY <2>4, <2>5, <3>1, Zenon
  <2> QED BY <2>1, <2>2, <2>3 DEF Last
<1>3. q # <<>> /\ Len(q) = 1 => Last(q) = Head(q) BY DEF Last
<1> QED BY <1>1, <1>2, <1>3

\* The types of one call's state, in the form the cases below use.
LEMMA CallTypes ==
    ASSUME Shapes, NEW c \in Calls
    PROVE  /\ call[c] \in [at : Places, items : Seq(Items), got : Seq(Items)]
           /\ call[c].at \in Places
           /\ call[c].items \in Seq(Items) /\ call[c].got \in Seq(Items)
           /\ serving[c].at \in {"no", "active", "done"} /\ serving[c].sent \in Nat
           /\ down \in Seq(Replies)
  BY DEF Shapes, CallRecord, ServingRecord

\* A step that concerns another call leaves a stream as it is.
LEMMA StreamKept ==
    ASSUME NEW c, StreamOK(c), call'[c] = call[c], c \in registry' <=> c \in registry,
           serving'[c] = serving[c],
           Cardinality(Coming(c)') = Cardinality(Coming(c)), ServedOnce(c)'
    PROVE  StreamOK(c)'
<1>1. Heard(c)' = Heard(c) BY DEF Heard
<1>2. EndsRight(c)' BY <1>1 DEF StreamOK, EndsRight
<1>3. Ledger(c)' BY <1>1 DEF StreamOK, Ledger
<1>4. StillOpen(c)' BY DEF StreamOK, StillOpen
<1> QED BY <1>2, <1>3, <1>4 DEF StreamOK

\* The responses coming for a stream, when nothing is added for it.
LEMMA ComingKept ==
    ASSUME Shapes, NEW c \in Calls, ServedOnce(c), serving'[c] = serving[c],
           \/ down' = down
           \/ \E x \in Replies : x.call # c /\ down' = Append(down, x)
           \/ down # <<>> /\ down' = Tail(down)
    PROVE  /\ ServedOnce(c)'
           /\ (\/ down' = down
               \/ \E x \in Replies : x.call # c /\ down' = Append(down, x)
               \/ Head(down).call # c)
                 => Cardinality(Coming(c)') = Cardinality(Coming(c))
<1>1. down \in Seq(Replies) BY DEF Shapes
<1>2. CASE down' = down BY <1>2 DEF ServedOnce, Coming
<1>3. ASSUME NEW x \in Replies, x.call # c, down' = Append(down, x)
      PROVE  ServedOnce(c)' /\ Cardinality(Coming(c)') = Cardinality(Coming(c))
  <2>1. Coming(c)' = Coming(c) /\ \A i \in Coming(c) : down'[i] = down[i]
    BY <1>3, ComingAppend
  <2> QED BY <2>1 DEF ServedOnce
<1>4. CASE down # <<>> /\ down' = Tail(down)
  <2>1. /\ \A i \in Coming(c)' : i + 1 \in Coming(c) /\ i \in Nat /\ down'[i] = down[i + 1]
        /\ Head(down).call # c => Cardinality(Coming(c)') = Cardinality(Coming(c))
    BY <1>1, <1>4, ComingTail DEF Coming
  <2>2. \A i, j \in Coming(c)' : j + 1 <= i + 1 => j <= i BY <2>1
  <2>3. ServedOnce(c)' BY <2>1, <2>2 DEF ServedOnce
  <2> QED BY <1>2, <1>3, <2>1, <2>3
<1> QED BY <1>2, <1>3, <1>4

\* The steps of a stream's own caller.
LEMMA CallerStream ==
    ASSUME Shapes, AskedOnce, NotYet, NEW c \in Calls, c \in Streams, StreamOK(c),
           Begin(c) \/ Caller(c) \/ DropStream(c) \/ DropFuture(c)
    PROVE  StreamOK(c)'
<1>1. /\ call \in [Calls -> CallRecord]
      /\ call[c] \in [at : Places, items : Seq(Items), got : Seq(Items)]
      /\ call[c].items \in Seq(Items) /\ call[c].got \in Seq(Items)
      /\ serving[c].at \in {"no", "active", "done"} /\ serving[c].sent \in Nat
  BY CallTypes DEF Shapes
<1>2. serving' = serving /\ down' = down
  BY DEF Begin, Caller, Register, Enqueue, EnqueueFails, Take, ChannelCloses, DropStream,
         DropFuture, netVars
<1>3. ServedOnce(c)' /\ Coming(c)' = Coming(c) BY <1>2 DEF StreamOK, ServedOnce, Coming
<1>4. /\ Heard(c) \in Seq(Items) /\ Len(Heard(c)) = Len(call[c].got) + Len(call[c].items)
      /\ DOMAIN Heard(c) = 1..Len(Heard(c))
      /\ Len(call[c].got) \in Nat /\ Len(call[c].items) \in Nat
      /\ DOMAIN call[c].got = 1..Len(call[c].got)
      /\ \A i \in DOMAIN call[c].got : i \in DOMAIN Heard(c) /\ Heard(c)[i] = call[c].got[i]
  BY <1>1, HeardParts DEF Heard
<1>13. ASSUME NEW i, i \in DOMAIN call[c].got, i = Len(Heard(c))
       PROVE  i = Len(call[c].got) /\ Len(call[c].got) = Len(Heard(c))
  <2> DEFINE lg == Len(call[c].got)
             lq == Len(call[c].items)
             lh == Len(Heard(c))
  <2>1. lg \in Nat /\ lq \in Nat /\ lh = lg + lq /\ i \in 1..lg /\ i = lh BY <1>4, <1>13
  <2> HIDE DEF lg, lq, lh
  <2>2. i = lg /\ lg = lh BY <2>1
  <2> QED BY <2>2 DEF lg, lh
<1>14. Len(Heard(c)) = 0 => Len(call[c].got) = 0
  <2> DEFINE lg == Len(call[c].got)
             lq == Len(call[c].items)
             lh == Len(Heard(c))
  <2>1. lg \in Nat /\ lq \in Nat /\ lh = lg + lq BY <1>4
  <2> HIDE DEF lg, lq, lh
  <2>2. lh = 0 => lg = 0 BY <2>1
  <2> QED BY <2>2 DEF lg, lh
<1>5. ASSUME serving[c].at = "no"
      PROVE  Cardinality(Coming(c)) = 0 /\ serving[c].sent = 0
  <2>1. Coming(c) = {} /\ serving[c].sent = 0 BY <1>5 DEF StreamOK, ServedOnce
  <2> QED BY <2>1, FS_EmptySet
<1>6. CASE Begin(c)
  <2>1. call'[c].items = call[c].items /\ call'[c].got = call[c].got /\ registry' = registry
        /\ call'[c].at = "acquire" /\ call[c].at = "idle"
    BY <1>1, <1>6 DEF Begin
  <2>2. Heard(c)' = Heard(c) /\ c \notin registry BY <2>1 DEF Heard, NotYet
  <2> QED BY <1>2, <1>3, <2>1, <2>2 DEF StreamOK, EndsRight, Ledger, StillOpen
<1>7. CASE Register(c)
  <2>1. call'[c].items = call[c].items /\ call'[c].got = call[c].got /\ c \in registry'
        /\ call'[c].at = "sending" /\ call[c].at = "acquire"
    BY <1>1, <1>7 DEF Register
  <2>2. Heard(c)' = Heard(c) /\ Heard(c) = <<>> BY <2>1 DEF Heard, NotYet
  <2>3. Len(Heard(c)) = 0 /\ DOMAIN Heard(c) = {} BY <2>2
  <2>4. serving[c].at = "no" BY <2>1 DEF AskedOnce, Unsent
  <2>5. Ledger(c)' BY <1>2, <1>3, <1>5, <2>1, <2>2, <2>3, <2>4 DEF Ledger
  <2>6. EndsRight(c)' BY <1>2, <2>2, <2>3 DEF EndsRight
  <2>7. StillOpen(c)' BY <2>1 DEF StreamOK, StillOpen
  <2> QED BY <1>3, <2>5, <2>6, <2>7 DEF StreamOK
<1>8. CASE Enqueue(c)
  <2>1. call'[c].items = call[c].items /\ call'[c].got = call[c].got /\ registry' = registry
        /\ call'[c].at = "open" /\ call[c].at = "sending"
    BY <1>1, <1>8 DEF Enqueue
  <2>2. Heard(c)' = Heard(c) BY <2>1 DEF Heard
  <2> QED BY <1>2, <1>3, <2>1, <2>2 DEF StreamOK, EndsRight, Ledger, StillOpen
<1>9. CASE EnqueueFails(c)
  <2>1. call'[c].got = call[c].got /\ c \notin registry'
        /\ call'[c].at = "open" /\ call[c].at = "sending"
    BY <1>1, <1>9 DEF EnqueueFails
  <2>2. CASE c \notin registry
    <3>1. call'[c].items = call[c].items BY <1>1, <1>9, <2>2 DEF EnqueueFails
    <3>2. Heard(c)' = Heard(c) BY <2>1, <3>1 DEF Heard
    <3> QED BY <1>2, <1>3, <2>1, <2>2, <3>1, <3>2 DEF StreamOK, EndsRight, Ledger, StillOpen
  <2>3. CASE c \in registry
    <3>1. call'[c].items = Append(call[c].items, "error")
      BY <1>1, <1>9, <2>3 DEF EnqueueFails
    <3> DEFINE h == Heard(c)
               k == Heard(c)'
    <3>2. /\ Len(k) = Len(h) + 1 /\ DOMAIN k = 1..Len(k) /\ k[Len(k)] = "error"
          /\ \A i \in DOMAIN k : i = Len(k) \/ (i \in DOMAIN h /\ i # Len(k) /\ k[i] = h[i])
      <4>1. "error" \in Items BY DEF Items
      <4> QED BY <1>1, <2>1, <3>1, <4>1, HeardGrows DEF Heard
    <3>3. \A i \in DOMAIN h : h[i] \notin Final /\ h[i] # "closed"
      BY <2>3 DEF StreamOK, Ledger, EndsRight
    <3> HIDE DEF h, k
    <3>4. /\ \A i \in DOMAIN k : k[i] # "closed"
          /\ \A i \in DOMAIN k : k[i] \in Final => i = Len(k)
          /\ \A i \in DOMAIN k : k[i] # "end"
      BY <3>2, <3>3 DEF Final
    <3>5. EndsRight(c)' BY <3>4 DEF k, EndsRight
    <3>6. Ledger(c)' BY <2>1 DEF Ledger
    <3>7. call'[c].items # <<>> /\ Last(call'[c].items) = "error"
      <4>1. "error" \in Items BY DEF Items
      <4> QED BY <1>1, <3>1, <4>1, LastItem
    <3>8. StillOpen(c)' BY <2>1, <3>7 DEF StillOpen, StreamOK, Final
    <3> QED BY <1>3, <3>5, <3>6, <3>8 DEF StreamOK
  <2> QED BY <2>2, <2>3
<1>10. CASE Take(c)
  <2> DEFINE g == call[c].got
             q == call[c].items
  <2>1. /\ q # <<>> /\ call[c].at = "open" /\ registry' = registry
        /\ call'[c].items = Tail(q) /\ call'[c].got = Append(g, Head(q))
        /\ call'[c].at = IF Head(q) \in Final THEN "ended" ELSE "open"
    BY <1>1, <1>10 DEF Take
  <2>2. /\ Append(g, Head(q)) \o Tail(q) = g \o q
        /\ Head(q) = q[1] /\ 1 \in DOMAIN q /\ Len(q) >= 1
        /\ Len(g) + 1 \in DOMAIN Heard(c) /\ Heard(c)[Len(g) + 1] = q[1]
    BY <1>1, <2>1, HeardParts DEF Heard
  <2>3. Heard(c)' = Heard(c) BY <2>1, <2>2 DEF Heard
  <2>4. EndsRight(c)' BY <1>2, <2>3 DEF StreamOK, EndsRight
  <2>5. c \in registry => Head(q) \notin Final BY <2>2 DEF StreamOK, Ledger
  <2>6. Ledger(c)' BY <1>2, <1>3, <2>1, <2>3, <2>5 DEF StreamOK, Ledger
  <2>7. ASSUME Head(q) \notin Final
        PROVE  \A i \in DOMAIN Append(g, Head(q)) : Append(g, Head(q))[i] \notin Final
    <3>1. \A i \in DOMAIN g : g[i] \notin Final BY <2>1 DEF StreamOK, StillOpen
    <3>2. \A i \in DOMAIN Append(g, Head(q)) :
             (i \in DOMAIN g /\ Append(g, Head(q))[i] = g[i]) \/ Append(g, Head(q))[i] = Head(q)
      <4>1. g \in Seq(Items) /\ Head(q) \in Items BY <1>1, <2>1
      <4> HIDE DEF g, q
      <4> QED BY <4>1
    <3> QED BY <2>7, <3>1, <3>2
  <2>8. ASSUME Head(q) \notin Final, c \notin registry
        PROVE  Tail(q) # <<>> /\ Last(Tail(q)) \in Final
    <3>1. Last(q) \in Final BY <2>1, <2>8 DEF StreamOK, StillOpen
    <3>2. q \in Seq(Items) /\ q # <<>> BY <1>1, <2>1
    <3> HIDE DEF q
    <3>3. Len(q) = 1 => Last(q) = Head(q) BY <3>2, LastItem
    <3>4. Len(q) # 1 => Tail(q) # <<>> /\ Last(Tail(q)) = Last(q) BY <3>2, LastItem
    <3> QED BY <2>8, <3>1, <3>3, <3>4
  <2>9. StillOpen(c)' BY <2>1, <2>7, <2>8 DEF StillOpen
  <2> QED BY <1>3, <2>4, <2>6, <2>9 DEF StreamOK
<1>11. ~ChannelCloses(c) BY DEF ChannelCloses, StreamOK, StillOpen
<1>12. ASSUME DropStream(c) \/ DropFuture(c)
       PROVE  StreamOK(c)'
  <2>1. /\ call'[c].items = <<>> /\ call'[c].got = call[c].got
        /\ call'[c].at \in {"gone", "unsent"}
        /\ call'[c].at = "unsent" => call[c].at = "sending"
        /\ c \in registry' => c \in registry /\ call[c].at \in {"acquire", "sending"}
    BY <1>1, <1>12 DEF DropStream, DropFuture
  <2>2. Heard(c)' = call[c].got BY <1>1, <2>1 DEF Heard
  <2>3. EndsRight(c)'
    <3>1. \A i \in DOMAIN call[c].got : call[c].got[i] \in Final => i = Len(call[c].got)
                                            /\ Len(call[c].got) = Len(Heard(c))
      <4>1. ASSUME NEW i \in DOMAIN call[c].got, call[c].got[i] \in Final
            PROVE  i = Len(call[c].got) /\ Len(call[c].got) = Len(Heard(c))
        <5>1. i = Len(Heard(c)) BY <1>4, <4>1 DEF StreamOK, EndsRight
        <5> QED BY <1>13, <4>1, <5>1
      <4> QED BY <4>1
    <3>2. \A i \in DOMAIN call[c].got : call[c].got[i] # "closed"
      BY <1>4 DEF StreamOK, EndsRight
    <3>3. \A i \in DOMAIN call[c].got : call[c].got[i] = "end" =>
             Len(call[c].got) = serving[c].sent + 1 /\ serving[c].at = "done"
      BY <1>4, <3>1 DEF StreamOK, EndsRight, Final
    <3> QED BY <1>2, <2>2, <3>1, <3>2, <3>3 DEF EndsRight
  <2>4. ASSUME c \in registry'
        PROVE  /\ Len(call[c].got) = 0 /\ serving[c].at = "no" /\ call'[c].at = "unsent"
               /\ Len(call[c].got) + Cardinality(Coming(c)) = serving[c].sent
    <3>1. call[c].at = "sending" /\ call'[c].at = "unsent"
      BY <1>1, <1>12, <2>1, <2>4 DEF StreamOK, Ledger, DropStream, DropFuture
    <3>2. serving[c].at = "no" BY <3>1 DEF AskedOnce, Unsent
    <3>3. Len(Heard(c)) + Cardinality(Coming(c)) = serving[c].sent + 0
      BY <2>1, <2>4, <3>2 DEF StreamOK, Ledger
    <3>4. Len(call[c].got) = 0
      <4>3. Heard(c) \in Seq(Items) BY <1>4
      <4>1. Len(Heard(c)) \in Nat BY <4>3
      <4>2. Len(Heard(c)) = 0 BY <1>5, <3>2, <3>3, <4>1
      <4> QED BY <1>14, <4>2
    <3> QED BY <1>5, <3>1, <3>2, <3>4
  <2>5. Ledger(c)'
    <3>1. ASSUME c \in registry'
          PROVE  \A i \in DOMAIN call[c].got : call[c].got[i] \notin Final
      BY <1>4, <2>1, <3>1 DEF StreamOK, Ledger
    <3>2. SUFFICES ASSUME c \in registry'
                   PROVE  /\ \A i \in DOMAIN Heard(c)' : (Heard(c)')[i] \notin Final
                          /\ Len(Heard(c)') + Cardinality(Coming(c)')
                               = serving'[c].sent + (IF serving'[c].at = "done" THEN 1 ELSE 0)
                          /\ call'[c].at \in {"sending", "open", "unsent"}
      BY DEF Ledger
    <3>3. serving[c].sent + 0 = serving[c].sent BY <1>1
    <3>4. Len(Heard(c)') + Cardinality(Coming(c)') = serving[c].sent
      BY <1>3, <2>2, <2>4, <3>2
    <3> QED BY <1>2, <2>2, <2>4, <3>1, <3>2, <3>3, <3>4
  <2>6. StillOpen(c)' BY <2>1 DEF StreamOK, StillOpen
  <2> QED BY <1>3, <2>3, <2>5, <2>6 DEF StreamOK
<1> QED BY <1>6, <1>7, <1>8, <1>9, <1>10, <1>11, <1>12 DEF Caller

\* An item reaches the channel of a stream: what it heard grows by it.
LEMMA HeardItem ==
    ASSUME Shapes, NEW c \in Calls, NEW w \in Items,
           call'[c] = [call[c] EXCEPT !.items = Append(@, w)]
    PROVE  /\ call'[c].at = call[c].at /\ call'[c].got = call[c].got
           /\ call'[c].items # <<>> /\ Last(call'[c].items) = w
           /\ Len(Heard(c)) \in Nat /\ Len(Heard(c)') = Len(Heard(c)) + 1
           /\ DOMAIN (Heard(c)') = 1..Len(Heard(c)')
           /\ (Heard(c)')[Len(Heard(c)')] = w
           /\ \A i \in DOMAIN (Heard(c)') :
                 \/ i = Len(Heard(c)')
                 \/ (i \in DOMAIN Heard(c) /\ i # Len(Heard(c)') /\ (Heard(c)')[i] = Heard(c)[i])
<1>1. /\ call[c] \in [at : Places, items : Seq(Items), got : Seq(Items)]
      /\ call[c].items \in Seq(Items) /\ call[c].got \in Seq(Items)
  BY CallTypes
<1>2. /\ call'[c].at = call[c].at /\ call'[c].got = call[c].got
      /\ call'[c].items = Append(call[c].items, w)
  BY <1>1
<1>3. call'[c].items # <<>> /\ Last(call'[c].items) = w BY <1>1, <1>2, LastItem
<1>4. Heard(c)' = call[c].got \o Append(call[c].items, w) BY <1>2 DEF Heard
<1>5. PICK g \in Seq(Items), q \in Seq(Items) : g = call[c].got /\ q = call[c].items
  BY <1>1
<1> DEFINE h == g \o q
           k == g \o Append(q, w)
<1>6. Heard(c) = h BY <1>5 DEF Heard
<1>7. /\ Len(h) \in Nat /\ Len(k) = Len(h) + 1
      /\ DOMAIN k = 1..Len(k)
      /\ k[Len(k)] = w
      /\ \A i \in DOMAIN k : i = Len(k) \/ (i \in DOMAIN h /\ i # Len(k) /\ k[i] = h[i])
  BY HeardGrows
<1>9. Heard(c)' = k BY <1>4, <1>5
<1> HIDE DEF h, k
<1> QED BY <1>2, <1>3, <1>6, <1>7, <1>9

\* A registered stream is told of a failure (EnqueueFails, fail_all).
LEMMA StreamTold ==
    ASSUME Shapes, NEW c \in Calls, StreamOK(c), c \in registry, c \notin registry',
           call'[c] = [call[c] EXCEPT !.items = Append(@, "error")], ServedOnce(c)'
    PROVE  StreamOK(c)'
<1>1. "error" \in Items BY DEF Items
<1> DEFINE h == Heard(c)
           k == Heard(c)'
<1>2. /\ call'[c].at = call[c].at /\ call'[c].got = call[c].got
      /\ call'[c].items # <<>> /\ Last(call'[c].items) = "error"
      /\ k[Len(k)] = "error"
      /\ \A i \in DOMAIN k : i = Len(k) \/ (i \in DOMAIN h /\ i # Len(k) /\ k[i] = h[i])
  BY <1>1, HeardItem
<1>3. \A i \in DOMAIN h : h[i] \notin Final /\ h[i] # "closed"
  BY DEF StreamOK, Ledger, EndsRight
<1> HIDE DEF h, k
<1>4. /\ \A i \in DOMAIN k : k[i] # "closed"
      /\ \A i \in DOMAIN k : k[i] \in Final => i = Len(k)
      /\ \A i \in DOMAIN k : k[i] # "end"
  BY <1>2, <1>3 DEF Final
<1>5. EndsRight(c)' BY <1>4 DEF k, EndsRight
<1>6. Ledger(c)' BY DEF Ledger
<1>7. StillOpen(c)' BY <1>2 DEF StillOpen, StreamOK, Final
<1> QED BY <1>5, <1>6, <1>7 DEF StreamOK

\* The reader task routes a response or ends.
LEMMA ReaderStream ==
    ASSUME Shapes, AskedOnce, NEW c \in Calls, c \in Streams, StreamOK(c),
           ReaderRoutes \/ ReaderEnds \/ ReaderBreaks
    PROVE  StreamOK(c)'
<1>1. /\ call \in [Calls -> CallRecord]
      /\ call[c] \in [at : Places, items : Seq(Items), got : Seq(Items)]
      /\ serving[c].at \in {"no", "active", "done"} /\ serving[c].sent \in Nat
      /\ down \in Seq(Replies)
  BY CallTypes DEF Shapes
<1>2. serving' = serving BY DEF ReaderRoutes, ReaderEnds, ReaderBreaks, netVars
<1>3. c # Nobody BY CallsFacts
<1>4. CASE ReaderEnds \/ ReaderBreaks
  <2>1. (down' = down \/ down' = <<>>) /\ registry' = {}
    BY <1>4 DEF ReaderEnds, ReaderBreaks, FailAll, netVars
  <2>2. ServedOnce(c)'
    <3>1. CASE down' = down BY <1>2, <3>1, ComingKept DEF StreamOK
    <3>2. CASE down' = <<>>
      <4>1. Coming(c)' = {} BY <3>2 DEF Coming, ComingIn
      <4> QED BY <1>2, <4>1 DEF StreamOK, ServedOnce
    <3> QED BY <2>1, <3>1, <3>2
  <2>3. CASE c \in registry /\ Wanted(c)
    <3>1. call'[c] = [call[c] EXCEPT !.items = Append(@, "error")] /\ c \notin registry'
      BY <1>4, <2>3 DEF ReaderEnds, ReaderBreaks, FailAll
    <3> QED BY <2>2, <2>3, <3>1, StreamTold
  <2>4. CASE ~(c \in registry /\ Wanted(c))
    <3>1. call'[c] = call[c] /\ c \notin registry'
      BY <1>4, <2>4 DEF ReaderEnds, ReaderBreaks, FailAll
    <3>2. Heard(c)' = Heard(c) BY <3>1 DEF Heard
    <3>3. call[c].at \in {"sending", "open"} => c \notin registry BY <2>4 DEF Wanted
    <3> QED BY <1>2, <2>2, <3>1, <3>2, <3>3 DEF StreamOK, EndsRight, Ledger, StillOpen
  <2> QED BY <2>3, <2>4
<1>5. CASE ReaderRoutes
  <2>1. down # <<>> /\ down' = Tail(down) BY <1>5 DEF ReaderRoutes
  <2>2. /\ ServedOnce(c)'
        /\ Head(down).call # c => Cardinality(Coming(c)') = Cardinality(Coming(c))
    BY <1>2, <2>1, ComingKept DEF StreamOK
  <2>3. CASE Head(down).call # c \/ c \notin registry
    <3>1. call'[c] = call[c] /\ (c \in registry' <=> c \in registry)
      BY <1>1, <1>5, <2>3 DEF ReaderRoutes, Route
    <3>2. CASE Head(down).call # c BY <1>2, <2>2, <3>1, <3>2, StreamKept
    <3>3. CASE c \notin registry
      <4>1. Heard(c)' = Heard(c) BY <3>1 DEF Heard
      <4> QED BY <1>2, <2>2, <3>1, <3>3, <4>1 DEF StreamOK, EndsRight, Ledger, StillOpen
    <3> QED BY <2>3, <3>2, <3>3
  <2>4. CASE Head(down).call = c /\ c \in registry
    <3> DEFINE w == Head(down).what
               h == Heard(c)
               k == Heard(c)'
               S == Coming(c)
               T == Coming(c)'
    <3>1. /\ 1 \in S /\ down[1] = Head(down)
          /\ Cardinality(S) \in Nat /\ Cardinality(T) \in Nat
          /\ Cardinality(T) = Cardinality(S) - 1
      BY <1>1, <2>1, <2>4, ComingTail DEF Coming
    <3>2. Head(down) \in Replies /\ w \in Items /\ w # "closed"
      <4>1. Head(down) \in Replies BY <1>1, <2>1
      <4> QED BY <4>1 DEF Replies
    <3>3. serving[c].at # "no" /\ Wanted(c)
      <4>1. serving[c].at # "no" BY <3>1 DEF StreamOK, ServedOnce
      <4>2. call[c].at # "unsent" BY <4>1 DEF AskedOnce, Unsent
      <4> QED BY <2>4, <4>1, <4>2 DEF StreamOK, Ledger, Wanted
    <3>4. /\ call'[c] = [call[c] EXCEPT !.items = Append(@, w)]
          /\ registry' = IF Continues(c, w) THEN registry ELSE registry \ {c}
      BY <1>1, <1>3, <1>5, <2>4, <3>3 DEF ReaderRoutes, Route
    <3>5. /\ call'[c].at = call[c].at /\ call'[c].got = call[c].got
          /\ call'[c].items # <<>> /\ Last(call'[c].items) = w
          /\ Len(h) \in Nat /\ Len(k) = Len(h) + 1
          /\ k[Len(k)] = w
          /\ \A i \in DOMAIN k : i = Len(k) \/ (i \in DOMAIN h /\ i # Len(k) /\ k[i] = h[i])
      BY <3>2, <3>4, HeardItem
    <3>6. /\ \A i \in DOMAIN h : h[i] \notin Final /\ h[i] # "closed"
          /\ Len(h) + Cardinality(S)
                = serving[c].sent + (IF serving[c].at = "done" THEN 1 ELSE 0)
          /\ call[c].at \in {"sending", "open", "unsent"}
      BY <2>4 DEF StreamOK, Ledger, EndsRight
    <3>7. w \in Final <=> ~Continues(c, w) BY <3>2 DEF Continues, Final, Items
    <3>8. w \in Final => serving[c].at = "done" /\ \A j \in S : j <= 1
      BY <3>1 DEF StreamOK, ServedOnce
    <3>9. w \in Final => Cardinality(S) = 1
      <4>1. ASSUME w \in Final
            PROVE  S = {1}
        <5>1. \A j \in S : j \in Nat /\ j >= 1 BY <1>1 DEF Coming, ComingIn
        <5>2. \A j \in S : j = 1 BY <3>8, <4>1, <5>1
        <5> QED BY <3>1, <5>2
      <4>2. Cardinality({1}) = 1 BY FS_Singleton
      <4> QED BY <4>1, <4>2
    <3>10. StillOpen(c)' BY <2>4, <3>4, <3>5, <3>7 DEF StillOpen, StreamOK
    <3> HIDE DEF h, k, S, T, w
    <3>11. Len(k) + Cardinality(T) = Len(h) + Cardinality(S) BY <3>1, <3>5
    <3>12. w \in Final => Len(k) = serving[c].sent + 1 BY <1>1, <3>5, <3>6, <3>8, <3>9
    <3>13. /\ \A i \in DOMAIN k : k[i] # "closed"
           /\ \A i \in DOMAIN k : k[i] \in Final => i = Len(k)
           /\ \A i \in DOMAIN k : k[i] = "end" =>
                 Len(k) = serving[c].sent + 1 /\ serving[c].at = "done"
      BY <3>2, <3>5, <3>6, <3>8, <3>12 DEF Final
    <3>14. EndsRight(c)' BY <1>2, <3>13 DEF k, EndsRight
    <3>15. c \in registry' => \A i \in DOMAIN k : k[i] \notin Final
      BY <3>4, <3>5, <3>6, <3>7
    <3>16. /\ \A i \in DOMAIN (Heard(c)') : c \in registry' => (Heard(c)')[i] \notin Final
           /\ Len(Heard(c)') + Cardinality(Coming(c)')
                = serving'[c].sent + (IF serving'[c].at = "done" THEN 1 ELSE 0)
      BY <1>2, <3>6, <3>11, <3>15 DEF k, h, S, T
    <3>17. Ledger(c)' BY <3>5, <3>6, <3>16 DEF Ledger
    <3> QED BY <2>2, <3>10, <3>14, <3>17 DEF StreamOK
  <2> QED BY <2>3, <2>4
<1> QED BY <1>4, <1>5

\* The server says something for a stream it is serving: an item, and with a final one it is done.
LEMMA ServerSpeaks ==
    ASSUME Shapes, NEW c \in Calls, StreamOK(c), NEW w \in Items \ {"closed"},
           call' = call, registry' = registry, down' = Append(down, Reply(c, w)),
           serving[c].at = "active",
           \/ /\ w \in Final /\ serving'[c].at = "done" /\ serving'[c].sent = serving[c].sent
           \/ /\ w \notin Final /\ serving'[c].at = "active"
              /\ serving'[c].sent = serving[c].sent + 1
    PROVE  StreamOK(c)'
<1>1. down \in Seq(Replies) /\ serving[c].sent \in Nat /\ Reply(c, w) \in Replies
  BY CallTypes, CallsFacts
<1> DEFINE S == Coming(c)
           T == Coming(c)'
           n == Len(down) + 1
<1>2. Reply(c, w).call = c /\ Reply(c, w).what = w BY DEF Reply
<1>3. /\ T = S \cup {n} /\ Cardinality(T) = Cardinality(S) + 1 /\ Cardinality(S) \in Nat
      /\ \A i \in S : i \in 1..Len(down) /\ down'[i] = down[i]
      /\ down'[n] = Reply(c, w)
  <2>1. PICK x \in Replies : x = Reply(c, w) BY <1>1
  <2>2. x.call = c /\ down' = Append(down, x) BY <1>2, <2>1
  <2>3. /\ T = S \cup {n} /\ Cardinality(T) = Cardinality(S) + 1 /\ Cardinality(S) \in Nat
        /\ \A i \in S : i \in 1..Len(down) /\ down'[i] = down[i]
        /\ down'[n] = x
    BY <2>2, ComingAppend
  <2> QED BY <2>1, <2>3
<1>4. Len(down) \in Nat BY <1>1
<1>5. \A i \in S : down[i].what \notin Final BY DEF StreamOK, ServedOnce
<1>6. \A i \in S : i <= n /\ i \in Nat BY <1>3, <1>4
<1>7. n <= n BY <1>4
<1>8. ServedOnce(c)'
  <2> HIDE DEF n, S, T
  <2>1. \A i \in T : i \in S \/ i = n BY <1>3
  <2>2. \A i \in T : down'[i].what \in Final => i = n /\ w \in Final
    BY <1>2, <1>3, <1>5, <2>1
  <2>3. \A j \in T : j <= n BY <1>6, <1>7, <2>1
  <2> QED BY <2>2, <2>3 DEF ServedOnce, T
<1>9. Heard(c)' = Heard(c) BY DEF Heard
<1>10. EndsRight(c)' BY <1>9 DEF StreamOK, EndsRight
<1>11. StillOpen(c)' BY DEF StreamOK, StillOpen
<1>12. Ledger(c)'
  <2>1. SUFFICES ASSUME c \in registry
                 PROVE  Len(Heard(c)) + Cardinality(T)
                          = serving'[c].sent + (IF serving'[c].at = "done" THEN 1 ELSE 0)
    BY <1>9 DEF StreamOK, Ledger
  <2>2. Len(Heard(c)) + Cardinality(S) = serving[c].sent + 0 BY <2>1 DEF StreamOK, Ledger
  <2>3. Len(Heard(c)) \in Nat
    <3>1. call[c].got \in Seq(Items) /\ call[c].items \in Seq(Items) BY CallTypes
    <3> QED BY <3>1, HeardParts DEF Heard
  <2> HIDE DEF S, T
  <2> QED BY <1>1, <1>3, <2>2, <2>3
<1> QED BY <1>8, <1>10, <1>11, <1>12 DEF StreamOK

\* The steps of the server and of the writer task.
LEMMA ServerStream ==
    ASSUME Shapes, CancelsAreDropped, AskedOnce, [Next]_vars, NEW c \in Calls, c \in Streams,
           StreamOK(c),
           \/ Writer \/ ServerReceives \/ ServerCloses \/ UNCHANGED vars
           \/ \E d \in Calls : ServerAnswers(d) \/ ServerStreams(d)
    PROVE  StreamOK(c)'
<1>1. call' = call /\ registry' = registry
  BY DEF Writer, WriterWrites, WriterFlushes, WriterFails, WriterGone, ServerReceives,
         ServerCloses, ServerAnswers, ServerStreams, ServerUnchanged, vars
<1>2. Heard(c)' = Heard(c) BY <1>1 DEF Heard
<1>3. CASE Writer \/ ServerCloses \/ UNCHANGED vars
  <2>1. serving' = serving /\ down' = down
    BY <1>3 DEF Writer, WriterWrites, WriterFlushes, WriterFails, WriterGone, ServerCloses,
                vars, netVars
  <2>2. ServedOnce(c)' /\ Cardinality(Coming(c)') = Cardinality(Coming(c))
    BY <2>1, ComingKept DEF StreamOK
  <2> QED BY <1>1, <2>1, <2>2, StreamKept
<1>4. CASE ServerReceives
  <2>1. down' = down /\ Coming(c)' = Coming(c) BY <1>4 DEF ServerReceives, Coming
  <2>2. /\ up # <<>> /\ 1 \in DOMAIN Line /\ Line[1] = Head(up)
    BY <1>4 DEF ServerReceives, Shapes, Line
  <2>3. CASE serving'[c] = serving[c]
    <3>1. ServedOnce(c)' /\ Cardinality(Coming(c)') = Cardinality(Coming(c))
      BY <2>1, <2>3, ComingKept DEF StreamOK
    <3> QED BY <1>1, <2>3, <3>1, StreamKept
  <2>4. CASE /\ Head(up).call = c /\ Head(up).cancels
             /\ serving[c].at = "active" /\ serving'[c].at = "done"
             /\ serving'[c].sent = serving[c].sent
    <3>1. c \notin registry BY <2>2, <2>4 DEF CancelsAreDropped
    <3> QED
      BY <1>1, <1>2, <2>1, <2>4, <3>1
         DEF StreamOK, EndsRight, Ledger, StillOpen, ServedOnce
  <2>5. CASE /\ Head(up) = Ask(c)
             /\ serving'[c].at = "active" /\ serving'[c].sent = serving[c].sent
    <3>1. serving[c].at = "no" BY <2>2, <2>5 DEF AskedOnce, Ask
    <3>2. Coming(c) = {} BY <3>1 DEF StreamOK, ServedOnce
    <3>3. EndsRight(c)' /\ ServedOnce(c)' /\ StillOpen(c)'
      BY <1>1, <1>2, <2>1, <2>5, <3>1, <3>2 DEF StreamOK, EndsRight, ServedOnce, StillOpen
    <3>4. Ledger(c)' BY <1>1, <1>2, <2>1, <2>5, <3>1 DEF StreamOK, Ledger
    <3> QED BY <3>3, <3>4 DEF StreamOK
  <2>6. ~\E d \in Calls : ServerAnswers(d) \/ ServerStreams(d)
    <3>1. Len(up') = Len(up) - 1 /\ Len(up) \in Nat BY <1>4 DEF ServerReceives, Shapes
    <3>2. (\E d \in Calls : ServerAnswers(d) \/ ServerStreams(d)) => up' = up
      BY DEF ServerAnswers, ServerStreams
    <3> QED BY <3>1, <3>2
  <2> QED BY <2>3, <2>4, <2>5, <2>6, ServingStep
<1>5. ASSUME NEW d \in Calls, ServerAnswers(d)
      PROVE  StreamOK(c)'
  <2>1. CASE d = c
    <3>1. PICK w \in {"end", "error"} : down' = Append(down, Reply(c, w))
      BY <1>5, <2>1 DEF ServerAnswers, Streams
    <3>2. /\ serving[c].at = "active" /\ serving'[c].at = "done"
          /\ serving'[c].sent = serving[c].sent
      BY <1>5, <2>1 DEF ServerAnswers, Streams, Shapes, ServingRecord
    <3>3. w \in Items \ {"closed"} /\ w \in Final BY <3>1 DEF Items, Final
    <3> QED BY <1>1, <3>1, <3>2, <3>3, ServerSpeaks
  <2>2. CASE d # c
    <3>1. PICK x \in Replies : x.call # c /\ down' = Append(down, x)
      <4>1. /\ Reply(Nobody, "error") \in Replies
            /\ \A w \in {"ok", "end", "error"} : Reply(d, w) \in Replies
        BY CallsFacts DEF Items
      <4>2. Reply(Nobody, "error").call # c /\ \A w : Reply(d, w).call # c
        BY <2>2, CallsFacts DEF Reply
      <4> QED BY <1>5, <4>1, <4>2 DEF ServerAnswers
    <3>2. serving'[c] = serving[c] BY <1>5, <2>2 DEF ServerAnswers, Shapes
    <3>4. ServedOnce(c)' /\ Cardinality(Coming(c)') = Cardinality(Coming(c))
      BY <3>1, <3>2, ComingKept DEF StreamOK
    <3> QED BY <1>1, <3>2, <3>4, StreamKept
  <2> QED BY <2>1, <2>2
<1>6. ASSUME NEW d \in Calls, ServerStreams(d)
      PROVE  StreamOK(c)'
  <2>1. CASE d = c
    <3>1. PICK w \in {"events", "caughtup"} : down' = Append(down, Reply(c, w))
      BY <1>6, <2>1 DEF ServerStreams
    <3>2. /\ serving[c].at = "active" /\ serving'[c].at = "active"
          /\ serving'[c].sent = serving[c].sent + 1
      BY <1>6, <2>1 DEF ServerStreams, Shapes, ServingRecord
    <3>3. w \in Items \ {"closed"} /\ w \notin Final BY <3>1 DEF Items, Final
    <3> QED BY <1>1, <3>1, <3>2, <3>3, ServerSpeaks
  <2>2. CASE d # c
    <3>1. PICK x \in Replies : x.call # c /\ down' = Append(down, x)
      <4>1. \A w \in {"events", "caughtup"} : Reply(d, w) \in Replies /\ Reply(d, w).call # c
        BY <2>2, CallsFacts DEF Items, Reply
      <4> QED BY <1>6, <4>1 DEF ServerStreams
    <3>2. serving'[c] = serving[c] BY <1>6, <2>2 DEF ServerStreams, Shapes
    <3>4. ServedOnce(c)' /\ Cardinality(Coming(c)') = Cardinality(Coming(c))
      BY <3>1, <3>2, ComingKept DEF StreamOK
    <3> QED BY <1>1, <3>2, <3>4, StreamKept
  <2> QED BY <2>1, <2>2
<1> QED BY <1>3, <1>4, <1>5, <1>6

\* Every step keeps the account of every stream.
LEMMA StreamsStep ==
    ASSUME WholeInv, [Next]_vars
    PROVE  StreamsOK'
<1>1. Streams' = Streams /\ Streams \subseteq Calls
  BY DEF Next, Begin, Caller, Register, Enqueue, EnqueueFails, Take, ChannelCloses, DropStream,
     DropFuture, Writer, WriterWrites, WriterFlushes, WriterFails, WriterGone, ReaderRoutes,
     ReaderEnds, ReaderBreaks, ServerReceives, ServerCloses, ServerAnswers, ServerStreams,
     ServerUnchanged, vars, Streams, Calls
<1>2. SUFFICES ASSUME NEW c \in Calls, c \in Streams, StreamOK(c)
               PROVE  StreamOK(c)'
  BY <1>1 DEF WholeInv, StreamsOK
<1>3. Shapes /\ CancelsAreDropped /\ AskedOnce /\ NotYet BY DEF WholeInv
<1>4. ASSUME NEW d \in Calls, Begin(d) \/ Caller(d) \/ DropStream(d) \/ DropFuture(d)
      PROVE  StreamOK(c)'
  <2>1. CASE d = c BY <1>2, <1>3, <1>4, <2>1, CallerStream
  <2>2. CASE d # c
    <3>1. /\ call'[c] = call[c] /\ (c \in registry' <=> c \in registry)
          /\ serving' = serving /\ down' = down
      BY <1>3, <1>4, <2>2 DEF Begin, Caller, Register, Enqueue, EnqueueFails, Take,
           ChannelCloses, DropStream, DropFuture, netVars, Shapes
    <3>2. ServedOnce(c)' /\ Cardinality(Coming(c)') = Cardinality(Coming(c))
      BY <1>2, <1>3, <3>1, ComingKept DEF StreamOK
    <3> QED BY <1>2, <3>1, <3>2, StreamKept
  <2> QED BY <2>1, <2>2
<1>5. CASE Next BY <1>2, <1>3, <1>4, <1>5, ReaderStream, ServerStream DEF Next
<1> QED BY <1>2, <1>3, <1>5, ServerStream

\* A stream's consumer that is told of the end was handed all the server sent for it, and nothing
\* comes after a final item: a cut socket, a failed write or the end of the reader task always
\* shows as an error, for any number of calls, budget, queue depth and length of a result
\* (deliver_read, deliver_subscribe, fail_all and poll_next of asynchronous.rs).
THEOREM CleanEndsHold == Spec => []CleanEndsAreWhole
<1>1. Init => WholeInv
  <2>1. ASSUME Init
        PROVE  WholeInv
    <3>1. Shapes BY <2>1, ShapesInit
    <3>2. Line = <<>> /\ down = <<>> BY <2>1 DEF Init, Line
    <3>3. CancelsAreDropped /\ AskedOnce /\ NotYet
      BY <2>1, <3>2 DEF Init, CancelsAreDropped, AskedOnce, NotYet, Calls
    <3>4. ASSUME NEW c \in Streams
          PROVE  StreamOK(c)
      <4>1. /\ call[c] = [at |-> "idle", items |-> <<>>, got |-> <<>>]
            /\ serving[c] = [at |-> "no", sent |-> 0]
            /\ c \notin registry
        BY <2>1 DEF Init, Streams, Calls
      <4>2. Heard(c) = <<>> /\ Coming(c) = {} BY <3>2, <4>1 DEF Heard, Coming, ComingIn
      <4> QED BY <4>1, <4>2 DEF StreamOK, EndsRight, Ledger, StillOpen, ServedOnce
    <3> QED BY <3>1, <3>3, <3>4 DEF WholeInv, StreamsOK
  <2> QED BY <2>1
<1>2. WholeInv /\ [Next]_vars => WholeInv'
  BY ShapesStep, CancelsStep, AskedStep, NotYetStep, StreamsStep DEF WholeInv
<1>3. WholeInv => CleanEndsAreWhole
  <2>1. SUFFICES ASSUME WholeInv, NEW c \in Streams, call[c].got # <<>>
                 PROVE  /\ Last(call[c].got) # "closed"
                        /\ Last(call[c].got) = "end" => Len(call[c].got) = serving[c].sent + 1
                        /\ \A i \in 1..(Len(call[c].got) - 1) : call[c].got[i] \notin Final
    BY DEF CleanEndsAreWhole
  <2>2. Shapes /\ c \in Calls /\ EndsRight(c)
    BY <2>1 DEF WholeInv, StreamsOK, StreamOK, Streams
  <2>3. PICK g \in Seq(Items), q \in Seq(Items) : g = call[c].got /\ q = call[c].items
    BY <2>2, CallTypes
  <2> DEFINE h == g \o q
             lg == Len(g)
             lq == Len(q)
             lh == Len(h)
  <2>4. /\ lh = lg + lq /\ lg \in Nat /\ lq \in Nat
        /\ \A i \in 1..lg : i \in DOMAIN h /\ h[i] = g[i]
    BY HeardParts
  <2>5. Heard(c) = h BY <2>3 DEF Heard
  <2>6. /\ \A i \in DOMAIN h : h[i] # "closed"
        /\ \A i \in DOMAIN h : h[i] \in Final => i = lh
        /\ \A i \in DOMAIN h : h[i] = "end" => lh = serving[c].sent + 1
    BY <2>2, <2>5 DEF EndsRight
  <2>7. lg # 0 /\ Last(g) = g[lg] BY <2>1, <2>3 DEF Last
  <2> HIDE DEF h, lg, lq, lh
  <2>8. lg \in 1..lg /\ \A i \in 1..(lg - 1) : i \in 1..lg /\ i # lh BY <2>4, <2>7
  <2>9. Last(g) # "closed" /\ \A i \in 1..(lg - 1) : g[i] \notin Final
    BY <2>4, <2>6, <2>7, <2>8
  <2>10. Last(g) = "end" => lg = lh /\ lh = serving[c].sent + 1
    BY <2>4, <2>6, <2>7, <2>8 DEF Final
  <2> QED BY <2>3, <2>9, <2>10 DEF lg
<1> QED BY <1>1, <1>2, <1>3, PTL DEF Spec

--------------------
\* The blocking client: what lies on a wire. A byte knows its frame and its place in it, so a
\* stretch of the wire is good when around each of its bytes lies the rest of the byte's frame
\* (all but what is already gone in front), and behind a frame another one starts.
RequestKinds == Single \cup {"read", "subscribe"}
AnswerKinds == Single \cup {"events", "caughtup", "bad", "huge", "end", "error"}
Terminal == {"end", "error"}

WireFrame == [id : Nat, kind : RequestKinds \cup AnswerKinds, size : Nat \ {0}]

Whole(f) == PrefixLen + f.size
PartLen(f, part) == IF part = "len" THEN PrefixLen ELSE f.size

Byte == {b \in [of : WireFrame, part : {"len", "body"}, at : Nat \ {0}] : b.at <= PartLen(b.of, b.part)}

Place(b) == IF b.part = "len" THEN b.at ELSE PrefixLen + b.at

ByteOf(f, k) == IF k <= PrefixLen THEN [of |-> f, part |-> "len", at |-> k]
                ELSE [of |-> f, part |-> "body", at |-> k - PrefixLen]

\* Place k of the frame around byte i of s.
Around(s, i, k) == i - Place(s[i]) + k

Good(s) ==
    /\ s \in Seq(Byte)
    /\ \A i \in 1 .. Len(s) : \A k \in 1 .. Whole(s[i].of) :
          1 <= Around(s, i, k) =>
              Around(s, i, k) <= Len(s) /\ s[Around(s, i, k)] = ByteOf(s[i].of, k)
    /\ \A i \in 1 .. Len(s) - 1 : Place(s[i]) = Whole(s[i].of) => Place(s[i + 1]) = 1

Aligned(s) == s # <<>> => Place(s[1]) = 1

\* What a reader holds of a frame is the front of the wire.
Held(poller) == poller.prefix \o poller.body
Wire(poller, stream) == Held(poller) \o stream

Fits(poller, max) ==
    /\ poller \in [prefix : Seq(Byte), body : Seq(Byte), len : Nat]
    /\ \/ Len(poller.prefix) < PrefixLen /\ poller.body = <<>> /\ poller.len = 0
       \/ /\ InBody(poller) /\ Len(poller.body) < poller.len /\ poller.len <= max
          /\ poller.prefix = Bytes(poller.prefix[1].of, "len", PrefixLen) =>
                 poller.len = poller.prefix[1].of.size

\* A byte is the one its frame has at its place.
LEMMA PlaceOf ==
    ASSUME NEW b \in Byte
    PROVE  /\ b.of \in WireFrame /\ Place(b) \in 1 .. Whole(b.of) /\ b = ByteOf(b.of, Place(b))
<1>1. PrefixLen \in Nat \ {0} /\ b.of \in WireFrame /\ b.of.size \in Nat \ {0}
  BY FramingAssumption DEF Byte, WireFrame
<1>2. /\ b = [of |-> b.of, part |-> b.part, at |-> b.at] /\ b.part \in {"len", "body"} /\ b.at \in Nat \ {0}
      /\ b.at <= PartLen(b.of, b.part)
  BY DEF Byte
<1>3. CASE b.part = "len"
  <2>1. Place(b) = b.at /\ b.at <= PrefixLen BY <1>2, <1>3 DEF Place, PartLen
  <2>2. Place(b) \in 1 .. Whole(b.of) BY <1>1, <1>2, <2>1 DEF Whole
  <2> QED BY <1>1, <1>2, <1>3, <2>1, <2>2 DEF ByteOf
<1>4. CASE b.part = "body"
  <2>1. Place(b) = PrefixLen + b.at /\ b.at <= b.of.size BY <1>2, <1>4 DEF Place, PartLen
  <2>2. Place(b) \in 1 .. Whole(b.of) /\ ~ Place(b) <= PrefixLen /\ Place(b) - PrefixLen = b.at
    BY <1>1, <1>2, <2>1 DEF Whole
  <2> QED BY <1>1, <1>2, <1>4, <2>2 DEF ByteOf
<1> QED BY <1>2, <1>3, <1>4

LEMMA ByteOfIs ==
    ASSUME NEW f \in WireFrame, NEW k \in 1 .. Whole(f)
    PROVE  ByteOf(f, k) \in Byte /\ ByteOf(f, k).of = f /\ Place(ByteOf(f, k)) = k
<1>1. PrefixLen \in Nat \ {0} /\ f.size \in Nat \ {0} /\ Whole(f) = PrefixLen + f.size
  BY FramingAssumption DEF WireFrame, Whole
<1>2. CASE k <= PrefixLen
  <2>1. ByteOf(f, k) = [of |-> f, part |-> "len", at |-> k] BY <1>2 DEF ByteOf
  <2>2. k \in Nat \ {0} /\ k <= PartLen(f, "len") BY <1>1, <1>2 DEF PartLen
  <2> QED BY <2>1, <2>2 DEF Byte, Place
<1>3. CASE ~ k <= PrefixLen
  <2>1. ByteOf(f, k) = [of |-> f, part |-> "body", at |-> k - PrefixLen]
    BY <1>3 DEF ByteOf
  <2>2. k - PrefixLen \in Nat \ {0} /\ k - PrefixLen <= f.size /\ PrefixLen + (k - PrefixLen) = k
    BY <1>1, <1>3
  <2>3. k - PrefixLen <= PartLen(f, "body") BY <2>2 DEF PartLen
  <2> QED BY <2>1, <2>2, <2>3 DEF Byte, Place
<1> QED BY <1>2, <1>3

Joined(u, s, t) == u = s \o t

\* One sequence behind another, element by element.
LEMMA JoinBytes ==
    ASSUME NEW s \in Seq(Byte), NEW t \in Seq(Byte), NEW u, Joined(u, s, t)
    PROVE  /\ u \in Seq(Byte) /\ Len(u) = Len(s) + Len(t)
           /\ \A i \in 1 .. Len(s) : u[i] = s[i]
           /\ \A i \in 1 .. Len(t) : u[Len(s) + i] = t[i]
<1>1. u \in Seq(Byte) /\ Len(u) = Len(s) + Len(t) BY DEF Joined
<1>2. \A i \in 1 .. Len(s) : u[i] = s[i] BY DEF Joined
<1>3. \A i \in 1 .. Len(t) : u[Len(s) + i] = t[i] BY DEF Joined
<1> QED BY <1>1, <1>2, <1>3

\* What is left of s behind its first n bytes.
Rest(s, n) == SubSeq(s, n + 1, Len(s))

\* What is left behind the first n elements.
LEMMA CutBytes ==
    ASSUME NEW s \in Seq(Byte), NEW n \in 0 .. Len(s)
    PROVE  /\ Rest(s, n) \in Seq(Byte) /\ Len(Rest(s, n)) = Len(s) - n
           /\ \A i \in 1 .. Len(s) - n : Rest(s, n)[i] = s[n + i]
    BY DEF Rest

LEMMA CutJoins ==
    ASSUME NEW s \in Seq(Byte), NEW n \in 0 .. Len(s)
    PROVE  \E u \in Seq(Byte) : u = SubSeq(s, 1, n) /\ Len(u) = n /\ Joined(s, u, Rest(s, n))
<1>1. PICK t : t = Rest(s, n) OBVIOUS
<1>2. t \in Seq(Byte) /\ Len(t) = Len(s) - n /\ \A i \in 1 .. Len(s) - n : t[i] = s[n + i]
  BY <1>1, CutBytes
<1>3. PICK u : u = SubSeq(s, 1, n) OBVIOUS
<1>4. u \in Seq(Byte) /\ Len(u) = n /\ \A i \in 1 .. n : u[i] = s[i] BY <1>3
<1>5. PICK v : Joined(v, u, t) BY DEF Joined
<1>6. /\ v \in Seq(Byte) /\ Len(v) = Len(u) + Len(t)
      /\ \A i \in 1 .. Len(u) : v[i] = u[i]
      /\ \A i \in 1 .. Len(t) : v[Len(u) + i] = t[i]
  <2>1. t \in Seq(Byte) /\ u \in Seq(Byte) BY <1>2, <1>4
  <2> QED BY ONLY <1>5, <2>1, JoinBytes
<1>7. ASSUME NEW i \in 1 .. Len(s) PROVE v[i] = s[i]
  <2>1. CASE i \in 1 .. n BY <1>4, <1>6, <2>1
  <2>2. CASE i \in n + 1 .. Len(s)
    <3>1. i - n \in 1 .. Len(s) - n /\ n + (i - n) = i BY <2>2
    <3>2. t[i - n] = s[n + (i - n)] /\ i - n \in 1 .. Len(t) BY <1>2, <3>1
    <3>3. v[n + (i - n)] = t[i - n] BY <1>4, <1>6, <3>2
    <3> QED BY <3>1, <3>2, <3>3
  <2> QED BY <2>1, <2>2
<1>8. v = s
  <2>1. Len(v) = Len(s) BY <1>2, <1>4, <1>6
  <2> QED BY <1>6, <1>7, <2>1
<1> QED BY <1>1, <1>3, <1>4, <1>5, <1>8

LEMMA BytesAre ==
    ASSUME NEW f \in WireFrame, NEW part \in {"len", "body"}, NEW n \in Nat, n <= PartLen(f, part)
    PROVE  /\ Bytes(f, part, n) \in Seq(Byte) /\ Len(Bytes(f, part, n)) = n
           /\ \A k \in 1 .. n : Bytes(f, part, n)[k] = [of |-> f, part |-> part, at |-> k]
<1>1. ASSUME NEW k \in 1 .. n PROVE [of |-> f, part |-> part, at |-> k] \in Byte
  <2>1. PartLen(f, part) \in Nat BY FramingAssumption DEF PartLen, WireFrame
  <2>2. k \in Nat \ {0} /\ k <= PartLen(f, part) BY <2>1
  <2> QED BY <2>2 DEF Byte
<1>2. Bytes(f, part, n) \in [1 .. n -> Byte] BY <1>1 DEF Bytes
<1> QED BY <1>2 DEF Bytes

\* The encoding of a frame holds its bytes in the order of their places.
LEMMA EncodeIs ==
    ASSUME NEW f \in WireFrame
    PROVE  /\ Whole(f) \in Nat /\ PrefixLen < Whole(f) /\ 1 < Whole(f)
           /\ Encode(f) \in Seq(Byte) /\ Len(Encode(f)) = Whole(f)
           /\ \A k \in 1 .. Whole(f) : Encode(f)[k] = ByteOf(f, k)
<1>1. PrefixLen \in Nat \ {0} /\ f.size \in Nat \ {0} /\ Whole(f) = PrefixLen + f.size
  BY FramingAssumption DEF WireFrame, Whole
<1>2. PartLen(f, "len") = PrefixLen /\ PartLen(f, "body") = f.size BY DEF PartLen
<1>3. /\ Bytes(f, "len", PrefixLen) \in Seq(Byte) /\ Len(Bytes(f, "len", PrefixLen)) = PrefixLen
      /\ \A k \in 1 .. PrefixLen : Bytes(f, "len", PrefixLen)[k] = [of |-> f, part |-> "len", at |-> k]
  BY <1>1, <1>2, BytesAre
<1>4. /\ Bytes(f, "body", f.size) \in Seq(Byte) /\ Len(Bytes(f, "body", f.size)) = f.size
      /\ \A k \in 1 .. f.size : Bytes(f, "body", f.size)[k] = [of |-> f, part |-> "body", at |-> k]
  BY <1>1, <1>2, BytesAre
<1>5. Encode(f) = Bytes(f, "len", PrefixLen) \o Bytes(f, "body", f.size) BY DEF Encode
<1>6. /\ Encode(f) \in Seq(Byte) /\ Len(Encode(f)) = PrefixLen + f.size
      /\ \A k \in 1 .. PrefixLen : Encode(f)[k] = Bytes(f, "len", PrefixLen)[k]
      /\ \A k \in 1 .. f.size : Encode(f)[PrefixLen + k] = Bytes(f, "body", f.size)[k]
  <2>1. PICK a \in Seq(Byte) : a = Bytes(f, "len", PrefixLen) BY <1>3
  <2>2. PICK b \in Seq(Byte) : b = Bytes(f, "body", f.size) BY <1>4
  <2>3. PICK e : e = Encode(f) OBVIOUS
  <2>4. Joined(e, a, b) BY <1>3, <1>4, <1>5, <2>1, <2>2, <2>3 DEF Joined
  <2>5. /\ e \in Seq(Byte) /\ Len(e) = Len(a) + Len(b)
        /\ \A k \in 1 .. Len(a) : e[k] = a[k]
        /\ \A k \in 1 .. Len(b) : e[Len(a) + k] = b[k]
    BY ONLY <2>4, a \in Seq(Byte), b \in Seq(Byte), JoinBytes
  <2>6. Len(a) = PrefixLen /\ Len(b) = f.size BY <1>3, <1>4, <2>1, <2>2
  <2> QED BY <2>1, <2>2, <2>3, <2>5, <2>6
<1>7. ASSUME NEW k \in 1 .. Whole(f) PROVE Encode(f)[k] = ByteOf(f, k)
  <2>1. CASE k <= PrefixLen
    <3>1. k \in 1 .. PrefixLen BY <1>1, <2>1
    <3> QED BY <1>3, <1>6, <2>1, <3>1 DEF ByteOf
  <2>2. CASE ~ k <= PrefixLen
    <3>1. k - PrefixLen \in 1 .. f.size /\ PrefixLen + (k - PrefixLen) = k BY <1>1, <2>2
    <3> QED BY <1>4, <1>6, <2>2, <3>1 DEF ByteOf
  <2> QED BY <2>1, <2>2
<1> QED BY <1>1, <1>6, <1>7

\* Good wires: nothing, one frame, one more frame, a wire further on.
LEMMA GoodEmpty == Good(<<>>) /\ Aligned(<<>>)
<1>1. <<>> \in Seq(Byte) /\ Len(<<>>) = 0 OBVIOUS
<1> QED BY <1>1 DEF Good, Aligned

\* The bytes around a byte of a good wire are those of its frame.
LEMMA GoodAround ==
    ASSUME NEW s, Good(s), NEW i \in 1 .. Len(s)
    PROVE  /\ s \in Seq(Byte) /\ s[i].of \in WireFrame /\ Whole(s[i].of) \in Nat /\ 1 < Whole(s[i].of)
           /\ Place(s[i]) \in 1 .. Whole(s[i].of) /\ s[i] = ByteOf(s[i].of, Place(s[i]))
           /\ \A j \in 1 .. Len(s) + Whole(s[i].of) :
                 Place(s[i]) + (j - i) \in 1 .. Whole(s[i].of) =>
                     j <= Len(s) /\ s[j] = ByteOf(s[i].of, Place(s[i]) + (j - i))
<1>1. s \in Seq(Byte) /\ s[i] \in Byte BY DEF Good
<1>2. s[i].of \in WireFrame /\ Place(s[i]) \in 1 .. Whole(s[i].of) /\ s[i] = ByteOf(s[i].of, Place(s[i]))
  BY <1>1, PlaceOf
<1>3. Whole(s[i].of) \in Nat /\ 1 < Whole(s[i].of) BY <1>2, EncodeIs
<1>4. ASSUME NEW j \in 1 .. Len(s) + Whole(s[i].of), Place(s[i]) + (j - i) \in 1 .. Whole(s[i].of)
      PROVE  j <= Len(s) /\ s[j] = ByteOf(s[i].of, Place(s[i]) + (j - i))
  <2>1. Around(s, i, Place(s[i]) + (j - i)) = j BY <1>1, <1>2, <1>3 DEF Around
  <2> QED BY <1>4, <2>1 DEF Good
<1> QED BY <1>1, <1>2, <1>3, <1>4

LEMMA GoodMeans ==
    ASSUME NEW s \in Seq(Byte),
           \A i \in 1 .. Len(s) : \A j \in 1 .. Len(s) + Whole(s[i].of) :
               Place(s[i]) + (j - i) \in 1 .. Whole(s[i].of) =>
                   j <= Len(s) /\ s[j] = ByteOf(s[i].of, Place(s[i]) + (j - i)),
           \A i \in 1 .. Len(s) - 1 : Place(s[i]) = Whole(s[i].of) => Place(s[i + 1]) = 1
    PROVE  Good(s)
<1>1. ASSUME NEW i \in 1 .. Len(s), NEW k \in 1 .. Whole(s[i].of), 1 <= Around(s, i, k)
      PROVE  Around(s, i, k) <= Len(s) /\ s[Around(s, i, k)] = ByteOf(s[i].of, k)
  <2>1. s[i].of \in WireFrame /\ Place(s[i]) \in 1 .. Whole(s[i].of) BY PlaceOf
  <2>2. Whole(s[i].of) \in Nat BY <2>1, EncodeIs
  <2>3. PICK j \in Int : j = Around(s, i, k) BY <2>1, <2>2 DEF Around
  <2>4. j \in 1 .. Len(s) + Whole(s[i].of) /\ Place(s[i]) + (j - i) = k
    BY <1>1, <2>1, <2>2, <2>3 DEF Around
  <2> QED BY <2>3, <2>4
<1> QED BY <1>1 DEF Good

\* A whole frame put behind a good wire.
LEMMA GoodAppend ==
    ASSUME NEW s, Good(s), NEW f \in WireFrame, NEW t, Joined(t, s, Encode(f))
    PROVE  Good(t) /\ (Aligned(s) => Aligned(t))
<1>1. PICK e \in Seq(Byte), m \in Nat, w \in Nat :
          /\ e = Encode(f) /\ s \in Seq(Byte) /\ m = Len(s) /\ w = Whole(f) /\ 1 < w /\ Len(e) = w
          /\ \A k \in 1 .. w : e[k] = ByteOf(f, k)
  BY EncodeIs DEF Good
<1>0. Joined(t, s, e) BY <1>1
<1>2. /\ t \in Seq(Byte) /\ Len(t) = m + w
      /\ \A i \in 1 .. m : t[i] = s[i]
      /\ \A i \in 1 .. w : t[m + i] = e[i]
  BY <1>0, <1>1, JoinBytes
<1>3. \A i \in 1 .. w : t[m + i] = ByteOf(f, i) /\ t[m + i].of = f /\ Place(t[m + i]) = i
  <2>1. \A i \in 1 .. w : t[m + i] = ByteOf(f, i) BY <1>1, <1>2
  <2>2. \A i \in 1 .. w : ByteOf(f, i).of = f /\ Place(ByteOf(f, i)) = i BY <1>1, ByteOfIs
  <2> QED BY <2>1, <2>2
<1>4. ASSUME NEW i \in 1 .. Len(t), NEW j \in 1 .. Len(t) + Whole(t[i].of),
             Place(t[i]) + (j - i) \in 1 .. Whole(t[i].of)
      PROVE  j <= Len(t) /\ t[j] = ByteOf(t[i].of, Place(t[i]) + (j - i))
  <2>1. CASE i \in 1 .. m
    <3>1. /\ t[i] = s[i] /\ Place(s[i]) \in 1 .. Whole(s[i].of) /\ Whole(s[i].of) \in Nat
          /\ \A l \in 1 .. m + Whole(s[i].of) :
                Place(s[i]) + (l - i) \in 1 .. Whole(s[i].of) =>
                    l <= m /\ s[l] = ByteOf(s[i].of, Place(s[i]) + (l - i))
      BY <1>1, <1>2, <2>1, GoodAround
    <3>2. j \in 1 .. m + Whole(s[i].of) BY <1>1, <1>4, <2>1, <3>1
    <3>3. j \in 1 .. m /\ s[j] = ByteOf(s[i].of, Place(s[i]) + (j - i))
      BY <1>1, <1>4, <3>1, <3>2
    <3> QED BY <1>1, <1>2, <3>1, <3>3
  <2>2. CASE i \in m + 1 .. m + w
    <3>1. i - m \in 1 .. w /\ m + (i - m) = i BY <1>1, <2>2
    <3>2. t[i].of = f /\ Place(t[i]) = i - m BY <1>3, <3>1
    <3>3. j - m \in 1 .. w /\ m + (j - m) = j /\ Place(t[i]) + (j - i) = j - m
      BY <1>1, <1>4, <3>1, <3>2
    <3>4. j <= Len(t) /\ t[j] = ByteOf(f, j - m) BY <1>1, <1>2, <1>3, <3>3
    <3> QED BY <3>2, <3>3, <3>4
  <2> QED BY <1>1, <1>2, <2>1, <2>2
<1>5. ASSUME NEW i \in 1 .. Len(t) - 1, Place(t[i]) = Whole(t[i].of) PROVE Place(t[i + 1]) = 1
  <2>1. CASE i \in 1 .. m - 1
    <3>1. i \in 1 .. m /\ i + 1 \in 1 .. m /\ i \in 1 .. Len(s) - 1 BY <1>1, <2>1
    <3> QED BY <1>2, <1>5, <3>1 DEF Good
  <2>2. CASE i = m BY <1>1, <1>3, <2>2
  <2>3. CASE i \in m + 1 .. m + w - 1
    <3>1. i - m \in 1 .. w /\ m + (i - m) = i /\ i - m < w BY <1>1, <2>3
    <3> QED BY <1>1, <1>3, <1>5, <3>1
  <2> QED BY <1>1, <1>2, <2>1, <2>2, <2>3
<1>6. Good(t) BY <1>2, <1>4, <1>5, GoodMeans
<1>7. Aligned(s) => Aligned(t)
  <2>1. CASE m = 0
    <3>1. 1 \in 1 .. w /\ m + 1 = 1 BY <1>1, <2>1
    <3> QED BY <1>3, <3>1 DEF Aligned
  <2>2. CASE m # 0
    <3>1. 1 \in 1 .. m /\ s # <<>> BY <1>1, <2>2
    <3> QED BY <1>2, <3>1 DEF Aligned
  <2> QED BY <2>1, <2>2
<1> QED BY <1>6, <1>7

\* A good wire stays good when bytes are cut off its front.
LEMMA GoodCut ==
    ASSUME NEW s, Good(s), NEW n \in 0 .. Len(s)
    PROVE  Good(Rest(s, n))
<1>0. PICK t, m : t = Rest(s, n) /\ m = Len(s) OBVIOUS
<1>1. /\ m \in Nat /\ t \in Seq(Byte) /\ s \in Seq(Byte) /\ m = Len(s) /\ Len(t) = m - n
      /\ \A i \in 1 .. m - n : t[i] = s[n + i]
  <2>1. s \in Seq(Byte) BY DEF Good
  <2>2. t \in Seq(Byte) /\ Len(t) = Len(s) - n /\ \A i \in 1 .. Len(s) - n : t[i] = s[n + i]
    BY ONLY <1>0, <2>1, CutBytes
  <2> QED BY <1>0, <2>1, <2>2
<1>2. ASSUME NEW i \in 1 .. Len(t), NEW j \in 1 .. Len(t) + Whole(t[i].of),
             Place(t[i]) + (j - i) \in 1 .. Whole(t[i].of)
      PROVE  j <= Len(t) /\ t[j] = ByteOf(t[i].of, Place(t[i]) + (j - i))
  <2>1. n + i \in 1 .. m /\ t[i] = s[n + i] BY <1>1
  <2>2. /\ Place(s[n + i]) \in 1 .. Whole(s[n + i].of) /\ Whole(s[n + i].of) \in Nat
        /\ \A l \in 1 .. m + Whole(s[n + i].of) :
              Place(s[n + i]) + (l - (n + i)) \in 1 .. Whole(s[n + i].of) =>
                  l <= m /\ s[l] = ByteOf(s[n + i].of, Place(s[n + i]) + (l - (n + i)))
    BY <1>1, <2>1, GoodAround
  <2>3. n + j \in 1 .. m + Whole(s[n + i].of) /\ n + j - (n + i) = j - i
    BY <1>1, <2>1, <2>2
  <2>4. n + j <= m /\ s[n + j] = ByteOf(t[i].of, Place(t[i]) + (j - i))
    BY <1>2, <2>1, <2>2, <2>3
  <2>5. j \in 1 .. m - n BY <1>1, <2>1, <2>2, <2>4
  <2> QED BY <1>1, <2>4, <2>5
<1>3. ASSUME NEW i \in 1 .. Len(t) - 1, Place(t[i]) = Whole(t[i].of) PROVE Place(t[i + 1]) = 1
  <2>1. i \in 1 .. m - n /\ i + 1 \in 1 .. m - n /\ n + i \in 1 .. Len(s) - 1 /\ n + (i + 1) = n + i + 1
    BY <1>1
  <2>2. t[i] = s[n + i] /\ t[i + 1] = s[n + i + 1] BY <1>1, <2>1
  <2> QED BY <1>3, <2>1, <2>2 DEF Good
<1> QED BY <1>0, <1>1, <1>2, <1>3, GoodMeans

\* An aligned wire starts with a whole frame, and behind it is aligned.
LEMMA GoodFront ==
    ASSUME NEW s, Good(s), NEW f, s # <<>>, Aligned(s), f = s[1].of
    PROVE  /\ f \in WireFrame /\ Whole(f) \in 1 .. Len(s)
           /\ \A k \in 1 .. Whole(f) : s[k] = ByteOf(f, k) /\ s[k].of = f /\ Place(s[k]) = k
           /\ Aligned(Rest(s, Whole(f)))
<1>1. s \in Seq(Byte) /\ 1 \in 1 .. Len(s) /\ Place(s[1]) = 1 BY DEF Good, Aligned
<1>2. /\ f \in WireFrame /\ Whole(f) \in Nat /\ 1 < Whole(f)
      /\ \A j \in 1 .. Len(s) + Whole(f) :
            Place(s[1]) + (j - 1) \in 1 .. Whole(f) => j <= Len(s) /\ s[j] = ByteOf(f, Place(s[1]) + (j - 1))
  BY <1>1, GoodAround
<1>3. ASSUME NEW k \in 1 .. Whole(f)
      PROVE  k <= Len(s) /\ s[k] = ByteOf(f, k) /\ s[k].of = f /\ Place(s[k]) = k
  <2>1. k \in 1 .. Len(s) + Whole(f) /\ Place(s[1]) + (k - 1) = k BY <1>1, <1>2
  <2>2. k <= Len(s) /\ s[k] = ByteOf(f, k) BY <1>2, <2>1
  <2> QED BY <1>2, <2>2, ByteOfIs
<1>4. Whole(f) \in 1 .. Len(s) BY <1>1, <1>2, <1>3
<1>5. CASE Whole(f) = Len(s)
  <2>1. Rest(s, Whole(f)) = <<>> BY <1>1, <1>5 DEF Rest
  <2> QED BY <1>2, <1>3, <1>4, <2>1 DEF Aligned
<1>6. CASE Whole(f) \in 1 .. Len(s) - 1
  <2>1. s[Whole(f)].of = f /\ Place(s[Whole(f)]) = Whole(f) BY <1>2, <1>3, <1>4
  <2>2. Place(s[Whole(f) + 1]) = 1 BY <1>6, <2>1 DEF Good
  <2>3. Rest(s, Whole(f))[1] = s[Whole(f) + 1]
    <3>1. Whole(f) \in 0 .. Len(s) /\ 1 \in 1 .. Len(s) - Whole(f) BY <1>1, <1>6
    <3> QED BY <1>1, <3>1, CutBytes
  <2> QED BY <1>2, <1>3, <1>4, <2>2, <2>3 DEF Aligned
<1> QED BY <1>1, <1>2, <1>3, <1>4, <1>5, <1>6

--------------------
\* One poll of a FrameReader, on any wire.
LEMMA JoinedAssoc ==
    ASSUME NEW s \in Seq(Byte), NEW t \in Seq(Byte), NEW u \in Seq(Byte), NEW a, Joined(a, s, t),
           NEW b, Joined(b, t, u), NEW w
    PROVE  a \in Seq(Byte) /\ b \in Seq(Byte) /\ (Joined(w, a, u) <=> Joined(w, s, b))
<1>1. (s \o t) \o u = s \o (t \o u) OBVIOUS
<1>2. a \in Seq(Byte) /\ b \in Seq(Byte) BY JoinBytes
<1>3. Joined(w, a, u) <=> w = (s \o t) \o u BY DEF Joined
<1>4. Joined(w, s, b) <=> w = s \o (t \o u) BY DEF Joined
<1> QED BY ONLY <1>1, <1>2, <1>3, <1>4

LEMMA JoinedNone ==
    ASSUME NEW s \in Seq(Byte)
    PROVE  Joined(s, s, <<>>) /\ Joined(s, <<>>, s)
    BY DEF Joined

LEMMA RestOfJoin ==
    ASSUME NEW s \in Seq(Byte), NEW t \in Seq(Byte), NEW w, Joined(w, s, t)
    PROVE  w \in Seq(Byte) /\ Len(s) \in 0 .. Len(w) /\ t = Rest(w, Len(s))
<1>1. /\ w \in Seq(Byte) /\ Len(w) = Len(s) + Len(t)
      /\ \A i \in 1 .. Len(s) : w[i] = s[i]
      /\ \A i \in 1 .. Len(t) : w[Len(s) + i] = t[i]
  BY JoinBytes
<1>2. Len(s) \in Nat /\ Len(t) \in Nat /\ Len(s) \in 0 .. Len(w) BY <1>1
<1>3. PICK r : r = Rest(w, Len(s)) OBVIOUS
<1>4. r \in Seq(Byte) /\ Len(r) = Len(w) - Len(s) /\ \A i \in 1 .. Len(w) - Len(s) : r[i] = w[Len(s) + i]
  <2>1. w \in Seq(Byte) /\ Len(s) \in 0 .. Len(w) BY <1>1, <1>2
  <2> QED BY ONLY <1>3, <2>1, CutBytes
<1>5. Len(r) = Len(t) /\ \A i \in 1 .. Len(t) : r[i] = t[i] BY <1>1, <1>2, <1>4
<1>6. r = t BY <1>4, <1>5
<1> QED BY <1>1, <1>2, <1>3, <1>6

\* Four bytes are a length prefix only at the front of a frame.
LEMMA PrefixIs ==
    ASSUME NEW w, Good(w), NEW p \in Seq(Byte), Len(p) = PrefixLen, NEW r \in Seq(Byte), Joined(w, p, r)
    PROVE  /\ w # <<>> /\ p[1] = w[1] /\ PrefixLen \in 1 .. Len(w)
           /\ Aligned(w) <=> p = Bytes(p[1].of, "len", PrefixLen)
<1>1. PrefixLen \in Nat \ {0} BY FramingAssumption
<1>2. w \in Seq(Byte) /\ Len(w) = PrefixLen + Len(r) /\ \A i \in 1 .. PrefixLen : w[i] = p[i]
  BY JoinBytes
<1>3. PrefixLen \in 1 .. Len(w) /\ 1 \in 1 .. Len(w) /\ w # <<>> /\ p[1] = w[1]
  BY <1>1, <1>2
<1>4. PICK f : f = w[1].of OBVIOUS
<1>5. f \in WireFrame /\ PrefixLen \in 1 .. Whole(f) /\ Whole(f) \in Nat
  <2>1. w[1].of \in WireFrame BY <1>3, GoodAround
  <2> QED BY <1>1, <1>4, <2>1, EncodeIs
<1>6. ASSUME Aligned(w) PROVE p = Bytes(p[1].of, "len", PrefixLen)
  <2>1. \A k \in 1 .. Whole(f) : w[k] = ByteOf(f, k) BY <1>3, <1>4, <1>6, GoodFront
  <2>2. \A k \in 1 .. PrefixLen : p[k] = [of |-> f, part |-> "len", at |-> k]
    <3> SUFFICES ASSUME NEW k \in 1 .. PrefixLen
                 PROVE  p[k] = [of |-> f, part |-> "len", at |-> k]
      OBVIOUS
    <3>1. k \in 1 .. Whole(f) /\ k <= PrefixLen BY <1>1, <1>5
    <3>2. w[k] = ByteOf(f, k) /\ w[k] = p[k] BY <1>2, <2>1, <3>1
    <3> QED BY <3>1, <3>2 DEF ByteOf
  <2>3. p = [k \in 1 .. PrefixLen |-> [of |-> f, part |-> "len", at |-> k]] BY <1>1, <2>2
  <2> QED BY <1>3, <1>4, <2>3 DEF Bytes
<1>7. ASSUME p = Bytes(p[1].of, "len", PrefixLen) PROVE Aligned(w)
  <2>1. PrefixLen <= PartLen(f, "len") BY <1>1 DEF PartLen
  <2>2. w[1] = [of |-> f, part |-> "len", at |-> 1]
    BY <1>1, <1>3, <1>4, <1>5, <1>7, <2>1, BytesAre
  <2> QED BY <2>2 DEF Aligned, Place
<1> QED BY <1>3, <1>6, <1>7

\* A body that parses is the body of the frame the wire starts with; on an aligned wire every body
\* parses.
LEMMA BodyIs ==
    ASSUME NEW w, Good(w), NEW p \in Seq(Byte), Len(p) = PrefixLen,
           NEW b \in Seq(Byte), NEW t, Joined(t, p, b), NEW r \in Seq(Byte), Joined(w, t, r)
    PROVE  /\ b # <<>> /\ b = Bytes(b[1].of, "body", Len(b)) /\ Len(b) = b[1].of.size =>
                  Aligned(w) /\ b[1].of = w[1].of
           /\ Aligned(w) /\ Len(b) = w[1].of.size =>
                  b # <<>> /\ b[1].of = w[1].of /\ b = Bytes(b[1].of, "body", Len(b))
<1>1. PrefixLen \in Nat \ {0} /\ Len(b) \in Nat /\ Len(r) \in Nat BY FramingAssumption
<1>2. t \in Seq(Byte) /\ Len(t) = PrefixLen + Len(b) /\ \A i \in 1 .. Len(b) : t[PrefixLen + i] = b[i]
  <2>1. /\ t \in Seq(Byte) /\ Len(t) = Len(p) + Len(b)
        /\ \A i \in 1 .. Len(b) : t[Len(p) + i] = b[i]
    BY JoinBytes
  <2> QED BY <2>1
<1>3. w \in Seq(Byte) /\ Len(w) = Len(t) + Len(r) /\ \A i \in 1 .. Len(t) : w[i] = t[i]
  BY <1>2, JoinBytes
<1>4. ASSUME NEW i \in 1 .. Len(b) PROVE PrefixLen + i \in 1 .. Len(w) /\ w[PrefixLen + i] = b[i]
  BY <1>1, <1>2, <1>3
<1>5. w # <<>> BY <1>1, <1>2, <1>3
<1>6. ASSUME b # <<>>, b = Bytes(b[1].of, "body", Len(b)), Len(b) = b[1].of.size
      PROVE  Aligned(w) /\ b[1].of = w[1].of
  <2>1. 1 \in 1 .. Len(b) /\ PrefixLen + 1 \in 1 .. Len(w) /\ w[PrefixLen + 1] = b[1]
    BY <1>1, <1>4, <1>6
  <2>2. PICK f : f = b[1].of OBVIOUS
  <2>3. b[1] = [of |-> f, part |-> "body", at |-> 1] BY <1>1, <1>6, <2>1, <2>2 DEF Bytes
  <2>4. Place(w[PrefixLen + 1]) = PrefixLen + 1 /\ w[PrefixLen + 1].of = f
    BY <2>1, <2>3 DEF Place
  <2>5. /\ f \in WireFrame /\ Whole(f) \in Nat /\ 1 < Whole(f)
        /\ \A j \in 1 .. Len(w) + Whole(f) :
              Place(w[PrefixLen + 1]) + (j - (PrefixLen + 1)) \in 1 .. Whole(f) =>
                  w[j] = ByteOf(f, Place(w[PrefixLen + 1]) + (j - (PrefixLen + 1)))
    BY <2>1, <2>4, GoodAround
  <2>6. /\ 1 \in 1 .. Len(w) + Whole(f) /\ 1 \in 1 .. Whole(f)
        /\ PrefixLen + 1 + (1 - (PrefixLen + 1)) = 1
    <3>1. Len(w) \in Nat BY <1>3
    <3>2. Len(w) + Whole(f) \in Nat /\ 1 <= Len(w) + Whole(f) BY <2>5, <3>1
    <3> QED BY <1>1, <2>5, <3>2
  <2>7. w[1] = ByteOf(f, 1) BY <2>4, <2>5, <2>6
  <2>8. Place(w[1]) = 1 /\ w[1].of = f BY <2>5, <2>6, <2>7, ByteOfIs
  <2> QED BY <2>2, <2>8 DEF Aligned
<1>7. ASSUME Aligned(w), Len(b) = w[1].of.size
      PROVE  b # <<>> /\ b[1].of = w[1].of /\ b = Bytes(b[1].of, "body", Len(b))
  <2>1. PICK f : f = w[1].of OBVIOUS
  <2>2. f \in WireFrame /\ \A k \in 1 .. Whole(f) : w[k] = ByteOf(f, k)
    BY <1>5, <1>7, <2>1, GoodFront
  <2>3. f.size \in Nat \ {0} /\ Len(b) = f.size /\ Whole(f) = PrefixLen + f.size
    BY <1>7, <2>1, <2>2 DEF WireFrame, Whole
  <2>4. ASSUME NEW k \in 1 .. Len(b) PROVE b[k] = [of |-> f, part |-> "body", at |-> k]
    <3>1. PrefixLen + k \in 1 .. Whole(f) /\ ~ PrefixLen + k <= PrefixLen /\ PrefixLen + k - PrefixLen = k
      BY <1>1, <2>3
    <3>2. w[PrefixLen + k] = ByteOf(f, PrefixLen + k) BY <2>2, <3>1
    <3> QED BY <1>4, <3>1, <3>2 DEF ByteOf
  <2>5. b = Bytes(f, "body", Len(b))
    <3>1. PICK l \in Nat : l = Len(b) BY <1>1
    <3>2. \A k \in 1 .. l : b[k] = [of |-> f, part |-> "body", at |-> k] BY <2>4, <3>1
    <3>3. b = [k \in 1 .. l |-> [of |-> f, part |-> "body", at |-> k]]
      <4>1. b \in [1 .. l -> Byte] BY <3>1
      <4> QED BY <3>2, <4>1
    <3> QED BY <3>1, <3>3 DEF Bytes
  <2>6. b # <<>> /\ b[1].of = f
    <3>1. 1 \in 1 .. Len(b) BY <1>1, <2>3
    <3>2. b[1] = [of |-> f, part |-> "body", at |-> 1] BY <2>4, <3>1
    <3> QED BY <3>1, <3>2
  <2> QED BY <2>1, <2>5, <2>6
<1> QED BY <1>6, <1>7

\* What a poll makes of wire w: r is the wire that it leaves.
TakesFrame(polled, w, r, max) ==
    /\ polled.outcome = "frame" /\ polled.reader = Boundary
    /\ w # <<>> /\ Aligned(w) /\ polled.frame = w[1].of /\ w[1].of.size <= max
    /\ r = Rest(w, Whole(w[1].of))

TakesGarbage(polled, w, r) ==
    /\ polled = Polled("frame", Boundary) /\ ~ Aligned(w)
    /\ \E k \in 0 .. Len(w) : r = Rest(w, k)

GivesUp(polled, w, r, max) ==
    /\ polled.frame = Garbage
    /\ \/ polled.outcome = "parse" /\ ~ Aligned(w)
       \/ polled.outcome = "toolarge" /\ (Aligned(w) => w[1].of.size > max)
    /\ \E k \in 0 .. Len(w) : r = Rest(w, k)

KeepsReading(polled, w, r, max) ==
    /\ polled.outcome = "progress" /\ polled.frame = Garbage
    /\ Fits(polled.reader, max) /\ Wire(polled.reader, r) = w

LEMMA FinishedIs ==
    ASSUME NEW w, Good(w), NEW p \in Seq(Byte), Len(p) = PrefixLen,
           NEW b \in Seq(Byte), NEW t, Joined(t, p, b), NEW r \in Seq(Byte), Joined(w, t, r),
           NEW max \in Nat, Len(b) <= max, Aligned(w) => Len(b) = w[1].of.size,
           NEW polled \in Finished([prefix |-> p, body |-> b, len |-> Len(b)])
    PROVE  TakesFrame(polled, w, r, max) \/ TakesGarbage(polled, w, r) \/ GivesUp(polled, w, r, max)
<1>1. PICK at : at = [prefix |-> p, body |-> b, len |-> Len(b)] OBVIOUS
<1>2. at.prefix = p /\ at.body = b /\ at.len = Len(b) BY <1>1
<1>3. w # <<>>
  <2>1. t \in Seq(Byte) /\ Len(t) = Len(p) + Len(b) BY JoinBytes
  <2>2. w \in Seq(Byte) /\ Len(w) = Len(t) + Len(r) BY <2>1, JoinBytes
  <2> QED BY <2>1, <2>2, FramingAssumption
<1>4. CASE b # <<>> /\ b = Bytes(b[1].of, "body", Len(b)) /\ Len(b) = b[1].of.size
  <2>1. Aligned(w) /\ b[1].of = w[1].of BY <1>4, BodyIs
  <2>2. r = Rest(w, Whole(w[1].of))
    <3>1. Len(b) = w[1].of.size BY <1>4, <2>1
    <3>2. t \in Seq(Byte) /\ Len(t) = Len(p) + Len(b) BY JoinBytes
    <3>3. t \in Seq(Byte) /\ r \in Seq(Byte) /\ Joined(w, t, r) BY <3>2
    <3>4. r = Rest(w, Len(t)) BY ONLY <3>3, RestOfJoin
    <3> QED BY <3>1, <3>2, <3>4 DEF Whole
  <2>3. polled = [outcome |-> "frame", reader |-> Boundary, frame |-> b[1].of]
    BY <1>1, <1>2, <1>4 DEF Finished
  <2> QED BY <1>3, <1>4, <2>1, <2>2, <2>3 DEF TakesFrame
<1>5. CASE ~ (b # <<>> /\ b = Bytes(b[1].of, "body", Len(b)) /\ Len(b) = b[1].of.size)
  <2>1. polled = Polled("parse", at) \/ polled = Polled("frame", Boundary)
    BY <1>1, <1>2, <1>5 DEF Finished
  <2>2. ~ Aligned(w)
    <3> SUFFICES ASSUME Aligned(w) PROVE FALSE
      OBVIOUS
    <3>1. b # <<>> /\ b[1].of = w[1].of /\ b = Bytes(b[1].of, "body", Len(b)) BY BodyIs
    <3> QED BY <1>5, <3>1
  <2>3. \E k \in 0 .. Len(w) : r = Rest(w, k)
    <3>1. t \in Seq(Byte) BY JoinBytes
    <3> QED BY <3>1, RestOfJoin
  <2> QED BY <2>1, <2>2, <2>3 DEF TakesGarbage, GivesUp, Polled
<1> QED BY <1>4, <1>5

\* A poll keeps the wire as it was, takes one frame or some bytes off its front, or gives up.
LEMMA PollIs ==
    ASSUME NEW poller, NEW max \in Nat, Fits(poller, max),
           NEW stream \in Seq(Byte), NEW w, w = Wire(poller, stream), Good(w),
           NEW n \in {1, Wants(poller)} \cap 1 .. Len(stream),
           NEW polled \in Poll(poller, SubSeq(stream, 1, n), max),
           NEW r, r = Rest(stream, n)
    PROVE  /\ r \in Seq(Byte)
           /\ \/ TakesFrame(polled, w, r, max) \/ TakesGarbage(polled, w, r)
              \/ GivesUp(polled, w, r, max) \/ KeepsReading(polled, w, r, max)
<1>1. PrefixLen \in Nat \ {0} BY FramingAssumption
<1>2. PICK c \in Seq(Byte) : c = SubSeq(stream, 1, n) /\ Len(c) = n /\ Joined(stream, c, r)
  BY CutJoins
<1>3. r \in Seq(Byte) BY CutBytes
<1>4. /\ poller = [prefix |-> poller.prefix, body |-> poller.body, len |-> poller.len]
      /\ poller.prefix \in Seq(Byte) /\ poller.body \in Seq(Byte) /\ poller.len \in Nat
  BY DEF Fits
<1>5. CASE ~ InBody(poller)
  <2>1. Len(poller.prefix) < PrefixLen /\ poller.body = <<>> /\ poller.len = 0
    BY <1>5 DEF Fits, InBody
  <2>2. PICK p : p = poller.prefix \o c /\ Joined(p, poller.prefix, c) BY DEF Joined
  <2>3. p \in Seq(Byte) /\ Len(p) = Len(poller.prefix) + n
    <3>1. poller.prefix \in Seq(Byte) /\ Joined(p, poller.prefix, c) /\ Len(c) = n
      BY <1>2, <1>4, <2>2
    <3> QED BY ONLY <3>1, c \in Seq(Byte), JoinBytes
  <2>4. Len(p) <= PrefixLen BY <1>1, <1>4, <1>5, <2>1, <2>3 DEF Wants
  <2>5. Joined(w, p, r) /\ Joined(p, p, <<>>)
    <3>1. poller.prefix \in Seq(Byte) BY <1>4
    <3>2. poller.prefix = Held(poller) BY <2>1, <3>1, JoinedNone DEF Held, Joined
    <3>3. Joined(w, poller.prefix, stream) BY <3>2 DEF Wire, Joined
    <3>4. Joined(p, poller.prefix, c) /\ Joined(stream, c, r) BY <1>2, <2>2
    <3> QED BY ONLY <1>3, <2>3, <3>1, <3>3, <3>4, c \in Seq(Byte), JoinedAssoc, JoinedNone
  <2>6. CASE Len(p) < PrefixLen
    <3>1. polled = Polled("progress", [Boundary EXCEPT !.prefix = p])
      BY <1>2, <1>5, <2>2, <2>6 DEF Poll
    <3>2. polled.reader = [prefix |-> p, body |-> <<>>, len |-> 0]
      BY <3>1 DEF Polled, Boundary
    <3>3. Fits([prefix |-> p, body |-> <<>>, len |-> 0], max)
      <4>1. PICK at : at = [prefix |-> p, body |-> <<>>, len |-> 0] OBVIOUS
      <4>2. at \in [prefix : Seq(Byte), body : Seq(Byte), len : Nat] BY <2>3, <4>1
      <4>3. at.prefix = p /\ at.body = <<>> /\ at.len = 0 BY <4>1
      <4> QED BY <2>6, <4>1, <4>2, <4>3 DEF Fits
    <3>4. Wire([prefix |-> p, body |-> <<>>, len |-> 0], r) = w
      BY <2>5 DEF Wire, Held, Joined
    <3> QED BY <1>3, <3>1, <3>2, <3>3, <3>4 DEF KeepsReading, Polled
  <2>7. CASE Len(p) = PrefixLen
    <3>1. PICK len \in DecodedLens(p, max) :
              polled \in IF len > max THEN {Polled("toolarge", [Boundary EXCEPT !.prefix = p])}
                         ELSE IF len = 0 THEN Finished([prefix |-> p, body |-> <<>>, len |-> len])
                         ELSE {Polled("progress", [prefix |-> p, body |-> <<>>, len |-> len])}
      <4>1. p = poller.prefix \o SubSeq(stream, 1, n) /\ ~ Len(p) < PrefixLen
        BY <1>1, <1>2, <2>2, <2>7
      <4>2. polled \in UNION {IF len > max
                             THEN {Polled("toolarge", [Boundary EXCEPT !.prefix = p])}
                             ELSE IF len = 0 THEN Finished([prefix |-> p, body |-> <<>>, len |-> len])
                             ELSE {Polled("progress", [prefix |-> p, body |-> <<>>, len |-> len])}
                             : len \in DecodedLens(p, max)}
        BY <1>5, <4>1, Zenon DEF Poll
      <4> QED BY <4>2
    <3>2. w # <<>> /\ p[1] = w[1] /\ PrefixLen \in 1 .. Len(w)
      BY <1>3, <2>3, <2>5, <2>7, PrefixIs
    <3>3. Aligned(w) <=> p = Bytes(p[1].of, "len", PrefixLen)
      BY <1>3, <2>3, <2>5, <2>7, PrefixIs
    <3>4. Aligned(w) => len = w[1].of.size BY <3>1, <3>2, <3>3 DEF DecodedLens
    <3>5. w[1].of.size \in Nat \ {0}
      <4>1. 1 \in 1 .. Len(w) BY <1>1, <3>2
      <4>2. w[1].of \in WireFrame BY <4>1, GoodAround
      <4> QED BY <4>2 DEF WireFrame
    <3>6. len \in Nat BY <3>1, <3>2, <3>5 DEF DecodedLens
    <3>7. CASE len > max
      <4>1. polled = Polled("toolarge", [Boundary EXCEPT !.prefix = p]) BY <3>1, <3>7
      <4>2. \E k \in 0 .. Len(w) : r = Rest(w, k) BY <1>3, <2>3, <2>5, RestOfJoin
      <4> QED BY <1>3, <3>4, <3>7, <4>1, <4>2 DEF GivesUp, Polled
    <3>8. CASE ~ len > max /\ len = 0
      <4>0. <<>> \in Seq(Byte) /\ Len(<<>>) = 0 OBVIOUS
      <4>1. PICK b : b = <<>> /\ b \in Seq(Byte) /\ Len(b) = 0 BY <4>0
      <4>2. polled \in Finished([prefix |-> p, body |-> b, len |-> Len(b)])
        BY <3>1, <3>8, <4>1
      <4>3. Joined(p, p, b) BY <2>5, <4>1
      <4>4. Len(b) <= max /\ (Aligned(w) => Len(b) = w[1].of.size) BY <3>4, <3>8, <4>1
      <4> QED BY <1>3, <2>3, <2>5, <2>7, <4>1, <4>2, <4>3, <4>4, FinishedIs
    <3>9. CASE ~ len > max /\ len # 0
      <4>1. polled = Polled("progress", [prefix |-> p, body |-> <<>>, len |-> len])
        BY <3>1, <3>9
      <4>2. polled.reader = [prefix |-> p, body |-> <<>>, len |-> len] BY <4>1 DEF Polled
      <4>3. Fits(polled.reader, max)
        <5>1. <<>> \in Seq(Byte) /\ Len(<<>>) = 0 /\ 0 < len /\ len <= max BY <3>6, <3>9
        <5>2. p = Bytes(p[1].of, "len", PrefixLen) => len = p[1].of.size
          BY <3>2, <3>3, <3>4
        <5> QED BY <2>3, <2>7, <3>6, <4>2, <5>1, <5>2 DEF Fits, InBody
      <4>4. Wire(polled.reader, r) = w BY <2>5, <4>2 DEF Wire, Held, Joined
      <4> QED BY <1>3, <4>1, <4>3, <4>4 DEF KeepsReading, Polled
    <3> QED BY <3>7, <3>8, <3>9
  <2> QED BY <1>1, <1>4, <2>3, <2>4, <2>6, <2>7
<1>6. CASE InBody(poller)
  <2>1. /\ Len(poller.prefix) = PrefixLen /\ Len(poller.body) < poller.len /\ poller.len <= max
        /\ poller.prefix = Bytes(poller.prefix[1].of, "len", PrefixLen) =>
               poller.len = poller.prefix[1].of.size
    BY <1>1, <1>4, <1>6 DEF Fits, InBody
  <2>2. PICK p \in Seq(Byte), len \in Nat : p = poller.prefix /\ len = poller.len BY <1>4
  <2>3. PICK b : b = poller.body \o c /\ Joined(b, poller.body, c) BY DEF Joined
  <2>4. b \in Seq(Byte) /\ Len(b) = Len(poller.body) + n
    <3>1. poller.body \in Seq(Byte) /\ Joined(b, poller.body, c) /\ Len(c) = n
      BY <1>2, <1>4, <2>3
    <3> QED BY ONLY <3>1, c \in Seq(Byte), JoinBytes
  <2>5. Len(b) <= len BY <1>4, <1>6, <2>1, <2>2, <2>4 DEF Wants
  <2>6. PICK t : t = p \o b /\ Joined(t, p, b) BY DEF Joined
  <2>7. PICK x : Joined(x, poller.body, stream) BY DEF Joined
  <2>8. /\ t \in Seq(Byte) /\ x \in Seq(Byte) /\ Joined(w, t, r)
        /\ Joined(w, p, x)
    <3>1. poller.body \in Seq(Byte) /\ Joined(Held(poller), p, poller.body) /\ Joined(w, Held(poller), stream)
      BY <1>4, <2>2 DEF Joined, Held, Wire
    <3>2. Joined(w, p, x)
      BY ONLY <2>7, <3>1, p \in Seq(Byte), stream \in Seq(Byte), JoinedAssoc
    <3>3. Joined(b, poller.body, c) /\ Joined(stream, c, r) BY <1>2, <2>3
    <3>4. Joined(x, b, r) /\ x \in Seq(Byte)
      BY ONLY <1>3, <2>7, <3>1, <3>3, c \in Seq(Byte), stream \in Seq(Byte), JoinedAssoc
    <3>5. Joined(t, p, b) /\ b \in Seq(Byte) BY <2>4, <2>6
    <3>6. Joined(w, t, r) /\ t \in Seq(Byte)
      BY ONLY <1>3, <3>2, <3>4, <3>5, p \in Seq(Byte), JoinedAssoc
    <3> QED BY <3>2, <3>4, <3>6
  <2>9. PICK at : at = [prefix |-> p, body |-> b, len |-> len] OBVIOUS
  <2>10. polled \in IF Len(b) < len THEN {Polled("progress", at)} ELSE Finished(at)
    <3>1. poller \in [prefix : Seq(Byte), body : Seq(Byte), len : Nat] BY DEF Fits
    <3>2. at = [poller EXCEPT !.body = b] /\ at.body = b /\ at.len = len
      BY <2>2, <2>9, <3>1
    <3> QED BY <1>2, <1>6, <2>3, <3>2 DEF Poll
  <2>11. CASE Len(b) < len
    <3>1. polled = Polled("progress", at) BY <2>10, <2>11
    <3>2. polled.reader = at BY <3>1 DEF Polled
    <3>3. Fits(at, max) BY <2>1, <2>2, <2>4, <2>9, <2>11 DEF Fits, InBody
    <3>4. Wire(at, r) = w BY <2>6, <2>8, <2>9 DEF Wire, Held, Joined
    <3> QED BY <1>3, <3>1, <3>2, <3>3, <3>4 DEF KeepsReading, Polled
  <2>12. CASE Len(b) = len
    <3>1. polled \in Finished([prefix |-> p, body |-> b, len |-> Len(b)])
      BY <2>9, <2>10, <2>12
    <3>2. Aligned(w) => Len(b) = w[1].of.size
      <4>4. p[1] = w[1] /\ (Aligned(w) <=> p = Bytes(p[1].of, "len", PrefixLen))
        BY <2>1, <2>2, <2>8, PrefixIs
      <4> QED BY <2>1, <2>2, <2>12, <4>4
    <3>3. Len(b) <= max /\ Len(p) = PrefixLen BY <2>1, <2>2, <2>12
    <3> QED BY <1>3, <2>4, <2>6, <2>8, <3>1, <3>2, <3>3, FinishedIs
  <2>13. Len(b) < len \/ Len(b) = len
    <3>1. Len(b) \in Nat BY <2>4
    <3> QED BY ONLY <2>5, <3>1, len \in Nat
  <2> QED BY <2>11, <2>12, <2>13
<1> QED BY <1>5, <1>6

--------------------
\* The invariant of the blocking client and its server.
UpWire == Wire(requests, toServer)
DownWire == Wire(frames, toClient)

InStream == client.at \in {"stream", "fill", "drain"}
LiveStreams == {s \in streams : s.live}
IsTaken(id) == \E i \in 1 .. Len(taken) : taken[i].id = id

Reports == {"none", "ok", "error", "mismatch", "protocol", "end", "over", "refused", "drained",
            "toolarge", "parse", "torn", "eof"}
CallerRecord == [at : {"idle", "recv", "stream", "fill", "drain", "done", "unconnected"},
                 id : Nat, kind : RequestKinds \cup {"none"}, buffered : Nat, events : Nat,
                 watermark : BOOLEAN, last : Reports]
StreamRecord == [id : Nat \ {0}, kind : RequestKinds, sent : Nat, live : BOOLEAN]

CallerFits ==
    /\ client \in CallerRecord /\ nextId \in Nat \ {0} /\ client.id < nextId
    /\ InStream \/ client.at = "done" => client.kind \in {"read", "subscribe"} /\ client.id # 0
    /\ client.at = "recv" => client.kind \in Single
    /\ client.at = "fill" => client.buffered = 0
    /\ client.watermark => client.at = "done"
    /\ ~ Reading => frames = Boundary

TakenFits ==
    /\ taken \in Seq(WireFrame)
    /\ \A i \in 1 .. Len(taken) : taken[i].id \in 1 .. nextId - 1
    /\ \A i, j \in 1 .. Len(taken) : i < j => taken[i].id < taken[j].id

StreamsFit ==
    /\ streams \subseteq StreamRecord
    /\ \A s \in streams : IsTaken(s.id)
    /\ \A s, t \in streams : s.id = t.id => s = t

\* The requests on the wire, in the order of their ids and behind all that were taken.
Asked(f) ==
    /\ f = Frame(f.id, f.kind) /\ f.id \in 1 .. nextId - 1 /\ f.kind \in RequestKinds
    /\ f.id = client.id => f.kind = client.kind
    /\ \A j \in 1 .. Len(taken) : taken[j].id < f.id

InOrder(w) ==
    \A i, j \in 1 .. Len(w) : i < j =>
        \/ w[i].of.id < w[j].of.id
        \/ w[i].of = w[j].of /\ Place(w[j]) - Place(w[i]) = j - i

UpFits ==
    /\ Fits(requests, ServerMax) /\ toServer \in Seq(Byte)
    /\ Good(UpWire) /\ Aligned(UpWire) /\ InOrder(UpWire)
    /\ \A i \in 1 .. Len(UpWire) : Asked(UpWire[i].of)

Answers(f) ==
    /\ f = Frame(f.id, f.kind) /\ f.kind \in AnswerKinds
    /\ IF f.id = 0 THEN f.kind = "error" ELSE IsTaken(f.id)

DownFits ==
    /\ Fits(frames, ClientMax) /\ toClient \in Seq(Byte)
    /\ Good(DownWire)
    /\ \A i \in 1 .. Len(DownWire) : Answers(DownWire[i].of)

\* The frames of a read in progress: what it yielded, holds and has coming is what the server
\* sent, and the frame that ends it comes last.
Heads(w, id) == {i \in 1 .. Len(w) : Place(w[i]) = 1 /\ w[i].of.id = id}
Expected(w, id) == {i \in Heads(w, id) : w[i].of.kind \notin Terminal}

ClosedBy(w, id, j) ==
    /\ j \in Heads(w, id) /\ w[j].of.kind \in Terminal
    /\ \A i \in Heads(w, id) : i <= j /\ (i < j => i \in Expected(w, id))

Tally(w) ==
    client.kind = "read" /\ client.at \in {"stream", "fill"} =>
        \/ ~ IsTaken(client.id) /\ client.events = 0 /\ client.buffered = 0
        \/ \E s \in streams :
             /\ s.id = client.id
             /\ s.sent = client.events + client.buffered + Cardinality(Expected(w, client.id))
             /\ IF s.live THEN Heads(w, client.id) = Expected(w, client.id)
                ELSE \E j \in Heads(w, client.id) : ClosedBy(w, client.id, j)

\* While nothing has shifted, the frames to the client are those it waits for and no more.
Quiet(u) == open => u = <<>> /\ LiveStreams = {}

Unanswered(u, w) ==
    open /\ u = Encode(Frame(client.id, client.kind)) /\ w = <<>> /\ LiveStreams = {}

ReplyDue(u, w) ==
    \/ Unanswered(u, w)
    \/ /\ Quiet(u)
       /\ \E f \in {Frame(client.id, client.kind), Frame(client.id, "error"), Frame(0, "error")} : w = Encode(f)
    \/ ~ open /\ w = <<>>

StreamFrame(f, id, what) ==
    /\ f.id = id /\ f.kind \in AnswerKinds \ Single
    /\ f.kind = "caughtup" => what = "subscribe"
    /\ f.kind = "end" => what = "read"

EndsWire(w, i) == Around(w, i, Whole(w[i].of)) = Len(w)

StreamDue(u, w) ==
    \/ Unanswered(u, w)
    \/ /\ open => u = <<>>
       /\ \A i \in 1 .. Len(w) : /\ StreamFrame(w[i].of, client.id, client.kind)
                                 /\ w[i].of.kind \in Terminal => EndsWire(w, i)
       /\ open => \/ /\ \E s \in streams : s.id = client.id /\ s.kind = client.kind /\ LiveStreams = {s}
                     /\ \A i \in 1 .. Len(w) : w[i].of.kind \notin Terminal
                  \/ LiveStreams = {} /\ w # <<>> /\ w[Len(w)].of.kind \in Terminal

Pending(u, w) ==
    /\ client.at = "recv" => ReplyDue(u, w)
    /\ InStream => StreamDue(u, w)
    /\ ~ Reading /\ ~ InStream => Quiet(u) /\ w = <<>>

Cut == ~ open /\ toClient = <<>>

UpOK == open => UpFits
DownOK == Cut \/ (DownFits /\ Tally(DownWire))
InStep == shifted = "none" => Cut \/ (Aligned(DownWire) /\ Pending(UpWire, DownWire))

CallInv ==
    CallerFits /\ TakenFits /\ StreamsFit /\ UpOK /\ DownOK /\ InStep /\ ReadsAreWhole /\ StaysAligned

--------------------
LEMMA FrameIs ==
    ASSUME NEW id \in Nat, NEW what \in RequestKinds \cup AnswerKinds
    PROVE  /\ Frame(id, what) \in WireFrame /\ Frame(id, what).id = id /\ Frame(id, what).kind = what
           /\ Frame(id, what) = Frame(Frame(id, what).id, Frame(id, what).kind)
           /\ what = "huge" => ClientMax < Frame(id, what).size
           /\ what \in {"read", "subscribe"} => Frame(id, what).size <= ServerMax
<1>1. ServerMax \in Nat \ {0} /\ ClientMax \in Nat \ {0} BY BlockingClientAssumption
<1>2. Size(what) \in Nat \ {0} BY <1>1 DEF Size
<1>3. (what = "huge" => ClientMax < Size(what)) /\ (what \in {"read", "subscribe"} => Size(what) <= ServerMax)
  BY <1>1 DEF Size
<1> QED BY <1>2, <1>3 DEF Frame, WireFrame

LEMMA WireBoundary ==
    ASSUME NEW r \in Seq(Byte), NEW max
    PROVE  Wire(Boundary, r) = r /\ Fits(Boundary, max)
<1>1. Boundary.prefix = <<>> /\ Boundary.body = <<>> /\ Boundary.len = 0 BY DEF Boundary
<1>2. Boundary \in [prefix : Seq(Byte), body : Seq(Byte), len : Nat] BY DEF Boundary
<1>3. Fits(Boundary, max) BY <1>1, <1>2, FramingAssumption DEF Fits
<1>4. <<>> \o <<>> = <<>> /\ <<>> \o r = r OBVIOUS
<1> QED BY <1>1, <1>3, <1>4 DEF Wire, Held

\* An encoding sent is appended to the wire, whatever the reader holds.
LEMMA WireGrows ==
    ASSUME NEW poller, NEW max, Fits(poller, max), NEW stream \in Seq(Byte), NEW f \in WireFrame
    PROVE  /\ Wire(poller, stream) \in Seq(Byte) /\ stream \o Encode(f) \in Seq(Byte)
           /\ Joined(Wire(poller, stream \o Encode(f)), Wire(poller, stream), Encode(f))
<1>1. PICK e \in Seq(Byte) : e = Encode(f) BY EncodeIs
<1>2. PICK p \in Seq(Byte), b \in Seq(Byte) : p = poller.prefix /\ b = poller.body
  BY DEF Fits
<1>3. PICK h : Joined(h, p, b) /\ h = Held(poller) BY <1>2 DEF Joined, Held
<1>4. h \in Seq(Byte) BY ONLY <1>3, p \in Seq(Byte), b \in Seq(Byte), JoinBytes
<1>5. PICK w, v : Joined(w, h, stream) /\ Joined(v, stream, e) BY DEF Joined
<1>6. w \in Seq(Byte) /\ v \in Seq(Byte)
  BY ONLY <1>4, <1>5, stream \in Seq(Byte), e \in Seq(Byte), JoinBytes
<1>7. PICK u : Joined(u, w, e) BY DEF Joined
<1>8. Joined(u, h, v)
  BY ONLY <1>4, <1>5, <1>7, stream \in Seq(Byte), e \in Seq(Byte), JoinedAssoc
<1> QED BY <1>1, <1>3, <1>5, <1>6, <1>7, <1>8 DEF Joined, Wire

LEMMA AppendBytes ==
    ASSUME NEW w \in Seq(Byte), NEW f \in WireFrame, NEW v, Joined(v, w, Encode(f))
    PROVE  /\ v \in Seq(Byte) /\ Len(v) = Len(w) + Whole(f)
           /\ \A i \in 1 .. Len(w) : v[i] = w[i]
           /\ \A i \in 1 .. Whole(f) : v[Len(w) + i].of = f /\ Place(v[Len(w) + i]) = i
<1>1. PICK e \in Seq(Byte) : /\ e = Encode(f) /\ Len(e) = Whole(f)
                             /\ \A k \in 1 .. Whole(f) : e[k] = ByteOf(f, k)
  BY EncodeIs
<1>2. Joined(v, w, e) BY <1>1
<1>3. /\ v \in Seq(Byte) /\ Len(v) = Len(w) + Len(e)
      /\ \A i \in 1 .. Len(w) : v[i] = w[i]
      /\ \A i \in 1 .. Len(e) : v[Len(w) + i] = e[i]
  BY ONLY <1>2, w \in Seq(Byte), e \in Seq(Byte), JoinBytes
<1>4. \A i \in 1 .. Whole(f) : e[i].of = f /\ Place(e[i]) = i BY <1>1, ByteOfIs
<1> QED BY <1>1, <1>3, <1>4

LEMMA EncodeBytes ==
    ASSUME NEW f \in WireFrame, NEW w, w = Encode(f)
    PROVE  /\ w # <<>> /\ Good(w) /\ Aligned(w) /\ w[1].of = f /\ Rest(w, Whole(f)) = <<>>
           /\ Len(w) = Whole(f) /\ \A i \in 1 .. Len(w) : w[i].of = f /\ Place(w[i]) = i
<1>1. <<>> \in Seq(Byte) /\ Len(<<>>) = 0 OBVIOUS
<1>2. w \in Seq(Byte) /\ Len(w) = Whole(f) /\ Whole(f) \in Nat /\ 1 < Whole(f) BY EncodeIs
<1>3. Joined(w, <<>>, Encode(f)) BY <1>2 DEF Joined
<1>4. Good(w) /\ Aligned(w) BY <1>3, GoodEmpty, GoodAppend
<1>5. \A i \in 1 .. Len(w) : w[i].of = f /\ Place(w[i]) = i
  <2>1. \A k \in 1 .. Whole(f) : w[k] = ByteOf(f, k) BY EncodeIs
  <2> QED BY <1>2, <2>1, ByteOfIs
<1>6. Rest(w, Whole(f)) = <<>> BY <1>2 DEF Rest
<1> QED BY <1>2, <1>4, <1>5, <1>6

\* The frames on a wire when one is written behind the others, and when the first is taken.
LEMMA HeadsFinite ==
    ASSUME NEW w \in Seq(Byte), NEW id
    PROVE  /\ IsFiniteSet(Expected(w, id)) /\ Cardinality(Expected(w, id)) \in Nat
           /\ Expected(w, id) \subseteq Heads(w, id) /\ Heads(w, id) \subseteq 1 .. Len(w)
<1>1. Expected(w, id) \subseteq 1 .. Len(w) BY DEF Expected, Heads
<1>2. IsFiniteSet(1 .. Len(w)) BY FS_Interval
<1>3. IsFiniteSet(Expected(w, id)) BY <1>1, <1>2, FS_Subset
<1> QED BY <1>3, FS_CardinalityType DEF Expected, Heads

\* A frame sent adds at most one head to those of a request.
LEMMA HeadsAppend ==
    ASSUME NEW w \in Seq(Byte), NEW f \in WireFrame, NEW v, Joined(v, w, Encode(f)), NEW id
    PROVE  /\ Heads(v, id) = Heads(w, id) \cup (IF f.id = id THEN {Len(w) + 1} ELSE {})
           /\ Expected(v, id) = Expected(w, id)
                                    \cup (IF f.id = id /\ f.kind \notin Terminal THEN {Len(w) + 1} ELSE {})
           /\ v[Len(w) + 1].of = f /\ \A i \in Heads(w, id) : v[i] = w[i] /\ i < Len(w) + 1
<1>1. Whole(f) \in Nat /\ 1 < Whole(f) BY EncodeIs
<1>2. /\ v \in Seq(Byte) /\ Len(v) = Len(w) + Whole(f)
      /\ \A i \in 1 .. Len(w) : v[i] = w[i]
      /\ \A i \in 1 .. Whole(f) : v[Len(w) + i].of = f /\ Place(v[Len(w) + i]) = i
  BY AppendBytes
<1>3. PICK m \in Nat : m = Len(w) OBVIOUS
<1>4. ASSUME NEW i PROVE i \in Heads(v, id) <=> i \in Heads(w, id) \/ (i = m + 1 /\ f.id = id)
  <2>1. CASE i \in 1 .. m
    <3>1. i # m + 1 /\ i \in 1 .. Len(v) BY <1>1, <1>2, <1>3, <2>1
    <3> QED BY <1>2, <1>3, <2>1, <3>1 DEF Heads
  <2>2. CASE i \in m + 1 .. m + Whole(f)
    <3>1. i - m \in 1 .. Whole(f) /\ m + (i - m) = i /\ i \notin 1 .. m /\ i \in 1 .. Len(v)
      BY <1>1, <1>2, <1>3, <2>2
    <3>2. v[i].of = f /\ Place(v[i]) = i - m BY <1>2, <1>3, <3>1
    <3>3. i - m = 1 <=> i = m + 1 BY <1>3, <2>2
    <3> QED BY <1>3, <3>1, <3>2, <3>3 DEF Heads
  <2>3. CASE i \notin 1 .. m + Whole(f)
    <3>1. i \notin 1 .. m /\ i # m + 1 BY <1>1, <1>3, <2>3
    <3> QED BY <1>2, <1>3, <2>3, <3>1 DEF Heads
  <2> QED BY <1>1, <1>3, <2>1, <2>2, <2>3
<1>5. v[m + 1].of = f BY <1>1, <1>2, <1>3
<1>6. \A i \in Heads(w, id) : v[i] = w[i] /\ i < m + 1 BY <1>2, <1>3 DEF Heads
<1>7. Heads(v, id) = Heads(w, id) \cup (IF f.id = id THEN {m + 1} ELSE {}) BY <1>4
<1>8. Expected(v, id) = Expected(w, id) \cup (IF f.id = id /\ f.kind \notin Terminal THEN {m + 1} ELSE {})
  BY <1>4, <1>5, <1>6 DEF Expected
<1> QED BY <1>3, <1>5, <1>6, <1>7, <1>8

\* The heads left when a frame is taken off the front.
LEMMA HeadsRest ==
    ASSUME NEW w, Good(w), w # <<>>, Aligned(w), NEW f, f = w[1].of,
           NEW n, n = Whole(f), NEW r, r = Rest(w, n), NEW id
    PROVE  /\ \A j \in Heads(r, id) : /\ j \in Nat \ {0} /\ n + j \in Heads(w, id)
                                      /\ w[n + j] = r[j] /\ n + j # 1
           /\ \A i \in Heads(w, id) : i # 1 => i - n \in Heads(r, id) /\ n + (i - n) = i
           /\ 1 \in Heads(w, id) <=> f.id = id
           /\ \A j \in Expected(r, id) : n + j \in Expected(w, id)
           /\ \A i \in Expected(w, id) : i # 1 => i - n \in Expected(r, id) /\ n + (i - n) = i
<1>1. /\ f \in WireFrame /\ n \in 1 .. Len(w) /\ w \in Seq(Byte)
      /\ \A k \in 1 .. n : w[k].of = f /\ Place(w[k]) = k
  BY GoodFront DEF Good
<1>2. r \in Seq(Byte) /\ Len(r) = Len(w) - n /\ \A i \in 1 .. Len(w) - n : r[i] = w[n + i]
  <2>1. n \in 0 .. Len(w) /\ w \in Seq(Byte) BY <1>1
  <2> QED BY ONLY <2>1, r = Rest(w, n), CutBytes
<1>3. PICK m \in Nat : m = Len(w) /\ n \in 1 .. m /\ n \in Nat BY <1>1
<1>4. ASSUME NEW j \in Heads(r, id)
      PROVE  j \in Nat \ {0} /\ n + j \in Heads(w, id) /\ w[n + j] = r[j] /\ n + j # 1
  <2>1. j \in 1 .. m - n /\ Place(r[j]) = 1 /\ r[j].of.id = id
    BY <1>2, <1>3, <1>4 DEF Heads
  <2>2. n + j \in 1 .. m /\ n + j # 1 /\ j \in Nat \ {0} /\ r[j] = w[n + j]
    BY <1>2, <1>3, <2>1
  <2> QED BY <1>3, <2>1, <2>2 DEF Heads
<1>5. ASSUME NEW i \in Heads(w, id), i # 1 PROVE i - n \in Heads(r, id) /\ n + (i - n) = i
  <2>1. i \in 1 .. m /\ Place(w[i]) = 1 /\ w[i].of.id = id BY <1>3 DEF Heads
  <2>2. i \notin 1 .. n BY <1>1, <1>5, <2>1
  <2>3. i - n \in 1 .. m - n /\ n + (i - n) = i BY <1>3, <2>1, <2>2
  <2>4. r[i - n] = w[i] BY <1>2, <1>3, <2>3
  <2> QED BY <1>2, <1>3, <2>1, <2>3, <2>4 DEF Heads
<1>6. 1 \in Heads(w, id) <=> f.id = id BY <1>1, <1>3 DEF Heads
<1>7. \A j \in Expected(r, id) : n + j \in Expected(w, id) BY <1>4 DEF Expected
<1>8. \A i \in Expected(w, id) : i # 1 => i - n \in Expected(r, id) /\ n + (i - n) = i
  BY <1>4, <1>5 DEF Expected
<1> QED BY <1>4, <1>5, <1>6, <1>7, <1>8

LEMMA ExpectedRest ==
    ASSUME NEW w, Good(w), w # <<>>, Aligned(w), NEW f, f = w[1].of,
           NEW r, r = Rest(w, Whole(f)), NEW id
    PROVE  Cardinality(Expected(w, id)) =
               Cardinality(Expected(r, id)) + (IF f.id = id /\ f.kind \notin Terminal THEN 1 ELSE 0)
<1>1. PICK S, T : S = Expected(w, id) /\ T = Expected(r, id) OBVIOUS
<1>2. PICK n : n = Whole(f) OBVIOUS
<1>3. n \in 1 .. Len(w) /\ w \in Seq(Byte) /\ n \in Nat BY <1>2, GoodFront DEF Good
<1>4. r \in Seq(Byte)
  <2>1. n \in 0 .. Len(w) BY <1>3
  <2> QED BY <1>2, <1>3, <2>1, CutBytes
<1>5. IsFiniteSet(S) /\ Cardinality(S) \in Nat /\ IsFiniteSet(T) /\ Cardinality(T) \in Nat
  BY <1>1, <1>3, <1>4, HeadsFinite
<1>6. /\ \A j \in T : j \in Nat /\ n + j \in S /\ n + j # 1
      /\ \A i \in S : i # 1 => i - n \in T /\ n + (i - n) = i
      /\ 1 \in S <=> f.id = id /\ f.kind \notin Terminal
  <2>1. \A j \in Heads(r, id) : j \in Nat /\ n + j \in Heads(w, id) /\ n + j # 1
    BY <1>2, HeadsRest
  <2>2. \A j \in T : n + j \in S BY <1>1, <1>2, HeadsRest
  <2>3. \A i \in S : i # 1 => i - n \in T /\ n + (i - n) = i BY <1>1, <1>2, HeadsRest
  <2>4. 1 \in Heads(w, id) <=> f.id = id BY <1>2, HeadsRest
  <2> QED BY <1>1, <2>1, <2>2, <2>3, <2>4 DEF Expected
<1>7. ExistsBijection(T, S \ {1})
  <2>1. PICK g : g = [j \in T |-> n + j] OBVIOUS
  <2>2. g \in [T -> S \ {1}] BY <1>6, <2>1
  <2>3. \A a, b \in T : g[a] = g[b] => a = b BY <1>3, <1>6, <2>1
  <2>4. \A i \in S \ {1} : \E j \in T : g[j] = i BY <1>6, <2>1
  <2>5. g \in Bijection(T, S \ {1})
    BY <2>2, <2>3, <2>4 DEF Bijection, Injection, Surjection, IsInjective
  <2> QED BY <2>5 DEF ExistsBijection
<1>8. Cardinality(S \ {1}) = Cardinality(T) BY <1>5, <1>7, FS_Bijection
<1>9. Cardinality(S \ {1}) = IF 1 \in S THEN Cardinality(S) - 1 ELSE Cardinality(S)
  BY <1>5, FS_RemoveElement
<1> QED BY <1>1, <1>5, <1>6, <1>8, <1>9

--------------------
\* The steps of the caller, one by one.
LEMMA CallInitHolds == CallInit => CallInv
<1> SUFFICES ASSUME CallInit PROVE CallInv
  OBVIOUS
<1>1. /\ client = NoCall /\ nextId = 1 /\ toServer = <<>> /\ toClient = <<>> /\ open = TRUE
      /\ frames = Boundary /\ requests = Boundary /\ taken = <<>> /\ streams = {} /\ shifted = "none"
  BY DEF CallInit
<1>2. /\ client \in CallerRecord /\ client.at = "idle" /\ client.id = 0 /\ client.kind = "none"
      /\ client.watermark = FALSE /\ client.last = "none"
  <2>1. /\ NoCall.at = "idle" /\ NoCall.id = 0 /\ NoCall.kind = "none" /\ NoCall.watermark = FALSE
        /\ NoCall.last = "none"
    BY DEF NoCall
  <2>2. NoCall \in CallerRecord BY DEF NoCall, CallerRecord, Reports
  <2> QED BY <1>1, <2>1, <2>2
<1>3. <<>> \in Seq(Byte) /\ Len(<<>>) = 0 /\ <<>> \in Seq(WireFrame) OBVIOUS
<1>4. UpWire = <<>> /\ DownWire = <<>> /\ \A max : Fits(Boundary, max)
  BY <1>1, <1>3, WireBoundary DEF UpWire, DownWire
<1>5. CallerFits BY <1>1, <1>2 DEF CallerFits, InStream, Reading
<1>6. TakenFits /\ StreamsFit BY <1>1, <1>3 DEF TakenFits, StreamsFit
<1>7. UpFits BY <1>1, <1>3, <1>4, GoodEmpty DEF UpFits, InOrder
<1>8. DownFits BY <1>1, <1>3, <1>4, GoodEmpty DEF DownFits
<1>9. Tally(DownWire) BY <1>2 DEF Tally
<1>10. Pending(UpWire, DownWire)
  BY <1>1, <1>2, <1>4 DEF Pending, InStream, Reading, Quiet, LiveStreams
<1>11. ReadsAreWhole /\ StaysAligned BY <1>2 DEF ReadsAreWhole, StaysAligned
<1> QED
  BY <1>4, <1>5, <1>6, <1>7, <1>8, <1>9, <1>10, <1>11, GoodEmpty DEF CallInv, UpOK, DownOK, InStep

\* The requests on the wire, when neither they nor the reader change.
LEMMA UpKept ==
    ASSUME UpOK, UNCHANGED <<requests, toServer, taken, nextId, open>>,
           client'.id # 0 => client'.id = client.id /\ client'.kind = client.kind
    PROVE  UpOK' /\ UpWire' = UpWire
<1>1. UpWire' = UpWire BY DEF UpWire
<1>2. ASSUME NEW f, Asked(f) PROVE Asked(f)' BY <1>2 DEF Asked
<1>3. UpFits => UpFits' BY <1>1, <1>2 DEF UpFits
<1> QED BY <1>1, <1>3 DEF UpOK

\* The answers on the wire, when neither they nor the reader change.
LEMMA DownKept ==
    ASSUME DownFits, UNCHANGED <<frames, toClient, taken>>
    PROVE  DownFits' /\ DownWire' = DownWire
    BY DEF DownFits, DownWire, Answers, IsTaken

LEMMA StreamsKept ==
    ASSUME StreamsFit, UNCHANGED <<streams, taken>> PROVE StreamsFit'
    BY DEF StreamsFit, IsTaken

LEMMA StreamNextStep ==
    ASSUME CallInv, StreamNext PROVE CallInv'
<1>1. /\ client.at = "stream" /\ UNCHANGED <<nextId, toServer, toClient, open, frames, requests, taken, streams, shifted>>
      /\ client' = IF client.buffered > 0 THEN [client EXCEPT !.buffered = @ - 1, !.events = @ + 1]
                   ELSE [client EXCEPT !.at = "fill"]
  BY DEF StreamNext
<1>2. /\ CallerFits /\ TakenFits /\ StreamsFit /\ UpOK /\ DownOK /\ InStep /\ StaysAligned
      /\ client \in CallerRecord
  BY DEF CallInv, CallerFits
<1>3. /\ client'.id = client.id /\ client'.kind = client.kind /\ client'.last = client.last
      /\ client'.watermark = client.watermark /\ client'.at \in {"stream", "fill"}
      /\ client' \in CallerRecord
      /\ client'.events + client'.buffered = client.events + client.buffered
      /\ client'.at = "fill" => client'.buffered = 0
      /\ client.events = 0 /\ client.buffered = 0 => client'.events = 0 /\ client'.buffered = 0
  <2>1. CASE client.buffered > 0
    <3>1. PICK b \in Nat, e \in Nat : b = client.buffered - 1 /\ e = client.events + 1
      BY <1>2, <2>1 DEF CallerRecord
    <3>2. client' = [client EXCEPT !.buffered = b, !.events = e] BY <1>1, <2>1, <3>1
    <3>3. client' \in CallerRecord /\ client'.buffered = b /\ client'.events = e /\ client'.at = "stream"
      BY <1>1, <1>2, <3>2 DEF CallerRecord
    <3>4. e + b = client.events + client.buffered BY <1>2, <3>1 DEF CallerRecord
    <3>5. /\ client'.id = client.id /\ client'.kind = client.kind /\ client'.last = client.last
          /\ client'.watermark = client.watermark
      BY <1>2, <3>2 DEF CallerRecord
    <3> QED BY <2>1, <3>3, <3>4, <3>5
  <2>2. CASE ~ client.buffered > 0
    <3>1. client' = [client EXCEPT !.at = "fill"] /\ client.buffered = 0
      BY <1>1, <1>2, <2>2 DEF CallerRecord
    <3> QED BY <1>2, <3>1 DEF CallerRecord
  <2> QED BY <2>1, <2>2
<1>4. CallerFits' BY <1>1, <1>2, <1>3 DEF CallerFits, InStream, Reading
<1>5. UpOK' /\ UpWire' = UpWire BY <1>1, <1>2, <1>3, UpKept
<1>6. TakenFits' /\ StreamsFit' BY <1>1, <1>2, StreamsKept DEF TakenFits
<1>7. DownWire' = DownWire /\ Cut' = Cut BY <1>1 DEF DownWire, Cut
<1>8. Tally(DownWire) => Tally(DownWire)'
  <2> SUFFICES ASSUME Tally(DownWire), client.kind = "read" PROVE Tally(DownWire)'
    BY <1>3 DEF Tally
  <2>1. PICK c, e : c = client.events + client.buffered /\ e = client'.events + client'.buffered
    OBVIOUS
  <2> QED BY <1>1, <1>3, <1>7 DEF Tally, IsTaken
<1>9. DownOK' BY <1>1, <1>2, <1>7, <1>8, DownKept DEF DownOK
<1>10. Pending(UpWire, DownWire) => Pending(UpWire, DownWire)'
  BY <1>1, <1>3, <1>5, <1>7
     DEF Pending, InStream, Reading, StreamDue, Unanswered, LiveStreams
<1>11. InStep' BY <1>1, <1>2, <1>5, <1>7, <1>10 DEF InStep
<1>12. ReadsAreWhole' /\ StaysAligned'
  BY <1>1, <1>2, <1>3 DEF ReadsAreWhole, StaysAligned, CallerFits
<1> QED BY <1>4, <1>5, <1>6, <1>9, <1>11, <1>12 DEF CallInv

LEMMA Resets ==
    ASSUME NEW last \in Reports
    PROVE  /\ Idle(last) \in CallerRecord /\ Idle(last).at = "idle" /\ Idle(last).id = 0
           /\ Idle(last).watermark = FALSE /\ Idle(last).last = last
           /\ Over(last) \in CallerRecord /\ Over(last).at \in {"idle", "unconnected"} /\ Over(last).id = 0
           /\ Over(last).watermark = FALSE /\ Over(last).last = last
    BY DEF Idle, Over, NoCall, CallerRecord

LEMMA StreamDropStep ==
    ASSUME CallInv, StreamDrop PROVE CallInv'
<1>1. /\ client.at \in {"stream", "done"}
      /\ UNCHANGED <<nextId, toServer, toClient, open, frames, requests, taken, streams>>
  BY DEF StreamDrop
<1>2. /\ CallerFits /\ TakenFits /\ StreamsFit /\ UpOK /\ DownOK /\ InStep /\ StaysAligned
      /\ client \in CallerRecord /\ nextId \in Nat \ {0}
  BY DEF CallInv, CallerFits
<1>3. TakenFits' /\ StreamsFit' /\ DownWire' = DownWire /\ Cut' = Cut
  BY <1>1, <1>2, StreamsKept DEF TakenFits, DownWire, Cut
<1>4. CASE client.at = "stream" /\ client.kind = "read"
  <2>1. client' = [client EXCEPT !.at = "drain"] /\ shifted' = shifted
    BY <1>4 DEF StreamDrop
  <2>2. /\ client' \in CallerRecord /\ client'.at = "drain" /\ client'.id = client.id /\ client'.kind = client.kind
        /\ client'.watermark = client.watermark /\ client'.last = client.last
    BY <1>2, <2>1 DEF CallerRecord
  <2>3. CallerFits' BY <1>1, <1>2, <1>4, <2>2 DEF CallerFits, InStream, Reading
  <2>4. UpOK' /\ UpWire' = UpWire BY <1>1, <1>2, <2>2, UpKept
  <2>5. DownOK' BY <1>1, <1>2, <1>3, <2>2, DownKept DEF DownOK, Tally
  <2>6. Pending(UpWire, DownWire) => Pending(UpWire, DownWire)'
    BY <1>1, <1>3, <1>4, <2>2, <2>4 DEF Pending, InStream, Reading, StreamDue, Unanswered, LiveStreams
  <2>7. InStep' BY <1>2, <1>3, <2>1, <2>4, <2>6 DEF InStep
  <2>8. ReadsAreWhole' /\ StaysAligned'
    BY <1>2, <1>4, <2>1, <2>2 DEF ReadsAreWhole, StaysAligned, CallerFits
  <2> QED BY <1>3, <2>3, <2>4, <2>5, <2>7, <2>8 DEF CallInv
<1>5. CASE ~ (client.at = "stream" /\ client.kind = "read")
  <2>1. client' = Idle(client.last) /\ shifted' = IF client.kind = "subscribe" THEN "subscription" ELSE shifted
    BY <1>5 DEF StreamDrop
  <2>2. /\ client' \in CallerRecord /\ client'.at = "idle" /\ client'.id = 0
        /\ client'.watermark = FALSE /\ client'.last = client.last
    BY <1>2, <2>1, Resets DEF CallerRecord
  <2>3. CallerFits' BY <1>1, <1>2, <2>2 DEF CallerFits, InStream, Reading
  <2>4. UpOK' /\ UpWire' = UpWire BY <1>1, <1>2, <2>2, UpKept
  <2>5. DownOK' BY <1>1, <1>2, <1>3, <2>2, DownKept DEF DownOK, Tally
  <2>6. ASSUME shifted' = "none" PROVE InStep'
    <3>1. client.kind = "read" /\ client.at = "done" /\ shifted = "none"
      BY <1>1, <1>2, <1>5, <2>1, <2>6 DEF CallerFits, InStream
    <3>2. Pending(UpWire, DownWire) => Pending(UpWire, DownWire)'
      BY <1>1, <1>3, <2>2, <2>4, <3>1 DEF Pending, InStream, Reading, Quiet, LiveStreams
    <3> QED BY <1>2, <1>3, <2>4, <3>1, <3>2 DEF InStep
  <2>7. ReadsAreWhole' /\ StaysAligned'
    BY <1>2, <2>1, <2>2 DEF ReadsAreWhole, StaysAligned
  <2> QED BY <1>3, <2>3, <2>4, <2>5, <2>6, <2>7 DEF CallInv, InStep
<1> QED BY <1>4, <1>5

\* A request sent is the last on an aligned wire; one refused leaves nothing.
LEMMA StartStep ==
    ASSUME CallInv, NEW what \in {"hello", "append", "stats", "read", "subscribe", "huge", "large"}, Start(what)
    PROVE  CallInv'
<1>1. /\ client.at = "idle" /\ nextId' = nextId + 1 /\ frames' = Boundary
      /\ UNCHANGED <<toClient, open, requests, taken, streams, shifted>>
  BY DEF Start
<1>2. /\ CallerFits /\ TakenFits /\ StreamsFit /\ UpOK /\ DownOK /\ InStep /\ StaysAligned
      /\ client \in CallerRecord /\ nextId \in Nat \ {0} /\ client.id < nextId /\ frames = Boundary
  BY <1>1 DEF CallInv, CallerFits, Reading
<1>3. StreamsFit' /\ DownWire' = DownWire /\ Cut' = Cut /\ (DownFits => DownFits')
  BY <1>1, <1>2, StreamsKept, DownKept DEF DownWire, Cut
<1>4. TakenFits' /\ \A i \in 1 .. Len(taken) : taken[i].id < nextId
  BY <1>1, <1>2 DEF TakenFits
<1>5. InStep => (shifted = "none" => Cut \/ (Aligned(DownWire) /\ Quiet(UpWire) /\ DownWire = <<>>))
  BY <1>1 DEF InStep, Pending, Reading, InStream
<1>6. PICK f : f = Frame(nextId, what) OBVIOUS
<1>7. /\ f \in WireFrame /\ f.id = nextId /\ f.kind = what /\ f = Frame(f.id, f.kind)
      /\ what = "huge" => ClientMax < f.size
  BY <1>2, <1>6, FrameIs DEF RequestKinds, AnswerKinds, Single
<1>8. CASE Writable(f, ClientMax)
  <2>1. /\ toServer' = IF open THEN toServer \o Encode(f) ELSE toServer
        /\ client' = [NoCall EXCEPT !.at = IF what \in Single THEN "recv" ELSE "stream",
                                    !.id = nextId, !.kind = what]
    BY <1>6, <1>8 DEF Start
  <2>2. what \in RequestKinds /\ (what \notin Single => what \in {"read", "subscribe"})
    <3>1. what # "huge" BY <1>7, <1>8, BlockingClientAssumption DEF Writable, WireFrame
    <3> QED BY <3>1 DEF RequestKinds, Single
  <2>3. /\ client'.at = (IF what \in Single THEN "recv" ELSE "stream") /\ client'.id = nextId /\ client'.kind = what
        /\ client'.buffered = 0 /\ client'.events = 0 /\ client'.watermark = FALSE /\ client'.last = "none"
        /\ client' \in CallerRecord
    BY <1>2, <2>1, <2>2 DEF NoCall, CallerRecord, Reports
  <2>4. CallerFits' BY <1>1, <1>2, <2>2, <2>3 DEF CallerFits, InStream, Reading
  <2>5. ASSUME open PROVE UpFits' /\ Joined(UpWire', UpWire, Encode(f))
    <3>1. /\ Fits(requests, ServerMax) /\ toServer \in Seq(Byte) /\ Good(UpWire) /\ Aligned(UpWire)
          /\ InOrder(UpWire) /\ \A i \in 1 .. Len(UpWire) : Asked(UpWire[i].of)
      BY <1>2, <2>5 DEF UpOK, UpFits
    <3>2. toServer' \in Seq(Byte) /\ Joined(UpWire', UpWire, Encode(f))
      BY <1>1, <1>7, <2>1, <2>5, <3>1, WireGrows DEF UpWire
    <3>3. PICK w, v, m : w = UpWire /\ v = UpWire' /\ m = Len(w) OBVIOUS
    <3>12. w \in Seq(Byte) /\ m \in Nat BY <3>1, <3>3 DEF Good
    <3>4. Good(v) /\ Aligned(v) BY <1>7, <3>1, <3>2, <3>3, GoodAppend
    <3>5. /\ Len(v) = m + Whole(f) /\ \A i \in 1 .. m : v[i] = w[i]
          /\ \A i \in 1 .. Whole(f) : v[m + i].of = f /\ Place(v[m + i]) = i
      <4>1. Joined(v, w, Encode(f)) /\ m = Len(w) /\ f \in WireFrame BY <1>7, <3>2, <3>3
      <4> QED BY ONLY <3>12, <4>1, AppendBytes
    <3>6. Whole(f) \in Nat BY <1>7, EncodeIs
    <3>7. ASSUME NEW i \in 1 .. Len(v)
          PROVE  \/ i \in 1 .. m /\ v[i] = w[i] /\ Asked(w[i].of) /\ w[i].of.id < nextId
                 \/ ~ i <= m /\ v[i].of = f /\ Place(v[i]) = i - m
      <4>1. CASE i <= m
        <5>1. i \in 1 .. m BY <3>5, <3>6, <3>12, <4>1
        <5>2. Asked(w[i].of) BY <3>1, <3>3, <5>1
        <5> QED BY <1>2, <3>5, <5>1, <5>2 DEF Asked
      <4>2. CASE ~ i <= m
        <5>1. i - m \in 1 .. Whole(f) /\ m + (i - m) = i BY <3>5, <3>6, <3>12, <4>2
        <5> QED BY <3>5, <4>2, <5>1
      <4> QED BY <4>1, <4>2
    <3>8. InOrder(v)
      <4> SUFFICES ASSUME NEW i \in 1 .. Len(v), NEW j \in 1 .. Len(v), i < j
                   PROVE  \/ v[i].of.id < v[j].of.id
                          \/ v[i].of = v[j].of /\ Place(v[j]) - Place(v[i]) = j - i
        BY DEF InOrder
      <4>1. CASE j \in 1 .. m
        <5>1. i \in 1 .. m /\ v[i] = w[i] /\ v[j] = w[j] BY <3>3, <3>5, <4>1
        <5> QED BY <3>1, <3>3, <4>1, <5>1 DEF InOrder
      <4>2. CASE j \notin 1 .. m
        <5>1. v[j].of = f /\ Place(v[j]) = j - m BY <3>7, <4>2
        <5>2. CASE i \in 1 .. m BY <1>7, <3>7, <5>1, <5>2
        <5>3. CASE i \notin 1 .. m
          <6>1. v[i].of = f /\ Place(v[i]) = i - m BY <3>7, <5>3
          <6>2. i \in Int /\ j \in Int /\ (j - m) - (i - m) = j - i BY <3>5, <3>6, <3>12
          <6> QED BY <5>1, <6>1, <6>2
        <5> QED BY <5>2, <5>3
      <4> QED BY <4>1, <4>2
    <3>9. Asked(f)'
      <4>1. f.id \in 1 .. nextId' - 1 /\ f.id = client'.id /\ f.kind = client'.kind
        BY <1>1, <1>2, <1>7, <2>3
      <4>2. \A j \in 1 .. Len(taken') : taken'[j].id < f.id BY <1>1, <1>4, <1>7
      <4> QED BY <1>7, <2>2, <4>1, <4>2 DEF Asked
    <3>10. ASSUME NEW g, Asked(g), g.id < nextId PROVE Asked(g)'
      BY <1>1, <1>2, <2>3, <3>10 DEF Asked
    <3>11. \A i \in 1 .. Len(v) : Asked(v[i].of)' BY <3>7, <3>9, <3>10
    <3> QED BY <1>1, <3>1, <3>2, <3>3, <3>4, <3>8, <3>11 DEF UpFits
  <2>6. UpOK' BY <1>1, <2>5 DEF UpOK
  <2>7. Tally(DownWire)'
    <3>1. ~ IsTaken(client.id)' BY <1>1, <1>2, <1>4, <2>3 DEF IsTaken, TakenFits
    <3> QED BY <2>3, <3>1 DEF Tally
  <2>8. DownOK' BY <1>2, <1>3, <2>7 DEF DownOK
  <2>9. ASSUME shifted = "none", ~ Cut PROVE Aligned(DownWire) /\ Pending(UpWire, DownWire)'
    <3>1. Aligned(DownWire) /\ Quiet(UpWire) /\ DownWire = <<>> BY <1>2, <1>5, <2>9
    <3>2. open BY <1>2, <2>9, <3>1, WireBoundary DEF DownOK, DownFits, DownWire, Cut
    <3>3. UpWire' = Encode(f) /\ LiveStreams = {}
      <4>1. UpWire = <<>> /\ LiveStreams = {} BY <3>1, <3>2 DEF Quiet
      <4>2. Encode(f) \in Seq(Byte) BY <1>7, EncodeIs
      <4>3. <<>> \o Encode(f) = Encode(f) BY <4>2
      <4> QED BY <2>5, <3>2, <4>1, <4>3 DEF Joined
    <3>4. Unanswered(UpWire, DownWire)'
      BY <1>1, <1>3, <1>6, <2>3, <3>1, <3>2, <3>3 DEF Unanswered, LiveStreams
    <3> QED BY <2>3, <3>1, <3>4 DEF Pending, InStream, Reading, ReplyDue, StreamDue
  <2>10. InStep' BY <1>1, <1>3, <2>9 DEF InStep
  <2>11. ReadsAreWhole' /\ StaysAligned' BY <2>3 DEF ReadsAreWhole, StaysAligned
  <2> QED BY <1>3, <1>4, <2>4, <2>6, <2>8, <2>10, <2>11 DEF CallInv
<1>9. CASE ~ Writable(f, ClientMax)
  <2>1. client' = Idle("refused") /\ toServer' = toServer BY <1>6, <1>9 DEF Start
  <2>2. /\ client' \in CallerRecord /\ client'.at = "idle" /\ client'.id = 0
        /\ client'.watermark = FALSE /\ client'.last = "refused"
    BY <2>1, Resets DEF Reports
  <2>3. CallerFits' BY <1>1, <1>2, <2>2 DEF CallerFits, InStream, Reading
  <2>4. UpWire' = UpWire BY <1>1, <2>1 DEF UpWire
  <2>5. ASSUME NEW g, Asked(g) PROVE Asked(g)' BY <1>1, <1>2, <2>2, <2>5 DEF Asked
  <2>6. UpOK' BY <1>1, <1>2, <2>1, <2>4, <2>5 DEF UpOK, UpFits
  <2>7. DownOK' BY <1>2, <1>3, <2>2 DEF DownOK, Tally
  <2>8. Pending(UpWire, DownWire) => Pending(UpWire, DownWire)'
    BY <1>1, <1>3, <2>2, <2>4 DEF Pending, InStream, Reading, Quiet, LiveStreams
  <2>9. InStep' BY <1>1, <1>2, <1>3, <2>4, <2>8 DEF InStep
  <2>10. ReadsAreWhole' /\ StaysAligned' BY <2>2 DEF ReadsAreWhole, StaysAligned
  <2> QED BY <1>3, <1>4, <2>3, <2>6, <2>7, <2>9, <2>10 DEF CallInv
<1> QED BY <1>8, <1>9

\* The connection ends, with or without the bytes still on it.
LEMMA EndsStep ==
    ASSUME CallInv, open, ~ open', UNCHANGED <<client, nextId, toServer, frames, requests, taken, streams, shifted>>,
           toClient' \in {toClient, <<>>}
    PROVE  CallInv'
<1>1. CallerFits /\ TakenFits /\ StreamsFit /\ DownOK /\ InStep /\ ReadsAreWhole /\ StaysAligned
  BY DEF CallInv
<1>2. CallerFits' /\ TakenFits' /\ StreamsFit' /\ ReadsAreWhole' /\ StaysAligned' /\ UpOK'
  BY <1>1, StreamsKept DEF CallerFits, TakenFits, ReadsAreWhole, StaysAligned, UpOK, InStream, Reading
<1>3. CASE toClient' = <<>>
  <2>1. Cut' BY <1>3 DEF Cut
  <2> QED BY <1>2, <2>1 DEF CallInv, DownOK, InStep
<1>4. CASE toClient' = toClient
  <2>1. DownFits /\ Tally(DownWire) /\ ~ Cut BY <1>1 DEF DownOK, Cut
  <2>2. DownFits' /\ DownWire' = DownWire BY <1>4, <2>1, DownKept
  <2>3. Tally(DownWire)' BY <2>1, <2>2 DEF Tally, IsTaken
  <2>4. Pending(UpWire, DownWire) => Pending(UpWire, DownWire)'
    <3>1. UpWire' = UpWire BY DEF UpWire
    <3>2. ReplyDue(UpWire, DownWire) => ReplyDue(UpWire, DownWire)'
      BY <2>2, <3>1 DEF ReplyDue, Unanswered, Quiet
    <3>3. StreamDue(UpWire, DownWire) => StreamDue(UpWire, DownWire)'
      <4>1. CASE Unanswered(UpWire, DownWire)
        <5>1. DownWire = <<>> /\ Len(<<>>) = 0 BY <4>1 DEF Unanswered
        <5> QED BY <2>2, <5>1 DEF StreamDue
      <4>2. CASE ~ Unanswered(UpWire, DownWire) BY <2>2, <3>1, <4>2 DEF StreamDue
      <4> QED BY <4>1, <4>2
    <3> QED BY <2>2, <3>2, <3>3 DEF Pending, Reading, InStream, Quiet
  <2>5. InStep' BY <1>1, <2>1, <2>2, <2>4 DEF InStep
  <2> QED BY <1>2, <2>2, <2>3, <2>5 DEF CallInv, DownOK
<1> QED BY <1>3, <1>4

LEMMA FailsIs ==
    ASSUME client \in CallerRecord, NEW last \in Reports
    PROVE  /\ client.at = "recv" => Fails(last) = Over(last)
           /\ client.at # "recv" =>
                  /\ Fails(last) \in CallerRecord /\ Fails(last).at = "done" /\ Fails(last).id = client.id
                  /\ Fails(last).kind = client.kind /\ Fails(last).watermark = client.watermark
                  /\ Fails(last).last = last
    BY DEF Fails, CallerRecord

\* What a reader leaves of the caller when it breaks off.
BreaksOff ==
    /\ client' \in CallerRecord /\ client'.at \in {"idle", "unconnected", "done"}
    /\ client'.id = 0 \/ client'.at = "done"
    /\ client'.at = "done" => /\ client.at \notin {"recv", "drain"}
                              /\ client'.id = client.id /\ client'.kind = client.kind
    /\ client'.watermark => client.watermark

LEMMA BrokenIs ==
    ASSUME CallerFits, Reading, NEW last \in Reports, client' = Broken(last)
    PROVE  BreaksOff /\ client'.last = last
<1>1. client \in CallerRecord /\ client.at \in {"recv", "fill", "drain"}
  BY DEF CallerFits, Reading
<1>2. CASE client.at = "drain" BY <1>2, Resets DEF Broken, BreaksOff
<1>3. CASE client.at = "recv"
  <2>1. client' = Over(last) BY <1>1, <1>3, FailsIs DEF Broken
  <2>2. /\ client' \in CallerRecord /\ client'.at \in {"idle", "unconnected"} /\ client'.id = 0
        /\ client'.watermark = FALSE /\ client'.last = last
    BY <2>1, Resets
  <2> QED BY <2>2 DEF BreaksOff
<1>4. CASE client.at = "fill" BY <1>1, <1>4, FailsIs DEF Broken, BreaksOff
<1> QED BY <1>1, <1>2, <1>3, <1>4

LEMMA BrokenFits ==
    ASSUME CallerFits, Reading, BreaksOff, frames' = Boundary, nextId' = nextId
    PROVE  CallerFits' /\ (ReadsAreWhole' /\ \A w : Tally(w)')
           /\ (client'.id # 0 => client'.id = client.id /\ client'.kind = client.kind)
<1>1. client \in CallerRecord /\ nextId \in Nat \ {0} /\ client.id < nextId
  BY DEF CallerFits
<1>2. ~ client.watermark /\ client.at \in {"recv", "fill", "drain"}
  BY DEF CallerFits, Reading
<1>3. client' \in CallerRecord /\ client'.at \in {"idle", "unconnected", "done"} /\ ~ client'.watermark
  BY <1>2 DEF BreaksOff
<1>4. client'.id < nextId' BY <1>1 DEF BreaksOff
<1>5. client'.at = "done" => client'.kind \in {"read", "subscribe"} /\ client'.id # 0
  <2> SUFFICES ASSUME client'.at = "done" PROVE client'.kind \in {"read", "subscribe"} /\ client'.id # 0
    OBVIOUS
  <2>1. client.at = "fill" /\ client.kind \in {"read", "subscribe"} /\ client.id # 0
    BY <1>2 DEF BreaksOff, CallerFits, InStream
  <2> QED BY <2>1 DEF BreaksOff
<1>6. CallerFits' BY <1>1, <1>3, <1>4, <1>5 DEF CallerFits, InStream, Reading
<1>7. ReadsAreWhole' /\ \A w : Tally(w)' BY <1>3 DEF ReadsAreWhole, Tally
<1> QED BY <1>6, <1>7 DEF BreaksOff

LEMMA ClientAtEofStep ==
    ASSUME CallInv, ClientAtEof PROVE CallInv'
<1>1. /\ Reading /\ toClient = <<>> /\ ~ open /\ frames' = Boundary
      /\ UNCHANGED <<nextId, toServer, toClient, open, requests, taken, streams, shifted>>
      /\ client' = IF client.at = "fill" /\ client.kind = "subscribe" /\ AtEof(frames) = "eof"
                   THEN [client EXCEPT !.at = "done", !.last = "over"] ELSE Broken(AtEof(frames))
  BY DEF ClientAtEof
<1>2. CallerFits /\ TakenFits /\ StreamsFit /\ StaysAligned BY DEF CallInv
<1>3. BreaksOff /\ client'.last \in {"over", "torn", "eof"}
  <2>1. CASE client.at = "fill" /\ client' = [client EXCEPT !.at = "done", !.last = "over"]
    BY <1>2, <2>1 DEF CallerFits, CallerRecord, Reports, BreaksOff
  <2>2. CASE client' = Broken(AtEof(frames))
    BY <1>1, <1>2, <2>2, BrokenIs DEF AtEof, Reports
  <2> QED BY <1>1, <2>1, <2>2
<1>4. CallerFits' /\ ReadsAreWhole' BY <1>1, <1>2, <1>3, BrokenFits
<1>5. TakenFits' /\ StreamsFit' /\ UpOK' /\ Cut' /\ StaysAligned'
  BY <1>1, <1>2, <1>3, StreamsKept DEF TakenFits, UpOK, Cut, StaysAligned
<1> QED BY <1>4, <1>5 DEF CallInv, DownOK, InStep
\* The server answers: one more frame on the wire to the client.
LEMMA DownGrows ==
    ASSUME DownFits, NEW f \in WireFrame, Answers(f)', frames' = frames, toClient' = toClient \o Encode(f),
           \A id : IsTaken(id) => IsTaken(id)'
    PROVE  /\ DownFits' /\ DownWire \in Seq(Byte) /\ Joined(DownWire', DownWire, Encode(f))
           /\ Aligned(DownWire) => Aligned(DownWire')
<1>1. PICK w, v : w = DownWire /\ v = DownWire' OBVIOUS
<1>2. /\ Fits(frames, ClientMax) /\ toClient \in Seq(Byte) /\ Good(w)
      /\ \A i \in 1 .. Len(w) : Answers(w[i].of)
  BY <1>1 DEF DownFits
<1>3. w \in Seq(Byte) /\ toClient' \in Seq(Byte) /\ Joined(v, w, Encode(f))
  BY <1>1, <1>2, WireGrows DEF DownWire
<1>4. Good(v) /\ (Aligned(w) => Aligned(v)) BY <1>2, <1>3, GoodAppend
<1>5. ASSUME NEW i \in 1 .. Len(v) PROVE Answers(v[i].of)'
  <2>1. Whole(f) \in Nat /\ Len(w) \in Nat BY <1>3, EncodeIs
  <2>2. /\ Len(v) = Len(w) + Whole(f) /\ \A k \in 1 .. Len(w) : v[k] = w[k]
        /\ \A k \in 1 .. Whole(f) : v[Len(w) + k].of = f
    BY <1>3, AppendBytes
  <2>3. CASE i <= Len(w)
    <3>1. i \in 1 .. Len(w) BY <2>1, <2>2, <2>3
    <3>2. v[i] = w[i] /\ Answers(w[i].of) BY <1>2, <2>2, <3>1
    <3> QED BY <3>2 DEF Answers
  <2>4. CASE ~ i <= Len(w)
    <3>1. i - Len(w) \in 1 .. Whole(f) /\ Len(w) + (i - Len(w)) = i BY <2>1, <2>2, <2>4
    <3>2. v[i].of = f BY <2>2, <3>1
    <3> QED BY <3>2
  <2> QED BY <2>3, <2>4
<1>6. DownFits' BY <1>1, <1>2, <1>3, <1>4, <1>5 DEF DownFits
<1> QED BY <1>1, <1>3, <1>4, <1>6

\* A frame for another request does not touch the tally.
LEMMA TallyOther ==
    ASSUME NEW w \in Seq(Byte), NEW f \in WireFrame, NEW v, Joined(v, w, Encode(f)), Tally(w),
           client' = client, f.id # client.id, IsTaken(client.id)' => IsTaken(client.id),
           \A s \in streams : s.id = client.id => s \in streams'
    PROVE  Tally(v)'
<1>1. /\ Heads(v, client.id) = Heads(w, client.id) /\ Expected(v, client.id) = Expected(w, client.id)
      /\ \A i \in Heads(w, client.id) : v[i] = w[i]
  <2>1. PICK id : id = client.id OBVIOUS
  <2>2. f.id # id BY <2>1
  <2>3. /\ Heads(v, id) = Heads(w, id) \cup (IF f.id = id THEN {Len(w) + 1} ELSE {})
        /\ Expected(v, id) = Expected(w, id)
                                 \cup (IF f.id = id /\ f.kind \notin Terminal THEN {Len(w) + 1} ELSE {})
        /\ \A i \in Heads(w, id) : v[i] = w[i]
    BY HeadsAppend
  <2>4. Heads(v, id) = Heads(w, id) /\ Expected(v, id) = Expected(w, id) BY <2>2, <2>3
  <2> QED BY <2>1, <2>3, <2>4
<1>2. \A j : ClosedBy(w, client.id, j) => ClosedBy(v, client.id, j) BY <1>1 DEF ClosedBy
<1> QED BY <1>1, <1>2 DEF Tally

\* A step that leaves the caller and what was sent to it alone.
LEMMA DownSame ==
    ASSUME CallInv, UNCHANGED <<client, frames, toClient, open, taken, streams, shifted, nextId>>
    PROVE  /\ CallerFits' /\ TakenFits' /\ StreamsFit' /\ DownOK' /\ ReadsAreWhole' /\ StaysAligned'
           /\ UpWire' = UpWire => InStep'
<1>1. CallerFits /\ TakenFits /\ StreamsFit /\ DownOK /\ InStep /\ ReadsAreWhole /\ StaysAligned
  BY DEF CallInv
<1>2. CallerFits' /\ TakenFits' /\ StreamsFit' /\ ReadsAreWhole' /\ StaysAligned'
  BY <1>1, StreamsKept DEF CallerFits, TakenFits, ReadsAreWhole, StaysAligned, InStream, Reading
<1>3. DownWire' = DownWire /\ Cut' = Cut BY DEF DownWire, Cut
<1>4. Tally(DownWire) => Tally(DownWire)' BY <1>3 DEF Tally, IsTaken
<1>5. DownOK' BY <1>1, <1>3, <1>4, DownKept DEF DownOK
<1>6. ASSUME UpWire' = UpWire, Pending(UpWire, DownWire) PROVE Pending(UpWire, DownWire)'
  BY <1>3, <1>6 DEF Pending, Reading, InStream, ReplyDue, StreamDue, Unanswered, Quiet, LiveStreams
<1> QED BY <1>1, <1>2, <1>3, <1>5, <1>6 DEF InStep

LEMMA CallStutters ==
    ASSUME CallInv, UNCHANGED callVars PROVE CallInv'
<1>1. UNCHANGED <<client, nextId, toServer, toClient, open, frames, requests, taken, streams, shifted>>
  BY DEF callVars
<1>2. UpOK' /\ UpWire' = UpWire BY <1>1, UpKept DEF CallInv
<1> QED BY <1>1, <1>2, DownSame DEF CallInv

\* The first request on the wire, once it is whole, and what is left of the wire behind it.
LEMMA FirstRequest ==
    ASSUME TakenFits, UpFits, UpWire # <<>>, NEW f, f = UpWire[1].of, NEW r, r = Rest(UpWire, Whole(f)),
           requests' = Boundary, toServer' = r, taken' = Append(taken, f), UNCHANGED <<client, nextId>>
    PROVE  /\ f \in WireFrame /\ Asked(f) /\ UpWire' = r /\ UpFits' /\ TakenFits'
           /\ \A id : IsTaken(id)' <=> IsTaken(id) \/ id = f.id
           /\ \A id : IsTaken(id) => id < f.id
<1>1. PICK w, n : w = UpWire /\ n = Whole(f) OBVIOUS
<1>2. /\ Good(w) /\ Aligned(w) /\ InOrder(w) /\ \A i \in 1 .. Len(w) : Asked(w[i].of)
      /\ w # <<>> /\ f = w[1].of /\ r = Rest(w, n)
  BY <1>1 DEF UpFits
<1>3. /\ f \in WireFrame /\ n \in 1 .. Len(w) /\ w \in Seq(Byte) /\ Aligned(r)
      /\ \A k \in 1 .. n : w[k].of = f /\ Place(w[k]) = k
  BY <1>1, <1>2, GoodFront DEF Good
<1>4. PICK m \in Nat : m = Len(w) /\ n \in 1 .. m /\ n \in Nat BY <1>3
<1>5. r \in Seq(Byte) /\ Len(r) = m - n /\ \A i \in 1 .. m - n : r[i] = w[n + i]
  <2>1. n \in 0 .. Len(w) BY <1>4
  <2> QED BY <1>2, <1>3, <1>4, <2>1, CutBytes
<1>6. Good(r)
  <2>1. n \in 0 .. Len(w) BY <1>4
  <2> QED BY <1>2, <2>1, GoodCut
<1>7. UpWire' = r /\ Fits(Boundary, ServerMax) BY <1>5, WireBoundary DEF UpWire
<1>8. Asked(f) BY <1>2, <1>4
<1>9. /\ taken \in Seq(WireFrame) /\ \A i \in 1 .. Len(taken) : taken[i].id < f.id
      /\ f.id \in 1 .. nextId - 1 /\ f.id \in Nat
  BY <1>3, <1>8 DEF TakenFits, Asked, WireFrame
<1>10. /\ taken' \in Seq(WireFrame) /\ Len(taken') = Len(taken) + 1 /\ taken'[Len(taken) + 1] = f
       /\ \A i \in 1 .. Len(taken) : taken'[i] = taken[i]
  BY <1>3, <1>9
<1>11. TakenFits'
  <2>1. ASSUME NEW i \in 1 .. Len(taken') PROVE taken'[i].id \in 1 .. nextId' - 1
    <3>1. CASE i \in 1 .. Len(taken) BY <1>10, <3>1 DEF TakenFits
    <3>2. CASE i = Len(taken) + 1 BY <1>9, <1>10, <3>2
    <3> QED BY <1>10, <3>1, <3>2
  <2>2. ASSUME NEW i \in 1 .. Len(taken'), NEW j \in 1 .. Len(taken'), i < j
        PROVE  taken'[i].id < taken'[j].id
    <3>1. i \in 1 .. Len(taken) /\ taken'[i] = taken[i] BY <1>9, <1>10, <2>2
    <3>2. CASE j \in 1 .. Len(taken) BY <1>10, <2>2, <3>1, <3>2 DEF TakenFits
    <3>3. CASE j = Len(taken) + 1 BY <1>9, <1>10, <3>1, <3>3
    <3> QED BY <1>10, <3>2, <3>3
  <2> QED BY <1>10, <2>1, <2>2 DEF TakenFits
<1>12. ASSUME NEW id PROVE IsTaken(id)' <=> IsTaken(id) \/ id = f.id
  <2>1. ASSUME IsTaken(id) PROVE IsTaken(id)'
    <3>1. PICK i \in 1 .. Len(taken) : taken[i].id = id BY <2>1 DEF IsTaken
    <3>2. i \in 1 .. Len(taken') /\ taken'[i].id = id BY <1>9, <1>10, <3>1
    <3> QED BY <3>2 DEF IsTaken
  <2>2. ASSUME id = f.id PROVE IsTaken(id)'
    <3>1. Len(taken) + 1 \in 1 .. Len(taken') BY <1>9, <1>10
    <3> QED BY <1>10, <2>2, <3>1 DEF IsTaken
  <2>3. ASSUME IsTaken(id)' PROVE IsTaken(id) \/ id = f.id
    <3>1. PICK i \in 1 .. Len(taken') : taken'[i].id = id BY <2>3 DEF IsTaken
    <3>2. i \in 1 .. Len(taken) \/ i = Len(taken) + 1 BY <1>9, <1>10
    <3> QED BY <1>10, <3>1, <3>2 DEF IsTaken
  <2> QED BY <2>1, <2>2, <2>3
<1>13. \A id : IsTaken(id) => id < f.id BY <1>9 DEF IsTaken
<1>14. ASSUME NEW i \in 1 .. m - n PROVE Asked(r[i].of)' /\ f.id < r[i].of.id
  <2>6. PICK k \in Int : k = n + i BY <1>4
  <2>1. k \in 1 .. m /\ 1 < k /\ n < k /\ r[i] = w[k] BY <1>4, <1>5, <2>6
  <2>2. w[k] \in Byte /\ Asked(w[k].of) BY <1>2, <1>3, <1>4, <2>1
  <2>3. ~ (w[1].of = w[k].of /\ Place(w[k]) - Place(w[1]) = k - 1)
    <3> SUFFICES ASSUME w[1].of = w[k].of, Place(w[k]) - Place(w[1]) = k - 1 PROVE FALSE
      OBVIOUS
    <3>1. Place(w[k]) \in 1 .. n BY <1>1, <1>2, <2>2, PlaceOf
    <3>2. Place(w[1]) = 1 BY <1>3, <1>4
    <3> QED BY <1>4, <2>1, <3>1, <3>2
  <2>4. w[1].of.id < w[k].of.id
    <3>1. 1 \in 1 .. Len(w) /\ k \in 1 .. Len(w) BY <1>4, <2>1
    <3>2. w[1].of.id < w[k].of.id \/ (w[1].of = w[k].of /\ Place(w[k]) - Place(w[1]) = k - 1)
      BY <1>2, <2>1, <3>1 DEF InOrder
    <3> QED BY <2>3, <3>2
  <2>5. \A j \in 1 .. Len(taken') : taken'[j].id < w[k].of.id
    <3>1. ASSUME NEW j \in 1 .. Len(taken') PROVE taken'[j].id < w[k].of.id
      <4>1. CASE j \in 1 .. Len(taken) BY <1>10, <2>2, <4>1 DEF Asked
      <4>2. CASE j = Len(taken) + 1 BY <1>2, <1>10, <2>4, <4>2
      <4> QED BY <1>9, <1>10, <4>1, <4>2
    <3> QED BY <3>1
  <2> QED BY <1>2, <2>1, <2>2, <2>4, <2>5 DEF Asked
<1>15. InOrder(r)
  <2> SUFFICES ASSUME NEW i \in 1 .. Len(r), NEW j \in 1 .. Len(r), i < j
               PROVE  \/ r[i].of.id < r[j].of.id
                      \/ r[i].of = r[j].of /\ Place(r[j]) - Place(r[i]) = j - i
    BY DEF InOrder
  <2>1. PICK a \in 1 .. Len(w), b \in 1 .. Len(w) : a < b /\ b - a = j - i /\ r[i] = w[a] /\ r[j] = w[b]
    <3>1. n + i \in 1 .. Len(w) /\ n + j \in 1 .. Len(w) /\ n + i < n + j /\ (n + j) - (n + i) = j - i
      BY <1>4, <1>5
    <3> QED BY <1>5, <3>1
  <2>2. w[a].of.id < w[b].of.id \/ (w[a].of = w[b].of /\ Place(w[b]) - Place(w[a]) = b - a)
    BY <1>2, <2>1 DEF InOrder
  <2> QED BY <2>1, <2>2
<1>16. UpFits' BY <1>3, <1>5, <1>6, <1>7, <1>14, <1>15 DEF UpFits
<1> QED BY <1>3, <1>7, <1>8, <1>11, <1>12, <1>13, <1>16

\* While nothing has shifted, a request on the wire is the one the caller waits on, alone, and
\* nothing comes back yet.
LEMMA OnlyRequest ==
    ASSUME CallInv, open, shifted = "none", UpWire # <<>>
    PROVE  /\ UpWire = Encode(Frame(client.id, client.kind)) /\ DownWire = <<>> /\ LiveStreams = {}
           /\ Aligned(DownWire) /\ (client.at = "recv" \/ InStream)
           /\ UpWire[1].of = Frame(client.id, client.kind) /\ Frame(client.id, client.kind) \in WireFrame
           /\ Rest(UpWire, Whole(UpWire[1].of)) = <<>>
<1>1. Aligned(DownWire) /\ Pending(UpWire, DownWire) BY DEF CallInv, InStep, Cut
<1>2. client.at = "recv" \/ InStream BY <1>1 DEF Pending, Reading, InStream, Quiet
<1>3. Unanswered(UpWire, DownWire) BY <1>1, <1>2 DEF Pending, ReplyDue, StreamDue, Quiet
<1>4. Frame(client.id, client.kind) \in WireFrame
  <2>1. client.id \in Nat /\ client.kind \in RequestKinds
    BY <1>2 DEF CallInv, CallerFits, CallerRecord, RequestKinds
  <2> QED BY <2>1, FrameIs
<1>5. PICK g, u : g = Frame(client.id, client.kind) /\ u = UpWire OBVIOUS
<1>6. g \in WireFrame /\ u = Encode(g) BY <1>3, <1>4, <1>5 DEF Unanswered
<1>7. u[1].of = g /\ Rest(u, Whole(g)) = <<>> BY <1>6, EncodeBytes
<1> QED BY <1>1, <1>2, <1>3, <1>4, <1>5, <1>7 DEF Unanswered

\* The server has part of a request.
LEMMA RequestPartly ==
    ASSUME CallInv, open, NEW poller, NEW stream \in Seq(Byte), Fits(poller, ServerMax), Wire(poller, stream) = UpWire,
           requests' = poller, toServer' = stream,
           UNCHANGED <<client, nextId, frames, toClient, open, taken, streams, shifted>>
    PROVE  CallInv'
<1>1. UpWire' = UpWire BY DEF UpWire
<1>2. UpFits BY DEF CallInv, UpOK
<1>3. ASSUME NEW f, Asked(f) PROVE Asked(f)' BY <1>3 DEF Asked
<1>4. UpOK' BY <1>1, <1>2, <1>3 DEF UpOK, UpFits
<1> QED BY <1>1, <1>4, DownSame DEF CallInv

\* The server refuses a frame and closes.
LEMMA RequestRefused ==
    ASSUME CallInv, open, UpWire # <<>>, UpWire[1].of.size > ServerMax, ~ open',
           toClient' = toClient \o Encode(Frame(0, "error")),
           UNCHANGED <<client, nextId, frames, taken, streams, shifted>>
    PROVE  CallInv'
<1>1. CallerFits /\ TakenFits /\ StreamsFit /\ DownOK /\ InStep /\ ReadsAreWhole /\ StaysAligned
  BY DEF CallInv
<1>2. CallerFits' /\ TakenFits' /\ StreamsFit' /\ ReadsAreWhole' /\ StaysAligned' /\ UpOK'
  BY <1>1, StreamsKept DEF CallerFits, TakenFits, ReadsAreWhole, StaysAligned, InStream, Reading, UpOK
<1>3. PICK g : g = Frame(0, "error") OBVIOUS
<1>4. g \in WireFrame /\ g.id = 0 /\ g.kind = "error" /\ g = Frame(g.id, g.kind) /\ Answers(g)'
  <2>1. 0 \in Nat /\ "error" \in RequestKinds \cup AnswerKinds /\ "error" \in AnswerKinds
    BY DEF AnswerKinds
  <2>2. g \in WireFrame /\ g.id = 0 /\ g.kind = "error" /\ g = Frame(g.id, g.kind)
    BY <1>3, <2>1, FrameIs
  <2> QED BY <2>1, <2>2 DEF Answers
<1>5. DownFits /\ Tally(DownWire) /\ \A id : IsTaken(id)' <=> IsTaken(id)
  BY <1>1 DEF DownOK, Cut, IsTaken
<1>6. /\ DownFits' /\ DownWire \in Seq(Byte) /\ Joined(DownWire', DownWire, Encode(g))
      /\ Aligned(DownWire) => Aligned(DownWire')
  BY <1>3, <1>4, <1>5, DownGrows
<1>7. Tally(DownWire)'
  <2> SUFFICES ASSUME client.kind = "read", client.at \in {"stream", "fill"} PROVE Tally(DownWire)'
    BY DEF Tally
  <2>1. g.id # client.id BY <1>1, <1>4 DEF CallerFits, InStream
  <2>2. PICK w, v : w = DownWire /\ v = DownWire' OBVIOUS
  <2>3. Tally(v)' BY <1>4, <1>5, <1>6, <2>1, <2>2, TallyOther
  <2> QED BY <2>2, <2>3
<1>8. ASSUME shifted = "none" PROVE Aligned(DownWire)' /\ Pending(UpWire, DownWire)'
  <2>1. /\ DownWire = <<>> /\ Aligned(DownWire) /\ (client.at = "recv" \/ InStream)
        /\ UpWire[1].of = Frame(client.id, client.kind)
    BY <1>8, OnlyRequest
  <2>2. client.at = "recv"
    <3> SUFFICES ASSUME InStream PROVE FALSE
      BY <2>1
    <3>1. client.kind \in {"read", "subscribe"} /\ client.id \in Nat
      BY <1>1 DEF CallerFits, CallerRecord
    <3>2. UpWire[1].of \in WireFrame /\ UpWire[1].of.size <= ServerMax
      BY <2>1, <3>1, FrameIs DEF RequestKinds
    <3> QED BY <3>2, BlockingClientAssumption DEF WireFrame
  <2>3. DownWire' = Encode(g)
    <3>1. Encode(g) \in Seq(Byte) BY <1>4, EncodeIs
    <3> QED BY <1>6, <2>1, <3>1 DEF Joined
  <2>4. ReplyDue(UpWire, DownWire)' BY <1>3, <2>3 DEF ReplyDue, Quiet
  <2> QED BY <1>6, <2>1, <2>2, <2>4 DEF Pending, InStream, Reading
<1>9. DownOK' /\ InStep' BY <1>6, <1>7, <1>8 DEF DownOK, InStep
<1> QED BY <1>2, <1>9 DEF CallInv

\* A request taken: a single one is answered at once, a stream begins.
LEMMA SingleTaken ==
    ASSUME CallInv, open, UpWire # <<>>, NEW f, f = UpWire[1].of, f.kind \in Single,
           requests' = Boundary, toServer' = Rest(UpWire, Whole(f)), taken' = Append(taken, f),
           NEW what \in {f.kind, "error"}, toClient' = toClient \o Encode(Frame(f.id, what)),
           UNCHANGED <<client, nextId, frames, open, streams, shifted>>
    PROVE  CallInv'
<1>1. CallerFits /\ TakenFits /\ StreamsFit /\ UpFits /\ DownOK /\ InStep /\ ReadsAreWhole /\ StaysAligned
  BY DEF CallInv, UpOK
<1>2. PICK r : r = Rest(UpWire, Whole(f)) OBVIOUS
<1>3. /\ f \in WireFrame /\ Asked(f) /\ UpWire' = r /\ UpFits' /\ TakenFits'
      /\ \A id : IsTaken(id)' <=> IsTaken(id) \/ id = f.id
  BY <1>1, <1>2, FirstRequest
<1>4. CallerFits' /\ StreamsFit' /\ ReadsAreWhole' /\ StaysAligned' /\ UpOK'
  <2>1. StreamsFit' BY <1>1, <1>3 DEF StreamsFit
  <2> QED BY <1>1, <1>3, <2>1 DEF CallerFits, ReadsAreWhole, StaysAligned, InStream, Reading, UpOK
<1>5. PICK g : g = Frame(f.id, what) OBVIOUS
<1>6. g \in WireFrame /\ g.id = f.id /\ g.id # 0 /\ Answers(g)'
  <2>1. f.id \in Nat /\ f.id # 0 /\ what \in RequestKinds \cup AnswerKinds /\ what \in AnswerKinds
    BY <1>3 DEF WireFrame, Asked, AnswerKinds
  <2>2. g \in WireFrame /\ g.id = f.id /\ g.kind = what /\ g = Frame(g.id, g.kind)
    BY <1>5, <2>1, FrameIs
  <2> QED BY <1>3, <2>1, <2>2 DEF Answers
<1>7. DownFits /\ Tally(DownWire) BY <1>1 DEF DownOK, Cut
<1>8. /\ DownFits' /\ DownWire \in Seq(Byte) /\ Joined(DownWire', DownWire, Encode(g))
      /\ Aligned(DownWire) => Aligned(DownWire')
  BY <1>3, <1>5, <1>6, <1>7, DownGrows
<1>9. Tally(DownWire)'
  <2> SUFFICES ASSUME client.kind = "read", client.at \in {"stream", "fill"} PROVE Tally(DownWire)'
    BY DEF Tally
  <2>1. g.id # client.id BY <1>3, <1>6 DEF Asked, Single
  <2>2. PICK w, v : w = DownWire /\ v = DownWire' OBVIOUS
  <2>3. Tally(v)' BY <1>3, <1>6, <1>7, <1>8, <2>1, <2>2, TallyOther
  <2> QED BY <2>2, <2>3
<1>10. ASSUME shifted = "none" PROVE Aligned(DownWire)' /\ Pending(UpWire, DownWire)'
  <2>1. /\ DownWire = <<>> /\ Aligned(DownWire) /\ (client.at = "recv" \/ InStream)
        /\ f = Frame(client.id, client.kind) /\ Frame(client.id, client.kind) \in WireFrame /\ r = <<>>
        /\ LiveStreams = {}
    BY <1>2, <1>10, OnlyRequest
  <2>2. f.id = client.id /\ f.kind = client.kind BY <2>1 DEF Frame
  <2>3. client.at = "recv" BY <1>1, <2>1, <2>2 DEF CallerFits, Single
  <2>4. DownWire' = Encode(g)
    <3>1. Encode(g) \in Seq(Byte) BY <1>6, EncodeIs
    <3> QED BY <1>8, <2>1, <3>1 DEF Joined
  <2>5. Quiet(UpWire)' BY <1>3, <2>1 DEF Quiet, LiveStreams
  <2>6. ReplyDue(UpWire, DownWire)' BY <1>5, <2>2, <2>4, <2>5 DEF ReplyDue
  <2> QED BY <1>8, <2>1, <2>3, <2>6 DEF Pending, InStream, Reading
<1>11. DownOK' /\ InStep' BY <1>8, <1>9, <1>10 DEF DownOK, InStep
<1> QED BY <1>3, <1>4, <1>11 DEF CallInv

\* The server takes the request for a stream.
LEMMA StreamTaken ==
    ASSUME CallInv, open, UpWire # <<>>, NEW f, f = UpWire[1].of, f.kind \notin Single,
           requests' = Boundary, toServer' = Rest(UpWire, Whole(f)), taken' = Append(taken, f),
           NEW s, s = [id |-> f.id, kind |-> f.kind, sent |-> 0, live |-> TRUE],
           streams' = IF f.id = 0 THEN streams ELSE streams \cup {s},
           UNCHANGED <<client, nextId, frames, toClient, open, shifted>>
    PROVE  CallInv'
<1>1. CallerFits /\ TakenFits /\ StreamsFit /\ UpFits /\ DownOK /\ InStep /\ ReadsAreWhole /\ StaysAligned
  BY DEF CallInv, UpOK
<1>2. PICK r : r = Rest(UpWire, Whole(f)) OBVIOUS
<1>3. /\ f \in WireFrame /\ Asked(f) /\ UpWire' = r /\ UpFits' /\ TakenFits'
      /\ \A id : IsTaken(id)' <=> IsTaken(id) \/ id = f.id
      /\ \A id : IsTaken(id) => id < f.id
  BY <1>1, <1>2, FirstRequest
<1>4. f.id \in Nat /\ f.id # 0 /\ f.kind \in {"read", "subscribe"} /\ ~ IsTaken(f.id)
  <2>1. f.id \in Nat /\ f.id # 0 /\ f.kind \in RequestKinds BY <1>3 DEF WireFrame, Asked
  <2> QED BY <1>3, <2>1 DEF RequestKinds
<1>5. /\ s \in StreamRecord /\ s.id = f.id /\ s.kind = f.kind /\ s.sent = 0 /\ s.live = TRUE
      /\ streams' = streams \cup {s}
  BY <1>4 DEF StreamRecord, RequestKinds
<1>6. StreamsFit'
  <2>1. \A t \in streams : IsTaken(t.id) /\ t.id # s.id BY <1>1, <1>4, <1>5 DEF StreamsFit
  <2>2. \A t, u \in streams' : t.id = u.id => t = u BY <1>1, <1>5, <2>1 DEF StreamsFit
  <2>3. \A t \in streams' : IsTaken(t.id)' BY <1>3, <1>5, <2>1
  <2> QED BY <1>1, <1>5, <2>2, <2>3 DEF StreamsFit
<1>7. CallerFits' /\ ReadsAreWhole' /\ StaysAligned' /\ UpOK'
  <2>1. ReadsAreWhole' BY <1>1, <1>5 DEF ReadsAreWhole
  <2> QED BY <1>1, <1>3, <2>1 DEF CallerFits, StaysAligned, InStream, Reading, UpOK
<1>8. DownFits /\ Tally(DownWire) /\ DownWire' = DownWire
  BY <1>1 DEF DownOK, Cut, DownWire
<1>9. DownFits'
  <2>1. ASSUME NEW g, Answers(g) PROVE Answers(g)' BY <1>3, <2>1 DEF Answers
  <2> QED BY <1>8, <2>1 DEF DownFits
<1>10. Tally(DownWire)'
  <2> SUFFICES ASSUME client.kind = "read", client.at \in {"stream", "fill"} PROVE Tally(DownWire)'
    BY DEF Tally
  <2>1. CASE f.id # client.id
    <3>1. IsTaken(client.id)' => IsTaken(client.id) BY <1>3, <2>1
    <3> QED BY <1>5, <1>8, <3>1 DEF Tally
  <2>2. CASE f.id = client.id
    <3>1. client.events = 0 /\ client.buffered = 0
      <4>1. \A t \in streams : t.id # client.id BY <1>1, <1>4, <2>2 DEF StreamsFit
      <4> QED BY <1>8, <4>1 DEF Tally
    <3>2. Heads(DownWire, client.id) = {} /\ Expected(DownWire, client.id) = {}
      <4>1. \A i \in 1 .. Len(DownWire) : DownWire[i].of.id # client.id
        BY <1>4, <1>8, <2>2 DEF DownFits, Answers
      <4> QED BY <4>1 DEF Heads, Expected
    <3>3. Cardinality(Expected(DownWire, client.id)) = 0 BY <3>2, FS_EmptySet
    <3>4. s.sent = client.events + client.buffered + Cardinality(Expected(DownWire, client.id))
      BY <1>5, <3>1, <3>3
    <3> QED BY <1>5, <1>8, <2>2, <3>2, <3>4 DEF Tally
  <2> QED BY <2>1, <2>2
<1>11. ASSUME shifted = "none" PROVE Aligned(DownWire)' /\ Pending(UpWire, DownWire)'
  <2>1. /\ DownWire = <<>> /\ Aligned(DownWire) /\ (client.at = "recv" \/ InStream)
        /\ f = Frame(client.id, client.kind) /\ Frame(client.id, client.kind) \in WireFrame /\ r = <<>>
        /\ LiveStreams = {}
    BY <1>2, <1>11, OnlyRequest
  <2>2. f.id = client.id /\ f.kind = client.kind BY <2>1 DEF Frame
  <2>3. InStream BY <1>1, <1>4, <2>1, <2>2 DEF CallerFits, Single
  <2>4. LiveStreams' = {s} BY <1>5, <2>1 DEF LiveStreams
  <2>5. Len(<<>>) = 0 OBVIOUS
  <2>6. StreamDue(UpWire, DownWire)'
    <3>1. open' /\ UpWire' = <<>> /\ DownWire' = <<>> BY <1>3, <1>8, <2>1
    <3>2. s \in streams' /\ s.id = client'.id /\ s.kind = client'.kind BY <1>5, <2>2
    <3>3. \A i \in 1 .. Len(DownWire') : FALSE BY <2>5, <3>1
    <3> QED BY <2>4, <3>1, <3>2, <3>3 DEF StreamDue
  <2> QED BY <1>8, <2>1, <2>3, <2>6 DEF Pending, InStream, Reading
<1>12. DownOK' /\ InStep' BY <1>8, <1>9, <1>10, <1>11 DEF DownOK, InStep
<1> QED BY <1>3, <1>6, <1>7, <1>12 DEF CallInv

LEMMA ServerPollsStep ==
    ASSUME CallInv, ServerPolls PROVE CallInv'
<1>1. open /\ toServer # <<>> /\ UNCHANGED <<client, nextId, frames, shifted>>
  BY DEF ServerPolls
<1>2. PICK n, polled :
          /\ n \in {1, Wants(requests)} \cap 1 .. Len(toServer)
          /\ polled \in Poll(requests, SubSeq(toServer, 1, n), ServerMax)
          /\ toServer' = SubSeq(toServer, n + 1, Len(toServer))
          /\ requests' = KeepsPartial(polled)
          /\ \/ /\ polled.outcome = "progress"
                /\ UNCHANGED <<toClient, open, taken, streams>>
             \/ /\ polled.outcome = "frame"
                /\ LET f == polled.frame
                   IN /\ taken' = Append(taken, f)
                      /\ IF f.kind \in Single
                         THEN /\ \E what \in {f.kind, "error"} :
                                      toClient' = toClient \o Encode(Frame(f.id, what))
                              /\ UNCHANGED streams
                         ELSE /\ streams' = IF f.id = 0 THEN streams
                                            ELSE streams \cup {[id |-> f.id, kind |-> f.kind, sent |-> 0, live |-> TRUE]}
                              /\ UNCHANGED toClient
                /\ UNCHANGED open
             \/ /\ polled.outcome \in {"toolarge", "parse"}
                /\ toClient' = toClient \o Encode(Frame(0, "error"))
                /\ open' = FALSE
                /\ UNCHANGED <<taken, streams>>
  BY DEF ServerPolls
<1>3. PICK r : r = Rest(toServer, n) OBVIOUS
<1>4. toServer' = r /\ requests' = polled.reader BY <1>2, <1>3 DEF Rest, KeepsPartial
<1>5. UpFits /\ ServerMax \in Nat BY <1>1, BlockingClientAssumption DEF CallInv, UpOK
<1>6. PICK w : w = UpWire OBVIOUS
<1>7. Fits(requests, ServerMax) /\ toServer \in Seq(Byte) /\ w = Wire(requests, toServer) /\ Good(w) /\ Aligned(w)
  BY <1>5, <1>6 DEF UpFits, UpWire
<1>8. /\ r \in Seq(Byte)
      /\ \/ TakesFrame(polled, w, r, ServerMax) \/ TakesGarbage(polled, w, r)
         \/ GivesUp(polled, w, r, ServerMax) \/ KeepsReading(polled, w, r, ServerMax)
  BY <1>2, <1>3, <1>5, <1>7, PollIs
<1>9. w # <<>>
  <2>1. PICK p \in Seq(Byte), b \in Seq(Byte) : p = requests.prefix /\ b = requests.body
    BY <1>7 DEF Fits
  <2>2. w = p \o b \o toServer BY <1>7, <2>1 DEF Wire, Held
  <2> QED BY <1>1, <1>7, <2>1, <2>2
<1>10. CASE KeepsReading(polled, w, r, ServerMax)
  <2>1. /\ polled.outcome = "progress" /\ Fits(polled.reader, ServerMax) /\ Wire(polled.reader, r) = UpWire
    BY <1>6, <1>10 DEF KeepsReading
  <2>2. UNCHANGED <<toClient, open, taken, streams>> BY <1>2, <2>1
  <2> QED BY <1>1, <1>4, <1>8, <2>1, <2>2, RequestPartly
<1>11. CASE GivesUp(polled, w, r, ServerMax)
  <2>1. polled.outcome = "toolarge" /\ UpWire[1].of.size > ServerMax
    BY <1>6, <1>7, <1>11 DEF GivesUp
  <2>2. toClient' = toClient \o Encode(Frame(0, "error")) /\ ~ open' /\ UNCHANGED <<taken, streams>>
    BY <1>2, <2>1
  <2> QED BY <1>1, <1>6, <1>9, <2>1, <2>2, RequestRefused
<1>12. CASE TakesFrame(polled, w, r, ServerMax)
  <2>1. PICK f : f = polled.frame OBVIOUS
  <2>2. polled.outcome = "frame" /\ requests' = Boundary /\ f = UpWire[1].of /\ toServer' = Rest(UpWire, Whole(f))
    BY <1>4, <1>6, <1>12, <2>1 DEF TakesFrame
  <2>3. /\ taken' = Append(taken, f) /\ UNCHANGED open
        /\ IF f.kind \in Single
           THEN /\ \E what \in {f.kind, "error"} : toClient' = toClient \o Encode(Frame(f.id, what))
                /\ UNCHANGED streams
           ELSE /\ streams' = IF f.id = 0 THEN streams
                              ELSE streams \cup {[id |-> f.id, kind |-> f.kind, sent |-> 0, live |-> TRUE]}
                /\ UNCHANGED toClient
    BY <1>2, <2>1, <2>2
  <2>4. CASE f.kind \in Single
    <3>1. PICK what \in {f.kind, "error"} : toClient' = toClient \o Encode(Frame(f.id, what))
      BY <2>3, <2>4
    <3>2. UNCHANGED <<client, nextId, frames, open, streams, shifted>> BY <1>1, <2>3, <2>4
    <3> QED BY <1>1, <1>6, <1>9, <2>2, <2>3, <2>4, <3>1, <3>2, SingleTaken
  <2>5. CASE f.kind \notin Single
    <3>1. PICK s : s = [id |-> f.id, kind |-> f.kind, sent |-> 0, live |-> TRUE] OBVIOUS
    <3>2. /\ streams' = IF f.id = 0 THEN streams ELSE streams \cup {s}
          /\ UNCHANGED <<client, nextId, frames, toClient, open, shifted>>
      BY <1>1, <2>3, <2>5, <3>1
    <3> QED BY <1>1, <1>6, <1>9, <2>2, <2>3, <2>5, <3>1, <3>2, StreamTaken
  <2> QED BY <2>4, <2>5
<1>13. CASE TakesGarbage(polled, w, r) BY <1>7, <1>13 DEF TakesGarbage
<1> QED BY <1>8, <1>10, <1>11, <1>12, <1>13

LEMMA ServerSendsStep ==
    ASSUME CallInv, NEW s \in streams, ServerSends(s) PROVE CallInv'
<1>1. open /\ s.live /\ UNCHANGED <<client, nextId, toServer, open, frames, requests, taken, shifted>>
  BY DEF ServerSends
<1>2. PICK what \in {"events", "error", "end", "caughtup", "bad", "huge"} :
          /\ what = "end" => s.kind = "read"
          /\ what = "caughtup" => s.kind = "subscribe"
          /\ toClient' = toClient \o Encode(Frame(s.id, what))
          /\ streams' = (streams \ {s}) \cup {[s EXCEPT
                !.sent = IF what \in {"end", "error"} THEN @ ELSE @ + 1,
                !.live = what \notin {"end", "error"}]}
  BY DEF ServerSends
<1>3. PICK t : t = [s EXCEPT !.sent = IF what \in {"end", "error"} THEN @ ELSE @ + 1,
                             !.live = what \notin {"end", "error"}]
  OBVIOUS
<1>4. /\ CallerFits /\ TakenFits /\ StreamsFit /\ UpOK /\ DownOK /\ InStep /\ ReadsAreWhole /\ StaysAligned
      /\ client \in CallerRecord
  BY DEF CallInv, CallerFits
<1>5. s \in StreamRecord /\ IsTaken(s.id) /\ s.id \in Nat /\ s.id # 0 /\ s.sent \in Nat
  BY <1>4 DEF StreamsFit, StreamRecord
<1>6. /\ t \in StreamRecord /\ t.id = s.id /\ t.kind = s.kind
      /\ t.live = (what \notin Terminal)
      /\ t.sent = IF what \in Terminal THEN s.sent ELSE s.sent + 1
      /\ streams' = (streams \ {s}) \cup {t}
  <2>1. PICK n \in Nat : n = IF what \in {"end", "error"} THEN s.sent ELSE s.sent + 1
    BY <1>5
  <2>2. t = [s EXCEPT !.sent = n, !.live = what \notin {"end", "error"}] BY <1>3, <2>1
  <2>3. t \in StreamRecord /\ t.id = s.id /\ t.kind = s.kind /\ t.sent = n
    BY <1>5, <2>2 DEF StreamRecord
  <2>4. t.live = (what \notin {"end", "error"}) BY <1>5, <2>2 DEF StreamRecord
  <2> QED BY <1>2, <1>3, <2>1, <2>3, <2>4 DEF Terminal
<1>7. \A id : IsTaken(id)' <=> IsTaken(id) BY <1>1 DEF IsTaken
<1>8. StreamsFit'
  <2>1. \A u \in streams : u.id = s.id => u = s BY <1>4 DEF StreamsFit
  <2>2. \A u, v \in streams' : u.id = v.id => u = v BY <1>4, <1>6, <2>1 DEF StreamsFit
  <2>3. \A u \in streams' : IsTaken(u.id)' BY <1>4, <1>5, <1>6, <1>7 DEF StreamsFit
  <2> QED BY <1>4, <1>6, <2>2, <2>3 DEF StreamsFit
<1>9. UpOK' /\ UpWire' = UpWire BY <1>1, <1>4, UpKept
<1>10. CallerFits' /\ TakenFits' /\ ReadsAreWhole' /\ StaysAligned'
  <2>1. ReadsAreWhole' BY <1>1, <1>4, <1>6 DEF ReadsAreWhole
  <2> QED BY <1>1, <1>4, <2>1 DEF CallerFits, TakenFits, StaysAligned, InStream, Reading
<1>11. PICK g : g = Frame(s.id, what) OBVIOUS
<1>12. g \in WireFrame /\ g.id = s.id /\ g.kind = what /\ Answers(g)'
  <2>1. what \in RequestKinds \cup AnswerKinds /\ what \in AnswerKinds BY DEF AnswerKinds
  <2>2. g \in WireFrame /\ g.id = s.id /\ g.kind = what /\ g = Frame(g.id, g.kind)
    BY <1>5, <1>11, <2>1, FrameIs
  <2> QED BY <1>5, <1>7, <2>1, <2>2 DEF Answers
<1>13. DownFits /\ Tally(DownWire) BY <1>1, <1>4 DEF DownOK, Cut
<1>14. PICK w, v : w = DownWire /\ v = DownWire' OBVIOUS
<1>15. DownFits' /\ w \in Seq(Byte) /\ Joined(v, w, Encode(g)) /\ (Aligned(w) => Aligned(v))
  BY <1>1, <1>2, <1>7, <1>11, <1>12, <1>13, <1>14, DownGrows
<1>16. Tally(DownWire)'
  <2> SUFFICES ASSUME client.kind = "read", client.at \in {"stream", "fill"} PROVE Tally(DownWire)'
    BY <1>1 DEF Tally
  <2>1. CASE s.id # client.id
    <3>1. \A u \in streams : u.id = client.id => u \in streams' BY <1>6, <2>1
    <3>2. Tally(v)' BY <1>1, <1>7, <1>12, <1>13, <1>14, <1>15, <2>1, <3>1, TallyOther
    <3> QED BY <1>14, <3>2
  <2>2. CASE s.id = client.id
    <3>1. PICK id \in Nat : id = client.id /\ g.id = id BY <1>5, <1>12, <2>2
    <3>2. /\ s.sent = client.events + client.buffered + Cardinality(Expected(w, id))
          /\ Heads(w, id) = Expected(w, id)
      <4>1. PICK u \in streams :
              /\ u.id = client.id
              /\ u.sent = client.events + client.buffered + Cardinality(Expected(w, client.id))
              /\ IF u.live THEN Heads(w, client.id) = Expected(w, client.id)
                 ELSE \E j \in Heads(w, client.id) : ClosedBy(w, client.id, j)
        BY <1>5, <1>13, <1>14, <2>2 DEF Tally
      <4>2. u = s BY <1>4, <2>2, <4>1 DEF StreamsFit
      <4> QED BY <1>1, <3>1, <4>1, <4>2
    <3>3. PICK m \in Nat : m = Len(w) BY <1>15
    <3>4. /\ Heads(v, id) = Heads(w, id) \cup {m + 1}
          /\ Expected(v, id) = Expected(w, id) \cup (IF g.kind \notin Terminal THEN {m + 1} ELSE {})
          /\ v[m + 1].of = g /\ \A i \in Heads(w, id) : v[i] = w[i] /\ i < m + 1
      <4>1. /\ Heads(v, id) = Heads(w, id) \cup (IF g.id = id THEN {Len(w) + 1} ELSE {})
            /\ Expected(v, id) = Expected(w, id)
                               \cup (IF g.id = id /\ g.kind \notin Terminal THEN {Len(w) + 1} ELSE {})
            /\ v[Len(w) + 1].of = g /\ \A i \in Heads(w, id) : v[i] = w[i] /\ i < Len(w) + 1
        BY <1>12, <1>15, HeadsAppend
      <4> QED BY <3>1, <3>3, <4>1
    <3>5. /\ IsFiniteSet(Expected(w, id)) /\ Cardinality(Expected(w, id)) \in Nat
          /\ Expected(w, id) \subseteq 1 .. m
      <4>1. /\ IsFiniteSet(Expected(w, id)) /\ Cardinality(Expected(w, id)) \in Nat
            /\ Expected(w, id) \subseteq Heads(w, id) /\ Heads(w, id) \subseteq 1 .. Len(w)
        BY <1>15, HeadsFinite
      <4> QED BY <3>3, <4>1
    <3>6. client.events \in Nat /\ client.buffered \in Nat BY <1>4 DEF CallerRecord
    <3>7. CASE what \notin Terminal
      <4>1. m + 1 \notin Expected(w, id) BY <3>3, <3>5
      <4>2. Expected(v, id) = Expected(w, id) \cup {m + 1} /\ Heads(v, id) = Expected(v, id)
        BY <1>12, <3>2, <3>4, <3>7
      <4>3. Cardinality(Expected(v, id)) = Cardinality(Expected(w, id)) + 1
        <5>1. PICK S, c : S = Expected(w, id) /\ c = m + 1 OBVIOUS
        <5>2. Cardinality(S \cup {c}) = Cardinality(S) + 1
          <6>1. IsFiniteSet(S) /\ c \notin S BY <3>5, <4>1, <5>1
          <6> QED BY ONLY <6>1, FS_AddElement
        <5> QED BY <4>2, <5>1, <5>2
      <4>4. t.live /\ t.sent = client.events + client.buffered + Cardinality(Expected(v, id))
        <5>1. t.live BY <1>6, <3>7
        <5>2. t.sent = s.sent + 1 BY <1>6, <3>7
        <5>3. PICK c \in Nat : c = Cardinality(Expected(w, id)) /\ Cardinality(Expected(v, id)) = c + 1
          BY <3>5, <4>3
        <5>4. s.sent + 1 = client.events + client.buffered + (c + 1) BY <3>2, <3>6, <5>3
        <5> QED BY <5>1, <5>2, <5>3, <5>4
      <4>5. t \in streams' /\ t.id = client.id BY <1>6, <2>2
      <4> QED BY <1>1, <1>14, <3>1, <4>2, <4>4, <4>5 DEF Tally
    <3>8. CASE what \in Terminal
      <4>1. Expected(v, id) = Expected(w, id) BY <1>12, <3>4, <3>8
      <4>2. ~ t.live /\ t.sent = client.events + client.buffered + Cardinality(Expected(v, id))
        BY <1>6, <3>2, <3>8, <4>1
      <4>3. ClosedBy(v, id, m + 1) /\ m + 1 \in Heads(v, id)
        <5>1. m + 1 \in Heads(v, id) /\ v[m + 1].of.kind \in Terminal BY <1>12, <3>4, <3>8
        <5>2. \A i \in Heads(v, id) : i <= m + 1 /\ (i < m + 1 => i \in Expected(v, id))
          BY <3>2, <3>3, <3>4, <3>5, <4>1
        <5> QED BY <5>1, <5>2 DEF ClosedBy
      <4>4. t \in streams' /\ t.id = client.id BY <1>6, <2>2
      <4> QED BY <1>1, <1>14, <3>1, <4>2, <4>3, <4>4 DEF Tally
    <3> QED BY <3>7, <3>8
  <2> QED BY <2>1, <2>2
<1>17. ASSUME shifted = "none" PROVE Aligned(v) /\ Pending(UpWire, DownWire)'
  <2>1. Aligned(w) /\ Pending(UpWire, w) BY <1>1, <1>4, <1>14, <1>17 DEF InStep, Cut
  <2>2. s \in LiveStreams BY <1>1 DEF LiveStreams
  <2>3. InStream /\ client.at # "recv"
    BY <1>1, <2>1, <2>2 DEF Pending, ReplyDue, Unanswered, Quiet, Reading, InStream
  <2>4. /\ UpWire = <<>> /\ LiveStreams = {s} /\ s.id = client.id /\ s.kind = client.kind
        /\ \A i \in 1 .. Len(w) : StreamFrame(w[i].of, client.id, client.kind) /\ w[i].of.kind \notin Terminal
    BY <1>1, <2>1, <2>2, <2>3 DEF Pending, StreamDue, Unanswered
  <2>5. StreamFrame(g, client.id, client.kind)
    BY <1>2, <1>12, <2>4 DEF StreamFrame, AnswerKinds, Single
  <2>6. PICK m \in Nat, l \in Nat : m = Len(w) /\ l = Whole(g) /\ 1 < l
    BY <1>12, <1>15, EncodeIs
  <2>7. /\ Len(v) = m + l /\ \A i \in 1 .. m : v[i] = w[i]
        /\ \A i \in 1 .. l : v[m + i].of = g /\ Place(v[m + i]) = i
    <3>1. /\ Len(v) = Len(w) + Whole(g) /\ \A i \in 1 .. Len(w) : v[i] = w[i]
          /\ \A i \in 1 .. Whole(g) : v[Len(w) + i].of = g /\ Place(v[Len(w) + i]) = i
      BY ONLY <1>12, <1>15, AppendBytes
    <3> QED BY <2>6, <3>1
  <2>8. ASSUME NEW i \in 1 .. Len(v)
        PROVE  \/ i \in 1 .. m /\ v[i] = w[i]
               \/ v[i].of = g /\ Place(v[i]) = i - m /\ EndsWire(v, i)
    <3>1. CASE i <= m
      <4>1. i \in 1 .. m BY <3>1
      <4> QED BY <2>7, <4>1
    <3>2. CASE ~ i <= m
      <4>1. i - m \in 1 .. l /\ m + (i - m) = i BY <2>6, <2>7, <3>2
      <4>2. v[i].of = g /\ Place(v[i]) = i - m BY <2>7, <4>1
      <4>3. Around(v, i, l) = m + l BY <2>6, <4>1, <4>2 DEF Around
      <4> QED BY <2>6, <2>7, <4>2, <4>3 DEF EndsWire
    <3> QED BY <3>1, <3>2
  <2>9. \A i \in 1 .. Len(v) : /\ StreamFrame(v[i].of, client.id, client.kind)
                               /\ v[i].of.kind \in Terminal => EndsWire(v, i)
    BY <2>4, <2>5, <2>6, <2>8
  <2>10. CASE what \notin Terminal
    <3>1. LiveStreams' = {t} /\ t \in streams' /\ t.id = client.id /\ t.kind = client.kind
      <4>1. t.live BY <1>6, <2>10
      <4> QED BY <1>6, <2>4, <4>1 DEF LiveStreams
    <3>2. \A i \in 1 .. Len(v) : v[i].of.kind \notin Terminal
      BY <1>12, <2>4, <2>6, <2>8, <2>10
    <3>3. StreamDue(UpWire, DownWire)'
      BY <1>1, <1>9, <1>14, <2>4, <2>9, <3>1, <3>2 DEF StreamDue
    <3> QED BY <1>1, <1>15, <2>1, <2>3, <3>3 DEF Pending, InStream, Reading
  <2>11. CASE what \in Terminal
    <3>1. LiveStreams' = {}
      <4>1. ~ t.live BY <1>6, <2>11
      <4> QED BY <1>6, <2>4, <4>1 DEF LiveStreams
    <3>2. v # <<>> /\ v[Len(v)].of.kind \in Terminal
      <4>1. Len(v) \in 1 .. Len(v) /\ Len(v) \notin 1 .. m BY <2>6, <2>7
      <4>2. v[Len(v)].of = g BY <2>8, <4>1
      <4>3. Len(<<>>) = 0 OBVIOUS
      <4> QED BY <1>12, <2>11, <4>1, <4>2, <4>3
    <3>3. StreamDue(UpWire, DownWire)'
      BY <1>1, <1>9, <1>14, <2>4, <2>9, <3>1, <3>2 DEF StreamDue
    <3> QED BY <1>1, <1>15, <2>1, <2>3, <3>3 DEF Pending, InStream, Reading
  <2> QED BY <2>10, <2>11
<1>18. DownOK' /\ InStep' BY <1>1, <1>14, <1>15, <1>16, <1>17 DEF DownOK, InStep
<1> QED BY <1>8, <1>9, <1>10, <1>18 DEF CallInv

\* The client's reader: what it leaves on the wire.
LEMMA ReadLeaves ==
    ASSUME DownFits, NEW r, NEW k \in 0 .. Len(DownWire), r = Rest(DownWire, k),
           frames' = Boundary, toClient' = r, taken' = taken
    PROVE  DownFits' /\ DownWire' = r
<1>1. PICK w : w = DownWire OBVIOUS
<1>2. Good(w) /\ \A i \in 1 .. Len(w) : Answers(w[i].of) BY <1>1 DEF DownFits
<1>3. Good(r) BY <1>1, <1>2, GoodCut
<1>4. DownWire' = r /\ Fits(Boundary, ClientMax) /\ r \in Seq(Byte)
  BY <1>3, WireBoundary DEF DownWire, Good
<1>5. ASSUME NEW i \in 1 .. Len(r) PROVE Answers(r[i].of)'
  <2>1. w \in Seq(Byte) /\ k \in 0 .. Len(w) BY <1>1, <1>2 DEF Good
  <2>2. Len(r) = Len(w) - k /\ \A j \in 1 .. Len(w) - k : r[j] = w[k + j]
    BY <1>1, <2>1, CutBytes
  <2>3. k + i \in 1 .. Len(w) /\ r[i] = w[k + i] BY <2>1, <2>2
  <2>4. Answers(r[i].of) BY <1>2, <2>3
  <2> QED BY <2>4 DEF Answers, IsTaken
<1> QED BY <1>3, <1>4, <1>5 DEF DownFits

\* A stream in step is still in step behind a frame of it that is taken.
LEMMA DueRest ==
    ASSUME NEW w, Good(w), w # <<>>, Aligned(w), NEW f, f = w[1].of, NEW r, r = Rest(w, Whole(f)),
           NEW u, StreamDue(u, w)
    PROVE  /\ StreamFrame(f, client.id, client.kind)
           /\ f.kind \in Terminal => r = <<>> /\ Quiet(u)
           /\ f.kind \notin Terminal => StreamDue(u, r)
<1>1. /\ open => u = <<>>
      /\ \A i \in 1 .. Len(w) : /\ StreamFrame(w[i].of, client.id, client.kind)
                                /\ w[i].of.kind \in Terminal => EndsWire(w, i)
      /\ open => \/ /\ \E s \in streams : s.id = client.id /\ s.kind = client.kind /\ LiveStreams = {s}
                    /\ \A i \in 1 .. Len(w) : w[i].of.kind \notin Terminal
                 \/ LiveStreams = {} /\ w # <<>> /\ w[Len(w)].of.kind \in Terminal
  BY DEF StreamDue, Unanswered
<1>2. PICK n : n = Whole(f) OBVIOUS
<1>3. /\ f \in WireFrame /\ n \in 1 .. Len(w) /\ w \in Seq(Byte)
      /\ \A k \in 1 .. n : w[k].of = f /\ Place(w[k]) = k
  BY <1>2, GoodFront DEF Good
<1>4. PICK m \in Nat : m = Len(w) /\ n \in 1 .. m /\ n \in Nat BY <1>3
<1>5. r \in Seq(Byte) /\ Len(r) = m - n /\ \A i \in 1 .. m - n : r[i] = w[n + i]
  <2>1. n \in 0 .. Len(w) BY <1>4
  <2> QED BY <1>2, <1>3, <1>4, <2>1, CutBytes
<1>6. 1 \in 1 .. Len(w) /\ w[1].of = f /\ Place(w[1]) = 1 BY <1>3, <1>4
<1>7. ASSUME f.kind \in Terminal PROVE r = <<>> /\ Quiet(u)
  <2>1. Around(w, 1, n) = m BY <1>1, <1>2, <1>4, <1>6, <1>7 DEF EndsWire
  <2>2. n = m BY <1>4, <1>6, <2>1 DEF Around
  <2>3. r = <<>> BY <1>4, <1>5, <2>2
  <2>4. Quiet(u) BY <1>1, <1>6, <1>7 DEF Quiet
  <2> QED BY <2>3, <2>4
<1>8. ASSUME f.kind \notin Terminal PROVE StreamDue(u, r)
  <2>1. ASSUME NEW i \in 1 .. m - n
        PROVE  /\ StreamFrame(r[i].of, client.id, client.kind)
               /\ r[i].of.kind \in Terminal => EndsWire(r, i)
    <3>1. PICK k \in 1 .. m : k = n + i /\ r[i] = w[k] BY <1>4, <1>5
    <3>2. /\ StreamFrame(w[k].of, client.id, client.kind)
          /\ w[k].of.kind \in Terminal => EndsWire(w, k)
      BY <1>1, <1>4, <3>1
    <3>3. w[k] \in Byte BY <1>3, <1>4, <3>1
    <3>4. PICK p \in Nat, l \in Nat : p = Place(w[k]) /\ l = Whole(w[k].of)
      BY <3>3, PlaceOf, EncodeIs
    <3>5. EndsWire(w, k) => EndsWire(r, i)
      <4> SUFFICES ASSUME EndsWire(w, k) PROVE EndsWire(r, i)
        OBVIOUS
      <4>1. k - p + l = m BY <1>4, <3>4 DEF EndsWire, Around
      <4>2. i - p + l = m - n
        <5>1. i \in Int /\ n \in Int /\ k \in Int /\ k = n + i BY <1>4, <3>1
        <5> QED BY <4>1, <5>1
      <4> QED BY <1>5, <3>1, <3>4, <4>2 DEF EndsWire, Around
    <3> QED BY <3>1, <3>2, <3>5
  <2>2. ASSUME \A i \in 1 .. Len(w) : w[i].of.kind \notin Terminal
        PROVE  \A i \in 1 .. Len(r) : r[i].of.kind \notin Terminal
    <3>1. \A i \in 1 .. m - n : n + i \in 1 .. m BY <1>4
    <3> QED BY <1>4, <1>5, <2>2, <3>1
  <2>3. ASSUME w[Len(w)].of.kind \in Terminal PROVE r # <<>> /\ r[Len(r)].of.kind \in Terminal
    <3>1. m # n BY <1>3, <1>4, <1>8, <2>3
    <3>2. m - n \in 1 .. m - n /\ n + (m - n) = m BY <1>4, <3>1
    <3>3. r[m - n] = w[m] BY <1>5, <3>2
    <3>4. Len(r) = m - n /\ Len(r) # 0 /\ Len(<<>>) = 0 BY <1>5, <3>2
    <3> QED BY <1>4, <2>3, <3>3, <3>4
  <2> QED BY <1>1, <1>4, <1>5, <2>1, <2>2, <2>3 DEF StreamDue
<1> QED BY <1>1, <1>6, <1>7, <1>8

\* The count of a read behind a frame of it that is taken.
LEMMA TallyRest ==
    ASSUME NEW w, Good(w), w # <<>>, Aligned(w), NEW f, f = w[1].of, NEW r, r = Rest(w, Whole(f)),
           Tally(w), client \in CallerRecord, client.kind = "read", client.at = "fill", client.buffered = 0,
           NEW id, id = client.id, f.id = id, IsTaken(id)
    PROVE  \E s \in streams :
              /\ s.id = id
              /\ f.kind \notin Terminal =>
                    /\ s.sent = client.events + 1 + Cardinality(Expected(r, id))
                    /\ IF s.live THEN Heads(r, id) = Expected(r, id)
                       ELSE \E j \in Heads(r, id) : ClosedBy(r, id, j)
              /\ f.kind \in Terminal => ~ s.live /\ s.sent = client.events
<1>1. PICK s \in streams :
          /\ s.id = id
          /\ s.sent = client.events + client.buffered + Cardinality(Expected(w, id))
          /\ IF s.live THEN Heads(w, id) = Expected(w, id)
             ELSE \E j \in Heads(w, id) : ClosedBy(w, id, j)
  BY DEF Tally
<1>2. PICK n : n = Whole(f) OBVIOUS
<1>3. w \in Seq(Byte) /\ n \in 1 .. Len(w) /\ n \in Nat BY <1>2, GoodFront DEF Good
<1>4. r \in Seq(Byte)
  <2>1. n \in 0 .. Len(w) BY <1>3
  <2> QED BY <1>2, <1>3, <2>1, CutBytes
<1>5. /\ \A j \in Heads(r, id) : j \in Nat \ {0} /\ n + j \in Heads(w, id) /\ w[n + j] = r[j] /\ n + j # 1
      /\ \A i \in Heads(w, id) : i # 1 => i - n \in Heads(r, id) /\ n + (i - n) = i
      /\ 1 \in Heads(w, id)
      /\ \A j \in Expected(r, id) : n + j \in Expected(w, id)
      /\ \A i \in Expected(w, id) : i # 1 => i - n \in Expected(r, id) /\ n + (i - n) = i
  <2>6. r = Rest(w, n) BY <1>2
  <2>7. \A j \in Heads(r, id) : j \in Nat \ {0} /\ n + j \in Heads(w, id) /\ n + j # 1
    BY ONLY Good(w), w # <<>>, Aligned(w), f = w[1].of, <1>2, <2>6, HeadsRest
  <2>8. \A j \in Heads(r, id) : w[n + j] = r[j]
    <3>1. n \in 0 .. Len(w) BY <1>3
    <3>2. Len(r) = Len(w) - n /\ \A j \in 1 .. Len(w) - n : r[j] = w[n + j]
      BY <1>3, <2>6, <3>1, CutBytes
    <3> QED BY <3>2 DEF Heads
  <2>1. \A j \in Heads(r, id) : j \in Nat \ {0} /\ n + j \in Heads(w, id) /\ w[n + j] = r[j] /\ n + j # 1
    BY ONLY <2>7, <2>8
  <2>2. \A i \in Heads(w, id) : i # 1 => i - n \in Heads(r, id) /\ n + (i - n) = i
    BY <1>2, HeadsRest
  <2>3. \A i \in Expected(w, id) : i # 1 => i - n \in Expected(r, id) /\ n + (i - n) = i
    BY <1>2, HeadsRest
  <2>4. \A j \in Expected(r, id) : n + j \in Expected(w, id)
    BY ONLY <2>7, <2>8 DEF Expected
  <2>5. 1 \in Heads(w, id) BY <1>2, HeadsRest
  <2> QED BY ONLY <2>1, <2>2, <2>3, <2>4, <2>5
<1>6. Heads(w, id) \subseteq Nat /\ Heads(r, id) \subseteq Nat /\ client.events \in Nat
  BY DEF Heads, CallerRecord
<1>7. PICK c \in Nat : c = Cardinality(Expected(r, id)) BY <1>4, HeadsFinite
<1>8. CASE f.kind \notin Terminal
  <2>1. Cardinality(Expected(w, id)) = c + 1 BY <1>7, <1>8, ExpectedRest
  <2>2. s.sent = client.events + 1 + c BY <1>1, <1>6, <2>1
  <2>3. ASSUME Heads(w, id) = Expected(w, id) PROVE Heads(r, id) = Expected(r, id)
    <3>1. ASSUME NEW j \in Heads(r, id) PROVE j \in Expected(r, id)
      <4>1. r[j].of.kind \notin Terminal BY <1>5, <2>3 DEF Expected
      <4> QED BY <4>1 DEF Expected
    <3> QED BY <3>1 DEF Expected
  <2>4. ASSUME NEW j \in Heads(w, id), ClosedBy(w, id, j) PROVE \E i \in Heads(r, id) : ClosedBy(r, id, i)
    <3>1. j # 1 BY <1>8, <2>4 DEF ClosedBy
    <3>2. PICK i \in Heads(r, id) : n + i = j /\ r[i] = w[j] BY <1>5, <3>1
    <3>3. ASSUME NEW k \in Heads(r, id) PROVE k <= i /\ (k < i => k \in Expected(r, id))
      <4>1. n + k \in Heads(w, id) /\ w[n + k] = r[k] BY <1>5
      <4>2. n + k <= j /\ (n + k < j => n + k \in Expected(w, id))
        BY <2>4, <4>1 DEF ClosedBy
      <4>3. k \in Nat /\ i \in Nat BY <1>6
      <4>4. k <= i /\ (k < i => n + k < j) BY <1>3, <3>2, <4>2, <4>3
      <4> QED BY <4>1, <4>2, <4>4 DEF Expected
    <3>4. r[i].of.kind \in Terminal BY <2>4, <3>2 DEF ClosedBy
    <3> QED BY <3>2, <3>3, <3>4 DEF ClosedBy
  <2> QED BY <1>1, <1>7, <1>8, <2>2, <2>3, <2>4
<1>9. CASE f.kind \in Terminal
  <2>1. 1 \notin Expected(w, id) BY <1>9 DEF Expected
  <2>2. ~ s.live BY <1>1, <1>5, <2>1
  <2>3. PICK j \in Heads(w, id) : ClosedBy(w, id, j) BY <1>1, <2>2
  <2>4. j \in Nat /\ 1 <= j /\ ~ 1 < j BY <1>5, <1>6, <2>1, <2>3 DEF ClosedBy
  <2>5. \A i \in Heads(w, id) : i <= 1 BY <2>3, <2>4 DEF ClosedBy
  <2>6. \A i \in Heads(w, id) : i = 1 BY <1>3, <2>5 DEF Heads
  <2>7. Expected(w, id) = {} BY <2>1, <2>6 DEF Expected
  <2>8. Cardinality(Expected(w, id)) = 0 BY <2>7, FS_EmptySet
  <2> QED BY <1>1, <1>6, <1>9, <2>2, <2>8
<1> QED BY <1>8, <1>9

\* What every read of the client leaves alone.
ReadFrame == UNCHANGED <<nextId, toServer, open, requests, taken, streams>>

LEMMA ReadKeeps ==
    ASSUME CallInv, ReadFrame, client'.id # 0 => client'.id = client.id /\ client'.kind = client.kind
    PROVE  UpOK' /\ UpWire' = UpWire /\ TakenFits' /\ StreamsFit' /\ LiveStreams' = LiveStreams
<1>1. TakenFits /\ StreamsFit /\ UpOK BY DEF CallInv
<1>2. UpOK' /\ UpWire' = UpWire BY <1>1, UpKept DEF ReadFrame
<1> QED BY <1>1, <1>2, StreamsKept DEF ReadFrame, TakenFits, LiveStreams

\* The client has part of a frame.
LEMMA ReadPartly ==
    ASSUME CallInv, Reading, toClient # <<>>, ReadFrame, UNCHANGED <<client, shifted>>,
           NEW r \in Seq(Byte), toClient' = r, Fits(frames', ClientMax), Wire(frames', r) = DownWire
    PROVE  CallInv'
<1>1. UpOK' /\ UpWire' = UpWire /\ TakenFits' /\ StreamsFit' /\ LiveStreams' = LiveStreams
  BY ReadKeeps
<1>2. CallerFits /\ DownFits /\ Tally(DownWire) /\ ~ Cut /\ InStep /\ ReadsAreWhole /\ StaysAligned
  BY DEF CallInv, DownOK, Cut
<1>3. DownWire' = DownWire BY DEF DownWire
<1>4. DownFits' BY <1>2, <1>3 DEF DownFits, Answers, IsTaken, ReadFrame
<1>5. Tally(DownWire)' BY <1>2, <1>3 DEF Tally, IsTaken, ReadFrame
<1>6. Pending(UpWire, DownWire) => Pending(UpWire, DownWire)'
  BY <1>1, <1>3 DEF Pending, Reading, InStream, ReplyDue, StreamDue, Unanswered, Quiet, ReadFrame
<1>7. CallerFits' /\ ReadsAreWhole' /\ StaysAligned'
  BY <1>2 DEF CallerFits, ReadsAreWhole, StaysAligned, InStream, Reading, ReadFrame
<1> QED BY <1>1, <1>2, <1>3, <1>4, <1>5, <1>6, <1>7 DEF CallInv, DownOK, InStep

\* A read that breaks off, once frames have shifted or because it must.
LEMMA ReadBreaks ==
    ASSUME CallInv, Reading, toClient # <<>>, ReadFrame, BreaksOff, shifted' # "none", frames' = Boundary,
           NEW r, toClient' = r, NEW k \in 0 .. Len(DownWire), r = Rest(DownWire, k)
    PROVE  CallInv'
<1>1. CallerFits /\ DownFits BY DEF CallInv, DownOK, Cut
<1>2. /\ CallerFits' /\ ReadsAreWhole' /\ \A w : Tally(w)'
      /\ client'.id # 0 => client'.id = client.id /\ client'.kind = client.kind
  BY <1>1, BrokenFits DEF ReadFrame
<1>3. UpOK' /\ TakenFits' /\ StreamsFit' BY <1>2, ReadKeeps
<1>4. DownFits' /\ Tally(DownWire)' BY <1>1, <1>2, ReadLeaves DEF ReadFrame
<1> QED BY <1>2, <1>3, <1>4 DEF CallInv, DownOK, InStep, StaysAligned

\* The client takes the answer to a single request.
LEMMA RecvTakes ==
    ASSUME CallInv, client.at = "recv", toClient # <<>>, ReadFrame, frames' = Boundary, shifted' = shifted,
           DownWire # <<>>, Aligned(DownWire), NEW f, f = DownWire[1].of,
           NEW r, toClient' = r, r = Rest(DownWire, Whole(f)), client' = TakeSingle(f)
    PROVE  CallInv'
<1>1. CallerFits /\ DownFits /\ InStep /\ StaysAligned /\ ~ Cut
  BY DEF CallInv, DownOK, Cut
<1>2. client \in CallerRecord /\ client.kind \in Single /\ Reading
  BY <1>1 DEF CallerFits, Reading
<1>3. f \in WireFrame /\ Whole(f) \in 0 .. Len(DownWire)
  <2>1. Whole(f) \in 1 .. Len(DownWire) BY <1>1, GoodFront DEF DownFits
  <2> QED BY <1>1, <2>1, GoodFront DEF DownFits
<1>4. PICK last \in {"ok", "error", "mismatch", "protocol"} :
          /\ client' = Over(last)
          /\ Ours(f) /\ f.kind \in {client.kind, "error"} => last \in {"ok", "error"}
  <2>1. CASE ~ Ours(f) BY <2>1 DEF TakeSingle
  <2>2. CASE Ours(f) /\ f.kind = client.kind BY <2>2 DEF TakeSingle
  <2>3. CASE Ours(f) /\ f.kind # client.kind /\ f.kind = "error" BY <2>3 DEF TakeSingle
  <2>4. CASE Ours(f) /\ f.kind # client.kind /\ f.kind # "error" BY <2>4 DEF TakeSingle
  <2> QED BY <2>1, <2>2, <2>3, <2>4
<1>5. /\ client' \in CallerRecord /\ client'.at \in {"idle", "unconnected"} /\ client'.id = 0
      /\ client'.watermark = FALSE /\ client'.last = last
  <2>1. last \in Reports BY DEF Reports
  <2> QED BY <1>4, <2>1, Resets
<1>6. BreaksOff BY <1>5 DEF BreaksOff
<1>7. CallerFits' /\ ReadsAreWhole' /\ \A w : Tally(w)'
  BY <1>1, <1>2, <1>6, BrokenFits DEF ReadFrame
<1>8. UpOK' /\ UpWire' = UpWire /\ TakenFits' /\ StreamsFit' /\ LiveStreams' = LiveStreams
  BY <1>5, ReadKeeps
<1>9. DownFits' /\ DownWire' = r BY <1>1, <1>3, ReadLeaves DEF ReadFrame
<1>10. ASSUME shifted = "none"
       PROVE  Quiet(UpWire) /\ r = <<>> /\ last \in {"ok", "error"}
  <2>1. ReplyDue(UpWire, DownWire) BY <1>1, <1>10 DEF InStep, Pending
  <2>2. PICK g \in {Frame(client.id, client.kind), Frame(client.id, "error"), Frame(0, "error")} :
            DownWire = Encode(g) /\ Quiet(UpWire)
    BY <2>1 DEF ReplyDue, Unanswered
  <2>3. /\ client.id \in Nat /\ 0 \in Nat /\ client.kind \in RequestKinds \cup AnswerKinds
        /\ "error" \in RequestKinds \cup AnswerKinds
    BY <1>2 DEF CallerRecord, RequestKinds, AnswerKinds
  <2>4. g \in WireFrame /\ g.id \in {client.id, 0} /\ g.kind \in {client.kind, "error"}
    BY <2>2, <2>3, FrameIs
  <2>5. PICK w : w = DownWire OBVIOUS
  <2>6. w[1].of = g /\ Rest(w, Whole(g)) = <<>> BY <2>2, <2>4, <2>5, EncodeBytes
  <2> QED BY <1>4, <2>2, <2>4, <2>5, <2>6 DEF Ours
<1>11. ASSUME shifted = "none" PROVE Aligned(DownWire)' /\ Pending(UpWire, DownWire)'
  <2>1. Quiet(UpWire)' BY <1>8, <1>10, <1>11 DEF Quiet, ReadFrame
  <2> QED BY <1>5, <1>9, <1>10, <1>11, <2>1, GoodEmpty DEF Pending, InStream, Reading
<1>12. StaysAligned' BY <1>5, <1>10 DEF StaysAligned
<1> QED BY <1>7, <1>8, <1>9, <1>11, <1>12 DEF CallInv, DownOK, InStep

\* A dropped read takes a frame and ends with its terminal one.
LEMMA DrainTakes ==
    ASSUME CallInv, client.at = "drain", toClient # <<>>, ReadFrame, frames' = Boundary, shifted' = shifted,
           DownWire # <<>>, Aligned(DownWire), NEW f, f = DownWire[1].of,
           NEW r, toClient' = r, r = Rest(DownWire, Whole(f)), client' = TakeDrained(f)
    PROVE  CallInv'
<1>1. CallerFits /\ DownFits /\ InStep /\ StaysAligned /\ ReadsAreWhole /\ ~ Cut
  BY DEF CallInv, DownOK, Cut
<1>2. client \in CallerRecord /\ Reading /\ InStream /\ ~ client.watermark
  BY <1>1 DEF CallerFits, Reading, InStream
<1>3. Good(DownWire) /\ Whole(f) \in 0 .. Len(DownWire)
  <2>1. Whole(f) \in 1 .. Len(DownWire) BY <1>1, GoodFront DEF DownFits
  <2> QED BY <1>1, <2>1 DEF DownFits
<1>4. \/ f.kind \in Terminal /\ client' = Idle("drained")
      \/ f.kind \notin Terminal /\ client' = client
  BY DEF TakeDrained, Terminal
<1>5. /\ client' \in CallerRecord /\ client'.watermark = FALSE /\ client'.last \in {"drained", client.last}
      /\ \/ f.kind \in Terminal /\ client'.at = "idle" /\ client'.id = 0
         \/ f.kind \notin Terminal /\ client' = client
  <2>1. CASE f.kind \in Terminal /\ client' = Idle("drained")
    <3>1. PICK last \in Reports : last = "drained" /\ client' = Idle(last)
      BY <2>1 DEF Reports
    <3>4. Idle(last) \in CallerRecord /\ Idle(last).at = "idle" /\ Idle(last).id = 0
      BY ONLY last \in Reports, Resets
    <3>2. client' \in CallerRecord /\ client'.at = "idle" /\ client'.id = 0 BY <3>1, <3>4
    <3>3. client'.watermark = FALSE /\ client'.last = "drained"
      BY <3>1 DEF Idle, NoCall, CallerRecord
    <3> QED BY <2>1, <3>2, <3>3
  <2>2. CASE f.kind \notin Terminal /\ client' = client
    <3>1. client.watermark \in BOOLEAN BY <1>2 DEF CallerRecord
    <3> QED BY <1>2, <2>2, <3>1
  <2> QED BY <1>4, <2>1, <2>2
<1>6. UpOK' /\ UpWire' = UpWire /\ TakenFits' /\ StreamsFit' /\ LiveStreams' = LiveStreams
  BY <1>5, ReadKeeps
<1>7. DownFits' /\ DownWire' = r BY <1>1, <1>3, ReadLeaves DEF ReadFrame
<1>8. CallerFits' /\ ReadsAreWhole' /\ StaysAligned' /\ Tally(DownWire)'
  <2>1. CallerFits' BY <1>1, <1>5 DEF CallerFits, ReadFrame, InStream, Reading
  <2> QED BY <1>1, <1>5, <2>1 DEF ReadsAreWhole, StaysAligned, Tally
<1>9. ASSUME shifted = "none" PROVE Aligned(DownWire)' /\ Pending(UpWire, DownWire)'
  <2>1. StreamDue(UpWire, DownWire) BY <1>1, <1>2, <1>9 DEF InStep, Pending
  <2>2. /\ f.kind \in Terminal => r = <<>> /\ Quiet(UpWire)
        /\ f.kind \notin Terminal => StreamDue(UpWire, r)
    BY <1>3, <2>1, DueRest
  <2>3. Aligned(r) BY <1>3, GoodFront
  <2>4. CASE f.kind \in Terminal
    <3>1. Quiet(UpWire)' BY <1>6, <2>2, <2>4 DEF Quiet, ReadFrame
    <3> QED BY <1>5, <1>7, <2>2, <2>3, <2>4, <3>1 DEF Pending, InStream, Reading
  <2>5. CASE f.kind \notin Terminal
    <3>1. StreamDue(UpWire, DownWire)'
      BY <1>5, <1>6, <1>7, <2>2, <2>5 DEF StreamDue, Unanswered, ReadFrame
    <3> QED BY <1>5, <1>7, <2>3, <2>5, <3>1 DEF Pending, InStream, Reading
  <2> QED BY <2>4, <2>5
<1> QED BY <1>6, <1>7, <1>8, <1>9 DEF CallInv, DownOK, InStep

\* A frame taken by a stream.
LEMMA StreamMoves ==
    ASSUME client \in CallerRecord, client.at = "fill", NEW f, f \in WireFrame \/ f = Garbage,
           client' = TakeStream(f)
    PROVE  /\ client' \in CallerRecord /\ client'.id = client.id /\ client'.kind = client.kind
           /\ client'.events = client.events
           /\ \/ /\ Ours(f) /\ f.kind = "events" /\ client'.at = "stream" /\ client'.buffered = 1
                 /\ client'.watermark = client.watermark /\ client'.last = client.last
              \/ /\ Ours(f) /\ f.kind = "caughtup" /\ client.kind = "subscribe"
                 /\ client'.at = "stream" /\ client'.buffered = client.buffered
                 /\ client'.watermark = client.watermark /\ client'.last = client.last
              \/ /\ Ours(f) /\ f.kind = "end" /\ client.kind = "read"
                 /\ client'.at = "done" /\ client'.last = "end"
              \/ /\ client'.at = "done" /\ client'.watermark = client.watermark
                 /\ \/ Ours(f) /\ f.kind = "error" /\ client'.last = "error"
                    \/ /\ client'.last \in {"mismatch", "protocol"}
                       /\ \/ ~ Ours(f)
                          \/ /\ f.kind \notin {"events", "error"}
                             /\ f.kind = "caughtup" => client.kind # "subscribe"
                             /\ f.kind = "end" => client.kind # "read"
<1>1. ASSUME NEW why \in Reports
      PROVE  /\ Fails(why) \in CallerRecord /\ Fails(why).at = "done" /\ Fails(why).id = client.id
             /\ Fails(why).kind = client.kind /\ Fails(why).watermark = client.watermark
             /\ Fails(why).last = why /\ Fails(why).events = client.events
  BY DEF Fails, CallerRecord
<1>2. {"mismatch", "protocol", "error", "end"} \subseteq Reports BY DEF Reports
<1>3. CASE ~ Ours(f)
  <2>1. client' = Fails("mismatch") BY <1>3 DEF TakeStream
  <2> QED BY <1>1, <1>2, <1>3, <2>1
<1>4. CASE Ours(f) /\ f.kind = "events"
  <2>1. client' = [client EXCEPT !.at = "stream", !.buffered = 1] BY <1>4 DEF TakeStream
  <2>4. PICK b \in Nat : b = 1 OBVIOUS
  <2>5. client' = [client EXCEPT !.at = "stream", !.buffered = b] BY <2>1, <2>4
  <2>2. client' \in CallerRecord BY <2>5 DEF CallerRecord
  <2>3. /\ client'.id = client.id /\ client'.kind = client.kind /\ client'.events = client.events
        /\ client'.at = "stream" /\ client'.buffered = 1
        /\ client'.watermark = client.watermark /\ client'.last = client.last
    BY <2>1 DEF CallerRecord
  <2> QED BY <1>4, <2>2, <2>3
<1>5. CASE Ours(f) /\ f.kind = "caughtup" /\ client.kind = "subscribe"
  <2>1. client' = [client EXCEPT !.at = "stream"] BY <1>5 DEF TakeStream
  <2> QED BY <1>5, <2>1 DEF CallerRecord
<1>6. CASE Ours(f) /\ f.kind = "end" /\ client.kind = "read"
  <2>1. client' = [client EXCEPT !.at = "done", !.watermark = TRUE, !.last = "end"]
    BY <1>6 DEF TakeStream
  <2>2. client' \in CallerRecord BY <1>2, <2>1 DEF CallerRecord
  <2>3. /\ client'.id = client.id /\ client'.kind = client.kind /\ client'.events = client.events
        /\ client'.at = "done" /\ client'.last = "end"
    BY <2>1 DEF CallerRecord
  <2> QED BY <1>6, <2>2, <2>3
<1>7. CASE Ours(f) /\ f.kind = "error"
  <2>1. client' = Fails("error") BY <1>7 DEF TakeStream
  <2> QED BY <1>1, <1>2, <1>7, <2>1
<1>8. CASE /\ Ours(f) /\ f.kind \notin {"events", "error"}
           /\ ~ (f.kind = "caughtup" /\ client.kind = "subscribe")
           /\ ~ (f.kind = "end" /\ client.kind = "read")
  <2>1. client' = Fails("protocol") BY <1>8 DEF TakeStream
  <2> QED BY <1>1, <1>2, <1>8, <2>1
<1> QED BY <1>3, <1>4, <1>5, <1>6, <1>7, <1>8

\* A stream takes a frame.
LEMMA FillTakes ==
    ASSUME CallInv, client.at = "fill", toClient # <<>>, ReadFrame, frames' = Boundary,
           DownWire # <<>>, Aligned(DownWire), NEW f, f = DownWire[1].of, f.size <= ClientMax,
           NEW r, toClient' = r, r = Rest(DownWire, Whole(f)), client' = TakeStream(f),
           shifted' = IF f.kind = "bad" THEN "fault" ELSE shifted
    PROVE  CallInv'
<1>1. CallerFits /\ DownFits /\ InStep /\ StreamsFit /\ Tally(DownWire) /\ ~ Cut /\ StaysAligned
  BY DEF CallInv, DownOK, Cut
<1>2. /\ client \in CallerRecord /\ Reading /\ InStream /\ ~ client.watermark /\ client.buffered = 0
      /\ client.id \in Nat /\ client.id # 0 /\ client.kind \in {"read", "subscribe"} /\ nextId \in Nat \ {0}
      /\ client.id < nextId
  BY <1>1 DEF CallerFits, CallerRecord, Reading, InStream
<1>3. Good(DownWire) /\ f \in WireFrame /\ Whole(f) \in 1 .. Len(DownWire) /\ 1 \in 1 .. Len(DownWire) /\ Aligned(r)
  <2>1. Good(DownWire) /\ f \in WireFrame /\ Whole(f) \in 1 .. Len(DownWire) /\ Aligned(r)
    BY <1>1, GoodFront DEF DownFits
  <2> QED BY <2>1
<1>4. Answers(f) BY <1>1, <1>3 DEF DownFits
<1>5. f.kind # "huge"
  <2> SUFFICES ASSUME f.kind = "huge" PROVE FALSE
    OBVIOUS
  <2>1. f = Frame(f.id, "huge") /\ f.id \in Nat BY <1>3, <1>4 DEF Answers, WireFrame
  <2>2. ClientMax < f.size BY <2>1, FrameIs DEF AnswerKinds
  <2> QED BY <1>3, <2>2, BlockingClientAssumption DEF WireFrame
<1>6. /\ client' \in CallerRecord /\ client'.id = client.id /\ client'.kind = client.kind
      /\ client'.events = client.events
      /\ \/ /\ Ours(f) /\ f.kind = "events" /\ client'.at = "stream" /\ client'.buffered = 1
            /\ client'.watermark = client.watermark /\ client'.last = client.last
         \/ /\ Ours(f) /\ f.kind = "caughtup" /\ client.kind = "subscribe"
            /\ client'.at = "stream" /\ client'.buffered = client.buffered
            /\ client'.watermark = client.watermark /\ client'.last = client.last
         \/ /\ Ours(f) /\ f.kind = "end" /\ client.kind = "read"
            /\ client'.at = "done" /\ client'.last = "end"
         \/ /\ client'.at = "done" /\ client'.watermark = client.watermark
            /\ \/ Ours(f) /\ f.kind = "error" /\ client'.last = "error"
               \/ /\ client'.last \in {"mismatch", "protocol"}
                  /\ \/ ~ Ours(f)
                     \/ /\ f.kind \notin {"events", "error"}
                        /\ f.kind = "caughtup" => client.kind # "subscribe"
                        /\ f.kind = "end" => client.kind # "read"
  BY <1>2, <1>3, StreamMoves
<1>7. UpOK' /\ UpWire' = UpWire /\ TakenFits' /\ StreamsFit' /\ LiveStreams' = LiveStreams
  BY <1>6, ReadKeeps
<1>8. DownFits' /\ DownWire' = r
  <2>1. Whole(f) \in 0 .. Len(DownWire) BY <1>3
  <2> QED BY <1>1, <2>1, ReadLeaves DEF ReadFrame
<1>9. Ours(f) /\ f.kind \in {"events", "end"} => f.id = client.id /\ IsTaken(client.id)
  BY <1>2, <1>4 DEF Ours, Answers
<1>10. ASSUME client.kind = "read", f.id = client.id, IsTaken(client.id)
       PROVE  \E s \in streams :
                 /\ s.id = client.id
                 /\ f.kind \notin Terminal =>
                       /\ s.sent = client.events + 1 + Cardinality(Expected(r, client.id))
                       /\ IF s.live THEN Heads(r, client.id) = Expected(r, client.id)
                          ELSE \E j \in Heads(r, client.id) : ClosedBy(r, client.id, j)
                 /\ f.kind \in Terminal => ~ s.live /\ s.sent = client.events
  BY <1>1, <1>2, <1>3, <1>10, TallyRest
<1>11. Tally(DownWire)'
  <2> SUFFICES ASSUME client'.kind = "read", client'.at \in {"stream", "fill"} PROVE Tally(DownWire)'
    BY DEF Tally
  <2>1. client.kind = "read" /\ Ours(f) /\ f.kind = "events" /\ client'.buffered = 1
    BY <1>6
  <2>2. f.kind \notin Terminal BY <2>1 DEF Terminal
  <2>3. PICK s \in streams :
            /\ s.id = client.id
            /\ s.sent = client.events + 1 + Cardinality(Expected(r, client.id))
            /\ IF s.live THEN Heads(r, client.id) = Expected(r, client.id)
               ELSE \E j \in Heads(r, client.id) : ClosedBy(r, client.id, j)
    BY <1>9, <1>10, <2>1, <2>2
  <2>4. s \in streams' BY DEF ReadFrame
  <2> QED BY <1>6, <1>8, <2>1, <2>3, <2>4 DEF Tally
<1>12. ReadsAreWhole'
  <2> SUFFICES ASSUME client'.watermark PROVE ReadsAreWhole'
    BY DEF ReadsAreWhole
  <2>1. Ours(f) /\ f.kind = "end" /\ client.kind = "read" BY <1>2, <1>6
  <2>2. f.kind \in Terminal BY <2>1 DEF Terminal
  <2>3. PICK s \in streams : s.id = client.id /\ ~ s.live /\ s.sent = client.events
    BY <1>9, <1>10, <2>1, <2>2
  <2>4. s \in streams' BY DEF ReadFrame
  <2> QED BY <1>6, <2>3, <2>4 DEF ReadsAreWhole
<1>13. CallerFits'
  <2>1. /\ client'.at \in {"stream", "done"} /\ client'.id < nextId' /\ nextId' \in Nat \ {0}
        /\ client'.watermark => client'.at = "done"
    BY <1>2, <1>6 DEF ReadFrame
  <2> QED BY <1>2, <1>6, <2>1 DEF CallerFits, InStream, Reading
<1>14. ASSUME shifted = "none"
       PROVE  /\ StreamFrame(f, client.id, client.kind)
              /\ f.kind \in Terminal => r = <<>> /\ Quiet(UpWire)
              /\ f.kind \notin Terminal => StreamDue(UpWire, r)
  <2>1. StreamDue(UpWire, DownWire) BY <1>1, <1>2, <1>14 DEF InStep, Pending
  <2> QED BY <1>3, <2>1, DueRest
<1>15. ASSUME shifted' = "none"
       PROVE  \/ f.kind = "error" /\ client'.at = "done" /\ client'.last = "error"
              \/ f.kind = "end" /\ client'.at = "done" /\ client'.last = "end"
              \/ f.kind \notin Terminal /\ client'.at = "stream" /\ client'.last = client.last
  <2>1. shifted = "none" /\ f.kind # "bad" BY <1>15
  <2>2. /\ f.id = client.id /\ f.kind \in {"events", "caughtup", "end", "error"}
        /\ f.kind = "caughtup" => client.kind = "subscribe"
        /\ f.kind = "end" => client.kind = "read"
    BY <1>5, <1>14, <2>1 DEF StreamFrame, AnswerKinds, Single
  <2>3. Ours(f) BY <2>2 DEF Ours
  <2> QED BY <1>6, <2>2, <2>3 DEF Terminal
<1>16. ASSUME shifted' = "none" PROVE Aligned(DownWire)' /\ Pending(UpWire, DownWire)'
  <2>1. shifted = "none" BY <1>16
  <2>2. CASE f.kind \in Terminal
    <3>1. client'.at = "done" /\ r = <<>> /\ Quiet(UpWire)
      BY <1>14, <1>15, <1>16, <2>1, <2>2 DEF Terminal
    <3>2. Quiet(UpWire)' BY <1>7, <3>1 DEF Quiet, ReadFrame
    <3> QED BY <1>3, <1>8, <3>1, <3>2 DEF Pending, InStream, Reading
  <2>3. CASE f.kind \notin Terminal
    <3>1. client'.at = "stream" /\ StreamDue(UpWire, r)
      BY <1>14, <1>15, <1>16, <2>1, <2>3 DEF Terminal
    <3>2. StreamDue(UpWire, DownWire)'
      BY <1>6, <1>7, <1>8, <3>1 DEF StreamDue, Unanswered, ReadFrame
    <3> QED BY <1>3, <1>8, <3>1, <3>2 DEF Pending, InStream, Reading
  <2> QED BY <2>2, <2>3
<1>17. StaysAligned' BY <1>1, <1>15 DEF StaysAligned
<1> QED BY <1>7, <1>8, <1>11, <1>12, <1>13, <1>16, <1>17 DEF CallInv, DownOK, InStep

\* Bytes that are no frame, read when the wire has shifted.
LEMMA GarbageTaken ==
    ASSUME CallInv, Reading, toClient # <<>>, ReadFrame, frames' = Boundary, shifted' # "none",
           NEW r, toClient' = r, NEW k \in 0 .. Len(DownWire), r = Rest(DownWire, k), client' = Taken(Garbage)
    PROVE  CallInv'
<1>1. CallerFits /\ DownFits /\ ReadsAreWhole BY DEF CallInv, DownOK, Cut
<1>2. client \in CallerRecord /\ Garbage.id = 0 /\ Garbage.kind = "none" /\ Ours(Garbage)
  BY <1>1 DEF CallerFits, Garbage, Ours
<1>3. CASE client.at = "recv"
  <2>1. client' = TakeSingle(Garbage) /\ client.kind \in Single
    BY <1>1, <1>3 DEF Taken, CallerFits
  <2>2. client' = Over("protocol") BY <1>2, <2>1 DEF TakeSingle, Single
  <2>3. "protocol" \in Reports BY DEF Reports
  <2>4. client' \in CallerRecord /\ client'.at \in {"idle", "unconnected"} /\ client'.id = 0
    BY <2>2, <2>3, Resets
  <2>5. client'.watermark = FALSE BY <2>2, <2>3, Resets
  <2>6. BreaksOff BY <2>4, <2>5 DEF BreaksOff
  <2> QED BY <2>6, ReadBreaks
<1>4. CASE client.at = "fill"
  <2>1. client' = TakeStream(Garbage) BY <1>4 DEF Taken
  <2>2. client' = Fails("protocol") BY <1>2, <2>1 DEF TakeStream
  <2>3. "protocol" \in Reports BY DEF Reports
  <2>4. client' = Broken("protocol") BY <1>4, <2>2 DEF Broken
  <2>5. BreaksOff BY <1>1, <2>3, <2>4, BrokenIs
  <2> QED BY <2>5, ReadBreaks
<1>5. CASE client.at = "drain"
  <2>1. client' = client BY <1>2, <1>5 DEF Taken, TakeDrained
  <2>2. UpOK' /\ TakenFits' /\ StreamsFit' BY <2>1, ReadKeeps
  <2>3. DownFits' BY <1>1, ReadLeaves DEF ReadFrame
  <2>4. CallerFits' /\ ReadsAreWhole' /\ Tally(DownWire)'
    BY <1>1, <1>5, <2>1 DEF CallerFits, ReadFrame, InStream, Reading, ReadsAreWhole, Tally
  <2> QED BY <2>2, <2>3, <2>4 DEF CallInv, DownOK, InStep, StaysAligned
<1> QED BY <1>3, <1>4, <1>5 DEF Reading

LEMMA ClientReadsStep ==
    ASSUME CallInv, ClientReads PROVE CallInv'
<1>1. Reading /\ toClient # <<>> /\ ReadFrame BY DEF ClientReads, ReadFrame
<1>2. PICK n, polled :
          /\ n \in {1, Wants(frames)} \cap 1 .. Len(toClient)
          /\ polled \in Poll(frames, SubSeq(toClient, 1, n), ClientMax)
          /\ toClient' = SubSeq(toClient, n + 1, Len(toClient))
          /\ frames' = IF polled.outcome = "progress" THEN polled.reader ELSE Boundary
          /\ client' = CASE polled.outcome = "progress" -> client
                         [] polled.outcome = "frame"    -> Taken(polled.frame)
                         [] OTHER                       -> Broken(polled.outcome)
          /\ shifted' = IF polled.outcome \in {"toolarge", "parse"}
                           \/ (client.at = "fill" /\ polled.frame.kind = "bad")
                        THEN "fault" ELSE shifted
  BY DEF ClientReads
<1>4. PICK r : r = Rest(toClient, n) OBVIOUS
<1>5. toClient' = r BY <1>2, <1>4 DEF Rest
<1>6. CallerFits /\ DownFits /\ ~ Cut /\ InStep /\ ClientMax \in Nat
  BY <1>1, BlockingClientAssumption DEF CallInv, DownOK, Cut
<1>7. PICK w : w = DownWire OBVIOUS
<1>8. Fits(frames, ClientMax) /\ toClient \in Seq(Byte) /\ w = Wire(frames, toClient) /\ Good(w)
  BY <1>6, <1>7 DEF DownFits, DownWire
<1>9. /\ r \in Seq(Byte)
      /\ \/ TakesFrame(polled, w, r, ClientMax) \/ TakesGarbage(polled, w, r)
         \/ GivesUp(polled, w, r, ClientMax) \/ KeepsReading(polled, w, r, ClientMax)
  BY <1>2, <1>4, <1>6, <1>8, PollIs
<1>10. Garbage.kind = "none" BY DEF Garbage
<1>11. CASE KeepsReading(polled, w, r, ClientMax)
  <2>1. /\ polled.outcome = "progress" /\ polled.frame = Garbage
        /\ Fits(polled.reader, ClientMax) /\ Wire(polled.reader, r) = DownWire
    BY <1>7, <1>11 DEF KeepsReading
  <2>2. UNCHANGED <<client, shifted>> /\ frames' = polled.reader BY <1>2, <1>10, <2>1
  <2> QED BY <1>1, <1>5, <1>9, <2>1, <2>2, ReadPartly
<1>12. CASE GivesUp(polled, w, r, ClientMax)
  <2>5. PICK why : why = polled.outcome OBVIOUS
  <2>6. why \in {"parse", "toolarge"} BY <1>12, <2>5 DEF GivesUp
  <2>7. PICK k \in 0 .. Len(DownWire) : r = Rest(DownWire, k) BY <1>7, <1>12 DEF GivesUp
  <2>1. why = polled.outcome /\ why \in {"parse", "toolarge"} /\ r = Rest(DownWire, k)
    BY <2>5, <2>6, <2>7
  <2>2. frames' = Boundary /\ client' = Broken(why) /\ shifted' = "fault" BY <1>2, <2>1
  <2>3. why \in Reports BY <2>1 DEF Reports
  <2>4. BreaksOff BY <1>1, <1>6, <2>2, <2>3, BrokenIs
  <2> QED BY <1>1, <1>5, <2>1, <2>2, <2>4, ReadBreaks
<1>13. CASE TakesGarbage(polled, w, r)
  <2>1. polled.outcome = "frame" /\ polled.frame = Garbage
    BY <1>13 DEF TakesGarbage, Polled
  <2>2. PICK k \in 0 .. Len(DownWire) : r = Rest(DownWire, k)
    BY <1>7, <1>13 DEF TakesGarbage
  <2>3. frames' = Boundary /\ client' = Taken(Garbage) /\ shifted' = shifted
    BY <1>2, <1>10, <2>1
  <2>4. shifted # "none" BY <1>6, <1>7, <1>13 DEF TakesGarbage, InStep
  <2> QED BY <1>1, <1>5, <2>2, <2>3, <2>4, GarbageTaken
<1>14. CASE TakesFrame(polled, w, r, ClientMax)
  <2>1. PICK f : f = polled.frame OBVIOUS
  <2>2. /\ polled.outcome = "frame" /\ DownWire # <<>> /\ Aligned(DownWire) /\ f = DownWire[1].of
        /\ f.size <= ClientMax /\ r = Rest(DownWire, Whole(f))
    BY <1>7, <1>14, <2>1 DEF TakesFrame
  <2>3. /\ frames' = Boundary /\ client' = Taken(f)
        /\ shifted' = IF client.at = "fill" /\ f.kind = "bad" THEN "fault" ELSE shifted
    BY <1>2, <2>1, <2>2
  <2>4. CASE client.at = "recv"
    <3>1. client' = TakeSingle(f) /\ shifted' = shifted BY <2>3, <2>4 DEF Taken
    <3> QED BY <1>1, <1>5, <2>2, <2>3, <2>4, <3>1, RecvTakes
  <2>5. CASE client.at = "fill"
    <3>1. client' = TakeStream(f) /\ shifted' = IF f.kind = "bad" THEN "fault" ELSE shifted
      BY <2>3, <2>5 DEF Taken
    <3> QED BY <1>1, <1>5, <2>2, <2>3, <2>5, <3>1, FillTakes
  <2>6. CASE client.at = "drain"
    <3>1. client' = TakeDrained(f) /\ shifted' = shifted BY <2>3, <2>6 DEF Taken
    <3> QED BY <1>1, <1>5, <2>2, <2>3, <2>6, <3>1, DrainTakes
  <2> QED BY <1>1, <2>4, <2>5, <2>6 DEF Reading
<1> QED BY <1>9, <1>11, <1>12, <1>13, <1>14

--------------------
\* CallInv is an invariant: one lemma for each action.
LEMMA CallInvHolds == CallSpec => []CallInv
<1>1. CallInit => CallInv BY CallInitHolds
<1>2. CallInv /\ [CallNext]_callVars => CallInv'
  <2> SUFFICES ASSUME CallInv, [CallNext]_callVars PROVE CallInv'
    OBVIOUS
  <2>1. ASSUME NEW what \in {"hello", "append", "stats", "read", "subscribe", "huge", "large"}, Start(what)
        PROVE  CallInv'
    BY <2>1, StartStep
  <2>2. CASE StreamNext BY <2>2, StreamNextStep
  <2>3. CASE StreamDrop BY <2>3, StreamDropStep
  <2>4. CASE CancelSubscription
    <3>1. /\ open /\ ~ open' /\ toClient' = toClient
          /\ UNCHANGED <<client, nextId, toServer, frames, requests, taken, streams, shifted>>
      BY <2>4 DEF CancelSubscription
    <3> QED BY <3>1, EndsStep
  <2>5. CASE ClientReads BY <2>5, ClientReadsStep
  <2>6. CASE ClientAtEof BY <2>6, ClientAtEofStep
  <2>7. CASE ServerPolls BY <2>7, ServerPollsStep
  <2>8. ASSUME NEW s \in streams, ServerSends(s) PROVE CallInv' BY <2>8, ServerSendsStep
  <2>9. CASE ServerEnds
    <3>1. /\ open /\ ~ open' /\ UNCHANGED <<client, nextId, toServer, frames, requests, taken, streams, shifted>>
          /\ \E k \in {0, Len(toClient)} : toClient' = SubSeq(toClient, 1, k)
      BY <2>9 DEF ServerEnds
    <3>2. toClient \in Seq(Byte) BY <3>1 DEF CallInv, DownOK, DownFits, Cut
    <3>3. SubSeq(toClient, 1, 0) = <<>> /\ SubSeq(toClient, 1, Len(toClient)) = toClient
      BY <3>2
    <3>4. toClient' \in {toClient, <<>>} BY <3>1, <3>3
    <3> QED BY <3>1, <3>4, EndsStep
  <2>10. CASE UNCHANGED callVars BY <2>10, CallStutters
  <2> QED BY <2>1, <2>2, <2>3, <2>4, <2>5, <2>6, <2>7, <2>8, <2>9, <2>10 DEF CallNext
<1> QED BY <1>1, <1>2, PTL DEF CallSpec

\* Whatever the chunks that the bytes arrive in, the server takes every request whole and in the
\* order of the client's ids, and a read that ends with its watermark has yielded every event that
\* was sent for it.
THEOREM MessagesWhole == CallSpec => []MessagesAreWhole
<1>1. CallInv => MessagesAreWhole
  <2> SUFFICES ASSUME CallInv PROVE MessagesAreWhole
    OBVIOUS
  <2>1. TakenFits /\ ReadsAreWhole BY DEF CallInv
  <2>2. taken \in Seq(WireFrame) /\ DOMAIN taken = 1 .. Len(taken) BY <2>1 DEF TakenFits
  <2>3. \A i \in 1 .. Len(taken) : taken[i].id # 0 BY <2>1 DEF TakenFits
  <2> QED BY <2>1, <2>2, <2>3 DEF MessagesAreWhole, RequestsArriveWhole, TakenFits
<1> QED BY <1>1, CallInvHolds, PTL

\* A request meets the response to an earlier one only after a dropped subscription or a frame
\* that could not be taken: the drain of a dropped read leaves nothing of it on the wire.
THEOREM StaysInStep == CallSpec => []StaysAligned
<1>1. CallInv => StaysAligned BY DEF CallInv
<1> QED BY <1>1, CallInvHolds, PTL
=============================================================================

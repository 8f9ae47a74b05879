--------------------------- MODULE ReadPool_proofs ---------------------------
\* Proofs about ReadPool, for any number of workers and streams, every size of batch, channel and
\* queue, and any number of failed reads: what a consumer got is the beginning of its read, and
\* all of it when the stream ended cleanly.
EXTENDS ReadPool, SequenceTheorems, TLAPS

--------------------
\* The inductive invariant. The types first, as in TypeOK but without the queue's injectivity,
\* which is part of OnePlace.
Positions == 1..MaxPublished

Shapes ==
    /\ pool \in {"open", "signalled", "closing", "joined"}
    /\ queue \in Seq(Streams)
    /\ stream \in [Streams -> StreamType]
    /\ worker \in [Workers -> WorkerType]
    /\ faults \in 0..MaxFaults

\* A job is in one place: with the stream that has not submitted it, in the queue, or in the hands
\* of one worker; and while it is in one of them its channel has a sender.
Working == {"start", "scan", "check", "send", "abort"}

Runs(w, s) == worker[w].at \in Working /\ worker[w].s = s

Queued(s) == \E i \in DOMAIN queue : queue[i] = s

Fresh(s) == stream[s].got = <<>> /\ stream[s].out = <<>> /\ stream[s].told = "nothing"

QueueOnce ==
    /\ \A i, j \in DOMAIN queue : queue[i] = queue[j] => i = j
    /\ \A i \in DOMAIN queue, w \in Workers : worker[w].at \in Working => worker[w].s # queue[i]

WorkersApart ==
    /\ \A w \in Workers : worker[w].at \in Working => worker[w].s \in Streams
    /\ \A v, w \in Workers :
           worker[v].at \in Working /\ worker[w].at \in Working /\ worker[v].s = worker[w].s
               => v = w

Submitted(s) ==
    /\ stream[s].at \in {"waiting", "streaming", "dropped"}
    /\ stream[s].at # "dropped" => stream[s].sender

StreamPlace(s) ==
    /\ Queued(s) => Submitted(s) /\ Fresh(s)
    /\ \A w \in Workers : Runs(w, s) => Submitted(s) /\ (worker[w].at = "start" => Fresh(s))
    /\ stream[s].at \in {"unused", "lazy"} => Fresh(s)
    /\ stream[s].at = "lazy" => stream[s].sender
    /\ stream[s].at = "ended" => ~stream[s].sender /\ stream[s].out = <<>>

WorkerPlace(w) ==
    /\ worker[w].at = "start" => worker[w].item = <<>>
    /\ worker[w].at \in {"start", "scan"} => ~worker[w].failed
    /\ worker[w].failed => worker[w].item = <<>>

OnePlace ==
    /\ QueueOnce
    /\ WorkersApart
    /\ \A s \in Streams : StreamPlace(s)
    /\ \A w \in Workers : WorkerPlace(w)

\* Where a read stands. What its consumer got, the batches of its channel and what its worker
\* holds are consecutive pieces of the whole read.
Piece(b, whole, k) ==
    /\ k + Len(b) <= Len(whole)
    /\ \A i \in 1..Len(b) : b[i] = whole[k + i]

Cuts(cut, whole, got, out, e) ==
    /\ cut[1] = Len(got) /\ cut[Len(out) + 1] = e
    /\ Piece(got, whole, 0)
    /\ \A j \in 1..Len(out) : /\ Piece(out[j].batch, whole, cut[j])
                              /\ cut[j + 1] = cut[j] + Len(out[j].batch)

Reaches(whole, got, out, e) ==
    \E cut \in [1..(Len(out) + 1) -> Nat] : Cuts(cut, whole, got, out, e)

Whole(s) == ReadRange(stream[s].job, stream[s].pinned)

InHand(item, reads, whole, e) ==
    /\ Piece(item, whole, e)
    /\ Piece(reads, whole, e + Len(item))
    /\ e + Len(item) + Len(reads) = Len(whole)

Carries(w, s) ==
    Runs(w, s) /\ worker[w].at \in {"scan", "check", "send"} /\ ~worker[w].failed

NoError(s) ==
    stream[s].told = "nothing" /\ \A j \in DOMAIN stream[s].out : stream[s].out[j].err = "none"

CleanSoFar(s) ==
    stream[s].at \in {"waiting", "streaming", "ended"} /\ ~stream[s].sender /\ NoError(s) /\ ~Closing

LedgerAt(s, e) ==
    /\ Reaches(Whole(s), stream[s].got, stream[s].out, e)
    /\ \A w \in Workers : Carries(w, s) /\ stream[s].at # "dropped" =>
           InHand(worker[w].item, worker[w].reads, Whole(s), e)
    /\ CleanSoFar(s) => e = Len(Whole(s))

Ledger(s) == \E e \in Nat : LedgerAt(s, e)

Ledgers == \A s \in Streams : Ledger(s)

BaseInv == Shapes /\ OnePlace /\ Ledgers
--------------------
\* The larger and the smaller of two numbers.
LEMMA PairBounds ==
    ASSUME NEW a \in Int, NEW b \in Int
    PROVE  /\ Max({a, b}) \in {a, b} /\ Max({a, b}) >= a /\ Max({a, b}) >= b
           /\ Min({a, b}) \in {a, b} /\ Min({a, b}) <= a /\ Min({a, b}) <= b
<1>1. \E x \in {a, b} : \A y \in {a, b} : x >= y OBVIOUS
<1>2. \E x \in {a, b} : \A y \in {a, b} : x <= y OBVIOUS
<1>3. Max({a, b}) \in {a, b} /\ \A y \in {a, b} : Max({a, b}) >= y BY <1>1 DEF Max
<1>4. Min({a, b}) \in {a, b} /\ \A y \in {a, b} : Min({a, b}) <= y BY <1>2 DEF Min
<1> QED BY <1>3, <1>4

JobType == [cursor : Nat, reverse : BOOLEAN, limit : Nat \cup {NoLimit}]

LEMMA JobsFacts == Jobs \cup {Unused.job} \subseteq JobType
<1>1. Unused.job \in JobType BY DEF Unused, JobType, NoLimit
<1>2. Jobs \subseteq JobType BY ReadPoolAssumption DEF JobType
<1> QED BY <1>1, <1>2

\* A read yields positions of the log.
LEMMA RangeType ==
    ASSUME NEW job \in JobType, NEW upto \in 0..MaxPublished
    PROVE  ReadRange(job, upto) \in Seq(Positions)
<1> DEFINE first == IF job.reverse THEN 1 ELSE job.cursor + 1
           low   == Max({job.cursor - 1, 0})
           last  == IF job.reverse THEN Min({upto, low}) ELSE upto
           count == Max({last - first + 1, 0})
           all   == [i \in 1..count |-> IF job.reverse THEN last + 1 - i ELSE first + i - 1]
           n     == IF job.limit = NoLimit THEN count ELSE Min({count, job.limit})
<1>1. job.cursor \in Nat /\ job.reverse \in BOOLEAN /\ (job.limit = NoLimit \/ job.limit \in Nat)
  BY DEF JobType
<1>2. MaxPublished \in Nat /\ upto \in Nat /\ upto <= MaxPublished BY ReadPoolAssumption
<1>3. low \in Int
  <2>1. job.cursor - 1 \in Int /\ 0 \in Int BY <1>1
  <2>2. low \in {job.cursor - 1, 0} BY <2>1, PairBounds, Zenon
  <2> QED BY <2>1, <2>2
<1> HIDE DEF low
<1>4. last \in Int /\ last <= upto
  <2>1. upto \in Int BY <1>2
  <2>2. Min({upto, low}) \in {upto, low} /\ Min({upto, low}) <= upto
    BY <1>3, <2>1, PairBounds, Zenon
  <2> QED BY <1>1, <1>2, <1>3, <2>2
<1>5. first \in Nat /\ first >= 1 /\ (job.reverse => first = 1) BY <1>1
<1> HIDE DEF first, last
<1>6. count \in Nat /\ (count = last - first + 1 \/ count = 0)
  <2>1. last - first + 1 \in Int /\ 0 \in Int BY <1>4, <1>5
  <2>2. count \in {last - first + 1, 0} /\ count >= 0 BY <2>1, PairBounds, Zenon
  <2> QED BY <2>1, <2>2
<1> HIDE DEF count
<1>7. n \in Nat /\ n <= count
  <2>1. CASE job.limit = NoLimit BY <1>6, <2>1
  <2>2. CASE job.limit # NoLimit
    <3>1. count \in Int /\ job.limit \in Int /\ job.limit \in Nat BY <1>1, <1>6, <2>2
    <3>2. Min({count, job.limit}) \in {count, job.limit} /\ Min({count, job.limit}) <= count
      BY <3>1, PairBounds, Zenon
    <3> QED BY <1>6, <2>2, <3>1, <3>2
  <2> QED BY <2>1, <2>2
<1> HIDE DEF n
<1>8. ASSUME NEW i \in 1..n PROVE all[i] \in Positions
  <2>1. i \in 1..count /\ count = last - first + 1 BY <1>4, <1>5, <1>6, <1>7
  <2>2. all[i] = IF job.reverse THEN last + 1 - i ELSE first + i - 1 BY <2>1
  <2> HIDE DEF all
  <2> QED BY <1>1, <1>2, <1>4, <1>5, <1>6, <1>7, <2>1, <2>2 DEF Positions
<1> HIDE DEF all
<1>9. SubSeq(all, 1, n) \in Seq(Positions) BY <1>7, <1>8, SubSeqProperties
<1>10. ReadRange(job, upto) = SubSeq(all, 1, n)
  BY DEF ReadRange, first, low, last, count, all, n
<1> QED BY <1>9, <1>10

LEMMA WholeType ==
    ASSUME Shapes, NEW s \in Streams
    PROVE  Whole(s) \in Seq(Positions)
<1>1. stream[s].job \in JobType /\ stream[s].pinned \in 0..MaxPublished
  BY JobsFacts DEF Shapes, StreamType
<1> QED BY <1>1, RangeType DEF Whole

LEMMA WholeTypeNext ==
    ASSUME Shapes', NEW s \in Streams
    PROVE  Whole(s)' \in Seq(Positions)
<1>1. stream'[s].job \in JobType /\ stream'[s].pinned \in 0..MaxPublished
  BY JobsFacts DEF Shapes, StreamType
<1> QED BY <1>1, RangeType DEF Whole

\* The parts of the state's records.
LEMMA StreamTypes ==
    ASSUME Shapes, NEW s \in Streams
    PROVE  /\ stream[s] \in StreamType
           /\ stream[s].at \in {"unused", "lazy", "waiting", "streaming", "ended", "dropped"}
           /\ stream[s].out \in Seq(Item) /\ stream[s].got \in Seq(Positions)
           /\ stream[s].sender \in BOOLEAN
           /\ stream[s].told \in {"nothing", "error", "aborted"}
  BY DEF Shapes, StreamType, Positions

Ats == {"unused", "lazy", "waiting", "streaming", "ended", "dropped"}

\* A stream's record with some of its parts replaced.
LEMMA StreamParts ==
    ASSUME NEW r \in StreamType
    PROVE  /\ \A a \in Ats : [r EXCEPT !.at = a] \in StreamType
           /\ \A a \in Ats, j \in Jobs, b \in BOOLEAN :
                 [r EXCEPT !.at = a, !.job = j, !.sender = b] \in StreamType
           /\ \A p \in 0..MaxPublished : [r EXCEPT !.pinned = p] \in StreamType
           /\ \A b \in BOOLEAN : [r EXCEPT !.sender = b] \in StreamType
           /\ \A o \in Seq(Item), b \in BOOLEAN :
                 [r EXCEPT !.out = o, !.sender = b] \in StreamType
           /\ \A a \in Ats, o \in Seq(Item), b \in BOOLEAN :
                 [r EXCEPT !.at = a, !.out = o, !.sender = b] \in StreamType
           /\ \A o \in Seq(Item), g \in Seq(Positions), t \in {"nothing", "error", "aborted"} :
                 [r EXCEPT !.out = o, !.got = g, !.told = t] \in StreamType
<1> DEFINE J == Jobs \cup {Unused.job}
           P == Seq(1..MaxPublished)
           O == Seq(Item)
           N == 0..MaxPublished
<1>1. StreamType = [at : Ats, job : J, pinned : N, out : O, sender : BOOLEAN, got : P,
                    told : {"nothing", "error", "aborted"}]
  BY DEF StreamType, Ats
<1>2. Jobs \subseteq J /\ Seq(Positions) = P BY DEF Positions
<1> HIDE DEF J, P, O, N
<1>3. /\ \A a \in Ats : [r EXCEPT !.at = a] \in StreamType
      /\ \A a \in Ats, j \in J, b \in BOOLEAN :
            [r EXCEPT !.at = a, !.job = j, !.sender = b] \in StreamType
      /\ \A p \in N : [r EXCEPT !.pinned = p] \in StreamType
      /\ \A b \in BOOLEAN : [r EXCEPT !.sender = b] \in StreamType
      /\ \A o \in O, b \in BOOLEAN :
            [r EXCEPT !.out = o, !.sender = b] \in StreamType
  BY <1>1
<1>4. /\ \A a \in Ats, o \in O, b \in BOOLEAN :
            [r EXCEPT !.at = a, !.out = o, !.sender = b] \in StreamType
      /\ \A o \in O, g \in P, t \in {"nothing", "error", "aborted"} :
            [r EXCEPT !.out = o, !.got = g, !.told = t] \in StreamType
  BY <1>1
<1> QED BY <1>2, <1>3, <1>4 DEF N, O

LEMMA WorkerTypes ==
    ASSUME Shapes, NEW w \in Workers
    PROVE  /\ worker[w] \in WorkerType
           /\ worker[w].at \in {"idle", "start", "scan", "check", "send", "abort", "exited"}
           /\ worker[w].reads \in Seq(Positions) /\ worker[w].item \in Seq(Positions)
           /\ worker[w].failed \in BOOLEAN
  BY DEF Shapes, WorkerType, Positions

LEMMA IdleType == IdleWorker \in WorkerType
  BY DEF IdleWorker, WorkerType, Nobody

\* The item a worker sends.
LEMMA ItemTypes ==
    /\ \A b \in Seq(Positions), f \in {"none", "error", "aborted"} : [batch |-> b, err |-> f] \in Item
    /\ \A item \in Item : item.batch \in Seq(Positions) /\ item.err \in {"none", "error", "aborted"}
    /\ [batch |-> <<>>, err |-> "aborted"] \in Item
  BY DEF Item, Positions

\* The steps of a consumer and of the pool's owner keep the shapes.
CallerStep(s) == (\E job \in Jobs : Read(s, job)) \/ Poll(s) \/ Take(s) \/ DropStream(s)

OwnerStep == Signal \/ ClosePool

LEMMA RemoveAtFacts ==
    ASSUME NEW q \in Seq(Streams), NEW k \in DOMAIN q
    PROVE  /\ RemoveAt(q, k) \in Seq(Streams)
           /\ Len(RemoveAt(q, k)) = Len(q) - 1
           /\ \A i \in 1..Len(q) - 1 : RemoveAt(q, k)[i] = IF i < k THEN q[i] ELSE q[i + 1]
<1>1. Len(q) \in Nat /\ k \in 1..Len(q) /\ \A i \in 1..Len(q) : q[i] \in Streams
  BY LenProperties
<1> DEFINE f == SubSeq(q, 1, k - 1)
           g == SubSeq(q, k + 1, Len(q))
<1>2. f \in Seq(Streams) /\ Len(f) = k - 1 /\ \A i \in 1..k - 1 : f[i] = q[i]
  <2>1. k - 1 \in Int /\ 1 \in Int /\ \A i \in 1..k - 1 : q[i] \in Streams BY <1>1
  <2>2. /\ f \in Seq(Streams) /\ Len(f) = IF 1 <= k - 1 THEN k - 1 - 1 + 1 ELSE 0
        /\ \A i \in 1..k - 1 - 1 + 1 : f[i] = q[1 + i - 1]
    BY <2>1, SubSeqProperties
  <2> HIDE DEF f
  <2> QED BY <1>1, <2>2
<1>3. g \in Seq(Streams) /\ Len(g) = Len(q) - k /\ \A i \in 1..Len(q) - k : g[i] = q[k + i]
  <2>1. k + 1 \in Int /\ Len(q) \in Int /\ \A i \in k + 1..Len(q) : q[i] \in Streams
    BY <1>1
  <2>2. /\ g \in Seq(Streams) /\ Len(g) = IF k + 1 <= Len(q) THEN Len(q) - (k + 1) + 1 ELSE 0
        /\ \A i \in 1..Len(q) - (k + 1) + 1 : g[i] = q[k + 1 + i - 1]
    BY <2>1, SubSeqProperties
  <2> HIDE DEF g
  <2> QED BY <1>1, <2>2
<1> HIDE DEF f, g
<1>4. /\ f \o g \in Seq(Streams) /\ Len(f \o g) = Len(f) + Len(g)
      /\ \A i \in 1..Len(f) + Len(g) : (f \o g)[i] = IF i <= Len(f) THEN f[i] ELSE g[i - Len(f)]
  BY <1>2, <1>3, ConcatProperties
<1>5. RemoveAt(q, k) = f \o g BY DEF RemoveAt, f, g
<1>6. PICK fg \in Seq(Streams) : fg = f \o g BY <1>4
<1>7. Len(fg) = Len(q) - 1 BY <1>1, <1>2, <1>3, <1>4, <1>6
<1>8. ASSUME NEW i \in 1..Len(q) - 1 PROVE fg[i] = IF i < k THEN q[i] ELSE q[i + 1]
  <2>1. i \in 1..Len(f) + Len(g) BY <1>1, <1>2, <1>3
  <2>2. fg[i] = IF i <= Len(f) THEN f[i] ELSE g[i - Len(f)] BY <1>4, <1>6, <2>1
  <2>3. CASE i < k BY <1>1, <1>2, <2>2, <2>3
  <2>4. CASE ~(i < k)
    <3>1. i - Len(f) \in 1..Len(q) - k /\ ~(i <= Len(f)) /\ k + (i - Len(f)) = i + 1
      BY <1>1, <1>2, <2>4
    <3>2. g[i - Len(f)] = q[i + 1] BY <1>3, <3>1
    <3> QED BY <2>2, <2>4, <3>1, <3>2
  <2> QED BY <2>3, <2>4
<1> QED BY <1>5, <1>6, <1>7, <1>8

\* A job that was not accepted is in the queue.
LEMMA NotAccepted ==
    ASSUME Shapes, NEW s \in Streams, ~Accepted(s)
    PROVE  \E k \in DOMAIN queue : /\ queue[k] = s
                                   /\ k = CHOOSE i \in DOMAIN queue : queue[i] = s
<1>1. queue \in Seq(Streams) /\ Len(queue) \in Nat /\ DOMAIN queue = 1..Len(queue)
  BY LenProperties DEF Shapes
<1>2. QueueCapacity \in Nat BY ReadPoolAssumption
<1> DEFINE t == SubSeq(queue, QueueCapacity + 1, Len(queue))
<1>3. PICK j \in DOMAIN t : t[j] = s BY DEF Accepted, ToSet
<1>4. \A i \in QueueCapacity + 1..Len(queue) : queue[i] \in Streams BY <1>1, <1>2
<1>5. /\ t \in Seq(Streams)
      /\ Len(t) = IF QueueCapacity + 1 <= Len(queue) THEN Len(queue) - (QueueCapacity + 1) + 1 ELSE 0
      /\ \A i \in 1..Len(queue) - (QueueCapacity + 1) + 1 : t[i] = queue[QueueCapacity + 1 + i - 1]
  BY <1>1, <1>2, <1>4, SubSeqProperties
<1> HIDE DEF t
<1>6. j \in 1..Len(t) /\ Len(t) \in Nat BY <1>3, <1>5, LenProperties
<1>7. QueueCapacity + 1 + j - 1 \in DOMAIN queue /\ queue[QueueCapacity + 1 + j - 1] = s
  <2>0. PICK n \in Nat, l \in Nat :
            /\ n = Len(t) /\ l = Len(queue) /\ j \in 1..n
            /\ n = IF QueueCapacity + 1 <= l THEN l - (QueueCapacity + 1) + 1 ELSE 0
    BY <1>1, <1>5, <1>6, Zenon
  <2>1. QueueCapacity + 1 <= Len(queue) /\ j \in 1..Len(queue) - (QueueCapacity + 1) + 1
    BY <1>2, <2>0
  <2>2. t[j] = queue[QueueCapacity + 1 + j - 1] BY <1>5, <2>1
  <2>3. QueueCapacity + 1 + j - 1 \in 1..Len(queue) BY <1>1, <1>2, <2>1
  <2> QED BY <1>1, <1>3, <2>2, <2>3, Zenon
<1> QED BY <1>7

LEMMA CallerShapes ==
    ASSUME Shapes, NEW s \in Streams, CallerStep(s)
    PROVE  Shapes'
<1>1. stream[s] \in StreamType /\ stream \in [Streams -> StreamType] /\ queue \in Seq(Streams)
  BY DEF Shapes
<1>2. CASE \E job \in Jobs : Read(s, job)
  <2>1. PICK job \in Jobs : stream' = [stream EXCEPT ![s] =
                               [stream[s] EXCEPT !.at = "lazy", !.job = job, !.sender = TRUE]]
    BY <1>1, <1>2 DEF Read
  <2>2. [stream[s] EXCEPT !.at = "lazy", !.job = job, !.sender = TRUE] \in StreamType
    BY <1>1, StreamParts DEF Ats
  <2>3. stream' \in [Streams -> StreamType] BY <1>1, <2>1, <2>2
  <2> QED BY <1>2, <2>3 DEF Read, Shapes
<1>3. CASE PollSubmit(s)
  <2>1. stream' \in [Streams -> StreamType] BY <1>1, <1>3 DEF PollSubmit, StreamType
  <2>2. queue' \in Seq(Streams) BY <1>1, <1>3 DEF PollSubmit
  <2> QED BY <1>3, <2>1, <2>2 DEF PollSubmit, Shapes
<1>4. CASE PollWaiting(s) \/ PollEnd(s)
  <2>2. \A a \in Ats : [stream[s] EXCEPT !.at = a] \in StreamType BY <1>1, StreamParts
  <2>3. \E a \in Ats : stream' = [stream EXCEPT ![s] = [stream[s] EXCEPT !.at = a]]
    BY <1>1, <1>4 DEF PollWaiting, PollEnd, Ats
  <2>1. stream' \in [Streams -> StreamType] BY <1>1, <2>2, <2>3
  <2> QED BY <1>4, <2>1 DEF PollWaiting, PollEnd, Shapes
<1>5. CASE PollItem(s)
  <2>1. stream[s].out \in Seq(Item) /\ stream[s].out # <<>> /\ stream[s].got \in Seq(Positions)
    BY <1>5, StreamTypes DEF PollItem
  <2>2. Head(stream[s].out) \in Item /\ Tail(stream[s].out) \in Seq(Item) BY <2>1
  <2>3. PICK item \in Item : item = Head(stream[s].out) BY <2>2
  <2>4. item.batch \in Seq(Positions) /\ item.err \in {"none", "error", "aborted"}
    BY ItemTypes
  <2>5. PICK g \in Seq(Positions) : g = stream[s].got \o item.batch
    BY <2>1, <2>4, ConcatProperties
  <2>6. PICK t \in {"nothing", "error", "aborted"} :
            t = IF item.err = "none" THEN stream[s].told ELSE item.err
    BY <2>4, StreamTypes
  <2>7. PICK o \in Seq(Item) : o = Tail(stream[s].out) BY <2>2
  <2>8. stream' = [stream EXCEPT ![s].out = o, ![s].got = g, ![s].told = t]
    BY <1>5, <2>3, <2>5, <2>6, <2>7 DEF PollItem
  <2>9. stream' \in [Streams -> StreamType] BY <1>1, <2>8, StreamParts
  <2> QED BY <1>5, <2>9 DEF PollItem, Shapes
<1>6. CASE DropStream(s)
  <2>1. PICK b \in BOOLEAN : stream' = [stream EXCEPT ![s].at = "dropped", ![s].out = <<>>,
                                                       ![s].sender = b]
    BY <1>1, <1>6 DEF DropStream, StreamType
  <2>2. stream' \in [Streams -> StreamType]
    <3>1. "dropped" \in Ats /\ <<>> \in Seq(Item) BY DEF Ats
    <3>2. [stream[s] EXCEPT !.at = "dropped", !.out = <<>>, !.sender = b] \in StreamType
      BY <1>1, <3>1, StreamParts
    <3> QED BY <1>1, <2>1, <3>2
  <2>3. queue' \in Seq(Streams)
    <3>1. CASE Accepted(s) BY <1>1, <1>6, <3>1 DEF DropStream
    <3>2. CASE ~Accepted(s)
      <4>1. PICK k \in DOMAIN queue : k = CHOOSE i \in DOMAIN queue : queue[i] = s
        BY <3>2, NotAccepted
      <4>2. queue' = RemoveAt(queue, k) BY <1>6, <3>2, <4>1 DEF DropStream
      <4> QED BY <1>1, <4>2, RemoveAtFacts
    <3> QED BY <3>1, <3>2
  <2> QED BY <1>6, <2>2, <2>3 DEF DropStream, Shapes
<1> QED BY <1>2, <1>3, <1>4, <1>5, <1>6 DEF CallerStep, Poll, Take

LEMMA OwnerShapes == Shapes /\ OwnerStep => Shapes'
  BY DEF OwnerStep, ClosePool, Signal, DropSender, Join, Shapes

\* A worker's record with some of its parts replaced.
WorkerAts == {"idle", "start", "scan", "check", "send", "abort", "exited"}

LEMMA WorkerParts ==
    ASSUME NEW r \in WorkerType
    PROVE  /\ \A a \in WorkerAts : [r EXCEPT !.at = a] \in WorkerType
           /\ \A a \in WorkerAts, p \in Seq(Positions) :
                 /\ [r EXCEPT !.at = a, !.reads = p] \in WorkerType
                 /\ [r EXCEPT !.at = a, !.item = p] \in WorkerType
           /\ \A a \in WorkerAts, p, q \in Seq(Positions) :
                 [r EXCEPT !.at = a, !.reads = p, !.item = q] \in WorkerType
           /\ \A a \in WorkerAts, p, q \in Seq(Positions), b \in BOOLEAN :
                 [r EXCEPT !.at = a, !.failed = b, !.reads = p, !.item = q] \in WorkerType
           /\ \A a \in WorkerAts, s \in Streams : [r EXCEPT !.at = a, !.s = s] \in WorkerType
<1> DEFINE P == Seq(1..MaxPublished)
           S == Streams \cup {Nobody}
<1>1. WorkerType = [at : WorkerAts, s : S, reads : P, item : P, failed : BOOLEAN]
  BY DEF WorkerType, WorkerAts
<1>2. Streams \subseteq S /\ Seq(Positions) = P BY DEF Positions
<1> HIDE DEF P, S
<1>3. /\ \A a \in WorkerAts : [r EXCEPT !.at = a] \in WorkerType
      /\ \A a \in WorkerAts, p \in P :
            /\ [r EXCEPT !.at = a, !.reads = p] \in WorkerType
            /\ [r EXCEPT !.at = a, !.item = p] \in WorkerType
      /\ \A a \in WorkerAts, p, q \in P :
            [r EXCEPT !.at = a, !.reads = p, !.item = q] \in WorkerType
      /\ \A a \in WorkerAts, p, q \in P, b \in BOOLEAN :
            [r EXCEPT !.at = a, !.failed = b, !.reads = p, !.item = q] \in WorkerType
      /\ \A a \in WorkerAts, s \in S : [r EXCEPT !.at = a, !.s = s] \in WorkerType
  BY <1>1
<1> QED BY <1>2, <1>3

WorkStep(w) == Work(w) \/ ScanFails(w) \/ Panic(w)

\* A step that replaces at most one stream and one worker by records of their types keeps the
\* shapes.
LEMMA ReplaceShapes ==
    ASSUME Shapes, NEW w \in Workers, NEW x \in WorkerType,
           worker' = [worker EXCEPT ![w] = x],
           \/ stream' = stream
           \/ \E s \in Streams, r \in StreamType : stream' = [stream EXCEPT ![s] = r],
           queue' \in Seq(Streams), pool' = pool, faults' \in 0..MaxFaults
    PROVE  Shapes'
<1>1. stream' \in [Streams -> StreamType] BY DEF Shapes
<1>2. worker' \in [Workers -> WorkerType] BY DEF Shapes
<1> QED BY <1>1, <1>2 DEF Shapes

LEMMA WorkerShapes ==
    ASSUME Shapes, WorkersApart, NEW w \in Workers, WorkStep(w)
    PROVE  Shapes'
<1>1. /\ worker[w] \in WorkerType /\ worker \in [Workers -> WorkerType]
      /\ stream \in [Streams -> StreamType] /\ queue \in Seq(Streams) /\ faults \in 0..MaxFaults
  BY DEF Shapes
<1>2. worker[w].at \in Working => worker[w].s \in Streams /\ stream[worker[w].s] \in StreamType
  BY <1>1 DEF WorkersApart
<1>3. MaxFaults \in Nat /\ WorkerAts = WorkerAts BY ReadPoolAssumption
<1>4. ASSUME FinishJob(w), UNCHANGED <<pool, queue, faults>>, worker[w].at \in Working PROVE Shapes'
  <2>1. worker' = [worker EXCEPT ![w] = IdleWorker] BY <1>4 DEF FinishJob
  <2>2. stream' = [stream EXCEPT ![worker[w].s] = [stream[worker[w].s] EXCEPT !.sender = FALSE]]
    BY <1>1, <1>2, <1>4 DEF FinishJob
  <2>3. [stream[worker[w].s] EXCEPT !.sender = FALSE] \in StreamType
    BY <1>2, <1>4, StreamParts
  <2>4. \E s \in Streams, r \in StreamType : stream' = [stream EXCEPT ![s] = r]
    BY <1>2, <1>4, <2>2, <2>3
  <2> QED BY <1>1, <1>4, <2>1, <2>4, IdleType, ReplaceShapes
<1>5. ASSUME NEW a \in WorkerAts, worker' = [worker EXCEPT ![w].at = a],
             UNCHANGED <<pool, queue, stream, faults>>
      PROVE  Shapes'
  <2>1. worker' = [worker EXCEPT ![w] = [worker[w] EXCEPT !.at = a]] BY <1>1, <1>5
  <2>2. [worker[w] EXCEPT !.at = a] \in WorkerType BY <1>1, WorkerParts
  <2> QED BY <1>1, <1>5, <2>1, <2>2, ReplaceShapes
<1>6. CASE Receive(w)
  <2>1. Head(queue) \in Streams /\ Tail(queue) \in Seq(Streams) BY <1>1, <1>6 DEF Receive
  <2>2. [IdleWorker EXCEPT !.at = "start", !.s = Head(queue)] \in WorkerType
    BY <2>1, IdleType, WorkerParts DEF WorkerAts
  <2>3. worker' = [worker EXCEPT ![w] = [IdleWorker EXCEPT !.at = "start", !.s = Head(queue)]]
    BY <1>6 DEF Receive
  <2>4. queue' \in Seq(Streams) /\ UNCHANGED <<pool, stream, faults>>
    BY <1>6, <2>1 DEF Receive
  <2> QED BY <1>1, <2>2, <2>3, <2>4, ReplaceShapes
<1>7. CASE BeginRead(w)
  <2>1. worker[w].s \in Streams /\ stream[worker[w].s] \in StreamType
    BY <1>2, <1>7 DEF BeginRead, Working
  <2>2. PICK p \in 0..MaxPublished :
            /\ worker' = [worker EXCEPT ![w].at = "scan",
                                        ![w].reads = ReadRange(stream[worker[w].s].job, p)]
            /\ stream' = [stream EXCEPT ![worker[w].s].pinned = p]
    BY <1>7 DEF BeginRead
  <2>3. PICK reads \in Seq(Positions) : reads = ReadRange(stream[worker[w].s].job, p)
    <3>1. stream[worker[w].s].job \in JobType BY <2>1, JobsFacts DEF StreamType
    <3> QED BY <3>1, RangeType
  <2>4. [worker[w] EXCEPT !.at = "scan", !.reads = reads] \in WorkerType
    BY <1>1, WorkerParts DEF WorkerAts
  <2>5. worker' = [worker EXCEPT ![w] = [worker[w] EXCEPT !.at = "scan", !.reads = reads]]
    BY <1>1, <2>2, <2>3
  <2>6. [stream[worker[w].s] EXCEPT !.pinned = p] \in StreamType BY <2>1, StreamParts
  <2>7. \E s \in Streams, r \in StreamType : stream' = [stream EXCEPT ![s] = r]
    <3>1. stream' = [stream EXCEPT ![worker[w].s] = [stream[worker[w].s] EXCEPT !.pinned = p]]
      BY <1>1, <2>1, <2>2
    <3> QED BY <2>1, <2>6, <3>1
  <2>8. UNCHANGED <<pool, queue, faults>> BY <1>7 DEF BeginRead
  <2> QED BY <1>1, <2>4, <2>5, <2>7, <2>8, ReplaceShapes
<1>8. CASE ScanNext(w)
  <2>1. worker[w].reads \in Seq(Positions) /\ worker[w].item \in Seq(Positions)
        /\ worker[w].reads # <<>>
    BY <1>8, WorkerTypes DEF ScanNext
  <2>2. Head(worker[w].reads) \in Positions /\ Tail(worker[w].reads) \in Seq(Positions)
    BY <2>1
  <2>3. PICK p \in Seq(Positions), b \in Seq(Positions), a \in WorkerAts :
            worker' = [worker EXCEPT ![w].reads = p, ![w].item = b, ![w].at = a]
    <3>1. PICK b \in Seq(Positions) : b = Append(worker[w].item, Head(worker[w].reads))
      BY <2>1, <2>2, AppendProperties
    <3>2. PICK a \in WorkerAts : a = IF BatchFull(b) THEN "check" ELSE "scan"
      BY DEF WorkerAts
    <3>3. worker' = [worker EXCEPT ![w].reads = Tail(@), ![w].item = b, ![w].at = a]
      BY <1>8, <3>1, <3>2 DEF ScanNext
    <3> QED BY <1>1, <2>2, <3>3
  <2>4. [worker[w] EXCEPT !.at = a, !.reads = p, !.item = b] \in WorkerType
    BY <1>1, WorkerParts
  <2>5. worker' = [worker EXCEPT ![w] = [worker[w] EXCEPT !.at = a, !.reads = p, !.item = b]]
    BY <1>1, <2>3
  <2>6. UNCHANGED <<pool, queue, stream, faults>> BY <1>8 DEF ScanNext
  <2> QED BY <1>1, <2>4, <2>5, <2>6, ReplaceShapes
<1>9. CASE ScanEnd(w) \/ SendCheck(w) \/ SendTimeout(w) \/ SendDisconnected(w) \/ WorkerExit(w)
  <2>1. \/ /\ FinishJob(w) /\ worker[w].at \in Working
           /\ UNCHANGED <<pool, queue, faults>>
        \/ /\ UNCHANGED <<pool, queue, stream, faults>>
           /\ \E a \in WorkerAts : worker' = [worker EXCEPT ![w].at = a]
    <3>1. {"check", "send", "exited"} \subseteq WorkerAts /\ {"scan", "check", "send"} \subseteq Working
      BY DEF WorkerAts, Working
    <3> QED BY <1>9, <3>1 DEF ScanEnd, SendCheck, SendTimeout, SendDisconnected, WorkerExit
  <2> QED BY <1>4, <1>5, <2>1
<1>10. CASE SendOk(w)
  <2>1. worker[w].s \in Streams /\ stream[worker[w].s] \in StreamType
    BY <1>2, <1>10 DEF SendOk, Working
  <2> DEFINE s == worker[w].s
  <2>2. PICK item \in Item : item = [batch |-> worker[w].item,
                                     err |-> IF worker[w].failed THEN "error" ELSE "none"]
    BY WorkerTypes, ItemTypes
  <2>3. PICK done \in BOOLEAN : done = (worker[w].failed \/ (worker[w].reads = <<>>
                                          /\ ~BatchFull(worker[w].item)))
    BY DEF BatchFull
  <2>4. /\ stream' = [stream EXCEPT ![s].out = Append(@, item), ![s].sender = ~done]
        /\ worker' = [worker EXCEPT ![w] = IF done THEN IdleWorker
                         ELSE [@ EXCEPT !.at = "scan", !.item = <<>>]]
        /\ UNCHANGED <<pool, queue, faults>>
    BY <1>10, <2>2, <2>3 DEF SendOk
  <2>5. PICK x \in WorkerType : worker' = [worker EXCEPT ![w] = x]
    <3>1. "scan" \in WorkerAts /\ <<>> \in Seq(Positions) BY DEF WorkerAts
    <3>2. [worker[w] EXCEPT !.at = "scan", !.item = <<>>] \in WorkerType
      BY <1>1, <3>1, WorkerParts
    <3> QED BY <1>1, <2>4, <3>2, IdleType
  <2>6. PICK o \in Seq(Item) : o = Append(stream[s].out, item)
    BY <2>1, StreamTypes, AppendProperties
  <2>7. [stream[s] EXCEPT !.out = o, !.sender = ~done] \in StreamType BY <2>1, StreamParts
  <2>8. stream' = [stream EXCEPT ![s] = [stream[s] EXCEPT !.out = o, !.sender = ~done]]
    BY <1>1, <2>1, <2>4, <2>6
  <2>9. \E t \in Streams, r \in StreamType : stream' = [stream EXCEPT ![t] = r]
    BY <2>1, <2>7, <2>8
  <2> QED BY <1>1, <2>4, <2>5, <2>9, ReplaceShapes
<1>11. CASE SendAborted(w)
  <2>1. worker[w].s \in Streams /\ stream[worker[w].s] \in StreamType
    BY <1>2, <1>11 DEF SendAborted, Working
  <2> DEFINE s == worker[w].s
  <2>2. PICK o \in Seq(Item) :
            o = IF stream[s].at = "dropped" THEN stream[s].out
                ELSE Append(stream[s].out, [batch |-> <<>>, err |-> "aborted"])
    <3>1. stream[s].out \in Seq(Item) /\ [batch |-> <<>>, err |-> "aborted"] \in Item
      BY <2>1, StreamTypes, ItemTypes
    <3>2. Append(stream[s].out, [batch |-> <<>>, err |-> "aborted"]) \in Seq(Item)
      BY <3>1, AppendProperties
    <3> QED BY <3>1, <3>2
  <2>3. /\ stream' = [stream EXCEPT ![s] = [stream[s] EXCEPT !.out = o, !.sender = FALSE]]
        /\ worker' = [worker EXCEPT ![w] = IdleWorker]
        /\ UNCHANGED <<pool, queue, faults>>
    BY <1>1, <1>11, <2>1, <2>2 DEF SendAborted
  <2>4. [stream[s] EXCEPT !.out = o, !.sender = FALSE] \in StreamType BY <2>1, StreamParts
  <2>5. \E t \in Streams, r \in StreamType : stream' = [stream EXCEPT ![t] = r]
    BY <2>1, <2>3, <2>4
  <2> QED BY <1>1, <2>3, <2>5, IdleType, ReplaceShapes
<1>12. CASE ScanFails(w) \/ Panic(w)
  <2>1. faults' \in 0..MaxFaults /\ UNCHANGED <<pool, queue, stream>>
    BY <1>1, <1>3, <1>12 DEF ScanFails, Panic
  <2>2. \/ worker' = [worker EXCEPT ![w] = [worker[w] EXCEPT !.at = "check", !.failed = TRUE,
                                                  !.reads = <<>>, !.item = <<>>]]
        \/ worker' = [worker EXCEPT ![w] = [worker[w] EXCEPT !.at = "abort", !.reads = <<>>,
                                                  !.item = <<>>]]
    BY <1>1, <1>12 DEF ScanFails, Panic
  <2>3. "check" \in WorkerAts /\ "abort" \in WorkerAts /\ <<>> \in Seq(Positions)
    BY DEF WorkerAts
  <2>4. /\ [worker[w] EXCEPT !.at = "check", !.failed = TRUE, !.reads = <<>>, !.item = <<>>]
               \in WorkerType
        /\ [worker[w] EXCEPT !.at = "abort", !.reads = <<>>, !.item = <<>>] \in WorkerType
    BY <1>1, <2>3, WorkerParts
  <2> QED BY <1>1, <2>1, <2>2, <2>4, ReplaceShapes
<1> QED BY <1>6, <1>7, <1>8, <1>9, <1>10, <1>11, <1>12 DEF WorkStep, Work

--------------------
\* A consumer's step leaves every job where it is, or puts its own in the queue or takes it out.
LEMMA OtherStreams ==
    ASSUME Shapes, NEW s \in Streams, CallerStep(s)
    PROVE  /\ \A t \in Streams : t # s => stream'[t] = stream[t]
           /\ worker' = worker /\ pool' = pool
  BY DEF CallerStep, Read, Poll, PollSubmit, PollWaiting, Take, PollItem, PollEnd, DropStream, Shapes

LEMMA PollSubmitEffect ==
    ASSUME Shapes, NEW s \in Streams, PollSubmit(s)
    PROVE  /\ stream'[s].at \in {"waiting", "streaming"} /\ stream[s].at = "lazy"
           /\ stream'[s].got = stream[s].got /\ stream'[s].out = stream[s].out
           /\ stream'[s].told = stream[s].told /\ stream'[s].sender = stream[s].sender
           /\ stream'[s].job = stream[s].job /\ stream'[s].pinned = stream[s].pinned
           /\ queue' = Append(queue, s)
  BY DEF PollSubmit, Shapes, StreamType

LEMMA DropStreamEffect ==
    ASSUME Shapes, NEW s \in Streams, DropStream(s)
    PROVE  /\ stream'[s].at = "dropped" /\ stream'[s].out = <<>>
           /\ stream[s].at \in {"lazy", "waiting", "streaming"}
           /\ stream'[s].got = stream[s].got /\ stream'[s].told = stream[s].told
           /\ stream'[s].job = stream[s].job /\ stream'[s].pinned = stream[s].pinned
  BY DEF DropStream, Shapes, StreamType

LEMMA ReadEffect ==
    ASSUME Shapes, NEW s \in Streams, NEW job \in Jobs, Read(s, job)
    PROVE  /\ stream'[s].at = "lazy" /\ stream'[s].sender /\ stream[s].at = "unused"
           /\ stream'[s].got = stream[s].got /\ stream'[s].out = stream[s].out
           /\ stream'[s].told = stream[s].told
           /\ queue' = queue
  BY DEF Read, Shapes, StreamType

LEMMA PollEffect ==
    ASSUME Shapes, NEW s \in Streams, PollWaiting(s) \/ PollEnd(s)
    PROVE  /\ PollWaiting(s) => stream[s].at = "waiting" /\ stream'[s].at = "streaming"
           /\ PollEnd(s) => /\ stream[s].at = "streaming" /\ stream'[s].at = "ended"
                            /\ stream[s].out = <<>> /\ ~stream[s].sender
           /\ stream'[s].got = stream[s].got /\ stream'[s].out = stream[s].out
           /\ stream'[s].told = stream[s].told /\ stream'[s].sender = stream[s].sender
           /\ stream'[s].job = stream[s].job /\ stream'[s].pinned = stream[s].pinned
           /\ queue' = queue
  BY DEF PollWaiting, PollEnd, Shapes, StreamType

LEMMA PollItemEffect ==
    ASSUME Shapes, NEW s \in Streams, PollItem(s)
    PROVE  /\ stream[s].at = "streaming" /\ stream'[s].at = "streaming"
           /\ stream[s].out # <<>> /\ stream'[s].out = Tail(stream[s].out)
           /\ stream'[s].got = stream[s].got \o Head(stream[s].out).batch
           /\ stream'[s].told = IF Head(stream[s].out).err = "none" THEN stream[s].told
                                ELSE Head(stream[s].out).err
           /\ stream'[s].sender = stream[s].sender
           /\ stream'[s].job = stream[s].job /\ stream'[s].pinned = stream[s].pinned
           /\ queue' = queue
  BY DEF PollItem, Shapes, StreamType

LEMMA CallerPlace ==
    ASSUME Shapes, Shapes', OnePlace, NEW s \in Streams, CallerStep(s)
    PROVE  OnePlace'
<1>1. /\ \A t \in Streams : t # s => stream'[t] = stream[t]
      /\ worker' = worker
  BY OtherStreams
<1>2. WorkersApart' /\ \A w \in Workers : WorkerPlace(w)'
  BY <1>1 DEF OnePlace, WorkersApart, WorkerPlace
<1>3. StreamPlace(s) /\ QueueOnce /\ \A t \in Streams : StreamPlace(t) BY DEF OnePlace
<1>4. ASSUME queue' = queue, StreamPlace(s)' PROVE OnePlace'
  <2>1. QueueOnce' BY <1>1, <1>3, <1>4 DEF QueueOnce
  <2>2. ASSUME NEW t \in Streams, t # s PROVE StreamPlace(t)'
    BY <1>1, <1>3, <1>4, <2>2 DEF StreamPlace, Queued, Runs, Submitted, Fresh
  <2> QED BY <1>2, <1>4, <2>1, <2>2 DEF OnePlace
<1>5. CASE \E job \in Jobs : Read(s, job)
  <2>1. PICK job \in Jobs : Read(s, job) BY <1>5
  <2>2. StreamPlace(s)' /\ queue' = queue
    BY <1>1, <1>3, <2>1, ReadEffect DEF StreamPlace, Queued, Runs, Submitted, Fresh
  <2> QED BY <1>4, <2>2
<1>6. CASE PollWaiting(s) \/ PollEnd(s)
  <2>1. StreamPlace(s)' /\ queue' = queue
    BY <1>1, <1>3, <1>6, PollEffect DEF StreamPlace, Queued, Runs, Submitted, Fresh
  <2> QED BY <1>4, <2>1
<1>7. CASE PollItem(s)
  <2>1. stream[s].out # <<>> /\ queue' = queue /\ stream[s].at = "streaming"
        /\ stream'[s].at = "streaming" /\ stream'[s].sender = stream[s].sender
    BY <1>7, PollItemEffect
  <2>2. ~Queued(s) /\ \A w \in Workers : Runs(w, s) => worker[w].at # "start" /\ stream[s].sender
    BY <1>3, <2>1 DEF StreamPlace, Fresh, Submitted
  <2>3. StreamPlace(s)' BY <1>1, <2>1, <2>2 DEF StreamPlace, Queued, Runs, Submitted
  <2> QED BY <1>4, <2>1, <2>3
<1>8. CASE PollSubmit(s)
  <2>1. /\ queue \in Seq(Streams) /\ Len(queue) \in Nat /\ DOMAIN queue = 1..Len(queue)
        /\ queue' = Append(queue, s)
    BY <1>8, PollSubmitEffect, LenProperties DEF Shapes
  <2>2. /\ DOMAIN queue' = 1..(Len(queue) + 1) /\ queue'[Len(queue) + 1] = s
        /\ \A i \in 1..Len(queue) : queue'[i] = queue[i]
    BY <2>1
  <2>3. ~Queued(s) /\ \A w \in Workers : ~Runs(w, s)
    BY <1>3, <1>8, PollSubmitEffect DEF StreamPlace, Submitted
  <2>4. QueueOnce'
    <3>1. ASSUME NEW i \in DOMAIN queue', NEW j \in DOMAIN queue', queue'[i] = queue'[j] PROVE i = j
      BY <1>3, <2>1, <2>2, <2>3, <3>1 DEF QueueOnce, Queued
    <3>2. ASSUME NEW i \in DOMAIN queue', NEW w \in Workers, worker[w].at \in Working
          PROVE  worker[w].s # queue'[i]
      BY <1>3, <2>1, <2>2, <2>3, <3>2 DEF QueueOnce, Runs
    <3> QED BY <1>1, <3>1, <3>2 DEF QueueOnce
  <2>5. ASSUME NEW t \in Streams PROVE StreamPlace(t)'
    <3>1. CASE t = s
      BY <1>1, <1>3, <1>8, <2>3, <3>1, PollSubmitEffect
         DEF StreamPlace, Runs, Submitted, Fresh
    <3>2. CASE t # s
      <4>1. Queued(t)' => Queued(t) BY <2>1, <2>2, <3>2 DEF Queued
      <4> QED BY <1>1, <1>3, <3>2, <4>1 DEF StreamPlace, Runs, Submitted, Fresh
    <3> QED BY <3>1, <3>2
  <2> QED BY <1>2, <2>4, <2>5 DEF OnePlace
<1>9. CASE DropStream(s)
  <2>1. CASE Accepted(s)
    <3>1. queue' = queue /\ (stream'[s].sender => stream[s].sender)
      BY <1>9, <2>1 DEF DropStream, Shapes, StreamType
    <3>2. StreamPlace(s)'
      BY <1>1, <1>3, <1>9, <3>1, DropStreamEffect DEF StreamPlace, Queued, Runs, Submitted, Fresh
    <3> QED BY <1>4, <3>1, <3>2
  <2>2. CASE ~Accepted(s)
    <3>1. PICK k \in DOMAIN queue : /\ queue[k] = s
                                    /\ k = CHOOSE i \in DOMAIN queue : queue[i] = s
      BY <2>2, NotAccepted
    <3>2. queue' = RemoveAt(queue, k) BY <1>9, <2>2, <3>1 DEF DropStream
    <3>3. queue \in Seq(Streams) /\ Len(queue) \in Nat /\ DOMAIN queue = 1..Len(queue)
      BY LenProperties DEF Shapes
    <3>4. /\ queue' \in Seq(Streams) /\ Len(queue') = Len(queue) - 1
          /\ \A i \in 1..Len(queue) - 1 : queue'[i] = IF i < k THEN queue[i] ELSE queue[i + 1]
      BY <3>2, <3>3, RemoveAtFacts
    <3>5. DOMAIN queue' = 1..Len(queue) - 1 BY <3>4, LenProperties
    <3>6. QueueOnce'
      <4>1. ASSUME NEW i \in DOMAIN queue', NEW j \in DOMAIN queue', queue'[i] = queue'[j]
            PROVE  i = j
        <5>1. PICK m \in DOMAIN queue, n \in DOMAIN queue :
                  /\ m = IF i < k THEN i ELSE i + 1
                  /\ n = IF j < k THEN j ELSE j + 1
          BY <3>3, <3>5
        <5>2. queue'[i] = queue[m] /\ queue'[j] = queue[n] BY <3>4, <3>5, <5>1
        <5>3. m = n BY <1>3, <4>1, <5>2 DEF QueueOnce
        <5> QED BY <3>3, <3>5, <5>1, <5>3
      <4>2. ASSUME NEW i \in DOMAIN queue', NEW w \in Workers, worker[w].at \in Working
            PROVE  worker[w].s # queue'[i]
        <5>1. \E m \in DOMAIN queue : queue'[i] = queue[m] BY <3>3, <3>4, <3>5
        <5> QED BY <1>3, <4>2, <5>1 DEF QueueOnce
      <4> QED BY <1>1, <4>1, <4>2 DEF QueueOnce
    <3>7. ASSUME NEW t \in Streams PROVE StreamPlace(t)'
      <4>1. Queued(t)' => Queued(t) BY <3>3, <3>4, <3>5 DEF Queued
      <4>2. CASE t = s
        BY <1>1, <1>3, <1>9, <4>1, <4>2, DropStreamEffect DEF StreamPlace, Runs, Submitted, Fresh
      <4>3. CASE t # s BY <1>1, <1>3, <4>1, <4>3 DEF StreamPlace, Runs, Submitted, Fresh
      <4> QED BY <4>2, <4>3
    <3> QED BY <1>2, <3>6, <3>7 DEF OnePlace
  <2> QED BY <2>1, <2>2
<1> QED BY <1>5, <1>6, <1>7, <1>8, <1>9 DEF CallerStep, Poll, Take

LEMMA OwnerPlace == OnePlace /\ OwnerStep => OnePlace'
  BY DEF OwnerStep, ClosePool, Signal, DropSender, Join, OnePlace, QueueOnce, WorkersApart,
         StreamPlace, WorkerPlace, Queued, Runs, Submitted, Fresh

\* What a worker's step does: it takes a job from the queue, goes on with the one it has, or ends
\* it.
OtherWorkers(w) == \A v \in Workers : v # w => worker'[v] = worker[v]

OtherStreamsOf(w) == \A t \in Streams : t # worker[w].s => stream'[t] = stream[t]

LEMMA ReceiveEffect ==
    ASSUME Shapes, NEW w \in Workers, Receive(w)
    PROVE  /\ OtherWorkers(w) /\ stream' = stream /\ pool' = pool
           /\ queue # <<>> /\ queue' = Tail(queue)
           /\ worker'[w].at = "start" /\ worker'[w].s = queue[1]
           /\ worker'[w].item = <<>> /\ ~worker'[w].failed /\ worker'[w].reads = <<>>
  BY DEF Receive, Shapes, IdleWorker, OtherWorkers

LEMMA BeginReadEffect ==
    ASSUME Shapes, WorkersApart, NEW w \in Workers, BeginRead(w)
    PROVE  /\ OtherWorkers(w) /\ OtherStreamsOf(w) /\ queue' = queue /\ pool' = pool
           /\ worker[w].at = "start" /\ worker[w].s \in Streams
           /\ worker'[w].at = "scan" /\ worker'[w].s = worker[w].s
           /\ worker'[w].item = worker[w].item /\ worker'[w].failed = worker[w].failed
           /\ \E p \in 0..MaxPublished :
                 /\ worker'[w].reads = ReadRange(stream[worker[w].s].job, p)
                 /\ stream'[worker[w].s] = [stream[worker[w].s] EXCEPT !.pinned = p]
<1>1. worker[w].s \in Streams BY DEF BeginRead, WorkersApart, Working
<1>2. PICK p \in 0..MaxPublished :
          /\ worker' = [worker EXCEPT ![w].at = "scan",
                                      ![w].reads = ReadRange(stream[worker[w].s].job, p)]
          /\ stream' = [stream EXCEPT ![worker[w].s].pinned = p]
  BY DEF BeginRead
<1>3. OtherWorkers(w) /\ OtherStreamsOf(w)
  BY <1>1, <1>2 DEF Shapes, OtherWorkers, OtherStreamsOf
<1>4. /\ worker'[w].at = "scan" /\ worker'[w].s = worker[w].s
      /\ worker'[w].item = worker[w].item /\ worker'[w].failed = worker[w].failed
      /\ worker'[w].reads = ReadRange(stream[worker[w].s].job, p)
  BY <1>2 DEF Shapes, WorkerType
<1>5. stream'[worker[w].s] = [stream[worker[w].s] EXCEPT !.pinned = p]
  BY <1>1, <1>2 DEF Shapes
<1>6. worker[w].at = "start" /\ queue' = queue /\ pool' = pool BY DEF BeginRead
<1> QED BY <1>1, <1>3, <1>4, <1>5, <1>6

LEMMA ScanNextEffect ==
    ASSUME Shapes, NEW w \in Workers, ScanNext(w)
    PROVE  /\ OtherWorkers(w) /\ stream' = stream /\ queue' = queue /\ pool' = pool
           /\ worker[w].at = "scan" /\ worker[w].reads # <<>>
           /\ worker'[w].at \in {"scan", "check"} /\ worker'[w].s = worker[w].s
           /\ worker'[w].item = Append(worker[w].item, Head(worker[w].reads))
           /\ worker'[w].reads = Tail(worker[w].reads)
           /\ worker'[w].failed = worker[w].failed
  BY DEF ScanNext, Shapes, WorkerType, OtherWorkers

LEMMA FinishEffect ==
    ASSUME Shapes, WorkersApart, NEW w \in Workers, worker[w].at \in Working, FinishJob(w)
    PROVE  /\ OtherWorkers(w) /\ OtherStreamsOf(w) /\ worker'[w] = IdleWorker
           /\ worker[w].s \in Streams
           /\ stream'[worker[w].s] = [stream[worker[w].s] EXCEPT !.sender = FALSE]
<1>1. worker[w].s \in Streams BY DEF WorkersApart
<1> QED BY <1>1 DEF FinishJob, Shapes, OtherWorkers, OtherStreamsOf

LEMMA MoveEffect ==
    ASSUME Shapes, NEW w \in Workers, NEW a, worker' = [worker EXCEPT ![w].at = a]
    PROVE  /\ OtherWorkers(w) /\ worker'[w].at = a /\ worker'[w].s = worker[w].s
           /\ worker'[w].item = worker[w].item /\ worker'[w].reads = worker[w].reads
           /\ worker'[w].failed = worker[w].failed
  BY DEF Shapes, WorkerType, OtherWorkers

LEMMA SendOkEffect ==
    ASSUME Shapes, WorkersApart, NEW w \in Workers, SendOk(w)
    PROVE  /\ OtherWorkers(w) /\ OtherStreamsOf(w) /\ queue' = queue /\ pool' = pool
           /\ worker[w].at = "send" /\ worker[w].s \in Streams /\ stream[worker[w].s].at # "dropped"
           /\ \E done \in BOOLEAN, item \in Item :
                 /\ item = [batch |-> worker[w].item,
                            err |-> IF worker[w].failed THEN "error" ELSE "none"]
                 /\ done => worker[w].failed \/ worker[w].reads = <<>>
                 /\ worker[w].failed => done
                 /\ stream'[worker[w].s] = [stream[worker[w].s] EXCEPT
                                               !.out = Append(@, item), !.sender = ~done]
                 /\ done => worker'[w] = IdleWorker
                 /\ ~done => worker'[w] = [worker[w] EXCEPT !.at = "scan", !.item = <<>>]
<1>1. worker[w].s \in Streams BY DEF SendOk, WorkersApart, Working
<1>2. PICK item \in Item : item = [batch |-> worker[w].item,
                                   err |-> IF worker[w].failed THEN "error" ELSE "none"]
  BY WorkerTypes, ItemTypes
<1>3. PICK done \in BOOLEAN : done = (worker[w].failed \/ (worker[w].reads = <<>>
                                        /\ ~BatchFull(worker[w].item)))
  BY DEF BatchFull
<1>4. /\ stream' = [stream EXCEPT ![worker[w].s].out = Append(@, item), ![worker[w].s].sender = ~done]
      /\ worker' = [worker EXCEPT ![w] = IF done THEN IdleWorker
                       ELSE [@ EXCEPT !.at = "scan", !.item = <<>>]]
      /\ queue' = queue /\ pool' = pool
      /\ worker[w].at = "send" /\ stream[worker[w].s].at # "dropped"
  BY <1>2, <1>3 DEF SendOk
<1>5. OtherWorkers(w) /\ OtherStreamsOf(w)
  BY <1>1, <1>4 DEF Shapes, OtherWorkers, OtherStreamsOf
<1>6. stream'[worker[w].s] = [stream[worker[w].s] EXCEPT !.out = Append(@, item), !.sender = ~done]
  BY <1>1, <1>4 DEF Shapes
<1>7. /\ done => worker'[w] = IdleWorker
      /\ ~done => worker'[w] = [worker[w] EXCEPT !.at = "scan", !.item = <<>>]
  BY <1>4 DEF Shapes
<1>8. (done => worker[w].failed \/ worker[w].reads = <<>>) /\ (worker[w].failed => done)
  BY <1>3
<1> QED BY <1>1, <1>2, <1>4, <1>5, <1>6, <1>7, <1>8

LEMMA SendAbortedEffect ==
    ASSUME Shapes, WorkersApart, NEW w \in Workers, SendAborted(w)
    PROVE  /\ OtherWorkers(w) /\ OtherStreamsOf(w) /\ queue' = queue /\ pool' = pool
           /\ worker[w].at = "abort" /\ worker[w].s \in Streams /\ worker'[w] = IdleWorker
           /\ \E o \in Seq(Item) :
                 /\ o = IF stream[worker[w].s].at = "dropped" THEN stream[worker[w].s].out
                        ELSE Append(stream[worker[w].s].out, [batch |-> <<>>, err |-> "aborted"])
                 /\ stream'[worker[w].s] = [stream[worker[w].s] EXCEPT !.out = o, !.sender = FALSE]
<1>1. worker[w].s \in Streams BY DEF SendAborted, WorkersApart, Working
<1>2. PICK o \in Seq(Item) :
          o = IF stream[worker[w].s].at = "dropped" THEN stream[worker[w].s].out
              ELSE Append(stream[worker[w].s].out, [batch |-> <<>>, err |-> "aborted"])
  <2>1. stream[worker[w].s].out \in Seq(Item) /\ [batch |-> <<>>, err |-> "aborted"] \in Item
    BY <1>1, StreamTypes, ItemTypes
  <2>2. Append(stream[worker[w].s].out, [batch |-> <<>>, err |-> "aborted"]) \in Seq(Item)
    BY <2>1, AppendProperties
  <2> QED BY <2>1, <2>2
<1>3. /\ stream' = [stream EXCEPT ![worker[w].s] =
                       [stream[worker[w].s] EXCEPT !.out = o, !.sender = FALSE]]
      /\ worker' = [worker EXCEPT ![w] = IdleWorker]
      /\ queue' = queue /\ pool' = pool /\ worker[w].at = "abort"
  BY <1>1, <1>2 DEF SendAborted, Shapes
<1>4. OtherWorkers(w) /\ OtherStreamsOf(w) /\ worker'[w] = IdleWorker
  BY <1>1, <1>3 DEF Shapes, OtherWorkers, OtherStreamsOf
<1>5. stream'[worker[w].s] = [stream[worker[w].s] EXCEPT !.out = o, !.sender = FALSE]
  BY <1>1, <1>3 DEF Shapes
<1> QED BY <1>1, <1>2, <1>3, <1>4, <1>5

LEMMA FaultEffect ==
    ASSUME Shapes, NEW w \in Workers, ScanFails(w) \/ Panic(w)
    PROVE  /\ OtherWorkers(w) /\ stream' = stream /\ queue' = queue /\ pool' = pool
           /\ worker[w].at \in {"start", "scan"} /\ worker'[w].s = worker[w].s
           /\ worker'[w].item = <<>> /\ worker'[w].reads = <<>>
           /\ \/ worker'[w].at = "check" /\ worker'[w].failed
              \/ worker'[w].at = "abort" /\ worker'[w].failed = worker[w].failed
  BY DEF ScanFails, Panic, Shapes, WorkerType, OtherWorkers

\* A worker that goes on with its job, or ends it, keeps jobs in place.
LEMMA JobMoves ==
    ASSUME Shapes, Shapes', OnePlace, NEW w \in Workers, NEW s \in Streams,
           OtherWorkers(w), queue' = queue,
           worker[w].at \in Working, worker[w].s = s, s \in Streams,
           worker'[w].at \in Working => worker'[w].s = s /\ worker'[w].at # "start",
           \A t \in Streams : t # s => stream'[t] = stream[t],
           stream'[s].at = stream[s].at,
           worker'[w].at \in Working /\ stream[s].at # "dropped" => stream'[s].sender,
           WorkerPlace(w)'
    PROVE  OnePlace'
<1>1. QueueOnce /\ WorkersApart /\ \A t \in Streams : StreamPlace(t) BY DEF OnePlace
<1>2. QueueOnce' BY <1>1 DEF QueueOnce, OtherWorkers
<1>3. WorkersApart' BY <1>1 DEF WorkersApart, OtherWorkers
<1>4. ASSUME NEW t \in Streams PROVE StreamPlace(t)'
  <2>1. CASE t = s
    <3>1. ~Queued(s) /\ Submitted(s) BY <1>1 DEF QueueOnce, Queued, StreamPlace, Runs
    <3>2. ASSUME NEW v \in Workers, Runs(v, s)' PROVE v = w
      BY <1>1, <3>2 DEF WorkersApart, OtherWorkers, Runs
    <3>3. ~Queued(s)' /\ stream'[s].at \in {"waiting", "streaming", "dropped"}
      BY <3>1 DEF Queued, Submitted
    <3>4. ASSUME NEW v \in Workers, Runs(v, s)'
          PROVE  Submitted(s)' /\ worker'[v].at # "start"
      BY <3>2, <3>3, <3>4 DEF Submitted, Runs
    <3> QED BY <2>1, <3>3, <3>4 DEF StreamPlace
  <2>2. CASE t # s
    <3>1. \A v \in Workers : Runs(v, t)' => v # w BY <2>2 DEF Runs
    <3>2. \A v \in Workers : Runs(v, t)' => Runs(v, t) /\ worker'[v] = worker[v]
      BY <3>1 DEF Runs, OtherWorkers
    <3> QED BY <1>1, <2>2, <3>2 DEF StreamPlace, Queued, Submitted, Fresh
  <2> QED BY <2>1, <2>2
<1>5. ASSUME NEW v \in Workers PROVE WorkerPlace(v)'
  BY DEF OnePlace, WorkerPlace, OtherWorkers
<1> QED BY <1>2, <1>3, <1>4, <1>5 DEF OnePlace

LEMMA WorkerPlaceStep ==
    ASSUME Shapes, Shapes', OnePlace, NEW w \in Workers, WorkStep(w)
    PROVE  OnePlace'
<1>1. WorkersApart /\ QueueOnce /\ WorkerPlace(w) /\ \A t \in Streams : StreamPlace(t)
  BY DEF OnePlace
<1>2. WorkerPlace(w)' \/ worker'[w] # IdleWorker BY DEF WorkerPlace, IdleWorker
<1>3. ASSUME worker[w].at \in Working, FinishJob(w), queue' = queue PROVE OnePlace'
  <2>1. PICK s \in Streams : s = worker[w].s BY <1>1, <1>3 DEF WorkersApart
  <2>2. /\ OtherWorkers(w) /\ worker'[w] = IdleWorker
        /\ \A t \in Streams : t # s => stream'[t] = stream[t]
        /\ stream'[s] = [stream[s] EXCEPT !.sender = FALSE]
    BY <1>1, <1>3, <2>1, FinishEffect DEF OtherStreamsOf
  <2>3. stream'[s].at = stream[s].at BY <2>2, StreamTypes DEF StreamType
  <2>4. worker'[w].at \notin Working BY <2>2 DEF IdleWorker, Working
  <2> QED BY <1>2, <1>3, <2>1, <2>2, <2>3, <2>4, JobMoves
<1>4. ASSUME worker[w].at \in Working, OtherWorkers(w), queue' = queue, stream' = stream,
             worker'[w].at \in Working \ {"start"}, worker'[w].s = worker[w].s, WorkerPlace(w)'
      PROVE  OnePlace'
  <2>1. PICK s \in Streams : s = worker[w].s BY <1>1, <1>4 DEF WorkersApart
  <2>2. stream[s].at # "dropped" => stream'[s].sender
    BY <1>1, <1>4, <2>1 DEF StreamPlace, Runs, Submitted
  <2> QED BY <1>4, <2>1, <2>2, JobMoves
<1>5. CASE Receive(w)
  <2>1. /\ OtherWorkers(w) /\ stream' = stream
        /\ queue # <<>> /\ queue' = Tail(queue)
        /\ worker'[w].at = "start" /\ worker'[w].s = queue[1]
        /\ worker'[w].item = <<>> /\ ~worker'[w].failed
    BY <1>5, ReceiveEffect
  <2>2. /\ Len(queue) \in Nat /\ Len(queue) >= 1 /\ DOMAIN queue = 1..Len(queue)
        /\ queue[1] \in Streams
    BY <2>1, LenProperties DEF Shapes
  <2>3. DOMAIN queue' = 1..Len(queue) - 1 /\ \A i \in 1..Len(queue) - 1 : queue'[i] = queue[i + 1]
    <3>1. /\ Len(Tail(queue)) = Len(queue) - 1 /\ Tail(queue) \in Seq(Streams)
          /\ \A i \in 1..Len(Tail(queue)) : Tail(queue)[i] = queue[i + 1]
      BY <2>1, HeadTailProperties DEF Shapes
    <3>2. DOMAIN Tail(queue) = 1..Len(Tail(queue)) BY <3>1, LenProperties
    <3> QED BY <2>1, <3>1, <3>2, Zenon
  <2>4. ASSUME NEW i \in DOMAIN queue' PROVE /\ i + 1 \in DOMAIN queue /\ i + 1 # 1
                                             /\ queue'[i] = queue[i + 1] /\ queue'[i] # queue[1]
    <3>1. i + 1 \in DOMAIN queue /\ i + 1 # 1 /\ queue'[i] = queue[i + 1] BY <2>2, <2>3
    <3> QED BY <1>1, <2>2, <3>1 DEF QueueOnce
  <2>5. QueueOnce'
    <3>1. ASSUME NEW i \in DOMAIN queue', NEW j \in DOMAIN queue', queue'[i] = queue'[j] PROVE i = j
      <4>1. i + 1 = j + 1 BY <1>1, <2>4, <3>1 DEF QueueOnce
      <4> QED BY <2>2, <2>3, <4>1
    <3>2. ASSUME NEW i \in DOMAIN queue', NEW v \in Workers, worker'[v].at \in Working
          PROVE  worker'[v].s # queue'[i]
      <4>1. CASE v = w BY <2>1, <2>4, <4>1
      <4>2. CASE v # w BY <1>1, <2>1, <2>4, <3>2, <4>2 DEF QueueOnce, OtherWorkers
      <4> QED BY <4>1, <4>2
    <3> QED BY <3>1, <3>2 DEF QueueOnce
  <2>6. WorkersApart' BY <1>1, <2>1, <2>2 DEF WorkersApart, QueueOnce, OtherWorkers
  <2>7. ASSUME NEW t \in Streams PROVE StreamPlace(t)'
    <3>1. Queued(t)' => Queued(t) BY <2>4 DEF Queued
    <3>2. ASSUME NEW v \in Workers, Runs(v, t)'
          PROVE  Submitted(t) /\ (worker'[v].at = "start" => Fresh(t))
      <4>1. CASE v = w
        <5>1. Queued(t) BY <2>1, <2>2, <3>2, <4>1 DEF Runs, Queued
        <5> QED BY <1>1, <5>1 DEF StreamPlace
      <4>2. CASE v # w BY <1>1, <2>1, <3>2, <4>2 DEF StreamPlace, Runs, OtherWorkers
      <4> QED BY <4>1, <4>2
    <3> QED BY <1>1, <2>1, <3>1, <3>2 DEF StreamPlace, Submitted, Fresh
  <2>8. ASSUME NEW v \in Workers PROVE WorkerPlace(v)'
    BY <2>1 DEF OnePlace, WorkerPlace, OtherWorkers
  <2> QED BY <2>5, <2>6, <2>7, <2>8 DEF OnePlace
<1>6. CASE BeginRead(w)
  <2>1. PICK s \in Streams : s = worker[w].s /\ worker[w].at = "start"
    BY <1>1, <1>6 DEF BeginRead, WorkersApart, Working
  <2>2. PICK p \in 0..MaxPublished : stream'[s] = [stream[s] EXCEPT !.pinned = p]
    BY <1>1, <1>6, <2>1, BeginReadEffect
  <2>3. /\ OtherWorkers(w) /\ queue' = queue
        /\ \A t \in Streams : t # s => stream'[t] = stream[t]
        /\ worker'[w].at = "scan" /\ worker'[w].s = s
        /\ worker'[w].item = worker[w].item /\ worker'[w].failed = worker[w].failed
    BY <1>1, <1>6, <2>1, BeginReadEffect DEF OtherStreamsOf
  <2>4. stream'[s].at = stream[s].at /\ stream'[s].sender = stream[s].sender
    BY <2>2, StreamTypes DEF StreamType
  <2>5. stream[s].at # "dropped" => stream'[s].sender
    BY <1>1, <2>1, <2>4 DEF StreamPlace, Runs, Submitted, Working
  <2>6. WorkerPlace(w)' BY <1>1, <2>1, <2>3 DEF WorkerPlace
  <2>7. worker[w].at \in Working /\ worker'[w].at # "start" BY <2>1, <2>3 DEF Working
  <2> QED BY <2>1, <2>3, <2>4, <2>5, <2>6, <2>7, JobMoves
<1>7. CASE ScanNext(w)
  <2>1. /\ OtherWorkers(w) /\ stream' = stream /\ queue' = queue
        /\ worker[w].at = "scan"
        /\ worker'[w].at \in {"scan", "check"} /\ worker'[w].s = worker[w].s
        /\ worker'[w].failed = worker[w].failed
    BY <1>7, ScanNextEffect
  <2>2. WorkerPlace(w)' BY <1>1, <2>1 DEF WorkerPlace
  <2>3. worker[w].at \in Working /\ worker'[w].at \in Working \ {"start"}
    BY <2>1 DEF Working
  <2> QED BY <1>4, <2>1, <2>2, <2>3
<1>8. CASE ScanEnd(w) \/ SendCheck(w) \/ SendTimeout(w) \/ SendDisconnected(w)
  <2>1. queue' = queue /\ worker[w].at \in {"scan", "check", "send"}
    BY <1>8 DEF ScanEnd, SendCheck, SendTimeout, SendDisconnected
  <2>2. worker[w].at \in Working /\ worker[w].at # "start" BY <2>1 DEF Working
  <2>3. CASE FinishJob(w) BY <1>3, <2>1, <2>2, <2>3
  <2>4. CASE ~FinishJob(w)
    <3>1. PICK a \in {"check", "send"} : worker' = [worker EXCEPT ![w].at = a] /\ stream' = stream
      BY <1>8, <2>4 DEF ScanEnd, SendCheck, SendTimeout, SendDisconnected
    <3>2. /\ OtherWorkers(w) /\ worker'[w].at = a /\ worker'[w].s = worker[w].s
          /\ worker'[w].item = worker[w].item /\ worker'[w].failed = worker[w].failed
      BY <3>1, MoveEffect
    <3>3. WorkerPlace(w)' /\ worker'[w].at \in Working \ {"start"}
      BY <1>1, <3>2 DEF WorkerPlace, Working
    <3> QED BY <1>4, <2>1, <2>2, <3>1, <3>2, <3>3
  <2> QED BY <2>3, <2>4
<1>9. CASE SendOk(w)
  <2>1. PICK s \in Streams : s = worker[w].s /\ worker[w].at = "send"
    BY <1>1, <1>9, SendOkEffect
  <2>2. /\ OtherWorkers(w) /\ queue' = queue
        /\ \A t \in Streams : t # s => stream'[t] = stream[t]
    BY <1>1, <1>9, <2>1, SendOkEffect DEF OtherStreamsOf
  <2>3. PICK done \in BOOLEAN, item \in Item :
            /\ worker[w].failed => done
            /\ stream'[s] = [stream[s] EXCEPT !.out = Append(@, item), !.sender = ~done]
            /\ done => worker'[w] = IdleWorker
            /\ ~done => worker'[w] = [worker[w] EXCEPT !.at = "scan", !.item = <<>>]
    BY <1>1, <1>9, <2>1, SendOkEffect
  <2>4. stream'[s].at = stream[s].at /\ stream'[s].sender = ~done
    BY <2>3, StreamTypes DEF StreamType
  <2>5. /\ done => worker'[w].at = "idle"
        /\ ~done => /\ worker'[w].at = "scan" /\ worker'[w].s = s
                    /\ worker'[w].item = <<>> /\ worker'[w].failed = worker[w].failed
    <3>1. done => worker'[w].at = "idle" BY <2>3 DEF IdleWorker
    <3>2. worker[w] \in WorkerType BY WorkerTypes
    <3>3. ASSUME NEW r \in WorkerType, NEW x, x = [r EXCEPT !.at = "scan", !.item = <<>>]
          PROVE  x.at = "scan" /\ x.s = r.s /\ x.item = <<>> /\ x.failed = r.failed
      BY <3>3 DEF WorkerType
    <3> QED BY <2>1, <2>3, <3>1, <3>2, <3>3
  <2>6. WorkerPlace(w)' BY <1>2, <2>3, <2>5 DEF WorkerPlace
  <2>7. /\ worker[w].at \in Working
        /\ worker'[w].at \in Working => worker'[w].s = s /\ worker'[w].at # "start" /\ ~done
    BY <2>1, <2>3, <2>5 DEF Working
  <2> QED BY <2>1, <2>2, <2>4, <2>6, <2>7, JobMoves
<1>10. CASE SendAborted(w)
  <2>1. PICK s \in Streams : s = worker[w].s /\ worker[w].at = "abort"
    BY <1>1, <1>10, SendAbortedEffect
  <2>2. /\ OtherWorkers(w) /\ queue' = queue /\ worker'[w] = IdleWorker
        /\ \A t \in Streams : t # s => stream'[t] = stream[t]
    BY <1>1, <1>10, <2>1, SendAbortedEffect DEF OtherStreamsOf
  <2>3. PICK o \in Seq(Item) : stream'[s] = [stream[s] EXCEPT !.out = o, !.sender = FALSE]
    BY <1>1, <1>10, <2>1, SendAbortedEffect
  <2>4. stream'[s].at = stream[s].at BY <2>3, StreamTypes DEF StreamType
  <2>5. worker[w].at \in Working /\ worker'[w].at \notin Working
    BY <2>1, <2>2 DEF Working, IdleWorker
  <2> QED BY <1>2, <2>1, <2>2, <2>4, <2>5, JobMoves
<1>11. CASE ScanFails(w) \/ Panic(w)
  <2>1. /\ OtherWorkers(w) /\ stream' = stream /\ queue' = queue
        /\ worker[w].at \in {"start", "scan"} /\ worker'[w].s = worker[w].s
        /\ worker'[w].item = <<>> /\ worker'[w].at \in {"check", "abort"}
    BY <1>11, FaultEffect
  <2>2. WorkerPlace(w)' /\ worker[w].at \in Working /\ worker'[w].at \in Working \ {"start"}
    BY <2>1 DEF WorkerPlace, Working
  <2> QED BY <1>4, <2>1, <2>2
<1>12. CASE WorkerExit(w)
  <2>1. OtherWorkers(w) /\ worker'[w].at = "exited" /\ worker'[w].s = worker[w].s
        /\ worker'[w].item = worker[w].item /\ worker'[w].failed = worker[w].failed
        /\ stream' = stream /\ queue' = queue
    BY <1>12, MoveEffect DEF WorkerExit
  <2>2. WorkerPlace(w)' /\ worker'[w].at \notin Working
    BY <1>1, <2>1 DEF WorkerPlace, Working
  <2>3. QueueOnce' /\ WorkersApart'
    BY <1>1, <2>1, <2>2 DEF QueueOnce, WorkersApart, OtherWorkers
  <2>4. ASSUME NEW t \in Streams PROVE StreamPlace(t)'
    <3>1. \A v \in Workers : Runs(v, t)' => Runs(v, t) /\ worker'[v] = worker[v]
      BY <2>1, <2>2 DEF Runs, OtherWorkers
    <3> QED BY <1>1, <2>1, <3>1 DEF StreamPlace, Queued, Submitted, Fresh
  <2>5. \A v \in Workers : WorkerPlace(v)'
    BY <2>1, <2>2 DEF OnePlace, WorkerPlace, OtherWorkers
  <2> QED BY <2>3, <2>4, <2>5 DEF OnePlace
<1> QED BY <1>5, <1>6, <1>7, <1>8, <1>9, <1>10, <1>11, <1>12 DEF WorkStep, Work

--------------------
\* The pieces of a read: none yet, one more behind the last, the first of them taken by the
\* consumer, and all of them thrown away.
LEMMA CutEmpty ==
    ASSUME NEW whole \in Seq(Positions)
    PROVE  Reaches(whole, <<>>, <<>>, 0)
<1> DEFINE cut == [i \in 1..1 |-> 0]
<1>1. Len(<<>>) = 0 /\ Len(whole) \in Nat BY LenProperties
<1>2. Piece(<<>>, whole, 0) BY <1>1 DEF Piece
<1>3. cut \in [1..(Len(<<>>) + 1) -> Nat] /\ cut[1] = 0 BY <1>1
<1> HIDE DEF cut
<1>4. Cuts(cut, whole, <<>>, <<>>, 0) BY <1>1, <1>2, <1>3 DEF Cuts
<1> QED BY <1>3, <1>4 DEF Reaches

LEMMA CutAppend ==
    ASSUME NEW whole \in Seq(Positions), NEW got \in Seq(Positions), NEW out \in Seq(Item),
           NEW e \in Nat, NEW item \in Item, NEW e2 \in Nat,
           Reaches(whole, got, out, e), Piece(item.batch, whole, e), e2 = e + Len(item.batch)
    PROVE  Reaches(whole, got, Append(out, item), e2)
<1>1. PICK cut \in [1..(Len(out) + 1) -> Nat] : Cuts(cut, whole, got, out, e)
  BY DEF Reaches
<1>2. Len(out) \in Nat BY LenProperties
<1>3. PICK n \in Nat : n = Len(out) BY <1>2
<1>4. PICK o \in Seq(Item) : /\ o = Append(out, item) /\ Len(o) = n + 1
                             /\ o[n + 1] = item /\ \A i \in 1..n : o[i] = out[i]
  <2>1. /\ Append(out, item) \in Seq(Item) /\ Len(Append(out, item)) = Len(out) + 1
        /\ \A i \in 1..Len(out) : Append(out, item)[i] = out[i]
        /\ Append(out, item)[Len(out) + 1] = item
    BY AppendProperties
  <2> QED BY <1>3, <2>1, Zenon
<1> DEFINE c == [i \in 1..(n + 2) |-> IF i <= n + 1 THEN cut[i] ELSE e2]
<1>5. /\ c \in [1..(Len(o) + 1) -> Nat] /\ c[n + 2] = e2
      /\ \A i \in 1..(n + 1) : c[i] = cut[i]
  BY <1>1, <1>3, <1>4
<1> HIDE DEF c
<1>6. /\ cut[1] = Len(got) /\ cut[n + 1] = e /\ Piece(got, whole, 0)
      /\ \A j \in 1..n : /\ Piece(out[j].batch, whole, cut[j])
                         /\ cut[j + 1] = cut[j] + Len(out[j].batch)
  BY <1>1, <1>3 DEF Cuts
<1>7. ASSUME NEW j \in 1..(n + 1)
      PROVE  Piece(o[j].batch, whole, c[j]) /\ c[j + 1] = c[j] + Len(o[j].batch)
  <2>1. CASE j = n + 1
    <3>1. c[j] = e /\ o[j] = item /\ c[j + 1] = e2 BY <1>4, <1>5, <1>6, <2>1
    <3> QED BY <3>1
  <2>2. CASE j # n + 1
    <3>1. j \in 1..n /\ j + 1 \in 1..(n + 1) BY <2>2
    <3>2. c[j] = cut[j] /\ c[j + 1] = cut[j + 1] /\ o[j] = out[j] BY <1>4, <1>5, <3>1
    <3> QED BY <1>6, <3>1, <3>2
  <2> QED BY <2>1, <2>2
<1>8. c[1] = Len(got) /\ c[Len(o) + 1] = e2 BY <1>4, <1>5, <1>6
<1>9. Cuts(c, whole, got, o, e2) BY <1>4, <1>6, <1>7, <1>8 DEF Cuts
<1> QED BY <1>4, <1>5, <1>9 DEF Reaches

LEMMA PieceJoins ==
    ASSUME NEW whole \in Seq(Positions), NEW a \in Seq(Positions), NEW b \in Seq(Positions),
           NEW k \in Nat, Piece(a, whole, k), Piece(b, whole, k + Len(a))
    PROVE  Piece(a \o b, whole, k)
<1>1. PICK l \in Nat, m \in Nat, n \in Nat : l = Len(a) /\ m = Len(b) /\ n = Len(whole)
  BY LenProperties
<1>2. PICK ab \in Seq(Positions) :
          /\ ab = a \o b /\ Len(ab) = l + m
          /\ \A i \in 1..(l + m) : ab[i] = IF i <= l THEN a[i] ELSE b[i - l]
  <2>1. /\ a \o b \in Seq(Positions) /\ Len(a \o b) = Len(a) + Len(b)
        /\ \A i \in 1..Len(a) + Len(b) :
              (a \o b)[i] = IF i <= Len(a) THEN a[i] ELSE b[i - Len(a)]
    BY ConcatProperties
  <2> QED BY <1>1, <2>1, Zenon
<1>3. /\ k + l <= n /\ \A i \in 1..l : a[i] = whole[k + i]
      /\ k + l + m <= n /\ \A i \in 1..m : b[i] = whole[k + l + i]
  BY <1>1 DEF Piece
<1>4. ASSUME NEW i \in 1..(l + m) PROVE ab[i] = whole[k + i]
  <2>1. CASE i <= l BY <1>2, <1>3, <2>1
  <2>2. CASE ~(i <= l)
    <3>1. i - l \in 1..m /\ k + l + (i - l) = k + i BY <2>2
    <3>2. b[i - l] = whole[k + l + (i - l)] BY <1>3, <3>1
    <3> QED BY <1>2, <2>2, <3>1, <3>2
  <2> QED BY <2>1, <2>2
<1>5. Piece(ab, whole, k) BY <1>1, <1>2, <1>3, <1>4 DEF Piece
<1> QED BY <1>2, <1>5

LEMMA CutTail ==
    ASSUME NEW whole \in Seq(Positions), NEW got \in Seq(Positions), NEW out \in Seq(Item),
           NEW e \in Nat, out # <<>>, Reaches(whole, got, out, e)
    PROVE  Reaches(whole, got \o Head(out).batch, Tail(out), e)
<1>1. PICK cut \in [1..(Len(out) + 1) -> Nat] : Cuts(cut, whole, got, out, e)
  BY DEF Reaches
<1>2. PICK n \in Nat : Len(out) = n + 1
  <2>1. Len(out) \in Nat \ {0} BY EmptySeq
  <2>2. Len(out) - 1 \in Nat /\ Len(out) = Len(out) - 1 + 1 BY <2>1
  <2> QED BY <2>2
<1>3. PICK item \in Item, o \in Seq(Item) :
          /\ item = Head(out) /\ item = out[1] /\ o = Tail(out) /\ Len(o) = n
          /\ \A i \in 1..n : o[i] = out[i + 1]
  <2>1. /\ Head(out) \in Item /\ Tail(out) \in Seq(Item) /\ Len(Tail(out)) = Len(out) - 1
        /\ \A i \in 1..Len(Tail(out)) : Tail(out)[i] = out[i + 1]
    BY HeadTailProperties
  <2>2. Head(out) = out[1] OBVIOUS
  <2>3. Len(Tail(out)) = n BY <1>2, <2>1
  <2> QED BY <2>1, <2>2, <2>3
<1>4. item.batch \in Seq(Positions) BY ItemTypes
<1>5. /\ cut[1] = Len(got) /\ cut[n + 2] = e /\ Piece(got, whole, 0)
      /\ \A j \in 1..(n + 1) : /\ Piece(out[j].batch, whole, cut[j])
                               /\ cut[j + 1] = cut[j] + Len(out[j].batch)
  <2>1. n + 1 + 1 = n + 2 BY <1>2
  <2> QED BY <1>1, <1>2, <2>1 DEF Cuts
<1>6. PICK g \in Seq(Positions) : g = got \o item.batch /\ Len(g) = Len(got) + Len(item.batch)
  BY <1>4, ConcatProperties
<1>7. Piece(g, whole, 0) /\ cut[2] = Len(g)
  <2>1. 1 \in 1..(n + 1) BY <1>2
  <2>2. Piece(item.batch, whole, Len(got)) /\ cut[1 + 1] = Len(got) + Len(item.batch)
    BY <1>3, <1>5, <2>1
  <2>3. Len(got) \in Nat /\ 0 + Len(got) = Len(got) /\ 0 \in Nat BY LenProperties
  <2>4. Piece(got \o item.batch, whole, 0) BY <1>4, <1>5, <2>2, <2>3, PieceJoins
  <2> QED BY <1>6, <2>2, <2>4
<1> DEFINE c == [i \in 1..(n + 1) |-> cut[i + 1]]
<1>8. c \in [1..(Len(o) + 1) -> Nat] /\ \A i \in 1..(n + 1) : c[i] = cut[i + 1]
  <2>1. \A i \in 1..(n + 1) : i + 1 \in 1..(Len(out) + 1) BY <1>2
  <2> QED BY <1>1, <1>3, <2>1
<1> HIDE DEF c
<1>9. c[1] = Len(g) /\ c[Len(o) + 1] = e
  <2>1. 1 \in 1..(n + 1) /\ n + 1 \in 1..(n + 1) /\ 1 + 1 = 2 /\ n + 1 + 1 = n + 2 BY <1>2
  <2> QED BY <1>3, <1>5, <1>7, <1>8, <2>1
<1>10. ASSUME NEW j \in 1..n
       PROVE  Piece(o[j].batch, whole, c[j]) /\ c[j + 1] = c[j] + Len(o[j].batch)
  <2>1. j \in 1..(n + 1) /\ j + 1 \in 1..(n + 1) BY <1>2
  <2>2. c[j] = cut[j + 1] /\ c[j + 1] = cut[j + 1 + 1] /\ o[j] = out[j + 1]
    BY <1>3, <1>8, <2>1
  <2> QED BY <1>5, <2>1, <2>2
<1>11. Cuts(c, whole, g, o, e) BY <1>3, <1>7, <1>9, <1>10 DEF Cuts
<1> QED BY <1>3, <1>6, <1>8, <1>11 DEF Reaches

LEMMA CutBound ==
    ASSUME NEW whole \in Seq(Positions), NEW got \in Seq(Positions), NEW out \in Seq(Item),
           NEW e \in Nat, Reaches(whole, got, out, e)
    PROVE  e <= Len(whole)
<1>1. PICK cut \in [1..(Len(out) + 1) -> Nat] : Cuts(cut, whole, got, out, e)
  BY DEF Reaches
<1>2. PICK n \in Nat : n = Len(out) BY LenProperties
<1>3. Len(whole) \in Nat /\ Len(got) \in Nat BY LenProperties
<1>4. CASE n = 0 BY <1>1, <1>2, <1>3, <1>4 DEF Cuts, Piece
<1>5. CASE n # 0
  <2>1. n \in 1..n BY <1>5
  <2>2. /\ Piece(out[n].batch, whole, cut[n]) /\ cut[n + 1] = e
        /\ cut[n + 1] = cut[n] + Len(out[n].batch)
    BY <1>1, <1>2, <2>1 DEF Cuts
  <2> QED BY <2>2 DEF Piece
<1> QED BY <1>4, <1>5

LEMMA CutDrop ==
    ASSUME NEW whole \in Seq(Positions), NEW got \in Seq(Positions), NEW out, NEW e,
           Reaches(whole, got, out, e)
    PROVE  Reaches(whole, got, <<>>, Len(got))
<1>1. Piece(got, whole, 0) BY DEF Reaches, Cuts
<1>2. Len(got) \in Nat BY LenProperties
<1> DEFINE cut == [i \in 1..1 |-> Len(got)]
<1>3. Len(<<>>) = 0 OBVIOUS
<1>4. cut \in [1..(Len(<<>>) + 1) -> Nat] /\ cut[1] = Len(got) BY <1>2, <1>3
<1> HIDE DEF cut
<1>5. Cuts(cut, whole, got, <<>>, Len(got)) BY <1>1, <1>3, <1>4 DEF Cuts
<1> QED BY <1>4, <1>5 DEF Reaches

\* What the consumer got is a prefix, and all of the read when nothing is left to come.
LEMMA CutPrefix ==
    ASSUME NEW whole \in Seq(Positions), NEW got \in Seq(Positions), NEW out, NEW e,
           Reaches(whole, got, out, e)
    PROVE  /\ IsPrefix(got, whole)
           /\ out = <<>> /\ e = Len(whole) => got = whole
<1>1. Piece(got, whole, 0) BY DEF Reaches, Cuts
<1>2. PICK n \in Nat, m \in Nat : /\ n = Len(got) /\ m = Len(whole)
                                  /\ DOMAIN got = 1..n /\ DOMAIN whole = 1..m
  BY LenProperties
<1>3. n <= m /\ \A i \in 1..n : got[i] = whole[i] BY <1>1, <1>2 DEF Piece
<1>4. got = SubSeq(whole, 1, n)
  <2>1. 1 \in Int /\ n \in Int /\ \A i \in 1..n : whole[i] \in Positions BY <1>2, <1>3
  <2>2. /\ SubSeq(whole, 1, n) \in Seq(Positions)
        /\ Len(SubSeq(whole, 1, n)) = IF 1 <= n THEN n - 1 + 1 ELSE 0
        /\ \A i \in 1..(n - 1 + 1) : SubSeq(whole, 1, n)[i] = whole[1 + i - 1]
    BY <2>1, SubSeqProperties
  <2>3. PICK p \in Seq(Positions) : p = SubSeq(whole, 1, n) BY <2>2
  <2>4. Len(p) = n /\ \A i \in 1..n : p[i] = whole[i] BY <1>2, <2>2, <2>3
  <2>5. got = p BY <1>2, <1>3, <2>4, SeqEqual
  <2> QED BY <2>3, <2>5
<1>5. IsPrefix(got, whole) BY <1>2, <1>3, <1>4 DEF IsPrefix
<1>6. ASSUME out = <<>>, e = Len(whole) PROVE got = whole
  <2>1. Len(got) = Len(whole)
    <3>1. Len(out) = 0 BY <1>6
    <3> QED BY <1>6, <3>1 DEF Reaches, Cuts
  <2>2. n = m BY <1>2, <2>1
  <2> QED BY <1>2, <1>3, <2>2, SeqEqual
<1> QED BY <1>5, <1>6

--------------------
\* A stream of which a step changes nothing that the ledger speaks of.
LEMMA LedgerSame ==
    ASSUME NEW s \in Streams, Ledger(s),
           stream'[s].got = stream[s].got, stream'[s].out = stream[s].out,
           stream'[s].job = stream[s].job, stream'[s].pinned = stream[s].pinned,
           \A w \in Workers : Carries(w, s)' /\ stream'[s].at # "dropped" =>
               /\ Carries(w, s) /\ stream[s].at # "dropped"
               /\ worker'[w].item = worker[w].item /\ worker'[w].reads = worker[w].reads,
           CleanSoFar(s)' => CleanSoFar(s)
    PROVE  Ledger(s)'
<1>1. PICK e \in Nat : LedgerAt(s, e) BY DEF Ledger
<1>2. Whole(s)' = Whole(s) BY DEF Whole
<1>3. Reaches(Whole(s), stream[s].got, stream[s].out, e)' BY <1>1, <1>2 DEF LedgerAt
<1>4. ASSUME NEW w \in Workers, Carries(w, s)', stream'[s].at # "dropped"
      PROVE  InHand(worker[w].item, worker[w].reads, Whole(s), e)'
  BY <1>1, <1>2, <1>4 DEF LedgerAt
<1>5. CleanSoFar(s)' => e = Len(Whole(s)') BY <1>1, <1>2 DEF LedgerAt
<1>6. LedgerAt(s, e)' BY <1>3, <1>4, <1>5 DEF LedgerAt
<1> QED BY <1>6 DEF Ledger

LEMMA CallerLedger ==
    ASSUME Shapes, Shapes', OnePlace, Ledgers, NEW s \in Streams, CallerStep(s)
    PROVE  Ledgers'
<1>1. /\ \A t \in Streams : t # s => stream'[t] = stream[t]
      /\ worker' = worker /\ pool' = pool
  BY OtherStreams
<1>2. ASSUME NEW t \in Streams, t # s PROVE Ledger(t)'
  <2>1. Ledger(t) /\ stream'[t] = stream[t] BY <1>1, <1>2 DEF Ledgers
  <2>2. CleanSoFar(t)' => CleanSoFar(t) BY <1>1, <2>1 DEF CleanSoFar, NoError, Closing
  <2>3. \A w \in Workers : Carries(w, t)' => Carries(w, t) BY <1>1 DEF Carries, Runs
  <2> QED BY <1>1, <2>1, <2>2, <2>3, LedgerSame
<1>3. Ledger(s) /\ StreamPlace(s) BY DEF Ledgers, OnePlace
<1>4. \A w \in Workers : Carries(w, s)' => Carries(w, s) BY <1>1 DEF Carries, Runs
<1>5. Whole(s) \in Seq(Positions) /\ Whole(s)' \in Seq(Positions)
  BY WholeType, WholeTypeNext
<1>6. Ledger(s)'
  <2>1. CASE \E job \in Jobs : Read(s, job)
    <3>1. /\ stream'[s].at = "lazy" /\ stream[s].at = "unused"
          /\ stream'[s].got = stream[s].got /\ stream'[s].out = stream[s].out
      BY <2>1, ReadEffect
    <3>2. stream[s].got = <<>> /\ stream[s].out = <<>> /\ \A w \in Workers : ~Runs(w, s)
      BY <1>3, <3>1 DEF StreamPlace, Fresh, Submitted
    <3>3. Reaches(Whole(s)', <<>>, <<>>, 0) BY <1>5, CutEmpty
    <3>4. LedgerAt(s, 0)'
      <4>1. Reaches(Whole(s), stream[s].got, stream[s].out, 0)' BY <3>1, <3>2, <3>3
      <4>2. \A w \in Workers : ~Carries(w, s)' BY <1>4, <3>2 DEF Carries
      <4>3. ~CleanSoFar(s)' BY <3>1 DEF CleanSoFar
      <4> QED BY <4>1, <4>2, <4>3 DEF LedgerAt
    <3> QED BY <3>4 DEF Ledger
  <2>2. CASE PollSubmit(s)
    <3>1. ~CleanSoFar(s)' /\ stream[s].at # "dropped"
      BY <1>3, <2>2, PollSubmitEffect DEF StreamPlace, CleanSoFar
    <3> QED BY <1>1, <1>3, <1>4, <2>2, <3>1, PollSubmitEffect, LedgerSame
  <2>3. CASE PollWaiting(s) \/ PollEnd(s)
    <3>1. stream[s].at \in {"waiting", "streaming"} /\ stream'[s].at \in {"streaming", "ended"}
      BY <2>3, PollEffect
    <3>2. /\ stream'[s].got = stream[s].got /\ stream'[s].out = stream[s].out
          /\ stream'[s].told = stream[s].told /\ stream'[s].sender = stream[s].sender
          /\ stream'[s].job = stream[s].job /\ stream'[s].pinned = stream[s].pinned
      BY <2>3, PollEffect
    <3>3. CleanSoFar(s)' => CleanSoFar(s)
      BY <1>1, <3>1, <3>2 DEF CleanSoFar, NoError, Closing
    <3> QED BY <1>1, <1>3, <1>4, <3>1, <3>2, <3>3, LedgerSame
  <2>4. CASE PollItem(s)
    <3>1. PICK e \in Nat : LedgerAt(s, e) BY <1>3 DEF Ledger
    <3>2. /\ stream[s].at = "streaming" /\ stream'[s].at = "streaming"
          /\ stream[s].out # <<>> /\ stream'[s].out = Tail(stream[s].out)
          /\ stream'[s].got = stream[s].got \o Head(stream[s].out).batch
          /\ stream'[s].told = IF Head(stream[s].out).err = "none" THEN stream[s].told
                               ELSE Head(stream[s].out).err
          /\ stream'[s].sender = stream[s].sender
          /\ stream'[s].job = stream[s].job /\ stream'[s].pinned = stream[s].pinned
      BY <2>4, PollItemEffect
    <3>3. Whole(s)' = Whole(s) BY <3>2 DEF Whole
    <3>4. PICK out \in Seq(Item), got \in Seq(Positions) : out = stream[s].out /\ got = stream[s].got
      BY StreamTypes
    <3>5. Reaches(Whole(s), got, out, e) /\ out # <<>> BY <3>1, <3>2, <3>4 DEF LedgerAt
    <3>6. Reaches(Whole(s), got \o Head(out).batch, Tail(out), e) BY <1>5, <3>5, CutTail
    <3>7. Reaches(Whole(s), stream[s].got, stream[s].out, e)'
      BY <3>2, <3>3, <3>4, <3>6, Zenon
    <3>8. \A w \in Workers : Carries(w, s)' =>
              InHand(worker[w].item, worker[w].reads, Whole(s), e)'
      BY <1>1, <1>4, <3>1, <3>2, <3>3 DEF LedgerAt
    <3>9. CleanSoFar(s)' => CleanSoFar(s)
      <4>1. ASSUME CleanSoFar(s)' PROVE NoError(s)
        <5>1. NoError(s)' BY <4>1 DEF CleanSoFar
        <5>2. PICK n \in Nat : /\ DOMAIN out = 1..(n + 1) /\ DOMAIN Tail(out) = 1..n
                               /\ \A i \in 1..n : Tail(out)[i] = out[i + 1]
          <6>1. Len(out) \in Nat \ {0} BY <3>5, EmptySeq
          <6>2. PICK n \in Nat : Len(out) = n + 1
            <7>1. Len(out) - 1 \in Nat /\ Len(out) = Len(out) - 1 + 1 BY <6>1
            <7> QED BY <7>1
          <6>3. /\ Tail(out) \in Seq(Item) /\ Len(Tail(out)) = Len(out) - 1
                /\ \A i \in 1..Len(Tail(out)) : Tail(out)[i] = out[i + 1]
            BY <3>5, HeadTailProperties
          <6>4. Len(Tail(out)) = n BY <6>2, <6>3
          <6>5. DOMAIN Tail(out) = 1..Len(Tail(out)) /\ DOMAIN out = 1..Len(out)
            BY <6>3, LenProperties
          <6> QED BY <6>2, <6>3, <6>4, <6>5, Zenon
        <5>3. Head(out).err = "none" /\ Head(out) = out[1] /\ stream[s].told = "nothing"
          <6>1. Head(out) \in Item BY <3>5
          <6>2. Head(out).err \in {"none", "error", "aborted"} BY <6>1, ItemTypes
          <6>3. stream'[s].told = "nothing" BY <5>1 DEF NoError
          <6> QED BY <3>2, <3>4, <6>2, <6>3
        <5>4. ASSUME NEW j \in DOMAIN out PROVE out[j].err = "none"
          <6>1. CASE j = 1 BY <5>3, <6>1
          <6>2. CASE j # 1
            <7>1. j - 1 \in 1..n /\ j - 1 + 1 = j BY <5>2, <6>2
            <7>2. Tail(out)[j - 1].err = "none"
              BY <3>2, <3>4, <5>1, <5>2, <7>1, Zenon DEF NoError
            <7> QED BY <5>2, <7>1, <7>2
          <6> QED BY <6>1, <6>2
        <5> QED BY <3>4, <5>3, <5>4 DEF NoError
      <4> QED BY <1>1, <3>2, <4>1 DEF CleanSoFar, Closing
    <3>10. LedgerAt(s, e)' BY <3>1, <3>3, <3>7, <3>8, <3>9 DEF LedgerAt
    <3> QED BY <3>10 DEF Ledger
  <2>5. CASE DropStream(s)
    <3>1. /\ stream'[s].at = "dropped" /\ stream'[s].out = <<>>
          /\ stream'[s].got = stream[s].got
          /\ stream'[s].job = stream[s].job /\ stream'[s].pinned = stream[s].pinned
      BY <2>5, DropStreamEffect
    <3>2. Whole(s)' = Whole(s) BY <3>1 DEF Whole
    <3>3. PICK e \in Nat : Reaches(Whole(s), stream[s].got, stream[s].out, e)
      BY <1>3 DEF Ledger, LedgerAt
    <3>4. stream[s].got \in Seq(Positions) /\ Len(stream[s].got) \in Nat
      BY StreamTypes, LenProperties
    <3>5. Reaches(Whole(s), stream[s].got, <<>>, Len(stream[s].got))
      BY <1>5, <3>3, <3>4, CutDrop
    <3>6. Reaches(Whole(s), stream[s].got, stream[s].out, Len(stream[s].got))'
      BY <3>1, <3>2, <3>5
    <3>7. PICK n \in Nat : n = Len(stream[s].got)' BY <3>1, <3>4
    <3>8. LedgerAt(s, n)' BY <3>1, <3>6, <3>7 DEF LedgerAt, CleanSoFar
    <3> QED BY <3>8 DEF Ledger
  <2> QED BY <2>1, <2>2, <2>3, <2>4, <2>5 DEF CallerStep, Poll, Take
<1> QED BY <1>2, <1>6 DEF Ledgers

LEMMA OwnerLedger ==
    ASSUME Ledgers, OwnerStep
    PROVE  Ledgers'
<1>1. stream' = stream /\ worker' = worker /\ (Closing => Closing')
  BY DEF OwnerStep, ClosePool, Signal, DropSender, Join, Closing
<1>2. ASSUME NEW s \in Streams PROVE Ledger(s)'
  <2>1. Ledger(s) /\ (CleanSoFar(s)' => CleanSoFar(s))
    BY <1>1 DEF Ledgers, CleanSoFar, NoError
  <2>2. \A w \in Workers : Carries(w, s)' => Carries(w, s) BY <1>1 DEF Carries, Runs
  <2> QED BY <1>1, <2>1, <2>2, LedgerSame
<1> QED BY <1>2 DEF Ledgers

\* One more event moves from what is left to read into the batch.
LEMMA InHandNext ==
    ASSUME NEW whole \in Seq(Positions), NEW item \in Seq(Positions), NEW reads \in Seq(Positions),
           NEW e \in Nat, reads # <<>>, InHand(item, reads, whole, e)
    PROVE  InHand(Append(item, Head(reads)), Tail(reads), whole, e)
<1>1. PICK m \in Nat, n \in Nat : Len(item) = m /\ Len(reads) = n + 1
  <2>1. Len(reads) \in Nat \ {0} /\ Len(item) \in Nat BY EmptySeq, LenProperties
  <2>2. Len(reads) - 1 \in Nat /\ Len(reads) = Len(reads) - 1 + 1 BY <2>1
  <2> QED BY <2>1, <2>2
<1>2. PICK h \in Positions, t \in Seq(Positions) :
          /\ h = Head(reads) /\ h = reads[1] /\ t = Tail(reads) /\ Len(t) = n
          /\ \A i \in 1..n : t[i] = reads[i + 1]
  <2>1. /\ Head(reads) \in Positions /\ Tail(reads) \in Seq(Positions)
        /\ Len(Tail(reads)) = Len(reads) - 1
        /\ \A i \in 1..Len(Tail(reads)) : Tail(reads)[i] = reads[i + 1]
    BY HeadTailProperties
  <2>2. Head(reads) = reads[1] OBVIOUS
  <2>3. Len(Tail(reads)) = n BY <1>1, <2>1
  <2> QED BY <2>1, <2>2, <2>3
<1>3. PICK b \in Seq(Positions) : /\ b = Append(item, h) /\ Len(b) = m + 1
                                  /\ b[m + 1] = h /\ \A i \in 1..m : b[i] = item[i]
  <2>1. /\ Append(item, h) \in Seq(Positions) /\ Len(Append(item, h)) = Len(item) + 1
        /\ \A i \in 1..Len(item) : Append(item, h)[i] = item[i]
        /\ Append(item, h)[Len(item) + 1] = h
    BY AppendProperties
  <2> QED BY <1>1, <2>1, Zenon
<1>4. PICK l \in Nat : l = Len(whole) BY LenProperties
<1>5. /\ \A i \in 1..m : item[i] = whole[e + i]
      /\ \A i \in 1..(n + 1) : reads[i] = whole[e + m + i]
      /\ e + m + (n + 1) = l
  BY <1>1, <1>4 DEF InHand, Piece
<1>6. Piece(b, whole, e)
  <2>1. ASSUME NEW i \in 1..(m + 1) PROVE b[i] = whole[e + i]
    <3>1. CASE i \in 1..m BY <1>3, <1>5, <3>1
    <3>2. CASE i \notin 1..m
      <4>1. i = m + 1 /\ 1 \in 1..(n + 1) /\ e + m + 1 = e + (m + 1) BY <1>1, <3>2
      <4>2. reads[1] = whole[e + m + 1] BY <1>5, <4>1
      <4> QED BY <1>2, <1>3, <4>1, <4>2
    <3> QED BY <3>1, <3>2
  <2>2. e + (m + 1) <= l BY <1>5
  <2> QED BY <1>3, <1>4, <2>1, <2>2 DEF Piece
<1>7. Piece(t, whole, e + Len(b))
  <2>1. ASSUME NEW i \in 1..n PROVE t[i] = whole[e + (m + 1) + i]
    <3>1. i + 1 \in 1..(n + 1) /\ e + m + (i + 1) = e + (m + 1) + i BY <1>1
    <3>2. reads[i + 1] = whole[e + m + (i + 1)] BY <1>5, <3>1
    <3> QED BY <1>2, <3>1, <3>2
  <2>2. e + (m + 1) + n <= l BY <1>5
  <2> QED BY <1>2, <1>3, <1>4, <2>1, <2>2 DEF Piece
<1>8. e + Len(b) + Len(t) = Len(whole)
  <2>1. e + (m + 1) + n = l BY <1>5
  <2> QED BY <1>2, <1>3, <1>4, <2>1, Zenon
<1>9. InHand(b, t, whole, e) BY <1>6, <1>7, <1>8 DEF InHand
<1> QED BY <1>2, <1>3, <1>9

\* A worker's step touches the ledger of its own stream only.
LEMMA OtherLedgers ==
    ASSUME Ledgers, NEW w \in Workers, NEW s \in Streams, NEW t \in Streams, t # s,
           OtherWorkers(w), pool' = pool, stream'[t] = stream[t],
           worker'[w].at \in Working => worker'[w].s = s
    PROVE  Ledger(t)'
<1>1. Ledger(t) BY DEF Ledgers
<1>2. CleanSoFar(t)' => CleanSoFar(t) BY DEF CleanSoFar, NoError, Closing
<1>3. ASSUME NEW v \in Workers, Carries(v, t)'
      PROVE  Carries(v, t) /\ worker'[v] = worker[v]
  <2>1. v # w BY <1>3 DEF Carries, Runs
  <2> QED BY <1>3, <2>1 DEF Carries, Runs, OtherWorkers
<1> QED BY <1>1, <1>2, <1>3, LedgerSame

\* The worker that runs a stream's job is the only one.
LEMMA OnlyCarrier ==
    ASSUME WorkersApart, NEW w \in Workers, NEW s \in Streams, OtherWorkers(w),
           worker[w].at \in Working, worker[w].s = s, NEW v \in Workers, Carries(v, s)'
    PROVE  v = w
  BY DEF WorkersApart, OtherWorkers, Carries, Runs

LEMMA WorkerLedger ==
    ASSUME Shapes, Shapes', OnePlace, Ledgers, NEW w \in Workers, WorkStep(w)
    PROVE  Ledgers'
<1>1. WorkersApart /\ WorkerPlace(w) /\ \A t \in Streams : StreamPlace(t) BY DEF OnePlace
<1>2. \A t \in Streams : /\ Ledger(t)
                         /\ Whole(t) \in Seq(Positions) /\ Whole(t)' \in Seq(Positions)
  BY WholeType, WholeTypeNext DEF Ledgers
\* The stream whose job the worker has.
<1>3. ASSUME NEW s \in Streams, OtherWorkers(w), pool' = pool,
             \A t \in Streams : t # s => stream'[t] = stream[t],
             worker'[w].at \in Working => worker'[w].s = s,
             Ledger(s)'
      PROVE  Ledgers'
  BY <1>3, OtherLedgers DEF Ledgers
<1>4. ASSUME NEW s \in Streams, OtherWorkers(w), pool' = pool, stream' = stream,
             worker[w].at \in Working, worker[w].s = s,
             worker'[w].at \in Working => worker'[w].s = s,
             Carries(w, s)' => /\ Carries(w, s)
                               /\ worker'[w].item = worker[w].item
                               /\ worker'[w].reads = worker[w].reads
      PROVE  Ledgers'
  <2>1. \A v \in Workers : Carries(v, s)' => v = w BY <1>1, <1>4, OnlyCarrier
  <2>2. CleanSoFar(s)' => CleanSoFar(s) BY <1>4 DEF CleanSoFar, NoError, Closing
  <2>3. Ledger(s)' BY <1>2, <1>4, <2>1, <2>2, LedgerSame
  <2> QED
    BY <1>3, <1>4, <2>3
\* A job that ends without another item.
<1>5. ASSUME worker[w].at \in Working, FinishJob(w), pool' = pool,
             \/ Closing
             \/ stream[worker[w].s].at = "dropped"
             \/ Carries(w, worker[w].s) /\ worker[w].item = <<>> /\ worker[w].reads = <<>>
      PROVE  Ledgers'
  <2>1. PICK s \in Streams : s = worker[w].s BY <1>1, <1>5 DEF WorkersApart
  <2>2. /\ OtherWorkers(w) /\ worker'[w] = IdleWorker
        /\ \A t \in Streams : t # s => stream'[t] = stream[t]
        /\ stream'[s] = [stream[s] EXCEPT !.sender = FALSE]
    BY <1>1, <1>5, <2>1, FinishEffect DEF OtherStreamsOf
  <2>3. /\ stream'[s].at = stream[s].at /\ stream'[s].got = stream[s].got
        /\ stream'[s].out = stream[s].out /\ stream'[s].job = stream[s].job
        /\ stream'[s].pinned = stream[s].pinned /\ stream'[s].told = stream[s].told
    BY <2>2, StreamTypes DEF StreamType
  <2>4. worker'[w].at \notin Working BY <2>2 DEF IdleWorker, Working
  <2>5. \A v \in Workers : ~Carries(v, s)'
    <3>1. \A v \in Workers : Carries(v, s)' => v = w
      BY <1>1, <1>5, <2>1, <2>2, OnlyCarrier
    <3> QED BY <2>4, <3>1 DEF Carries, Runs
  <2>6. Ledger(s)'
    <3>1. CASE Closing \/ stream[s].at = "dropped"
      <4>1. ~CleanSoFar(s)' BY <1>5, <2>3, <3>1 DEF CleanSoFar, Closing
      <4> QED BY <1>2, <2>3, <2>5, <4>1, LedgerSame
    <3>2. CASE ~(Closing \/ stream[s].at = "dropped")
      <4>1. Carries(w, s) /\ worker[w].item = <<>> /\ worker[w].reads = <<>> /\ stream[s].at # "dropped"
        BY <1>5, <2>1, <3>2
      <4>2. PICK e \in Nat : LedgerAt(s, e) BY <1>2 DEF Ledger
      <4>3. InHand(worker[w].item, worker[w].reads, Whole(s), e)
        BY <4>1, <4>2 DEF LedgerAt
      <4>4. e + Len(<<>>) + Len(<<>>) = Len(Whole(s)) BY <4>1, <4>3 DEF InHand
      <4>5. e = Len(Whole(s)) BY <4>4
      <4>6. Whole(s)' = Whole(s) BY <2>3 DEF Whole
      <4>7. Reaches(Whole(s), stream[s].got, stream[s].out, e)'
        BY <2>3, <4>2, <4>6 DEF LedgerAt
      <4>8. LedgerAt(s, e)' BY <2>5, <4>5, <4>6, <4>7 DEF LedgerAt
      <4> QED BY <4>8 DEF Ledger
    <3> QED BY <3>1, <3>2
  <2> QED BY <1>3, <1>5, <2>2, <2>4, <2>6
<1>6. CASE Receive(w)
  <2>1. /\ OtherWorkers(w) /\ stream' = stream /\ pool' = pool /\ worker'[w].at = "start"
    BY <1>6, ReceiveEffect
  <2>2. ASSUME NEW t \in Streams PROVE Ledger(t)'
    <3>1. \A v \in Workers : Carries(v, t)' => v # w BY <2>1 DEF Carries
    <3>2. \A v \in Workers : Carries(v, t)' => Carries(v, t) /\ worker'[v] = worker[v]
      BY <2>1, <3>1 DEF Carries, Runs, OtherWorkers
    <3>3. CleanSoFar(t)' => CleanSoFar(t) BY <2>1 DEF CleanSoFar, NoError, Closing
    <3> QED BY <1>2, <2>1, <3>2, <3>3, LedgerSame
  <2> QED BY <2>2 DEF Ledgers
<1>7. CASE WorkerExit(w)
  <2>1. OtherWorkers(w) /\ worker'[w].at = "exited" /\ stream' = stream /\ pool' = pool
    BY <1>7, MoveEffect DEF WorkerExit
  <2>2. ASSUME NEW t \in Streams PROVE Ledger(t)'
    <3>1. \A v \in Workers : Carries(v, t)' => v # w BY <2>1 DEF Carries
    <3>2. \A v \in Workers : Carries(v, t)' => Carries(v, t) /\ worker'[v] = worker[v]
      BY <2>1, <3>1 DEF Carries, Runs, OtherWorkers
    <3>3. CleanSoFar(t)' => CleanSoFar(t) BY <2>1 DEF CleanSoFar, NoError, Closing
    <3> QED BY <1>2, <2>1, <3>2, <3>3, LedgerSame
  <2> QED BY <2>2 DEF Ledgers
<1>8. CASE BeginRead(w)
  <2>1. PICK s \in Streams : s = worker[w].s /\ worker[w].at = "start"
    BY <1>1, <1>8, BeginReadEffect
  <2>2. PICK p \in 0..MaxPublished : /\ worker'[w].reads = ReadRange(stream[s].job, p)
                                     /\ stream'[s] = [stream[s] EXCEPT !.pinned = p]
    BY <1>1, <1>8, <2>1, BeginReadEffect
  <2>3. /\ OtherWorkers(w) /\ pool' = pool
        /\ \A t \in Streams : t # s => stream'[t] = stream[t]
        /\ worker'[w].at = "scan" /\ worker'[w].s = s /\ worker'[w].item = worker[w].item
    BY <1>1, <1>8, <2>1, BeginReadEffect DEF OtherStreamsOf
  <2>4. /\ stream'[s].at = stream[s].at /\ stream'[s].got = stream[s].got
        /\ stream'[s].out = stream[s].out /\ stream'[s].sender = stream[s].sender
        /\ stream'[s].job = stream[s].job /\ stream'[s].pinned = p
    BY <2>2, StreamTypes DEF StreamType
  <2>5. Fresh(s) /\ Submitted(s) /\ worker[w].item = <<>>
    BY <1>1, <2>1 DEF StreamPlace, WorkerPlace, Runs, Working
  <2>6. worker'[w].reads = Whole(s)' /\ worker'[w].item = <<>>
    BY <2>2, <2>3, <2>4, <2>5 DEF Whole
  <2>7. Reaches(Whole(s), stream[s].got, stream[s].out, 0)'
    <3>1. Reaches(Whole(s)', <<>>, <<>>, 0) BY <1>2, CutEmpty
    <3> QED BY <2>4, <2>5, <3>1 DEF Fresh
  <2>8. InHand(worker[w].item, worker[w].reads, Whole(s), 0)'
    <3>1. ASSUME NEW whole \in Seq(Positions) PROVE InHand(<<>>, whole, whole, 0)
      <4>1. Len(<<>>) = 0 /\ Len(whole) \in Nat BY LenProperties
      <4> QED BY <4>1 DEF InHand, Piece
    <3> QED BY <1>2, <2>6, <3>1
  <2>9. \A v \in Workers : Carries(v, s)' => v = w
    BY <1>1, <2>1, <2>3, OnlyCarrier DEF Working
  <2>10. ~CleanSoFar(s)' BY <2>4, <2>5 DEF CleanSoFar, Submitted
  <2>11. LedgerAt(s, 0)' BY <2>7, <2>8, <2>9, <2>10 DEF LedgerAt
  <2>12. Ledger(s)' BY <2>11 DEF Ledger
  <2> QED BY <1>3, <2>3, <2>12
<1>9. CASE ScanNext(w)
  <2>1. /\ OtherWorkers(w) /\ stream' = stream /\ pool' = pool
        /\ worker[w].at = "scan" /\ worker[w].reads # <<>>
        /\ worker'[w].at \in {"scan", "check"} /\ worker'[w].s = worker[w].s
        /\ worker'[w].item = Append(worker[w].item, Head(worker[w].reads))
        /\ worker'[w].reads = Tail(worker[w].reads)
        /\ worker'[w].failed = worker[w].failed
    BY <1>9, ScanNextEffect
  <2>2. PICK s \in Streams : s = worker[w].s BY <1>1, <2>1 DEF WorkersApart, Working
  <2>3. PICK e \in Nat : LedgerAt(s, e) BY <1>2 DEF Ledger
  <2>4. Whole(s)' = Whole(s) /\ (CleanSoFar(s)' => CleanSoFar(s))
    BY <2>1 DEF Whole, CleanSoFar, NoError, Closing
  <2>5. \A v \in Workers : Carries(v, s)' => v = w
    BY <1>1, <2>1, <2>2, OnlyCarrier DEF Working
  <2>6. ASSUME Carries(w, s)', stream'[s].at # "dropped"
        PROVE  InHand(worker[w].item, worker[w].reads, Whole(s), e)'
    <3>1. PICK item \in Seq(Positions), reads \in Seq(Positions) :
              item = worker[w].item /\ reads = worker[w].reads
      BY WorkerTypes
    <3>2. Carries(w, s) /\ stream[s].at # "dropped"
      BY <2>1, <2>6 DEF Carries, Runs, Working
    <3>3. InHand(item, reads, Whole(s), e) /\ reads # <<>>
      BY <2>1, <2>3, <3>1, <3>2 DEF LedgerAt
    <3>4. InHand(Append(item, Head(reads)), Tail(reads), Whole(s), e)
      BY <1>2, <3>3, InHandNext
    <3> QED BY <2>1, <2>4, <3>1, <3>4, Zenon
  <2>7. Reaches(Whole(s), stream[s].got, stream[s].out, e)'
    BY <2>1, <2>3, <2>4 DEF LedgerAt
  <2>8. LedgerAt(s, e)' BY <2>3, <2>4, <2>5, <2>6, <2>7 DEF LedgerAt
  <2>9. Ledger(s)' BY <2>8 DEF Ledger
  <2> QED BY <1>3, <2>1, <2>2, <2>9
<1>10. CASE ScanEnd(w) \/ SendCheck(w) \/ SendTimeout(w) \/ SendDisconnected(w)
  <2>1. pool' = pool /\ worker[w].at \in {"scan", "check", "send"}
    BY <1>10 DEF ScanEnd, SendCheck, SendTimeout, SendDisconnected
  <2>2. worker[w].at \in Working BY <2>1 DEF Working
  <2>3. CASE FinishJob(w) /\ (\/ Closing \/ stream[worker[w].s].at = "dropped"
                              \/ /\ worker[w].at = "scan"
                                 /\ worker[w].item = <<>> /\ worker[w].reads = <<>>)
    <3>1. worker[w].at = "scan" => Carries(w, worker[w].s)
      BY <1>1, <2>2 DEF WorkerPlace, Carries, Runs
    <3> QED BY <1>5, <2>1, <2>2, <2>3, <3>1
  <2>4. CASE \E a \in {"check", "send"} : worker' = [worker EXCEPT ![w].at = a] /\ stream' = stream
    <3>1. PICK a \in {"check", "send"} : worker' = [worker EXCEPT ![w].at = a] /\ stream' = stream
      BY <2>4
    <3>2. /\ OtherWorkers(w) /\ worker'[w].at = a /\ worker'[w].s = worker[w].s
          /\ worker'[w].item = worker[w].item /\ worker'[w].reads = worker[w].reads
          /\ worker'[w].failed = worker[w].failed
      BY <3>1, MoveEffect
    <3>3. PICK s \in Streams : s = worker[w].s BY <1>1, <2>2 DEF WorkersApart
    <3>4. Carries(w, s)' => Carries(w, s) BY <2>1, <3>2 DEF Carries, Runs, Working
    <3> QED BY <1>4, <2>1, <2>2, <3>1, <3>2, <3>3, <3>4
  <2> QED BY <1>10, <2>3, <2>4 DEF ScanEnd, SendCheck, SendTimeout, SendDisconnected
<1>11. CASE ScanFails(w) \/ Panic(w)
  <2>1. /\ OtherWorkers(w) /\ stream' = stream /\ pool' = pool
        /\ worker[w].at \in {"start", "scan"} /\ worker'[w].s = worker[w].s
        /\ \/ worker'[w].at = "check" /\ worker'[w].failed
           \/ worker'[w].at = "abort"
    BY <1>11, FaultEffect
  <2>2. PICK s \in Streams : s = worker[w].s BY <1>1, <2>1 DEF WorkersApart, Working
  <2>3. ~Carries(w, s)' /\ worker[w].at \in Working BY <2>1 DEF Carries, Working
  <2> QED BY <1>4, <2>1, <2>2, <2>3
<1>12. CASE SendOk(w)
  <2>1. PICK s \in Streams : /\ s = worker[w].s /\ worker[w].at = "send"
                             /\ stream[s].at # "dropped"
    BY <1>1, <1>12, SendOkEffect
  <2>2. /\ OtherWorkers(w) /\ pool' = pool
        /\ \A t \in Streams : t # s => stream'[t] = stream[t]
    BY <1>1, <1>12, <2>1, SendOkEffect DEF OtherStreamsOf
  <2>3. PICK done \in BOOLEAN, item \in Item :
            /\ item = [batch |-> worker[w].item, err |-> IF worker[w].failed THEN "error" ELSE "none"]
            /\ done => worker[w].failed \/ worker[w].reads = <<>>
            /\ worker[w].failed => done
            /\ stream'[s] = [stream[s] EXCEPT !.out = Append(@, item), !.sender = ~done]
            /\ done => worker'[w] = IdleWorker
            /\ ~done => worker'[w] = [worker[w] EXCEPT !.at = "scan", !.item = <<>>]
    BY <1>1, <1>12, <2>1, SendOkEffect
  <2>4. /\ stream'[s].at = stream[s].at /\ stream'[s].got = stream[s].got
        /\ stream'[s].out = Append(stream[s].out, item) /\ stream'[s].sender = ~done
        /\ stream'[s].job = stream[s].job /\ stream'[s].pinned = stream[s].pinned
    BY <2>3, StreamTypes DEF StreamType
  <2>5. /\ done => worker'[w].at = "idle"
        /\ ~done => /\ worker'[w].at = "scan" /\ worker'[w].s = s
                    /\ worker'[w].item = <<>> /\ worker'[w].reads = worker[w].reads
    <3>1. done => worker'[w].at = "idle" BY <2>3 DEF IdleWorker
    <3>2. worker[w] \in WorkerType BY WorkerTypes
    <3>3. ASSUME NEW r \in WorkerType, NEW x, x = [r EXCEPT !.at = "scan", !.item = <<>>]
          PROVE  x.at = "scan" /\ x.s = r.s /\ x.item = <<>> /\ x.reads = r.reads
      BY <3>3 DEF WorkerType
    <3> QED BY <2>1, <2>3, <3>1, <3>2, <3>3
  <2>6. PICK e \in Nat : LedgerAt(s, e) BY <1>2 DEF Ledger
  <2>7. Whole(s)' = Whole(s) BY <2>4 DEF Whole
  <2>8. PICK out \in Seq(Item), got \in Seq(Positions), reads \in Seq(Positions), b \in Seq(Positions) :
            /\ out = stream[s].out /\ got = stream[s].got /\ reads = worker[w].reads
            /\ b = worker[w].item /\ item.batch = b
    BY <2>3, StreamTypes, WorkerTypes
  <2>9. Reaches(Whole(s), got, out, e) BY <2>6, <2>8 DEF LedgerAt
  <2>10. \A v \in Workers : Carries(v, s)' => v = w
    BY <1>1, <2>1, <2>2, OnlyCarrier DEF Working
  <2>11. Piece(b, Whole(s), e) /\ e + Len(b) \in Nat
    <3>1. Len(b) \in Nat /\ Len(Whole(s)) \in Nat BY <1>2, LenProperties
    <3>2. CASE worker[w].failed
      <4>1. b = <<>> BY <1>1, <2>8, <3>2 DEF WorkerPlace
      <4>2. e <= Len(Whole(s)) BY <1>2, <2>9, CutBound
      <4> QED BY <3>1, <4>1, <4>2 DEF Piece
    <3>3. CASE ~worker[w].failed
      <4>1. Carries(w, s) BY <2>1, <3>3 DEF Carries, Runs, Working
      <4>2. InHand(b, reads, Whole(s), e) BY <2>1, <2>6, <2>8, <4>1 DEF LedgerAt
      <4> QED BY <3>1, <4>2 DEF InHand
    <3> QED BY <3>2, <3>3
  <2>12. PICK e2 \in Nat : e2 = e + Len(b) BY <2>11
  <2>13. Reaches(Whole(s), got, Append(out, item), e2)
    <3>1. Piece(item.batch, Whole(s), e) /\ e2 = e + Len(item.batch) BY <2>8, <2>11, <2>12
    <3> QED BY <1>2, <2>9, <3>1, CutAppend
  <2>14. Reaches(Whole(s), stream[s].got, stream[s].out, e2)'
    BY <2>4, <2>7, <2>8, <2>13, Zenon
  <2>15. ~worker[w].failed => InHand(b, reads, Whole(s), e)
    <3>1. ~worker[w].failed => Carries(w, s) BY <2>1 DEF Carries, Runs, Working
    <3> QED BY <2>1, <2>6, <2>8, <3>1 DEF LedgerAt
  <2>16. ASSUME Carries(w, s)' PROVE InHand(worker[w].item, worker[w].reads, Whole(s), e2)'
    <3>1. ~done BY <2>5, <2>16 DEF Carries
    <3>2. worker'[w].item = <<>> /\ worker'[w].reads = reads /\ ~worker[w].failed
      BY <2>3, <2>5, <2>8, <3>1
    <3>3. Len(b) \in Nat /\ Len(reads) \in Nat /\ Len(Whole(s)) \in Nat /\ Len(<<>>) = 0
      BY <1>2, LenProperties
    <3>4. Piece(reads, Whole(s), e + Len(b)) /\ e + Len(b) + Len(reads) = Len(Whole(s))
      BY <2>15, <3>2 DEF InHand
    <3>5. Piece(<<>>, Whole(s), e2) BY <2>12, <3>3, <3>4 DEF Piece
    <3>6. e2 + Len(<<>>) = e2 BY <3>3
    <3>7. InHand(<<>>, reads, Whole(s), e2) BY <2>12, <3>4, <3>5, <3>6 DEF InHand
    <3> QED BY <2>7, <3>2, <3>7, Zenon
  <2>17. ASSUME CleanSoFar(s)' PROVE e2 = Len(Whole(s)')
    <3>1. done BY <2>4, <2>17 DEF CleanSoFar
    <3>2. item.err = "none"
      <4>1. PICK n \in Nat : n = Len(out) BY LenProperties
      <4>2. n + 1 \in DOMAIN Append(out, item) /\ Append(out, item)[n + 1] = item BY <4>1
      <4>3. \A j \in DOMAIN Append(out, item) : Append(out, item)[j].err = "none"
        BY <2>4, <2>8, <2>17, Zenon DEF CleanSoFar, NoError
      <4> QED BY <4>2, <4>3, Zenon
    <3>3. ~worker[w].failed /\ reads = <<>> BY <2>3, <2>8, <3>1, <3>2
    <3>4. e + Len(b) + Len(<<>>) = Len(Whole(s)) BY <2>15, <3>3 DEF InHand
    <3>5. Len(<<>>) = 0 /\ Len(b) \in Nat BY LenProperties
    <3> QED BY <2>7, <2>12, <3>4, <3>5
  <2>18. LedgerAt(s, e2)' BY <2>10, <2>14, <2>16, <2>17 DEF LedgerAt
  <2>19. Ledger(s)' BY <2>18 DEF Ledger
  <2>20. worker'[w].at \in Working => worker'[w].s = s BY <2>5 DEF Working
  <2> QED BY <1>3, <2>2, <2>19, <2>20
<1>13. CASE SendAborted(w)
  <2>1. PICK s \in Streams : s = worker[w].s /\ worker[w].at = "abort"
    BY <1>1, <1>13, SendAbortedEffect
  <2>2. /\ OtherWorkers(w) /\ pool' = pool /\ worker'[w] = IdleWorker
        /\ \A t \in Streams : t # s => stream'[t] = stream[t]
    BY <1>1, <1>13, <2>1, SendAbortedEffect DEF OtherStreamsOf
  <2>3. PICK item \in Item : item = [batch |-> <<>>, err |-> "aborted"] BY ItemTypes
  <2>4. PICK o \in Seq(Item) :
            /\ o = IF stream[s].at = "dropped" THEN stream[s].out ELSE Append(stream[s].out, item)
            /\ stream'[s] = [stream[s] EXCEPT !.out = o, !.sender = FALSE]
    BY <1>1, <1>13, <2>1, <2>3, SendAbortedEffect
  <2>5. /\ stream'[s].at = stream[s].at /\ stream'[s].got = stream[s].got
        /\ stream'[s].out = o
        /\ stream'[s].job = stream[s].job /\ stream'[s].pinned = stream[s].pinned
    BY <2>4, StreamTypes DEF StreamType
  <2>6. worker'[w].at \notin Working BY <2>2 DEF IdleWorker, Working
  <2>7. \A v \in Workers : ~Carries(v, s)'
    <3>1. \A v \in Workers : Carries(v, s)' => v = w
      BY <1>1, <2>1, <2>2, OnlyCarrier DEF Working
    <3> QED BY <2>6, <3>1 DEF Carries, Runs
  <2>8. PICK e \in Nat : LedgerAt(s, e) BY <1>2 DEF Ledger
  <2>9. Whole(s)' = Whole(s) BY <2>5 DEF Whole
  <2>10. PICK out \in Seq(Item), got \in Seq(Positions) : out = stream[s].out /\ got = stream[s].got
    BY StreamTypes
  <2>11. Reaches(Whole(s), got, out, e) BY <2>8, <2>10 DEF LedgerAt
  <2>12. CASE stream[s].at = "dropped"
    <3>1. Reaches(Whole(s), stream[s].got, stream[s].out, e)'
      BY <2>4, <2>5, <2>9, <2>10, <2>11, <2>12
    <3>2. LedgerAt(s, e)' BY <2>5, <2>7, <2>12, <3>1 DEF LedgerAt, CleanSoFar
    <3> QED BY <1>3, <2>2, <2>6, <3>2 DEF Ledger
  <2>13. CASE stream[s].at # "dropped"
    <3>1. Piece(item.batch, Whole(s), e) /\ e = e + Len(item.batch)
      <4>3. Len(Whole(s)) \in Nat BY <1>2, LenProperties
      <4>4. e <= Len(Whole(s)) BY <1>2, <2>11, CutBound
      <4>5. item.batch = <<>> /\ Len(<<>>) = 0 BY <2>3
      <4> QED BY <4>3, <4>4, <4>5 DEF Piece
    <3>2. Reaches(Whole(s), got, Append(out, item), e) BY <1>2, <2>11, <3>1, CutAppend
    <3>3. Reaches(Whole(s), stream[s].got, stream[s].out, e)'
      BY <2>4, <2>5, <2>9, <2>10, <2>13, <3>2, Zenon
    <3>4. ~CleanSoFar(s)'
      <4>1. PICK n \in Nat : n = Len(out) BY LenProperties
      <4>2. n + 1 \in DOMAIN Append(out, item) /\ Append(out, item)[n + 1] = item BY <4>1
      <4>3. item.err # "none" BY <2>3
      <4>4. stream'[s].out = Append(out, item) BY <2>4, <2>5, <2>10, <2>13, Zenon
      <4> QED BY <4>2, <4>3, <4>4, Zenon DEF CleanSoFar, NoError
    <3>5. LedgerAt(s, e)' BY <2>7, <3>3, <3>4 DEF LedgerAt
    <3> QED BY <1>3, <2>2, <2>6, <3>5 DEF Ledger
  <2> QED BY <2>12, <2>13
<1> QED BY <1>6, <1>7, <1>8, <1>9, <1>10, <1>11, <1>12, <1>13 DEF WorkStep, Work

--------------------
LEMMA InitPool == Init => BaseInv
<1> SUFFICES ASSUME Init PROVE BaseInv
  OBVIOUS
<1>1. /\ pool = "open" /\ queue = <<>> /\ faults = 0
      /\ stream = [s \in Streams |-> Unused] /\ worker = [w \in Workers |-> IdleWorker]
  BY DEF Init
<1>2. Shapes
  <2>1. /\ Unused.at = "unused" /\ Unused.pinned = 0 /\ Unused.out = <<>> /\ Unused.sender = FALSE
        /\ Unused.got = <<>> /\ Unused.told = "nothing"
        /\ Unused = [at |-> "unused", job |-> Unused.job, pinned |-> 0, out |-> <<>>,
                     sender |-> FALSE, got |-> <<>>, told |-> "nothing"]
    BY DEF Unused
  <2>2. Unused \in StreamType
    <3>1. 0 \in 0..MaxPublished /\ Unused.job \in Jobs \cup {Unused.job}
          /\ <<>> \in Seq(Item) /\ <<>> \in Seq(1..MaxPublished)
      BY ReadPoolAssumption
    <3> QED BY <2>1, <3>1 DEF StreamType
  <2>3. 0 \in 0..MaxFaults BY ReadPoolAssumption
  <2> QED BY <1>1, <2>2, <2>3, IdleType DEF Shapes
<1>3. /\ \A s \in Streams : /\ stream[s].at = "unused" /\ stream[s].got = <<>>
                            /\ stream[s].out = <<>> /\ stream[s].told = "nothing"
      /\ \A w \in Workers : /\ worker[w].at = "idle" /\ worker[w].item = <<>>
                            /\ ~worker[w].failed /\ worker[w].at \notin Working
  BY <1>1 DEF Unused, IdleWorker, Working
<1>4. DOMAIN queue = {} BY <1>1
<1>5. OnePlace
  BY <1>3, <1>4 DEF OnePlace, QueueOnce, WorkersApart, StreamPlace, WorkerPlace, Queued, Runs, Fresh
<1>6. ASSUME NEW s \in Streams PROVE Ledger(s)
  <2>1. Reaches(Whole(s), <<>>, <<>>, 0) BY <1>2, WholeType, CutEmpty
  <2>2. LedgerAt(s, 0) BY <1>3, <2>1 DEF LedgerAt, Carries, Runs, CleanSoFar
  <2> QED BY <2>2 DEF Ledger
<1> QED BY <1>2, <1>5, <1>6 DEF BaseInv, Ledgers

LEMMA StepPool == BaseInv /\ [Next]_vars => BaseInv'
<1> SUFFICES ASSUME BaseInv, [Next]_vars PROVE BaseInv'
  OBVIOUS
<1>1. Shapes /\ OnePlace /\ Ledgers /\ WorkersApart BY DEF BaseInv, OnePlace
<1>2. CASE \E s \in Streams : CallerStep(s)
  BY <1>1, <1>2, CallerShapes, CallerPlace, CallerLedger DEF BaseInv
<1>3. CASE \E w \in Workers : WorkStep(w)
  BY <1>1, <1>3, WorkerShapes, WorkerPlaceStep, WorkerLedger DEF BaseInv
<1>4. CASE OwnerStep BY <1>1, <1>4, OwnerShapes, OwnerPlace, OwnerLedger DEF BaseInv
<1>5. CASE UNCHANGED vars
  <2>1. UNCHANGED <<pool, queue, stream, worker, faults>> BY <1>5 DEF vars
  <2>2. Shapes' BY <1>1, <2>1 DEF Shapes
  <2>3. OnePlace'
    BY <1>1, <2>1 DEF OnePlace, QueueOnce, WorkersApart, StreamPlace, WorkerPlace, Queued, Runs,
                      Submitted, Fresh
  <2>4. ASSUME NEW s \in Streams PROVE Ledger(s)'
    <3>1. Ledger(s) /\ (CleanSoFar(s)' => CleanSoFar(s))
      BY <1>1, <2>1 DEF Ledgers, CleanSoFar, NoError, Closing
    <3>2. \A w \in Workers : Carries(w, s)' => Carries(w, s) BY <2>1 DEF Carries, Runs
    <3> QED BY <2>1, <3>1, <3>2, LedgerSame
  <2> QED BY <2>2, <2>3, <2>4 DEF BaseInv, Ledgers
<1>6. \/ \E s \in Streams : CallerStep(s)
      \/ \E w \in Workers : WorkStep(w)
      \/ OwnerStep
      \/ UNCHANGED vars
  BY DEF Next, CallerStep, WorkStep, OwnerStep
<1> QED BY <1>2, <1>3, <1>4, <1>5, <1>6

LEMMA AlwaysPool == Spec => []BaseInv
<1>1. Init => BaseInv BY InitPool
<1>2. BaseInv /\ [Next]_vars => BaseInv' BY StepPool
<1> QED BY <1>1, <1>2, PTL DEF Spec

\* Type correctness of the pool, and no job is queued twice.
THEOREM TypeCorrect == Spec => []TypeOK
<1>1. BaseInv => TypeOK
  <2> SUFFICES ASSUME Shapes, QueueOnce PROVE TypeOK
    BY DEF BaseInv, OnePlace
  <2>1. IsInjective(queue) BY DEF IsInjective, QueueOnce
  <2> QED BY <2>1 DEF Shapes, TypeOK
<1> QED BY <1>1, AlwaysPool, PTL

\* What a consumer of the pool received is the beginning of its read, and a stream that ended
\* without an error, before the pool was being dropped, delivered all of it (run_job, send_item
\* and worker_loop of pool.rs): whatever the sizes of batches, channels and queue, however many
\* reads fail or panic.
THEOREM CleanEndsHold == Spec => []CleanEndIsWhole
<1>1. BaseInv => CleanEndIsWhole
  <2> SUFFICES ASSUME BaseInv, NEW s \in Streams
               PROVE  /\ IsPrefix(stream[s].got, Whole(s))
                      /\ stream[s].at = "ended" /\ stream[s].told = "nothing" /\ ~Closing =>
                             stream[s].got = Whole(s)
    BY DEF CleanEndIsWhole, Whole
  <2>1. Shapes /\ StreamPlace(s) /\ Ledger(s) BY DEF BaseInv, OnePlace, Ledgers
  <2>2. PICK e \in Nat : LedgerAt(s, e) BY <2>1 DEF Ledger
  <2>3. PICK got \in Seq(Positions), out \in Seq(Item) : got = stream[s].got /\ out = stream[s].out
    BY <2>1, StreamTypes
  <2>4. Whole(s) \in Seq(Positions) /\ Reaches(Whole(s), got, out, e)
    BY <2>1, <2>2, <2>3, WholeType DEF LedgerAt
  <2>5. IsPrefix(got, Whole(s)) /\ (out = <<>> /\ e = Len(Whole(s)) => got = Whole(s))
    BY <2>4, CutPrefix
  <2>6. ASSUME stream[s].at = "ended", stream[s].told = "nothing", ~Closing
        PROVE  out = <<>> /\ e = Len(Whole(s))
    <3>1. out = <<>> /\ ~stream[s].sender BY <2>1, <2>3, <2>6 DEF StreamPlace
    <3>2. \A j \in DOMAIN stream[s].out : stream[s].out[j].err = "none" BY <2>3, <3>1
    <3>3. CleanSoFar(s) BY <2>6, <3>1, <3>2 DEF CleanSoFar, NoError
    <3> QED BY <2>2, <3>1, <3>3 DEF LedgerAt
  <2> QED BY <2>3, <2>5, <2>6, Zenon
<1> QED BY <1>1, AlwaysPool, PTL
=============================================================================

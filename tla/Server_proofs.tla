---------------------------- MODULE Server_proofs ----------------------------
\* Proofs about the server's two models, which share no variable. ServerConn, for every script of
\* requests, all budgets, depths and numbers of workers: the permits balance, a bulk frame is not
\* starved, and the client gets the frames of each request in order. ServerLife, for every set of
\* clients, finite or not, every connection cap and every number of faults: the connection slots
\* and the shutdown registry agree with the connections there are, and a shutdown misses none of
\* them.
EXTENDS ServerConn, ServerLife, SequenceTheorems, FiniteSetTheorems, TLAPS

--------------------
\* The inductive invariant. First the shapes of the state.
Request == [kind : Kinds, target : Nat, faulty : BOOLEAN]

AnyFrame == [id : Nat, kind : Terminal \cup {"events", "caughtup"}, n : Nat]

JobRecord ==
    [at : {"none", "queued", "acquire", "item", "send", "end", "error", "poll", "edge", "done"},
     holds : {"nothing", "permit", "slot"}, sent : Nat, told : BOOLEAN]

ReaderRecord ==
    [at : {"poll", "reply", "acquire", "join", "done"}, established : BOOLEAN,
     id : Nat, reply : Seq(AnyFrame), closing : BOOLEAN]

WriterRecord ==
    [at : {"control", "flushbulk", "bulk", "flushed", "flushidle", "idle", "wait", "leave",
           "exited"}, run : Nat, passed : Nat]

ShapesOK ==
    /\ script \in Seq(Request)
    /\ sent \in Nat
    /\ inbox \in Seq(Nat) /\ submitted \in Seq(Nat) /\ replies \in Seq(Nat)
    /\ queue \in Seq(Nat)
    /\ got \in [Ids -> Seq(AnyFrame)]
    /\ reader \in ReaderRecord
    /\ writer \in WriterRecord
    /\ control \in Seq(AnyFrame) /\ bulk \in Seq(AnyFrame)
    /\ buf \in Seq(AnyFrame) /\ wire \in Seq(AnyFrame)
    /\ appendFree \in Int /\ readFree \in Int /\ slotFree \in Int /\ subFree \in Int
    /\ job \in [Ids -> JobRecord]
    /\ socket \in {"open", "shut"}

\* Requests move through the reader, the coordinator and the pump in the order they were sent,
\* each in one place at a time.
Ascends(s) == \A i, j \in DOMAIN s : i < j => s[i] < s[j]

Before(S, T) == \A x \in S, y \in T : x < y

InHand == CASE reader.at = "acquire" -> {reader.id}
            [] reader.at = "reply"   -> {reader.reply[1].id}
            [] OTHER                 -> {}

Arriving == InHand \cup ToSet(inbox)

Appending == ToSet(submitted) \cup ToSet(replies)

InOrder ==
    /\ sent <= Len(script)
    /\ Ascends(inbox) /\ Ascends(submitted) /\ Ascends(replies)
    /\ Before(ToSet(replies), ToSet(submitted))
    /\ Before(Appending, Arriving)
    /\ Before(InHand, ToSet(inbox))
    /\ Arriving \subseteq 1..sent
    /\ \A id \in Appending : id \in 1..sent /\ Kind(id) = "append"
    /\ reader.at = "acquire" => Kind(reader.id) \in {"append", "empty"}
    /\ reader.at = "reply" => /\ Len(reader.reply) = 1 /\ reader.reply[1].n = 1
                              /\ reader.reply[1].kind \in Terminal

\* A request has a job only once the reader has taken it and handed it on, and holds what its
\* place calls for.
Unstarted(id) == job[id].at = "none"

Waiting(id) == id > sent \/ id \in Arriving

Fits(kind, r) ==
    /\ r.at # "none" => kind \in {"read", "subscribe"}
    /\ r.at = "none" => r.holds = "nothing"
    /\ kind = "subscribe" =>
           /\ r.holds = "nothing"
           /\ r.at \in {"none", "send", "error", "poll", "edge", "done"}
    /\ kind = "read" =>
           /\ r.at \notin {"poll", "edge"}
           /\ r.at = "done" => r.holds = "nothing"
           /\ r.at = "queued" => r.holds \in {"permit", "slot"}
           /\ r.at = "acquire" => r.holds = "slot"
           /\ r.at \in {"item", "send", "end", "error"} => r.holds = "permit"

JobFits(id) == Fits(Kind(id), job[id]) /\ (Waiting(id) => job[id] = NoJob)

JobsFit ==
    /\ \A id \in Ids : JobFits(id)
    /\ \A i \in DOMAIN queue : queue[i] \in Ids /\ job[queue[i]].at = "queued"
    /\ \A i, j \in DOMAIN queue : i < j => queue[i] # queue[j]

BaseInv == ShapesOK /\ InOrder /\ JobsFit

\* What the writer owes the bulk lane, by where it is in its round.
RoundsAreFair ==
    /\ writer.passed <= MaxControlRun + 1
    /\ ~ WriterGone /\ bulk = <<>> => writer.passed = 0
    /\ writer.at \in {"flushed", "flushidle", "idle", "wait", "leave"} => writer.passed = 0
    /\ writer.at = "control" => writer.passed <= writer.run + 1

\* The frames of a request in a queue: the ones numbered lo + 1 to hi.
Covers(s, id, lo, hi) ==
    /\ lo <= hi
    /\ \A i \in DOMAIN s : s[i].id = id => lo < s[i].n /\ s[i].n <= hi
    /\ \A i, j \in DOMAIN s : i < j /\ s[i].id = id /\ s[j].id = id => s[i].n < s[j].n
    /\ \A m \in (lo + 1)..hi : \E i \in DOMAIN s : s[i].id = id /\ s[i].n = m

Of(s, id) == {f \in ToSet(s) : f.id = id}

Lane(id) == IF Unstarted(id) THEN control ELSE bulk
Other(id) == IF Unstarted(id) THEN bulk ELSE control

Unanswered(id) == Waiting(id) \/ id \in Appending

\* The frames of a request that the client has or may yet get.
Made(id) ==
    ToSet(got[id]) \cup Of(wire, id)
        \cup (IF socket = "open" THEN Of(buf, id) \cup Of(control, id) \cup Of(bulk, id) ELSE {})

Ends(S, e) == \A f \in S : f.kind \in Terminal => f.n = e

\* The frames of a request are numbered through: the client has 1 to Len(got[id]), the wire holds
\* those up to a, the writer's buffer up to b, the request's lane up to e. The terminal one has
\* number e, and comes when there is nothing more to make. Of a socket that is shut the client
\* gets no more than the wire holds.
Numbered(id, a, b, e) ==
    /\ a <= b /\ b <= e
    /\ Covers(wire, id, Len(got[id]), a)
    /\ \A i \in DOMAIN got[id] : got[id][i].n = i
    /\ Ends(Made(id), e)
    /\ socket = "open" =>
          /\ Covers(buf, id, a, b) /\ Covers(Lane(id), id, b, e) /\ Of(Other(id), id) = {}
          /\ Unanswered(id) => e = 0
          /\ id \in JobsAlive => /\ e = job[id].sent
                                 /\ \A f \in Made(id) : f.kind \notin Terminal

FramesNumbered == \A id \in Ids : \E a, b, e \in Nat : Numbered(id, a, b, e)

ExitIsFinal == WriterGone => socket = "shut"

--------------------
\* Sequences: what appending, taking the head and cutting do to the elements and their order.
LEMMA AppendFacts ==
    ASSUME NEW S, NEW s \in Seq(S), NEW x \in S
    PROVE  /\ Append(s, x) \in Seq(S)
           /\ Len(Append(s, x)) = Len(s) + 1
           /\ DOMAIN Append(s, x) = 1..(Len(s) + 1)
           /\ \A i \in DOMAIN s : Append(s, x)[i] = s[i]
           /\ Append(s, x)[Len(s) + 1] = x
           /\ ToSet(Append(s, x)) = ToSet(s) \cup {x}
<1>1. /\ Append(s, x) \in Seq(S)
      /\ Len(Append(s, x)) = Len(s) + 1
      /\ \A i \in 1..Len(s) : Append(s, x)[i] = s[i]
      /\ Append(s, x)[Len(s) + 1] = x
  BY AppendProperties
<1>2. Len(s) \in Nat /\ DOMAIN s = 1..Len(s) BY LenProperties
<1>3. DOMAIN Append(s, x) = 1..(Len(s) + 1) BY <1>1, LenProperties
<1>4. \A i \in 1..(Len(s) + 1) : i \in DOMAIN s \/ i = Len(s) + 1 BY <1>2, SMT
<1>5. Len(s) + 1 \in 1..(Len(s) + 1) /\ DOMAIN s \subseteq 1..(Len(s) + 1) BY <1>2, SMT
<1>6. ToSet(Append(s, x)) = ToSet(s) \cup {x} BY <1>1, <1>2, <1>3, <1>4, <1>5 DEF ToSet
<1> QED BY <1>1, <1>2, <1>3, <1>6

LEMMA TailFacts ==
    ASSUME NEW S, NEW s \in Seq(S), s # <<>>
    PROVE  /\ Tail(s) \in Seq(S) /\ Head(s) \in S
           /\ Head(s) = s[1] /\ 1 \in DOMAIN s
           /\ Len(Tail(s)) = Len(s) - 1
           /\ DOMAIN Tail(s) = 1..(Len(s) - 1)
           /\ \A i \in DOMAIN Tail(s) : i + 1 \in DOMAIN s /\ Tail(s)[i] = s[i + 1]
           /\ \A i \in DOMAIN s : i = 1 \/ (i - 1 \in DOMAIN Tail(s) /\ Tail(s)[i - 1] = s[i])
           /\ ToSet(s) = {Head(s)} \cup ToSet(Tail(s))
<1>1. /\ Head(s) \in S /\ Tail(s) \in Seq(S) /\ Len(Tail(s)) = Len(s) - 1
      /\ \A i \in 1..Len(Tail(s)) : Tail(s)[i] = s[i + 1]
  BY HeadTailProperties
<1>2. Len(s) \in Nat \ {0} /\ DOMAIN s = 1..Len(s) BY LenProperties, EmptySeq
<1>3. DOMAIN Tail(s) = 1..(Len(s) - 1) BY <1>1, LenProperties
<1>4. Head(s) = s[1] /\ 1 \in DOMAIN s BY <1>2, SMT
<1>5. \A i \in DOMAIN Tail(s) : i + 1 \in DOMAIN s /\ Tail(s)[i] = s[i + 1]
  BY <1>1, <1>2, <1>3, SMT
<1>6. \A i \in DOMAIN s : i = 1 \/ (i - 1 \in DOMAIN Tail(s) /\ (i - 1) + 1 = i)
  BY <1>2, <1>3, SMT
<1>7. \A i \in DOMAIN s : i = 1 \/ (i - 1 \in DOMAIN Tail(s) /\ Tail(s)[i - 1] = s[i])
  BY <1>5, <1>6
<1>8. ToSet(s) = {Head(s)} \cup ToSet(Tail(s))
  <2>1. ToSet(s) \subseteq {Head(s)} \cup ToSet(Tail(s)) BY <1>4, <1>7 DEF ToSet
  <2>2. {Head(s)} \cup ToSet(Tail(s)) \subseteq ToSet(s) BY <1>4, <1>5 DEF ToSet
  <2> QED BY <2>1, <2>2
<1> QED BY <1>1, <1>3, <1>4, <1>5, <1>7, <1>8

LEMMA PrefixFacts ==
    ASSUME NEW S, NEW s \in Seq(S), NEW k \in 0..Len(s)
    PROVE  /\ SubSeq(s, 1, k) \in Seq(S)
           /\ DOMAIN SubSeq(s, 1, k) \subseteq DOMAIN s
           /\ \A i \in DOMAIN SubSeq(s, 1, k) : SubSeq(s, 1, k)[i] = s[i]
           /\ ToSet(SubSeq(s, 1, k)) \subseteq ToSet(s)
<1>1. Len(s) \in Nat /\ DOMAIN s = 1..Len(s) /\ k \in Int /\ 1 \in Int /\ 0 <= k
  BY LenProperties
<1>2. \A i \in 1..k : s[i] \in S BY <1>1, ElementOfSeq, SMT
<1>3. /\ SubSeq(s, 1, k) \in Seq(S)
      /\ Len(SubSeq(s, 1, k)) = IF 1 <= k THEN k - 1 + 1 ELSE 0
      /\ \A i \in 1 .. k - 1 + 1 : SubSeq(s, 1, k)[i] = s[1 + i - 1]
  BY <1>1, <1>2, SubSeqProperties
<1>4. Len(SubSeq(s, 1, k)) = k /\ 1..(k - 1 + 1) = 1..k /\ \A i \in 1..k : 1 + i - 1 = i
  BY <1>1, <1>3, SMT
<1>5. DOMAIN SubSeq(s, 1, k) = 1..k BY <1>3, <1>4, LenProperties
<1>6. \A i \in 1..k : i \in DOMAIN s /\ SubSeq(s, 1, k)[i] = s[i] BY <1>1, <1>3, <1>4, SMT
<1> QED BY <1>3, <1>5, <1>6 DEF ToSet

LEMMA AppendAscends ==
    ASSUME NEW s \in Seq(Nat), NEW x \in Nat, Ascends(s), Before(ToSet(s), {x})
    PROVE  Ascends(Append(s, x))
<1>1. /\ Len(s) \in Nat /\ DOMAIN s = 1..Len(s)
      /\ DOMAIN Append(s, x) = 1..(Len(s) + 1)
      /\ \A i \in DOMAIN s : Append(s, x)[i] = s[i]
      /\ Append(s, x)[Len(s) + 1] = x
  BY AppendFacts, LenProperties
<1>2. \A i \in DOMAIN s : s[i] < x BY DEF Before, ToSet
<1> SUFFICES ASSUME NEW i \in 1..(Len(s) + 1), NEW j \in 1..(Len(s) + 1), i < j
             PROVE  Append(s, x)[i] < Append(s, x)[j]
  BY <1>1 DEF Ascends
<1>3. i \in DOMAIN s /\ (j \in DOMAIN s \/ j = Len(s) + 1) BY <1>1, SMT
<1> QED BY <1>1, <1>2, <1>3 DEF Ascends

LEMMA TailAscends ==
    ASSUME NEW s \in Seq(Nat), s # <<>>, Ascends(s)
    PROVE  Ascends(Tail(s)) /\ Before({Head(s)}, ToSet(Tail(s)))
<1>1. /\ Head(s) = s[1] /\ 1 \in DOMAIN s
      /\ DOMAIN Tail(s) = 1..(Len(s) - 1)
      /\ \A i \in DOMAIN Tail(s) : i + 1 \in DOMAIN s /\ Tail(s)[i] = s[i + 1]
  BY TailFacts
<1>2. DOMAIN Tail(s) \subseteq Nat \ {0} BY <1>1, LenProperties, SMT
<1>3. \A i, j \in DOMAIN Tail(s) : i < j => i + 1 < j + 1 BY <1>2, SMT
<1>4. Ascends(Tail(s)) BY <1>1, <1>3 DEF Ascends
<1>5. \A i \in DOMAIN Tail(s) : 1 < i + 1 BY <1>2, SMT
<1>6. \A i \in DOMAIN Tail(s) : Head(s) < Tail(s)[i] BY <1>1, <1>5 DEF Ascends
<1> QED BY <1>4, <1>6 DEF Before, ToSet

LEMMA PrefixAscends ==
    ASSUME NEW s \in Seq(Nat), NEW k \in 0..Len(s), Ascends(s)
    PROVE  Ascends(SubSeq(s, 1, k))
  BY PrefixFacts DEF Ascends

LEMMA IdsFacts ==
    ASSUME ShapesOK
    PROVE  Ids = 1..Len(script) /\ Len(script) \in Nat /\ IsFiniteSet(Ids)
<1>1. Ids = 1..Len(script) /\ Len(script) \in Nat BY LenProperties DEF ShapesOK, Ids
<1> QED BY <1>1, FS_Interval

--------------------
\* The shapes of the state.
LEMMA SeqFacts ==
    /\ \A s \in Seq(AnyFrame), f \in AnyFrame : Append(s, f) \in Seq(AnyFrame)
    /\ \A s \in Seq(AnyFrame) : s # <<>> => Tail(s) \in Seq(AnyFrame) /\ Head(s) \in AnyFrame
    /\ \A s, t \in Seq(AnyFrame) : s \o t \in Seq(AnyFrame)
    /\ \A s \in Seq(Nat), x \in Nat : Append(s, x) \in Seq(Nat)
    /\ \A s \in Seq(Nat) : s # <<>> => Tail(s) \in Seq(Nat) /\ Head(s) \in Nat
    /\ \A s \in Seq(Nat) : \A k \in 0..Len(s) : SubSeq(s, 1, k) \in Seq(Nat)
    /\ <<>> \in Seq(AnyFrame) /\ <<>> \in Seq(Nat)
    /\ \A f \in AnyFrame : <<f>> \in Seq(AnyFrame)
<1>1. \A s \in Seq(AnyFrame), f \in AnyFrame : Append(s, f) \in Seq(AnyFrame)
  BY AppendFacts
<1>2. \A s \in Seq(AnyFrame) : s # <<>> => Tail(s) \in Seq(AnyFrame) /\ Head(s) \in AnyFrame
  BY TailFacts
<1>3. \A s, t \in Seq(AnyFrame) : s \o t \in Seq(AnyFrame) BY ConcatProperties
<1>4. \A s \in Seq(Nat), x \in Nat : Append(s, x) \in Seq(Nat) BY AppendFacts
<1>5. \A s \in Seq(Nat) : s # <<>> => Tail(s) \in Seq(Nat) /\ Head(s) \in Nat BY TailFacts
<1>6. \A s \in Seq(Nat) : \A k \in 0..Len(s) : SubSeq(s, 1, k) \in Seq(Nat) BY PrefixFacts
<1>7. <<>> \in Seq(AnyFrame) /\ <<>> \in Seq(Nat) /\ \A f \in AnyFrame : <<f>> \in Seq(AnyFrame)
  OBVIOUS
<1> QED BY <1>1, <1>2, <1>3, <1>4, <1>5, <1>6, <1>7

LEMMA FrameFacts ==
    ASSUME NEW id \in Nat, NEW n \in Nat, NEW kind \in Terminal \cup {"events", "caughtup"}
    PROVE  Frame(id, kind, n) \in AnyFrame
  BY DEF Frame, AnyFrame

LEMMA InitBase == Init => BaseInv
<1> SUFFICES ASSUME Init PROVE BaseInv
  OBVIOUS
<1>1. script \in Seq(Request) BY ServerConnAssumption DEF Init, Request
<1>2. NoJob \in JobRecord BY DEF NoJob, JobRecord
<1>3. ShapesOK
  <2>1. /\ got \in [Ids -> Seq(AnyFrame)] /\ job \in [Ids -> JobRecord]
    BY <1>2, SeqFacts DEF Init, Ids
  <2>2. /\ AppendBudget \in Nat /\ ReadBudget \in Nat /\ SubBudget \in Nat
    BY ServerConnAssumption
  <2> QED BY <1>1, <2>1, <2>2, SeqFacts DEF Init, ShapesOK, ReaderRecord, WriterRecord
<1>4. /\ ToSet(inbox) = {} /\ ToSet(submitted) = {} /\ ToSet(replies) = {}
      /\ DOMAIN inbox = {} /\ DOMAIN submitted = {} /\ DOMAIN replies = {} /\ DOMAIN queue = {}
  BY DEF Init, ToSet
<1>5. InHand = {} /\ Arriving = {} /\ Appending = {}
  BY <1>4 DEF Init, InHand, Arriving, Appending
<1>6. InOrder
  <2>1. sent <= Len(script) BY <1>1, LenProperties DEF Init
  <2> QED BY <1>4, <1>5, <2>1 DEF Init, InOrder, Ascends, Before
<1>7. JobsFit BY <1>4 DEF Init, JobsFit, JobFits, Fits, NoJob, Ids
<1> QED BY <1>3, <1>6, <1>7 DEF BaseInv

\* The client's steps and the shutdown of the socket.
LEMMA SendBase == BaseInv /\ Send => BaseInv'
<1> SUFFICES ASSUME BaseInv, Send PROVE BaseInv'
  OBVIOUS
<1> USE DEF BaseInv
<1>1. /\ UNCHANGED <<script, got, socket, reader, writer, control, bulk, buf, wire, submitted,
                     replies, appendFree, readFree, slotFree, subFree, queue, job>>
      /\ sent' = sent + 1 /\ inbox' = Append(inbox, sent + 1) /\ sent < Len(script)
  BY DEF Send, threadVars, laneVars, permitVars, jobVars
<1>2. sent \in Nat /\ inbox \in Seq(Nat) /\ sent + 1 \in Nat /\ Len(script) \in Nat
  BY IdsFacts DEF ShapesOK
<1>3. /\ inbox' \in Seq(Nat)
      /\ ToSet(inbox') = ToSet(inbox) \cup {sent + 1}
  BY <1>1, <1>2, AppendFacts
<1>4. ShapesOK' BY <1>1, <1>2, <1>3 DEF ShapesOK, Ids
<1>5. InHand' = InHand /\ Arriving' = Arriving \cup {sent + 1} /\ Appending' = Appending
  BY <1>1, <1>3 DEF InHand, Arriving, Appending
<1>6. Arriving \subseteq 1..sent /\ Appending \subseteq 1..sent BY DEF InOrder
<1>7. /\ Before(Arriving, {sent + 1}) /\ Before(Appending, {sent + 1})
      /\ ToSet(inbox) \subseteq Arriving /\ InHand \subseteq Arriving
      /\ 1..sent \subseteq 1..(sent + 1) /\ sent + 1 \in 1..(sent + 1)
      /\ sent + 1 <= Len(script)
  BY <1>1, <1>2, <1>6, SMT DEF Before, Arriving
<1>8. Ascends(inbox') BY <1>1, <1>2, <1>7, AppendAscends DEF InOrder, Before
<1>9. InOrder' BY <1>1, <1>3, <1>5, <1>7, <1>8 DEF InOrder, Before, Kind
<1>10. \A id \in Ids : Waiting(id)' => Waiting(id)
  BY <1>1, <1>2, <1>5, IdsFacts, SMT DEF Waiting
<1>11. JobsFit' BY <1>1, <1>10 DEF JobsFit, JobFits, Ids, Kind
<1> QED BY <1>4, <1>9, <1>11

\* What most steps do to the order of the requests, and to the jobs.
LEMMA FewerArrive ==
    ASSUME BaseInv, UNCHANGED <<script, sent, submitted, replies>>,
           Ascends(inbox'), Before(InHand', ToSet(inbox')), Arriving' \subseteq Arriving,
           reader'.at = "acquire" => Kind(reader'.id) \in {"append", "empty"},
           reader'.at = "reply" => /\ Len(reader'.reply) = 1 /\ reader'.reply[1].n = 1
                                   /\ reader'.reply[1].kind \in Terminal
    PROVE  InOrder' /\ \A id \in Ids : Waiting(id)' => Waiting(id)
<1>1. Appending' = Appending BY DEF Appending
<1>2. \A id : Kind(id)' = Kind(id) BY DEF Kind
<1>3. Before(Appending, Arriving') /\ Arriving' \subseteq 1..sent
  BY DEF BaseInv, InOrder, Before
<1>4. InOrder' BY <1>1, <1>2, <1>3 DEF BaseInv, InOrder, Kind
<1> QED BY <1>4 DEF Waiting

LEMMA JobsKept ==
    ASSUME BaseInv, UNCHANGED <<script, job, queue>>,
           \A id \in Ids : Waiting(id)' => Waiting(id)
    PROVE  JobsFit'
  BY DEF BaseInv, JobsFit, JobFits, Ids, Kind

LEMMA SameOrder ==
    ASSUME BaseInv, UNCHANGED <<script, sent, inbox, submitted, replies, reader>>
    PROVE  InOrder' /\ \A id \in Ids : Waiting(id)' => Waiting(id)
<1>1. InHand' = InHand /\ Arriving' = Arriving BY DEF InHand, Arriving
<1> QED BY <1>1, FewerArrive DEF BaseInv, InOrder

LEMMA CutInbox ==
    ASSUME BaseInv, UNCHANGED <<script, sent, submitted, replies, reader>>,
           \E k \in 0..Len(inbox) : inbox' = SubSeq(inbox, 1, k)
    PROVE  /\ InOrder' /\ inbox' \in Seq(Nat)
           /\ \A id \in Ids : Waiting(id)' => Waiting(id)
<1>1. inbox \in Seq(Nat) BY DEF BaseInv, ShapesOK
<1>2. PICK k \in 0..Len(inbox) : inbox' = SubSeq(inbox, 1, k) OBVIOUS
<1>3. inbox' \in Seq(Nat) /\ ToSet(inbox') \subseteq ToSet(inbox)
  BY <1>1, <1>2, PrefixFacts
<1>4. Ascends(inbox') BY <1>1, <1>2, PrefixAscends DEF BaseInv, InOrder
<1>5. InHand' = InHand BY DEF InHand
<1>6. Arriving' \subseteq Arriving /\ Before(InHand', ToSet(inbox'))
  BY <1>3, <1>5 DEF BaseInv, InOrder, Arriving, Before
<1> QED BY <1>3, <1>4, <1>6, FewerArrive DEF BaseInv, InOrder

\* One job changes, and is not waiting afterwards.
LEMMA JobChanges ==
    ASSUME BaseInv, NEW id \in Ids, NEW r \in JobRecord,
           job' = [job EXCEPT ![id] = r], UNCHANGED script,
           \A i \in Ids : Waiting(i)' => Waiting(i), ~ Waiting(id)', Fits(Kind(id), r),
           \A i \in DOMAIN queue' : /\ queue'[i] \in Ids
                                    /\ IF queue'[i] = id THEN r.at = "queued"
                                       ELSE job[queue'[i]].at = "queued",
           \A i, j \in DOMAIN queue' : i < j => queue'[i] # queue'[j]
    PROVE  JobsFit' /\ job' \in [Ids -> JobRecord]
<1>1. /\ job \in [Ids -> JobRecord] /\ Ids' = Ids /\ \A i : Kind(i)' = Kind(i)
  BY DEF BaseInv, ShapesOK, Ids, Kind
<1>2. \A i \in Ids : job'[i] = IF i = id THEN r ELSE job[i] BY <1>1
<1>3. \A i \in Ids : JobFits(i)' BY <1>1, <1>2 DEF BaseInv, JobsFit, JobFits
<1>4. /\ \A i \in DOMAIN queue' : queue'[i] \in Ids' /\ job'[queue'[i]].at = "queued"
  BY <1>1, <1>2
<1> QED BY <1>1, <1>3, <1>4 DEF JobsFit

LEMMA ReceiveBase == BaseInv /\ ClientReceive => BaseInv'
<1> SUFFICES ASSUME BaseInv, ClientReceive PROVE BaseInv'
  OBVIOUS
<1>1. UNCHANGED <<script, sent, inbox, socket, reader, writer, control, bulk, buf, submitted,
                  replies, appendFree, readFree, slotFree, subFree, queue, job>>
  BY DEF ClientReceive, threadVars, permitVars, jobVars
<1>2. InOrder' /\ JobsFit' BY <1>1, SameOrder, JobsKept
<1>3. wire' \in Seq(AnyFrame) /\ Head(wire) \in AnyFrame
  BY SeqFacts DEF BaseInv, ShapesOK, ClientReceive
<1>4. got' \in [Ids -> Seq(AnyFrame)]
  BY <1>3, SeqFacts DEF BaseInv, ShapesOK, ClientReceive
<1>5. ShapesOK' BY <1>1, <1>3, <1>4 DEF BaseInv, ShapesOK, Ids
<1> QED BY <1>2, <1>5 DEF BaseInv

LEMMA ShutBase == BaseInv /\ Shut => BaseInv'
<1> SUFFICES ASSUME BaseInv, Shut PROVE BaseInv'
  OBVIOUS
<1>1. UNCHANGED <<script, sent, got, reader, writer, control, bulk, buf, submitted,
                  replies, appendFree, readFree, slotFree, subFree, queue, job>>
  BY DEF Shut, threadVars, permitVars, jobVars
<1>2. InOrder' /\ JobsFit' /\ inbox' \in Seq(Nat) BY <1>1, CutInbox, JobsKept DEF Shut
<1>3. ShapesOK' BY <1>1, <1>2, SeqFacts DEF BaseInv, ShapesOK, Ids, Shut
<1> QED BY <1>2, <1>3 DEF BaseInv

\* The reader's steps.
LEMMA TakeHead ==
    ASSUME BaseInv, Polling, inbox # <<>>, inbox' = Tail(inbox),
           NEW id \in Ids, id = Head(inbox),
           UNCHANGED <<script, sent, submitted, replies>>,
           InHand' \subseteq {id},
           reader'.at = "acquire" => Kind(reader'.id) \in {"append", "empty"},
           reader'.at = "reply" => /\ Len(reader'.reply) = 1 /\ reader'.reply[1].n = 1
                                   /\ reader'.reply[1].kind \in Terminal
    PROVE  /\ InOrder' /\ inbox' \in Seq(Nat)
           /\ \A i \in Ids : Waiting(i)' => Waiting(i)
           /\ InHand' = {} => ~ Waiting(id)'
<1>1. inbox \in Seq(Nat) /\ sent \in Nat BY DEF BaseInv, ShapesOK
<1>2. /\ inbox' \in Seq(Nat) /\ Head(inbox) \in Nat
      /\ ToSet(inbox) = {Head(inbox)} \cup ToSet(inbox')
  BY <1>1, TailFacts
<1>3. Ascends(inbox') /\ Before({Head(inbox)}, ToSet(inbox'))
  BY <1>1, TailAscends DEF BaseInv, InOrder
<1>4. Before(InHand', ToSet(inbox')) /\ Arriving' \subseteq Arriving
  BY <1>2, <1>3 DEF Before, Arriving
<1>5. InOrder' /\ \A i \in Ids : Waiting(i)' => Waiting(i) BY <1>3, <1>4, FewerArrive
<1>6. Head(inbox) \in 1..sent BY <1>2 DEF BaseInv, InOrder, Arriving
<1>7. Head(inbox) \notin ToSet(inbox') BY <1>2, <1>3 DEF Before
<1> QED BY <1>1, <1>2, <1>5, <1>6, <1>7 DEF Waiting, Arriving

\* The reader answers a request itself: nothing but its own state changes.
LEMMA Answers ==
    ASSUME BaseInv, Polling, inbox # <<>>, inbox' = Tail(inbox),
           NEW id \in Ids, id = Head(inbox),
           NEW kind \in Terminal, NEW e \in BOOLEAN, NEW c \in BOOLEAN,
           reader' = [reader EXCEPT !.at = "reply", !.reply = <<Frame(id, kind, 1)>>,
                                    !.established = e, !.closing = c],
           UNCHANGED <<script, sent, submitted, replies, got, writer, control, bulk, buf, wire,
                       appendFree, readFree, slotFree, subFree, queue, job, socket>>
    PROVE  BaseInv'
<1>1. id \in Nat BY SeqFacts DEF BaseInv, ShapesOK
<1> DEFINE f == Frame(id, kind, 1)
<1>2. f \in AnyFrame /\ f.id = id /\ f.n = 1 /\ f.kind = kind
  BY <1>1, FrameFacts DEF Frame
<1>3. <<f>> \in Seq(AnyFrame) /\ Len(<<f>>) = 1 /\ <<f>>[1] = f BY <1>2, SeqFacts
<1>4. reader'.at = "reply" /\ reader'.reply = <<f>> BY DEF BaseInv, ShapesOK
<1> HIDE DEF f
<1>5. InHand' = {id} BY <1>2, <1>3, <1>4 DEF InHand
<1>6. /\ InOrder' /\ inbox' \in Seq(Nat)
      /\ \A i \in Ids : Waiting(i)' => Waiting(i)
  BY <1>2, <1>3, <1>4, <1>5, TakeHead
<1>7. reader' \in ReaderRecord BY <1>3 DEF BaseInv, ShapesOK, ReaderRecord, f
<1>8. ShapesOK' BY <1>6, <1>7 DEF BaseInv, ShapesOK, Ids
<1> QED BY <1>6, <1>8, JobsKept DEF BaseInv

LEMMA HelloBase ==
    ASSUME BaseInv, NEW id \in Ids, HandleHello(id) \/ DispatchInline(id)
    PROVE  BaseInv'
<1>1. /\ Polling /\ inbox # <<>> /\ id = Head(inbox) /\ inbox' = Tail(inbox)
      /\ UNCHANGED <<script, sent, submitted, replies, got, writer, control, bulk, buf, wire,
                     appendFree, readFree, slotFree, subFree, queue, job, socket>>
  BY DEF HandleHello, DispatchInline, ReadsFrame, laneVars, permitVars, jobVars
<1>2. reader.established \in BOOLEAN /\ reader.closing \in BOOLEAN
      /\ reader = [reader EXCEPT !.established = @, !.closing = @]
  BY DEF BaseInv, ShapesOK, ReaderRecord
<1>3. \E kind \in Terminal, e \in BOOLEAN, c \in BOOLEAN :
          reader' = [reader EXCEPT !.at = "reply", !.reply = <<Frame(id, kind, 1)>>,
                                   !.established = e, !.closing = c]
  <2>1. CASE HandleHello(id) /\ Kind(id) = "hello"
    <3>1. reader' = [reader EXCEPT !.at = "reply", !.reply = <<Frame(id, "ack", 1)>>,
                                   !.established = TRUE, !.closing = reader.closing]
      BY <2>1 DEF HandleHello, BaseInv, ShapesOK
    <3> QED BY <1>2, <3>1 DEF Terminal
  <2>2. CASE HandleHello(id) /\ Kind(id) # "hello"
    <3>1. reader' = [reader EXCEPT !.at = "reply", !.reply = <<Frame(id, "error", 1)>>,
                                   !.established = reader.established, !.closing = TRUE]
      BY <2>2 DEF HandleHello, ReplyWith, BaseInv, ShapesOK
    <3> QED BY <1>2, <3>1 DEF Terminal
  <2>3. CASE DispatchInline(id)
    <3> DEFINE k == IF Kind(id) = "stats" THEN "stats" ELSE "error"
    <3>1. reader' = [reader EXCEPT !.at = "reply", !.reply = <<Frame(id, k, 1)>>,
                                   !.established = reader.established, !.closing = FALSE]
      BY <2>3 DEF DispatchInline, ReplyWith, BaseInv, ShapesOK
    <3>2. k \in Terminal BY DEF Terminal
    <3> HIDE DEF k
    <3> QED BY <1>2, <3>1, <3>2
  <2> QED BY <2>1, <2>2, <2>3
<1> QED BY <1>1, <1>3, Answers, ZenonT(40)

LEMMA DispatchAppendBase ==
    ASSUME BaseInv, NEW id \in Ids, DispatchAppend(id)
    PROVE  BaseInv'
<1>1. /\ Polling /\ inbox # <<>> /\ id = Head(inbox) /\ inbox' = Tail(inbox)
      /\ Kind(id) \in {"append", "empty"}
      /\ UNCHANGED <<script, sent, submitted, replies, got, writer, control, bulk, buf, wire,
                     appendFree, readFree, slotFree, subFree, queue, job, socket>>
  BY DEF DispatchAppend, ReadsFrame, laneVars, permitVars, jobVars
<1>2. id \in Nat BY IdsFacts DEF BaseInv
<1>3. /\ reader' \in ReaderRecord
      /\ reader'.at = "acquire" /\ reader'.id = id
  BY <1>2 DEF DispatchAppend, BaseInv, ShapesOK, ReaderRecord
<1>4. InHand' = {id} BY <1>3 DEF InHand
<1>5. /\ InOrder' /\ inbox' \in Seq(Nat)
      /\ \A i \in Ids : Waiting(i)' => Waiting(i)
  BY <1>1, <1>3, <1>4, TakeHead
<1>6. ShapesOK' BY <1>1, <1>3, <1>5 DEF BaseInv, ShapesOK, Ids
<1> QED BY <1>1, <1>5, <1>6, JobsKept DEF BaseInv

LEMMA SubmitBase == BaseInv /\ SubmitAppend => BaseInv'
<1> SUFFICES ASSUME BaseInv, SubmitAppend PROVE BaseInv'
  OBVIOUS
<1>0. appendFree \in Int BY DEF BaseInv, ShapesOK
<1>1. /\ reader.at = "acquire" /\ appendFree' \in Int
      /\ UNCHANGED <<script, sent, inbox, replies, got, writer, control, bulk, buf, wire,
                     readFree, slotFree, subFree, queue, job, socket>>
  <2>1. appendFree' = appendFree - 1 \/ appendFree' = appendFree BY DEF SubmitAppend
  <2>2. /\ reader.at = "acquire"
        /\ UNCHANGED <<script, sent, inbox, replies, got, writer, control, bulk, buf, wire,
                       readFree, slotFree, subFree, queue, job, socket>>
    BY DEF SubmitAppend, laneVars, clientVars, jobVars
  <2> QED BY <1>0, <2>1, <2>2
<1>2. InHand = {reader.id} /\ reader.id \in Nat /\ reader.id \in 1..sent
  BY <1>1, SMTT(20) DEF InHand, Arriving, BaseInv, ShapesOK, InOrder
<1>3. CASE Kind(reader.id) = "append"
  <2>1. submitted' = Append(submitted, reader.id) /\ reader' = [reader EXCEPT !.at = "poll"]
    BY <1>3 DEF SubmitAppend
  <2>2. reader'.at = "poll" /\ InHand' = {} BY <2>1 DEF InHand, BaseInv, ShapesOK
  <2>0. submitted \in Seq(Nat) BY DEF BaseInv, ShapesOK
  <2>3. /\ submitted \in Seq(Nat) /\ submitted' \in Seq(Nat)
        /\ ToSet(submitted') = ToSet(submitted) \cup {reader.id}
    BY <1>2, <2>0, <2>1, AppendFacts
  <2>4. ShapesOK' BY <1>1, <2>1, <2>3 DEF BaseInv, ShapesOK, ReaderRecord, Ids
  <2>5. /\ Before(Appending, {reader.id}) /\ Before({reader.id}, ToSet(inbox))
        /\ Before(Appending, ToSet(inbox))
    BY <1>2 DEF BaseInv, InOrder, Before, Arriving
  <2>6. Ascends(submitted')
    BY <1>2, <2>1, <2>3, <2>5, AppendAscends DEF BaseInv, InOrder, Before, Appending
  <2>7. /\ Arriving' = ToSet(inbox) /\ Arriving' \subseteq Arriving
        /\ Appending' = Appending \cup {reader.id}
    BY <1>1, <2>2, <2>3 DEF Arriving, Appending
  <2>8. Before(ToSet(replies), ToSet(submitted'))
    BY <2>3, <2>5 DEF BaseInv, InOrder, Before, Appending
  <2>9. Before(Appending', Arriving') /\ Before(InHand', ToSet(inbox'))
    BY <2>2, <2>5, <2>7 DEF Before
  <2>10. \A id \in Appending' : id \in 1..sent' /\ Kind(id)' = "append"
    BY <1>1, <1>2, <1>3, <2>7 DEF BaseInv, InOrder, Kind
  <2>11. InOrder' BY <1>1, <2>2, <2>6, <2>7, <2>8, <2>9, <2>10 DEF BaseInv, InOrder
  <2>12. \A id \in Ids : Waiting(id)' => Waiting(id) BY <1>1, <2>7 DEF Waiting
  <2> QED BY <1>1, <2>4, <2>11, <2>12, JobsKept DEF BaseInv
<1>4. CASE Kind(reader.id) # "append"
  <2> DEFINE f == Frame(reader.id, "error", 1)
  <2>1. f \in AnyFrame /\ f.id = reader.id /\ f.n = 1 /\ f.kind = "error"
    BY <1>2, FrameFacts DEF Frame, Terminal
  <2>2. <<f>> \in Seq(AnyFrame) /\ Len(<<f>>) = 1 /\ <<f>>[1] = f BY <2>1, SeqFacts
  <2>3. /\ submitted' = submitted
        /\ reader' = [reader EXCEPT !.at = "reply", !.reply = <<f>>, !.closing = FALSE]
    BY <1>4 DEF SubmitAppend, ReplyWith
  <2> HIDE DEF f
  <2>4. /\ reader' \in ReaderRecord
        /\ reader'.at = "reply" /\ reader'.reply = <<f>>
    BY <2>2, <2>3 DEF BaseInv, ShapesOK, ReaderRecord
  <2>5. InHand' = {reader.id} BY <2>1, <2>2, <2>4 DEF InHand
  <2>6. Arriving' = Arriving /\ Before(InHand', ToSet(inbox')) /\ Ascends(inbox')
    BY <1>1, <1>2, <2>5 DEF Arriving, BaseInv, InOrder
  <2>7. InOrder' /\ \A id \in Ids : Waiting(id)' => Waiting(id)
    BY <1>1, <2>1, <2>2, <2>3, <2>4, <2>6, FewerArrive DEF Terminal
  <2>8. ShapesOK' BY <1>1, <2>3, <2>4 DEF BaseInv, ShapesOK, Ids
  <2> QED BY <1>1, <2>7, <2>8, JobsKept DEF BaseInv
<1> QED BY <1>3, <1>4

LEMMA DispatchReadBase ==
    ASSUME BaseInv, NEW id \in Ids, DispatchRead(id)
    PROVE  BaseInv'
<1>1. /\ Polling /\ inbox # <<>> /\ id = Head(inbox) /\ inbox' = Tail(inbox)
      /\ Kind(id) = "read"
      /\ UNCHANGED <<script, sent, submitted, replies, got, writer, control, bulk, buf, wire,
                     appendFree, subFree, socket>>
  BY DEF DispatchRead, ReadsFrame, laneVars
<1>2. id \in Nat BY IdsFacts DEF BaseInv
<1>3. CASE readFree = 0 /\ slotFree = 0
  <2>1. /\ reader' = [reader EXCEPT !.at = "reply", !.reply = <<Frame(id, "error", 1)>>,
                                    !.established = reader.established, !.closing = FALSE]
        /\ UNCHANGED <<readFree, slotFree, queue, job>>
    BY <1>3 DEF DispatchRead, ReplyWith, jobVars, BaseInv, ShapesOK
  <2>2. reader.established \in BOOLEAN /\ "error" \in Terminal
    BY DEF BaseInv, ShapesOK, ReaderRecord, Terminal
  <2> QED BY <1>1, <2>1, <2>2, Answers
<1>4. CASE ~(readFree = 0 /\ slotFree = 0)
  <2> DEFINE holds == IF readFree > 0 THEN "permit" ELSE "slot"
             r == [NoJob EXCEPT !.at = "queued", !.holds = holds]
  <2>0. readFree \in Int /\ slotFree \in Int /\ queue \in Seq(Nat)
    BY DEF BaseInv, ShapesOK
  <2>1. /\ job' = [job EXCEPT ![id] = r] /\ queue' = Append(queue, id)
        /\ UNCHANGED reader /\ readFree' \in Int /\ slotFree' \in Int
    <3>1. /\ job' = [job EXCEPT ![id] = r] /\ queue' = Append(queue, id) /\ UNCHANGED reader
          /\ readFree' = readFree - (IF holds = "permit" THEN 1 ELSE 0)
          /\ slotFree' = slotFree - (IF holds = "slot" THEN 1 ELSE 0)
      BY <1>4 DEF DispatchRead
    <3>2. (IF holds = "permit" THEN 1 ELSE 0) \in Int /\ (IF holds = "slot" THEN 1 ELSE 0) \in Int
      OBVIOUS
    <3> HIDE DEF r, holds
    <3> QED BY <2>0, <3>1, <3>2
  <2>2. /\ r \in JobRecord /\ Fits("read", r) /\ r.at = "queued"
    BY DEF NoJob, JobRecord, Fits
  <2> HIDE DEF r
  <2>3. InHand' = {} BY <1>1, <2>1 DEF InHand, Polling
  <2>4. /\ InOrder' /\ inbox' \in Seq(Nat)
        /\ \A i \in Ids : Waiting(i)' => Waiting(i)
        /\ ~ Waiting(id)'
    BY <1>1, <2>1, <2>3, TakeHead DEF Polling
  <2>5. Waiting(id)
    <3>1. inbox \in Seq(Nat) BY DEF BaseInv, ShapesOK
    <3> QED BY <1>1, <3>1, TailFacts DEF Waiting, Arriving
  <2>6. /\ queue \in Seq(Nat) /\ Len(queue) \in Nat /\ DOMAIN queue = 1..Len(queue)
        /\ queue' \in Seq(Nat) /\ DOMAIN queue' = 1..(Len(queue) + 1)
        /\ \A i \in DOMAIN queue : queue'[i] = queue[i]
        /\ queue'[Len(queue) + 1] = id
    BY <1>2, <2>0, <2>1, AppendFacts, LenProperties
  <2>7. \A i \in DOMAIN queue' : i \in DOMAIN queue \/ i = Len(queue) + 1 BY <2>6, SMT
  <2>8. \A i, j \in DOMAIN queue' : i < j => i \in DOMAIN queue BY <2>6, SMT
  <2>9. \A i \in DOMAIN queue : queue[i] \in Ids /\ job[queue[i]].at = "queued" /\ queue[i] # id
    BY <2>5 DEF BaseInv, JobsFit, JobFits, NoJob
  <2>10. JobsFit' /\ job' \in [Ids -> JobRecord]
    <3>1. \A i \in DOMAIN queue' : /\ queue'[i] \in Ids
                                   /\ IF queue'[i] = id THEN r.at = "queued"
                                      ELSE job[queue'[i]].at = "queued"
      BY <2>2, <2>6, <2>7, <2>9
    <3>2. \A i, j \in DOMAIN queue' : i < j => queue'[i] # queue'[j]
      BY <2>6, <2>7, <2>8, <2>9 DEF BaseInv, JobsFit
    <3> QED BY <1>1, <2>1, <2>2, <2>4, <3>1, <3>2, JobChanges, ZenonT(40)
  <2>11. ShapesOK' BY <1>1, <2>1, <2>4, <2>6, <2>10 DEF BaseInv, ShapesOK, Ids
  <2> QED BY <2>4, <2>10, <2>11 DEF BaseInv
<1> QED BY <1>3, <1>4

LEMMA DispatchSubscribeBase ==
    ASSUME BaseInv, NEW id \in Ids, DispatchSubscribe(id)
    PROVE  BaseInv'
<1>1. /\ Polling /\ inbox # <<>> /\ id = Head(inbox) /\ inbox' = Tail(inbox)
      /\ Kind(id) = "subscribe"
      /\ UNCHANGED <<script, sent, submitted, replies, got, writer, control, bulk, buf, wire,
                     appendFree, readFree, slotFree, socket>>
  BY DEF DispatchSubscribe, ReadsFrame, laneVars
<1>2. CASE ReplyWith(Frame(id, "error", 1), FALSE) /\ UNCHANGED <<subFree, jobVars>>
  <2>1. /\ reader' = [reader EXCEPT !.at = "reply", !.reply = <<Frame(id, "error", 1)>>,
                                    !.established = reader.established, !.closing = FALSE]
        /\ UNCHANGED <<subFree, queue, job>>
    BY <1>2 DEF ReplyWith, jobVars, BaseInv, ShapesOK
  <2>2. reader.established \in BOOLEAN /\ "error" \in Terminal
    BY DEF BaseInv, ShapesOK, ReaderRecord, Terminal
  <2> QED BY <1>1, <2>1, <2>2, Answers
<1>3. CASE /\ subFree' = subFree - 1
           /\ job' = [job EXCEPT ![id] = [NoJob EXCEPT !.at = "poll"]]
           /\ UNCHANGED <<reader, queue, cancelled>>
  <2> DEFINE r == [NoJob EXCEPT !.at = "poll"]
  <2>1. r \in JobRecord /\ Fits("subscribe", r) /\ job' = [job EXCEPT ![id] = r]
    BY <1>3 DEF NoJob, JobRecord, Fits
  <2> HIDE DEF r
  <2>2. InHand' = {} BY <1>1, <1>3 DEF InHand, Polling
  <2>3. /\ InOrder' /\ inbox' \in Seq(Nat)
        /\ \A i \in Ids : Waiting(i)' => Waiting(i)
        /\ ~ Waiting(id)'
    BY <1>1, <1>3, <2>2, TakeHead DEF Polling
  <2>4. Waiting(id)
    <3>1. inbox \in Seq(Nat) BY DEF BaseInv, ShapesOK
    <3> QED BY <1>1, <3>1, TailFacts DEF Waiting, Arriving
  <2>5. \A i \in DOMAIN queue : queue[i] \in Ids /\ job[queue[i]].at = "queued" /\ queue[i] # id
    BY <2>4 DEF BaseInv, JobsFit, JobFits, NoJob
  <2>6. JobsFit' /\ job' \in [Ids -> JobRecord]
    <3>1. \A i, j \in DOMAIN queue' : i < j => queue'[i] # queue'[j]
      BY <1>3 DEF BaseInv, JobsFit
    <3>2. \A i \in DOMAIN queue' : /\ queue'[i] \in Ids
                                   /\ IF queue'[i] = id THEN r.at = "queued"
                                      ELSE job[queue'[i]].at = "queued"
      BY <1>3, <2>5
    <3> QED BY <1>1, <2>1, <2>3, <3>1, <3>2, JobChanges
  <2>7. subFree' \in Int BY <1>3 DEF BaseInv, ShapesOK
  <2>8. ShapesOK' BY <1>1, <1>3, <2>3, <2>6, <2>7 DEF BaseInv, ShapesOK, Ids
  <2> QED BY <2>3, <2>6, <2>8 DEF BaseInv
<1> QED BY <1>2, <1>3 DEF DispatchSubscribe

\* The reader lets go of what it has in hand, or of the frame it reads.
LEMMA ReaderFreed ==
    ASSUME BaseInv, reader'.at \in {"poll", "join", "done"},
           reader' \in ReaderRecord,
           control' \in Seq(AnyFrame),
           inbox' = inbox \/ (Polling /\ inbox # <<>> /\ inbox' = Tail(inbox) /\ Head(inbox) \in Ids),
           UNCHANGED <<script, sent, submitted, replies, got, writer, bulk, buf, wire,
                       appendFree, readFree, slotFree, subFree, queue, job, socket>>
    PROVE  BaseInv'
<1>1. InHand' = {} BY DEF InHand
<1>2. /\ InOrder' /\ inbox' \in Seq(Nat)
      /\ \A i \in Ids : Waiting(i)' => Waiting(i)
  <2>1. CASE inbox' = inbox
    <3>1. Arriving' \subseteq Arriving /\ Before(InHand', ToSet(inbox')) /\ Ascends(inbox')
      BY <1>1, <2>1 DEF Arriving, Before, BaseInv, InOrder
    <3> QED BY <2>1, <3>1, FewerArrive DEF BaseInv, ShapesOK
  <2>2. CASE Polling /\ inbox # <<>> /\ inbox' = Tail(inbox) /\ Head(inbox) \in Ids
    BY <1>1, <2>2, TakeHead
  <2> QED BY <2>1, <2>2
<1>3. ShapesOK' BY <1>2 DEF BaseInv, ShapesOK, Ids
<1> QED BY <1>2, <1>3, JobsKept DEF BaseInv

LEMMA CancelBase ==
    ASSUME BaseInv, NEW id \in Ids, DispatchCancel(id)
    PROVE  BaseInv'
<1>1. /\ Polling /\ inbox # <<>> /\ id = Head(inbox) /\ inbox' = Tail(inbox)
      /\ UNCHANGED <<script, sent, submitted, replies, got, writer, control, bulk, buf, wire,
                     appendFree, readFree, slotFree, subFree, queue, job, socket, reader>>
  BY DEF DispatchCancel, ReadsFrame, laneVars, permitVars
<1>2. control' \in Seq(AnyFrame) /\ reader.at = "poll"
  BY <1>1 DEF BaseInv, ShapesOK, Polling
<1> QED BY <1>1, <1>2, ReaderFreed DEF BaseInv, ShapesOK

LEMMA QueuedFacts ==
    ASSUME NEW s \in Seq(AnyFrame), NEW f \in AnyFrame
    PROVE  Queued(s, f) \in Seq(AnyFrame)
  BY SeqFacts DEF Queued

LEMMA ReplySentBase == BaseInv /\ ReplySent => BaseInv'
<1> SUFFICES ASSUME BaseInv, ReplySent PROVE BaseInv'
  OBVIOUS
<1>1. /\ reader.at = "reply"
      /\ UNCHANGED <<script, sent, inbox, submitted, replies, got, writer, bulk, buf, wire,
                     appendFree, readFree, slotFree, subFree, queue, job, socket>>
  BY DEF ReplySent, clientVars, permitVars, jobVars
<1>2. reader.reply \in Seq(AnyFrame) /\ reader.reply # <<>>
  BY <1>1 DEF BaseInv, ShapesOK, ReaderRecord, InOrder
<1>3. control' \in Seq(AnyFrame)
  BY <1>2, SeqFacts, QueuedFacts DEF ReplySent, BaseInv, ShapesOK
<1>4. /\ reader' \in ReaderRecord
      /\ reader'.at \in {"poll", "join"}
  BY SeqFacts DEF ReplySent, LeaveLoop, BaseInv, ShapesOK, ReaderRecord
<1> QED BY <1>1, <1>3, <1>4, ReaderFreed

LEMMA GarbageBase ==
    ASSUME BaseInv, NEW id \in Ids, ReadGarbage(id)
    PROVE  BaseInv'
<1>1. /\ Polling /\ inbox # <<>> /\ Head(inbox) \in Ids /\ inbox' = Tail(inbox)
      /\ UNCHANGED <<script, sent, submitted, replies, got, writer, bulk, buf, wire,
                     appendFree, readFree, slotFree, subFree, queue, job, socket>>
  BY DEF ReadGarbage, permitVars, jobVars
<1>2. control' \in Seq(AnyFrame)
  BY SeqFacts, FrameFacts DEF ReadGarbage, BaseInv, ShapesOK, Terminal
<1>3. /\ reader' \in ReaderRecord
      /\ reader'.at = "join"
  BY SeqFacts DEF ReadGarbage, LeaveLoop, BaseInv, ShapesOK, ReaderRecord
<1> QED BY <1>1, <1>2, <1>3, ReaderFreed

LEMMA BreaksBase ==
    ASSUME BaseInv, Breaks(StreamEnds \/ GoingDown) \/ Breaks(Overdue) \/ Join
    PROVE  BaseInv'
<1>1. UNCHANGED <<script, sent, inbox, submitted, replies, got, writer, control, bulk, buf, wire,
                  appendFree, readFree, slotFree, subFree, queue, job, socket>>
  BY DEF Breaks, Join, clientVars, laneVars, permitVars, jobVars
<1>2. control' \in Seq(AnyFrame) BY <1>1 DEF BaseInv, ShapesOK
<1>3. /\ reader' \in ReaderRecord
      /\ reader'.at \in {"join", "done"}
  BY SeqFacts DEF Breaks, Join, LeaveLoop, BaseInv, ShapesOK, ReaderRecord
<1> QED BY <1>1, <1>2, <1>3, ReaderFreed

--------------------
\* The coordinator and the pump.
LEMMA CoordinatorBase == BaseInv /\ CoordinatorReplies => BaseInv'
<1> SUFFICES ASSUME BaseInv, CoordinatorReplies PROVE BaseInv'
  OBVIOUS
<1>1. /\ submitted # <<>> /\ submitted' = Tail(submitted)
      /\ replies' = Append(replies, Head(submitted))
      /\ UNCHANGED <<script, sent, inbox, got, socket, reader, writer, control, bulk, buf, wire,
                     appendFree, readFree, slotFree, subFree, queue, job>>
  BY DEF CoordinatorReplies, clientVars, threadVars, laneVars, permitVars, jobVars
<1>2. submitted \in Seq(Nat) /\ replies \in Seq(Nat) BY DEF BaseInv, ShapesOK
<1>3. /\ submitted' \in Seq(Nat) /\ Head(submitted) \in Nat
      /\ ToSet(submitted) = {Head(submitted)} \cup ToSet(submitted')
  BY <1>1, <1>2, TailFacts
<1>4. /\ replies' \in Seq(Nat)
      /\ ToSet(replies') = ToSet(replies) \cup {Head(submitted)}
  BY <1>1, <1>2, <1>3, AppendFacts
<1>5. ShapesOK' BY <1>1, <1>3, <1>4 DEF BaseInv, ShapesOK, Ids
<1>6. Ascends(submitted') /\ Before({Head(submitted)}, ToSet(submitted'))
  BY <1>1, <1>2, TailAscends DEF BaseInv, InOrder
<1>7. Before(ToSet(replies), {Head(submitted)}) /\ Before(ToSet(replies), ToSet(submitted'))
  BY <1>3 DEF BaseInv, InOrder, Before
<1>8. Ascends(replies') /\ Before(ToSet(replies'), ToSet(submitted'))
  <2>1. Ascends(replies') BY <1>1, <1>2, <1>3, <1>7, AppendAscends DEF BaseInv, InOrder
  <2>2. Before(ToSet(replies'), ToSet(submitted')) BY <1>4, <1>6, <1>7 DEF Before
  <2> QED BY <2>1, <2>2
<1>9. Appending' = Appending /\ InHand' = InHand /\ Arriving' = Arriving
  BY <1>1, <1>3, <1>4 DEF Appending, InHand, Arriving
<1>10. InOrder' BY <1>1, <1>6, <1>8, <1>9 DEF BaseInv, InOrder, Kind
<1>11. \A id \in Ids : Waiting(id)' => Waiting(id) BY <1>1, <1>9 DEF Waiting
<1> QED BY <1>1, <1>5, <1>10, <1>11, JobsKept DEF BaseInv

LEMMA PumpBase == BaseInv /\ Pump => BaseInv'
<1> SUFFICES ASSUME BaseInv, Pump PROVE BaseInv'
  OBVIOUS
<1>1. CASE PumpSend
  <2>1. /\ replies # <<>> /\ replies' = Tail(replies) /\ appendFree' = appendFree + 1
        /\ control' = Queued(control, Frame(Head(replies), "appended", 1))
        /\ UNCHANGED <<script, sent, inbox, got, socket, reader, writer, bulk, buf, wire,
                       submitted, readFree, slotFree, subFree, queue, job>>
    BY <1>1 DEF PumpSend, clientVars, jobVars
  <2>2. replies \in Seq(Nat) /\ appendFree \in Int /\ control \in Seq(AnyFrame)
    BY DEF BaseInv, ShapesOK
  <2>3. /\ replies' \in Seq(Nat) /\ Head(replies) \in Nat
        /\ ToSet(replies) = {Head(replies)} \cup ToSet(replies')
    BY <2>1, <2>2, TailFacts
  <2>4. appendFree' \in Int /\ control' \in Seq(AnyFrame)
    <3>1. "appended" \in Terminal \cup {"events", "caughtup"} BY DEF Terminal
    <3>2. Frame(Head(replies), "appended", 1) \in AnyFrame BY <2>3, <3>1, FrameFacts
    <3> QED BY <2>1, <2>2, <3>2, QueuedFacts
  <2>5. ShapesOK' BY <2>1, <2>3, <2>4 DEF BaseInv, ShapesOK, Ids
  <2>6. Ascends(replies') BY <2>1, <2>2, TailAscends DEF BaseInv, InOrder
  <2>7. Appending' \subseteq Appending /\ InHand' = InHand /\ Arriving' = Arriving
    BY <2>1, <2>3 DEF Appending, InHand, Arriving
  <2>8. Before(ToSet(replies'), ToSet(submitted)) /\ Before(Appending', Arriving)
    BY <2>3, <2>7 DEF BaseInv, InOrder, Before
  <2>9. InOrder' BY <2>1, <2>6, <2>7, <2>8 DEF BaseInv, InOrder, Kind
  <2>10. \A id \in Ids : Waiting(id)' => Waiting(id) BY <2>1, <2>7 DEF Waiting
  <2> QED BY <2>1, <2>5, <2>9, <2>10, JobsKept DEF BaseInv
<1>2. CASE PumpEnds
  <2>1. UNCHANGED <<script, sent, inbox, got, socket, reader, writer, control, bulk, buf, wire,
                    submitted, replies, appendFree, readFree, slotFree, subFree, queue, job>>
    BY <1>2 DEF PumpEnds, clientVars, laneVars, permitVars, jobVars
  <2>2. ShapesOK' BY <2>1 DEF BaseInv, ShapesOK, Ids
  <2> QED BY <2>1, <2>2, SameOrder, JobsKept DEF BaseInv
<1> QED BY <1>1, <1>2 DEF Pump

--------------------
\* The jobs. Each step of a job moves on one started job, that of the head of the queue or one not
\* in it.
LEMMA JobStepBase ==
    ASSUME BaseInv, NEW id \in Ids, job[id].at # "none", NEW r \in JobRecord,
           job' = [job EXCEPT ![id] = r], Fits(Kind(id), r), JobUnchanged,
           bulk' \in Seq(AnyFrame), readFree' \in Int, slotFree' \in Int, subFree' \in Int,
           \/ UNCHANGED queue /\ job[id].at # "queued"
           \/ queue # <<>> /\ id = Head(queue) /\ queue' = Tail(queue)
    PROVE  BaseInv'
<1>1. UNCHANGED <<script, sent, inbox, got, socket, reader, writer, control, buf, wire,
                  submitted, replies, appendFree>>
  BY DEF JobUnchanged, clientVars, threadVars
<1>2. InOrder' /\ \A i \in Ids : Waiting(i)' => Waiting(i) BY <1>1, SameOrder
<1>3. ~ Waiting(id)' BY <1>2 DEF BaseInv, JobsFit, JobFits, NoJob
<1>4. queue \in Seq(Nat) BY DEF BaseInv, ShapesOK
<1>5. /\ queue' \in Seq(Nat)
      /\ \A i \in DOMAIN queue' : /\ queue'[i] \in Ids /\ queue'[i] # id
                                  /\ job[queue'[i]].at = "queued"
      /\ \A i, j \in DOMAIN queue' : i < j => queue'[i] # queue'[j]
  <2>1. CASE UNCHANGED queue /\ job[id].at # "queued" BY <1>4, <2>1 DEF BaseInv, JobsFit
  <2>2. CASE queue # <<>> /\ id = Head(queue) /\ queue' = Tail(queue)
    <3>1. /\ queue' \in Seq(Nat) /\ id = queue[1] /\ 1 \in DOMAIN queue
          /\ DOMAIN queue' = 1..(Len(queue) - 1)
          /\ \A i \in DOMAIN queue' : i + 1 \in DOMAIN queue /\ queue'[i] = queue[i + 1]
      BY <1>4, <2>2, TailFacts
    <3>2. Len(queue) \in Nat BY <1>4, LenProperties
    <3>3. /\ \A i \in DOMAIN queue' : 1 < i + 1
          /\ \A i, j \in DOMAIN queue' : i < j => i + 1 < j + 1
      BY <3>1, <3>2, SMT
    <3> QED BY <3>1, <3>3 DEF BaseInv, JobsFit
  <2> QED BY <2>1, <2>2
<1>6. JobsFit' /\ job' \in [Ids -> JobRecord] BY <1>1, <1>2, <1>3, <1>5, JobChanges
<1>7. ShapesOK' BY <1>1, <1>5, <1>6 DEF BaseInv, ShapesOK, Ids
<1> QED BY <1>2, <1>6, <1>7 DEF BaseInv

\* The two kinds of outcome: the job moves on, or ends.
LEMMA EndJobShape ==
    ASSUME BaseInv, NEW id \in Ids, Kind(id) \in {"read", "subscribe"}, EndJob(id)
    PROVE  /\ \E r \in JobRecord : job' = [job EXCEPT ![id] = r] /\ Fits(Kind(id), r)
           /\ readFree' \in Int /\ slotFree' \in Int /\ subFree' \in Int
<1> DEFINE r == [job[id] EXCEPT !.at = "done", !.holds = "nothing"]
<1>1. job[id] \in JobRecord /\ readFree \in Int /\ slotFree \in Int /\ subFree \in Int
  BY DEF BaseInv, ShapesOK
<1>2. r \in JobRecord /\ r.at = "done" /\ r.holds = "nothing" BY <1>1 DEF JobRecord
<1>3. job' = [job EXCEPT ![id] = r] BY DEF EndJob
<1> HIDE DEF r
<1>4. Fits(Kind(id), r) BY <1>2 DEF Fits
<1>5. /\ readFree' \in {readFree, readFree + 1} /\ slotFree' \in {slotFree, slotFree + 1}
      /\ subFree' \in {subFree, subFree + 1}
  BY <1>1 DEF EndJob
<1>6. readFree' \in Int /\ slotFree' \in Int /\ subFree' \in Int BY <1>1, <1>5
<1> QED BY <1>2, <1>3, <1>4, <1>6

LEMMA MoveShape ==
    ASSUME BaseInv, NEW id \in Ids, job[id].at # "none",
           NEW a, NEW n \in Nat, NEW told \in BOOLEAN,
           Kind(id) = "read" => /\ a \in {"item", "send", "end", "error", "acquire"}
                                /\ job[id].holds = IF a = "acquire" THEN "slot" ELSE "permit",
           Kind(id) = "subscribe" => a \in {"send", "error", "poll", "edge"},
           job' = [job EXCEPT ![id] = [job[id] EXCEPT !.at = a, !.sent = n, !.told = told]]
    PROVE  \E r \in JobRecord : job' = [job EXCEPT ![id] = r] /\ Fits(Kind(id), r)
<1> DEFINE r == [job[id] EXCEPT !.at = a, !.sent = n, !.told = told]
<1>1. job[id] \in JobRecord BY DEF BaseInv, ShapesOK
<1>2. Kind(id) \in {"read", "subscribe"} /\ Fits(Kind(id), job[id])
  BY DEF BaseInv, JobsFit, JobFits, Fits
<1>3. r \in JobRecord /\ r.at = a /\ r.holds = job[id].holds BY <1>1, <1>2 DEF JobRecord
<1> HIDE DEF r
<1>4. Fits(Kind(id), r) BY <1>2, <1>3 DEF Fits
<1> QED BY <1>3, <1>4 DEF r

LEMMA JobStartsBase == BaseInv /\ JobStarts => BaseInv'
<1> SUFFICES ASSUME BaseInv, JobStarts PROVE BaseInv'
  OBVIOUS
<1>1. queue # <<>> /\ queue' = Tail(queue) /\ JobUnchanged /\ bulk' = bulk
  BY DEF JobStarts
<1>2. /\ queue \in Seq(Nat) /\ bulk \in Seq(AnyFrame)
      /\ readFree \in Int /\ slotFree \in Int /\ subFree \in Int
  BY DEF BaseInv, ShapesOK
<1>3. PICK id \in Ids : id = Head(queue) /\ job[id].at = "queued"
  BY <1>1, <1>2, TailFacts DEF BaseInv, JobsFit
<1>4. Kind(id) = "read" /\ job[id].holds \in {"permit", "slot"} /\ job[id] \in JobRecord
  BY <1>3 DEF BaseInv, ShapesOK, JobsFit, JobFits, Fits
<1>5. CASE id \in cancelled
  <2>1. EndJob(id) BY <1>3, <1>5 DEF JobStarts
  <2> QED BY <1>1, <1>2, <1>3, <1>4, <2>1, EndJobShape, JobStepBase
<1>6. CASE id \notin cancelled
  <2> DEFINE a == IF job[id].holds = "permit" THEN "item" ELSE "acquire"
  <2>1. job' = [job EXCEPT ![id].at = a] /\ JobHoldsOn BY <1>3, <1>6 DEF JobStarts
  <2>2. /\ a \in {"item", "acquire"}
        /\ job[id].holds = IF a = "acquire" THEN "slot" ELSE "permit"
    BY <1>4
  <2>3. job' = [job EXCEPT ![id] = [job[id] EXCEPT !.at = a, !.sent = job[id].sent,
                                                   !.told = job[id].told]]
    BY <1>4, <2>1 DEF JobRecord
  <2> HIDE DEF a
  <2>4. \E r \in JobRecord : job' = [job EXCEPT ![id] = r] /\ Fits(Kind(id), r)
    BY <1>3, <1>4, <2>2, <2>3, MoveShape DEF JobRecord
  <2> QED BY <1>1, <1>2, <1>3, <1>4, <2>1, <2>4, JobStepBase DEF JobHoldsOn
<1> QED BY <1>5, <1>6

LEMMA JobBase ==
    ASSUME BaseInv, NEW id \in Ids, Job(id) \/ JobFails(id) \/ JobPanics(id)
    PROVE  BaseInv'
<1>1. /\ bulk \in Seq(AnyFrame) /\ readFree \in Int /\ slotFree \in Int /\ subFree \in Int
      /\ job[id] \in JobRecord /\ job[id].sent \in Nat /\ job[id].told \in BOOLEAN
      /\ id \in Nat
  <2>1. /\ bulk \in Seq(AnyFrame) /\ readFree \in Int /\ slotFree \in Int /\ subFree \in Int
        /\ job[id] \in JobRecord
    BY DEF BaseInv, ShapesOK
  <2>2. id \in Nat BY IdsFacts DEF BaseInv
  <2> QED BY <2>1, <2>2 DEF JobRecord
<1>2. /\ job[id].at \notin {"none", "queued"} /\ JobUnchanged /\ UNCHANGED queue
  BY DEF Job, JobFails, JobPanics, JobAcquires, JobItem, JobSends, JobEnds, SubPolls, SubCaughtUp
<1>3. Kind(id) \in {"read", "subscribe"} /\ Fits(Kind(id), job[id])
  BY <1>2 DEF BaseInv, JobsFit, JobFits, Fits
<1>4. bulk' \in Seq(AnyFrame)
  <2>1. /\ Frame(id, "events", job[id].sent + 1) \in AnyFrame
        /\ Frame(id, "caughtup", job[id].sent + 1) \in AnyFrame
        /\ job[id].at \in {"end", "error"} =>
               Frame(id, job[id].at, job[id].sent + 1) \in AnyFrame
    BY <1>1, FrameFacts DEF Terminal
  <2>2. \/ bulk' = bulk
        \/ bulk' = Queued(bulk, Frame(id, "events", job[id].sent + 1))
        \/ bulk' = Queued(bulk, Frame(id, "caughtup", job[id].sent + 1))
        \/ (/\ job[id].at \in {"end", "error"}
            /\ bulk' = Queued(bulk, Frame(id, job[id].at, job[id].sent + 1)))
    BY DEF Job, JobFails, JobPanics, JobAcquires, JobItem, JobSends, JobEnds, SubPolls, SubCaughtUp
  <2> QED BY <1>1, <2>1, <2>2, QueuedFacts
<1> DEFINE Moved == \E r \in JobRecord : job' = [job EXCEPT ![id] = r] /\ Fits(Kind(id), r)
           Counted == readFree' \in Int /\ slotFree' \in Int /\ subFree' \in Int
<1>5. ASSUME EndJob(id) PROVE Moved /\ Counted BY <1>3, <1>5, EndJobShape
<1>6. ASSUME JobHoldsOn PROVE Counted BY <1>1, <1>6 DEF JobHoldsOn
<1>7. Moved /\ Counted
  <2>1. CASE JobAcquires(id)
    <3>1. CASE EndJob(id) BY <1>5, <3>1
    <3>2. CASE /\ readFree' = readFree - 1 /\ slotFree' = slotFree + 1 /\ UNCHANGED subFree
               /\ job' = [job EXCEPT ![id].at = "item", ![id].holds = "permit"]
      <4> DEFINE r == [job[id] EXCEPT !.at = "item", !.holds = "permit"]
      <4>1. Kind(id) = "read" BY <1>3, <2>1 DEF JobAcquires, Fits
      <4>2. r \in JobRecord /\ Fits("read", r) /\ job' = [job EXCEPT ![id] = r]
        BY <1>1, <3>2 DEF JobRecord, Fits
      <4> HIDE DEF r
      <4>3. Counted BY <1>1, <3>2
      <4> QED BY <4>1, <4>2, <4>3
    <3> QED BY <2>1, <3>1, <3>2 DEF JobAcquires
  <2>2. ASSUME NEW a, JobHoldsOn, job' = [job EXCEPT ![id].at = a],
               Kind(id) = "read" => /\ job[id].holds = "permit"
                                    /\ a \in {"item", "send", "end", "error"},
               Kind(id) = "subscribe" => a \in {"send", "error", "poll", "edge"}
        PROVE  Moved /\ Counted
    <3>1. job' = [job EXCEPT ![id] = [job[id] EXCEPT !.at = a, !.sent = job[id].sent,
                                                     !.told = job[id].told]]
      BY <1>1, <2>2 DEF JobRecord
    <3>2. Kind(id) = "read" => /\ a \in {"item", "send", "end", "error", "acquire"}
                               /\ job[id].holds = IF a = "acquire" THEN "slot" ELSE "permit"
      BY <2>2
    <3> QED BY <1>1, <1>2, <1>6, <2>2, <3>1, <3>2, MoveShape
  <2>3. CASE JobItem(id)
    <3>1. Kind(id) = "read" /\ job[id].holds = "permit" BY <1>3, <2>3 DEF JobItem, Fits
    <3> QED BY <1>5, <2>2, <2>3, <3>1 DEF JobItem
  <2>4. CASE JobSends(id)
    <3>1. CASE WriterGone BY <1>5, <2>4, <3>1 DEF JobSends
    <3>2. CASE ~ WriterGone
      <4> DEFINE a == IF Kind(id) = "subscribe" THEN "poll" ELSE "item"
      <4>1. /\ job' = [job EXCEPT ![id].sent = @ + 1, ![id].told = FALSE, ![id].at = a]
            /\ JobHoldsOn
        BY <2>4, <3>2 DEF JobSends
      <4>2. job' = [job EXCEPT ![id] = [job[id] EXCEPT !.at = a, !.sent = job[id].sent + 1,
                                                       !.told = FALSE]]
        BY <1>1, <4>1 DEF JobRecord
      <4>3. /\ Kind(id) = "read" => a = "item" /\ job[id].holds = "permit"
            /\ Kind(id) = "subscribe" => a = "poll"
        BY <1>3, <2>4 DEF JobSends, Fits
      <4> HIDE DEF a
      <4> QED
        <5>1. job[id].sent + 1 \in Nat BY <1>1
        <5>2. Moved BY <1>2, <4>2, <4>3, <5>1, MoveShape
        <5> QED BY <1>6, <4>1, <5>2
    <3> QED BY <3>1, <3>2
  <2>5. CASE JobEnds(id) BY <1>5, <2>5 DEF JobEnds
  <2>6. CASE SubPolls(id)
    <3>1. Kind(id) = "subscribe" BY <2>6 DEF SubPolls
    <3> QED BY <1>5, <2>2, <2>6, <3>1 DEF SubPolls
  <2>7. CASE SubCaughtUp(id)
    <3>1. Kind(id) = "subscribe" BY <1>3, <2>7 DEF SubCaughtUp, Fits
    <3>2. CASE WriterGone BY <1>5, <2>7, <3>2 DEF SubCaughtUp
    <3>3. CASE ~ WriterGone
      <4>1. /\ job' = [job EXCEPT ![id].sent = @ + 1, ![id].told = TRUE, ![id].at = "poll"]
            /\ JobHoldsOn
        BY <2>7, <3>3 DEF SubCaughtUp
      <4>2. job' = [job EXCEPT ![id] = [job[id] EXCEPT !.at = "poll", !.sent = job[id].sent + 1,
                                                       !.told = TRUE]]
        BY <1>1, <4>1 DEF JobRecord
      <4> QED
        <5>1. job[id].sent + 1 \in Nat BY <1>1
        <5>2. Moved BY <1>2, <3>1, <4>2, <5>1, MoveShape
        <5> QED BY <1>6, <4>1, <5>2
    <3> QED BY <3>2, <3>3
  <2>8. CASE JobFails(id)
    <3>1. Kind(id) = "read" => job[id].holds = "permit" BY <1>3, <2>8 DEF JobFails, Fits
    <3> QED BY <1>3, <2>2, <2>8, <3>1 DEF JobFails
  <2>9. CASE JobPanics(id)
    <3> DEFINE r == [NoJob EXCEPT !.at = "done", !.told = TRUE]
    <3>1. r \in JobRecord /\ Fits("read", r) BY DEF NoJob, JobRecord, Fits
    <3>2. Kind(id) = "read" /\ job' = [job EXCEPT ![id] = r] BY <2>9 DEF JobPanics
    <3>3. Counted BY <1>1, <2>9 DEF JobPanics
    <3> HIDE DEF r
    <3> QED BY <3>1, <3>2, <3>3
  <2> QED BY <2>1, <2>3, <2>4, <2>5, <2>6, <2>7, <2>8, <2>9 DEF Job
<1> QED BY <1>2, <1>4, <1>7, JobStepBase

--------------------
\* The writer.
LEMMA WriterStepBase ==
    ASSUME BaseInv, UNCHANGED <<script, sent, inbox, got, reader, submitted, replies, appendFree,
                                readFree, slotFree, subFree, queue, job, socket>>,
           writer' \in WriterRecord,
           control' \in Seq(AnyFrame), bulk' \in Seq(AnyFrame),
           buf' \in Seq(AnyFrame), wire' \in Seq(AnyFrame)
    PROVE  BaseInv'
<1>1. ShapesOK' BY DEF BaseInv, ShapesOK, Ids, WriterRecord
<1> QED BY <1>1, SameOrder, JobsKept DEF BaseInv

LEMMA WriterBase == BaseInv /\ Writer => BaseInv'
<1> SUFFICES ASSUME BaseInv, Writer PROVE BaseInv'
  OBVIOUS
<1>1. /\ control \in Seq(AnyFrame) /\ bulk \in Seq(AnyFrame) /\ buf \in Seq(AnyFrame)
      /\ wire \in Seq(AnyFrame) /\ writer \in WriterRecord
  BY DEF BaseInv, ShapesOK, WriterRecord
<1>2. UNCHANGED <<script, sent, got, reader, submitted, replies, appendFree,
                  readFree, slotFree, subFree, queue, job>>
  BY DEF Writer, WriteControl, WriteBulk, Flush, WriterIdle, WriterWakes, WriterLeaves,
         WriterFails, WriterExits, WriterUnchanged, permitVars, jobVars
<1> DEFINE Shaped == /\ writer' \in WriterRecord
                     /\ control' \in Seq(AnyFrame) /\ bulk' \in Seq(AnyFrame)
                     /\ buf' \in Seq(AnyFrame)
<1>3. ASSUME NEW run \in Nat, control # <<>>, TakeControl(run) PROVE Shaped
  <2>1. Passing \in Nat BY <1>1 DEF Passing, WriterRecord
  <2>2. writer' \in WriterRecord BY <1>1, <1>3, <2>1 DEF TakeControl, WriterRecord
  <2> QED BY <1>1, <1>3, <2>2, SeqFacts DEF TakeControl
<1>4. ASSUME NEW a \in {"flushed", "control"}, bulk # <<>>, TakeBulk(a) PROVE Shaped
  <2>1. writer' \in WriterRecord BY <1>1, <1>4 DEF TakeBulk, WriterRecord
  <2> QED BY <1>1, <1>4, <2>1, SeqFacts DEF TakeBulk
<1>5. ASSUME NEW a \in {"control", "idle", "flushidle", "wait", "leave"}, WriterGoes(a)
      PROVE  Shaped
  BY <1>1, <1>5 DEF WriterGoes, WriterRecord
<1>6. TryBulk => Shaped BY <1>4, <1>5 DEF TryBulk
<1>7. CASE WriteControl \/ WriteBulk \/ WriterIdle \/ WriterWakes
  <2>1. writer.run \in Nat /\ writer.run + 1 \in Nat BY <1>1 DEF WriterRecord
  <2>2. /\ writer' = [writer EXCEPT !.at = "flushbulk"] /\ UNCHANGED <<control, bulk, buf>>
        => Shaped
    BY <1>1 DEF WriterRecord
  <2>3. Shaped
    <3>1. CASE WriteControl BY <1>3, <1>6, <2>1, <2>2, <3>1 DEF WriteControl
    <3>2. CASE WriteBulk BY <1>6, <3>2 DEF WriteBulk
    <3>3. CASE WriterIdle BY <1>3, <1>4, <1>5, <3>3 DEF WriterIdle
    <3>4. CASE WriterWakes BY <1>3, <1>5, <3>4 DEF WriterWakes
    <3> QED BY <1>7, <3>1, <3>2, <3>3, <3>4
  <2>4. UNCHANGED <<inbox, socket, wire>>
    BY <1>7 DEF WriteControl, WriteBulk, WriterIdle, WriterWakes
  <2> QED BY <1>1, <1>2, <2>3, <2>4, WriterStepBase
<1>8. CASE Flush
  <2>1. writer' \in WriterRecord
    <3>1. DOMAIN AfterFlush = {"flushbulk", "flushed", "flushidle"} BY DEF AfterFlush
    <3>2. AfterFlush[writer.at] \in {"bulk", "control", "idle"}
      BY <1>8, <3>1 DEF Flush, AfterFlush
    <3> QED BY <1>1, <1>8, <3>2 DEF Flush, WriterRecord
  <2>2. UNCHANGED <<inbox, socket, control, bulk>> /\ wire' \in {wire, wire \o buf}
        /\ buf' = <<>>
    BY <1>8 DEF Flush
  <2>3. wire' \in Seq(AnyFrame) /\ buf' \in Seq(AnyFrame) BY <1>1, <2>2, SeqFacts
  <2> QED BY <1>1, <1>2, <2>1, <2>2, <2>3, WriterStepBase
<1>9. CASE WriterExits
  <2>1. InOrder' /\ JobsFit' /\ inbox' \in Seq(Nat)
    BY <1>2, <1>9, CutInbox, JobsKept DEF WriterExits
  <2>2. writer' \in WriterRecord BY <1>1, <1>9 DEF WriterExits, WriterRecord
  <2>3. socket' \in {"open", "shut"} /\ control' = <<>> /\ bulk' = <<>> /\ buf' = <<>>
        /\ wire' = wire
    BY <1>9 DEF WriterExits
  <2>4. ShapesOK'
    BY <1>2, <2>1, <2>2, <2>3, SeqFacts DEF BaseInv, ShapesOK, Ids, WriterRecord
  <2> QED BY <2>1, <2>4 DEF BaseInv
<1> QED BY <1>7, <1>8, <1>9 DEF Writer, WriterLeaves, WriterFails

LEMMA StepBase == BaseInv /\ [Next]_vars => BaseInv'
<1> SUFFICES ASSUME BaseInv, [Next]_vars PROVE BaseInv'
  OBVIOUS
<1>1. CASE Send \/ ClientReceive \/ Disconnect \/ ServerShutdown
  BY <1>1, SendBase, ReceiveBase, ShutBase DEF Disconnect, ServerShutdown
<1>2. CASE Reader \/ Reaper
  BY <1>2, HelloBase, DispatchAppendBase, DispatchReadBase, DispatchSubscribeBase, CancelBase,
     GarbageBase, SubmitBase, ReplySentBase, BreaksBase DEF Reader, Reaper
<1>3. CASE Pump \/ CoordinatorReplies BY <1>3, PumpBase, CoordinatorBase
<1>4. CASE JobStarts \/ \E id \in Ids : Job(id) \/ JobFails(id) \/ JobPanics(id)
  BY <1>4, JobStartsBase, JobBase
<1>5. CASE Writer BY <1>5, WriterBase
<1>6. CASE UNCHANGED vars
  <2>1. UNCHANGED <<script, sent, inbox, got, socket, reader, writer, control, bulk, buf, wire,
                    submitted, replies, appendFree, readFree, slotFree, subFree, queue, job>>
    BY <1>6 DEF vars, clientVars, threadVars, laneVars, permitVars, jobVars
  <2>2. ShapesOK' BY <2>1 DEF BaseInv, ShapesOK, Ids
  <2> QED BY <2>1, <2>2, SameOrder, JobsKept DEF BaseInv
<1> QED BY <1>1, <1>2, <1>3, <1>4, <1>5, <1>6 DEF Next

LEMMA AlwaysBase == Spec => []BaseInv
<1>1. Init => BaseInv BY InitBase
<1>2. BaseInv /\ [Next]_vars => BaseInv' BY StepBase
<1> QED BY <1>1, <1>2, PTL DEF Spec

--------------------
\* The permits.
One(b) == IF b THEN 1 ELSE 0

LEMMA CountOne ==
    ASSUME NEW S, NEW T, NEW id, IsFiniteSet(S), \A i : i # id => (i \in S <=> i \in T)
    PROVE  /\ Cardinality(S) \in Nat /\ Cardinality(T) \in Nat
           /\ Cardinality(T) + One(id \in S) = Cardinality(S) + One(id \in T)
<1>1. Cardinality(S) \in Nat BY FS_CardinalityType
<1>2. CASE id \in S /\ id \notin T
  <2>1. T = S \ {id} BY <1>2
  <2>2. Cardinality(T) = Cardinality(S) - 1 /\ IsFiniteSet(T)
    BY <1>2, <2>1, FS_RemoveElement
  <2> QED BY <1>1, <1>2, <2>2, FS_CardinalityType DEF One
<1>3. CASE id \notin S /\ id \in T
  <2>1. T = S \cup {id} BY <1>3
  <2>2. Cardinality(T) = Cardinality(S) + 1 /\ IsFiniteSet(T) BY <1>3, <2>1, FS_AddElement
  <2> QED BY <1>1, <1>3, <2>2 DEF One
<1>4. CASE (id \in S) <=> (id \in T)
  <2>1. S = T BY <1>4
  <2> QED BY <1>1, <2>1 DEF One
<1> QED BY <1>2, <1>3, <1>4

Live(r) == r.at \notin {"none", "done"}

\* One job changes, and the permits with it.
LEMMA BalanceChanges ==
    ASSUME BaseInv, PermitsBalance, NEW id \in Ids, NEW r \in JobRecord,
           job' = [job EXCEPT ![id] = r], UNCHANGED script,
           readFree' + One(r.holds = "permit") = readFree + One(job[id].holds = "permit"),
           slotFree' + One(r.holds = "slot") = slotFree + One(job[id].holds = "slot"),
           subFree' + One(Live(r) /\ Kind(id) = "subscribe")
               = subFree + One(Live(job[id]) /\ Kind(id) = "subscribe"),
           readFree' \in Int, slotFree' \in Int, subFree' \in Int,
           cancels' = IF Live(r) THEN cancels \cup {id} ELSE cancels \ {id},
           UNCHANGED <<appendFree, submitted, replies>>
    PROVE  PermitsBalance'
<1>1. /\ job \in [Ids -> JobRecord] /\ Ids' = Ids /\ \A i : Kind(i)' = Kind(i)
      /\ readFree \in Int /\ slotFree \in Int /\ subFree \in Int /\ IsFiniteSet(Ids)
  BY IdsFacts DEF BaseInv, ShapesOK, Ids, Kind
<1>2. \A i \in Ids : job'[i] = IF i = id THEN r ELSE job[i] BY <1>1
<1> DEFINE S(w) == {i \in Ids : job[i].holds = w}
           T(w) == {i \in Ids : job'[i].holds = w}
           SubS == {i \in JobsAlive : Kind(i) = "subscribe"}
           SubT == {i \in JobsAlive' : Kind(i) = "subscribe"}
<1>3. ASSUME NEW w
      PROVE  /\ Cardinality(S(w)) \in Nat /\ Cardinality(T(w)) \in Nat
             /\ Cardinality(T(w)) + One(job[id].holds = w)
                    = Cardinality(S(w)) + One(r.holds = w)
  <2>1. IsFiniteSet(S(w)) BY <1>1, FS_Subset
  <2>2. \A i : i # id => (i \in S(w) <=> i \in T(w)) BY <1>2
  <2>3. (id \in S(w) <=> job[id].holds = w) /\ (id \in T(w) <=> r.holds = w) BY <1>2
  <2>4. One(id \in S(w)) = One(job[id].holds = w) /\ One(id \in T(w)) = One(r.holds = w)
    BY <2>3 DEF One
  <2> HIDE DEF S, T
  <2>5. /\ Cardinality(S(w)) \in Nat /\ Cardinality(T(w)) \in Nat
        /\ Cardinality(T(w)) + One(id \in S(w)) = Cardinality(S(w)) + One(id \in T(w))
    BY <2>1, <2>2, CountOne
  <2> QED BY <2>4, <2>5
<1>4. /\ Holding("permit") = Cardinality(S("permit")) /\ Holding("slot") = Cardinality(S("slot"))
      /\ Holding("permit")' = Cardinality(T("permit"))
      /\ Holding("slot")' = Cardinality(T("slot"))
  BY <1>1 DEF Holding
<1>5. JobsAlive' = IF Live(r) THEN JobsAlive \cup {id} ELSE JobsAlive \ {id}
  BY <1>1, <1>2 DEF JobsAlive, Live
<1>6. (id \in JobsAlive <=> Live(job[id])) /\ JobsAlive \subseteq Ids
  BY DEF JobsAlive, Live
<1>7. /\ Cardinality(SubS) \in Nat /\ Cardinality(SubT) \in Nat
      /\ Cardinality(SubT) + One(Live(job[id]) /\ Kind(id) = "subscribe")
            = Cardinality(SubS) + One(Live(r) /\ Kind(id) = "subscribe")
  <2>1. IsFiniteSet(SubS) BY <1>1, <1>6, FS_Subset
  <2>2. \A i : i # id => (i \in SubS <=> i \in SubT) BY <1>5
  <2>3. /\ One(id \in SubS) = One(Live(job[id]) /\ Kind(id) = "subscribe")
        /\ One(id \in SubT) = One(Live(r) /\ Kind(id) = "subscribe")
    BY <1>5, <1>6 DEF One
  <2> HIDE DEF SubS, SubT
  <2>4. /\ Cardinality(SubS) \in Nat /\ Cardinality(SubT) \in Nat
        /\ Cardinality(SubT) + One(id \in SubS) = Cardinality(SubS) + One(id \in SubT)
    BY <2>1, <2>2, CountOne
  <2> QED BY <2>3, <2>4
<1>8. {i \in JobsAlive : Kind(i) = "subscribe"}' = SubT BY <1>1
<1> HIDE DEF S, T, SubS, SubT
<1>9. \A b \in BOOLEAN : One(b) \in Nat BY DEF One
<1>10. /\ readFree + Cardinality(S("permit")) = ReadBudget
       /\ slotFree + Cardinality(S("slot")) = ReadBudget
       /\ subFree + Cardinality(SubS) = SubBudget
       /\ cancels = JobsAlive
  BY <1>4 DEF PermitsBalance, SubS
<1>11. /\ readFree' + Cardinality(T("permit")) = ReadBudget
  <2>1. One(r.holds = "permit") \in Nat /\ One(job[id].holds = "permit") \in Nat
    BY DEF One
  <2> HIDE DEF One
  <2> QED BY <1>1, <1>3, <1>10, <2>1, SMT
<1>12. slotFree' + Cardinality(T("slot")) = ReadBudget
  <2>1. One(r.holds = "slot") \in Nat /\ One(job[id].holds = "slot") \in Nat BY DEF One
  <2> QED BY <1>1, <1>3, <1>10, <2>1, SMT
<1>13. subFree' + Cardinality(SubT) = SubBudget
  <2>1. /\ One(Live(r) /\ Kind(id) = "subscribe") \in Nat
        /\ One(Live(job[id]) /\ Kind(id) = "subscribe") \in Nat
    BY DEF One
  <2> QED BY <1>1, <1>7, <1>10, <2>1, SMT
<1>14. cancels' = JobsAlive' BY <1>5, <1>10
<1> QED BY <1>4, <1>8, <1>11, <1>12, <1>13, <1>14 DEF PermitsBalance

LEMMA BalanceKept ==
    ASSUME PermitsBalance, UNCHANGED <<script, job, readFree, slotFree, subFree, cancels>>,
           appendFree' + Len(submitted') + Len(replies')
               = appendFree + Len(submitted) + Len(replies)
    PROVE  PermitsBalance'
  BY DEF PermitsBalance, Holding, JobsAlive, Ids, Kind

LEMMA EndJobBalance ==
    ASSUME BaseInv, PermitsBalance, NEW id \in Ids, Live(job[id]), EndJob(id), UNCHANGED script,
           UNCHANGED <<appendFree, submitted, replies>>
    PROVE  PermitsBalance'
<1> DEFINE r == [job[id] EXCEPT !.at = "done", !.holds = "nothing"]
<1>1. job[id] \in JobRecord /\ readFree \in Int /\ slotFree \in Int /\ subFree \in Int
  BY DEF BaseInv, ShapesOK
<1>2. r \in JobRecord /\ ~ Live(r) /\ r.holds = "nothing" /\ job' = [job EXCEPT ![id] = r]
  BY <1>1 DEF JobRecord, EndJob, Live
<1> HIDE DEF r
<1>3. /\ readFree' = readFree + One(job[id].holds = "permit")
      /\ slotFree' = slotFree + One(job[id].holds = "slot")
      /\ subFree' = subFree + One(Live(job[id]) /\ Kind(id) = "subscribe")
      /\ cancels' = cancels \ {id}
  BY DEF EndJob, One
<1>4. /\ One(r.holds = "permit") = 0 /\ One(r.holds = "slot") = 0
      /\ One(Live(r) /\ Kind(id) = "subscribe") = 0
      /\ One(job[id].holds = "permit") \in Nat /\ One(job[id].holds = "slot") \in Nat
      /\ One(Live(job[id]) /\ Kind(id) = "subscribe") \in Nat
  BY <1>2 DEF One
<1>5. /\ readFree' + One(r.holds = "permit") = readFree + One(job[id].holds = "permit")
      /\ slotFree' + One(r.holds = "slot") = slotFree + One(job[id].holds = "slot")
      /\ subFree' + One(Live(r) /\ Kind(id) = "subscribe")
             = subFree + One(Live(job[id]) /\ Kind(id) = "subscribe")
      /\ readFree' \in Int /\ slotFree' \in Int /\ subFree' \in Int
  BY <1>1, <1>3, <1>4, SMT
<1> QED BY <1>2, <1>3, <1>5, BalanceChanges

LEMMA MoveBalance ==
    ASSUME BaseInv, PermitsBalance, NEW id \in Ids, NEW r \in JobRecord,
           Live(job[id]), Live(r), r.holds = job[id].holds, job' = [job EXCEPT ![id] = r],
           JobHoldsOn, UNCHANGED <<script, appendFree, submitted, replies>>
    PROVE  PermitsBalance'
<1>1. /\ readFree \in Int /\ slotFree \in Int /\ subFree \in Int
      /\ UNCHANGED <<readFree, slotFree, subFree, cancels>>
  BY DEF BaseInv, ShapesOK, JobHoldsOn
<1>2. id \in cancels BY DEF PermitsBalance, JobsAlive, Live
<1>3. cancels' = cancels \cup {id} BY <1>1, <1>2
<1> QED BY <1>1, <1>3, BalanceChanges

LEMMA JobsBalance ==
    ASSUME BaseInv, PermitsBalance, NEW id \in Ids, Job(id) \/ JobFails(id) \/ JobPanics(id)
    PROVE  PermitsBalance'
<1>1. UNCHANGED <<script, appendFree, submitted, replies>>
  BY DEF Job, JobFails, JobPanics, JobAcquires, JobItem, JobSends, JobEnds, SubPolls,
         SubCaughtUp, JobUnchanged, clientVars
<1>2. /\ job[id] \in JobRecord /\ readFree \in Int /\ slotFree \in Int /\ subFree \in Int
  BY DEF BaseInv, ShapesOK
<1>3. Live(job[id])
  BY DEF Live, Job, JobFails, JobPanics, JobAcquires, JobItem, JobSends, JobEnds, SubPolls,
         SubCaughtUp
<1>4. EndJob(id) => PermitsBalance' BY <1>1, <1>3, EndJobBalance
<1>5. ASSUME NEW a \in {"item", "send", "end", "error", "poll", "edge"},
             job' = [job EXCEPT ![id].at = a], JobHoldsOn
      PROVE  PermitsBalance'
  <2> DEFINE r == [job[id] EXCEPT !.at = a]
  <2>1. r \in JobRecord /\ Live(r) /\ r.holds = job[id].holds /\ job' = [job EXCEPT ![id] = r]
    BY <1>2, <1>5 DEF JobRecord, Live
  <2> HIDE DEF r
  <2> QED BY <1>1, <1>3, <1>5, <2>1, MoveBalance
<1>6. ASSUME NEW a \in {"item", "poll"}, NEW told \in BOOLEAN, JobHoldsOn,
             job' = [job EXCEPT ![id].sent = @ + 1, ![id].told = told, ![id].at = a]
      PROVE  PermitsBalance'
  <2> DEFINE r == [job[id] EXCEPT !.sent = @ + 1, !.told = told, !.at = a]
  <2>1. job[id].sent + 1 \in Nat BY <1>2 DEF JobRecord
  <2>2. r \in JobRecord /\ Live(r) /\ r.holds = job[id].holds
    BY <1>2, <2>1 DEF JobRecord, Live
  <2>3. job' = [job EXCEPT ![id] = r] BY <1>2, <1>6 DEF JobRecord
  <2> HIDE DEF r
  <2> QED BY <1>1, <1>3, <1>6, <2>2, <2>3, MoveBalance
<1>7. CASE JobAcquires(id)
  <2>1. CASE /\ readFree' = readFree - 1 /\ slotFree' = slotFree + 1
             /\ UNCHANGED <<subFree, cancels>>
             /\ job' = [job EXCEPT ![id].at = "item", ![id].holds = "permit"]
    <3> DEFINE r == [job[id] EXCEPT !.at = "item", !.holds = "permit"]
    <3>1. Kind(id) = "read" /\ job[id].holds = "slot"
      BY <1>7 DEF JobAcquires, Fits, BaseInv, JobsFit, JobFits
    <3>2. r \in JobRecord /\ Live(r) /\ r.holds = "permit" /\ job' = [job EXCEPT ![id] = r]
      BY <1>2, <2>1 DEF JobRecord, Live
    <3> HIDE DEF r
    <3>3. id \in cancels BY <1>3 DEF PermitsBalance, JobsAlive, Live
    <3>4. /\ One(r.holds = "permit") = 1 /\ One(job[id].holds = "permit") = 0
          /\ One(r.holds = "slot") = 0 /\ One(job[id].holds = "slot") = 1
          /\ One(Live(r) /\ Kind(id) = "subscribe") = 0
          /\ One(Live(job[id]) /\ Kind(id) = "subscribe") = 0
      BY <3>1, <3>2 DEF One
    <3>5. /\ readFree' + One(r.holds = "permit") = readFree + One(job[id].holds = "permit")
          /\ slotFree' + One(r.holds = "slot") = slotFree + One(job[id].holds = "slot")
          /\ subFree' + One(Live(r) /\ Kind(id) = "subscribe")
                 = subFree + One(Live(job[id]) /\ Kind(id) = "subscribe")
          /\ readFree' \in Int /\ slotFree' \in Int /\ subFree' \in Int
      BY <1>2, <2>1, <3>4, SMT
    <3>6. cancels' = cancels \cup {id} BY <2>1, <3>3
    <3> QED BY <1>1, <3>2, <3>5, <3>6, BalanceChanges
  <2> QED BY <1>4, <1>7, <2>1 DEF JobAcquires
<1>8. CASE JobItem(id) BY <1>4, <1>5, <1>8 DEF JobItem
<1>9. CASE JobSends(id) BY <1>4, <1>6, <1>9 DEF JobSends
<1>10. CASE JobEnds(id) BY <1>4, <1>10 DEF JobEnds
<1>11. CASE SubPolls(id) BY <1>4, <1>5, <1>11 DEF SubPolls
<1>12. CASE SubCaughtUp(id) BY <1>4, <1>6, <1>12 DEF SubCaughtUp
<1>13. CASE JobFails(id) BY <1>5, <1>13 DEF JobFails
<1>14. CASE JobPanics(id)
  <2> DEFINE r == [NoJob EXCEPT !.at = "done", !.told = TRUE]
  <2>1. Kind(id) = "read" /\ job[id].holds = "permit"
    BY <1>14 DEF JobPanics, Fits, BaseInv, JobsFit, JobFits
  <2>2. r \in JobRecord /\ ~ Live(r) /\ r.holds = "nothing" /\ job' = [job EXCEPT ![id] = r]
    BY <1>14 DEF JobPanics, NoJob, JobRecord, Live
  <2> HIDE DEF r
  <2>3. /\ readFree' = readFree + 1 /\ slotFree' = slotFree /\ subFree' = subFree
        /\ cancels' = cancels \ {id}
    BY <1>14 DEF JobPanics
  <2>4. /\ One(r.holds = "permit") = 0 /\ One(job[id].holds = "permit") = 1
        /\ One(r.holds = "slot") = 0 /\ One(job[id].holds = "slot") = 0
        /\ One(Live(r) /\ Kind(id) = "subscribe") = 0
        /\ One(Live(job[id]) /\ Kind(id) = "subscribe") = 0
    BY <2>1, <2>2 DEF One
  <2>5. /\ readFree' + One(r.holds = "permit") = readFree + One(job[id].holds = "permit")
        /\ slotFree' + One(r.holds = "slot") = slotFree + One(job[id].holds = "slot")
        /\ subFree' + One(Live(r) /\ Kind(id) = "subscribe")
               = subFree + One(Live(job[id]) /\ Kind(id) = "subscribe")
        /\ readFree' \in Int /\ slotFree' \in Int /\ subFree' \in Int
    BY <1>2, <2>3, <2>4, SMT
  <2> QED BY <1>1, <2>2, <2>3, <2>5, BalanceChanges
<1> QED BY <1>7, <1>8, <1>9, <1>10, <1>11, <1>12, <1>13, <1>14 DEF Job

LEMMA StartsBalance ==
    ASSUME BaseInv, PermitsBalance, JobStarts
    PROVE  PermitsBalance'
<1>1. /\ queue # <<>> /\ UNCHANGED <<script, appendFree, submitted, replies>>
  BY DEF JobStarts, JobUnchanged, clientVars
<1>2. queue \in Seq(Nat) /\ job \in [Ids -> JobRecord] BY DEF BaseInv, ShapesOK
<1>3. PICK id \in Ids : id = Head(queue) /\ job[id].at = "queued"
  BY <1>1, <1>2, TailFacts DEF BaseInv, JobsFit
<1>4. Live(job[id]) /\ job[id] \in JobRecord BY <1>2, <1>3 DEF Live
<1>5. CASE id \in cancelled BY <1>1, <1>3, <1>4, <1>5, EndJobBalance DEF JobStarts
<1>6. CASE id \notin cancelled
  <2> DEFINE a == IF job[id].holds = "permit" THEN "item" ELSE "acquire"
             r == [job[id] EXCEPT !.at = a]
  <2>1. job' = [job EXCEPT ![id].at = a] /\ JobHoldsOn BY <1>3, <1>6 DEF JobStarts
  <2>2. r \in JobRecord /\ Live(r) /\ r.holds = job[id].holds /\ job' = [job EXCEPT ![id] = r]
    BY <1>4, <2>1 DEF JobRecord, Live
  <2> HIDE DEF r
  <2> QED BY <1>1, <1>4, <2>1, <2>2, MoveBalance
<1> QED BY <1>5, <1>6

\* A request takes its permit.
LEMMA DispatchBalance ==
    ASSUME BaseInv, PermitsBalance, NEW id \in Ids, DispatchRead(id) \/ DispatchSubscribe(id)
    PROVE  PermitsBalance'
<1>1. /\ inbox # <<>> /\ id = Head(inbox)
      /\ UNCHANGED <<script, appendFree, submitted, replies>>
  BY DEF DispatchRead, DispatchSubscribe, ReadsFrame
<1>2. readFree \in Int /\ slotFree \in Int /\ subFree \in Int /\ inbox \in Seq(Nat)
  BY DEF BaseInv, ShapesOK
<1>3. Waiting(id) BY <1>1, <1>2, TailFacts DEF Waiting, Arriving
<1>4. job[id] = NoJob /\ ~ Live(job[id]) /\ job[id].holds = "nothing"
  BY <1>3 DEF BaseInv, JobsFit, JobFits, NoJob, Live
<1>5. CASE UNCHANGED <<readFree, slotFree, subFree, jobVars>>
  BY <1>1, <1>5, BalanceKept DEF jobVars
<1>6. CASE DispatchRead(id) /\ ~(readFree = 0 /\ slotFree = 0)
  <2> DEFINE holds == IF readFree > 0 THEN "permit" ELSE "slot"
             r == [NoJob EXCEPT !.at = "queued", !.holds = holds]
  <2>1. /\ Kind(id) = "read" /\ job' = [job EXCEPT ![id] = r] /\ cancels' = cancels \cup {id}
        /\ readFree' = readFree - (IF holds = "permit" THEN 1 ELSE 0)
        /\ slotFree' = slotFree - (IF holds = "slot" THEN 1 ELSE 0)
        /\ subFree' = subFree
    BY <1>6 DEF DispatchRead, ReadsFrame
  <2>2. r \in JobRecord /\ Live(r) /\ r.holds = holds BY DEF NoJob, JobRecord, Live
  <2> HIDE DEF r, holds
  <2>3. /\ readFree' = readFree - One(r.holds = "permit")
        /\ slotFree' = slotFree - One(r.holds = "slot")
    BY <2>1, <2>2 DEF One
  <2>4. /\ One(r.holds = "permit") \in Nat /\ One(job[id].holds = "permit") = 0
        /\ One(r.holds = "slot") \in Nat /\ One(job[id].holds = "slot") = 0
        /\ One(Live(r) /\ Kind(id) = "subscribe") = 0
        /\ One(Live(job[id]) /\ Kind(id) = "subscribe") = 0
    BY <1>4, <2>1 DEF One
  <2>5. /\ readFree' + One(r.holds = "permit") = readFree + One(job[id].holds = "permit")
        /\ slotFree' + One(r.holds = "slot") = slotFree + One(job[id].holds = "slot")
        /\ subFree' + One(Live(r) /\ Kind(id) = "subscribe")
               = subFree + One(Live(job[id]) /\ Kind(id) = "subscribe")
        /\ readFree' \in Int /\ slotFree' \in Int /\ subFree' \in Int
    BY <1>2, <2>1, <2>3, <2>4, SMT
  <2> QED BY <1>1, <2>1, <2>2, <2>5, BalanceChanges
<1>7. CASE /\ DispatchSubscribe(id) /\ subFree' = subFree - 1
           /\ job' = [job EXCEPT ![id] = [NoJob EXCEPT !.at = "poll"]]
           /\ cancels' = cancels \cup {id}
  <2> DEFINE r == [NoJob EXCEPT !.at = "poll"]
  <2>1. Kind(id) = "subscribe" /\ UNCHANGED <<readFree, slotFree>>
    BY <1>7 DEF DispatchSubscribe, ReadsFrame
  <2>2. /\ r \in JobRecord /\ Live(r) /\ r.holds = "nothing"
        /\ job' = [job EXCEPT ![id] = r]
    BY <1>7 DEF NoJob, JobRecord, Live
  <2> HIDE DEF r
  <2>3. /\ One(r.holds = "permit") = 0 /\ One(job[id].holds = "permit") = 0
        /\ One(r.holds = "slot") = 0 /\ One(job[id].holds = "slot") = 0
        /\ One(Live(r) /\ Kind(id) = "subscribe") = 1
        /\ One(Live(job[id]) /\ Kind(id) = "subscribe") = 0
    BY <1>4, <2>1, <2>2 DEF One
  <2>4. /\ readFree' + One(r.holds = "permit") = readFree + One(job[id].holds = "permit")
        /\ slotFree' + One(r.holds = "slot") = slotFree + One(job[id].holds = "slot")
        /\ subFree' + One(Live(r) /\ Kind(id) = "subscribe")
               = subFree + One(Live(job[id]) /\ Kind(id) = "subscribe")
        /\ readFree' \in Int /\ slotFree' \in Int /\ subFree' \in Int
    BY <1>2, <1>7, <2>1, <2>3, SMT
  <2> QED BY <1>1, <1>7, <2>2, <2>4, BalanceChanges
<1> QED BY <1>5, <1>6, <1>7 DEF DispatchRead, DispatchSubscribe

LEMMA AppendsBalance ==
    ASSUME BaseInv, PermitsBalance, SubmitAppend \/ CoordinatorReplies \/ PumpSend
    PROVE  PermitsBalance'
<1>1. UNCHANGED <<script, job, readFree, slotFree, subFree, cancels>>
  BY DEF SubmitAppend, CoordinatorReplies, PumpSend, clientVars, permitVars, jobVars
<1>2. /\ submitted \in Seq(Nat) /\ replies \in Seq(Nat) /\ appendFree \in Int
      /\ reader.id \in Nat
  BY DEF BaseInv, ShapesOK, ReaderRecord
<1>3. Len(submitted) \in Nat /\ Len(replies) \in Nat BY <1>2, LenProperties
<1>4. CASE /\ submitted' = Append(submitted, reader.id) /\ appendFree' = appendFree - 1
           /\ UNCHANGED replies
  <2>1. Len(submitted') = Len(submitted) + 1 BY <1>2, <1>4, AppendFacts
  <2> QED BY <1>1, <1>2, <1>3, <1>4, <2>1, BalanceKept, SMT
<1>5. CASE UNCHANGED <<submitted, replies, appendFree>> BY <1>1, <1>5, BalanceKept
<1>6. CASE CoordinatorReplies
  <2>1. /\ submitted # <<>> /\ submitted' = Tail(submitted) /\ appendFree' = appendFree
        /\ replies' = Append(replies, Head(submitted))
    BY <1>6 DEF CoordinatorReplies, permitVars
  <2>2. Len(submitted') = Len(submitted) - 1 /\ Head(submitted) \in Nat
    BY <1>2, <2>1, TailFacts
  <2>3. Len(replies') = Len(replies) + 1 BY <1>2, <2>1, <2>2, AppendFacts
  <2> QED BY <1>1, <1>2, <1>3, <2>1, <2>2, <2>3, BalanceKept, SMT
<1>7. CASE PumpSend
  <2>1. /\ replies # <<>> /\ replies' = Tail(replies) /\ appendFree' = appendFree + 1
        /\ submitted' = submitted
    BY <1>7 DEF PumpSend
  <2>2. Len(replies') = Len(replies) - 1 BY <1>2, <2>1, TailFacts
  <2> QED BY <1>1, <1>2, <1>3, <2>1, <2>2, BalanceKept, SMT
<1> QED BY <1>4, <1>5, <1>6, <1>7 DEF SubmitAppend

LEMMA StepBalance == BaseInv /\ PermitsBalance /\ [Next]_vars => PermitsBalance'
<1> SUFFICES ASSUME BaseInv, PermitsBalance, [Next]_vars PROVE PermitsBalance'
  OBVIOUS
<1>1. ASSUME UNCHANGED <<script, job, permitVars, cancels, submitted, replies>>
      PROVE  PermitsBalance'
  BY <1>1, BalanceKept DEF permitVars
<1>2. CASE Send \/ ClientReceive \/ Disconnect \/ ServerShutdown \/ UNCHANGED vars
  BY <1>1, <1>2 DEF Send, ClientReceive, Disconnect, ServerShutdown, Shut, jobVars, vars,
                    clientVars
<1>3. CASE Reader \/ Reaper
  <2>1. CASE \E id \in Ids : HandleHello(id) \/ DispatchInline(id) \/ DispatchAppend(id)
                             \/ DispatchCancel(id) \/ ReadGarbage(id)
    BY <1>1, <2>1 DEF HandleHello, DispatchInline, DispatchAppend, DispatchCancel, ReadGarbage,
                      ReadsFrame, jobVars
  <2>2. CASE ReplySent \/ Join \/ Breaks(StreamEnds \/ GoingDown) \/ Breaks(Overdue)
    BY <1>1, <2>2 DEF ReplySent, Join, Breaks, jobVars, clientVars
  <2>3. CASE SubmitAppend \/ \E id \in Ids : DispatchRead(id) \/ DispatchSubscribe(id)
    BY <2>3, DispatchBalance, AppendsBalance
  <2> QED BY <1>3, <2>1, <2>2, <2>3 DEF Reader, Reaper
<1>4. CASE Pump \/ CoordinatorReplies
  BY <1>1, <1>4, AppendsBalance DEF Pump, PumpEnds, clientVars, jobVars
<1>5. CASE JobStarts \/ \E id \in Ids : Job(id) \/ JobFails(id) \/ JobPanics(id)
  BY <1>5, StartsBalance, JobsBalance
<1>6. CASE Writer
  <2>1. WriterUnchanged
    BY <1>6 DEF Writer, WriteControl, WriteBulk, Flush, WriterIdle, WriterWakes, WriterLeaves,
                WriterFails, WriterExits
  <2> QED BY <1>1, <2>1 DEF WriterUnchanged, jobVars
<1> QED BY <1>2, <1>3, <1>4, <1>5, <1>6 DEF Next

\* No permit is lost or given back twice, for any script, budgets, depths and pool: whatever is
\* refused, cancelled in the queue or while it waits for a permit, fails, panics, or outlives the
\* writer (Permit and its guards, spawn_read, spawn_subscribe, pump_loop, WorkerCleanup).
THEOREM PermitsAreKept == Spec => []PermitsBalance
<1>1. Init => PermitsBalance
  <2> SUFFICES ASSUME Init PROVE PermitsBalance
    OBVIOUS
  <2>1. /\ {id \in Ids : job[id].holds = "permit"} = {} /\ JobsAlive = {}
        /\ {id \in Ids : job[id].holds = "slot"} = {}
        /\ {id \in JobsAlive : Kind(id) = "subscribe"} = {}
    BY DEF Init, NoJob, JobsAlive, Ids
  <2>2. Cardinality({}) = 0 /\ Len(<<>>) = 0 BY FS_EmptySet
  <2>3. AppendBudget \in Nat /\ ReadBudget \in Nat /\ SubBudget \in Nat
    BY ServerConnAssumption
  <2> QED
    <3>1. /\ Holding("permit") = 0 /\ Holding("slot") = 0
          /\ Cardinality({id \in JobsAlive : Kind(id) = "subscribe"}) = 0
      BY <2>1, <2>2 DEF Holding
    <3>2. /\ appendFree = AppendBudget /\ readFree = ReadBudget /\ slotFree = ReadBudget
          /\ subFree = SubBudget /\ Len(submitted) = 0 /\ Len(replies) = 0 /\ cancels = {}
      BY <2>2 DEF Init
    <3> QED BY <2>1, <2>3, <3>1, <3>2 DEF PermitsBalance
<1>2. BaseInv /\ PermitsBalance /\ [Next]_vars => PermitsBalance' BY StepBalance
<1> QED BY <1>1, <1>2, AlwaysBase, PTL DEF Spec

--------------------
\* The bulk lane's turn.
LEMMA WriterFair ==
    ASSUME BaseInv, RoundsAreFair, Writer
    PROVE  RoundsAreFair'
<1>1. /\ writer \in WriterRecord /\ bulk \in Seq(AnyFrame) /\ MaxControlRun \in Nat \ {0}
      /\ writer.run \in Nat /\ writer.passed \in Nat
  BY ServerConnAssumption DEF BaseInv, ShapesOK, WriterRecord
<1>2. /\ writer.passed <= MaxControlRun + 1
      /\ writer.at # "exited" /\ bulk = <<>> => writer.passed = 0
      /\ writer.at \in {"flushed", "flushidle", "idle", "wait", "leave"} => writer.passed = 0
      /\ writer.at = "control" => writer.passed <= writer.run + 1
  BY DEF RoundsAreFair, WriterGone
<1> DEFINE Fair(w, empty) ==
               /\ w.passed <= MaxControlRun + 1
               /\ w.at # "exited" /\ empty => w.passed = 0
               /\ w.at \in {"flushed", "flushidle", "idle", "wait", "leave"} => w.passed = 0
               /\ w.at = "control" => w.passed <= w.run + 1
<1>3. Fair(writer', bulk' = <<>>) => RoundsAreFair' BY DEF RoundsAreFair, WriterGone
<1> SUFFICES Fair(writer', bulk' = <<>>)
  BY <1>3
<1>4. ASSUME NEW run \in Nat, TakeControl(run),
             bulk # <<>> => writer.passed <= run /\ writer.passed <= MaxControlRun
      PROVE  Fair(writer', bulk' = <<>>)
  <2>1. /\ writer'.at = "control" /\ writer'.run = run /\ bulk' = bulk
        /\ writer'.passed = IF bulk = <<>> THEN 0 ELSE writer.passed + 1
    BY <1>1, <1>4 DEF TakeControl, Passing, WriterRecord
  <2> QED BY <1>1, <1>4, <2>1, SMT
<1>5. ASSUME NEW a \in {"flushed", "control"}, TakeBulk(a)
      PROVE  Fair(writer', bulk' = <<>>)
  <2>1. writer'.at = a /\ writer'.run = 0 /\ writer'.passed = 0
    BY <1>1, <1>5 DEF TakeBulk, WriterRecord
  <2> QED BY <1>1, <2>1, SMT
<1>6. ASSUME NEW a \in {"control", "idle", "flushidle", "wait", "leave"}, WriterGoes(a),
             writer.passed = 0
      PROVE  Fair(writer', bulk' = <<>>)
  <2>1. writer'.at = a /\ writer'.run = 0 /\ writer'.passed = 0
    BY <1>1, <1>6 DEF WriterGoes, WriterRecord
  <2> QED BY <1>1, <2>1, SMT
<1>7. ASSUME NEW a \in {"flushbulk", "bulk", "exited"}, writer' = [writer EXCEPT !.at = a],
             bulk' = bulk \/ a = "exited", writer.at # "exited"
      PROVE  Fair(writer', bulk' = <<>>)
  <2>1. writer'.at = a /\ writer'.passed = writer.passed BY <1>1, <1>7 DEF WriterRecord
  <2> QED BY <1>1, <1>2, <1>7, <2>1
<1>8. ASSUME NEW a \in {"control", "idle"}, writer' = [writer EXCEPT !.at = a],
             writer.passed = 0
      PROVE  Fair(writer', bulk' = <<>>)
  <2>1. writer'.at = a /\ writer'.passed = 0 /\ writer'.run = writer.run
    BY <1>1, <1>8 DEF WriterRecord
  <2> QED BY <1>1, <2>1, SMT
<1> HIDE DEF Fair
<1>9. TryBulk /\ writer.at # "exited" => Fair(writer', bulk' = <<>>)
  BY <1>2, <1>5, <1>6 DEF TryBulk
<1>10. CASE WriteControl
  <2>1. CASE TakeControl(writer.run + 1) /\ ~(writer.run >= MaxControlRun /\ bulk # <<>>)
    <3>1. bulk # <<>> => writer.passed <= writer.run + 1 /\ writer.passed <= MaxControlRun
      BY <1>1, <1>2, <1>10, <2>1, SMT DEF WriteControl
    <3>2. writer.run + 1 \in Nat BY <1>1
    <3> QED BY <1>4, <2>1, <3>1, <3>2
  <2> QED BY <1>7, <1>9, <1>10, <2>1 DEF WriteControl
<1>11. CASE WriteBulk BY <1>9, <1>11 DEF WriteBulk
<1>12. CASE Flush
  <2>1. bulk' = bulk /\ writer' = [writer EXCEPT !.at = AfterFlush[writer.at]]
    BY <1>1, <1>12 DEF Flush, WriterRecord
  <2>2. \/ writer.at = "flushbulk" /\ AfterFlush[writer.at] = "bulk"
        \/ writer.at = "flushed" /\ AfterFlush[writer.at] = "control"
        \/ writer.at = "flushidle" /\ AfterFlush[writer.at] = "idle"
    BY <1>12 DEF Flush, AfterFlush
  <2> QED BY <1>2, <1>7, <1>8, <2>1, <2>2
<1>13. CASE WriterIdle
  <2>1. writer.passed = 0 BY <1>2, <1>13 DEF WriterIdle
  <2>2. bulk # <<>> => writer.passed <= 0 /\ writer.passed <= MaxControlRun
    BY <1>1, <2>1, SMT
  <2> QED BY <1>4, <1>5, <1>6, <1>13, <2>1, <2>2 DEF WriterIdle
<1>14. CASE WriterWakes
  <2>1. writer.passed = 0 BY <1>2, <1>14 DEF WriterWakes
  <2>2. bulk # <<>> => writer.passed <= 0 /\ writer.passed <= MaxControlRun
    BY <1>1, <2>1, SMT
  <2> QED BY <1>4, <1>6, <1>14, <2>1, <2>2 DEF WriterWakes
<1>15. CASE WriterLeaves \/ WriterFails
  <2>1. DOMAIN AfterFlush = {"flushbulk", "flushed", "flushidle"} BY DEF AfterFlush
  <2>2. writer.at # "exited" /\ writer' = [writer EXCEPT !.at = "exited"]
    BY <1>15, <2>1 DEF WriterLeaves, WriterFails, WriterExits
  <2> QED BY <1>7, <2>2
<1> QED BY <1>10, <1>11, <1>12, <1>13, <1>14, <1>15 DEF Writer

LEMMA StepFair == BaseInv /\ RoundsAreFair /\ [Next]_vars => RoundsAreFair'
<1> SUFFICES ASSUME BaseInv, RoundsAreFair, [Next]_vars PROVE RoundsAreFair'
  OBVIOUS
<1>1. ASSUME UNCHANGED writer, bulk = <<>> \/ bulk' # <<>> \/ bulk' = bulk PROVE RoundsAreFair'
  BY <1>1 DEF RoundsAreFair, WriterGone
<1>2. CASE Writer BY <1>2, WriterFair
<1>3. CASE Send \/ ClientReceive \/ Disconnect \/ ServerShutdown \/ UNCHANGED vars
  BY <1>1, <1>3 DEF Send, ClientReceive, Disconnect, ServerShutdown, Shut, vars, threadVars,
                    laneVars
<1>4. CASE Reader \/ Reaper \/ Pump \/ CoordinatorReplies
  BY <1>1, <1>4 DEF Reader, Reaper, Pump, PumpSend, PumpEnds, CoordinatorReplies, HandleHello,
                    DispatchInline, DispatchAppend, DispatchRead, DispatchSubscribe,
                    DispatchCancel, ReadGarbage, ReadsFrame, SubmitAppend, ReplySent, Join,
                    Breaks, threadVars, laneVars
<1>5. CASE JobStarts \/ \E id \in Ids : Job(id) \/ JobFails(id) \/ JobPanics(id)
  <2>1. UNCHANGED writer
    BY <1>5 DEF JobStarts, Job, JobFails, JobPanics, JobAcquires, JobItem, JobSends, JobEnds,
                SubPolls, SubCaughtUp, JobUnchanged, threadVars
  <2>2. bulk' = bulk \/ \E f : bulk' = Append(bulk, f)
    BY <1>5 DEF JobStarts, Job, JobFails, JobPanics, JobAcquires, JobItem, JobSends, JobEnds,
                SubPolls, SubCaughtUp, Queued
  <2>3. ASSUME NEW f PROVE Append(bulk, f) # <<>>
    <3>1. bulk \in Seq(AnyFrame) BY DEF BaseInv, ShapesOK
    <3>2. bulk \in Seq(AnyFrame \cup {f}) /\ f \in AnyFrame \cup {f} BY <3>1
    <3>3. Len(Append(bulk, f)) = Len(bulk) + 1 /\ Len(bulk) \in Nat
      BY <3>2, AppendProperties, LenProperties
    <3> QED BY <3>3
  <2> QED BY <1>1, <2>1, <2>2, <2>3
<1> QED BY <1>2, <1>3, <1>4, <1>5 DEF Next

\* A sustained control stream cannot starve the bulk lane: a waiting bulk frame is passed by at
\* most MAX_CONTROL_RUN control frames and the one that woke the writer (drive_writer), for every
\* MAX_CONTROL_RUN.
THEOREM BulkGetsItsTurn == Spec => []BulkNotStarved
<1>1. Init => RoundsAreFair
  <2> SUFFICES ASSUME Init PROVE RoundsAreFair
    OBVIOUS
  <2>1. writer = [at |-> "control", run |-> 0, passed |-> 0] /\ MaxControlRun \in Nat
    BY ServerConnAssumption DEF Init
  <2> QED BY <2>1 DEF RoundsAreFair
<1>2. BaseInv /\ RoundsAreFair /\ [Next]_vars => RoundsAreFair' BY StepFair
<1>3. RoundsAreFair => BulkNotStarved BY DEF RoundsAreFair, BulkNotStarved
<1> QED BY <1>1, <1>2, <1>3, AlwaysBase, PTL DEF Spec

--------------------
\* The frames of a request in a queue.
LEMMA FrameTypes ==
    ASSUME NEW s \in Seq(AnyFrame)
    PROVE  /\ Len(s) \in Nat /\ DOMAIN s = 1..Len(s)
           /\ \A i \in DOMAIN s : s[i] \in AnyFrame /\ s[i].n \in Nat /\ s[i].id \in Nat
<1>1. Len(s) \in Nat /\ DOMAIN s = 1..Len(s) BY LenProperties
<1>2. \A i \in DOMAIN s : s[i] \in AnyFrame BY <1>1, ElementOfSeq
<1> QED BY <1>1, <1>2 DEF AnyFrame

LEMMA CoversNone ==
    ASSUME NEW s \in Seq(AnyFrame), NEW id, NEW n \in Nat
    PROVE  Covers(s, id, n, n) <=> Of(s, id) = {}
<1>1. \A i \in DOMAIN s : s[i].n \in Nat BY FrameTypes
<1>2. ASSUME Covers(s, id, n, n) PROVE Of(s, id) = {}
  <2>1. \A i \in DOMAIN s : s[i].id # id BY <1>1, <1>2, SMT DEF Covers
  <2> QED BY <2>1 DEF Of, ToSet
<1>3. ASSUME Of(s, id) = {} PROVE Covers(s, id, n, n)
  <2>1. \A i \in DOMAIN s : s[i].id # id BY <1>3 DEF Of, ToSet
  <2>2. n <= n /\ (n + 1)..n = {} BY SMT
  <2> QED BY <2>1, <2>2 DEF Covers
<1> QED BY <1>2, <1>3

LEMMA CoversEmpty ==
    ASSUME NEW id, NEW n \in Nat
    PROVE  Covers(<<>>, id, n, n) /\ Of(<<>>, id) = {} /\ ToSet(<<>>) = {}
<1>1. Of(<<>>, id) = {} /\ ToSet(<<>>) = {} BY DEF Of, ToSet
<1>2. <<>> \in Seq(AnyFrame) OBVIOUS
<1> QED BY <1>1, <1>2, CoversNone

LEMMA OfAppend ==
    ASSUME NEW s \in Seq(AnyFrame), NEW f \in AnyFrame, NEW id
    PROVE  Of(Append(s, f), id) = IF f.id = id THEN Of(s, id) \cup {f} ELSE Of(s, id)
  BY AppendFacts DEF Of

LEMMA OfTail ==
    ASSUME NEW s \in Seq(AnyFrame), s # <<>>, NEW id
    PROVE  Of(s, id) = IF Head(s).id = id THEN {Head(s)} \cup Of(Tail(s), id) ELSE Of(Tail(s), id)
  BY TailFacts DEF Of

LEMMA CoversAppend ==
    ASSUME NEW s \in Seq(AnyFrame), NEW f \in AnyFrame, NEW id, NEW lo \in Nat, NEW hi \in Nat,
           Covers(s, id, lo, hi), f.id = id, f.n = hi + 1
    PROVE  Covers(Append(s, f), id, lo, hi + 1)
<1> DEFINE t == Append(s, f)
<1>1. /\ Len(s) \in Nat /\ DOMAIN s = 1..Len(s)
      /\ \A i \in DOMAIN s : s[i].n \in Nat
  BY FrameTypes
<1>2. /\ DOMAIN t = 1..(Len(s) + 1) /\ t[Len(s) + 1] = f
      /\ \A i \in DOMAIN s : t[i] = s[i]
  BY AppendFacts
<1> HIDE DEF t
<1>3. /\ DOMAIN s \subseteq DOMAIN t /\ Len(s) + 1 \in DOMAIN t
      /\ \A i \in DOMAIN t : i \in DOMAIN s \/ i = Len(s) + 1
      /\ \A i, j \in DOMAIN t : i < j => i \in DOMAIN s
  BY <1>1, <1>2, SMT
<1>4. lo <= hi + 1 BY SMT DEF Covers
<1>5. \A i \in DOMAIN t : t[i].id = id => lo < t[i].n /\ t[i].n <= hi + 1
  <2>1. \A i \in DOMAIN s : s[i].id = id => lo < s[i].n /\ s[i].n <= hi + 1
    BY <1>1, SMT DEF Covers
  <2>2. lo < f.n /\ f.n <= hi + 1 BY SMT DEF Covers
  <2> QED BY <1>2, <1>3, <2>1, <2>2
<1>6. \A i, j \in DOMAIN t : i < j /\ t[i].id = id /\ t[j].id = id => t[i].n < t[j].n
  <2>1. \A i \in DOMAIN s : s[i].id = id => s[i].n < f.n BY <1>1, SMT DEF Covers
  <2> QED BY <1>2, <1>3, <2>1 DEF Covers
<1>7. \A m \in (lo + 1)..(hi + 1) : \E i \in DOMAIN t : t[i].id = id /\ t[i].n = m
  <2>1. \A m \in (lo + 1)..(hi + 1) : m \in (lo + 1)..hi \/ m = hi + 1 BY SMT
  <2> QED BY <1>2, <1>3, <2>1 DEF Covers
<1> QED BY <1>4, <1>5, <1>6, <1>7 DEF Covers, t

LEMMA CoversAppendOther ==
    ASSUME NEW s \in Seq(AnyFrame), NEW f \in AnyFrame, NEW id, NEW lo \in Nat, NEW hi \in Nat,
           Covers(s, id, lo, hi), f.id # id
    PROVE  Covers(Append(s, f), id, lo, hi)
<1> DEFINE t == Append(s, f)
<1>1. /\ Len(s) \in Nat /\ DOMAIN s = 1..Len(s) BY FrameTypes
<1>2. /\ DOMAIN t = 1..(Len(s) + 1) /\ t[Len(s) + 1] = f
      /\ \A i \in DOMAIN s : t[i] = s[i]
  BY AppendFacts
<1> HIDE DEF t
<1>3. /\ DOMAIN s \subseteq DOMAIN t
      /\ \A i \in DOMAIN t : i \in DOMAIN s \/ i = Len(s) + 1
  BY <1>1, <1>2, SMT
<1>4. \A i \in DOMAIN t : t[i].id = id => i \in DOMAIN s /\ t[i] = s[i] BY <1>2, <1>3
<1> QED BY <1>2, <1>3, <1>4 DEF Covers, t

LEMMA CoversTail ==
    ASSUME NEW s \in Seq(AnyFrame), s # <<>>, NEW id, NEW lo \in Nat, NEW hi \in Nat,
           Covers(s, id, lo, hi)
    PROVE  IF Head(s).id = id
           THEN Head(s).n = lo + 1 /\ lo + 1 <= hi /\ Covers(Tail(s), id, lo + 1, hi)
           ELSE Covers(Tail(s), id, lo, hi)
<1> DEFINE t == Tail(s)
<1>1. /\ Len(s) \in Nat /\ DOMAIN s = 1..Len(s)
      /\ \A i \in DOMAIN s : s[i].n \in Nat
  BY FrameTypes
<1>2. /\ Head(s) = s[1] /\ 1 \in DOMAIN s
      /\ DOMAIN t = 1..(Len(s) - 1)
      /\ \A i \in DOMAIN t : i + 1 \in DOMAIN s /\ t[i] = s[i + 1]
      /\ \A i \in DOMAIN s : i = 1 \/ (i - 1 \in DOMAIN t /\ t[i - 1] = s[i])
  BY TailFacts
<1> HIDE DEF t
<1>3. /\ \A i \in DOMAIN t : 1 < i + 1
      /\ \A i, j \in DOMAIN t : i < j => i + 1 < j + 1
      /\ \A i \in DOMAIN s : i = 1 \/ 1 < i
  BY <1>1, <1>2, SMT
<1>4. \A i, j \in DOMAIN t : i < j /\ t[i].id = id /\ t[j].id = id => t[i].n < t[j].n
  BY <1>2, <1>3 DEF Covers
<1>5. CASE s[1].id = id
  <2>1. lo < s[1].n /\ s[1].n <= hi BY <1>2, <1>5 DEF Covers
  <2>2. lo + 1 \in (lo + 1)..hi /\ lo + 1 <= hi BY <1>1, <1>2, <2>1, SMT
  <2>3. PICK k \in DOMAIN s : s[k].id = id /\ s[k].n = lo + 1 BY <2>2 DEF Covers
  <2>4. k = 1
    <3>1. SUFFICES ASSUME 1 < k PROVE FALSE BY <1>3
    <3>2. s[1].n < s[k].n BY <1>2, <1>5, <2>3, <3>1 DEF Covers
    <3> QED BY <1>1, <1>2, <2>1, <2>3, <3>2, SMT
  <2>5. s[1].n = lo + 1 BY <2>3, <2>4
  <2>6. \A i \in DOMAIN t : t[i].id = id => lo + 1 < t[i].n /\ t[i].n <= hi
    BY <1>2, <1>3, <1>5, <2>5 DEF Covers
  <2>7. \A m \in (lo + 2)..hi : \E i \in DOMAIN t : t[i].id = id /\ t[i].n = m
    <3>1. ASSUME NEW m \in (lo + 2)..hi PROVE \E i \in DOMAIN t : t[i].id = id /\ t[i].n = m
      <4>1. m \in (lo + 1)..hi /\ m # lo + 1 BY SMT
      <4>2. PICK i \in DOMAIN s : s[i].id = id /\ s[i].n = m BY <4>1 DEF Covers
      <4>3. i # 1 BY <2>5, <4>1, <4>2
      <4> QED BY <1>2, <4>2, <4>3
    <3> QED BY <3>1
  <2>8. (lo + 1) + 1 = lo + 2 BY SMT
  <2> QED BY <1>2, <1>4, <1>5, <2>2, <2>5, <2>6, <2>7, <2>8 DEF Covers, t
<1>6. CASE s[1].id # id
  <2>1. \A i \in DOMAIN t : t[i].id = id => lo < t[i].n /\ t[i].n <= hi BY <1>2 DEF Covers
  <2>2. \A m \in (lo + 1)..hi : \E i \in DOMAIN t : t[i].id = id /\ t[i].n = m
    <3>1. ASSUME NEW m \in (lo + 1)..hi PROVE \E i \in DOMAIN t : t[i].id = id /\ t[i].n = m
      <4>1. PICK i \in DOMAIN s : s[i].id = id /\ s[i].n = m BY DEF Covers
      <4>2. i # 1 BY <1>6, <4>1
      <4> QED BY <1>2, <4>1, <4>2
    <3> QED BY <3>1
  <2> QED BY <1>2, <1>4, <1>6, <2>1, <2>2 DEF Covers, t
<1> QED BY <1>5, <1>6

LEMMA CoversConcat ==
    ASSUME NEW s \in Seq(AnyFrame), NEW t \in Seq(AnyFrame), NEW id,
           NEW lo \in Nat, NEW mid \in Nat, NEW hi \in Nat,
           Covers(s, id, lo, mid), Covers(t, id, mid, hi)
    PROVE  Covers(s \o t, id, lo, hi) /\ Of(s \o t, id) = Of(s, id) \cup Of(t, id)
<1> DEFINE c == s \o t
           k == Len(s)
           l == Len(t)
<1>1. /\ k \in Nat /\ DOMAIN s = 1..k /\ l \in Nat /\ DOMAIN t = 1..l
      /\ \A i \in DOMAIN s : s[i].n \in Nat
      /\ \A i \in DOMAIN t : t[i].n \in Nat
  BY FrameTypes
<1>2. /\ Len(c) = k + l /\ c \in Seq(AnyFrame)
      /\ \A i \in 1..(k + l) : c[i] = IF i <= k THEN s[i] ELSE t[i - k]
  BY ConcatProperties
<1>3. DOMAIN c = 1..(k + l) BY <1>2, LenProperties
<1> HIDE DEF c, k, l
<1>4. /\ \A i \in DOMAIN s : i \in DOMAIN c /\ i <= k
      /\ \A i \in DOMAIN t : k + i \in DOMAIN c /\ ~ (k + i <= k) /\ (k + i) - k = i
      /\ \A i \in DOMAIN c : i <= k => i \in DOMAIN s
      /\ \A i \in DOMAIN c : ~ (i <= k) => i - k \in DOMAIN t
      /\ \A i, j \in DOMAIN c : i < j /\ j <= k => i <= k
      /\ \A i, j \in DOMAIN c : i < j /\ ~ (i <= k) => ~ (j <= k) /\ i - k < j - k
  BY <1>1, <1>3, SMT
<1>5. /\ \A i \in DOMAIN s : c[i] = s[i]
      /\ \A i \in DOMAIN t : c[k + i] = t[i]
      /\ \A i \in DOMAIN c : i <= k => c[i] = s[i]
      /\ \A i \in DOMAIN c : ~ (i <= k) => c[i] = t[i - k]
  <2>1. \A i \in DOMAIN c : c[i] = IF i <= k THEN s[i] ELSE t[i - k] BY <1>2, <1>3
  <2>2. \A i \in DOMAIN t : c[k + i] = t[(k + i) - k] BY <1>4, <2>1
  <2> QED BY <1>4, <2>1, <2>2
<1>6. lo <= mid /\ mid <= hi /\ lo <= hi BY SMT DEF Covers
<1>7. \A i \in DOMAIN c : c[i].id = id => lo < c[i].n /\ c[i].n <= hi
  <2>1. \A i \in DOMAIN s : s[i].id = id => lo < s[i].n /\ s[i].n <= hi
    BY <1>1, <1>6, SMT DEF Covers
  <2>2. \A i \in DOMAIN t : t[i].id = id => lo < t[i].n /\ t[i].n <= hi
    BY <1>1, <1>6, SMT DEF Covers
  <2> QED BY <1>4, <1>5, <2>1, <2>2
<1>8. \A i, j \in DOMAIN c : i < j /\ c[i].id = id /\ c[j].id = id => c[i].n < c[j].n
  <2>1. ASSUME NEW i \in DOMAIN s, NEW j \in DOMAIN t, s[i].id = id, t[j].id = id
        PROVE  s[i].n < t[j].n
    <3>1. s[i].n <= mid /\ mid < t[j].n BY <2>1 DEF Covers
    <3> QED BY <1>1, <3>1, SMT
  <2> SUFFICES ASSUME NEW i \in DOMAIN c, NEW j \in DOMAIN c,
                      i < j, c[i].id = id, c[j].id = id
               PROVE  c[i].n < c[j].n
    OBVIOUS
  <2>2. CASE j <= k BY <1>4, <1>5, <2>2 DEF Covers
  <2>3. CASE i <= k /\ ~ (j <= k) BY <1>4, <1>5, <2>1, <2>3
  <2>4. CASE ~ (i <= k) BY <1>4, <1>5, <2>4 DEF Covers
  <2> QED BY <2>2, <2>3, <2>4
<1>9. \A m \in (lo + 1)..hi : \E i \in DOMAIN c : c[i].id = id /\ c[i].n = m
  <2>1. \A m \in (lo + 1)..hi : m \in (lo + 1)..mid \/ m \in (mid + 1)..hi BY SMT
  <2>2. \A m \in (lo + 1)..mid : \E i \in DOMAIN c : c[i].id = id /\ c[i].n = m
    BY <1>4, <1>5 DEF Covers
  <2>3. \A m \in (mid + 1)..hi : \E i \in DOMAIN c : c[i].id = id /\ c[i].n = m
    BY <1>4, <1>5 DEF Covers
  <2> QED BY <2>1, <2>2, <2>3
<1>10. Of(c, id) = Of(s, id) \cup Of(t, id)
  <2>1. ToSet(c) \subseteq ToSet(s) \cup ToSet(t) BY <1>4, <1>5 DEF ToSet
  <2>2. ToSet(s) \cup ToSet(t) \subseteq ToSet(c) BY <1>4, <1>5 DEF ToSet
  <2> QED BY <2>1, <2>2 DEF Of
<1> QED BY <1>6, <1>7, <1>8, <1>9, <1>10 DEF Covers, c

--------------------
\* What each kind of step does to the numbering of a request's frames.
LEMMA GotTypes ==
    ASSUME BaseInv, NEW id \in Ids
    PROVE  /\ got[id] \in Seq(AnyFrame) /\ Len(got[id]) \in Nat
           /\ wire \in Seq(AnyFrame) /\ buf \in Seq(AnyFrame)
           /\ control \in Seq(AnyFrame) /\ bulk \in Seq(AnyFrame)
           /\ Lane(id) \in Seq(AnyFrame) /\ Other(id) \in Seq(AnyFrame)
<1>1. /\ got[id] \in Seq(AnyFrame)
      /\ wire \in Seq(AnyFrame) /\ buf \in Seq(AnyFrame)
      /\ control \in Seq(AnyFrame) /\ bulk \in Seq(AnyFrame)
  BY DEF BaseInv, ShapesOK
<1>2. Len(got[id]) \in Nat BY <1>1, LenProperties
<1> QED BY <1>1, <1>2 DEF Lane, Other

\* The job of the request is where it was, as far as its frames can tell.
SameJob(id) ==
    /\ script' = script
    /\ Unstarted(id)' <=> Unstarted(id)
    /\ id \in JobsAlive' => id \in JobsAlive /\ job'[id].sent = job[id].sent
    /\ Unanswered(id)' => Unanswered(id)

LEMMA NumberedKept ==
    ASSUME NEW id, NEW a, NEW b, NEW e, Numbered(id, a, b, e), SameJob(id),
           UNCHANGED <<got, wire, buf, control, bulk, socket>>
    PROVE  Numbered(id, a, b, e)'
<1>1. Made(id)' = Made(id) BY DEF Made, Of
<1>2. Lane(id)' = Lane(id) /\ Other(id)' = Other(id) BY DEF Lane, Other, SameJob
<1> QED BY <1>1, <1>2 DEF Numbered, SameJob, Covers, Of

LEMMA NumberedClosed ==
    ASSUME BaseInv, NEW id \in Ids, NEW a \in Nat, NEW b \in Nat, NEW e \in Nat,
           Numbered(id, a, b, e), socket' = "shut", UNCHANGED got, wire' = wire \/ wire' = <<>>
    PROVE  \E a2, b2, e2 \in Nat : Numbered(id, a2, b2, e2)'
<1> DEFINE g == Len(got[id])
<1>1. g \in Nat /\ g <= a /\ a <= b /\ b <= e BY GotTypes DEF Numbered, Covers
<1>2. Of(wire', id) \subseteq Of(wire, id) BY CoversEmpty DEF Of
<1>3. Made(id)' \subseteq Made(id) /\ socket' # "open" BY <1>2 DEF Made, Of
<1>4. Ends(Made(id), e)' /\ \A i \in DOMAIN got[id]' : got[id]'[i].n = i
  BY <1>3 DEF Numbered, Ends
<1>5. CASE wire' = wire
  <2>1. Covers(wire, id, Len(got[id]), a)' BY <1>5 DEF Numbered, Covers
  <2> QED BY <1>1, <1>3, <1>4, <2>1 DEF Numbered
<1>6. CASE wire' = <<>>
  <2>1. Covers(wire', id, g, g) /\ g <= e BY <1>1, <1>6, CoversEmpty, SMT
  <2>2. Numbered(id, g, g, e)' BY <1>1, <1>3, <1>4, <2>1 DEF Numbered, Covers
  <2> QED BY <1>1, <2>2
<1> QED BY <1>5, <1>6

\* The client receives the head of the wire.
LEMMA NumberedReceive ==
    ASSUME BaseInv, NEW id \in Ids, NEW a \in Nat, NEW b \in Nat, NEW e \in Nat,
           Numbered(id, a, b, e), SameJob(id), ClientReceive
    PROVE  Numbered(id, a, b, e)'
<1>1. /\ wire # <<>> /\ wire' = Tail(wire) /\ UNCHANGED <<buf, control, bulk, socket>>
      /\ got' = IF Head(wire).id \in Ids
                THEN [got EXCEPT ![Head(wire).id] = Append(@, Head(wire))] ELSE got
  BY DEF ClientReceive
<1> DEFINE f == Head(wire)
           g == Len(got[id])
<1>2. /\ got[id] \in Seq(AnyFrame) /\ g \in Nat /\ wire \in Seq(AnyFrame)
      /\ DOMAIN got = Ids /\ DOMAIN got[id] = 1..g
  BY GotTypes, LenProperties DEF BaseInv, ShapesOK
<1>3. f \in AnyFrame /\ Tail(wire) \in Seq(AnyFrame) BY <1>1, <1>2, TailFacts
<1>4. /\ Covers(wire, id, g, a) /\ \A i \in DOMAIN got[id] : got[id][i].n = i
  BY DEF Numbered
<1>5. Of(wire, id) = IF f.id = id THEN {f} \cup Of(Tail(wire), id) ELSE Of(Tail(wire), id)
  BY <1>1, <1>2, OfTail
<1>6. IF f.id = id THEN f.n = g + 1 /\ Covers(Tail(wire), id, g + 1, a)
      ELSE Covers(Tail(wire), id, g, a)
  BY <1>1, <1>2, <1>4, CoversTail
<1>7. /\ Covers(wire', id, Len(got'[id]), a)
      /\ \A i \in DOMAIN got'[id] : got'[id][i].n = i
      /\ ToSet(got'[id]) \cup Of(wire', id) \subseteq ToSet(got[id]) \cup Of(wire, id)
  <2>1. CASE f.id = id
    <3>1. got'[id] = Append(got[id], f) BY <1>1, <1>2, <2>1
    <3>2. /\ Len(got'[id]) = g + 1 /\ DOMAIN got'[id] = 1..(g + 1)
          /\ \A i \in DOMAIN got[id] : got'[id][i] = got[id][i]
          /\ got'[id][g + 1] = f
          /\ ToSet(got'[id]) = ToSet(got[id]) \cup {f}
      BY <1>2, <1>3, <3>1, AppendFacts
    <3> HIDE DEF f
    <3>3. \A i \in 1..(g + 1) : i \in 1..g \/ i = g + 1 BY <1>2, SMT
    <3>4. \A i \in DOMAIN got'[id] : got'[id][i].n = i
      BY <1>2, <1>4, <1>6, <2>1, <3>2, <3>3
    <3>5. ToSet(got'[id]) \cup Of(wire', id) \subseteq ToSet(got[id]) \cup Of(wire, id)
      BY <1>1, <1>5, <2>1, <3>2 DEF Of
    <3> QED BY <1>1, <1>6, <2>1, <3>2, <3>4, <3>5
  <2>2. CASE f.id # id
    <3>1. got'[id] = got[id] BY <1>1, <1>2, <2>2
    <3>2. Of(wire', id) = Of(wire, id) BY <1>1, <1>5, <2>2 DEF Of
    <3> QED BY <1>1, <1>4, <1>6, <2>2, <3>1, <3>2
  <2> QED BY <2>1, <2>2
<1> HIDE DEF f, g
<1>8. Made(id)' \subseteq Made(id) BY <1>1, <1>7 DEF Made, Of
<1>9. Lane(id)' = Lane(id) /\ Other(id)' = Other(id) BY <1>1 DEF Lane, Other, SameJob
<1>10. Ends(Made(id), e)' BY <1>8 DEF Numbered, Ends
<1>11. (socket = "open" =>
        /\ Covers(buf, id, a, b) /\ Covers(Lane(id), id, b, e) /\ Of(Other(id), id) = {}
        /\ Unanswered(id) => e = 0
        /\ id \in JobsAlive => /\ e = job[id].sent
                               /\ \A f2 \in Made(id) : f2.kind \notin Terminal)'
  BY <1>1, <1>8, <1>9 DEF Numbered, SameJob, Covers, Of
<1>12. Covers(wire, id, Len(got[id]), a)' /\ (\A i \in DOMAIN got[id] : got[id][i].n = i)'
  BY <1>7 DEF Covers
<1> QED BY <1>10, <1>11, <1>12 DEF Numbered

\* A frame of another request is queued.
LEMMA NumberedPassed ==
    ASSUME BaseInv, NEW id \in Ids, NEW a \in Nat, NEW b \in Nat, NEW e \in Nat,
           Numbered(id, a, b, e), SameJob(id), UNCHANGED <<got, wire, buf, socket>>,
           NEW f \in AnyFrame, f.id # id,
           \/ control' = Append(control, f) /\ bulk' = bulk
           \/ bulk' = Append(bulk, f) /\ control' = control
    PROVE  Numbered(id, a, b, e)'
<1>1. /\ control \in Seq(AnyFrame) /\ bulk \in Seq(AnyFrame)
      /\ Lane(id) \in Seq(AnyFrame) /\ Other(id) \in Seq(AnyFrame)
  BY GotTypes
<1>2. Of(control', id) = Of(control, id) /\ Of(bulk', id) = Of(bulk, id)
  <2>1. Of(Append(control, f), id) = Of(control, id) /\ Of(Append(bulk, f), id) = Of(bulk, id)
    BY <1>1, OfAppend
  <2> QED BY <2>1
<1>3. Made(id)' = Made(id) BY <1>2 DEF Made, Of
<1>4. /\ Lane(id)' = Lane(id) \/ Lane(id)' = Append(Lane(id), f)
      /\ Of(Other(id), id)' = Of(Other(id), id)
  BY <1>2 DEF Lane, Other, SameJob, Of
<1>5. ASSUME socket = "open" PROVE Covers(Lane(id), id, b, e)'
  <2>1. Covers(Lane(id), id, b, e) BY <1>5 DEF Numbered
  <2>2. Covers(Append(Lane(id), f), id, b, e) BY <1>1, <2>1, CoversAppendOther
  <2> QED BY <1>4, <2>1, <2>2 DEF Covers
<1> QED BY <1>3, <1>4, <1>5, SMTT(20) DEF Numbered, SameJob, Covers, Of

\* A frame of the request itself is queued, on its lane.
LEMMA NumberedMade ==
    ASSUME BaseInv, NEW id \in Ids, NEW a \in Nat, NEW b \in Nat, NEW e \in Nat,
           Numbered(id, a, b, e), socket = "open", UNCHANGED <<script, got, wire, buf, socket>>,
           NEW f \in AnyFrame, f.id = id, f.n = e + 1,
           \/ control' = Append(control, f) /\ bulk' = bulk /\ Unstarted(id)
           \/ bulk' = Append(bulk, f) /\ control' = control /\ ~ Unstarted(id),
           Unstarted(id)' <=> Unstarted(id), ~ Unanswered(id)',
           id \in JobsAlive' => job'[id].sent = e + 1 /\ f.kind \notin Terminal,
           \A h \in Made(id) : h.kind \notin Terminal
    PROVE  Numbered(id, a, b, e + 1)'
<1>1. /\ control \in Seq(AnyFrame) /\ bulk \in Seq(AnyFrame)
      /\ Lane(id) \in Seq(AnyFrame) /\ Other(id) \in Seq(AnyFrame)
  BY GotTypes
<1>2. /\ Lane(id)' = Append(Lane(id), f) /\ Other(id)' = Other(id) BY DEF Lane, Other
<1>3. Covers(Append(Lane(id), f), id, b, e + 1) BY <1>1, CoversAppend DEF Numbered
<1>4. Of(control', id) \cup Of(bulk', id) = Of(control, id) \cup Of(bulk, id) \cup {f}
  <2>1. /\ Of(Append(control, f), id) = Of(control, id) \cup {f}
        /\ Of(Append(bulk, f), id) = Of(bulk, id) \cup {f}
    BY <1>1, OfAppend
  <2> QED BY <2>1
<1>5. Made(id)' = Made(id) \cup {f} BY <1>4 DEF Made, Of
<1>6. Ends(Made(id)', e + 1) BY <1>5 DEF Ends
<1>7. b <= e + 1 BY SMT DEF Numbered
<1>8. /\ Covers(Lane(id), id, b, e + 1)' /\ Of(Other(id), id)' = {}
      /\ Covers(wire, id, Len(got[id]), a)' /\ Covers(buf, id, a, b)'
  <2>1. Covers(Lane(id)', id, b, e + 1) BY <1>2, <1>3
  <2>2. Of(Other(id)', id) = {} BY <1>2 DEF Numbered
  <2>3. Covers(wire', id, Len(got'[id]), a) /\ Covers(buf', id, a, b) BY DEF Numbered
  <2> QED BY <2>1, <2>2, <2>3
<1>9. a <= b /\ (\A i \in DOMAIN got[id] : got[id][i].n = i)' BY DEF Numbered
<1>10. id \in JobsAlive' => /\ e + 1 = job'[id].sent
                           /\ \A h \in Made(id)' : h.kind \notin Terminal
  BY <1>5
<1> QED BY <1>6, <1>7, <1>8, <1>9, <1>10 DEF Numbered, Ends

\* The writer moves the head of a lane to its buffer, or flushes it.
LEMMA NumberedTaken ==
    ASSUME BaseInv, NEW id \in Ids, NEW a \in Nat, NEW b \in Nat, NEW e \in Nat,
           Numbered(id, a, b, e), socket = "open", SameJob(id), UNCHANGED <<got, wire, socket>>,
           \/ /\ control # <<>> /\ control' = Tail(control) /\ bulk' = bulk
              /\ buf' = Append(buf, Head(control))
           \/ /\ bulk # <<>> /\ bulk' = Tail(bulk) /\ control' = control
              /\ buf' = Append(buf, Head(bulk))
    PROVE  \E b2 \in Nat : Numbered(id, a, b2, e)'
<1>1. /\ control \in Seq(AnyFrame) /\ bulk \in Seq(AnyFrame) /\ buf \in Seq(AnyFrame)
      /\ Lane(id) \in Seq(AnyFrame) /\ Other(id) \in Seq(AnyFrame)
  BY GotTypes
<1>2. /\ Covers(buf, id, a, b) /\ Covers(Lane(id), id, b, e) /\ Of(Other(id), id) = {}
      /\ a <= b /\ b <= e
  BY DEF Numbered
<1>3. \/ /\ Lane(id) # <<>> /\ Lane(id)' = Tail(Lane(id)) /\ Other(id)' = Other(id)
         /\ buf' = Append(buf, Head(Lane(id)))
      \/ /\ Other(id) # <<>> /\ Other(id)' = Tail(Other(id)) /\ Lane(id)' = Lane(id)
         /\ buf' = Append(buf, Head(Other(id)))
  BY DEF Lane, Other, SameJob
<1> DEFINE Rest == /\ Of(buf, id)' \cup Of(Lane(id), id)' \cup Of(Other(id), id)'
                          = Of(buf, id) \cup Of(Lane(id), id) \cup Of(Other(id), id)
                   /\ Of(Other(id), id)' = {}
<1>4. ASSUME Rest, NEW b2 \in Nat, a <= b2, b2 <= e, Covers(buf', id, a, b2),
             Covers(Lane(id)', id, b2, e)
      PROVE  \E b3 \in Nat : Numbered(id, a, b3, e)'
  <2>1. Of(control, id) \cup Of(bulk, id) = Of(Lane(id), id) \cup Of(Other(id), id)
    BY DEF Lane, Other
  <2>2. Of(control', id) \cup Of(bulk', id) = Of(Lane(id)', id) \cup Of(Other(id)', id)
    BY DEF Lane, Other
  <2>3. Made(id)' = Made(id) BY <1>4, <2>1, <2>2 DEF Made, Of
  <2>4. Covers(buf, id, a, b2)' /\ Covers(Lane(id), id, b2, e)' BY <1>4
  <2>5. Covers(wire, id, Len(got[id]), a)' /\ (\A i \in DOMAIN got[id] : got[id][i].n = i)'
    BY DEF Numbered
  <2>6. Numbered(id, a, b2, e)' BY <1>4, <2>3, <2>4, <2>5 DEF Numbered, SameJob, Ends
  <2> QED BY <2>6
<1>5. CASE /\ Lane(id) # <<>> /\ Lane(id)' = Tail(Lane(id)) /\ Other(id)' = Other(id)
           /\ buf' = Append(buf, Head(Lane(id)))
  <2> DEFINE f == Head(Lane(id))
             t == Tail(Lane(id))
  <2>1. f \in AnyFrame /\ t \in Seq(AnyFrame) BY <1>1, <1>5, TailFacts
  <2>2. Of(Lane(id), id) = IF f.id = id THEN {f} \cup Of(t, id) ELSE Of(t, id)
    BY <1>1, <1>5, OfTail
  <2>3. Of(Append(buf, f), id) = IF f.id = id THEN Of(buf, id) \cup {f} ELSE Of(buf, id)
    BY <1>1, <2>1, OfAppend
  <2>4. IF f.id = id THEN f.n = b + 1 /\ b + 1 <= e /\ Covers(t, id, b + 1, e)
        ELSE Covers(t, id, b, e)
    BY <1>1, <1>2, <1>5, CoversTail
  <2>5. f.id = id => Covers(Append(buf, f), id, a, b + 1)
    BY <1>1, <1>2, <2>1, <2>4, CoversAppend
  <2>6. f.id # id => Covers(Append(buf, f), id, a, b)
    BY <1>1, <1>2, <2>1, CoversAppendOther
  <2>7. buf' = Append(buf, f) /\ Lane(id)' = t BY <1>5
  <2> HIDE DEF f, t
  <2>8. Rest
    <3>1. Of(buf', id) \cup Of(Lane(id)', id) = Of(buf, id) \cup Of(Lane(id), id)
      BY <2>2, <2>3, <2>7
    <3>2. Of(Other(id)', id) = Of(Other(id), id) BY <1>5
    <3> QED BY <1>2, <3>1, <3>2 DEF Of
  <2> HIDE DEF Rest
  <2>9. CASE f.id = id
    <3>1. b + 1 \in Nat /\ a <= b + 1 /\ b + 1 <= e BY <1>2, <2>4, <2>9, SMT
    <3> QED BY <1>4, <2>4, <2>5, <2>7, <2>8, <2>9, <3>1
  <2>10. CASE f.id # id BY <1>2, <1>4, <2>4, <2>6, <2>7, <2>8, <2>10
  <2> QED BY <2>9, <2>10
<1>6. CASE /\ Other(id) # <<>> /\ Other(id)' = Tail(Other(id)) /\ Lane(id)' = Lane(id)
           /\ buf' = Append(buf, Head(Other(id)))
  <2> DEFINE f == Head(Other(id))
             t == Tail(Other(id))
  <2>1. f \in AnyFrame BY <1>1, <1>6, TailFacts
  <2>2. Of(Other(id), id) = IF f.id = id THEN {f} \cup Of(t, id) ELSE Of(t, id)
    BY <1>1, <1>6, OfTail
  <2>3. f.id # id /\ Of(t, id) = {} BY <1>2, <2>2
  <2>4. Of(Append(buf, f), id) = Of(buf, id) /\ Covers(Append(buf, f), id, a, b)
    BY <1>1, <1>2, <2>1, <2>3, OfAppend, CoversAppendOther
  <2>5. buf' = Append(buf, f) /\ Other(id)' = t BY <1>6
  <2> HIDE DEF f, t
  <2>6. Rest
    <3>1. Of(buf', id) = Of(buf, id) /\ Of(Lane(id)', id) = Of(Lane(id), id)
          /\ Of(Other(id)', id) = {}
      BY <1>6, <2>3, <2>4, <2>5
    <3> QED BY <1>2, <3>1 DEF Of
  <2> HIDE DEF Rest
  <2> QED BY <1>2, <1>4, <1>6, <2>4, <2>5, <2>6
<1> QED BY <1>3, <1>5, <1>6

LEMMA NumberedFlushed ==
    ASSUME BaseInv, NEW id \in Ids, NEW a \in Nat, NEW b \in Nat, NEW e \in Nat,
           Numbered(id, a, b, e), socket = "open", SameJob(id),
           UNCHANGED <<got, socket, control, bulk>>, wire' = wire \o buf, buf' = <<>>
    PROVE  Numbered(id, b, b, e)'
<1>1. wire \in Seq(AnyFrame) /\ buf \in Seq(AnyFrame) /\ Len(got[id]) \in Nat BY GotTypes
<1>2. Covers(wire, id, Len(got[id]), a) /\ Covers(buf, id, a, b) /\ b <= e BY DEF Numbered
<1>3. Covers(wire', id, Len(got[id]), b) /\ Of(wire', id) = Of(wire, id) \cup Of(buf, id)
  <2> DEFINE g == Len(got[id])
  <2>1. g \in Nat /\ Covers(wire, id, g, a) BY <1>1, <1>2
  <2> HIDE DEF g
  <2>2. Covers(wire \o buf, id, g, b) /\ Of(wire \o buf, id) = Of(wire, id) \cup Of(buf, id)
    BY <1>1, <1>2, <2>1, CoversConcat
  <2> QED BY <2>2 DEF g
<1>4. Covers(buf', id, b, b) /\ Of(buf', id) = {} BY CoversEmpty
<1>5. Made(id)' = Made(id)
  <2>1. Of(control', id) = Of(control, id) /\ Of(bulk', id) = Of(bulk, id) OBVIOUS
  <2> QED BY <1>3, <1>4, <2>1 DEF Made, Of
<1>6. Lane(id)' = Lane(id) /\ Other(id)' = Other(id) BY DEF Lane, Other, SameJob
<1>7. /\ Covers(wire, id, Len(got[id]), b)' /\ Covers(buf, id, b, b)'
      /\ Covers(Lane(id), id, b, e)' /\ Of(Other(id), id)' = {}
  <2>1. Covers(Lane(id)', id, b, e) /\ Of(Other(id)', id) = {} BY <1>6 DEF Numbered
  <2>2. Covers(wire', id, Len(got'[id]), b) BY <1>3
  <2> QED BY <1>4, <2>1, <2>2
<1>8. b <= b BY SMT
<1>9. (\A i \in DOMAIN got[id] : got[id][i].n = i)' BY DEF Numbered
<1> QED BY <1>2, <1>5, <1>7, <1>8, <1>9 DEF Numbered, SameJob, Ends

\* A request that is not answered yet has no frames anywhere.
LEMMA NothingMade ==
    ASSUME BaseInv, NEW id \in Ids, NEW a \in Nat, NEW b \in Nat, NEW e \in Nat,
           Numbered(id, a, b, e), socket = "open", Unanswered(id)
    PROVE  a = 0 /\ b = 0 /\ e = 0 /\ Made(id) = {} /\ Of(control, id) = {} /\ Of(bulk, id) = {}
<1>1. /\ control \in Seq(AnyFrame) /\ bulk \in Seq(AnyFrame) /\ buf \in Seq(AnyFrame)
      /\ wire \in Seq(AnyFrame) /\ Lane(id) \in Seq(AnyFrame) /\ Other(id) \in Seq(AnyFrame)
      /\ got[id] \in Seq(AnyFrame) /\ Len(got[id]) \in Nat
  BY GotTypes
<1>2. /\ Covers(wire, id, Len(got[id]), a) /\ Covers(buf, id, a, b)
      /\ Covers(Lane(id), id, b, e) /\ Of(Other(id), id) = {}
      /\ a <= b /\ b <= e /\ e = 0
  BY DEF Numbered
<1>3. Len(got[id]) <= a BY <1>2 DEF Covers
<1>4. a = 0 /\ b = 0 /\ Len(got[id]) = 0 BY <1>1, <1>2, <1>3, SMT
<1>5. Of(wire, id) = {} /\ Of(buf, id) = {} /\ Of(Lane(id), id) = {}
  BY <1>1, <1>2, <1>4, CoversNone
<1>6. got[id] = <<>> BY <1>1, <1>4, EmptySeq
<1>7. ToSet(got[id]) = {} BY <1>6, CoversEmpty
<1>8. Of(control, id) = {} /\ Of(bulk, id) = {} BY <1>2, <1>5 DEF Lane, Other
<1> QED BY <1>2, <1>4, <1>5, <1>7, <1>8 DEF Made

LEMMA NumberedStarted ==
    ASSUME BaseInv, NEW id \in Ids, NEW a \in Nat, NEW b \in Nat, NEW e \in Nat,
           Numbered(id, a, b, e), Unanswered(id), ~ Unanswered(id)',
           UNCHANGED <<script, got, wire, buf, control, bulk, socket>>, job'[id].sent = 0
    PROVE  Numbered(id, a, b, e)'
<1>1. control \in Seq(AnyFrame) /\ bulk \in Seq(AnyFrame) /\ buf \in Seq(AnyFrame)
  BY GotTypes
<1>2. Made(id)' = Made(id) BY DEF Made, Of
<1>3. CASE socket # "open" BY <1>2, <1>3 DEF Numbered, Ends, Covers
<1>4. CASE socket = "open"
  <2>1. /\ a = 0 /\ b = 0 /\ e = 0 /\ Made(id) = {}
        /\ Of(control, id) = {} /\ Of(bulk, id) = {}
    BY <1>4, NothingMade
  <2>2. Covers(control, id, 0, 0) /\ Covers(bulk, id, 0, 0) BY <1>1, <2>1, CoversNone
  <2>3. Covers(Lane(id)', id, b, e) /\ Of(Other(id)', id) = {}
    BY <2>1, <2>2 DEF Lane, Other
  <2>4. Covers(Lane(id), id, b, e)' /\ Of(Other(id), id)' = {} BY <2>3
  <2>5. /\ a <= b /\ b <= e
        /\ (\A i \in DOMAIN got[id] : got[id][i].n = i)'
        /\ Covers(wire, id, Len(got[id]), a)' /\ Covers(buf, id, a, b)'
    BY <1>4 DEF Numbered
  <2> QED BY <1>2, <2>1, <2>4, <2>5 DEF Numbered, Ends
<1> QED BY <1>3, <1>4

--------------------
\* A request once answered stays so, and the writer does not come back.
Pending == Arriving \cup Appending

LEMMA ReaderTakes ==
    ASSUME BaseInv, Reader \/ Reaper
    PROVE  UNCHANGED sent /\ Pending' \subseteq Pending
<1>1. /\ inbox \in Seq(Nat) /\ submitted \in Seq(Nat) /\ reader \in ReaderRecord
  BY DEF BaseInv, ShapesOK
<1>2. ASSUME NEW id, Polling, inbox # <<>>, id = Head(inbox), inbox' = Tail(inbox),
             InHand' \subseteq {id}, UNCHANGED <<sent, submitted, replies>>
      PROVE  UNCHANGED sent /\ Pending' \subseteq Pending
  <2>1. ToSet(inbox) = {id} \cup ToSet(inbox') BY <1>1, <1>2, TailFacts
  <2> QED BY <1>2, <2>1 DEF Pending, Arriving, Appending
<1>3. ASSUME NEW f, reader'.at = "reply", reader'.reply = <<f>> PROVE InHand' = {f.id}
  BY <1>3 DEF InHand
<1>4. CASE \E id \in Ids : HandleHello(id) \/ DispatchInline(id) \/ DispatchAppend(id)
  <2> SUFFICES ASSUME NEW id \in Ids,
                      HandleHello(id) \/ DispatchInline(id) \/ DispatchAppend(id)
               PROVE  UNCHANGED sent /\ Pending' \subseteq Pending
    BY <1>4
  <2>1. /\ Polling /\ inbox # <<>> /\ id = Head(inbox) /\ inbox' = Tail(inbox)
        /\ UNCHANGED <<sent, submitted, replies>>
    BY DEF HandleHello, DispatchInline, DispatchAppend, ReadsFrame
  <2>2. \/ reader'.at = "acquire" /\ reader'.id = id
        \/ \E kind : reader'.at = "reply" /\ reader'.reply = <<Frame(id, kind, 1)>>
    BY <1>1 DEF HandleHello, DispatchInline, DispatchAppend, ReplyWith, ReaderRecord
  <2>3. InHand' \subseteq {id}
    <3>1. \A kind : Frame(id, kind, 1).id = id BY DEF Frame
    <3>2. CASE \E kind : reader'.at = "reply" /\ reader'.reply = <<Frame(id, kind, 1)>>
      BY <1>3, <3>1, <3>2
    <3>3. CASE reader'.at # "reply" BY <2>2, <3>3 DEF InHand
    <3> QED BY <2>2, <3>2, <3>3
  <2> QED BY <1>2, <2>1, <2>3
<1>5. CASE \E id \in Ids : DispatchRead(id) \/ DispatchSubscribe(id) \/ DispatchCancel(id)
                           \/ ReadGarbage(id)
  <2> SUFFICES ASSUME NEW id \in Ids, DispatchRead(id) \/ DispatchSubscribe(id)
                                      \/ DispatchCancel(id) \/ ReadGarbage(id)
               PROVE  UNCHANGED sent /\ Pending' \subseteq Pending
    BY <1>5
  <2>1. /\ Polling /\ inbox # <<>> /\ id = Head(inbox) /\ inbox' = Tail(inbox)
        /\ UNCHANGED <<sent, submitted, replies>>
    BY DEF DispatchRead, DispatchSubscribe, DispatchCancel, ReadGarbage, ReadsFrame
  <2>2. \/ reader'.at \in {"poll", "join"}
        \/ \E kind : reader'.at = "reply" /\ reader'.reply = <<Frame(id, kind, 1)>>
    BY <1>1 DEF DispatchRead, DispatchSubscribe, DispatchCancel, ReadGarbage, ReadsFrame,
                ReplyWith, Polling, LeaveLoop, ReaderRecord
  <2>3. InHand' \subseteq {id}
    <3>1. \A kind : Frame(id, kind, 1).id = id BY DEF Frame
    <3>2. CASE \E kind : reader'.at = "reply" /\ reader'.reply = <<Frame(id, kind, 1)>>
      BY <1>3, <3>1, <3>2
    <3>3. CASE reader'.at # "reply" BY <2>2, <3>3 DEF InHand
    <3> QED BY <2>2, <3>2, <3>3
  <2> QED BY <1>2, <2>1, <2>3
<1>6. CASE SubmitAppend
  <2>1. reader.at = "acquire" /\ UNCHANGED <<sent, inbox, replies>> /\ reader.id \in Nat
    BY <1>1, <1>6 DEF SubmitAppend, clientVars, ReaderRecord
  <2>2. InHand = {reader.id} BY <2>1 DEF InHand
  <2>3. CASE submitted' = Append(submitted, reader.id) /\ reader' = [reader EXCEPT !.at = "poll"]
    <3>1. ToSet(submitted') = ToSet(submitted) \cup {reader.id}
      <4>1. submitted \in Seq(Nat) /\ reader.id \in Nat BY <1>1, <2>1
      <4> QED BY <2>3, <4>1, AppendFacts
    <3>2. InHand' = {} BY <1>1, <2>3 DEF InHand, ReaderRecord
    <3> QED BY <2>1, <2>2, <3>1, <3>2 DEF Pending, Arriving, Appending
  <2>4. CASE ReplyWith(Frame(reader.id, "error", 1), FALSE) /\ UNCHANGED submitted
    <3>1. reader'.at = "reply" /\ reader'.reply = <<Frame(reader.id, "error", 1)>>
      BY <1>1, <2>4 DEF ReplyWith, ReaderRecord
    <3>2. InHand' = {reader.id} BY <1>3, <3>1 DEF Frame
    <3> QED BY <2>1, <2>2, <2>4, <3>2 DEF Pending, Arriving, Appending
  <2> QED BY <1>6, <2>3, <2>4 DEF SubmitAppend
<1>7. CASE ReplySent \/ Join \/ Breaks(StreamEnds \/ GoingDown) \/ Breaks(Overdue)
  <2>1. UNCHANGED <<sent, inbox, submitted, replies>>
    BY <1>7 DEF ReplySent, Join, Breaks, clientVars
  <2>2. reader'.at \in {"poll", "join", "done"}
    BY <1>1, <1>7 DEF ReplySent, Join, Breaks, LeaveLoop, ReaderRecord
  <2>3. InHand' = {} BY <2>2 DEF InHand
  <2> QED BY <2>1, <2>3 DEF Pending, Arriving, Appending
<1> QED BY <1>4, <1>5, <1>6, <1>7 DEF Reader, Reaper

LEMMA StaysAnswered ==
    ASSUME BaseInv, [Next]_vars, NEW id \in Ids, Unanswered(id)'
    PROVE  Unanswered(id)
<1>1. /\ inbox \in Seq(Nat) /\ submitted \in Seq(Nat) /\ replies \in Seq(Nat)
      /\ sent \in Nat /\ id \in Nat
  BY IdsFacts DEF BaseInv, ShapesOK
<1>2. ASSUME UNCHANGED sent, Pending' \subseteq Pending PROVE Unanswered(id)
  BY <1>2 DEF Unanswered, Waiting, Pending
<1>3. ASSUME UNCHANGED <<sent, reader, submitted, replies>>, ToSet(inbox') \subseteq ToSet(inbox)
      PROVE  Unanswered(id)
  <2>1. InHand' = InHand BY <1>3 DEF InHand
  <2> QED BY <1>2, <1>3, <2>1 DEF Pending, Arriving, Appending
<1>4. ASSUME \E k \in 0..Len(inbox) : inbox' = SubSeq(inbox, 1, k)
      PROVE  ToSet(inbox') \subseteq ToSet(inbox)
  BY <1>1, <1>4, PrefixFacts
<1>5. CASE Send
  <2>1. /\ sent' = sent + 1 /\ inbox' = Append(inbox, sent + 1)
        /\ UNCHANGED <<reader, submitted, replies>>
    BY <1>5 DEF Send, threadVars
  <2>2. ToSet(inbox') = ToSet(inbox) \cup {sent + 1}
    <3>1. sent + 1 \in Nat /\ inbox \in Seq(Nat) BY <1>1
    <3> QED BY <2>1, <3>1, AppendFacts
  <2>3. InHand' = InHand BY <2>1 DEF InHand
  <2>4. id > sent' => id > sent BY <1>1, <2>1, SMT
  <2>5. sent + 1 > sent BY <1>1, SMT
  <2> QED BY <2>1, <2>2, <2>3, <2>4, <2>5 DEF Unanswered, Waiting, Arriving, Appending
<1>6. CASE ClientReceive \/ PumpEnds \/ UNCHANGED vars \/ WriteControl \/ WriteBulk \/ Flush
           \/ WriterIdle \/ WriterWakes
  <2>1. UNCHANGED <<sent, inbox, reader, submitted, replies>>
    BY <1>6 DEF ClientReceive, PumpEnds, vars, WriteControl, WriteBulk, Flush, WriterIdle,
                WriterWakes, WriterUnchanged, threadVars, clientVars
  <2> QED BY <1>3, <2>1
<1>7. CASE Disconnect \/ ServerShutdown \/ WriterLeaves \/ WriterFails
  <2>1. /\ UNCHANGED <<sent, reader, submitted, replies>>
        /\ \E k \in 0..Len(inbox) : inbox' = SubSeq(inbox, 1, k)
    BY <1>7 DEF Disconnect, ServerShutdown, Shut, WriterLeaves, WriterFails, WriterExits,
                WriterUnchanged, threadVars
  <2> QED BY <1>3, <1>4, <2>1
<1>8. CASE Reader \/ Reaper BY <1>2, <1>8, ReaderTakes
<1>9. CASE PumpSend \/ CoordinatorReplies
  <2>1. UNCHANGED <<sent, inbox, reader>>
    BY <1>9 DEF PumpSend, CoordinatorReplies, clientVars, threadVars
  <2>2. Arriving' = Arriving BY <2>1 DEF Arriving, InHand
  <2>3. Appending' \subseteq Appending
    <3>1. CASE PumpSend
      <4>1. replies # <<>> /\ replies' = Tail(replies) /\ submitted' = submitted
        BY <3>1 DEF PumpSend
      <4> QED BY <1>1, <4>1, TailFacts DEF Appending
    <3>2. CASE CoordinatorReplies
      <4>1. /\ submitted # <<>> /\ submitted' = Tail(submitted)
            /\ replies' = Append(replies, Head(submitted))
        BY <3>2 DEF CoordinatorReplies
      <4>2. Head(submitted) \in Nat /\ ToSet(submitted) = {Head(submitted)} \cup ToSet(submitted')
        BY <1>1, <4>1, TailFacts
      <4>3. ToSet(replies') = ToSet(replies) \cup {Head(submitted)}
        BY <1>1, <4>1, <4>2, AppendFacts
      <4> QED BY <4>2, <4>3 DEF Appending
    <3> QED BY <1>9, <3>1, <3>2
  <2> QED BY <1>2, <2>1, <2>2, <2>3 DEF Pending
<1>10. CASE JobStarts \/ \E k \in Ids : Job(k) \/ JobFails(k) \/ JobPanics(k)
  <2>1. JobUnchanged
    BY <1>10 DEF JobStarts, Job, JobFails, JobPanics, JobAcquires, JobItem, JobSends, JobEnds,
                 SubPolls, SubCaughtUp
  <2>2. UNCHANGED <<sent, inbox, reader, submitted, replies>>
    BY <2>1 DEF JobUnchanged, clientVars, threadVars
  <2> QED BY <1>3, <2>2
<1> QED BY <1>5, <1>6, <1>7, <1>8, <1>9, <1>10 DEF Next, Pump, Writer

LEMMA StepExit == BaseInv /\ ExitIsFinal /\ [Next]_vars => ExitIsFinal'
<1> SUFFICES ASSUME BaseInv, ExitIsFinal, [Next]_vars PROVE ExitIsFinal'
  OBVIOUS
<1>1. writer \in WriterRecord BY DEF BaseInv, ShapesOK
<1>2. ASSUME UNCHANGED writer, socket' = socket \/ socket' = "shut" PROVE ExitIsFinal'
  BY <1>2 DEF ExitIsFinal, WriterGone
<1>3. CASE Writer
  <2>1. CASE WriterLeaves \/ WriterFails
    BY <2>1 DEF WriterLeaves, WriterFails, WriterExits, ExitIsFinal
  <2>2. CASE WriteControl \/ WriteBulk \/ WriterIdle \/ WriterWakes
    <3>1. \/ \E n : TakeControl(n)
          \/ \E a \in {"flushed", "control"} : TakeBulk(a)
          \/ \E a \in {"control", "idle", "flushidle", "wait", "leave"} : WriterGoes(a)
          \/ writer' = [writer EXCEPT !.at = "flushbulk"]
      BY <2>2 DEF WriteControl, WriteBulk, WriterIdle, WriterWakes, TryBulk
    <3>2. writer'.at # "exited"
      BY <1>1, <3>1 DEF TakeControl, TakeBulk, WriterGoes, WriterRecord
    <3> QED BY <3>2 DEF ExitIsFinal, WriterGone
  <2>3. CASE Flush
    <3>1. AfterFlush[writer.at] \in {"bulk", "control", "idle"}
      BY <2>3 DEF Flush, AfterFlush
    <3>2. writer'.at # "exited" BY <1>1, <2>3, <3>1 DEF Flush, WriterRecord
    <3> QED BY <3>2 DEF ExitIsFinal, WriterGone
  <2> QED BY <1>3, <2>1, <2>2, <2>3 DEF Writer
<1>4. CASE Send \/ ClientReceive \/ Disconnect \/ ServerShutdown \/ UNCHANGED vars
  BY <1>2, <1>4 DEF Send, ClientReceive, Disconnect, ServerShutdown, Shut, vars, threadVars,
                    clientVars
<1>5. CASE Reader \/ Reaper \/ Pump \/ CoordinatorReplies
  BY <1>2, <1>5 DEF Reader, Reaper, Pump, PumpSend, PumpEnds, CoordinatorReplies, HandleHello,
                    DispatchInline, DispatchAppend, DispatchRead, DispatchSubscribe,
                    DispatchCancel, ReadGarbage, ReadsFrame, SubmitAppend, ReplySent, Join,
                    Breaks, threadVars, clientVars
<1>6. CASE JobStarts \/ \E id \in Ids : Job(id) \/ JobFails(id) \/ JobPanics(id)
  <2>1. JobUnchanged
    BY <1>6 DEF JobStarts, Job, JobFails, JobPanics, JobAcquires, JobItem, JobSends, JobEnds,
                SubPolls, SubCaughtUp
  <2> QED BY <1>2, <2>1 DEF JobUnchanged, threadVars, clientVars
<1> QED BY <1>3, <1>4, <1>5, <1>6 DEF Next

\* What a step of a job does to its lane, while the socket is open.
LEMMA JobFrames ==
    ASSUME BaseInv, NEW k \in Ids, ~ WriterGone, Job(k) \/ JobFails(k) \/ JobPanics(k)
    PROVE  /\ JobUnchanged /\ Live(job[k]) /\ job'[k].at # "none"
           /\ \A i \in Ids : i # k => job'[i] = job[i]
           /\ \/ bulk' = bulk /\ (Live(job'[k]) => job'[k].sent = job[k].sent)
              \/ \E f \in AnyFrame :
                    /\ bulk' = Append(bulk, f) /\ f.id = k /\ f.n = job[k].sent + 1
                    /\ Live(job'[k]) => job'[k].sent = job[k].sent + 1 /\ f.kind \notin Terminal
<1>1. /\ JobUnchanged /\ Live(job[k])
  BY DEF Live, Job, JobFails, JobPanics, JobAcquires, JobItem, JobSends, JobEnds, SubPolls,
         SubCaughtUp
<1>2. job \in [Ids -> JobRecord] /\ job[k] \in JobRecord /\ job[k].sent \in Nat /\ k \in Nat
  <2>1. job \in [Ids -> JobRecord] /\ k \in Nat BY IdsFacts DEF BaseInv, ShapesOK
  <2> QED BY <2>1 DEF JobRecord
<1> DEFINE Same == bulk' = bulk /\ (Live(job'[k]) => job'[k].sent = job[k].sent)
           Sent == \E f \in AnyFrame :
                  /\ bulk' = Append(bulk, f) /\ f.id = k /\ f.n = job[k].sent + 1
                  /\ Live(job'[k]) => job'[k].sent = job[k].sent + 1 /\ f.kind \notin Terminal
           Others == job'[k].at # "none" /\ \A i \in Ids : i # k => job'[i] = job[i]
<1>3. EndJob(k) => Others /\ ~ Live(job'[k]) BY <1>2 DEF EndJob, Live, JobRecord
<1>4. \A n \in Nat : /\ Frame(k, "events", n) \in AnyFrame /\ Frame(k, "caughtup", n) \in AnyFrame
                     /\ Frame(k, "end", n) \in AnyFrame /\ Frame(k, "error", n) \in AnyFrame
  BY <1>2, FrameFacts DEF Terminal
<1>5. \A kind, n : /\ Frame(k, kind, n).id = k /\ Frame(k, kind, n).n = n
                   /\ Frame(k, kind, n).kind = kind
  BY DEF Frame
<1>6. "events" \notin Terminal /\ "caughtup" \notin Terminal /\ job[k].sent + 1 \in Nat
  BY <1>2 DEF Terminal
<1>7. ASSUME NEW a, a # "none", job' = [job EXCEPT ![k].at = a]
      PROVE  Others /\ job'[k].sent = job[k].sent
  BY <1>2, <1>7 DEF JobRecord
<1>8. ASSUME NEW a, NEW told, a # "none",
             job' = [job EXCEPT ![k].sent = @ + 1, ![k].told = told, ![k].at = a]
      PROVE  Others /\ job'[k].sent = job[k].sent + 1
  BY <1>2, <1>8 DEF JobRecord
<1> HIDE DEF Others
<1>9. Others /\ (Same \/ Sent)
  <2>1. CASE JobAcquires(k)
    <3>1. CASE job' = [job EXCEPT ![k].at = "item", ![k].holds = "permit"]
      BY <1>2, <2>1, <3>1 DEF JobAcquires, JobRecord, Others
    <3> QED BY <1>3, <2>1, <3>1 DEF JobAcquires
  <2>2. CASE JobItem(k) BY <1>3, <1>7, <2>2 DEF JobItem
  <2>3. CASE SubPolls(k) BY <1>3, <1>7, <2>3 DEF SubPolls
  <2>4. CASE JobFails(k) BY <1>7, <2>4 DEF JobFails
  <2>5. CASE JobPanics(k) BY <1>2, <2>5 DEF JobPanics, Live, NoJob, Others
  <2>6. CASE JobSends(k)
    <3> DEFINE f == Frame(k, "events", job[k].sent + 1)
               a == IF Kind(k) = "subscribe" THEN "poll" ELSE "item"
    <3>1. /\ bulk' = Append(bulk, f)
          /\ job' = [job EXCEPT ![k].sent = @ + 1, ![k].told = FALSE, ![k].at = a]
      BY <2>6 DEF JobSends, Queued
    <3>2. f \in AnyFrame /\ f.id = k /\ f.n = job[k].sent + 1 /\ f.kind = "events"
      BY <1>4, <1>5, <1>6
    <3>3. a # "none" OBVIOUS
    <3> HIDE DEF f, a
    <3> QED BY <1>6, <1>8, <3>1, <3>2, <3>3
  <2>7. CASE SubCaughtUp(k)
    <3> DEFINE f == Frame(k, "caughtup", job[k].sent + 1)
    <3>1. /\ bulk' = Append(bulk, f)
          /\ job' = [job EXCEPT ![k].sent = @ + 1, ![k].told = TRUE, ![k].at = "poll"]
      BY <2>7 DEF SubCaughtUp, Queued
    <3>2. f \in AnyFrame /\ f.id = k /\ f.n = job[k].sent + 1 /\ f.kind = "caughtup"
      BY <1>4, <1>5, <1>6
    <3> HIDE DEF f
    <3> QED BY <1>6, <1>8, <3>1, <3>2
  <2>8. CASE JobEnds(k)
    <3> DEFINE f == Frame(k, job[k].at, job[k].sent + 1)
    <3>1. bulk' = Append(bulk, f) /\ EndJob(k) /\ job[k].at \in {"end", "error"}
      BY <2>8 DEF JobEnds, Queued
    <3>2. f \in AnyFrame /\ f.id = k /\ f.n = job[k].sent + 1 BY <1>4, <1>5, <1>6, <3>1
    <3> HIDE DEF f
    <3> QED BY <1>3, <3>1, <3>2
  <2> QED BY <2>1, <2>2, <2>3, <2>4, <2>5, <2>6, <2>7, <2>8 DEF Job
<1> QED BY <1>1, <1>9 DEF Others

LEMMA SameScript == [Next]_vars => script' = script
<1> SUFFICES ASSUME [Next]_vars PROVE script' = script
  OBVIOUS
<1>1. CASE Send \/ ClientReceive \/ Disconnect \/ ServerShutdown \/ UNCHANGED vars
  BY <1>1 DEF Send, ClientReceive, Disconnect, ServerShutdown, Shut, vars, clientVars
<1>2. CASE Reader \/ Reaper \/ Pump \/ CoordinatorReplies
  BY <1>2 DEF Reader, Reaper, Pump, PumpSend, PumpEnds, CoordinatorReplies, HandleHello,
              DispatchInline, DispatchAppend, DispatchRead, DispatchSubscribe,
              DispatchCancel, ReadGarbage, ReadsFrame, SubmitAppend, ReplySent, Join,
              Breaks, clientVars
<1>3. CASE JobStarts \/ \E id \in Ids : Job(id) \/ JobFails(id) \/ JobPanics(id)
  BY <1>3 DEF JobStarts, Job, JobFails, JobPanics, JobAcquires, JobItem, JobSends, JobEnds,
              SubPolls, SubCaughtUp, JobUnchanged, clientVars
<1>4. CASE Writer
  BY <1>4 DEF Writer, WriteControl, WriteBulk, Flush, WriterIdle, WriterWakes, WriterLeaves,
              WriterFails, WriterExits, WriterUnchanged
<1> QED BY <1>1, <1>2, <1>3, <1>4 DEF Next

LEMMA StepNumbered ==
    BaseInv /\ BaseInv' /\ ExitIsFinal /\ FramesNumbered /\ [Next]_vars => FramesNumbered'
<1> SUFFICES ASSUME BaseInv, BaseInv', ExitIsFinal, FramesNumbered, [Next]_vars
             PROVE  FramesNumbered'
  OBVIOUS
<1> SUFFICES ASSUME NEW id \in Ids
             PROVE  \E a2, b2, e2 \in Nat : Numbered(id, a2, b2, e2)'
  BY SameScript DEF FramesNumbered, Ids
<1>1. PICK a \in Nat, b \in Nat, e \in Nat : Numbered(id, a, b, e) BY DEF FramesNumbered
<1>2. Unanswered(id)' => Unanswered(id) BY StaysAnswered
<1>3. ASSUME UNCHANGED <<script, job>> PROVE SameJob(id)
  BY <1>2, <1>3 DEF SameJob, Unstarted, JobsAlive, Ids
<1>4. ASSUME socket' = "shut", UNCHANGED <<got, wire>>
      PROVE  \E a2, b2, e2 \in Nat : Numbered(id, a2, b2, e2)'
  BY <1>1, <1>4, NumberedClosed
<1>5. ASSUME SameJob(id), UNCHANGED <<got, wire, buf, control, bulk, socket>>
      PROVE  \E a2, b2, e2 \in Nat : Numbered(id, a2, b2, e2)'
  BY <1>1, <1>5, NumberedKept
<1>6. socket \in {"open", "shut"} /\ (socket = "open" => ~ WriterGone)
  BY DEF BaseInv, ShapesOK, ExitIsFinal
<1>7. CASE Send \/ UNCHANGED vars \/ PumpEnds \/ CoordinatorReplies
  BY <1>3, <1>5, <1>7 DEF Send, vars, PumpEnds, CoordinatorReplies, clientVars, laneVars, jobVars
<1>8. CASE ClientReceive BY <1>1, <1>3, <1>8, NumberedReceive DEF ClientReceive, jobVars
<1>9. CASE Disconnect \/ ServerShutdown
  BY <1>1, <1>9, NumberedClosed DEF Disconnect, ServerShutdown, Shut
<1>10. ASSUME NEW f \in AnyFrame, f.id # id, Queued(control, f) = control',
              UNCHANGED <<script, job, got, wire, buf, bulk, socket>>
       PROVE  \E a2, b2, e2 \in Nat : Numbered(id, a2, b2, e2)'
  BY <1>1, <1>3, <1>5, <1>10, NumberedPassed DEF Queued
<1>11. ASSUME NEW f \in AnyFrame, f.id = id, f.n = 1, Unanswered(id), ~ Unanswered(id)',
              Unstarted(id), Queued(control, f) = control',
              UNCHANGED <<script, job, got, wire, buf, bulk, socket>>
       PROVE  \E a2, b2, e2 \in Nat : Numbered(id, a2, b2, e2)'
  <2>1. CASE socket = "open"
    <3>1. control' = Append(control, f) BY <1>6, <1>11, <2>1 DEF Queued
    <3>2. e = 0 /\ Made(id) = {} /\ e + 1 = 1 BY <1>1, <1>11, <2>1, NothingMade
    <3>3. Unstarted(id)' /\ id \notin JobsAlive' BY <1>11 DEF Unstarted, JobsAlive
    <3>4. Numbered(id, a, b, e + 1)' BY <1>1, <1>11, <2>1, <3>1, <3>2, <3>3, NumberedMade
    <3> QED BY <1>1, <3>2, <3>4
  <2> QED BY <1>4, <1>6, <1>11, <2>1
<1>12. CASE PumpSend
  <2> DEFINE k == Head(replies)
             f == Frame(Head(replies), "appended", 1)
  <2>1. /\ replies # <<>> /\ replies' = Tail(replies) /\ control' = Queued(control, f)
        /\ UNCHANGED <<script, sent, inbox, reader, submitted, job, got, wire, buf, bulk, socket>>
    BY <1>12 DEF PumpSend, clientVars, jobVars
  <2>2. replies \in Seq(Nat) /\ id \in Nat
    <3>1. id \in Nat BY IdsFacts DEF BaseInv
    <3> QED BY <3>1 DEF BaseInv, ShapesOK
  <2>3. k \in Nat /\ ToSet(replies) = {k} \cup ToSet(replies') BY <2>1, <2>2, TailFacts
  <2>4. Before({k}, ToSet(replies')) BY <2>1, <2>2, TailAscends DEF BaseInv, InOrder
  <2>5. f \in AnyFrame /\ f.id = k /\ f.n = 1
    <3>1. "appended" \in Terminal \cup {"events", "caughtup"} BY DEF Terminal
    <3> QED BY <2>3, <3>1, FrameFacts DEF Frame
  <2> HIDE DEF k, f
  <2>6. CASE k = id
    <3>1. Before(ToSet(replies), ToSet(submitted)) /\ Before(Appending, Arriving)
      BY DEF BaseInv, InOrder
    <3>2. id \in Appending /\ id \in 1..sent /\ Kind(id) = "append"
      BY <2>3, <2>6 DEF BaseInv, InOrder, Appending
    <3>3. id \notin ToSet(replies') /\ id \notin ToSet(submitted) /\ id \notin Arriving
      BY <2>2, <2>3, <2>4, <2>6, <3>1, <3>2 DEF Before
    <3>4. Unanswered(id) /\ Unstarted(id)
      BY <3>2 DEF Unanswered, Unstarted, BaseInv, JobsFit, JobFits, Fits
    <3>5. Arriving' = Arriving BY <2>1 DEF Arriving, InHand
    <3>6. ~ (id > sent) BY <3>2, SMT DEF BaseInv, ShapesOK
    <3>7. ~ Unanswered(id)' BY <2>1, <3>3, <3>5, <3>6 DEF Unanswered, Waiting, Appending
    <3> QED BY <1>11, <2>1, <2>5, <2>6, <3>4, <3>7
  <2>7. CASE k # id BY <1>10, <2>1, <2>5, <2>7
  <2> QED BY <2>6, <2>7
<1>13. CASE ReplySent
  <2> DEFINE f == Head(reader.reply)
  <2>1. /\ reader.at = "reply" /\ control' = Queued(control, f)
        /\ UNCHANGED <<script, sent, inbox, submitted, replies, job, got, wire, buf, bulk, socket>>
    BY <1>13 DEF ReplySent, clientVars, jobVars
  <2>2. reader \in ReaderRecord /\ id \in Nat /\ sent \in Nat
    <3>1. id \in Nat BY IdsFacts DEF BaseInv
    <3> QED BY <3>1 DEF BaseInv, ShapesOK
  <2>3. reader.reply \in Seq(AnyFrame) /\ reader.reply # <<>>
    BY <2>1, <2>2 DEF BaseInv, InOrder, ReaderRecord
  <2>4. f \in AnyFrame /\ f = reader.reply[1] /\ f.n = 1
    BY <2>1, <2>3, TailFacts DEF BaseInv, InOrder
  <2> HIDE DEF f
  <2>5. CASE f.id = id
    <3>1. InHand = {id} BY <2>1, <2>4, <2>5 DEF InHand
    <3>2. InHand' = {}
      <4>1. reader'.at \in {"poll", "join"}
        BY <1>13, <2>2 DEF ReplySent, LeaveLoop, ReaderRecord
      <4> QED BY <4>1 DEF InHand
    <3>3. id \in Arriving /\ id \in 1..sent /\ id \notin ToSet(inbox) /\ id \notin Appending
      BY <2>2, <3>1 DEF BaseInv, InOrder, Arriving, Before
    <3>4. Unanswered(id) /\ Unstarted(id)
      BY <3>3 DEF Unanswered, Unstarted, Waiting, BaseInv, JobsFit, JobFits, NoJob
    <3>5. ~ (id > sent) BY <2>2, <3>3, SMT
    <3>6. ~ Unanswered(id)'
      BY <2>1, <3>2, <3>3, <3>5 DEF Unanswered, Waiting, Appending, Arriving
    <3> QED BY <1>11, <2>1, <2>4, <2>5, <3>4, <3>6
  <2>6. CASE f.id # id BY <1>10, <2>1, <2>4, <2>6
  <2> QED BY <2>5, <2>6
<1>14. CASE \E k \in Ids : ReadGarbage(k)
  <2> DEFINE f == Frame(0, "error", 1)
  <2>1. id \in Nat /\ id # 0 BY IdsFacts, SMT DEF BaseInv
  <2>2. f \in AnyFrame /\ f.id = 0 BY FrameFacts DEF Frame, Terminal
  <2>3. /\ control' = control \/ (~ WriterGone /\ control' = Append(control, f))
        /\ UNCHANGED <<script, job, got, wire, buf, bulk, socket>>
    BY <1>14 DEF ReadGarbage, jobVars
  <2> HIDE DEF f
  <2> QED BY <1>3, <1>5, <1>10, <2>1, <2>2, <2>3 DEF Queued
<1>15. CASE \/ SubmitAppend \/ Join \/ Breaks(StreamEnds \/ GoingDown) \/ Breaks(Overdue)
            \/ \E k \in Ids : \/ HandleHello(k) \/ DispatchInline(k) \/ DispatchAppend(k)
                              \/ DispatchCancel(k)
  BY <1>3, <1>5, <1>15 DEF SubmitAppend, Join, Breaks, HandleHello, DispatchInline,
      DispatchAppend, DispatchCancel, ReadsFrame, clientVars, laneVars, jobVars
<1>16. CASE \E k \in Ids : DispatchRead(k) \/ DispatchSubscribe(k)
  <2>1. PICK k \in Ids : DispatchRead(k) \/ DispatchSubscribe(k) BY <1>16
  <2>2. /\ inbox # <<>> /\ k = Head(inbox) /\ Kind(k) \in {"read", "subscribe"}
        /\ UNCHANGED <<script, submitted, replies, got, wire, buf, control, bulk, socket>>
    BY <2>1 DEF DispatchRead, DispatchSubscribe, ReadsFrame, laneVars
  <2>3. CASE UNCHANGED job BY <1>3, <1>5, <2>2, <2>3
  <2>4. CASE \E r \in JobRecord : /\ job' = [job EXCEPT ![k] = r]
                                 /\ r.at \in {"queued", "poll"} /\ r.sent = 0
    <3>1. PICK r \in JobRecord : /\ job' = [job EXCEPT ![k] = r]
                                /\ r.at \in {"queued", "poll"} /\ r.sent = 0
      BY <2>4
    <3>2. job \in [Ids -> JobRecord] /\ inbox \in Seq(Nat) /\ Ids' = Ids
      BY <2>2 DEF BaseInv, ShapesOK, Ids
    <3>3. CASE k # id
      <4>1. job'[id] = job[id] BY <3>1, <3>2, <3>3
      <4>2. SameJob(id) BY <1>2, <2>2, <3>2, <4>1 DEF SameJob, Unstarted, JobsAlive
      <4> QED BY <1>5, <2>2, <4>2
    <3>4. CASE k = id
      <4>1. job'[id] = r BY <3>1, <3>2, <3>4
      <4>2. id \in Arriving BY <2>2, <3>2, <3>4, TailFacts DEF Arriving
      <4>3. Unanswered(id) BY <4>2 DEF Unanswered, Waiting
      <4>4. ~ Waiting(id)' BY <3>1, <3>2, <4>1 DEF BaseInv, JobsFit, JobFits, NoJob
      <4>5. id \notin Appending' BY <2>2, <3>4 DEF BaseInv, InOrder, Appending
      <4> QED BY <1>1, <2>2, <3>1, <4>1, <4>3, <4>4, <4>5, NumberedStarted DEF Unanswered
    <3> QED BY <3>3, <3>4
  <2>5. \/ UNCHANGED job
        \/ \E r \in JobRecord : /\ job' = [job EXCEPT ![k] = r]
                               /\ r.at \in {"queued", "poll"} /\ r.sent = 0
    <3>1. CASE DispatchRead(k)
      <4> DEFINE holds == IF readFree > 0 THEN "permit" ELSE "slot"
                 r == [NoJob EXCEPT !.at = "queued", !.holds = holds]
      <4>1. UNCHANGED job \/ job' = [job EXCEPT ![k] = r]
        BY <3>1 DEF DispatchRead, jobVars
      <4>2. r \in JobRecord /\ r.at = "queued" /\ r.sent = 0 BY DEF NoJob, JobRecord
      <4> HIDE DEF r
      <4> QED BY <4>1, <4>2
    <3>2. CASE DispatchSubscribe(k)
      <4> DEFINE r == [NoJob EXCEPT !.at = "poll"]
      <4>1. UNCHANGED job \/ job' = [job EXCEPT ![k] = r]
        BY <3>2 DEF DispatchSubscribe, jobVars
      <4>2. r \in JobRecord /\ r.at = "poll" /\ r.sent = 0 BY DEF NoJob, JobRecord
      <4> HIDE DEF r
      <4> QED BY <4>1, <4>2
    <3> QED BY <2>1, <3>1, <3>2
  <2> QED BY <2>3, <2>4, <2>5
<1>17. CASE JobStarts
  <2>1. /\ queue # <<>> /\ UNCHANGED <<script, got, wire, buf, control, bulk, socket>>
    BY <1>17 DEF JobStarts, JobUnchanged, clientVars
  <2>2. job \in [Ids -> JobRecord] /\ queue \in Seq(Nat) /\ Ids' = Ids
    BY <2>1 DEF BaseInv, ShapesOK, Ids
  <2>3. PICK k \in Ids : k = Head(queue) /\ job[k].at = "queued"
    BY <2>1, <2>2, TailFacts DEF BaseInv, JobsFit
  <2>5. /\ \A i \in Ids : i # k => job'[i] = job[i]
        /\ job'[k].at # "none" /\ job'[k].sent = job[k].sent
    <3>1. CASE EndJob(k) BY <2>2, <3>1 DEF EndJob, JobRecord
    <3>2. CASE k \notin cancelled
      <4> DEFINE at == IF job[k].holds = "permit" THEN "item" ELSE "acquire"
      <4>1. job' = [job EXCEPT ![k].at = at] BY <1>17, <2>3, <3>2 DEF JobStarts
      <4> QED BY <2>2, <4>1 DEF JobRecord
    <3> QED BY <1>17, <2>3, <3>1, <3>2 DEF JobStarts
  <2>6. SameJob(id) BY <1>2, <2>1, <2>2, <2>3, <2>5 DEF SameJob, Unstarted, JobsAlive
  <2> QED BY <1>5, <2>1, <2>6
<1>18. CASE \E k \in Ids : Job(k) \/ JobFails(k) \/ JobPanics(k)
  <2>1. PICK k \in Ids : Job(k) \/ JobFails(k) \/ JobPanics(k) BY <1>18
  <2>2. JobUnchanged
    BY <2>1 DEF Job, JobFails, JobPanics, JobAcquires, JobItem, JobSends, JobEnds, SubPolls,
                SubCaughtUp
  <2>3. UNCHANGED <<script, sent, inbox, got, wire, buf, control, socket, reader, submitted,
                    replies>>
    BY <2>2 DEF JobUnchanged, clientVars, threadVars
  <2>4. CASE socket = "open"
    <3>1. /\ Live(job[k]) /\ job'[k].at # "none"
          /\ \A i \in Ids : i # k => job'[i] = job[i]
          /\ \/ bulk' = bulk /\ (Live(job'[k]) => job'[k].sent = job[k].sent)
             \/ \E f \in AnyFrame :
                  /\ bulk' = Append(bulk, f) /\ f.id = k /\ f.n = job[k].sent + 1
                  /\ Live(job'[k]) => job'[k].sent = job[k].sent + 1 /\ f.kind \notin Terminal
      BY <1>6, <2>1, <2>4, JobFrames
    <3>2. Ids' = Ids BY <2>3 DEF Ids
    <3>3. CASE k # id
      <4>1. SameJob(id) BY <1>2, <2>3, <3>1, <3>2, <3>3 DEF SameJob, Unstarted, JobsAlive
      <4> QED BY <1>1, <1>5, <2>3, <3>1, <3>3, <4>1, NumberedPassed
    <3>4. CASE k = id
      <4>1. ~ Unstarted(id) /\ ~ Unstarted(id)' /\ id \in JobsAlive
        BY <3>1, <3>4 DEF Unstarted, Live, JobsAlive
      <4>2. id \in JobsAlive' <=> Live(job'[id]) BY <3>2 DEF JobsAlive, Live
      <4>3. ~ Unanswered(id)
        BY <4>1 DEF Unanswered, Unstarted, BaseInv, JobsFit, JobFits, Fits, NoJob, InOrder
      <4>4. e = job[id].sent /\ \A h \in Made(id) : h.kind \notin Terminal
        BY <1>1, <2>4, <4>1 DEF Numbered
      <4>5. CASE bulk' = bulk /\ (Live(job'[k]) => job'[k].sent = job[k].sent)
        <5>1. SameJob(id) BY <1>2, <2>3, <3>4, <4>1, <4>2, <4>5 DEF SameJob
        <5> QED BY <1>5, <2>3, <4>5, <5>1
      <4>6. CASE \E f \in AnyFrame :
                  /\ bulk' = Append(bulk, f) /\ f.id = k /\ f.n = job[k].sent + 1
                  /\ Live(job'[k]) => job'[k].sent = job[k].sent + 1 /\ f.kind \notin Terminal
        <5>1. PICK f \in AnyFrame :
                  /\ bulk' = Append(bulk, f) /\ f.id = k /\ f.n = job[k].sent + 1
                  /\ Live(job'[k]) => job'[k].sent = job[k].sent + 1 /\ f.kind \notin Terminal
          BY <4>6
        <5>2. Numbered(id, a, b, e + 1)'
          BY <1>1, <1>2, <2>3, <2>4, <3>4, <4>1, <4>2, <4>3, <4>4, <5>1, NumberedMade
        <5>3. e + 1 \in Nat BY <1>1
        <5> QED BY <1>1, <5>2, <5>3
      <4> QED BY <3>1, <4>5, <4>6
    <3> QED BY <3>3, <3>4
  <2>5. CASE socket = "shut" BY <1>4, <2>3, <2>5
  <2> QED BY <1>6, <2>4, <2>5
<1>19. CASE Writer
  <2>1. UNCHANGED <<script, job, got>>
    BY <1>19 DEF Writer, WriteControl, WriteBulk, Flush, WriterIdle, WriterWakes, WriterLeaves,
           WriterFails, WriterExits, WriterUnchanged, jobVars
  <2>2. SameJob(id) BY <1>3, <2>1
  <2>3. CASE WriterLeaves \/ WriterFails
    BY <1>4, <2>1, <2>3 DEF WriterLeaves, WriterFails, WriterExits
  <2>4. CASE WriteControl \/ WriteBulk \/ WriterIdle \/ WriterWakes
    <3>1. UNCHANGED <<socket, wire>>
      BY <2>4 DEF WriteControl, WriteBulk, WriterIdle, WriterWakes
    <3>2. \/ UNCHANGED <<control, bulk, buf>>
          \/ /\ control # <<>> /\ control' = Tail(control) /\ bulk' = bulk
             /\ buf' = Append(buf, Head(control))
          \/ /\ bulk # <<>> /\ bulk' = Tail(bulk) /\ control' = control
             /\ buf' = Append(buf, Head(bulk))
      BY <2>4 DEF WriteControl, WriteBulk, WriterIdle, WriterWakes, TryBulk, TakeControl,
                  TakeBulk, WriterGoes
    <3>3. CASE socket = "open" BY <1>1, <1>5, <2>1, <2>2, <3>1, <3>2, <3>3, NumberedTaken
    <3> QED BY <1>4, <1>6, <2>1, <3>1, <3>3
  <2>5. CASE Flush
    <3>1. UNCHANGED <<socket, control, bulk>> /\ buf' = <<>>
          /\ wire' = IF socket = "open" THEN wire \o buf ELSE wire
      BY <2>5 DEF Flush
    <3>2. CASE socket = "open" BY <1>1, <2>1, <2>2, <3>1, <3>2, NumberedFlushed
    <3> QED BY <1>4, <1>6, <2>1, <3>1, <3>2
  <2> QED BY <1>19, <2>3, <2>4, <2>5 DEF Writer
<1> QED
  BY <1>7, <1>8, <1>9, <1>12, <1>13, <1>14, <1>15, <1>16, <1>17, <1>18, <1>19
     DEF Next, Reader, Reaper, Pump

\* The client gets the frames of every request in the order they were made, none missing in
\* between and none after the terminal one, for any script, depths of the two lanes and sizes of
\* the socket's buffers: although control overtakes bulk, threads race to queue, and the socket or
\* the writer may fail at any point (ConnCtx::send_control, send_bulk, drive_writer, run_read,
\* run_subscribe, pump_loop).
THEOREM FramesKeepOrder == Spec => []FramesInOrder
<1> DEFINE Inv == ExitIsFinal /\ FramesNumbered
<1>1. Init => Inv
  <2> SUFFICES ASSUME Init PROVE Inv
    OBVIOUS
  <2>1. ExitIsFinal BY DEF Init, ExitIsFinal, WriterGone
  <2>2. ASSUME NEW id \in Ids PROVE Numbered(id, 0, 0, 0)
    <3>1. /\ got[id] = <<>> /\ wire = <<>> /\ buf = <<>> /\ control = <<>> /\ bulk = <<>>
          /\ job[id] = NoJob
      BY DEF Init, Ids
    <3>2. Lane(id) = <<>> /\ Other(id) = <<>> /\ id \notin JobsAlive
      BY <3>1 DEF Lane, Other, JobsAlive, NoJob
    <3>3. Covers(<<>>, id, 0, 0) /\ Of(<<>>, id) = {} /\ ToSet(<<>>) = {} BY CoversEmpty
    <3>4. Made(id) = {} /\ Len(<<>>) = 0 /\ DOMAIN got[id] = {} BY <3>1, <3>3 DEF Made
    <3> QED BY <3>1, <3>2, <3>3, <3>4 DEF Numbered, Ends
  <2> QED BY <2>1, <2>2 DEF FramesNumbered
<1>2. BaseInv /\ BaseInv' /\ Inv /\ [Next]_vars => Inv' BY StepExit, StepNumbered
<1>3. BaseInv /\ FramesNumbered => FramesInOrder
  <2> SUFFICES ASSUME BaseInv, FramesNumbered, NEW id \in Ids, NEW i \in DOMAIN got[id]
               PROVE  /\ got[id][i].n = i
                      /\ got[id][i].kind \in Terminal => i = Len(got[id])
    BY DEF FramesInOrder
  <2>1. PICK a \in Nat, b \in Nat, e \in Nat : Numbered(id, a, b, e) BY DEF FramesNumbered
  <2>2. got[id][i].n = i /\ Len(got[id]) <= a /\ a <= b /\ b <= e
    BY <2>1 DEF Numbered, Covers
  <2>3. got[id][i].kind \in Terminal => i = e
    BY <2>1, <2>2 DEF Numbered, Ends, Made, ToSet
  <2>4. Len(got[id]) \in Nat /\ i \in 1..Len(got[id]) BY GotTypes, LenProperties
  <2> QED BY <2>1, <2>2, <2>3, <2>4, SMT
<1> QED BY <1>1, <1>2, <1>3, AlwaysBase, PTL DEF Spec

--------------------
\* The life of the server: the inductive invariant of slots and registry.
ConnPhases == ThreadPhases \cup {"away", "queued", "dropped", "panicked", "gone"}

ConnRecord ==
    [at : ConnPhases, sock : {"open", "shut"}, quiet : BOOLEAN, reading : BOOLEAN]

LoopPhases ==
    {"accept", "admit", "register", "spawn", "join", "pool", "metrics", "stopped", "failed"}

LifeShapesOK ==
    /\ conn \in [Client -> ConnRecord]
    /\ loop \in [at : LoopPhases, client : Client \cup {Nobody}]
    /\ active \in Int

\* The socket in the hands of the accept loop is on its way from the backlog to a thread: it has
\* left the one and not reached the other.
InLoop == loop.at \in {"admit", "register", "spawn"}

HandIsFresh ==
    /\ \A c \in backlog : c \in Client /\ conn[c].at = "queued"
    /\ InLoop => /\ loop.client \in Client
                 /\ loop.client \notin backlog
                 /\ conn[loop.client].at = "queued"

\* The permits: one per connection being served, one in the loop's hands.
Serving == {c \in Client : conn[c].at \in {"handshake", "serving", "wedged"}}

LoopHoldsSlot == loop.at \in {"register", "spawn"}

SlotsCounted ==
    /\ IsFiniteSet(Serving)
    /\ active = Cardinality(Serving) + (IF LoopHoldsSlot THEN 1 ELSE 0)
    /\ MaxConnections # 0 => active <= MaxConnections

\* The registry holds every connection being served and the one about to be, so that shutdown_all
\* closes the socket of either.
ServedAreRegistered ==
    /\ streams \subseteq Client
    /\ Serving \subseteq streams
    /\ loop.at = "spawn" => loop.client \in streams

ShutReachesHand == shuttingDown /\ loop.at = "spawn" => conn[loop.client].sock = "shut"

LifeInv ==
    /\ LifeShapesOK /\ HandIsFresh /\ SlotsCounted
    /\ RegistryIsLive /\ ServedAreRegistered
    /\ ShutdownMissesNone /\ ShutReachesHand

--------------------
\* What an assignment to one connection's fields leaves of the others.
OnlyChanges(c) ==
    /\ conn' \in [Client -> ConnRecord]
    /\ \A x \in Client : x # c => conn'[x] = conn[x]

\* Setting the phase of one connection.
LEMMA SetPhase ==
    ASSUME LifeShapesOK, NEW c \in Client, NEW p \in ConnPhases,
           conn' = [conn EXCEPT ![c].at = p]
    PROVE  OnlyChanges(c) /\ conn'[c].at = p /\ conn'[c].sock = conn[c].sock
BY DEF LifeShapesOK, ConnRecord, OnlyChanges

\* Closing a connection's socket as its phase changes.
LEMMA SetPhaseShut ==
    ASSUME LifeShapesOK, NEW c \in Client, NEW p \in ConnPhases,
           conn' = [conn EXCEPT ![c].at = p, ![c].sock = "shut"]
    PROVE  OnlyChanges(c) /\ conn'[c].at = p /\ conn'[c].sock = "shut"
BY DEF LifeShapesOK, ConnRecord, OnlyChanges

\* Taking a slot, giving one back, and neither.
LEMMA SlotsMove ==
    ASSUME LifeInv, NEW c \in Client, OnlyChanges(c)
    PROVE  /\ (conn'[c].at \in {"handshake", "serving", "wedged"} <=> c \in Serving) => Serving' = Serving
           /\ conn'[c].at \notin {"handshake", "serving", "wedged"} /\ c \in Serving =>
                /\ Serving' = Serving \ {c} /\ IsFiniteSet(Serving')
                /\ Cardinality(Serving') = Cardinality(Serving) - 1
           /\ conn'[c].at \in {"handshake", "serving", "wedged"} /\ c \notin Serving =>
                /\ Serving' = Serving \cup {c} /\ IsFiniteSet(Serving')
                /\ Cardinality(Serving') = Cardinality(Serving) + 1
<1>1. IsFiniteSet(Serving) BY DEF LifeInv, SlotsCounted
<1>2. \A x \in Client : x # c => (x \in Serving' <=> x \in Serving)
  BY DEF OnlyChanges, Serving
<1>3. c \in Serving' <=> conn'[c].at \in {"handshake", "serving", "wedged"} BY DEF Serving
<1>4. Serving \subseteq Client /\ Serving' \subseteq Client BY DEF Serving
<1>5. (conn'[c].at \in {"handshake", "serving", "wedged"} <=> c \in Serving) => Serving' = Serving
  BY <1>2, <1>3, <1>4
<1>6. CASE conn'[c].at \notin {"handshake", "serving", "wedged"} /\ c \in Serving
  <2>1. Serving' = Serving \ {c} BY <1>2, <1>3, <1>4, <1>6
  <2> QED BY <1>1, <1>6, <2>1, FS_RemoveElement
<1>7. CASE conn'[c].at \in {"handshake", "serving", "wedged"} /\ c \notin Serving
  <2>1. Serving' = Serving \cup {c} BY <1>2, <1>3, <1>4, <1>7
  <2> QED BY <1>1, <1>7, <2>1, FS_AddElement
<1> QED BY <1>5, <1>6, <1>7

\* Before the first connection.
LEMMA InitLifeInv == LifeInit => LifeInv
<1> SUFFICES ASSUME LifeInit PROVE LifeInv
  OBVIOUS
<1>1. LifeShapesOK
  BY DEF LifeInit, LifeShapesOK, ConnRecord, ConnPhases, ThreadPhases, NotConnected, Loop, LoopPhases
<1>2. Serving = {} /\ streams = {} /\ backlog = {} BY DEF LifeInit, Serving, NotConnected
<1>3. SlotsCounted
  BY <1>2, FS_EmptySet, ServerLifeAssumption DEF LifeInit, SlotsCounted, LoopHoldsSlot, Loop
<1>4. loop.at = "accept" /\ shuttingDown = FALSE BY DEF LifeInit, Loop
<1>5. HandIsFresh /\ RegistryIsLive /\ ServedAreRegistered /\ ShutdownMissesNone /\ ShutReachesHand
  BY <1>2, <1>4 DEF HandIsFresh, InLoop, RegistryIsLive, ServedAreRegistered,
      ShutdownMissesNone, ShutReachesHand
<1> QED BY <1>1, <1>3, <1>5 DEF LifeInv

\* A step of a thread that touches neither connections nor registry nor slots, while the loop
\* keeps or drops nothing.
LEMMA LoopOnly ==
    ASSUME LifeInv, UNCHANGED <<conn, backlog, active, streams, shuttingDown>>,
           \/ loop' = loop
           \/ /\ loop' \in [at : LoopPhases, client : Client \cup {Nobody}]
              /\ ~ InLoop /\ loop.at # "failed"
              /\ loop'.at \notin {"admit", "register", "spawn"}
    PROVE  LifeInv'
<1>1. LifeShapesOK' /\ HandIsFresh' BY DEF LifeInv, LifeShapesOK, HandIsFresh, InLoop
<1>2. Serving' = Serving /\ (LoopHoldsSlot' <=> LoopHoldsSlot)
  BY DEF Serving, LoopHoldsSlot, InLoop
<1>3. SlotsCounted' BY <1>2 DEF LifeInv, SlotsCounted
<1>4. RegistryIsLive' BY DEF LifeInv, RegistryIsLive, ThreadLive, InLoop
<1>5. ServedAreRegistered' /\ ShutdownMissesNone' /\ ShutReachesHand'
  BY <1>2 DEF LifeInv, ServedAreRegistered, ShutdownMissesNone, ShutReachesHand, InLoop
<1> QED BY <1>1, <1>3, <1>4, <1>5 DEF LifeInv

\* A connection that goes on, in a phase of the same standing: it holds a slot as before, has a
\* thread as before, and its socket does not reopen.
LEMMA GoesOn ==
    ASSUME LifeInv, NEW c \in Client, OnlyChanges(c),
           UNCHANGED <<loop, active, streams, shuttingDown, backlog>>,
           \/ conn'[c].at = conn[c].at
           \/ conn[c].at = "handshake" /\ conn'[c].at = "serving"
           \/ conn[c].at = "serving" /\ conn'[c].at = "wedged",
           conn[c].sock = "shut" => conn'[c].sock = "shut"
    PROVE  LifeInv'
<1>1. Serving' = Serving BY SlotsMove DEF Serving
<1>2. LifeShapesOK' BY DEF LifeInv, LifeShapesOK, OnlyChanges
<1>3. \A x \in Client : conn[x].at = "queued" => conn'[x].at = "queued" BY DEF OnlyChanges
<1>4. HandIsFresh' BY <1>3 DEF LifeInv, HandIsFresh, InLoop
<1>5. SlotsCounted' BY <1>1 DEF LifeInv, SlotsCounted, LoopHoldsSlot
<1>6. \A x \in Client : /\ ThreadLive(x) => ThreadLive(x)'
                        /\ conn[x].at = "panicked" => conn'[x].at = "panicked"
                        /\ conn[x].sock = "shut" => conn'[x].sock = "shut"
  BY DEF OnlyChanges, ThreadLive, ThreadPhases
<1>7. RegistryIsLive' /\ ServedAreRegistered'
  BY <1>1, <1>6 DEF LifeInv, RegistryIsLive, ServedAreRegistered
<1>8. ShutdownMissesNone'
  <2>1. \A x \in Client : conn'[x].at \in {"handshake", "serving", "wedged"} => x \in Serving
    BY <1>1 DEF Serving
  <2> QED BY <1>6, <2>1 DEF LifeInv, ShutdownMissesNone, Serving
<1>9. ShutReachesHand' BY <1>6 DEF LifeInv, ShutReachesHand, HandIsFresh, InLoop
<1> QED BY <1>2, <1>4, <1>5, <1>7, <1>8, <1>9 DEF LifeInv

\* A connection whose work has returned or unwound gives its slot back and stays registered until
\* its thread ends, or for good.
LEMMA GivesSlotBack ==
    ASSUME LifeInv, NEW c \in Client, OnlyChanges(c), c \in Serving,
           conn'[c].at \in {"leaving", "panicked"}, active' = active - 1,
           UNCHANGED <<loop, streams, shuttingDown, backlog>>
    PROVE  LifeInv'
<1>1. /\ Serving' = Serving \ {c} /\ IsFiniteSet(Serving')
      /\ Cardinality(Serving') = Cardinality(Serving) - 1
  BY SlotsMove
<1>2. LifeShapesOK' BY DEF LifeInv, LifeShapesOK, OnlyChanges
<1>3. HandIsFresh' BY DEF LifeInv, HandIsFresh, InLoop, OnlyChanges, Serving
<1>4. SlotsCounted'
  <2>1. /\ active = Cardinality(Serving) + (IF LoopHoldsSlot THEN 1 ELSE 0)
        /\ MaxConnections # 0 => active <= MaxConnections
    BY DEF LifeInv, SlotsCounted
  <2>2. Cardinality(Serving) \in Nat BY FS_CardinalityType DEF LifeInv, SlotsCounted
  <2>3. LoopHoldsSlot' <=> LoopHoldsSlot BY DEF LoopHoldsSlot
  <2>4. active' = Cardinality(Serving') + (IF LoopHoldsSlot' THEN 1 ELSE 0)
    BY <1>1, <2>1, <2>2, <2>3
  <2>5. MaxConnections # 0 => active' <= MaxConnections
    BY <2>1, ServerLifeAssumption DEF LifeInv, LifeShapesOK
  <2> QED BY <1>1, <2>4, <2>5 DEF SlotsCounted
<1>5. \A x \in Client : ThreadLive(x) => ThreadLive(x)' \/ conn'[x].at = "panicked"
  BY DEF OnlyChanges, ThreadLive, ThreadPhases
<1>6. RegistryIsLive'
  BY <1>5 DEF LifeInv, RegistryIsLive, ServedAreRegistered, OnlyChanges, Serving
<1>7. ServedAreRegistered' BY <1>1 DEF LifeInv, ServedAreRegistered
<1>8. ShutdownMissesNone' /\ ShutReachesHand'
  BY DEF LifeInv, ShutdownMissesNone, ShutReachesHand, HandIsFresh, InLoop, OnlyChanges, Serving
<1> QED BY <1>2, <1>3, <1>4, <1>6, <1>7, <1>8 DEF LifeInv

\* A socket that never was served comes or goes: the backlog and the hands of the loop change,
\* slots and registry do not.
LEMMA NeverServed ==
    ASSUME LifeInv, NEW c \in Client, OnlyChanges(c), ~ ThreadLive(c), c \notin Serving,
           conn[c].at # "panicked",
           conn'[c].at \in {"queued", "dropped"},
           UNCHANGED <<active, streams, shuttingDown>>,
           LifeShapesOK', HandIsFresh', LoopHoldsSlot' <=> LoopHoldsSlot,
           loop.at = "spawn" <=> loop'.at = "spawn",
           loop.at = "spawn" => loop'.client = loop.client /\ loop.client # c,
           loop.at = "failed" => loop'.at = "failed"
    PROVE  LifeInv'
<1>1. Serving' = Serving BY SlotsMove
<1>2. SlotsCounted' BY <1>1 DEF LifeInv, SlotsCounted
<1>3. RegistryIsLive'
  BY DEF LifeInv, RegistryIsLive, ServedAreRegistered, OnlyChanges, ThreadLive
<1>4. ServedAreRegistered' BY <1>1 DEF LifeInv, ServedAreRegistered
<1>5. ShutdownMissesNone' BY DEF LifeInv, ShutdownMissesNone, OnlyChanges
<1>6. ShutReachesHand' BY DEF LifeInv, ShutReachesHand, OnlyChanges, HandIsFresh, InLoop
<1> QED BY <1>2, <1>3, <1>4, <1>5, <1>6 DEF LifeInv

\* Connecting, accepting, refusing, and failing to clone the socket.
LEMMA BacklogLifeInv ==
    ASSUME LifeInv,
           \/ \E c \in Client : Connect(c) \/ Accept(c)
           \/ Refuse \/ (Admit /\ UNCHANGED active)
    PROVE  LifeInv'
<1> USE DEF registryVars, Loop, ThreadLive, ThreadPhases, Serving, OnlyChanges
<1>0. Nobody \notin Client BY ServerLifeAssumption
<1>1. ASSUME NEW c \in Client, Connect(c) PROVE LifeInv'
  <2>1. /\ conn[c].at = "away" /\ backlog' = backlog \cup {c}
        /\ conn' = [conn EXCEPT ![c].at = "queued"]
        /\ UNCHANGED <<loop, active, streams, shuttingDown>>
    BY <1>1 DEF Connect
  <2>2. OnlyChanges(c) /\ conn'[c].at = "queued" BY <2>1, SetPhase DEF LifeInv, ConnPhases
  <2>3. LifeShapesOK' BY <2>1, <2>2 DEF LifeInv, LifeShapesOK
  <2>4. HandIsFresh' BY <2>1, <2>2 DEF LifeInv, HandIsFresh, InLoop
  <2>5. loop.at = "spawn" => loop.client # c BY <2>1 DEF LifeInv, HandIsFresh, InLoop
  <2> QED BY <2>1, <2>2, <2>3, <2>4, <2>5, NeverServed DEF LoopHoldsSlot
<1>2. ASSUME NEW c \in Client, Accept(c) PROVE LifeInv'
  <2>1. /\ loop.at = "accept" /\ c \in backlog /\ backlog' = backlog \ {c}
        /\ \/ loop' = [at |-> "admit", client |-> c] /\ conn' = conn
           \/ loop' = [at |-> "join", client |-> Nobody] /\ conn' = [conn EXCEPT ![c].at = "dropped"]
        /\ UNCHANGED <<active, streams, shuttingDown>>
    BY <1>2 DEF Accept
  <2>2. conn[c].at = "queued" BY <2>1 DEF LifeInv, HandIsFresh
  <2>3. /\ OnlyChanges(c) /\ conn'[c].at \in {"queued", "dropped"}
        /\ loop'.at = "admit" => conn' = conn
    BY <2>1, <2>2, SetPhase DEF LifeInv, ConnPhases, LifeShapesOK
  <2>4. LifeShapesOK' BY <2>1, <2>3 DEF LifeInv, LifeShapesOK, LoopPhases
  <2>5. HandIsFresh' BY <2>1, <2>2, <2>3 DEF LifeInv, HandIsFresh, InLoop
  <2> QED BY <2>1, <2>2, <2>3, <2>4, <2>5, NeverServed DEF LoopHoldsSlot
<1>3. CASE Refuse \/ (Admit /\ UNCHANGED active)
  <2> DEFINE c == loop.client
  <2>1. /\ loop.at = "admit" /\ conn' = [conn EXCEPT ![c].at = "dropped", ![c].sock = "shut"]
        /\ loop' = [at |-> "accept", client |-> Nobody]
        /\ UNCHANGED <<active, streams, shuttingDown, backlog>>
    <3>1. active \in Int BY DEF LifeInv, LifeShapesOK
    <3> QED BY <1>3, <3>1 DEF Refuse, Admit, Dropped
  <2>2. c \in Client /\ c \notin backlog /\ conn[c].at = "queued"
    BY <2>1 DEF LifeInv, HandIsFresh, InLoop
  <2>3. \A x \in backlog : x \in Client /\ x # c BY <2>2 DEF LifeInv, HandIsFresh
  <2> HIDE DEF c
  <2>4. OnlyChanges(c) /\ conn'[c].at = "dropped"
    BY <2>1, <2>2, SetPhaseShut DEF LifeInv, ConnPhases
  <2>5. LifeShapesOK' BY <2>1, <2>4 DEF LifeInv, LifeShapesOK, LoopPhases
  <2>6. HandIsFresh' BY <2>1, <2>3, <2>4 DEF LifeInv, HandIsFresh, InLoop
  <2> QED BY <2>1, <2>2, <2>4, <2>5, <2>6, NeverServed DEF LoopHoldsSlot
<1> QED BY <1>1, <1>2, <1>3

\* A slot is taken under the cap.
LEMMA AdmitLifeInv ==
    ASSUME LifeInv, Admit, ~ UNCHANGED active
    PROVE  LifeInv'
<1> USE DEF registryVars, Loop
<1>1. /\ loop.at = "admit" /\ ~ AtCap /\ active' = active + 1
      /\ loop' = [at |-> "register", client |-> loop.client]
      /\ UNCHANGED <<conn, backlog, streams, shuttingDown>>
  BY DEF Admit
<1>2. loop.client \in Client BY <1>1 DEF LifeInv, HandIsFresh, InLoop
<1>3. LifeShapesOK' /\ HandIsFresh'
  BY <1>1, <1>2 DEF LifeInv, LifeShapesOK, HandIsFresh, InLoop, LoopPhases
<1>4. SlotsCounted'
  <2>1. Serving' = Serving /\ LoopHoldsSlot' /\ ~ LoopHoldsSlot
    BY <1>1 DEF Serving, LoopHoldsSlot
  <2>2. IsFiniteSet(Serving) /\ Cardinality(Serving) \in Nat /\ active = Cardinality(Serving)
    BY <2>1, FS_CardinalityType DEF LifeInv, SlotsCounted
  <2>3. MaxConnections # 0 => active' <= MaxConnections
    BY <1>1, <2>2, ServerLifeAssumption DEF AtCap
  <2> QED BY <1>1, <2>1, <2>2, <2>3 DEF SlotsCounted
<1>5. RegistryIsLive' /\ ServedAreRegistered'
  BY <1>1 DEF LifeInv, RegistryIsLive, ServedAreRegistered, ThreadLive, Serving
<1>6. ShutdownMissesNone' /\ ShutReachesHand'
  BY <1>1 DEF LifeInv, ShutdownMissesNone, ShutReachesHand
<1> QED BY <1>3, <1>4, <1>5, <1>6 DEF LifeInv

\* The socket in hand is given up after it took a slot: a shutdown was seen at registration, or
\* the thread could not be spawned.
LEMMA GivesUp ==
    ASSUME LifeInv, (Register /\ shuttingDown) \/ SpawnFails
    PROVE  LifeInv'
<1> USE DEF registryVars, Loop
<1> DEFINE c == loop.client
<1>1. /\ LoopHoldsSlot /\ active' = active - 1
      /\ conn' = [conn EXCEPT ![c].at = "dropped", ![c].sock = "shut"]
      /\ loop' \in {[at |-> "join", client |-> Nobody], [at |-> "failed", client |-> Nobody]}
      /\ loop.at = "spawn" => loop'.at = "failed"
      /\ UNCHANGED <<streams, shuttingDown, backlog>>
  BY DEF Register, SpawnFails, Dropped, LoopHoldsSlot
<1>2. c \in Client /\ c \notin backlog /\ conn[c].at = "queued"
  BY <1>1 DEF LifeInv, HandIsFresh, InLoop, LoopHoldsSlot
<1>3. \A x \in backlog : x \in Client /\ x # c BY <1>2 DEF LifeInv, HandIsFresh
<1>4. c \in streams => loop.at = "spawn"
  BY <1>1, <1>2 DEF LifeInv, RegistryIsLive, ThreadLive, ThreadPhases, LoopHoldsSlot
<1> HIDE DEF c
<1>5. OnlyChanges(c) /\ conn'[c].at = "dropped"
  BY <1>1, <1>2, SetPhaseShut DEF LifeInv, ConnPhases
<1>6. Serving' = Serving BY <1>2, <1>5, SlotsMove DEF Serving
<1>7. LifeShapesOK' BY <1>1, <1>5 DEF LifeInv, LifeShapesOK, OnlyChanges, LoopPhases
<1>8. HandIsFresh' BY <1>1, <1>3, <1>5 DEF LifeInv, HandIsFresh, InLoop, OnlyChanges
<1>9. SlotsCounted'
  <2>1. ~ LoopHoldsSlot' BY <1>1 DEF LoopHoldsSlot
  <2>2. /\ IsFiniteSet(Serving) /\ Cardinality(Serving) \in Nat
        /\ active = Cardinality(Serving) + 1
        /\ MaxConnections # 0 => active <= MaxConnections
    BY <1>1, FS_CardinalityType DEF LifeInv, SlotsCounted
  <2>3. active' = Cardinality(Serving) /\ (MaxConnections # 0 => active' <= MaxConnections)
    BY <1>1, <2>2, ServerLifeAssumption
  <2> QED BY <1>6, <2>1, <2>2, <2>3 DEF SlotsCounted
<1>10. RegistryIsLive'
  <2> SUFFICES ASSUME NEW x \in streams, loop'.at # "failed"
               PROVE  ThreadLive(x)' \/ conn'[x].at = "panicked"
    BY <1>1 DEF RegistryIsLive
  <2>1. loop.at = "register" /\ x # c /\ x \in Client
    BY <1>1, <1>4 DEF LoopHoldsSlot, LifeInv, ServedAreRegistered
  <2> QED BY <1>5, <2>1 DEF LifeInv, RegistryIsLive, ThreadLive, OnlyChanges
<1>11. ServedAreRegistered' BY <1>1, <1>6 DEF LifeInv, ServedAreRegistered
<1>12. ShutdownMissesNone' /\ ShutReachesHand'
  BY <1>1, <1>5 DEF LifeInv, ShutdownMissesNone, ShutReachesHand, OnlyChanges
<1> QED BY <1>7, <1>8, <1>9, <1>10, <1>11, <1>12 DEF LifeInv

\* Before a shutdown the socket in hand is registered, and stays in hand.
LEMMA RegisterLifeInv ==
    ASSUME LifeInv, Register, ~ shuttingDown
    PROVE  LifeInv'
<1>1. /\ loop.at = "register" /\ streams' = streams \cup {loop.client}
      /\ loop' = [at |-> "spawn", client |-> loop.client]
      /\ UNCHANGED <<conn, active, backlog, shuttingDown>>
  BY DEF Register, Loop
<1>2. loop.client \in Client BY <1>1 DEF LifeInv, HandIsFresh, InLoop
<1>3. LifeShapesOK' /\ HandIsFresh'
  BY <1>1, <1>2 DEF LifeInv, LifeShapesOK, HandIsFresh, InLoop, LoopPhases
<1>4. SlotsCounted' BY <1>1 DEF LifeInv, SlotsCounted, LoopHoldsSlot, Serving
<1>5. RegistryIsLive' /\ ServedAreRegistered'
  BY <1>1, <1>2 DEF LifeInv, RegistryIsLive, ServedAreRegistered, ThreadLive, Serving
<1>6. ShutdownMissesNone' /\ ShutReachesHand'
  BY <1>1 DEF LifeInv, ShutdownMissesNone, ShutReachesHand
<1> QED BY <1>3, <1>4, <1>5, <1>6 DEF LifeInv

\* The thread takes the slot over; if a shutdown came in between, it takes over a socket that is
\* shut.
LEMMA SpawnLifeInv ==
    ASSUME LifeInv, Spawn
    PROVE  LifeInv'
<1> USE DEF registryVars
<1> DEFINE c == loop.client
           p == IF Tls THEN "handshake" ELSE "serving"
<1>1. /\ loop.at = "spawn" /\ conn' = [conn EXCEPT ![c].at = p]
      /\ loop' = [at |-> "accept", client |-> Nobody]
      /\ UNCHANGED <<active, streams, shuttingDown, backlog>>
  BY DEF Spawn, Loop
<1>2. c \in Client /\ c \notin backlog /\ conn[c].at = "queued" /\ c \in streams
  BY <1>1 DEF LifeInv, HandIsFresh, InLoop, ServedAreRegistered
<1>3. \A x \in backlog : x \in Client /\ x # c BY <1>2 DEF LifeInv, HandIsFresh
<1>4. shuttingDown => conn[c].sock = "shut" BY <1>1 DEF LifeInv, ShutReachesHand
<1>5. p \in {"handshake", "serving"} OBVIOUS
<1> HIDE DEF c, p
<1>6. OnlyChanges(c) /\ conn'[c].at = p /\ conn'[c].sock = conn[c].sock
  BY <1>1, <1>2, <1>5, SetPhase DEF LifeInv, ConnPhases, ThreadPhases
<1>7. /\ Serving' = Serving \cup {c} /\ IsFiniteSet(Serving')
      /\ Cardinality(Serving') = Cardinality(Serving) + 1
  BY <1>2, <1>5, <1>6, SlotsMove DEF Serving
<1>8. LifeShapesOK' BY <1>1, <1>6 DEF LifeInv, LifeShapesOK, OnlyChanges, LoopPhases
<1>9. HandIsFresh' BY <1>1, <1>3, <1>6 DEF LifeInv, HandIsFresh, InLoop, OnlyChanges
<1>10. SlotsCounted'
  <2>1. LoopHoldsSlot /\ ~ LoopHoldsSlot' BY <1>1 DEF LoopHoldsSlot
  <2>2. Cardinality(Serving) \in Nat BY FS_CardinalityType DEF LifeInv, SlotsCounted
  <2> QED BY <1>1, <1>7, <2>1, <2>2 DEF LifeInv, SlotsCounted
<1>11. RegistryIsLive'
  BY <1>1, <1>2, <1>5, <1>6 DEF LifeInv, RegistryIsLive, ThreadLive, ThreadPhases, OnlyChanges,
      ServedAreRegistered, c
<1>12. ServedAreRegistered' BY <1>1, <1>2, <1>7 DEF LifeInv, ServedAreRegistered
<1>13. ShutdownMissesNone' /\ ShutReachesHand'
  BY <1>1, <1>4, <1>6 DEF LifeInv, ShutdownMissesNone, ShutReachesHand, OnlyChanges
<1> QED BY <1>8, <1>9, <1>10, <1>11, <1>12, <1>13 DEF LifeInv

\* A thread that ends takes its entry out of the registry.
LEMMA ThreadEndsLifeInv ==
    ASSUME LifeInv, NEW c \in Client, ThreadEnds(c)
    PROVE  LifeInv'
<1>1. /\ conn[c].at = "leaving" /\ streams' = streams \ {c}
      /\ conn' = [conn EXCEPT ![c].at = "gone"]
      /\ UNCHANGED <<loop, active, shuttingDown, backlog>>
  BY DEF ThreadEnds
<1>2. OnlyChanges(c) /\ conn'[c].at = "gone" BY <1>1, SetPhase DEF LifeInv, ConnPhases
<1>3. Serving' = Serving /\ c \notin Serving BY <1>1, <1>2, SlotsMove DEF Serving
<1>4. InLoop => loop.client # c BY <1>1 DEF LifeInv, HandIsFresh
<1>5. LifeShapesOK' BY <1>1, <1>2 DEF LifeInv, LifeShapesOK, OnlyChanges
<1>6. HandIsFresh' BY <1>1, <1>2, <1>4 DEF LifeInv, HandIsFresh, InLoop, OnlyChanges
<1>7. SlotsCounted' BY <1>1, <1>3 DEF LifeInv, SlotsCounted, LoopHoldsSlot
<1>8. RegistryIsLive'
  BY <1>1, <1>2 DEF LifeInv, RegistryIsLive, ThreadLive, OnlyChanges, ServedAreRegistered
<1>9. ServedAreRegistered' BY <1>1, <1>3, <1>4 DEF LifeInv, ServedAreRegistered, InLoop
<1>10. ShutdownMissesNone' /\ ShutReachesHand'
  BY <1>1, <1>2, <1>4 DEF LifeInv, ShutdownMissesNone, ShutReachesHand, OnlyChanges, HandIsFresh,
      InLoop
<1> QED BY <1>5, <1>6, <1>7, <1>8, <1>9, <1>10 DEF LifeInv

\* shutdown_all closes every registered socket: the ones being served and the one the loop is
\* about to spawn a thread for.
LEMMA ShutdownLifeInv ==
    ASSUME LifeInv, ShutdownAll
    PROVE  LifeInv'
<1>1. /\ conn' = [c \in Client |-> IF c \in streams THEN [conn[c] EXCEPT !.sock = "shut"] ELSE conn[c]]
      /\ UNCHANGED <<loop, active, streams, backlog>>
  BY DEF ShutdownAll
<1>2. conn' \in [Client -> ConnRecord] BY <1>1 DEF LifeInv, LifeShapesOK, ConnRecord
<1>3. \A c \in Client : conn'[c].at = conn[c].at /\ (c \in streams => conn'[c].sock = "shut")
  BY <1>1 DEF LifeInv, LifeShapesOK, ConnRecord
<1>4. Serving' = Serving BY <1>3 DEF Serving
<1>5. LifeShapesOK' /\ HandIsFresh'
  BY <1>1, <1>2, <1>3 DEF LifeInv, LifeShapesOK, HandIsFresh, InLoop
<1>6. SlotsCounted' BY <1>1, <1>4 DEF LifeInv, SlotsCounted, LoopHoldsSlot
<1>7. RegistryIsLive' /\ ServedAreRegistered'
  BY <1>1, <1>3, <1>4 DEF LifeInv, RegistryIsLive, ServedAreRegistered, ThreadLive
<1>8. ShutdownMissesNone' /\ ShutReachesHand'
  BY <1>1, <1>3 DEF LifeInv, ShutdownMissesNone, ShutReachesHand, ServedAreRegistered, Serving
<1> QED BY <1>5, <1>6, <1>7, <1>8 DEF LifeInv

\* Every step keeps slots and registry in agreement with the connections.
LEMMA StepLifeInv == LifeInv /\ [LifeNext]_lifeVars => LifeInv'
<1> SUFFICES ASSUME LifeInv, [LifeNext]_lifeVars PROVE LifeInv'
  OBVIOUS
<1> USE DEF connVars, registryVars
<1>1. CASE \/ \E c \in Client : Connect(c) \/ Accept(c)
           \/ Refuse \/ (Admit /\ UNCHANGED active)
  BY <1>1, BacklogLifeInv
<1>2. CASE Admit /\ ~ UNCHANGED active BY <1>2, AdmitLifeInv
<1>3. CASE (Register /\ shuttingDown) \/ SpawnFails BY <1>3, GivesUp
<1>4. CASE Register /\ ~ shuttingDown BY <1>4, RegisterLifeInv
<1>5. CASE Spawn BY <1>5, SpawnLifeInv
<1>6. CASE AcceptWake \/ AcceptError \/ JoinConnections \/ JoinPool \/ JoinMetrics
  <2>1. /\ UNCHANGED <<conn, backlog, active, streams, shuttingDown>>
        /\ loop' \in [at : LoopPhases, client : Client \cup {Nobody}]
        /\ loop.at \notin {"admit", "register", "spawn", "failed"}
        /\ loop'.at \notin {"admit", "register", "spawn"}
    BY <1>6 DEF AcceptWake, AcceptError, JoinConnections, JoinPool, JoinMetrics, Loop, LoopPhases
  <2> QED BY <2>1, LoopOnly DEF InLoop
<1>7. CASE \E c \in Client : HangUp(c) \/ HandshakeStep(c) \/ HandshakeDone(c) \/ StartRead(c)
                                \/ EndRead(c) \/ Wedges(c)
  <2>1. PICK c \in Client : HangUp(c) \/ HandshakeStep(c) \/ HandshakeDone(c) \/ StartRead(c)
                              \/ EndRead(c) \/ Wedges(c)
    BY <1>7
  <2>2. UNCHANGED <<loop, active, streams, shuttingDown, backlog>>
    BY <2>1 DEF HangUp, HandshakeStep, HandshakeDone, StartRead, EndRead, Wedges
  <2>3. /\ OnlyChanges(c)
        /\ conn[c].sock = "shut" => conn'[c].sock = "shut"
        /\ \/ conn'[c].at = conn[c].at
           \/ conn[c].at = "handshake" /\ conn'[c].at = "serving"
           \/ conn[c].at = "serving" /\ conn'[c].at = "wedged"
    <3>1. conn \in [Client -> ConnRecord] BY DEF LifeInv, LifeShapesOK
    <3>2. CASE HandshakeDone(c)
      BY <3>2, SetPhase DEF HandshakeDone, LifeInv, ConnPhases, ThreadPhases
    <3>3. CASE HangUp(c) BY <3>1, <3>3 DEF HangUp, OnlyChanges, ConnRecord
    <3>4. CASE HandshakeStep(c) BY <3>1, <3>4 DEF HandshakeStep, OnlyChanges, ConnRecord
    <3>5. CASE StartRead(c) \/ EndRead(c)
      BY <3>1, <3>5, ZenonT(40) DEF StartRead, EndRead, OnlyChanges, ConnRecord
    <3>6. CASE Wedges(c)
      BY <3>6, SetPhase DEF Wedges, LifeInv, ConnPhases, ThreadPhases
    <3> QED BY <2>1, <3>2, <3>3, <3>4, <3>5, <3>6
  <2> QED BY <2>2, <2>3, GoesOn
<1>8. CASE \E c \in Client : HandshakeFails(c) \/ ServeReturns(c) \/ ServePanics(c)
  <2>1. PICK c \in Client : HandshakeFails(c) \/ ServeReturns(c) \/ ServePanics(c) BY <1>8
  <2>2. /\ conn[c].at \in {"handshake", "serving"}
        /\ \/ conn' = [conn EXCEPT ![c].at = "leaving", ![c].sock = "shut"]
           \/ conn' = [conn EXCEPT ![c].at = "panicked"]
        /\ active' = active - 1
        /\ UNCHANGED <<loop, streams, shuttingDown, backlog>>
    BY <2>1 DEF HandshakeFails, ServeReturns, ServePanics, Leave
  <2>3. OnlyChanges(c) /\ conn'[c].at \in {"leaving", "panicked"}
    BY <2>2, SetPhase, SetPhaseShut DEF LifeInv, ConnPhases, ThreadPhases
  <2> QED BY <2>2, <2>3, GivesSlotBack DEF Serving
<1>9. CASE \E c \in Client : ThreadEnds(c) BY <1>9, ThreadEndsLifeInv
<1>10. CASE ShutdownAll BY <1>10, ShutdownLifeInv
<1>11. CASE \/ FirstSignal \/ WakeAccept \/ SecondSignal \/ CloseWriter \/ Exit
            \/ ScrapeStarts \/ ScrapeByte \/ ScrapeEnds \/ MetricsExit \/ UNCHANGED lifeVars
  <2>1. UNCHANGED <<conn, backlog, active, streams, shuttingDown, loop>>
    BY <1>11 DEF FirstSignal, WakeAccept, SecondSignal, CloseWriter, Exit, ScrapeStarts,
        ScrapeByte, ScrapeEnds, MetricsExit, lifeVars
  <2> QED BY <2>1, LoopOnly
<1> QED
  BY <1>1, <1>2, <1>3, <1>4, <1>5, <1>6, <1>7, <1>8, <1>9, <1>10, <1>11
      DEF LifeNext, Run, ConnThread, Handler, Main, MetricsThread

\* Slots and registry agree with the connections, always. Fairness plays no part.
LEMMA AlwaysLifeInv == LifeSpec => []LifeInv
<1>1. LifeSpec => LifeInit /\ [][LifeNext]_lifeVars BY PTL DEF LifeSpec
<1>2. LifeInit => LifeInv BY InitLifeInv
<1>3. LifeInv /\ [LifeNext]_lifeVars => LifeInv' BY StepLifeInv
<1> QED BY <1>1, <1>2, <1>3, PTL

\* "An unwind out of serve_connection (or a failed thread spawn) cannot inflate the gauge or leak
\* a slot": active_connections is the number of connections with a slot and never exceeds the cap,
\* and the registry keeps only live connections, a panicked one and those of a failed run
\* excepted.
THEOREM BooksCorrect == LifeSpec => []BooksAreExact
<1>1. LifeInv => BooksAreExact
  BY DEF LifeInv, BooksAreExact, SlotsAreExact, SlotsCounted, Serving, LoopHoldsSlot
<1> QED BY <1>1, AlwaysLifeInv, PTL

\* Connections::register and shutdown_all leave "no window in which a connection is served but
\* missed": whichever comes first, the socket is shut.
THEOREM NoneIsMissed == LifeSpec => []ShutdownMissesNone
<1>1. LifeInv => ShutdownMissesNone BY DEF LifeInv
<1> QED BY <1>1, AlwaysLifeInv, PTL
==============================================================================

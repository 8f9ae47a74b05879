--------------------------- MODULE ReadCore_proofs ---------------------------
\* Proofs about ReadCore, for every number of subscriptions, every query, start, batch cap and
\* length of the log: a subscription is handed exactly what it asked for, up to the first segment
\* whose seal was lost, and one that answers None has come to the end of the log.
EXTENDS ReadCore, SequenceTheorems, FiniteSetTheorems, TLAPS

--------------------
\* The inductive invariant.
ShapesOK ==
    /\ log \in Seq(Event)
    /\ segs \in Seq(Nat)
    /\ lostFrom \in Nat
    /\ snap \in Seq(Nat)
    /\ watermark \in Nat
    /\ closed \in BOOLEAN
    /\ DOMAIN kind = Sub
    /\ DOMAIN query = Sub
    /\ start \in [Sub -> Nat]
    /\ cursor \in [Sub -> Nat]
    /\ DOMAIN at = Sub
    /\ pinned \in [Sub -> Nat]
    /\ view \in [Sub -> Seq(Nat)]
    /\ seen \in [Sub -> Nat]
    /\ closing \in [Sub -> BOOLEAN]
    /\ delivered \in [Sub -> Seq(Nat)]

\* Publication order: the snapshot goes out before the watermark, so that the segments it does not
\* know lie beyond the watermark; the others are those whose seal was lost and what follows them.
PublishedInOrder ==
    /\ watermark <= Len(log)
    /\ step \notin {"segments", "watermark"} => watermark = Len(log)
    /\ \A i \in DOMAIN segs : i > Len(snap) =>
          Lost(segs[i]) \/ (watermark < segs[i] /\ step = "segments")

\* What a poll has loaded: a watermark that was published, and a snapshot loaded after it, which
\* holds all of it.
Polling(s) == at[s] \in {"load", "read"}

LoadsAreCovered ==
    \A s \in Sub :
        /\ seen[s] <= watermark
        /\ Polling(s) => pinned[s] <= watermark
        /\ at[s] = "read" =>
              \A i \in DOMAIN segs : i > Len(view[s]) => Lost(segs[i]) \/ pinned[s] < segs[i]

CursorInBounds ==
    \A s \in Sub :
        /\ start[s] <= cursor[s]
        /\ cursor[s] <= watermark \/ cursor[s] = start[s]

\* Nobody has been handed anything before subscribing.
NewIsEmpty == \A s \in Sub : at[s] = "new" => delivered[s] = <<>>

\* The poll after Closed sees the whole log, which no longer grows.
LastPollSeesAll ==
    /\ closed => step \in {"closeNotify", "exited"}
    /\ \A s \in Sub : closing[s] =>
          /\ closed
          /\ seen[s] >= Len(log)
          /\ Polling(s) => pinned[s] >= Len(log)

\* A seal is lost behind the log's end.
LostBehind == lostFrom <= Len(log) + 1

ReadInv ==
    /\ ShapesOK
    /\ LostBehind
    /\ PublishedInOrder
    /\ LoadsAreCovered
    /\ CursorInBounds
    /\ NewIsEmpty
    /\ DeliveredExactly
    /\ LastPollSeesAll
    /\ EndedIsDrained

--------------------
\* The initial state.
LEMMA InitReadInv == Init => ReadInv
<1> SUFFICES ASSUME Init PROVE ReadInv
  OBVIOUS
<1>1. /\ <<>> \in Seq(Event) /\ <<>> \in Seq(Nat) /\ <<1>> \in Seq(Nat)
      /\ Len(<<>>) = 0 /\ Len(<<1>>) = 1 /\ DOMAIN <<>> = {} /\ DOMAIN <<1>> = {1}
  OBVIOUS
<1>6. LostBehind BY <1>1, SMT DEF Init, LostBehind
<1>2. ShapesOK
  <2>1. closed \in BOOLEAN /\ closing \in [Sub -> BOOLEAN] BY DEF Init
  <2>2. lostFrom \in Nat BY DEF Init
  <2> QED BY <1>1, <2>1, <2>2 DEF Init, ShapesOK
<1>3. PublishedInOrder /\ LoadsAreCovered /\ CursorInBounds /\ NewIsEmpty
  BY <1>1, SMT DEF Init, PublishedInOrder, LoadsAreCovered, CursorInBounds, NewIsEmpty,
                   Polling
<1>4. DeliveredExactly
  <2>1. \A s \in Sub : delivered[s] = <<>> BY DEF Init
  <2>2. DOMAIN log = {} BY <1>1 DEF Init
  <2> QED BY <1>1, <2>1, <2>2 DEF DeliveredExactly
<1>5. LastPollSeesAll /\ EndedIsDrained BY SMT DEF Init, LastPollSeesAll, EndedIsDrained
<1> QED BY <1>2, <1>3, <1>4, <1>5, <1>6 DEF ReadInv

--------------------
\* A step that hands out nothing leaves DeliveredExactly as it was.
LEMMA DeliveredKept ==
    ASSUME DeliveredExactly, UNCHANGED <<log, lostFrom, start, query, cursor, delivered>>
    PROVE  DeliveredExactly'
  BY DEF DeliveredExactly, Lost

\* The writer thread. A commit lies beyond every cursor and every pinned watermark, and so does
\* the segment it may begin.
LEMMA CommitKeeps == ReadInv /\ CommitBatch => ReadInv'
<1> SUFFICES ASSUME ReadInv, CommitBatch PROVE ReadInv'
  OBVIOUS
<1> USE DEF ReadInv
<1>1. PICK n \in 1..MaxBatch : \E batch \in [1..n -> Committable] :
                                   Len(log) + n <= MaxLog /\ log' = log \o batch
  BY DEF CommitBatch
<1>2. PICK batch \in [1..n -> Committable] : log' = log \o batch BY <1>1
<1>3. n \in Nat /\ n >= 1 BY <1>1, ReadCoreAssumption DEF ReadCoreAssumption
<1>4. batch \in Seq(Event) /\ Len(batch) = n
  BY <1>2, <1>3, ReadCoreAssumption, SMT DEF ReadCoreAssumption
<1>5. log \in Seq(Event) /\ Len(log) \in Nat /\ DOMAIN log = 1..Len(log)
  BY LenProperties DEF ShapesOK
<1>6. log \o batch \in Seq(Event) /\ Len(log \o batch) = Len(log) + Len(batch)
      /\ \A i \in 1..Len(log) + Len(batch) :
            (log \o batch)[i] = IF i <= Len(log) THEN log[i] ELSE batch[i - Len(log)]
  BY <1>4, <1>5, ConcatProperties
<1>7. /\ log' \in Seq(Event) /\ Len(log') = Len(log) + n
      /\ DOMAIN log' = 1..(Len(log) + n)
      /\ \A p \in 1..Len(log) : log'[p] = log[p]
  <2>1. DOMAIN (log \o batch) = 1..Len(log \o batch) BY <1>6, LenProperties
  <2> QED BY <1>2, <1>3, <1>4, <1>5, <1>6, <2>1, SMT
<1>8. /\ segs \in Seq(Nat) /\ Len(segs) \in Nat /\ DOMAIN segs = 1..Len(segs)
      /\ segs' \in Seq(Nat) /\ DOMAIN segs' \subseteq Nat
      /\ \A i \in DOMAIN segs : segs[i] \in Nat
      /\ \A i \in DOMAIN segs' : \/ i \in DOMAIN segs /\ segs'[i] = segs[i]
                                 \/ segs'[i] = Len(log) + 1
  <2>1. /\ segs \in Seq(Nat) /\ Len(segs) \in Nat /\ DOMAIN segs = 1..Len(segs)
        /\ \A i \in DOMAIN segs : segs[i] \in Nat
    BY LenProperties, ElementOfSeq DEF ShapesOK
  <2>2. CASE segs' = segs BY <2>1, <2>2, SMT
  <2>3. CASE segs' = Append(segs, Len(log) + 1) BY <1>5, <2>1, <2>3, SMT
  <2> QED BY <2>1, <2>2, <2>3 DEF CommitBatch
<1>9. /\ UNCHANGED <<lostFrom, snap, watermark, closed, identity, readVars, waitVars, at>>
      /\ step = "idle" /\ step' \in {"segments", "watermark"}
      /\ step' = "segments" \/ segs' = segs
  BY DEF CommitBatch, coreVars
<1>a. /\ watermark \in Nat /\ watermark = Len(log)
      /\ Len(snap) \in Nat
      /\ \A s \in Sub : /\ seen[s] \in Nat /\ pinned[s] \in Nat /\ Len(view[s]) \in Nat
                         /\ start[s] \in Nat /\ cursor[s] \in Nat
  <2>1. watermark \in Nat /\ watermark = Len(log) BY <1>9 DEF PublishedInOrder, ShapesOK
  <2> QED BY <2>1, LenProperties DEF ShapesOK
<1>10. ShapesOK' BY <1>7, <1>8, <1>9 DEF ShapesOK, identity, readVars, waitVars
<1>11. PublishedInOrder'
  <2>1. watermark' <= Len(log') BY <1>3, <1>7, <1>9, <1>a, SMT
  <2>2. \A i \in DOMAIN segs : i > Len(snap) => Lost(segs[i])
    BY <1>9 DEF PublishedInOrder
  <2>3. ASSUME NEW i \in DOMAIN segs', i > Len(snap')
        PROVE  \/ lostFrom' # 0 /\ lostFrom' <= segs'[i]
               \/ watermark' < segs'[i] /\ step' = "segments"
    <3>1. CASE i \in DOMAIN segs /\ segs'[i] = segs[i] BY <1>9, <2>2, <2>3, <3>1 DEF Lost
    <3>2. CASE ~ (i \in DOMAIN segs /\ segs'[i] = segs[i])
      <4>1. segs'[i] = Len(log) + 1 /\ step' = "segments" BY <1>8, <1>9, <2>3, <3>2
      <4> QED BY <1>9, <1>a, <4>1
    <3> QED BY <3>1, <3>2
  <2>4. step' \notin {"segments", "watermark"} => watermark' = Len(log') BY <1>9
  <2> QED BY <2>1, <2>3, <2>4 DEF PublishedInOrder, Lost
<1>12. LoadsAreCovered'
  <2>1. ASSUME NEW s \in Sub, at[s] = "read", NEW i \in DOMAIN segs', i > Len(view[s])
        PROVE  (lostFrom # 0 /\ lostFrom <= segs'[i]) \/ pinned[s] < segs'[i]
    <3>1. CASE i \in DOMAIN segs /\ segs'[i] = segs[i]
      BY <2>1, <3>1 DEF LoadsAreCovered, Lost
    <3>2. CASE segs'[i] = Len(log) + 1
      <4>1. pinned[s] <= watermark BY <2>1 DEF LoadsAreCovered, Polling
      <4> QED BY <1>a, <3>2, <4>1
    <3> QED BY <1>8, <3>1, <3>2
  <2> QED BY <1>9, <2>1 DEF LoadsAreCovered, Lost, Polling, waitVars, readVars
<1>13. CursorInBounds' /\ NewIsEmpty'
  BY <1>9 DEF CursorInBounds, NewIsEmpty, readVars, identity
<1>14. DeliveredExactly'
  <2> SUFFICES ASSUME NEW s \in Sub
               PROVE  {p \in DOMAIN log : /\ start[s] < p /\ p <= cursor[s] /\ ~ Lost(p)
                                          /\ Matches(query[s], log[p])}
                      = {p \in DOMAIN log' : /\ start[s] < p /\ p <= cursor[s] /\ ~ Lost(p)
                                             /\ Matches(query[s], log'[p])}
    BY <1>9 DEF DeliveredExactly, Lost, readVars, identity
  <2>1. /\ start[s] \in Nat /\ cursor[s] \in Nat
        /\ cursor[s] <= Len(log) \/ cursor[s] = start[s]
    BY <1>a DEF CursorInBounds
  <2>2. \A p \in DOMAIN log' : start[s] < p /\ p <= cursor[s] => p \in DOMAIN log
    BY <1>3, <1>5, <1>7, <2>1, SMT
  <2>3. DOMAIN log \subseteq DOMAIN log' BY <1>3, <1>5, <1>7, SMT
  <2>4. \A p \in DOMAIN log : log'[p] = log[p] BY <1>5, <1>7
  <2> QED BY <2>2, <2>3, <2>4
<1>15. LastPollSeesAll' /\ EndedIsDrained'
  BY <1>9, SMT DEF LastPollSeesAll, EndedIsDrained, waitVars, identity, readVars, ShapesOK
<1>16. LostBehind' BY <1>3, <1>5, <1>7, <1>9 DEF LostBehind, ShapesOK
<1> QED BY <1>10, <1>11, <1>12, <1>13, <1>14, <1>15, <1>16

\* A lost seal: the segment begins beyond all that was published, and from it on nothing is said.
LEMMA LoseSealKeeps == ReadInv /\ LoseSeal => ReadInv'
<1> SUFFICES ASSUME ReadInv, LoseSeal PROVE ReadInv'
  OBVIOUS
<1> USE DEF ReadInv
<1>1. /\ UNCHANGED <<log, step, snap, watermark, closed, identity, readVars, waitVars, at>>
      /\ step = "idle" /\ segs' = Append(segs, Len(log) + 1)
      /\ lostFrom' = IF lostFrom = 0 THEN Len(log) + 1 ELSE lostFrom
  BY DEF LoseSeal, coreVars
<1>2. /\ log \in Seq(Event) /\ Len(log) \in Nat /\ DOMAIN log = 1..Len(log)
      /\ segs \in Seq(Nat) /\ Len(segs) \in Nat /\ DOMAIN segs = 1..Len(segs)
      /\ Len(snap) \in Nat /\ lostFrom \in Nat
      /\ watermark \in Nat /\ watermark = Len(log)
      /\ \A i \in DOMAIN segs : segs[i] \in Nat
      /\ \A s \in Sub : /\ seen[s] \in Nat /\ pinned[s] \in Nat /\ Len(view[s]) \in Nat
                         /\ start[s] \in Nat /\ cursor[s] \in Nat
  BY <1>1, LenProperties, ElementOfSeq DEF ShapesOK, PublishedInOrder
<1>3. PICK m \in Nat : m = Len(log) + 1 BY <1>2
<1>4. /\ segs' \in Seq(Nat)
      /\ \A i \in DOMAIN segs' : \/ i \in DOMAIN segs /\ segs'[i] = segs[i]
                                 \/ segs'[i] = m
  <2>1. /\ Append(segs, m) \in Seq(Nat) /\ DOMAIN Append(segs, m) = 1..(Len(segs) + 1)
        /\ \A i \in 1..Len(segs) : Append(segs, m)[i] = segs[i]
        /\ Append(segs, m)[Len(segs) + 1] = m
    BY <1>2, AppendProperties, LenProperties
  <2> QED BY <1>1, <1>2, <1>3, <2>1
<1> DEFINE LostNow(p) == lostFrom' # 0 /\ lostFrom' <= p
<1>5. /\ lostFrom' \in Nat /\ LostNow(m)
      /\ \A p \in Nat : Lost(p) => LostNow(p)
      /\ \A p \in DOMAIN log : Lost(p) <=> LostNow(p)
  <2>1. lostFrom = 0 => lostFrom' = m BY <1>1, <1>3
  <2>2. lostFrom # 0 => lostFrom' = lostFrom BY <1>1
  <2>3. lostFrom # 0 => lostFrom <= m
    <3>1. CASE lostFrom = 0 BY <3>1
    <3>2. CASE lostFrom # 0 BY <1>3, <3>2 DEF LostBehind
    <3> QED BY <3>1, <3>2
  <2>4. m # 0 /\ \A p \in DOMAIN log : ~ m <= p BY <1>2, <1>3
  <2> QED BY <1>2, <2>1, <2>2, <2>3, <2>4 DEF Lost
<1> HIDE DEF LostNow
<1>10. ShapesOK' BY <1>1, <1>2, <1>4, <1>5 DEF ShapesOK, identity, readVars, waitVars
<1>11. PublishedInOrder'
  <2>1. ASSUME NEW i \in DOMAIN segs', i > Len(snap) PROVE LostNow(segs'[i])
    <3>1. CASE i \in DOMAIN segs /\ segs'[i] = segs[i]
      <4>1. Lost(segs[i]) BY <1>1, <2>1, <3>1 DEF PublishedInOrder
      <4> QED BY <1>2, <1>5, <3>1, <4>1
    <3>2. CASE segs'[i] = m BY <1>5, <3>2
    <3> QED BY <1>4, <3>1, <3>2
  <2>2. /\ watermark' <= Len(log')
        /\ step' \notin {"segments", "watermark"} => watermark' = Len(log')
    BY <1>1 DEF PublishedInOrder
  <2> QED BY <1>1, <2>1, <2>2 DEF PublishedInOrder, Lost, LostNow
<1>12. LoadsAreCovered'
  <2>1. ASSUME NEW s \in Sub, at[s] = "read", NEW i \in DOMAIN segs', i > Len(view[s])
        PROVE  LostNow(segs'[i]) \/ pinned[s] < segs'[i]
    <3>1. CASE i \in DOMAIN segs /\ segs'[i] = segs[i]
      <4>1. Lost(segs[i]) \/ pinned[s] < segs[i] BY <2>1, <3>1 DEF LoadsAreCovered
      <4> QED BY <1>2, <1>5, <3>1, <4>1
    <3>2. CASE segs'[i] = m BY <1>5, <3>2
    <3> QED BY <1>4, <3>1, <3>2
  <2> QED BY <1>1, <2>1 DEF LoadsAreCovered, Lost, LostNow, Polling, waitVars, readVars
<1>13. CursorInBounds' /\ NewIsEmpty'
  BY <1>1 DEF CursorInBounds, NewIsEmpty, readVars, identity
<1>14. DeliveredExactly'
  BY <1>1, <1>5 DEF DeliveredExactly, Lost, LostNow, readVars, identity
<1>15. LastPollSeesAll' /\ EndedIsDrained'
  BY <1>1, SMT DEF LastPollSeesAll, EndedIsDrained, waitVars, identity, readVars, ShapesOK
<1>16. LostBehind' BY <1>1, <1>2, <1>3 DEF LostBehind
<1> QED BY <1>10, <1>11, <1>12, <1>13, <1>14, <1>15, <1>16

LEMMA WriterKeeps == ReadInv /\ (Publish \/ Close) => ReadInv'
<1> SUFFICES ASSUME ReadInv, Publish \/ Close PROVE ReadInv'
  OBVIOUS
<1> USE DEF ReadInv
<1>1. /\ UNCHANGED <<log, segs, lostFrom, identity, readVars, seen, closing>>
      /\ DOMAIN at' = Sub
      /\ \A s \in Sub : at'[s] = at[s] \/ (at[s] = "parked" /\ at'[s] = "woken")
  <2>1. UNCHANGED <<log, segs, lostFrom, identity, readVars, seen, closing>>
    BY DEF Publish, Close, PublishSegments, PublishWatermark, WakeGate, WakeNotify,
           CloseNotify, waitVars
  <2>2. \/ at' = at
        \/ at' = [s \in Sub |-> IF at[s] = "parked" THEN "woken" ELSE at[s]]
    BY DEF Publish, Close, PublishSegments, PublishWatermark, WakeGate, WakeNotify,
           CloseNotify, NotifyAll
  <2>3. DOMAIN at = Sub BY DEF ShapesOK
  <2>4. CASE at' = at BY <2>1, <2>3, <2>4
  <2>5. CASE at' = [s \in Sub |-> IF at[s] = "parked" THEN "woken" ELSE at[s]]
    <3>1. DOMAIN at' = Sub BY <2>5
    <3>2. \A s \in Sub : at'[s] = at[s] \/ (at[s] = "parked" /\ at'[s] = "woken") BY <2>5
    <3> QED BY <2>1, <3>1, <3>2
  <2> QED BY <2>2, <2>4, <2>5
<1>2. DeliveredExactly' BY <1>1, DeliveredKept DEF identity, readVars
<1>3. CASE PublishSegments
  BY <1>1, <1>2, <1>3, SMT
    DEF PublishSegments, ShapesOK, PublishedInOrder, LoadsAreCovered, CursorInBounds,
        NewIsEmpty, LostBehind, Lost, LastPollSeesAll, EndedIsDrained, Polling, identity, readVars, waitVars
<1>4. CASE PublishWatermark
  BY <1>1, <1>2, <1>4, SMT
    DEF PublishWatermark, ShapesOK, PublishedInOrder, LoadsAreCovered, CursorInBounds,
        NewIsEmpty, LostBehind, Lost, LastPollSeesAll, EndedIsDrained, Polling, identity, readVars, waitVars
<1>5. CASE WakeGate \/ WakeNotify \/ CloseNotify \/ Close
  <2>1. UNCHANGED <<snap, watermark>>
    BY <1>5 DEF WakeGate, WakeNotify, CloseNotify, Close, coreVars
  <2>2. /\ step \notin {"segments", "watermark"} /\ step' \notin {"segments", "watermark"}
        /\ closed' => step' \in {"closeNotify", "exited"}
        /\ closed => closed'
        /\ closed' \in BOOLEAN
    <3>1. closed \in BOOLEAN /\ (closed => step \in {"closeNotify", "exited"})
      BY DEF ShapesOK, LastPollSeesAll
    <3>2. CASE WakeGate BY <3>1, <3>2, SMT DEF WakeGate, coreVars
    <3>3. CASE WakeNotify BY <3>1, <3>3, SMT DEF WakeNotify, coreVars
    <3>4. CASE CloseNotify BY <3>1, <3>4, SMT DEF CloseNotify, coreVars
    <3>5. CASE Close BY <3>1, <3>5, SMT DEF Close
    <3> QED BY <1>5, <3>2, <3>3, <3>4, <3>5
  <2> QED
    BY <1>1, <1>2, <2>1, <2>2, SMT
      DEF ShapesOK, PublishedInOrder, LoadsAreCovered, CursorInBounds,
          NewIsEmpty, LostBehind, Lost, LastPollSeesAll, EndedIsDrained, Polling, identity, readVars
<1> QED BY <1>3, <1>4, <1>5 DEF Publish

--------------------
\* A subscription opens with an empty window: (after, after].
LEMMA SubscribeKeeps == ASSUME NEW s \in Sub PROVE ReadInv /\ Subscribe(s) => ReadInv'
<1> SUFFICES ASSUME ReadInv, Subscribe(s) PROVE ReadInv'
  OBVIOUS
<1> USE DEF ReadInv
<1>1. PICK k \in Kinds[s], q \in Queries, after \in Starts :
          /\ kind' = [kind EXCEPT ![s] = k]
          /\ query' = [query EXCEPT ![s] = q]
          /\ start' = [start EXCEPT ![s] = after]
          /\ cursor' = [cursor EXCEPT ![s] = after]
  BY DEF Subscribe
<1>2. after \in Nat BY <1>1, ReadCoreAssumption DEF ReadCoreAssumption
<1>3. /\ at[s] = "new" /\ at' = [at EXCEPT ![s] = "poll"]
      /\ UNCHANGED <<log, segs, step, lostFrom, snap, watermark, closed, pinned, view,
                     delivered, seen, closing>>
  BY DEF Subscribe, Go, writerVars, waitVars
<1>4. ShapesOK' /\ LostBehind' BY <1>1, <1>2, <1>3, SMT DEF ShapesOK, LostBehind
<1>5. PublishedInOrder' /\ LoadsAreCovered'
  BY <1>3, SMT DEF PublishedInOrder, LoadsAreCovered, Lost, Polling, ShapesOK
<1>6. CursorInBounds' /\ NewIsEmpty'
  BY <1>1, <1>2, <1>3, SMT DEF CursorInBounds, NewIsEmpty, ShapesOK
<1>7. DeliveredExactly'
  <2> SUFFICES ASSUME NEW x \in Sub
               PROVE  LET d == delivered[x] IN
                      /\ \A i, j \in DOMAIN d : i < j => d[i] < d[j]
                      /\ {d[i] : i \in DOMAIN d} =
                            {p \in DOMAIN log : /\ start'[x] < p /\ p <= cursor'[x] /\ ~ Lost(p)
                                                /\ Matches(query'[x], log[p])}
    BY <1>3 DEF DeliveredExactly, Lost
  <2>1. CASE x # s
    <3>1. start'[x] = start[x] /\ cursor'[x] = cursor[x] /\ query'[x] = query[x]
      BY <1>1, <2>1 DEF ShapesOK
    <3> QED BY <3>1 DEF DeliveredExactly
  <2>2. CASE x = s
    <3>1. start'[x] = after /\ cursor'[x] = after BY <1>1, <2>2 DEF ShapesOK
    <3>2. delivered[x] = <<>> /\ DOMAIN delivered[x] = {} BY <1>3, <2>2 DEF NewIsEmpty
    <3>3. DOMAIN log \subseteq Nat BY LenProperties DEF ShapesOK
    <3>4. {p \in DOMAIN log : /\ start'[x] < p /\ p <= cursor'[x] /\ ~ Lost(p)
                              /\ Matches(query'[x], log[p])} = {}
      BY <1>2, <3>1, <3>3, SMT
    <3> QED BY <3>2, <3>4
  <2> QED BY <2>1, <2>2
<1>8. LastPollSeesAll' /\ EndedIsDrained'
  BY <1>1, <1>3, SMT DEF LastPollSeesAll, EndedIsDrained, Polling, ShapesOK
<1> QED BY <1>4, <1>5, <1>6, <1>7, <1>8

\* The two loads of a poll.
LEMMA LoadsKeep ==
    ASSUME NEW s \in Sub PROVE ReadInv /\ (LoadWatermark(s) \/ LoadSnapshot(s)) => ReadInv'
<1> SUFFICES ASSUME ReadInv, LoadWatermark(s) \/ LoadSnapshot(s) PROVE ReadInv'
  OBVIOUS
<1> USE DEF ReadInv
<1>1. UNCHANGED <<log, segs, step, lostFrom, snap, watermark, closed, identity, cursor,
                  delivered, closing>>
  BY DEF LoadWatermark, LoadSnapshot, writerVars, coreVars, waitVars
<1>2. DeliveredExactly' BY <1>1, DeliveredKept DEF identity
<1>3. CASE LoadWatermark(s)
  <2>1. PICK w \in seen[s]..watermark : /\ pinned' = [pinned EXCEPT ![s] = w]
                                        /\ seen' = [seen EXCEPT ![s] = w]
    BY <1>3 DEF LoadWatermark
  <2>2. w \in Nat /\ seen[s] <= w /\ w <= watermark BY <2>1, SMT DEF ShapesOK
  <2>3. at' = [at EXCEPT ![s] = "load"] /\ view' = view BY <1>3 DEF LoadWatermark, Go
  <2> QED
    BY <1>1, <1>2, <2>1, <2>2, <2>3, SMT
      DEF ShapesOK, PublishedInOrder, LoadsAreCovered, CursorInBounds,
          NewIsEmpty, LostBehind, Lost, LastPollSeesAll, EndedIsDrained, Polling, identity
<1>4. CASE LoadSnapshot(s)
  <2>1. /\ at[s] = "load" /\ at' = [at EXCEPT ![s] = "read"]
        /\ view' = [view EXCEPT ![s] = snap]
        /\ UNCHANGED <<pinned, seen>>
    BY <1>4 DEF LoadSnapshot, Go, waitVars
  <2>2. ShapesOK' BY <1>1, <2>1 DEF ShapesOK, identity
  <2>3. LoadsAreCovered'
    <3>1. /\ watermark \in Nat /\ pinned[s] \in Nat
          /\ \A i \in DOMAIN segs : segs[i] \in Nat
      BY ElementOfSeq, LenProperties DEF ShapesOK
    <3>2. pinned[s] <= watermark BY <2>1 DEF LoadsAreCovered, Polling
    <3>3. \A i \in DOMAIN segs : i > Len(snap) => Lost(segs[i]) \/ pinned[s] < segs[i]
      BY <3>1, <3>2, SMT DEF PublishedInOrder
    <3> QED BY <1>1, <2>1, <3>2, <3>3 DEF LoadsAreCovered, Lost, Polling, ShapesOK
  <2> QED
    BY <1>1, <1>2, <2>1, <2>2, <2>3, SMT
      DEF ShapesOK, PublishedInOrder, CursorInBounds,
          NewIsEmpty, LostBehind, Lost, LastPollSeesAll, EndedIsDrained, Polling, identity
<1> QED BY <1>3, <1>4

--------------------
\* Sequences that ascend: a batch above all that came before extends one.
Ascends(d) == \A i, j \in DOMAIN d : i < j => d[i] < d[j]

Elements(d) == {d[i] : i \in DOMAIN d}

LEMMA AscendingConcat ==
    ASSUME NEW d \in Seq(Nat), NEW b \in Seq(Nat), Ascends(d), Ascends(b),
           \A x \in Elements(d), y \in Elements(b) : x < y
    PROVE  /\ d \o b \in Seq(Nat)
           /\ Ascends(d \o b)
           /\ Elements(d \o b) = Elements(d) \cup Elements(b)
<1>1. /\ d \o b \in Seq(Nat)
      /\ Len(d \o b) = Len(d) + Len(b)
      /\ \A i \in 1..Len(d) + Len(b) :
            (d \o b)[i] = IF i <= Len(d) THEN d[i] ELSE b[i - Len(d)]
  BY ConcatProperties
<1>2. /\ Len(d) \in Nat /\ DOMAIN d = 1..Len(d)
      /\ Len(b) \in Nat /\ DOMAIN b = 1..Len(b)
  BY LenProperties
<1>3. DOMAIN (d \o b) = 1..(Len(d) + Len(b)) BY <1>1, LenProperties
<1> DEFINE e == d \o b
<1>4. \A i \in DOMAIN e : \/ i \in DOMAIN d /\ e[i] = d[i]
                          \/ i - Len(d) \in DOMAIN b /\ e[i] = b[i - Len(d)]
  BY <1>1, <1>2, <1>3, SMT
<1>5. /\ \A i \in DOMAIN d : i \in DOMAIN e /\ e[i] = d[i]
      /\ \A i \in DOMAIN b : i + Len(d) \in DOMAIN e /\ e[i + Len(d)] = b[i]
  BY <1>1, <1>2, <1>3, SMT
<1> HIDE DEF e
<1>6. Elements(e) = Elements(d) \cup Elements(b)
  <2>1. Elements(e) \subseteq Elements(d) \cup Elements(b) BY <1>4 DEF Elements
  <2>2. Elements(d) \subseteq Elements(e) /\ Elements(b) \subseteq Elements(e)
    BY <1>5 DEF Elements
  <2> QED BY <2>1, <2>2
<1>7. Ascends(e)
  <2> SUFFICES ASSUME NEW i \in DOMAIN e, NEW j \in DOMAIN e, i < j PROVE e[i] < e[j]
    BY DEF Ascends
  <2>1. i \in Nat /\ j \in Nat /\ i \in 1..(Len(d) + Len(b)) /\ j \in 1..(Len(d) + Len(b))
    BY <1>2, <1>3, SMT DEF e
  <2>2. CASE j <= Len(d)
    <3>1. i \in DOMAIN d /\ j \in DOMAIN d BY <1>2, <2>1, <2>2, SMT
    <3> QED BY <1>5, <3>1 DEF Ascends
  <2>3. CASE i <= Len(d) /\ ~ j <= Len(d)
    <3>1. i \in DOMAIN d /\ j - Len(d) \in DOMAIN b /\ (j - Len(d)) + Len(d) = j
      BY <1>2, <2>1, <2>3, SMT
    <3>2. e[i] = d[i] /\ e[j] = b[j - Len(d)] BY <1>5, <3>1
    <3> QED BY <3>1, <3>2 DEF Elements
  <2>4. CASE ~ i <= Len(d)
    <3>a. /\ i - Len(d) \in 1..Len(b) /\ j - Len(d) \in 1..Len(b)
          /\ i - Len(d) < j - Len(d)
      BY <1>2, <2>1, <2>4, SMT
    <3>b. (i - Len(d)) + Len(d) = i /\ (j - Len(d)) + Len(d) = j BY <1>2, <2>1, SMT
    <3>1. /\ i - Len(d) \in DOMAIN b /\ j - Len(d) \in DOMAIN b
          /\ (i - Len(d)) + Len(d) = i /\ (j - Len(d)) + Len(d) = j
          /\ i - Len(d) < j - Len(d)
      BY <1>2, <3>a, <3>b
    <3>2. e[i] = b[i - Len(d)] /\ e[j] = b[j - Len(d)] BY <1>5, <3>1
    <3> QED BY <3>1, <3>2 DEF Ascends
  <2> QED BY <2>2, <2>3, <2>4
<1> QED BY <1>1, <1>6, <1>7 DEF e

\* Reads::plan misses nothing of (cursor, pinned] before the first lost seal: the loaded snapshot
\* holds it all.
LEMMA ReadableIsAll ==
    ASSUME ReadInv, NEW s \in Sub, at[s] = "read"
    PROVE  /\ Readable(s) = {p \in DOMAIN log : /\ cursor[s] < p /\ p <= pinned[s] /\ ~ Lost(p)
                                                /\ Matches(query[s], log[p])}
           /\ Readable(s) \subseteq Nat
           /\ IsFiniteSet(Readable(s))
<1>1. /\ Len(log) \in Nat /\ DOMAIN log = 1..Len(log)
      /\ pinned[s] \in Nat /\ lostFrom \in Nat
      /\ \A i \in DOMAIN segs : segs[i] \in Nat
  BY LenProperties, ElementOfSeq DEF ReadInv, ShapesOK
<1>2. \A i \in DOMAIN segs : i > Len(view[s]) => Lost(segs[i]) \/ pinned[s] < segs[i]
  BY DEF ReadInv, LoadsAreCovered
<1>3. \A p \in DOMAIN log : p <= pinned[s] /\ ~ Lost(p) => Holds(view[s], p)
  BY <1>1, <1>2, SMT DEF Holds, Lost
<1>4. Readable(s) \in SUBSET (1..Len(log)) BY <1>1 DEF Readable, Wanted
<1>5. IsFiniteSet(1..Len(log)) BY <1>1, FS_Interval
<1>6. IsFiniteSet(Readable(s)) BY <1>4, <1>5, FS_Subset
<1>7. 1..Len(log) \subseteq Nat BY <1>1, SMT
<1> QED BY <1>3, <1>4, <1>6, <1>7 DEF Readable, Wanted

\* A batch of Ascending is an ascending sequence; with as many elements as the set has, it is all
\* of the set.
LEMMA BatchIsSeq ==
    ASSUME NEW S \in SUBSET Nat, NEW n \in Nat, NEW b \in Ascending(S, n)
    PROVE  b \in Seq(Nat) /\ DOMAIN b = 1..n /\ Ascends(b) /\ Elements(b) \subseteq S
<1>1. b \in [1..n -> S] /\ \A i, j \in 1..n : i < j => b[i] < b[j] BY DEF Ascending
<1>2. b \in Seq(Nat)
  <2>1. b \in [1..n -> Nat] BY <1>1
  <2> QED BY <2>1, SMT
<1> QED BY <1>1, <1>2 DEF Ascends, Elements

LEMMA WholeBatch ==
    ASSUME NEW S \in SUBSET Nat, IsFiniteSet(S), NEW b \in Ascending(S, Cardinality(S))
    PROVE  Elements(b) = S
<1>1. Cardinality(S) \in Nat BY FS_CardinalityType
<1> DEFINE n == Cardinality(S)
<1>2. b \in [1..n -> S] /\ \A i, j \in 1..n : i < j => b[i] < b[j] BY DEF Ascending
<1>3. \A i, j \in 1..n : b[i] = b[j] => i = j
  <2> SUFFICES ASSUME NEW i \in 1..n, NEW j \in 1..n, b[i] = b[j], i # j PROVE FALSE
    OBVIOUS
  <2>1. i \in Nat /\ j \in Nat BY <1>1, SMT
  <2>a. b[i] \in Nat /\ b[j] \in Nat
    <3>1. b[i] \in S /\ b[j] \in S BY <1>2
    <3> QED BY <3>1
  <2>2. i < j \/ j < i BY <2>1, SMT
  <2>3. b[i] < b[j] \/ b[j] < b[i] BY <1>2, <2>2
  <2> QED BY <2>a, <2>3, SMT
<1>4. b \in Injection(1..n, S)
  <2>1. DOMAIN b = 1..n BY <1>2
  <2> QED BY <1>2, <1>3, <2>1 DEF Injection, IsInjective
<1>5. Cardinality(1..n) = n
  <2>1. Cardinality(1..n) = IF 1 > n THEN 0 ELSE n - 1 + 1 BY <1>1, FS_Interval
  <2> QED BY <1>1, <2>1, SMT
<1>6. b \in Surjection(1..n, S) BY <1>4, <1>5, FS_Injection
<1>7. \A p \in S : \E i \in 1..n : b[i] = p BY <1>6 DEF Surjection
<1> QED BY <1>2, <1>7 DEF Elements

\* A poll that hands out exactly the matching events of (cursor, c] and moves the cursor to c.
LEMMA HandOut ==
    ASSUME ReadInv, NEW s \in Sub, NEW b \in Seq(Nat), NEW c \in Nat,
           Ascends(b), cursor[s] <= c,
           Elements(b) = {p \in DOMAIN log : /\ cursor[s] < p /\ p <= c /\ ~ Lost(p)
                                             /\ Matches(query[s], log[p])},
           delivered' = [delivered EXCEPT ![s] = @ \o b],
           cursor' = [cursor EXCEPT ![s] = c],
           UNCHANGED <<log, lostFrom, start, query>>
    PROVE  DeliveredExactly' /\ delivered' \in [Sub -> Seq(Nat)]
<1>1. /\ delivered \in [Sub -> Seq(Nat)] /\ cursor \in [Sub -> Nat] /\ start \in [Sub -> Nat]
      /\ DOMAIN log \subseteq Nat
  BY LenProperties DEF ReadInv, ShapesOK
<1> DEFINE d == delivered[s]
           Window(lo, hi) == {p \in DOMAIN log : /\ lo < p /\ p <= hi /\ ~ Lost(p)
                                                 /\ Matches(query[s], log[p])}
<1>2. d \in Seq(Nat) /\ Ascends(d) /\ Elements(d) = Window(start[s], cursor[s])
  BY <1>1 DEF ReadInv, DeliveredExactly, Ascends, Elements
<1>3. start[s] \in Nat /\ cursor[s] \in Nat /\ start[s] <= cursor[s]
  BY <1>1 DEF ReadInv, CursorInBounds
<1>4. \A x \in Elements(d), y \in Elements(b) : x < y BY <1>1, <1>2, <1>3, SMT
<1>5. /\ d \o b \in Seq(Nat)
      /\ Ascends(d \o b)
      /\ Elements(d \o b) = Elements(d) \cup Elements(b)
  <2> HIDE DEF d
  <2> QED BY <1>2, <1>4, AscendingConcat
<1>6. Window(start[s], c) = Window(start[s], cursor[s]) \cup Window(cursor[s], c)
  BY <1>1, <1>3, SMT
<1>7. Elements(d \o b) = Window(start[s], c) BY <1>2, <1>5, <1>6
<1>8. /\ delivered'[s] = d \o b
      /\ \A x \in Sub : x # s => delivered'[x] = delivered[x] /\ cursor'[x] = cursor[x]
      /\ cursor'[s] = c
  BY <1>1
<1>9. delivered' \in [Sub -> Seq(Nat)] BY <1>1, <1>5
<1>10. DeliveredExactly'
  <2> SUFFICES ASSUME NEW x \in Sub
               PROVE  /\ Ascends(delivered'[x])
                      /\ Elements(delivered'[x]) =
                            {p \in DOMAIN log : /\ start[x] < p /\ p <= cursor'[x] /\ ~ Lost(p)
                                                /\ Matches(query[x], log[p])}
    BY DEF DeliveredExactly, Lost, Ascends, Elements
  <2>1. CASE x = s BY <1>5, <1>7, <1>8, <2>1
  <2>2. CASE x # s BY <1>8, <2>2 DEF ReadInv, DeliveredExactly, Ascends, Elements
  <2> QED BY <2>1, <2>2
<1> QED BY <1>9, <1>10

\* What a poll changes apart from the batch: the parts of the invariant that the batch does not
\* touch.
LEMMA PollKeepsRest ==
    ASSUME ReadInv, NEW s \in Sub, NEW c \in Nat, NEW place,
           at[s] = "read", place \in {"poll", "ended", "wait", "asyncWait"},
           place = "ended" => kind[s] = "server" \/ (closing[s] /\ c >= pinned[s]),
           cursor[s] <= c, c <= watermark \/ c = cursor[s],
           cursor' = [cursor EXCEPT ![s] = c],
           closing' = [closing EXCEPT ![s] = FALSE],
           at' = [at EXCEPT ![s] = place],
           Release(s),
           delivered' \in [Sub -> Seq(Nat)],
           \A x \in Sub : x # s => delivered'[x] = delivered[x],
           UNCHANGED <<writerVars, coreVars, identity, seen>>,
           DeliveredExactly'
    PROVE  ReadInv'
<1> USE DEF ReadInv
<1>1. UNCHANGED <<log, segs, step, lostFrom, snap, watermark, closed, kind, query, start,
                  seen>>
  BY DEF writerVars, coreVars, identity
<1>2. ShapesOK'
  <2>1. pinned' \in [Sub -> Nat] /\ view' \in [Sub -> Seq(Nat)]
    BY EmptySeq DEF Release, ShapesOK
  <2>2. cursor' \in [Sub -> Nat] /\ closing' \in [Sub -> BOOLEAN] /\ DOMAIN at' = Sub
    BY DEF ShapesOK
  <2> QED BY <1>1, <2>1, <2>2 DEF ShapesOK
<1>3. /\ at'[s] = place /\ cursor'[s] = c /\ closing'[s] = FALSE
      /\ \A x \in Sub : x # s => /\ at'[x] = at[x] /\ cursor'[x] = cursor[x]
                                 /\ closing'[x] = closing[x] /\ pinned'[x] = pinned[x]
                                 /\ view'[x] = view[x]
  BY DEF ShapesOK, Release
<1>4. PublishedInOrder' /\ LostBehind' BY <1>1 DEF PublishedInOrder, LostBehind, Lost
<1>5. LoadsAreCovered' BY <1>1, <1>3 DEF LoadsAreCovered, Lost, Polling
<1>6. CursorInBounds'
  <2>1. cursor[s] \in Nat /\ start[s] \in Nat /\ watermark \in Nat BY DEF ShapesOK
  <2>2. start[s] <= c /\ (c <= watermark \/ c = start[s]) BY <2>1, SMT DEF CursorInBounds
  <2> QED BY <1>1, <1>3, <2>2 DEF CursorInBounds
<1>7. NewIsEmpty' BY <1>3 DEF NewIsEmpty
<1>8. LastPollSeesAll' BY <1>1, <1>3 DEF LastPollSeesAll, Polling
<1>9. EndedIsDrained'
  <2>1. place = "ended" /\ kind[s] # "server" => closed /\ c >= Len(log)
    <3> SUFFICES ASSUME place = "ended", kind[s] # "server" PROVE closed /\ c >= Len(log)
      OBVIOUS
    <3>1. closed /\ pinned[s] >= Len(log) /\ c >= pinned[s]
      BY DEF LastPollSeesAll, Polling
    <3>2. pinned[s] \in Nat /\ Len(log) \in Nat BY LenProperties DEF ShapesOK
    <3> QED BY <3>1, <3>2, SMT
  <2> QED BY <1>1, <1>3, <2>1 DEF EndedIsDrained
<1> QED BY <1>2, <1>4, <1>5, <1>6, <1>7, <1>8, <1>9

\* The batch is full: it is what is readable up to its last event, where the cursor stops.
LEMMA PollFullKeeps ==
    ASSUME ReadInv, NEW s \in Sub, PollCapped(s), Cardinality(Readable(s)) >= MaxBatchEvents
    PROVE  ReadInv'
<1> DEFINE n == MaxBatchEvents
<1>1. n \in Nat /\ n \in 1..n /\ at[s] = "read"
  BY ReadCoreAssumption, SMT DEF ReadCoreAssumption, PollCapped
<1>a. IsFiniteSet(Readable(s)) /\ Cardinality(Readable(s)) \in Nat
  BY <1>1, ReadableIsAll, FS_CardinalityType
<1>2. PICK b \in Ascending(Readable(s), n) :
          /\ delivered' = [delivered EXCEPT ![s] = @ \o b]
          /\ cursor' = [cursor EXCEPT ![s] = b[n]]
  <2>1. ~ (Cardinality(Readable(s)) < MaxBatchEvents) BY <1>1, <1>a
  <2> QED BY <2>1 DEF PollCapped
<1>3. /\ Readable(s) = {p \in DOMAIN log : /\ cursor[s] < p /\ p <= pinned[s] /\ ~ Lost(p)
                                           /\ Matches(query[s], log[p])}
      /\ Readable(s) \in SUBSET Nat
  BY <1>1, ReadableIsAll
<1>4. b \in Seq(Nat) /\ DOMAIN b = 1..n /\ Ascends(b) /\ Elements(b) \subseteq Readable(s)
  <2> HIDE DEF n
  <2> QED BY <1>1, <1>2, <1>3, BatchIsSeq
<1>5. /\ b \in [1..n -> Readable(s)]
      /\ \A p \in Readable(s) : (\E i \in 1..n : b[i] = p) \/ \A i \in 1..n : b[i] < p
  BY <1>2 DEF Ascending
<1> DEFINE c == b[n]
<1>6. c \in Readable(s) /\ c \in Nat /\ cursor[s] \in Nat /\ pinned[s] \in Nat
      /\ watermark \in Nat /\ pinned[s] <= watermark
  BY <1>1, <1>3, <1>5 DEF ReadInv, ShapesOK, LoadsAreCovered, Polling
<1>7. cursor[s] < c /\ c <= pinned[s] BY <1>3, <1>6
<1>8. \A i \in 1..n : b[i] <= c
  <2> SUFFICES ASSUME NEW i \in 1..n PROVE b[i] <= b[n]
    OBVIOUS
  <2>1. b[i] \in Nat /\ b[n] \in Nat BY <1>1, <1>3, <1>5
  <2>2. CASE i = n BY <2>1, <2>2, SMT
  <2>3. CASE i # n
    <3>1. i < n BY <1>1, <2>3, SMT
    <3>2. b[i] < b[n] BY <1>1, <1>4, <3>1 DEF Ascends
    <3> QED BY <2>1, <3>2, SMT
  <2> QED BY <2>2, <2>3
<1>9. Elements(b) = {p \in DOMAIN log : /\ cursor[s] < p /\ p <= c /\ ~ Lost(p)
                                        /\ Matches(query[s], log[p])}
  <2>1. \A p \in DOMAIN log : p \in Nat BY LenProperties DEF ReadInv, ShapesOK
  <2>2. ASSUME NEW p \in Readable(s), p <= c PROVE p \in Elements(b)
    <3>1. ~ c < p BY <1>3, <1>6, <2>2, SMT
    <3> QED BY <1>1, <1>4, <1>5, <3>1 DEF Elements
  <2>3. \A p \in Elements(b) : p \in Readable(s) /\ p <= c BY <1>4, <1>8 DEF Elements
  <2>4. \A p \in DOMAIN log : p <= c => p <= pinned[s] BY <1>6, <1>7, <2>1, SMT
  <2> HIDE DEF c
  <2> QED BY <1>3, <2>2, <2>3, <2>4
<1>10. cursor[s] <= c /\ c <= watermark BY <1>6, <1>7, SMT
<1>11. UNCHANGED <<writerVars, coreVars, identity, seen>>
       /\ closing' = [closing EXCEPT ![s] = FALSE]
       /\ at' = [at EXCEPT ![s] = "poll"]
       /\ Release(s)
  BY DEF PollCapped, Go
<1>12. DeliveredExactly' /\ delivered' \in [Sub -> Seq(Nat)]
  <2>1. UNCHANGED <<log, lostFrom, start, query>> BY <1>11 DEF writerVars, identity
  <2>2. cursor' = [cursor EXCEPT ![s] = c] BY <1>2
  <2> HIDE DEF c
  <2> QED BY <1>2, <1>4, <1>6, <1>9, <1>10, <2>1, <2>2, HandOut
<1>13. \A x \in Sub : x # s => delivered'[x] = delivered[x] BY <1>2 DEF ReadInv, ShapesOK
<1>14. cursor' = [cursor EXCEPT ![s] = c] BY <1>2
<1> HIDE DEF c
<1> QED BY <1>1, <1>6, <1>10, <1>11, <1>12, <1>13, <1>14, PollKeepsRest

\* The batch is full and some of it comes from beyond a lost seal, where the cursor stops: what
\* comes before is all that was readable.
LEMMA PollAstrayKeeps ==
    ASSUME ReadInv, NEW s \in Sub, PollCapped(s), ~ (Cardinality(Readable(s)) >= MaxBatchEvents)
    PROVE  ReadInv'
<1>1. at[s] = "read" BY DEF PollCapped
<1>2. PICK b \in Ascending(Readable(s), Cardinality(Readable(s))) :
          delivered' = [delivered EXCEPT ![s] = @ \o b]
  BY DEF PollCapped
<1>3. /\ Readable(s) = {p \in DOMAIN log : /\ cursor[s] < p /\ p <= pinned[s] /\ ~ Lost(p)
                                           /\ Matches(query[s], log[p])}
      /\ Readable(s) \in SUBSET Nat
      /\ IsFiniteSet(Readable(s))
  BY <1>1, ReadableIsAll
<1>4. Cardinality(Readable(s)) \in Nat BY <1>3, FS_CardinalityType
<1>5. b \in Seq(Nat) /\ Ascends(b) BY <1>2, <1>3, <1>4, BatchIsSeq
<1>6. Elements(b) = Readable(s) BY <1>2, <1>3, WholeBatch
<1>7. PICK c \in Astray(s) : cursor' = [cursor EXCEPT ![s] = c] BY DEF PollCapped
<1>8. /\ c \in Nat /\ cursor[s] \in Nat /\ pinned[s] \in Nat /\ watermark \in Nat
      /\ lostFrom \in Nat /\ pinned[s] <= watermark /\ cursor[s] < c /\ c <= pinned[s] /\ Lost(c)
      /\ \A p \in DOMAIN log : p \in Nat
  BY <1>1, LenProperties DEF Astray, Wanted, ReadInv, ShapesOK, LoadsAreCovered, Polling
<1>9. \A p \in DOMAIN log : ~ Lost(p) => (p <= c /\ p <= pinned[s])
  BY <1>8, SMT DEF Lost
<1>10. Elements(b) = {p \in DOMAIN log : /\ cursor[s] < p /\ p <= c /\ ~ Lost(p)
                                         /\ Matches(query[s], log[p])}
  BY <1>3, <1>6, <1>9
<1>11. /\ UNCHANGED <<writerVars, coreVars, identity, seen>>
       /\ closing' = [closing EXCEPT ![s] = FALSE]
       /\ at' = [at EXCEPT ![s] = "poll"]
       /\ Release(s)
  BY DEF PollCapped, Go
<1>12. cursor[s] <= c /\ c <= watermark BY <1>8, SMT
<1>13. DeliveredExactly' /\ delivered' \in [Sub -> Seq(Nat)]
  <2>1. UNCHANGED <<log, lostFrom, start, query>> BY <1>11 DEF writerVars, identity
  <2> QED BY <1>2, <1>5, <1>7, <1>8, <1>10, <1>12, <2>1, HandOut
<1>14. \A x \in Sub : x # s => delivered'[x] = delivered[x] BY <1>2 DEF ReadInv, ShapesOK
<1> QED BY <1>1, <1>7, <1>8, <1>11, <1>12, <1>13, <1>14, PollKeepsRest

LEMMA PollCappedKeeps == ASSUME NEW s \in Sub PROVE ReadInv /\ PollCapped(s) => ReadInv'
BY PollFullKeeps, PollAstrayKeeps

\* A read that fails hands out nothing and leaves the cursor.
LEMMA PollFailsKeeps == ASSUME NEW s \in Sub PROVE ReadInv /\ PollFails(s) => ReadInv'
<1> SUFFICES ASSUME ReadInv, PollFails(s) PROVE ReadInv'
  OBVIOUS
<1>1. /\ at[s] = "read" /\ UNCHANGED <<writerVars, coreVars, identity, cursor, delivered, seen>>
      /\ closing' = [closing EXCEPT ![s] = FALSE] /\ Release(s)
  BY DEF PollFails
<1>2. DeliveredExactly' BY <1>1, DeliveredKept DEF writerVars, identity, ReadInv
<1>3. PICK place \in {"poll", "ended"} : /\ at' = [at EXCEPT ![s] = place]
                                         /\ place = "ended" => kind[s] = "server"
  <2>1. CASE kind[s] = "server" BY <2>1 DEF PollFails, Go
  <2>2. CASE kind[s] # "server" BY <2>2 DEF PollFails, Go
  <2> QED BY <2>1, <2>2
<1>4. /\ delivered \in [Sub -> Seq(Nat)] /\ cursor \in [Sub -> Nat] /\ cursor[s] \in Nat
      /\ cursor' = [cursor EXCEPT ![s] = cursor[s]]
  BY <1>1 DEF ReadInv, ShapesOK
<1>5. cursor[s] <= cursor[s] BY <1>4
<1> QED BY <1>1, <1>2, <1>3, <1>4, <1>5, PollKeepsRest

\* The read ran out: the batch is all that is readable, and the cursor moves to the pinned
\* watermark or, opened beyond it, stays.
LEMMA PollExhaustedKeeps == ASSUME NEW s \in Sub PROVE ReadInv /\ PollExhausted(s) => ReadInv'
<1> SUFFICES ASSUME ReadInv, PollExhausted(s) PROVE ReadInv'
  OBVIOUS
<1>1. at[s] = "read" BY DEF PollExhausted
<1>2. PICK b \in Ascending(Readable(s), Cardinality(Readable(s))) :
          delivered' = [delivered EXCEPT ![s] = @ \o b]
  BY DEF PollExhausted
<1>3. /\ Readable(s) = {p \in DOMAIN log : /\ cursor[s] < p /\ p <= pinned[s] /\ ~ Lost(p)
                                           /\ Matches(query[s], log[p])}
      /\ Readable(s) \in SUBSET Nat
      /\ IsFiniteSet(Readable(s))
  BY <1>1, ReadableIsAll
<1>4. Cardinality(Readable(s)) \in Nat BY <1>3, FS_CardinalityType
<1>5. b \in Seq(Nat) /\ Ascends(b) BY <1>2, <1>3, <1>4, BatchIsSeq
<1>6. Elements(b) = Readable(s) BY <1>2, <1>3, WholeBatch
<1> DEFINE c == Max(cursor[s], pinned[s])
<1>7. /\ cursor[s] \in Nat /\ pinned[s] \in Nat /\ watermark \in Nat
      /\ pinned[s] <= watermark
      /\ \A p \in DOMAIN log : p \in Nat
  BY <1>1, LenProperties DEF ReadInv, ShapesOK, LoadsAreCovered, Polling
<1>8. /\ c \in Nat /\ cursor[s] <= c /\ c >= pinned[s]
      /\ c <= watermark \/ c = cursor[s]
  BY <1>7, SMT DEF Max
<1>9. \A p \in DOMAIN log : cursor[s] < p => (p <= c <=> p <= pinned[s])
  BY <1>7, SMT DEF Max
<1>10. Elements(b) = {p \in DOMAIN log : /\ cursor[s] < p /\ p <= c /\ ~ Lost(p)
                                         /\ Matches(query[s], log[p])}
  <2> HIDE DEF c
  <2> QED BY <1>3, <1>6, <1>9
<1>11. cursor' = [cursor EXCEPT ![s] = c] BY DEF PollExhausted
<1>12. UNCHANGED <<writerVars, coreVars, identity, seen>>
       /\ closing' = [closing EXCEPT ![s] = FALSE]
       /\ Release(s)
  BY DEF PollExhausted
<1> HIDE DEF c
<1>13. DeliveredExactly' /\ delivered' \in [Sub -> Seq(Nat)]
  <2>1. UNCHANGED <<log, lostFrom, start, query>> BY <1>12 DEF writerVars, identity
  <2> QED BY <1>2, <1>5, <1>8, <1>10, <1>11, <2>1, HandOut
<1>14. \A x \in Sub : x # s => delivered'[x] = delivered[x] BY <1>2 DEF ReadInv, ShapesOK
<1>15. PICK place \in {"poll", "ended", "wait", "asyncWait"} :
         /\ at' = [at EXCEPT ![s] = place]
         /\ place = "ended" => closing[s]
  BY DEF PollExhausted, Go
<1> QED BY <1>1, <1>8, <1>11, <1>12, <1>13, <1>14, <1>15, PollKeepsRest

--------------------
\* A subscription that waits, is woken, looks at the gate, sees the close or is dropped: it reads
\* nothing. What it saw of the close is the whole log.
LEMMA WaitKeeps ==
    ASSUME ReadInv, NEW s \in Sub, NEW place,
           place \notin {"new", "load", "read"},
           place = "ended" => kind[s] = "server",
           at' = [at EXCEPT ![s] = place],
           UNCHANGED <<log, segs, step, lostFrom, snap, watermark, closed, identity, readVars>>,
           \/ UNCHANGED <<seen, closing>>
           \/ seen' = [seen EXCEPT ![s] = watermark] /\ UNCHANGED closing
           \/ /\ closed
              /\ seen' = [seen EXCEPT ![s] = watermark]
              /\ closing' = [closing EXCEPT ![s] = TRUE]
    PROVE  ReadInv'
<1> USE DEF ReadInv
<1>1. UNCHANGED <<log, segs, step, lostFrom, snap, watermark, closed, kind, query, start,
                  cursor, pinned, view, delivered>>
  BY DEF identity, readVars
<1>2. /\ at'[s] = place
      /\ \A x \in Sub : x # s => /\ at'[x] = at[x] /\ seen'[x] = seen[x]
                                 /\ closing'[x] = closing[x]
      /\ seen'[s] \in {seen[s], watermark}
  BY DEF ShapesOK
<1>3. closing'[s] => closed BY DEF LastPollSeesAll, ShapesOK
<1>4. watermark \in Nat /\ Len(log) \in Nat /\ seen[s] \in Nat
  BY LenProperties DEF ShapesOK
<1>5. closing'[s] => seen'[s] >= Len(log)
  <2> SUFFICES ASSUME closing'[s] PROVE seen'[s] >= Len(log)
    OBVIOUS
  <2>1. watermark = Len(log) BY <1>3 DEF LastPollSeesAll, PublishedInOrder
  <2>2. CASE seen' = [seen EXCEPT ![s] = watermark]
    <3>1. seen'[s] = watermark BY <2>2 DEF ShapesOK
    <3> QED BY <1>4, <2>1, <3>1, SMT
  <2>3. CASE UNCHANGED <<seen, closing>> BY <2>3 DEF LastPollSeesAll
  <2> QED BY <2>2, <2>3
<1>6. ShapesOK'
  <2>1. seen' \in [Sub -> Nat] /\ closing' \in [Sub -> BOOLEAN] /\ DOMAIN at' = Sub
    BY DEF ShapesOK
  <2> QED BY <1>1, <2>1 DEF ShapesOK
<1>7. PublishedInOrder' /\ LostBehind' /\ CursorInBounds'
  BY <1>1 DEF PublishedInOrder, LostBehind, Lost, CursorInBounds
<1>8. LoadsAreCovered'
  <2>1. seen'[s] <= watermark BY <1>2, <1>4, SMT DEF LoadsAreCovered
  <2> QED BY <1>1, <1>2, <2>1 DEF LoadsAreCovered, Lost, Polling
<1>9. NewIsEmpty' BY <1>1, <1>2 DEF NewIsEmpty
<1>10. DeliveredExactly' BY <1>1, DeliveredKept
<1>11. LastPollSeesAll' BY <1>1, <1>2, <1>3, <1>5 DEF LastPollSeesAll, Polling
<1>12. EndedIsDrained' BY <1>1, <1>2 DEF EndedIsDrained
<1> QED BY <1>6, <1>7, <1>8, <1>9, <1>10, <1>11, <1>12

LEMMA WaitsKeep ==
    ASSUME NEW s \in Sub,
           \/ TakeLock(s) \/ CheckClosed(s) \/ CheckWatermark(s)
           \/ AsyncClosed(s) \/ AsyncGate(s) \/ Listen(s) \/ Await(s)
           \/ Timeout(s) \/ CancelWait(s) \/ DropSubscription(s)
    PROVE  ReadInv => ReadInv'
<1> SUFFICES ASSUME ReadInv PROVE ReadInv'
  OBVIOUS
<1>1. UNCHANGED <<log, segs, step, lostFrom, snap, watermark, closed, identity, readVars>>
  BY DEF TakeLock, CheckClosed, CheckWatermark, AsyncClosed, AsyncGate, Listen, Await,
         Timeout, CancelWait, DropSubscription, writerVars, coreVars
<1>2. ASSUME NEW place, place \notin {"new", "load", "read", "ended"},
             at' = [at EXCEPT ![s] = place],
             \/ UNCHANGED <<seen, closing>>
             \/ seen' = [seen EXCEPT ![s] = watermark] /\ UNCHANGED closing
      PROVE  ReadInv'
  BY <1>1, <1>2, WaitKeeps
<1>3. ASSUME closed, SeeClosed(s) PROVE ReadInv'
  <2> DEFINE place == IF kind[s] = "server" THEN "ended" ELSE "poll"
  <2>1. /\ place \notin {"new", "load", "read"}
        /\ place = "ended" => kind[s] = "server"
    OBVIOUS
  <2>2. /\ at' = [at EXCEPT ![s] = place]
        /\ seen' = [seen EXCEPT ![s] = watermark]
        /\ closing' = [closing EXCEPT ![s] = TRUE]
    BY <1>3 DEF SeeClosed, Go
  <2> HIDE DEF place
  <2> QED BY <1>1, <1>3, <2>1, <2>2, WaitKeeps
<1>4. CASE TakeLock(s) BY <1>2, <1>4 DEF TakeLock, Go, waitVars
<1>5. CASE CheckClosed(s) BY <1>2, <1>3, <1>5 DEF CheckClosed, Go
<1>6. CASE CheckWatermark(s)
  <2> DEFINE place == IF watermark > cursor[s] \/ timed[s] THEN "poll" ELSE "parked"
  <2>1. place \notin {"new", "load", "read", "ended"} OBVIOUS
  <2>2. /\ at' = [at EXCEPT ![s] = place]
        /\ seen' = [seen EXCEPT ![s] = watermark] /\ UNCHANGED closing
    BY <1>6 DEF CheckWatermark, Go
  <2> HIDE DEF place
  <2> QED BY <1>2, <2>1, <2>2
<1>7. CASE AsyncClosed(s)
  <2>1. CASE ~ closed
    <3>1. /\ \E place \in {"asyncGate", "asyncLastGate"} : at' = [at EXCEPT ![s] = place]
          /\ UNCHANGED <<seen, closing>>
      BY <1>7, <2>1 DEF AsyncClosed, Go
    <3>2. PICK place \in {"asyncGate", "asyncLastGate"} : at' = [at EXCEPT ![s] = place]
      BY <3>1
    <3> QED BY <1>2, <3>1, <3>2
  <2>2. CASE closed BY <1>3, <1>7, <2>2 DEF AsyncClosed
  <2> QED BY <2>1, <2>2
<1>8. CASE AsyncGate(s)
  <2>1. /\ \E place \in {"poll", "listen", "await"} : at' = [at EXCEPT ![s] = place]
        /\ seen' = [seen EXCEPT ![s] = watermark] /\ UNCHANGED closing
    BY <1>8 DEF AsyncGate, Go
  <2>2. PICK place \in {"poll", "listen", "await"} : at' = [at EXCEPT ![s] = place]
    BY <2>1
  <2> QED BY <1>2, <2>1, <2>2
<1>9. CASE Listen(s) \/ Await(s) \/ Timeout(s) \/ CancelWait(s) \/ DropSubscription(s)
  <2>1. \E place \in {"asyncAgain", "asyncWait", "woken", "poll", "dropped"} :
            at' = [at EXCEPT ![s] = place]
    BY <1>9 DEF Listen, Await, Timeout, CancelWait, DropSubscription, Go
  <2>2. UNCHANGED <<seen, closing>>
    BY <1>9 DEF Listen, Await, Timeout, CancelWait, DropSubscription, waitVars
  <2>3. PICK place \in {"asyncAgain", "asyncWait", "woken", "poll", "dropped"} :
            at' = [at EXCEPT ![s] = place]
    BY <2>1
  <2> QED BY <1>2, <2>2, <2>3
<1> QED BY <1>4, <1>5, <1>6, <1>7, <1>8, <1>9

--------------------
\* The theorems.
LEMMA StutterKeeps == ReadInv /\ UNCHANGED vars => ReadInv'
<1> SUFFICES ASSUME ReadInv, UNCHANGED vars PROVE ReadInv'
  OBVIOUS
<1>1. UNCHANGED <<log, segs, step, lostFrom, snap, watermark, closed, kind, query, start,
                  cursor, pinned, view, delivered, seen, closing, at>>
  BY DEF vars, writerVars, coreVars, identity, readVars, waitVars
<1> QED
  BY <1>1
    DEF ReadInv, ShapesOK, PublishedInOrder, LoadsAreCovered, CursorInBounds, NewIsEmpty,
        DeliveredExactly, LastPollSeesAll, EndedIsDrained, LostBehind, Lost, Polling

LEMMA StepReadInv == ReadInv /\ [Next]_vars => ReadInv'
<1> SUFFICES ASSUME ReadInv, [Next]_vars PROVE ReadInv'
  OBVIOUS
<1>1. CASE UNCHANGED vars BY <1>1, StutterKeeps
<1>2. CASE CommitBatch BY <1>2, CommitKeeps
<1>7. CASE LoseSeal BY <1>7, LoseSealKeeps
<1>3. CASE Publish \/ Close BY <1>3, WriterKeeps
<1>4. ASSUME NEW s \in Sub, Subscribe(s) PROVE ReadInv' BY <1>4, SubscribeKeeps
<1>5. ASSUME NEW s \in Sub, Drive(s) PROVE ReadInv'
  <2>1. CASE LoadWatermark(s) \/ LoadSnapshot(s) BY <2>1, LoadsKeep
  <2>2. CASE PollCapped(s) BY <2>2, PollCappedKeeps
  <2>3. CASE PollExhausted(s) BY <2>3, PollExhaustedKeeps
  <2>5. CASE PollFails(s) BY <2>5, PollFailsKeeps
  <2>4. CASE \/ TakeLock(s) \/ CheckClosed(s) \/ CheckWatermark(s)
             \/ AsyncClosed(s) \/ AsyncGate(s) \/ Listen(s) \/ Await(s)
    BY <2>4, WaitsKeep
  <2> QED BY <1>5, <2>1, <2>2, <2>3, <2>4, <2>5 DEF Drive
<1>6. ASSUME NEW s \in Sub, Timeout(s) \/ CancelWait(s) \/ DropSubscription(s)
      PROVE  ReadInv'
  BY <1>6, WaitsKeep
<1> QED BY <1>1, <1>2, <1>3, <1>4, <1>5, <1>6, <1>7 DEF Next

LEMMA AlwaysReadInv == Spec => []ReadInv
<1>1. Init => ReadInv BY InitReadInv
<1>2. ReadInv /\ [Next]_vars => ReadInv' BY StepReadInv
<1> QED BY <1>1, <1>2, PTL DEF Spec

\* Every subscription, whoever drives it, is handed exactly the matching events between its start
\* and its cursor, once and in order: full batches, failed reads, waits, timeouts, cancelled waits,
\* rollovers between its two loads and the close included (Subscription::poll_batch). Nothing is
\* said of the segments from the first one on whose seal was lost.
THEOREM DeliveryIsExact == Spec => []DeliveredExactly
<1>1. ReadInv => DeliveredExactly BY DEF ReadInv
<1> QED BY <1>1, AlwaysReadInv, PTL

\* A subscription that ended by itself has come to the end of the log for good: the poll after
\* Closed sees the last commit (next_batch and its async twin).
THEOREM EndIsDrained == Spec => []EndedIsDrained
<1>1. ReadInv => EndedIsDrained BY DEF ReadInv
<1> QED BY <1>1, AlwaysReadInv, PTL

\* A snapshot loaded after a watermark covers it, whatever was committed and rolled over between
\* the two loads, up to the first segment whose seal was lost (ReadCore::load).
THEOREM LoadedSnapshotCovers == Spec => []PinnedIsCovered
<1>1. ReadInv => PinnedIsCovered
  <2> SUFFICES ASSUME ReadInv, NEW s \in Sub, at[s] = "read", NEW p \in 1..pinned[s]
               PROVE  p \in DOMAIN log /\ (Lost(p) \/ Holds(view[s], p))
    BY DEF PinnedIsCovered
  <2>1. /\ Len(log) \in Nat /\ DOMAIN log = 1..Len(log)
        /\ pinned[s] \in Nat /\ watermark \in Nat /\ lostFrom \in Nat
        /\ \A i \in DOMAIN segs : segs[i] \in Nat
    BY LenProperties, ElementOfSeq DEF ReadInv, ShapesOK
  <2>2. pinned[s] <= watermark /\ watermark <= Len(log)
    BY DEF ReadInv, LoadsAreCovered, PublishedInOrder, Polling
  <2>3. \A i \in DOMAIN segs : i > Len(view[s]) => Lost(segs[i]) \/ pinned[s] < segs[i]
    BY DEF ReadInv, LoadsAreCovered
  <2>4. p \in DOMAIN log BY <2>1, <2>2, SMT
  <2>5. Lost(p) \/ Holds(view[s], p) BY <2>1, <2>3, SMT DEF Holds, Lost
  <2> QED BY <2>4, <2>5
<1> QED BY <1>1, AlwaysReadInv, PTL
=============================================================================

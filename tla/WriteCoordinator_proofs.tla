----------------------- MODULE WriteCoordinator_proofs -----------------------
\* Proofs about WriteCoordinator, for every set of requests, every size limit, every window and
\* every number of faults and crashes.
EXTENDS WriteCoordinator, SequenceTheorems, TLAPS

--------------------
\* The types of the records the model is built from.

\* Sums of positions are positions.
LEMMA NatSum ==
    \A x, y, z \in Nat : x + y \in Nat /\ x + y + 1 \in Nat /\ x + y + z \in Nat
OBVIOUS

\* A request's fields have the types measure() and the condition give them.
LEMMA RequestFields ==
    ASSUME NEW q \in RequestType
    PROVE  /\ q.events \in Seq(Event)
           /\ q.size \in Nat
           /\ q.after \in Nat
BY DEF RequestType

\* The argument of an unused token, and of a submitted one, is a request.
LEMMA RequestTypes == NoRequest \in RequestType /\ Request \subseteq RequestType
<1>1. Nothing \in Query BY DEF Nothing, Items, Query
<1>2. <<>> \in Seq(Event) OBVIOUS
<1> QED BY <1>1, <1>2, ConstantsAssumption DEF NoRequest, RequestType

\* A record carries an event of the request it belongs to.
LEMMA RecordFields ==
    ASSUME NEW x \in Record
    PROVE  x.req \in Req /\ x.event \in Event /\ x.event.tags \subseteq Tag
BY DEF Record, Event

\* Every answer the writer or a handle builds is a Reply.
LEMMA ReplyTypes ==
    /\ None \in Reply
    /\ Err("lost") \in Reply
    /\ \A kind \in ErrorKinds : Err(kind) \in Reply
    /\ \A clause \in {"boundary", "existence"}, at \in Nat : Conflict(clause, at) \in Reply
    /\ \A g \in Grant : Ok(g) \in Reply
BY DEF None, Err, Conflict, Ok, Reply, Grant

\* What a crash leaves, with or without stray bytes, is one of the remains.
LEMMA RemainsTypes ==
    /\ Nowhere \in Remains
    /\ \A torn \in BOOLEAN : Bytes(torn) \in Remains /\ Bytes(torn).records = <<>>
    /\ \A x \in Remains : x.records \in Seq(Record) /\ x.bytes \in Nat /\ x.torn \in BOOLEAN
<1>1. \A x \in Remains : x.records \in Seq(Record) /\ x.bytes \in Nat /\ x.torn \in BOOLEAN
  BY DEF Remains
<1>2. <<>> \in Seq(Record) OBVIOUS
<1>3. Nowhere \in Remains /\ Nowhere.records = <<>> BY <1>2 DEF Nowhere, Remains
<1>4. ASSUME NEW torn \in BOOLEAN PROVE Bytes(torn) \in Remains /\ Bytes(torn).records = <<>>
  BY <1>3 DEF Bytes, Remains
<1> QED BY <1>1, <1>3, <1>4

\* Overwriting the marks of what remains leaves the batch in it alone.
LEMMA RemainsMarked ==
    ASSUME NEW x \in Remains, NEW torn \in BOOLEAN, NEW skewed \in BOOLEAN
    PROVE  /\ [x EXCEPT !.skewed = skewed] \in Remains
           /\ [x EXCEPT !.skewed = skewed].records = x.records
           /\ [x EXCEPT !.torn = torn, !.skewed = skewed] \in Remains
           /\ [x EXCEPT !.torn = torn, !.skewed = skewed].records = x.records
<1> DEFINE y == [x EXCEPT !.torn = torn]
<1>1. y \in Remains /\ y.records = x.records BY DEF Remains
<1>2. \A z \in Remains : /\ [z EXCEPT !.skewed = skewed] \in Remains
                         /\ [z EXCEPT !.skewed = skewed].records = z.records
  BY DEF Remains
<1>3. [y EXCEPT !.skewed = skewed] = [x EXCEPT !.torn = torn, !.skewed = skewed] OBVIOUS
<1> HIDE DEF y
<1> QED BY <1>1, <1>2, <1>3

\* Batch::stage turns a request's events into records of that request.
LEMMA RecordsOfType ==
    ASSUME TypeOK, NEW r \in Req
    PROVE  /\ RecordsOf(r) \in Seq(Record)
           /\ Len(RecordsOf(r)) = Len(arg[r].events)
           /\ \A i \in 1..Len(RecordsOf(r)) :
                RecordsOf(r)[i].event = arg[r].events[i] /\ RecordsOf(r)[i].req = r
<1>1. arg[r].events \in Seq(Event) BY RequestFields DEF TypeOK, CallersOK
<1>2. \A i \in 1..Len(arg[r].events) :
        [event |-> arg[r].events[i], req |-> r] \in Record
  BY <1>1 DEF Record
<1> QED BY <1>1, <1>2 DEF RecordsOf

--------------------
\* Type correctness. FeedIndex seals the index tail at the position Len(log) - Len(staged) + 1, a
\* position only because the batch is what the log ends with from its commit on.
Fed ==
    pc \in {"feed", "publish", "watermark"} =>
        /\ Len(staged) <= Len(log)
        /\ \A i \in 1..Len(staged) : log[Len(log) - Len(staged) + i] = staged[i]

TypeInv == TypeOK /\ Fed

\* The type invariant holds of the empty store.
LEMMA InitTypeInv == Init => TypeInv
<1> SUFFICES ASSUME Init PROVE TypeInv
  OBVIOUS
<1>1. arg \in [Req -> RequestType] /\ reply \in [Req -> Reply]
  BY RequestTypes, ReplyTypes DEF Init
<1>2. <<1>> \in Seq(Nat) /\ <<1>> # <<>> OBVIOUS
<1>3. NoTips \in [DOMAIN NoTips -> Nat] /\ DOMAIN NoTips = {} BY DEF NoTips
<1>4. shutdown \in BOOLEAN BY Zenon DEF Init
<1>5. CallersOK /\ DrainOK /\ ControlOK
  BY <1>1, <1>4 DEF Init, CallersOK, DrainOK, ControlOK, Phases
<1>6. BatchOK /\ LogOK /\ IndexOK /\ TipsOK /\ ReadOK /\ BoundsOK
  BY <1>2, <1>3, RemainsTypes DEF Init, BatchOK, LogOK, IndexOK, TipsOK, ReadOK, BoundsOK
<1>7. Fed BY DEF Init, Fed
<1> QED BY <1>5, <1>6, <1>7 DEF TypeInv, TypeOK

\* The head of a nonempty sequence is one of its elements, the tail is a sequence of the others.
LEMMA HeadTail ==
    ASSUME NEW S, NEW s \in Seq(S), s # <<>>
    PROVE  /\ Head(s) \in S
           /\ Tail(s) \in Seq(S)
           /\ Len(Tail(s)) = Len(s) - 1
           /\ Head(s) = s[1]
           /\ \A i \in 1..Len(Tail(s)) : Tail(s)[i] = s[i + 1]
BY HeadTailProperties, EmptySeq

\* absorb keeps the tips well typed: a tag of a staged record maps to the position that carries
\* it.
LEMMA AbsorbType ==
    ASSUME TypeOK, AbsorbTips
    PROVE  TipsOK'
<1> USE DEF TypeOK, LogOK, BatchOK, TipsOK
<1>1. StagedTags \subseteq Tag
  <2>1. \A i \in 1..Len(staged) : staged[i].event.tags \subseteq Tag
    BY RecordFields, ElementOfSeq
  <2>2. DOMAIN staged = 1..Len(staged) OBVIOUS
  <2> QED BY <2>1, <2>2 DEF StagedTags
<1>2. RaisedFloor \in Nat
  <2>1. Len(log) \in Nat /\ TipsWindow \in Nat BY ConstantsAssumption
  <2> QED BY <2>1 DEF RaisedFloor, NextPosition
<1>3. PICK m \in StagedTips :
        LET merged == Merge(m) IN
        IF Cardinality(DOMAIN merged) > MaxEntries
        THEN tipFloor' = RaisedFloor /\ tipMax' = Retain(merged, RaisedFloor)
        ELSE tipMax' = merged /\ UNCHANGED tipFloor
  BY DEF AbsorbTips
<1>4. m \in [StagedTags -> Nat] BY DEF StagedTips
<1>5. /\ DOMAIN Merge(m) = DOMAIN tipMax \cup StagedTags
      /\ \A tag \in DOMAIN Merge(m) : Merge(m)[tag] \in Nat
  BY <1>4 DEF Merge
<1>6. /\ DOMAIN Retain(Merge(m), RaisedFloor) \subseteq DOMAIN Merge(m)
      /\ \A tag \in DOMAIN Retain(Merge(m), RaisedFloor) :
            Retain(Merge(m), RaisedFloor)[tag] = Merge(m)[tag]
  BY DEF Retain
<1>7. tipFloor' \in Nat BY <1>2, <1>3
<1>8. tipMax' = Merge(m) \/ tipMax' = Retain(Merge(m), RaisedFloor) BY <1>3
<1>9. tipMax' \in [DOMAIN tipMax' -> Nat]
  <2>1. /\ Merge(m) = [tag \in DOMAIN Merge(m) |-> Merge(m)[tag]]
        /\ Retain(Merge(m), RaisedFloor) =
              [tag \in DOMAIN Retain(Merge(m), RaisedFloor) |-> Merge(m)[tag]]
    BY DEF Merge, Retain
  <2> QED BY <1>5, <1>6, <1>8, <2>1
<1> QED BY <1>1, <1>5, <1>6, <1>7, <1>8, <1>9

\* The first request of a drain starts a fresh batch.
LEMMA StartType ==
    ASSUME TypeInv, NEW r \in Req, Start(r)
    PROVE  /\ CallersOK' /\ ControlOK' /\ BatchOK' /\ LogOK' /\ IndexOK'
           /\ TipsOK' /\ ReadOK' /\ BoundsOK' /\ Fed'
           /\ drained' \in Seq(Req) /\ bytes' \in Nat
<1> USE DEF TypeInv, TypeOK, callerVars, logVars, indexVars, tipVars, readVars, boundVars
<1>1. arg[r].size \in Nat BY RequestFields DEF CallersOK
<1>2. drained' \in Seq(Req) /\ bytes' \in Nat
  BY <1>1, ConstantsAssumption, SMTT(40) DEF Start
<1>3. BatchOK' BY DEF Start, BatchOK
<1>4. CallersOK' /\ LogOK' /\ IndexOK' /\ TipsOK' /\ ReadOK' /\ BoundsOK'
  BY DEF Start, CallersOK, LogOK, IndexOK, TipsOK, ReadOK, BoundsOK
<1>5. pc' \in {"eval", "drain"} BY DEF Start
<1>6. shutdown' \in BOOLEAN BY Zenon DEF Start, ControlOK
<1>7. ControlOK' /\ Fed' BY <1>5, <1>6 DEF ControlOK, Phases, Fed
<1> QED BY <1>2, <1>3, <1>4, <1>7

\* The type invariant is preserved by every step.
LEMMA StepTypeInv == TypeInv /\ [Next]_vars => TypeInv'
<1> SUFFICES ASSUME TypeInv, [Next]_vars PROVE TypeInv'
  OBVIOUS
<1> USE DEF TypeInv, TypeOK, callerVars, drainVars, batchVars, logVars, indexVars, tipVars,
            readVars, boundVars
<1>1. ASSUME NEW r \in Req, Submit(r) PROVE TypeInv'
  <2>1. CallersOK' /\ DrainOK'
    <3>1. PICK q \in Request :
            /\ arg' = arg \/ arg' = [arg EXCEPT ![r] = q]
            /\ \/ reply' = reply
               \/ reply' = [reply EXCEPT ![r] = Err("empty")]
               \/ reply' = [reply EXCEPT ![r] = Err("shutdown")]
            /\ queue' = queue \/ queue' = Append(queue, r)
      BY <1>1 DEF Submit
    <3>2. q \in RequestType /\ Err("empty") \in Reply /\ Err("shutdown") \in Reply
      BY RequestTypes, ReplyTypes DEF ErrorKinds
    <3>3. CallersOK' BY <3>1, <3>2 DEF CallersOK
    <3>4. queue' \in Seq(Req \cup {Shutdown})
      <4>1. queue \in Seq(Req \cup {Shutdown}) /\ r \in Req \cup {Shutdown}
        BY <1>1 DEF DrainOK
      <4> QED BY <3>1, <4>1, AppendProperties
    <3> QED BY <1>1, <3>3, <3>4 DEF Submit, DrainOK
  <2>2. ControlOK' /\ BatchOK' /\ LogOK' /\ IndexOK' /\ TipsOK' /\ ReadOK' /\ BoundsOK' /\ Fed'
    BY <1>1 DEF Submit, ControlOK, BatchOK, LogOK, IndexOK, TipsOK, ReadOK, BoundsOK, Fed
  <2> QED BY <2>1, <2>2
<1>2. CASE SendShutdown
  <2>1. DrainOK' BY <1>2 DEF SendShutdown, DrainOK
  <2>2. CallersOK' /\ ControlOK' /\ BatchOK' /\ LogOK' /\ IndexOK' /\ TipsOK' /\ ReadOK'
          /\ BoundsOK' /\ Fed'
    BY <1>2 DEF SendShutdown, CallersOK, ControlOK, BatchOK, LogOK, IndexOK, TipsOK, ReadOK,
                BoundsOK, Fed
  <2> QED BY <2>1, <2>2
<1>3. CASE TakePushback
  <2>1. Head(pushback) \in Req BY <1>3, HeadTail DEF TakePushback, DrainOK
  <2>2. queue' = queue /\ pushback' = <<>> BY <1>3 DEF TakePushback
  <2> QED BY <1>3, <2>1, <2>2, StartType DEF TakePushback, DrainOK
<1>4. CASE ReceiveFirst
  <2>1. Head(queue) \in Req /\ Tail(queue) \in Seq(Req \cup {Shutdown})
    BY <1>4, HeadTail DEF ReceiveFirst, DrainOK
  <2> QED BY <1>4, <2>1, StartType DEF ReceiveFirst, DrainOK
<1>5. CASE ReceiveShutdown
  <2>1. Tail(queue) \in Seq(Req \cup {Shutdown})
    BY <1>5, HeadTail DEF ReceiveShutdown, DrainOK
  <2>2. shutdown' \in BOOLEAN BY <1>5, Zenon DEF ReceiveShutdown
  <2>3. DrainOK' /\ ControlOK' /\ Fed'
    BY <1>5, <2>1, <2>2 DEF ReceiveShutdown, DrainOK, ControlOK, Phases, Fed
  <2>4. CallersOK' /\ BatchOK' /\ LogOK' /\ IndexOK' /\ TipsOK' /\ ReadOK' /\ BoundsOK'
    BY <1>5 DEF ReceiveShutdown, CallersOK, BatchOK, LogOK, IndexOK, TipsOK, ReadOK, BoundsOK
  <2> QED BY <2>3, <2>4
<1>6. CASE DrainOne
  <2> DEFINE r == Head(queue)
  <2>1. r \in Req \cup {Shutdown} /\ Tail(queue) \in Seq(Req \cup {Shutdown})
    BY <1>6, HeadTail DEF DrainOne, DrainOK
  <2>2. r # Shutdown => arg[r].size \in Nat BY <2>1, RequestFields DEF CallersOK
  <2> HIDE DEF r
  <2>3. queue' = Tail(queue) BY <1>6 DEF DrainOne
  <2>4. \/ /\ r # Shutdown
           /\ drained' = Append(drained, r)
           /\ bytes' = bytes + arg[r].size
           /\ UNCHANGED <<pushback, shutdown, pc>>
        \/ /\ r # Shutdown
           /\ pushback' = <<r>>
           /\ pc' = "eval"
           /\ UNCHANGED <<drained, bytes, shutdown>>
        \/ /\ shutdown' = TRUE
           /\ pc' = "eval"
           /\ UNCHANGED <<pushback, drained, bytes>>
    BY <1>6 DEF DrainOne, r
  <2>5. DrainOK'
    <3>1. CASE r = Shutdown BY <2>1, <2>3, <2>4, <3>1 DEF DrainOK
    <3>2. CASE r # Shutdown
      <4>1. r \in Req /\ arg[r].size \in Nat BY <2>1, <2>2, <3>2
      <4>2. /\ drained' = drained \/ drained' = Append(drained, r)
            /\ bytes' = bytes \/ bytes' = bytes + arg[r].size
            /\ pushback' = pushback \/ pushback' = <<r>>
        BY <2>4, <3>2
      <4>3. drained' \in Seq(Req) /\ pushback' \in Seq(Req) /\ bytes' \in Nat
        <5>1. drained \in Seq(Req) /\ pushback \in Seq(Req) /\ bytes \in Nat
          BY DEF DrainOK
        <5>2. drained' \in Seq(Req) BY <4>1, <4>2, <5>1, AppendProperties
        <5>3. <<r>> \in Seq(Req) BY <4>1
        <5>4. pushback' \in Seq(Req) BY <4>2, <5>1, <5>3
        <5>5. bytes + arg[r].size \in Nat BY <4>1, <5>1, NatSum, Zenon
        <5> QED BY <4>2, <5>1, <5>2, <5>4, <5>5
      <4> QED BY <2>1, <2>3, <4>3 DEF DrainOK
    <3> QED BY <3>1, <3>2
  <2>6. shutdown' \in BOOLEAN BY <2>4, Zenon DEF ControlOK
  <2>7. pc' \in {"drain", "eval"} BY <1>6 DEF DrainOne
  <2>8. ControlOK' /\ Fed' BY <2>6, <2>7 DEF ControlOK, Phases, Fed
  <2>9. CallersOK' /\ BatchOK' /\ LogOK' /\ IndexOK' /\ TipsOK' /\ ReadOK' /\ BoundsOK'
    BY <1>6 DEF DrainOne, CallersOK, BatchOK, LogOK, IndexOK, TipsOK, ReadOK, BoundsOK
  <2> QED BY <2>5, <2>8, <2>9
<1>7. CASE DrainEnd
  <2>1. CallersOK' /\ DrainOK' /\ ControlOK' /\ BatchOK' /\ Fed'
    BY <1>7 DEF DrainEnd, CallersOK, DrainOK, ControlOK, Phases, BatchOK, Fed
  <2>2. LogOK' /\ IndexOK' /\ TipsOK' /\ ReadOK' /\ BoundsOK'
    BY <1>7 DEF DrainEnd, LogOK, IndexOK, TipsOK, ReadOK, BoundsOK
  <2> QED BY <2>1, <2>2
<1>8. CASE Evaluate
  <2> DEFINE r == Head(drained)
  <2>1. r \in Req /\ drained' \in Seq(Req) BY <1>8, HeadTail DEF Evaluate, DrainOK
  <2>2. /\ arg[r].size \in Nat
        /\ arg[r].events \in Seq(Event)
        /\ RecordsOf(r) \in Seq(Record)
    BY <2>1, RequestFields, RecordsOfType DEF CallersOK
  <2>3. \A query, after : ClauseConflicts(query, after) \subseteq Nat
    <3>1. \A query, after : DurableMatches(query, after) \subseteq Nat
      BY DEF DurableMatches, FastMatches, ScanMatches, IndexMatches, LogOK
    <3> QED BY <3>1 DEF ClauseConflicts, Lowest
  <2>4. \/ /\ staged' = staged /\ stagedBytes' = stagedBytes /\ granted' = granted
           /\ \E answer \in Reply : reply' = [reply EXCEPT ![r] = answer]
        \/ Stage(r) /\ UNCHANGED reply
    <3>1. CASE RejectAfterBeyondTip(r)
      BY <3>1, ReplyTypes DEF RejectAfterBeyondTip, Answer, ErrorKinds
    <3>2. CASE RejectConflict(r) BY <3>2, <2>3, ReplyTypes DEF RejectConflict, Answer
    <3>3. CASE Accept(r) BY <3>3 DEF Accept
    <3>4. CASE RejectError(r) BY <3>4, ReplyTypes DEF RejectError, Answer, ErrorKinds
    <3> QED BY <1>8, <3>1, <3>2, <3>3, <3>4 DEF Evaluate
  <2> HIDE DEF r
  <2>5. CallersOK' BY <1>8, <2>1, <2>4 DEF Evaluate, CallersOK
  <2>6. BatchOK'
    <3>1. CASE Stage(r)
      <4>1. granted' \in Seq(Grant)
        <5> DEFINE g == [req |-> r,
                         first |-> Len(log) + Len(staged) + 1,
                         last |-> Len(log) + Len(staged) + Len(arg[r].events)]
        <5>1. Len(log) \in Nat /\ Len(staged) \in Nat /\ Len(arg[r].events) \in Nat
          BY <2>2 DEF BatchOK, LogOK
        <5>2. g \in Grant
          <6>1. /\ Len(log) + Len(staged) + 1 \in Nat
                /\ Len(log) + Len(staged) + Len(arg[r].events) \in Nat
            BY <5>1, NatSum, Zenon
          <6>2. r \in Req BY <2>1
          <6> QED BY <6>1, <6>2, Zenon DEF Grant
        <5>3. granted' = Append(granted, g) BY <3>1 DEF Stage
        <5> HIDE DEF g
        <5> QED BY <5>2, <5>3 DEF BatchOK
      <4>2. staged' \in Seq(Record) /\ stagedBytes' \in Nat
        BY <3>1, <2>2, SMTT(40) DEF Stage, BatchOK
      <4> QED BY <1>8, <4>1, <4>2 DEF Evaluate, BatchOK
    <3> QED BY <1>8, <2>4, <3>1 DEF Evaluate, BatchOK
  <2>7. faults' \in Nat BY <1>8 DEF Evaluate, RejectError, BoundsOK
  <2>8. DrainOK' /\ ControlOK' /\ LogOK' /\ IndexOK' /\ TipsOK' /\ ReadOK' /\ BoundsOK' /\ Fed'
    BY <1>8, <2>1, <2>7 DEF Evaluate, DrainOK, ControlOK, LogOK, IndexOK, TipsOK, ReadOK,
                            BoundsOK, Fed
  <2> QED BY <2>5, <2>6, <2>8
<1>9. CASE EvaluateEnd
  <2>1. Len(segs) - 1 \in Nat BY EmptySeq DEF LogOK
  <2>2. pc' \in {"loop", "append"} BY <1>9 DEF EvaluateEnd
  <2>3. ControlOK' /\ BatchOK' /\ Fed'
    BY <1>9, <2>1, <2>2 DEF EvaluateEnd, ControlOK, Phases, BatchOK, Fed
  <2>4. CallersOK' /\ DrainOK' /\ LogOK' /\ IndexOK' /\ TipsOK' /\ ReadOK' /\ BoundsOK'
    BY <1>9 DEF EvaluateEnd, CallersOK, DrainOK, LogOK, IndexOK, TipsOK, ReadOK, BoundsOK
  <2> QED BY <2>3, <2>4
<1>10. CASE RejectTooLarge
  <2>1. CallersOK' /\ DrainOK' /\ ControlOK' /\ BatchOK' /\ Fed'
    BY <1>10 DEF RejectTooLarge, CallersOK, DrainOK, ControlOK, Phases, BatchOK, Fed
  <2>2. LogOK' /\ IndexOK' /\ TipsOK' /\ ReadOK' /\ BoundsOK'
    BY <1>10 DEF RejectTooLarge, LogOK, IndexOK, TipsOK, ReadOK, BoundsOK
  <2> QED BY <2>1, <2>2
<1>11. CASE FitsActive
  <2>1. CallersOK' /\ DrainOK' /\ ControlOK' /\ BatchOK' /\ Fed'
    BY <1>11 DEF FitsActive, CallersOK, DrainOK, ControlOK, Phases, BatchOK, Fed
  <2>2. LogOK' /\ IndexOK' /\ TipsOK' /\ ReadOK' /\ BoundsOK'
    BY <1>11 DEF FitsActive, LogOK, IndexOK, TipsOK, ReadOK, BoundsOK
  <2> QED BY <2>1, <2>2
<1>12. CASE Rollover
  <2>1. LogOK'
    <3>1. NextPosition \in Nat /\ segs \in Seq(Nat) BY DEF NextPosition, LogOK
    <3>2. remains' \in Remains BY <1>12, RemainsTypes DEF Rollover, LogOK
    <3> QED BY <1>12, <3>1, <3>2, AppendProperties, EmptySeq DEF Rollover, LogOK
  <2>2. CallersOK' /\ DrainOK' /\ ControlOK' /\ BatchOK' /\ IndexOK' /\ TipsOK' /\ ReadOK'
          /\ BoundsOK' /\ Fed'
    BY <1>12 DEF Rollover, CallersOK, DrainOK, ControlOK, Phases, BatchOK, IndexOK, TipsOK,
                 ReadOK, BoundsOK, Fed
  <2> QED BY <2>1, <2>2
<1>13. CASE RolloverFails
  <2>1. CallersOK' /\ DrainOK' /\ ControlOK' /\ BatchOK' /\ Fed'
    BY <1>13 DEF RolloverFails, CallersOK, DrainOK, ControlOK, Phases, BatchOK, Fed
  <2>2. LogOK' /\ IndexOK' /\ TipsOK' /\ ReadOK' /\ BoundsOK'
    BY <1>13 DEF RolloverFails, LogOK, IndexOK, TipsOK, ReadOK, BoundsOK
  <2> QED BY <2>1, <2>2
<1>14. CASE Commit
  <2>1. /\ log' \in Seq(Record)
        /\ Len(log') = Len(log) + Len(staged)
        /\ \A i \in 1..Len(staged) : log'[Len(log) + i] = staged[i]
    BY <1>14, ConcatProperties DEF Commit, LogOK, BatchOK
  <2>4. remains' \in Remains BY <1>14, RemainsTypes DEF Commit, LogOK
  <2>2. LogOK' /\ Fed'
    BY <1>14, <2>1, <2>4, ConstantsAssumption DEF Commit, LogOK, BatchOK, Fed, BatchBytes
  <2>3. CallersOK' /\ DrainOK' /\ ControlOK' /\ BatchOK' /\ IndexOK' /\ TipsOK' /\ ReadOK'
          /\ BoundsOK'
    BY <1>14 DEF Commit, CallersOK, DrainOK, ControlOK, Phases, BatchOK, IndexOK, TipsOK,
                 ReadOK, BoundsOK
  <2> QED BY <2>2, <2>3
<1>15. CASE CommitFails
  <2>1. CallersOK' /\ DrainOK' /\ ControlOK' /\ BatchOK' /\ Fed'
    BY <1>15 DEF CommitFails, CallersOK, DrainOK, ControlOK, Phases, BatchOK, Fed
  <2>2. IndexOK' /\ TipsOK' /\ ReadOK' /\ BoundsOK'
    BY <1>15, SMTT(40) DEF CommitFails, IndexOK, TipsOK, ReadOK, BoundsOK
  <2>3. remains' \in Remains
    <3>1. PICK skewed \in BOOLEAN :
            \/ remains' = [records |-> staged, bytes |-> BatchBytes, torn |-> TRUE,
                           skewed |-> skewed]
            \/ remains' = [remains EXCEPT !.torn = TRUE, !.skewed = skewed]
            \/ remains' = [Bytes(TRUE) EXCEPT !.skewed = skewed]
      BY <1>15 DEF CommitFails
    <3>2. remains \in Remains /\ Bytes(TRUE) \in Remains BY RemainsTypes DEF LogOK
    <3>3. staged \in Seq(Record) /\ BatchBytes \in Nat
      BY ConstantsAssumption DEF BatchOK, BatchBytes
    <3>4. [records |-> staged, bytes |-> BatchBytes, torn |-> TRUE, skewed |-> skewed]
            \in Remains
      BY <3>3 DEF Remains
    <3>5. [remains EXCEPT !.torn = TRUE, !.skewed = skewed] \in Remains
      BY <3>2, RemainsMarked
    <3>6. [Bytes(TRUE) EXCEPT !.skewed = skewed] \in Remains BY <3>2, RemainsMarked
    <3> QED BY ONLY <3>1, <3>4, <3>5, <3>6
  <2>4. LogOK' BY <1>15, <2>3 DEF CommitFails, LogOK
  <2> QED BY <2>1, <2>2, <2>4
<1>16. CASE FeedIndex
  <2>1. IndexOK'
    <3>1. Len(log) - Len(staged) + 1 \in Nat /\ Len(staged) \in Nat
      BY <1>16 DEF FeedIndex, Fed, LogOK, BatchOK
    <3> QED BY <1>16, <3>1 DEF FeedIndex, IndexOK
  <2>2. CallersOK' /\ DrainOK' /\ ControlOK' /\ BatchOK' /\ LogOK' /\ TipsOK' /\ ReadOK'
          /\ BoundsOK' /\ Fed'
    BY <1>16 DEF FeedIndex, CallersOK, DrainOK, ControlOK, Phases, BatchOK, LogOK, TipsOK,
                 ReadOK, BoundsOK, Fed
  <2> QED BY <2>1, <2>2
<1>17. CASE PublishSegments
  <2>1. CallersOK' /\ DrainOK' /\ ControlOK' /\ BatchOK' /\ Fed'
    BY <1>17 DEF PublishSegments, CallersOK, DrainOK, ControlOK, Phases, BatchOK, Fed
  <2>2. LogOK' /\ IndexOK' /\ TipsOK' /\ ReadOK' /\ BoundsOK'
    BY <1>17 DEF PublishSegments, LogOK, IndexOK, TipsOK, ReadOK, BoundsOK
  <2> QED BY <2>1, <2>2
<1>18. CASE PublishWatermark
  <2>1. TipsOK' BY <1>18, AbsorbType DEF PublishWatermark
  <2>2. CallersOK' /\ DrainOK' /\ ControlOK' /\ BatchOK' /\ LogOK' /\ IndexOK' /\ ReadOK'
          /\ BoundsOK' /\ Fed'
    BY <1>18 DEF PublishWatermark, CallersOK, DrainOK, ControlOK, Phases, BatchOK, LogOK,
                 IndexOK, ReadOK, BoundsOK, Fed
  <2> QED BY <2>1, <2>2
<1>19. CASE ReplyOne
  <2>1. Head(granted) \in Grant /\ Tail(granted) \in Seq(Grant)
    BY <1>19, HeadTail DEF ReplyOne, BatchOK
  <2>2. /\ Ok(Head(granted)) \in Reply
        /\ outcome # "ok" => Err(outcome) \in Reply
    BY <2>1, ReplyTypes DEF BatchOK, ErrorKinds
  <2>3. CallersOK' /\ BatchOK'
    BY <1>19, <2>1, <2>2 DEF ReplyOne, Answer, CallersOK, BatchOK
  <2>4. DrainOK' /\ ControlOK' /\ LogOK' /\ IndexOK' /\ TipsOK' /\ ReadOK' /\ BoundsOK' /\ Fed'
    BY <1>19 DEF ReplyOne, DrainOK, ControlOK, LogOK, IndexOK, TipsOK, ReadOK, BoundsOK, Fed
  <2> QED BY <2>3, <2>4
<1>20. CASE ReplyEnd
  <2>1. CallersOK' /\ DrainOK' /\ ControlOK' /\ BatchOK' /\ Fed'
    BY <1>20 DEF ReplyEnd, CallersOK, DrainOK, ControlOK, Phases, BatchOK, Fed
  <2>2. LogOK' /\ IndexOK' /\ TipsOK' /\ ReadOK' /\ BoundsOK'
    BY <1>20 DEF ReplyEnd, LogOK, IndexOK, TipsOK, ReadOK, BoundsOK
  <2> QED BY <2>1, <2>2
<1>21. CASE GoRound
  <2>1. CallersOK' /\ DrainOK' /\ ControlOK' /\ BatchOK' /\ Fed'
    BY <1>21 DEF GoRound, CallersOK, DrainOK, ControlOK, Phases, BatchOK, Fed
  <2>2. LogOK' /\ IndexOK' /\ TipsOK' /\ ReadOK' /\ BoundsOK'
    BY <1>21 DEF GoRound, LogOK, IndexOK, TipsOK, ReadOK, BoundsOK
  <2> QED BY <2>1, <2>2
<1>22. CASE Exit
  <2>1. CallersOK' /\ DrainOK'
    BY <1>22, ReplyTypes DEF Exit, CallersOK, DrainOK, ErrorKinds
  <2>2. ControlOK' /\ BatchOK' /\ LogOK' /\ IndexOK' /\ TipsOK' /\ ReadOK' /\ BoundsOK' /\ Fed'
    BY <1>22 DEF Exit, ControlOK, Phases, BatchOK, LogOK, IndexOK, TipsOK, ReadOK, BoundsOK, Fed
  <2> QED BY <2>1, <2>2
<1>23. CASE Crash
  <2>1. CallersOK' BY <1>23, ReplyTypes DEF Crash, CallersOK
  <2>2. LogOK'
    <3>1. log \o staged \in Seq(Record) /\ used + BatchBytes \in Nat
      BY ConcatProperties, ConstantsAssumption DEF LogOK, BatchOK, BatchBytes
    <3>2. /\ segs' = segs
          /\ log' = log \/ log' = log \o staged \/ log' = log \o remains.records
          /\ used' = used \/ used' = used + BatchBytes \/ used' = used + remains.bytes
          /\ \E torn \in BOOLEAN : remains' = Bytes(torn)
      BY <1>23 DEF Crash
    <3>3. log \o remains.records \in Seq(Record) /\ used + remains.bytes \in Nat
      BY ConcatProperties, RemainsTypes DEF LogOK
    <3>4. remains' \in Remains BY <3>2, RemainsTypes
    <3> QED BY <3>1, <3>2, <3>3, <3>4 DEF LogOK
  <2>3. shutdown' \in BOOLEAN BY <1>23, Zenon DEF Crash
  <2>4. DrainOK' /\ ControlOK' /\ BatchOK' /\ Fed'
    BY <1>23, <2>3 DEF Crash, DrainOK, ControlOK, Phases, BatchOK, Fed
  <2>5. IndexOK' /\ TipsOK' /\ ReadOK' /\ BoundsOK'
    BY <1>23 DEF Crash, IndexOK, TipsOK, ReadOK, BoundsOK
  <2> QED BY <2>1, <2>2, <2>4, <2>5
<1>24. CASE Restart
  <2>1. Len(log) \in Nat /\ NextPosition \in Nat BY DEF LogOK, NextPosition
  <2>2. IndexOK' /\ TipsOK' /\ ReadOK'
    BY <1>24, <2>1 DEF Restart, NoTips, LogOK, IndexOK, TipsOK, ReadOK
  <2>3. CallersOK' /\ DrainOK' /\ ControlOK' /\ BatchOK' /\ LogOK' /\ BoundsOK' /\ Fed'
    BY <1>24 DEF Restart, CallersOK, DrainOK, ControlOK, Phases, BatchOK, LogOK, BoundsOK, Fed
  <2> QED BY <2>2, <2>3
<1>26. CASE CommitMisplaced
  BY <1>26 DEF CommitMisplaced, CallersOK, DrainOK, ControlOK, Phases, BatchOK, LogOK, IndexOK,
               TipsOK, ReadOK, BoundsOK, Fed
<1>25. CASE UNCHANGED vars
  BY <1>25 DEF vars, CallersOK, DrainOK, ControlOK, BatchOK, LogOK, IndexOK, TipsOK, ReadOK,
               BoundsOK, Fed
<1> QED
  BY <1>1, <1>2, <1>3, <1>4, <1>5, <1>6, <1>7, <1>8, <1>9, <1>10, <1>11, <1>12, <1>13, <1>14,
     <1>15, <1>16, <1>17, <1>18, <1>19, <1>20, <1>21, <1>22, <1>23, <1>24, <1>25, <1>26
     DEF Next, Worker

\* The inductive invariant behind type correctness always holds.
LEMMA AlwaysTypeInv == Spec => []TypeInv
BY InitTypeInv, StepTypeInv, PTL DEF Spec

\* Type correctness of the writer, whatever the requests and limits are: no position underflows,
\* in particular where a rollover seals the index tail at the batch's first position
\* (coordinator.rs, process).
THEOREM TypeCorrect == Spec => []TypeOK
BY AlwaysTypeInv, PTL DEF TypeInv

--------------------
\* Append conditions: the fast path (tips, then index) answers every clause as a scan of the log
\* would, and no record ever lands after one its condition forbids.

\* The fast path. The index covers the log except between a commit and FeedIndex, and the tips
\* bound every tag of every record except those of the batch whose tips are not absorbed yet. The
\* worker evaluates conditions only outside those windows.
Absorbing == pc \in {"feed", "publish", "watermark"}

IndexCaughtUp ==
    /\ pc \notin {"down", "astray", "feed"} => idxEnd = Len(log)
    /\ pc = "feed" => idxEnd + Len(staged) = Len(log)

Covers(p) == \A tag \in log[p].event.tags : p <= MaxFor(tag)

TipsCover ==
    pc \notin {"down", "astray"} =>
        \A p \in 1..Len(log) : (Absorbing => p <= Len(log) - Len(staged)) => Covers(p)

FastInv == IndexCaughtUp /\ TipsCover

\* Where index and tips have caught up, the fast path is exact: a tag the tips rule out is on no
\* record past `after'.
LEMMA FastIsExact ==
    ASSUME TypeInv, FastInv, pc \notin {"down", "astray", "feed", "publish", "watermark"},
           NEW query, NEW after \in Nat
    PROVE  FastMatches(query, after) = ScanMatches(query, after)
<1> USE DEF TypeInv, TypeOK, LogOK
<1>1. DOMAIN log = 1..Len(log) /\ Len(log) \in Nat OBVIOUS
<1>2. \A p \in DOMAIN log : Covers(p) BY <1>1 DEF FastInv, TipsCover, Absorbing
<1>3. ~ TipsUnknown(query, after) => ScanMatches(query, after) = {}
  <2> SUFFICES ASSUME NEW p \in DOMAIN log, p > after, Matches(query, log[p].event)
               PROVE  TipsUnknown(query, after)
    BY DEF ScanMatches
  <2>1. CASE query.all BY <2>1 DEF TipsUnknown
  <2>2. CASE \E item \in query.items : ItemMatches(item, log[p].event)
    <3>1. PICK item \in query.items : item.tags \subseteq log[p].event.tags
      BY <2>2 DEF ItemMatches
    <3>2. \A tag \in item.tags : p <= MaxFor(tag) BY <1>2, <3>1 DEF Covers
    <3>3. \A tag \in item.tags : MaxFor(tag) \in Nat BY DEF MaxFor, TipsOK
    <3>4. \A tag \in item.tags : MaxFor(tag) > after BY <1>1, <3>2, <3>3
    <3> QED BY <3>4 DEF TipsUnknown
  <2> QED BY <2>1, <2>2 DEF Matches
<1>4. IndexMatches(query, after) = ScanMatches(query, after)
  <2>1. idxEnd = Len(log) BY DEF FastInv, IndexCaughtUp
  <2>2. \A p \in ScanMatches(query, after) : p <= idxEnd BY <1>1, <2>1 DEF ScanMatches
  <2> QED BY <2>2 DEF IndexMatches
<1> QED BY <1>3, <1>4 DEF FastMatches

\* A step that touches neither the log, nor the index, nor the tips, and neither enters nor leaves
\* the windows, keeps both.
LEMMA FastQuiet ==
    ASSUME TypeInv, FastInv, UNCHANGED <<log, idxEnd, tipMax, tipFloor>>,
           \/ pc' = pc /\ staged' = staged
           \/ /\ pc \notin {"down", "astray", "feed", "publish", "watermark"}
              /\ pc' \notin {"down", "astray", "feed", "publish", "watermark"}
    PROVE  FastInv'
<1>1. IndexCaughtUp' BY DEF FastInv, IndexCaughtUp
<1>2. \A p : Covers(p)' = Covers(p) BY DEF Covers, MaxFor
<1>3. TipsCover' BY <1>2 DEF FastInv, TipsCover, Absorbing
<1> QED BY <1>1, <1>3 DEF FastInv

\* absorb and evict: a tag's bound is never below a position that carries it, whether its entry is
\* kept, replaced or evicted under the floor.
LEMMA AbsorbCovers ==
    ASSUME TypeInv, FastInv, pc = "watermark", AbsorbTips, log' = log,
           NEW p \in 1..Len(log), NEW tag \in log[p].event.tags
    PROVE  p <= MaxFor(tag)'
<1> USE DEF TypeInv, TypeOK, LogOK, BatchOK, TipsOK
<1>1. PICK m \in StagedTips :
        LET merged == Merge(m) IN
        IF Cardinality(DOMAIN merged) > MaxEntries
        THEN tipFloor' = RaisedFloor /\ tipMax' = Retain(merged, RaisedFloor)
        ELSE tipMax' = merged /\ UNCHANGED tipFloor
  BY DEF AbsorbTips
<1>2. Len(log) \in Nat /\ Len(staged) \in Nat /\ Len(staged) <= Len(log) BY DEF Fed
<1>3. /\ m \in [StagedTags -> 1..Len(log)]
      /\ \A t \in StagedTags : m[t] \in StagedTip(t)
  BY DEF StagedTips
<1>4. tipFloor \in Nat /\ RaisedFloor \in Nat /\ tipFloor <= RaisedFloor
  <2>1. Len(log) \in Nat /\ TipsWindow \in Nat BY <1>2, ConstantsAssumption
  <2> QED BY <2>1, SMTT(40) DEF RaisedFloor, NextPosition
<1>5. p > Len(log) - Len(staged) => tag \in StagedTags
  <2> SUFFICES ASSUME p > Len(log) - Len(staged) PROVE tag \in StagedTags
    OBVIOUS
  <2> DEFINE i == p - (Len(log) - Len(staged))
  <2>1. i \in 1..Len(staged) /\ Len(log) - Len(staged) + i = p BY <1>2, SMTT(40)
  <2>2. log[p] = staged[i] BY <2>1 DEF Fed
  <2>3. i \in DOMAIN staged BY <2>1
  <2> HIDE DEF i
  <2> QED BY <2>2, <2>3 DEF StagedTags
<1>6. tag \in StagedTags => m[tag] \in Nat /\ p <= m[tag]
  <2> SUFFICES ASSUME tag \in StagedTags PROVE m[tag] \in Nat /\ p <= m[tag]
    OBVIOUS
  <2>1. m[tag] \in StagedTip(tag) /\ m[tag] \in 1..Len(log) BY <1>3
  <2>2. \A x \in m[tag] + 1 .. Len(log) : tag \notin log[x].event.tags
    BY <2>1 DEF StagedTip
  <2> QED BY <1>2, <2>1, <2>2, SMTT(40)
<1>7. tag \notin StagedTags => p <= MaxFor(tag)
  <2> SUFFICES ASSUME tag \notin StagedTags PROVE p <= MaxFor(tag)
    OBVIOUS
  <2>1. p <= Len(log) - Len(staged) BY <1>2, <1>5
  <2>2. Covers(p) BY <2>1 DEF FastInv, TipsCover
  <2> QED BY <2>2 DEF Covers
<1>8. /\ DOMAIN Merge(m) = DOMAIN tipMax \cup StagedTags
      /\ tag \in DOMAIN Merge(m) => Merge(m)[tag] \in Nat /\ p <= Merge(m)[tag]
      /\ tag \notin DOMAIN Merge(m) => p <= tipFloor
  <2>1. DOMAIN m = StagedTags /\ DOMAIN Merge(m) = DOMAIN tipMax \cup StagedTags
    BY <1>3 DEF Merge
  <2>2. CASE tag \in StagedTags
    <3>1. Merge(m)[tag] =
            IF tag \in DOMAIN tipMax => tipMax[tag] < m[tag] THEN m[tag] ELSE tipMax[tag]
      BY <2>1, <2>2 DEF Merge
    <3>2. tag \in DOMAIN tipMax => tipMax[tag] \in Nat OBVIOUS
    <3> QED BY <1>6, <2>1, <2>2, <3>1, <3>2
  <2>3. CASE tag \notin StagedTags
    <3>1. tag \in DOMAIN Merge(m) => Merge(m)[tag] = tipMax[tag] /\ tag \in DOMAIN tipMax
      BY <2>1, <2>3 DEF Merge
    <3> QED BY <1>7, <2>1, <2>3, <3>1 DEF MaxFor
  <2> QED BY <2>1, <2>2, <2>3
<1>9. CASE tipMax' = Merge(m) /\ tipFloor' = tipFloor BY <1>8, <1>9 DEF MaxFor
<1>10. CASE tipMax' = Retain(Merge(m), RaisedFloor) /\ tipFloor' = RaisedFloor
  <2>1. /\ \A t \in DOMAIN Retain(Merge(m), RaisedFloor) :
              t \in DOMAIN Merge(m) /\ Retain(Merge(m), RaisedFloor)[t] = Merge(m)[t]
        /\ \A t \in DOMAIN Merge(m) :
              t \notin DOMAIN Retain(Merge(m), RaisedFloor) => ~ (Merge(m)[t] > RaisedFloor)
    BY DEF Retain
  <2> QED BY <1>2, <1>4, <1>8, <1>10, <2>1 DEF MaxFor
<1> QED BY <1>1, <1>9, <1>10

\* Both hold of the empty store.
LEMMA InitFastInv == Init => FastInv
BY DEF Init, FastInv, IndexCaughtUp, TipsCover, Absorbing

\* Every step keeps them: Commit opens the window, FeedIndex and PublishWatermark close it,
\* Restart begins with tips that know nothing.
LEMMA StepFastInv == TypeInv /\ FastInv /\ [Next]_vars => FastInv'
<1> SUFFICES ASSUME TypeInv, FastInv, [Next]_vars PROVE FastInv'
  OBVIOUS
<1> USE DEF callerVars, drainVars, batchVars, logVars, indexVars, tipVars, readVars, boundVars
<1>1. ASSUME NEW r \in Req, Submit(r) PROVE FastInv' BY <1>1, FastQuiet DEF Submit
<1>2. CASE SendShutdown BY <1>2, FastQuiet DEF SendShutdown
<1>3. CASE TakePushback \/ ReceiveFirst
  BY <1>3, FastQuiet DEF TakePushback, ReceiveFirst, Start
<1>4. CASE ReceiveShutdown BY <1>4, FastQuiet DEF ReceiveShutdown
<1>5. CASE DrainOne \/ DrainEnd BY <1>5, FastQuiet DEF DrainOne, DrainEnd
<1>6. CASE Evaluate BY <1>6, FastQuiet DEF Evaluate
<1>7. CASE EvaluateEnd BY <1>7, FastQuiet DEF EvaluateEnd
<1>8. CASE RejectTooLarge \/ FitsActive \/ Rollover \/ RolloverFails \/ CommitFails
  BY <1>8, FastQuiet DEF RejectTooLarge, FitsActive, Rollover, RolloverFails, CommitFails
<1>9. CASE Commit
  <2>1. /\ Len(log') = Len(log) + Len(staged)
        /\ \A p \in 1..Len(log) : log'[p] = log[p]
        /\ Len(log) \in Nat /\ Len(staged) \in Nat
    BY <1>9, ConcatProperties DEF Commit, TypeInv, TypeOK, LogOK, BatchOK
  <2>2. /\ pc = "commit" /\ pc' = "feed"
        /\ staged' = staged /\ idxEnd' = idxEnd /\ tipMax' = tipMax /\ tipFloor' = tipFloor
    BY <1>9 DEF Commit
  <2>3. IndexCaughtUp' BY <2>1, <2>2 DEF FastInv, IndexCaughtUp
  <2>4. \A p \in 1..Len(log) : Covers(p)'
    BY <2>1, <2>2 DEF FastInv, TipsCover, Absorbing, Covers, MaxFor
  <2>5. TipsCover' BY <2>1, <2>2, <2>4 DEF TipsCover, Absorbing
  <2> QED BY <2>3, <2>5 DEF FastInv
<1>10. CASE FeedIndex
  <2>1. /\ pc = "feed" /\ pc' = "publish"
        /\ UNCHANGED <<log, staged, tipMax, tipFloor>>
        /\ idxEnd' = idxEnd + Len(staged)
    BY <1>10 DEF FeedIndex
  <2>2. IndexCaughtUp' BY <2>1 DEF FastInv, IndexCaughtUp
  <2>3. TipsCover' BY <2>1 DEF FastInv, TipsCover, Absorbing, Covers, MaxFor
  <2> QED BY <2>2, <2>3 DEF FastInv
<1>11. CASE PublishSegments
  <2>1. /\ pc = "publish" /\ pc' = "watermark"
        /\ UNCHANGED <<log, staged, idxEnd, tipMax, tipFloor>>
    BY <1>11 DEF PublishSegments
  <2> QED BY <2>1 DEF FastInv, IndexCaughtUp, TipsCover, Absorbing, Covers, MaxFor
<1>12. CASE PublishWatermark
  <2>1. pc = "watermark" /\ pc' = "reply" /\ AbsorbTips /\ UNCHANGED <<log, staged, idxEnd>>
    BY <1>12 DEF PublishWatermark
  <2>2. IndexCaughtUp' BY <2>1 DEF FastInv, IndexCaughtUp
  <2>3. \A p \in 1..Len(log) : \A tag \in log[p].event.tags : p <= MaxFor(tag)'
    BY <2>1, AbsorbCovers
  <2>4. TipsCover' BY <2>1, <2>3 DEF TipsCover, Covers
  <2> QED BY <2>2, <2>4 DEF FastInv
<1>13. CASE ReplyOne \/ ReplyEnd \/ GoRound \/ Exit
  BY <1>13, FastQuiet DEF ReplyOne, ReplyEnd, GoRound, Exit
<1>14. CASE CommitMisplaced \/ Crash
  <2>1. pc' \in {"down", "astray"} BY <1>14 DEF CommitMisplaced, Crash
  <2> QED BY <2>1 DEF FastInv, IndexCaughtUp, TipsCover
<1>15. CASE Restart
  <2>1. /\ pc' = "recv" /\ log' = log /\ idxEnd' = Len(log)
        /\ tipMax' = NoTips /\ tipFloor' = Len(log) + 1
    BY <1>15 DEF Restart, NextPosition
  <2>2. \A tag : MaxFor(tag)' = Len(log) + 1 BY <2>1 DEF MaxFor, NoTips
  <2>3. Len(log) \in Nat BY DEF TypeInv, TypeOK, LogOK
  <2> QED BY <2>1, <2>2, <2>3 DEF FastInv, IndexCaughtUp, TipsCover, Covers
<1>16. CASE UNCHANGED vars BY <1>16, FastQuiet DEF vars
<1> QED
  BY <1>1, <1>2, <1>3, <1>4, <1>5, <1>6, <1>7, <1>8, <1>9, <1>10, <1>11, <1>12, <1>13, <1>14,
     <1>15, <1>16 DEF Next, Worker

\* Index and tips are caught up outside the commit window, always.
LEMMA AlwaysFastInv == Spec => []FastInv
<1>1. Init => FastInv BY InitFastInv
<1>2. TypeInv /\ FastInv /\ [Next]_vars => FastInv' BY StepFastInv
<1> QED BY <1>1, <1>2, AlwaysTypeInv, PTL DEF Spec

\* While requests are evaluated, the tips and the index answer both clauses of every request as
\* the scan would, for every window, cap and type limit, through rollovers, failed commits and
\* restarts: the verify_tips assertion of condition.rs can never fire.
THEOREM FastPathCorrect == Spec => []FastPathExact
<1>1. TypeInv /\ FastInv => FastPathExact
  <2> SUFFICES ASSUME TypeInv, FastInv, pc = "eval", NEW i \in DOMAIN drained
               PROVE  LET q == arg[drained[i]] IN
                      /\ FastMatches(q.match, q.after) = ScanMatches(q.match, q.after)
                      /\ FastMatches(q.exists, 0) = ScanMatches(q.exists, 0)
    BY DEF FastPathExact
  <2>1. drained[i] \in Req BY DEF TypeInv, TypeOK, DrainOK
  <2>2. arg[drained[i]].after \in Nat
    BY <2>1, RequestFields DEF TypeInv, TypeOK, CallersOK
  <2> QED BY <2>2, FastIsExact
<1> QED BY <1>1, AlwaysTypeInv, AlwaysFastInv, PTL

--------------------
\* The append condition. An argument never changes once its token is on its way, so that what a
\* condition forbids is fixed when it is read.
Submitted == {r \in Req : arg[r] # NoRequest}

SubmittedRecord == [event : Event, req : Submitted]

Frozen ==
    /\ log \in Seq(SubmittedRecord)
    /\ remains.records \in Seq(SubmittedRecord)
    /\ staged \in Seq(SubmittedRecord)
    /\ drained \in Seq(Submitted)
    /\ pushback \in Seq(Submitted)
    /\ queue \in Seq(Submitted \cup {Shutdown})

\* Every event of every request carries a tag. The same-batch arm reads an empty set of staged
\* tags as "nothing is staged" (tips.rs, may_conflict), which is right only then.
Tagged == \A q \in Request : \A i \in DOMAIN q.events : q.events[i].tags # {}

TagInv ==
    /\ \A r \in Req : \A i \in DOMAIN arg[r].events : arg[r].events[i].tags # {}
    /\ \A i \in DOMAIN staged : staged[i].event.tags # {}

\* What evaluation establishes of a batch s: no durable event and no earlier event of the batch
\* from another request forbids one of it.
FreeOfLog(s, i) ==
    \A q \in 1..Len(log) : ~ Forbids(arg[s[i].req], log[q].event, q)

FreeOfBatch(s, i) ==
    \A j \in 1..i - 1 :
        s[j].req # s[i].req => ~ Forbids(arg[s[i].req], s[j].event, Len(log) + j)

Lands(s) == \A i \in 1..Len(s) : FreeOfLog(s, i) /\ FreeOfBatch(s, i)

StagedSound == pc \in {"drain", "eval", "append", "commit"} => Lands(staged)

\* What a failed commit left behind the log's end would be as sound there as the batch was, for
\* as long as the log ends where it did.
RemainsSound == Lands(remains.records)

SoundInv == ConditionSound /\ StagedSound /\ RemainsSound

\* No step changes the argument of a submitted request.
LEMMA ArgStable ==
    ASSUME TypeInv, [Next]_vars
    PROVE  /\ \A r \in Submitted : arg'[r] = arg[r]
           /\ Submitted \subseteq Submitted'
<1> USE DEF callerVars
<1>1. ASSUME NEW x \in Req, Submit(x) PROVE \A r \in Submitted : arg'[r] = arg[r]
  <2>1. arg[x] = NoRequest BY <1>1 DEF Submit
  <2>2. arg' = arg \/ \E q \in Request : arg' = [arg EXCEPT ![x] = q] BY <1>1 DEF Submit
  <2> QED BY <2>1, <2>2 DEF Submitted, TypeInv, TypeOK, CallersOK
<1>2. CASE SendShutdown \/ Worker \/ Crash \/ Restart \/ UNCHANGED vars
  <2>1. UNCHANGED arg
    BY <1>2 DEF SendShutdown, Worker, TakePushback, ReceiveFirst, Start, ReceiveShutdown,
        DrainOne, DrainEnd, Evaluate, EvaluateEnd, RejectTooLarge, FitsActive, Rollover,
        RolloverFails, Commit, CommitMisplaced, CommitFails, FeedIndex, PublishSegments, PublishWatermark,
        ReplyOne, ReplyEnd, GoRound, Exit, Crash, Restart, vars
  <2> QED BY <2>1 DEF Submitted
<1>3. \A r \in Submitted : arg'[r] = arg[r] BY <1>1, <1>2 DEF Next
<1> QED BY <1>3 DEF Submitted

\* What remains behind the log changes with the log, or when a commit fails.
LEMMA RemainsChange ==
    ASSUME TypeInv, [Next]_vars
    PROVE  \/ remains'.records = <<>>
           \/ CommitFails /\ remains'.records = staged /\ log' = log
           \/ remains'.records = remains.records /\ log' = log
<1> USE DEF logVars
<1>1. CASE Commit \/ Rollover \/ Crash
  BY <1>1 DEF Commit, Rollover, Crash, Bytes, Nowhere
<1>2. CASE CommitFails
  <2>1. PICK skewed \in BOOLEAN :
          \/ remains' = [records |-> staged, bytes |-> BatchBytes, torn |-> TRUE,
                         skewed |-> skewed]
          \/ remains' = [remains EXCEPT !.torn = TRUE, !.skewed = skewed]
          \/ remains' = [Bytes(TRUE) EXCEPT !.skewed = skewed]
    BY <1>2 DEF CommitFails
  <2>2. /\ remains \in Remains
        /\ Bytes(TRUE) \in Remains /\ Bytes(TRUE).records = <<>>
    BY RemainsTypes DEF TypeInv, TypeOK, LogOK
  <2>3. log' = log BY <1>2 DEF CommitFails
  <2>4. /\ [remains EXCEPT !.torn = TRUE, !.skewed = skewed].records = remains.records
        /\ [Bytes(TRUE) EXCEPT !.skewed = skewed].records = <<>>
    BY <2>2, RemainsMarked
  <2>5. [records |-> staged, bytes |-> BatchBytes, torn |-> TRUE, skewed |-> skewed].records
          = staged
    OBVIOUS
  <2>6. \/ remains'.records = <<>> \/ remains'.records = staged
        \/ remains'.records = remains.records
    BY ONLY <2>1, <2>4, <2>5
  <2> QED BY <1>2, <2>3, <2>6
<1>3. CASE \/ \E r \in Req : Submit(r)
           \/ SendShutdown \/ TakePushback \/ ReceiveFirst \/ ReceiveShutdown \/ DrainOne
           \/ DrainEnd \/ Evaluate \/ EvaluateEnd \/ RejectTooLarge \/ FitsActive
           \/ RolloverFails \/ CommitMisplaced \/ FeedIndex \/ PublishSegments
           \/ PublishWatermark \/ ReplyOne \/ ReplyEnd \/ GoRound \/ Exit \/ Restart
           \/ UNCHANGED vars
  <2>1. UNCHANGED <<log, remains>>
    BY <1>3 DEF Submit, SendShutdown, TakePushback, ReceiveFirst, Start, ReceiveShutdown,
        DrainOne, DrainEnd, Evaluate, EvaluateEnd, RejectTooLarge, FitsActive, RolloverFails,
        CommitMisplaced, FeedIndex, PublishSegments, PublishWatermark, ReplyOne, ReplyEnd,
        GoRound, Exit, Restart, vars
  <2> QED BY <2>1
<1> QED BY <1>1, <1>2, <1>3 DEF Next, Worker

\* A sequence over a set is one over any larger set.
LEMMA SeqMono ==
    ASSUME NEW S, NEW T, S \subseteq T, NEW s \in Seq(S)
    PROVE  s \in Seq(T)
OBVIOUS

\* At the start no token is anywhere.
LEMMA InitFrozen == Init => Frozen
BY DEF Init, Frozen, Nowhere

\* Every token in the queue, the drain, the batch or the log was submitted.
LEMMA StepFrozen == TypeInv /\ Frozen /\ [Next]_vars => Frozen'
<1> SUFFICES ASSUME TypeInv, Frozen, [Next]_vars PROVE Frozen'
  OBVIOUS
<1> USE DEF callerVars, drainVars, batchVars, logVars, indexVars, tipVars, readVars, boundVars
<1> DEFINE K == Submitted'
           KR == SubmittedRecord'
<1>a. Submitted \subseteq K /\ SubmittedRecord \subseteq KR
  BY ArgStable DEF SubmittedRecord
<1>k. /\ log \in Seq(KR) /\ staged \in Seq(KR) /\ remains.records \in Seq(KR)
      /\ drained \in Seq(K) /\ pushback \in Seq(K) /\ queue \in Seq(K \cup {Shutdown})
  <2>1. Submitted \cup {Shutdown} \subseteq K \cup {Shutdown} BY <1>a
  <2> HIDE DEF K, KR
  <2> QED BY <1>a, <2>1, SeqMono DEF Frozen
<1>e. <<>> \in Seq(KR) /\ <<>> \in Seq(K) /\ <<>> \in Seq(K \cup {Shutdown}) OBVIOUS
<1>m. remains'.records \in Seq(KR)
  <2> HIDE DEF K, KR
  <2> QED BY <1>k, <1>e, RemainsChange
<1>f. /\ log' \in Seq(KR) /\ staged' \in Seq(KR)
      /\ drained' \in Seq(K) /\ pushback' \in Seq(K) /\ queue' \in Seq(K \cup {Shutdown})
      => Frozen'
  BY <1>m DEF Frozen
<1>r. \A r \in K : r \in Req BY DEF Submitted
<1> HIDE DEF K, KR
<1>1. ASSUME NEW r \in Req, Submit(r) PROVE Frozen'
  <2>1. queue' = queue \/ (queue' = Append(queue, r) /\ r \in K)
    <3>1. \A q : q.events # <<>> => q # NoRequest BY DEF NoRequest
    <3>2. \A q : arg' = [arg EXCEPT ![r] = q] => arg'[r] = q
      BY DEF TypeInv, TypeOK, CallersOK
    <3>3. queue' = queue \/
            /\ queue' = Append(queue, r)
            /\ \E q \in Request : q.events # <<>> /\ arg' = [arg EXCEPT ![r] = q]
      BY <1>1 DEF Submit
    <3> QED BY <1>1, <3>1, <3>2, <3>3 DEF Submitted, K
  <2>2. queue' \in Seq(K \cup {Shutdown})
    <3>1. r \in K => Append(queue, r) \in Seq(K \cup {Shutdown}) BY <1>k, AppendProperties
    <3> QED BY <2>1, <3>1, <1>k
  <2>3. UNCHANGED <<log, staged, drained, pushback>> BY <1>1 DEF Submit
  <2> QED BY <2>2, <2>3, <1>k, <1>f
<1>2. CASE SendShutdown
  <2>1. UNCHANGED <<log, staged, drained, pushback>> /\ queue' = Append(queue, Shutdown)
    BY <1>2 DEF SendShutdown
  <2>2. queue' \in Seq(K \cup {Shutdown}) BY <2>1, <1>k, AppendProperties
  <2> QED BY <2>1, <2>2, <1>k, <1>f
<1>3. CASE TakePushback
  <2>1. /\ queue' = queue /\ pushback' = <<>> /\ log' = log /\ staged' = <<>>
        /\ drained' = <<Head(pushback)>> /\ pushback # <<>>
    BY <1>3 DEF TakePushback, Start
  <2>2. Head(pushback) \in K BY <2>1, <1>k, HeadTail
  <2>3. drained' \in Seq(K) BY <2>1, <2>2
  <2> QED BY <2>1, <2>3, <1>k, <1>e, <1>f
<1>4. CASE ReceiveFirst
  <2>1. /\ queue' = Tail(queue) /\ pushback' = pushback /\ log' = log /\ staged' = <<>>
        /\ drained' = <<Head(queue)>> /\ queue # <<>> /\ Head(queue) # Shutdown
    BY <1>4 DEF ReceiveFirst, Start
  <2>2. Head(queue) \in K /\ Tail(queue) \in Seq(K \cup {Shutdown})
    BY <2>1, <1>k, HeadTail
  <2>3. drained' \in Seq(K) BY <2>1, <2>2
  <2> QED BY <2>1, <2>2, <2>3, <1>k, <1>e, <1>f
<1>5. CASE ReceiveShutdown
  <2>1. UNCHANGED <<log, staged, drained, pushback>> /\ queue # <<>> /\ queue' = Tail(queue)
    BY <1>5 DEF ReceiveShutdown
  <2>2. Tail(queue) \in Seq(K \cup {Shutdown}) BY <2>1, <1>k, HeadTail
  <2> QED BY <2>1, <2>2, <1>k, <1>f
<1>6. CASE DrainOne
  <2> DEFINE r == Head(queue)
  <2>1. /\ UNCHANGED <<log, staged>> /\ queue # <<>> /\ queue' = Tail(queue)
        /\ \/ drained' = drained
           \/ r # Shutdown /\ drained' = Append(drained, r)
        /\ \/ pushback' = pushback
           \/ r # Shutdown /\ pushback' = <<r>>
    BY <1>6 DEF DrainOne
  <2>2. r \in K \cup {Shutdown} /\ Tail(queue) \in Seq(K \cup {Shutdown})
    BY <2>1, <1>k, HeadTail
  <2> HIDE DEF r
  <2>3. drained' \in Seq(K)
    <3>1. r # Shutdown => r \in K BY <2>2
    <3>2. r \in K => Append(drained, r) \in Seq(K) BY <1>k, AppendProperties
    <3> QED BY <2>1, <3>1, <3>2, <1>k
  <2>4. r # Shutdown => <<r>> \in Seq(K) BY <2>2
  <2>5. pushback' \in Seq(K) BY <2>1, <2>4, <1>k
  <2> QED BY <2>1, <2>2, <2>3, <2>5, <1>k, <1>f
<1>7. CASE Evaluate
  <2> DEFINE r == Head(drained)
  <2>1. /\ UNCHANGED <<log, pushback, queue>> /\ drained # <<>> /\ drained' = Tail(drained)
        /\ staged' = staged \/ staged' = staged \o RecordsOf(r)
    BY <1>7 DEF Evaluate, RejectAfterBeyondTip, RejectConflict, RejectError, Accept, Stage
  <2>2. r \in K /\ Tail(drained) \in Seq(K) BY <2>1, <1>k, HeadTail
  <2> HIDE DEF r
  <2>3. staged' \in Seq(KR)
    <3>1. r \in Req BY <2>2, <1>r
    <3>2. arg[r].events \in Seq(Event)
      BY <3>1, RequestFields DEF TypeInv, TypeOK, CallersOK
    <3>3. \A i \in 1..Len(arg[r].events) : [event |-> arg[r].events[i], req |-> r] \in KR
      BY <2>2, <3>2 DEF KR, SubmittedRecord, K
    <3>4. RecordsOf(r) \in Seq(KR) BY <3>2, <3>3 DEF RecordsOf
    <3> QED BY <2>1, <3>4, <1>k, ConcatProperties
  <2> QED BY <2>1, <2>2, <2>3, <1>k, <1>f
<1>8. CASE Commit \/ Crash
  <2>1. /\ log' = log \/ log' = log \o staged \/ log' = log \o remains.records
        /\ staged' = staged \/ staged' = <<>>
        /\ drained' = drained \/ drained' = <<>>
        /\ pushback' = pushback \/ pushback' = <<>>
        /\ queue' = queue \/ queue' = <<>>
    BY <1>8 DEF Commit, Crash
  <2>2. log' \in Seq(KR) BY <2>1, <1>k, ConcatProperties
  <2> QED BY <2>1, <2>2, <1>k, <1>e, <1>f
<1>9. CASE \/ DrainEnd \/ EvaluateEnd \/ RejectTooLarge \/ FitsActive \/ Rollover
           \/ RolloverFails \/ CommitMisplaced \/ CommitFails \/ FeedIndex \/ PublishSegments
           \/ PublishWatermark \/ ReplyOne \/ ReplyEnd \/ GoRound \/ Exit \/ Restart
           \/ UNCHANGED vars
  <2>1. /\ log' = log /\ drained' = drained /\ pushback' = pushback
        /\ staged' = staged \/ staged' = <<>>
        /\ queue' = queue \/ queue' = <<>>
    BY <1>9 DEF DrainEnd, EvaluateEnd, RejectTooLarge, FitsActive, Rollover, RolloverFails,
        CommitMisplaced, CommitFails, FeedIndex, PublishSegments, PublishWatermark, ReplyOne,
        ReplyEnd, GoRound, Exit, Restart, vars
  <2> QED BY <2>1, <1>k, <1>e, <1>f
<1> QED BY <1>1, <1>2, <1>3, <1>4, <1>5, <1>6, <1>7, <1>8, <1>9 DEF Next, Worker

\* At the start no token has an event.
LEMMA InitTagInv == Init => TagInv
BY DEF Init, TagInv, NoRequest

\* Under the assumption Tagged, every staged record carries a tag.
LEMMA StepTagInv == ASSUME Tagged PROVE TypeInv /\ TagInv /\ [Next]_vars => TagInv'
<1> SUFFICES ASSUME TypeInv, TagInv, [Next]_vars PROVE TagInv'
  OBVIOUS
<1> USE DEF callerVars, batchVars
<1>1. ASSUME NEW r \in Req, Submit(r) PROVE TagInv'
  <2>1. staged' = staged /\ (arg' = arg \/ \E q \in Request : arg' = [arg EXCEPT ![r] = q])
    BY <1>1 DEF Submit
  <2>2. arg \in [Req -> RequestType] BY DEF TypeInv, TypeOK, CallersOK
  <2>3. \A x \in Req : arg'[x] = arg[x] \/ arg'[x] \in Request BY <2>1, <2>2
  <2> QED BY <2>1, <2>3 DEF TagInv, Tagged
<1>2. CASE Evaluate
  <2> DEFINE r == Head(drained)
  <2>1. /\ drained # <<>> /\ arg' = arg
        /\ staged' = staged \/ staged' = staged \o RecordsOf(r)
    BY <1>2 DEF Evaluate, RejectAfterBeyondTip, RejectConflict, RejectError, Accept, Stage
  <2>2. r \in Req BY <2>1, HeadTail DEF TypeInv, TypeOK, DrainOK
  <2> HIDE DEF r
  <2>3. arg[r].events \in Seq(Event) BY <2>2, RequestFields DEF TypeInv, TypeOK, CallersOK
  <2>4. /\ RecordsOf(r) \in Seq(Record)
        /\ \A i \in 1..Len(RecordsOf(r)) : RecordsOf(r)[i].event.tags # {}
    <3>1. /\ RecordsOf(r) \in Seq(Record)
          /\ Len(RecordsOf(r)) = Len(arg[r].events)
          /\ \A i \in 1..Len(RecordsOf(r)) : RecordsOf(r)[i].event = arg[r].events[i]
      BY <2>2, RecordsOfType DEF TypeInv
    <3>2. \A i \in 1..Len(arg[r].events) : arg[r].events[i].tags # {}
      BY <2>2, <2>3 DEF TagInv
    <3> QED BY <3>1, <3>2
  <2>5. staged \in Seq(Record) /\ \A i \in 1..Len(staged) : staged[i].event.tags # {}
    BY DEF TypeInv, TypeOK, BatchOK, TagInv
  <2>6. \A i \in 1..Len(staged \o RecordsOf(r)) : (staged \o RecordsOf(r))[i].event.tags # {}
    <3> DEFINE s == staged \o RecordsOf(r)
    <3>1. /\ Len(s) = Len(staged) + Len(RecordsOf(r))
          /\ \A i \in 1..Len(s) :
                s[i] = IF i <= Len(staged) THEN staged[i] ELSE RecordsOf(r)[i - Len(staged)]
          /\ Len(staged) \in Nat /\ Len(RecordsOf(r)) \in Nat
      BY <2>4, <2>5, ConcatProperties
    <3> HIDE DEF s
    <3>2. ASSUME NEW i \in 1..Len(s) PROVE s[i].event.tags # {}
      <4>1. CASE i <= Len(staged) BY <2>5, <3>1, <4>1
      <4>2. CASE i > Len(staged)
        <5>1. i - Len(staged) \in 1..Len(RecordsOf(r)) BY <3>1, <4>2
        <5> QED BY <2>4, <3>1, <4>2, <5>1
      <4> QED BY <3>1, <4>1, <4>2
    <3> QED BY <3>2 DEF s
  <2>7. DOMAIN (staged \o RecordsOf(r)) = 1..Len(staged \o RecordsOf(r))
    BY <2>4, <2>5, ConcatProperties
  <2> QED BY <2>1, <2>6, <2>7 DEF TagInv
<1>3. CASE \/ SendShutdown \/ TakePushback \/ ReceiveFirst \/ ReceiveShutdown \/ DrainOne
           \/ DrainEnd \/ EvaluateEnd \/ RejectTooLarge \/ FitsActive \/ Rollover
           \/ RolloverFails \/ Commit \/ CommitMisplaced \/ CommitFails \/ FeedIndex
           \/ PublishSegments \/ PublishWatermark \/ ReplyOne \/ ReplyEnd \/ GoRound \/ Exit
           \/ Crash \/ Restart
           \/ UNCHANGED vars
  <2>1. arg' = arg /\ (staged' = staged \/ staged' = <<>>)
    BY <1>3 DEF SendShutdown, TakePushback, ReceiveFirst, Start, ReceiveShutdown, DrainOne,
        DrainEnd, EvaluateEnd, RejectTooLarge, FitsActive, Rollover, RolloverFails, Commit,
        CommitMisplaced, CommitFails, FeedIndex, PublishSegments, PublishWatermark, ReplyOne,
        ReplyEnd, GoRound, Exit, Crash, Restart, vars
  <2> QED BY <2>1 DEF TagInv
<1> QED BY <1>1, <1>2, <1>3 DEF Next, Worker

\* A clause that passes matches nothing durable past its boundary, and nothing staged: neither arm
\* has a false negative.
LEMMA PassesMeansFree ==
    ASSUME TypeInv, FastInv, TagInv, pc = "eval",
           NEW query, NEW after \in Nat, ClausePasses(query, after)
    PROVE  /\ \A p \in 1..Len(log) : p > after => ~ Matches(query, log[p].event)
           /\ \A j \in 1..Len(staged) : ~ Matches(query, staged[j].event)
<1> USE DEF TypeInv, TypeOK, LogOK, BatchOK
<1>1. ScanMatches(query, after) = {}
  <2>1. FastMatches(query, after) = ScanMatches(query, after) BY FastIsExact
  <2> QED BY <2>1 DEF ClausePasses, DurableMatches
<1>2. \A p \in 1..Len(log) : p > after => ~ Matches(query, log[p].event)
  BY <1>1 DEF ScanMatches
<1>3. ASSUME NEW j \in 1..Len(staged), Matches(query, staged[j].event) PROVE FALSE
  <2>1. j \in DOMAIN staged OBVIOUS
  <2>2. staged[j].event.tags \subseteq StagedTags BY <2>1 DEF StagedTags
  <2>3. StagedTags # {} BY <2>1, <2>2 DEF TagInv
  <2>4. query.all \/ \E item \in query.items : item.tags \subseteq StagedTags
    BY <1>3, <2>2 DEF Matches, ItemMatches
  <2> QED BY <2>3, <2>4 DEF ClausePasses, StagedMayConflict
<1> QED BY <1>2, <1>3

\* An accepted request is free of everything before it.
LEMMA AcceptIsFree ==
    ASSUME TypeInv, FastInv, TagInv, pc = "eval", NEW r \in Req, Accept(r)
    PROVE  /\ \A p \in 1..Len(log) : ~ Forbids(arg[r], log[p].event, p)
           /\ \A j \in 1..Len(staged) : \A p : ~ Forbids(arg[r], staged[j].event, p)
<1>1. arg[r].after \in Nat BY RequestFields DEF TypeInv, TypeOK, CallersOK
<1>2. ClausePasses(arg[r].match, arg[r].after) /\ ClausePasses(arg[r].exists, 0)
  BY DEF Accept
<1>3. /\ \A p \in 1..Len(log) : p > arg[r].after => ~ Matches(arg[r].match, log[p].event)
      /\ \A j \in 1..Len(staged) : ~ Matches(arg[r].match, staged[j].event)
  BY <1>1, <1>2, PassesMeansFree
<1>4. /\ \A p \in 1..Len(log) : ~ Matches(arg[r].exists, log[p].event)
      /\ \A j \in 1..Len(staged) : ~ Matches(arg[r].exists, staged[j].event)
  <2>1. \A p \in 1..Len(log) : p > 0 OBVIOUS
  <2> QED BY <1>2, <2>1, PassesMeansFree
<1> QED BY <1>3, <1>4 DEF Forbids

\* What follows from evaluation for the log with a batch appended: by a commit, by a crash under a
\* commit, or by one that brings a failed batch back.
LEMMA CommitIsSound ==
    ASSUME TypeInv, SoundInv, NEW s \in Seq(Record), Lands(s),
           NEW p \in 1..Len(log \o s), NEW q \in 1..Len(log \o s),
           q < p, (log \o s)[q].req # (log \o s)[p].req
    PROVE  ~ Forbids(arg[(log \o s)[p].req], (log \o s)[q].event, q)
<1> DEFINE l == log \o s
<1>1. log \in Seq(Record) /\ s \in Seq(Record) BY DEF TypeInv, TypeOK, LogOK
<1>2. /\ Len(l) = Len(log) + Len(s)
      /\ \A i \in 1..Len(l) : l[i] = IF i <= Len(log) THEN log[i] ELSE s[i - Len(log)]
      /\ Len(log) \in Nat /\ Len(s) \in Nat
      /\ DOMAIN log = 1..Len(log)
  BY <1>1, ConcatProperties
<1>3. p \in 1..Len(l) /\ q \in 1..Len(l) /\ l[q].req # l[p].req OBVIOUS
<1> HIDE DEF l
<1>4. CASE p <= Len(log)
  <2>1. l[p] = log[p] /\ l[q] = log[q] /\ p \in DOMAIN log /\ q \in DOMAIN log
    BY <1>2, <1>3, <1>4
  <2>2. ~ Forbids(arg[log[p].req], log[q].event, q)
    BY <1>3, <2>1 DEF SoundInv, ConditionSound
  <2> QED BY <2>1, <2>2 DEF l
<1>5. CASE p > Len(log)
  <2> DEFINE i == p - Len(log)
  <2>1. i \in 1..Len(s) /\ l[p] = s[i] BY <1>2, <1>3, <1>5
  <2>2. FreeOfLog(s, i) /\ FreeOfBatch(s, i) BY <2>1 DEF Lands
  <2>3. CASE q <= Len(log)
    <3>1. l[q] = log[q] /\ q \in 1..Len(log) BY <1>2, <1>3, <2>3
    <3> HIDE DEF i
    <3> QED BY <2>1, <2>2, <3>1 DEF FreeOfLog, l
  <2>4. CASE q > Len(log)
    <3> DEFINE j == q - Len(log)
    <3>1. j \in 1..i - 1 /\ l[q] = s[j] /\ Len(log) + j = q BY <1>2, <1>3, <2>4
    <3> HIDE DEF i, j
    <3>2. ~ Forbids(arg[s[i].req], s[j].event, Len(log) + j)
      BY <1>3, <2>1, <2>2, <3>1 DEF FreeOfBatch
    <3> QED BY <2>1, <3>1, <3>2 DEF l
  <2> QED BY <1>2, <1>3, <2>3, <2>4
<1> QED BY <1>2, <1>3, <1>4, <1>5

\* Staging an accepted request keeps the batch sound.
LEMMA AcceptKeepsSound ==
    ASSUME TypeInv, FastInv, TagInv, SoundInv, pc = "eval", pc' = "eval",
           NEW r \in Req, Accept(r), UNCHANGED <<arg, log>>
    PROVE  StagedSound'
<1>1. staged \in Seq(Record) /\ RecordsOf(r) \in Seq(Record)
  BY RecordsOfType DEF TypeInv, TypeOK, BatchOK
<1>2. \A i \in 1..Len(RecordsOf(r)) : RecordsOf(r)[i].req = r BY RecordsOfType DEF TypeInv
<1>3. staged' = staged \o RecordsOf(r) BY DEF Accept, Stage
<1>4. /\ Len(staged') = Len(staged) + Len(RecordsOf(r))
      /\ \A i \in 1..Len(staged') :
            staged'[i] = IF i <= Len(staged) THEN staged[i] ELSE RecordsOf(r)[i - Len(staged)]
      /\ Len(staged) \in Nat /\ Len(RecordsOf(r)) \in Nat
  BY <1>1, <1>3, ConcatProperties
<1>5. ASSUME NEW i \in 1..Len(staged')
      PROVE  /\ \A q \in 1..Len(log') : ~ Forbids(arg'[staged'[i].req], log'[q].event, q)
             /\ \A j \in 1..i - 1 :
                    staged'[j].req # staged'[i].req =>
                        ~ Forbids(arg'[staged'[i].req], staged'[j].event, Len(log') + j)
  <2>1. CASE i <= Len(staged)
    <3>1. i \in 1..Len(staged) /\ staged'[i] = staged[i] BY <1>4, <2>1
    <3>2. \A j \in 1..i - 1 : staged'[j] = staged[j] BY <1>4, <2>1
    <3>3. FreeOfLog(staged, i) /\ FreeOfBatch(staged, i)
      BY <3>1 DEF SoundInv, StagedSound, Lands
    <3> QED BY <3>1, <3>2, <3>3 DEF FreeOfLog, FreeOfBatch
  <2>2. CASE i > Len(staged)
    <3>1. i - Len(staged) \in 1..Len(RecordsOf(r)) /\ staged'[i] = RecordsOf(r)[i - Len(staged)]
      BY <1>4, <2>2
    <3>2. staged'[i].req = r BY <1>2, <3>1
    <3>3. ASSUME NEW j \in 1..i - 1, staged'[j].req # r
          PROVE  j \in 1..Len(staged) /\ staged'[j] = staged[j]
      <4>1. CASE j <= Len(staged) BY <1>4, <4>1
      <4>2. CASE j > Len(staged)
        <5>1. j - Len(staged) \in 1..Len(RecordsOf(r))
                /\ staged'[j] = RecordsOf(r)[j - Len(staged)]
          BY <1>4, <4>2
        <5> QED BY <1>2, <3>3, <5>1
      <4> QED BY <1>4, <4>1, <4>2
    <3> QED BY <3>2, <3>3, AcceptIsFree
  <2> QED BY <1>4, <2>1, <2>2
<1> QED BY <1>5 DEF StagedSound, Lands, FreeOfLog, FreeOfBatch

\* At the start neither log nor batch holds a record.
LEMMA InitSoundInv == Init => SoundInv
BY DEF Init, SoundInv, ConditionSound, StagedSound, RemainsSound, Lands, Nowhere

\* Every step keeps the log and the batch sound.
LEMMA StepSoundInv ==
    TypeInv /\ FastInv /\ Frozen /\ TagInv /\ SoundInv /\ [Next]_vars => SoundInv'
<1> SUFFICES ASSUME TypeInv, FastInv, Frozen, TagInv, SoundInv, [Next]_vars PROVE SoundInv'
  OBVIOUS
<1> USE DEF callerVars, drainVars, batchVars, logVars, indexVars, tipVars, readVars, boundVars
<1>a. /\ \A p \in 1..Len(log) : arg'[log[p].req] = arg[log[p].req]
      /\ \A i \in 1..Len(staged) : arg'[staged[i].req] = arg[staged[i].req]
      /\ LET s == remains.records IN \A i \in 1..Len(s) : arg'[s[i].req] = arg[s[i].req]
  <2> DEFINE s == remains.records
  <2>1. /\ \A p \in 1..Len(log) : log[p].req \in Submitted
        /\ \A i \in 1..Len(staged) : staged[i].req \in Submitted
        /\ \A i \in 1..Len(s) : s[i].req \in Submitted
    <3>1. /\ \A p \in 1..Len(log) : log[p] \in SubmittedRecord
          /\ \A i \in 1..Len(staged) : staged[i] \in SubmittedRecord
          /\ \A i \in 1..Len(s) : s[i] \in SubmittedRecord
      BY DEF Frozen
    <3> QED BY <3>1 DEF SubmittedRecord
  <2> QED BY <2>1, ArgStable
<1>d. DOMAIN log = 1..Len(log) BY DEF TypeInv, TypeOK, LogOK
<1>l. log' = log => ConditionSound'
  <2> SUFFICES ASSUME log' = log, NEW p \in DOMAIN log, NEW q \in DOMAIN log,
                      q < p, log[q].req # log[p].req
               PROVE  ~ Forbids(arg'[log[p].req], log[q].event, q)
    BY DEF ConditionSound
  <2>1. arg'[log[p].req] = arg[log[p].req] BY <1>a, <1>d
  <2> QED BY <2>1 DEF SoundInv, ConditionSound
<1>s. ASSUME log' = log, staged' = staged, pc \in {"drain", "eval", "append", "commit"}
      PROVE  StagedSound'
  <2>1. Lands(staged) BY <1>s DEF SoundInv, StagedSound
  <2>2. Lands(staged)' BY <1>s, <2>1, <1>a DEF Lands, FreeOfLog, FreeOfBatch
  <2> QED BY <2>2 DEF StagedSound
<1>e. staged' = <<>> => StagedSound' BY DEF StagedSound, Lands
<1>o. pc' \notin {"drain", "eval", "append", "commit"} => StagedSound' BY DEF StagedSound
<1>r. RemainsSound'
  <2>1. CASE remains'.records = <<>> BY <2>1 DEF RemainsSound, Lands
  <2>2. CASE CommitFails /\ remains'.records = staged /\ log' = log
    <3>1. pc = "commit" /\ arg' = arg BY <2>2 DEF CommitFails
    <3>2. Lands(staged) BY <3>1 DEF SoundInv, StagedSound
    <3> QED BY <2>2, <3>1, <3>2 DEF RemainsSound, Lands, FreeOfLog, FreeOfBatch
  <2>3. CASE remains'.records = remains.records /\ log' = log
    <3>1. Lands(remains.records) BY DEF SoundInv, RemainsSound
    <3> QED BY <2>3, <3>1, <1>a DEF RemainsSound, Lands, FreeOfLog, FreeOfBatch
  <2> QED BY <2>1, <2>2, <2>3, RemainsChange
<1>i. ConditionSound' /\ StagedSound' => SoundInv' BY <1>r DEF SoundInv
<1>1. CASE \E r \in Req : Submit(r)
  <2>1. log' = log /\ staged' = staged /\ pc' = pc BY <1>1 DEF Submit
  <2> QED BY <2>1, <1>l, <1>s, <1>o, <1>i
<1>2. CASE SendShutdown \/ UNCHANGED vars
  <2>1. log' = log /\ staged' = staged /\ pc' = pc BY <1>2 DEF SendShutdown, vars
  <2> QED BY <2>1, <1>l, <1>s, <1>o, <1>i
<1>3. CASE TakePushback \/ ReceiveFirst
  <2>1. log' = log /\ staged' = <<>> BY <1>3 DEF TakePushback, ReceiveFirst, Start
  <2> QED BY <2>1, <1>l, <1>e, <1>i
<1>4. CASE DrainOne \/ DrainEnd \/ EvaluateEnd \/ FitsActive \/ Rollover
  <2>1. log' = log /\ staged' = staged /\ pc \in {"drain", "eval", "append"}
    BY <1>4 DEF DrainOne, DrainEnd, EvaluateEnd, FitsActive, Rollover
  <2> QED BY <2>1, <1>l, <1>s, <1>i
<1>5. CASE Evaluate
  <2> DEFINE r == Head(drained)
  <2>1. pc = "eval" /\ pc' = "eval" /\ UNCHANGED <<arg, log>> /\ drained # <<>>
    BY <1>5 DEF Evaluate
  <2>2. r \in Req BY <2>1, HeadTail DEF TypeInv, TypeOK, DrainOK
  <2>3. staged' = staged \/ Accept(r)
    BY <1>5 DEF Evaluate, RejectAfterBeyondTip, RejectConflict, RejectError
  <2> HIDE DEF r
  <2> QED BY <2>1, <2>2, <2>3, <1>l, <1>s, <1>i, AcceptKeepsSound
<1>6. CASE Commit \/ (Crash /\ log' # log)
  <2>1. PICK s : /\ (s = staged /\ pc = "commit") \/ s = remains.records
                 /\ log' = log \o s /\ arg' = arg
                 /\ pc' \notin {"drain", "eval", "append", "commit"}
    BY <1>6 DEF Commit, Crash
  <2>2. s \in Seq(Record) /\ Lands(s)
    BY <2>1 DEF TypeInv, TypeOK, LogOK, Remains, BatchOK, SoundInv, StagedSound, RemainsSound
  <2>3. DOMAIN (log \o s) = 1..Len(log \o s)
    BY <2>2, ConcatProperties DEF TypeInv, TypeOK, LogOK
  <2>4. ConditionSound' BY <2>1, <2>2, <2>3, CommitIsSound DEF ConditionSound
  <2> QED BY <2>1, <2>4, <1>o, <1>i
<1>7. CASE \/ ReceiveShutdown \/ RejectTooLarge \/ RolloverFails \/ CommitMisplaced
           \/ CommitFails \/ FeedIndex \/ PublishSegments \/ PublishWatermark \/ ReplyOne
           \/ ReplyEnd \/ GoRound \/ Exit \/ Restart \/ (Crash /\ log' = log)
  <2>1. log' = log /\ pc' \notin {"drain", "eval", "append", "commit"}
    BY <1>7 DEF ReceiveShutdown, RejectTooLarge, RolloverFails, CommitMisplaced, CommitFails,
        FeedIndex, PublishSegments, PublishWatermark, ReplyOne, ReplyEnd, GoRound, Exit,
        Restart, Crash
  <2> QED BY <2>1, <1>l, <1>o, <1>i
<1> QED BY <1>1, <1>2, <1>3, <1>4, <1>5, <1>6, <1>7 DEF Next, Worker

\* When every event carries a tag, log and batch are sound, always.
LEMMA AlwaysSound == ASSUME Tagged PROVE Spec => [](Frozen /\ TagInv /\ SoundInv)
<1>1. Init => Frozen /\ TagInv /\ SoundInv BY InitFrozen, InitTagInv, InitSoundInv
<1>2. /\ TypeInv /\ FastInv /\ (Frozen /\ TagInv /\ SoundInv) /\ [Next]_vars
      => (Frozen /\ TagInv /\ SoundInv)'
  BY StepFrozen, StepTagInv, StepSoundInv
<1> QED BY <1>1, <1>2, AlwaysTypeInv, AlwaysFastInv, PTL DEF Spec

\* The append condition under group commit (condition.rs, "neither arm may ever produce a false
\* negative"): when every event carries a tag, no record is ever preceded on the log by another
\* request's event that its own condition forbids, for every mix of requests, batch limits, tip
\* eviction, failed commits, crashes and restarts. Without the assumption the run write_tagless
\* shows a counterexample.
THEOREM ConditionsHold == ASSUME Tagged PROVE Spec => []ConditionSound
<1>1. SoundInv => ConditionSound BY DEF SoundInv
<1> QED BY <1>1, AlwaysSound, PTL

--------------------
\* What callers and readers see of the writer: it implements the store it promises (DcbStore), an
\* acknowledged caller reads its own write, and the published snapshot covers the published
\* watermark.

\* Where a request is. It waits in one place, once, with no record anywhere; staged, it is granted
\* the range its records take in the log with the batch; committed, it has that range until it is
\* replied to.
Queued(r)   == \E i \in 1..Len(queue) : queue[i] = r
Deferred(r) == \E i \in 1..Len(pushback) : pushback[i] = r
Drawn(r)    == \E i \in 1..Len(drained) : drained[i] = r
Granted(r)  == \E i \in 1..Len(granted) : granted[i].req = r

Waiting(r) == Queued(r) \/ Deferred(r) \/ Drawn(r)

WaitsOnce ==
    /\ \A i, j \in 1..Len(queue) : queue[i] = queue[j] /\ queue[i] # Shutdown => i = j
    /\ \A i, j \in 1..Len(drained) : drained[i] = drained[j] => i = j
    /\ Len(pushback) <= 1
    /\ \A r \in Req : /\ ~ (Queued(r) /\ Deferred(r))
                      /\ ~ (Queued(r) /\ Drawn(r))
                      /\ ~ (Deferred(r) /\ Drawn(r))

Absent(l, r) == \A p \in 1..Len(l) : l[p].req # r

Untouched(r) ==
    /\ reply[r] = None
    /\ arg[r].events # <<>>
    /\ Absent(log, r)
    /\ Absent(staged, r)
    /\ ~ Granted(r)

WaitingUntouched == \A r \in Req : Waiting(r) => Untouched(r)

\* The range of a grant holds the request's events in log l, and nothing else does.
PlacedIn(l, g) ==
    /\ 1 <= g.first /\ g.first <= g.last /\ g.last <= Len(l)
    /\ g.last = g.first + Len(arg[g.req].events) - 1
    /\ \A p \in 1..Len(l) : l[p].req = g.req <=> g.first <= p /\ p <= g.last
    /\ \A p \in 1..Len(l) : l[p].req = g.req => l[p].event = arg[g.req].events[p - g.first + 1]

Uncommitted == pc \in {"eval", "append", "commit"}
CommittedBatch == pc \in {"feed", "publish", "watermark"} \/ (pc = "reply" /\ outcome = "ok")
FailedBatch == pc = "reply" /\ outcome # "ok"

GrantsOpen ==
    /\ \A i, j \in 1..Len(granted) : granted[i].req = granted[j].req => i = j
    /\ \A i \in 1..Len(granted) :
        reply[granted[i].req] = None /\ arg[granted[i].req].events # <<>>

BatchPlaced ==
    /\ Uncommitted =>
        /\ \A i \in 1..Len(granted) :
            PlacedIn(log \o staged, granted[i]) /\ granted[i].first > Len(log)
        /\ \A k \in 1..Len(staged) : Granted(staged[k].req)
    /\ CommittedBatch => outcome = "ok" /\ \A i \in 1..Len(granted) : PlacedIn(log, granted[i])
    /\ FailedBatch => \A i \in 1..Len(granted) : Absent(log, granted[i].req)
    /\ ~ Uncommitted /\ ~ CommittedBatch /\ ~ FailedBatch /\ pc # "astray" =>
        staged = <<>> /\ granted = <<>>

StoreInv == WaitsOnce /\ WaitingUntouched /\ GrantsOpen /\ BatchPlaced

\* Publication. The watermark is the tip except while a batch is being published, and every
\* acknowledged range lies at or below it.
WatermarkAtTip ==
    /\ pc \notin {"down", "astray", "feed", "publish", "watermark"} => watermark = Len(log)
    /\ pc \in {"feed", "publish", "watermark"} => watermark + Len(staged) = Len(log)

AckedBelow ==
    \A r \in Req : reply[r].kind = "ok" =>
        reply[r].last <= (IF pc \in {"down", "astray"} THEN Len(log) ELSE watermark)

\* The snapshot is the set of segments, or lacks the one a rollover of the batch under way began
\* beyond the watermark, which Rolled then tells.
SnapshotCurrent == snap = segs

SnapshotBehind ==
    /\ sealedBefore = Len(segs) - 2
    /\ Len(snap) = Len(segs) - 1
    /\ \A i \in 1..Len(snap) : snap[i] = segs[i]
    /\ segs[Len(segs)] > watermark

SnapshotTracked ==
    faults = 0 =>
        /\ pc \notin {"commit", "feed", "publish", "down", "astray"} => SnapshotCurrent
        /\ pc = "append" => sealedBefore = Len(segs) - 1
        /\ pc \in {"commit", "feed", "publish"} =>
            \/ sealedBefore = Len(segs) - 1 /\ SnapshotCurrent
            \/ SnapshotBehind
        /\ pc \in {"down", "astray"} => SnapshotCovers

PublishInv == WatermarkAtTip /\ AckedBelow /\ SnapshotTracked

--------------------
\* At the start there is no request and no batch.
LEMMA InitStoreInv == Init => StoreInv
<1> SUFFICES ASSUME Init PROVE StoreInv
  OBVIOUS
<1>1. /\ queue = <<>> /\ pushback = <<>> /\ drained = <<>> /\ granted = <<>> /\ staged = <<>>
      /\ pc = "recv"
  BY DEF Init
<1> QED
  BY <1>1 DEF StoreInv, WaitsOnce, WaitingUntouched, Waiting, Queued, Deferred, Drawn, GrantsOpen,
      BatchPlaced, Uncommitted, CommittedBatch, FailedBatch

\* What the parts of the batch mean by type.
LEMMA BatchTypes ==
    ASSUME TypeInv
    PROVE  /\ log \in Seq(Record) /\ staged \in Seq(Record) /\ granted \in Seq(Grant)
           /\ Len(log) \in Nat /\ Len(staged) \in Nat /\ Len(granted) \in Nat
           /\ log \o staged \in Seq(Record)
           /\ Len(log \o staged) = Len(log) + Len(staged)
           /\ \A p \in 1..Len(log) : (log \o staged)[p] = log[p]
           /\ \A k \in 1..Len(staged) : (log \o staged)[Len(log) + k] = staged[k]
           /\ \A p \in Len(log) + 1 .. Len(log) + Len(staged) :
                (log \o staged)[p] = staged[p - Len(log)]
           /\ \A i \in 1..Len(granted) :
                granted[i] \in Grant /\ granted[i].req \in Req
                    /\ granted[i].first \in Nat /\ granted[i].last \in Nat
<1>1. log \in Seq(Record) /\ staged \in Seq(Record) /\ granted \in Seq(Grant)
  BY DEF TypeInv, TypeOK, LogOK, BatchOK
<1>2. \A i \in 1..Len(granted) :
        granted[i] \in Grant /\ granted[i].req \in Req
            /\ granted[i].first \in Nat /\ granted[i].last \in Nat
  <2>1. \A g \in Grant : g.req \in Req /\ g.first \in Nat /\ g.last \in Nat BY DEF Grant
  <2>2. \A i \in 1..Len(granted) : granted[i] \in Grant BY <1>1, ElementOfSeq
  <2> QED BY <2>1, <2>2
<1>3. /\ log \o staged \in Seq(Record)
      /\ Len(log \o staged) = Len(log) + Len(staged)
      /\ \A i \in 1..Len(log) + Len(staged) :
            (log \o staged)[i] = IF i <= Len(log) THEN log[i] ELSE staged[i - Len(log)]
      /\ Len(log) \in Nat /\ Len(staged) \in Nat /\ Len(granted) \in Nat
  BY <1>1, ConcatProperties
<1>4. \A p \in 1..Len(log) : (log \o staged)[p] = log[p] BY <1>3
<1>5. \A p \in Len(log) + 1 .. Len(log) + Len(staged) : (log \o staged)[p] = staged[p - Len(log)]
  BY <1>3
<1>6. \A k \in 1..Len(staged) : (log \o staged)[Len(log) + k] = staged[k] BY <1>3
<1> QED BY <1>1, <1>2, <1>3, <1>4, <1>5, <1>6

\* A grant beyond the log has no record on it.
LEMMA BeyondIsAbsent ==
    ASSUME TypeInv, NEW i \in 1..Len(granted),
           PlacedIn(log \o staged, granted[i]), granted[i].first > Len(log)
    PROVE  Absent(log, granted[i].req)
<1>1. \A p \in 1..Len(log) : p \in 1..Len(log \o staged) /\ (log \o staged)[p] = log[p]
  BY BatchTypes
<1>2. granted[i].first \in Nat /\ Len(log) \in Nat BY BatchTypes
<1> QED BY <1>1, <1>2 DEF PlacedIn, Absent

\* A step that leaves callers, queues, log and batch alone, and stays on its side of the commit or
\* has no batch, keeps the invariant.
LEMMA StoreQuiet ==
    ASSUME StoreInv,
           UNCHANGED <<arg, reply, queue, pushback, drained, log, staged, granted>>,
           \/ staged = <<>> /\ granted = <<>>
           \/ Uncommitted /\ Uncommitted'
           \/ CommittedBatch /\ CommittedBatch',
           CommittedBatch' => outcome' = "ok"
    PROVE  StoreInv'
<1>1. WaitsOnce' /\ WaitingUntouched' /\ GrantsOpen'
  BY DEF StoreInv, WaitsOnce, WaitingUntouched, Waiting, Queued, Deferred, Drawn, Untouched,
      Granted, Absent, GrantsOpen
<1>2. BatchPlaced'
  <2>1. CASE staged = <<>> /\ granted = <<>> BY <2>1 DEF BatchPlaced
  <2>2. CASE Uncommitted /\ Uncommitted'
    <3>1. /\ \A i \in 1..Len(granted) :
              PlacedIn(log \o staged, granted[i]) /\ granted[i].first > Len(log)
          /\ \A k \in 1..Len(staged) : Granted(staged[k].req)
      BY <2>2 DEF StoreInv, BatchPlaced
    <3>2. \A g : PlacedIn(log \o staged, g) => PlacedIn(log \o staged, g)' BY DEF PlacedIn
    <3>3. ~ CommittedBatch' /\ ~ FailedBatch'
      BY <2>2 DEF Uncommitted, CommittedBatch, FailedBatch
    <3>4. \A x : Granted(x) => Granted(x)' BY DEF Granted
    <3> QED BY <2>2, <3>1, <3>2, <3>3, <3>4 DEF BatchPlaced
  <2>3. CASE CommittedBatch /\ CommittedBatch'
    BY <2>3 DEF StoreInv, BatchPlaced, PlacedIn, Uncommitted, CommittedBatch, FailedBatch
  <2> QED BY <2>1, <2>2, <2>3
<1> QED BY <1>1, <1>2 DEF StoreInv

\* The batch and its grants depend on nothing but the callers they answer.
LEMMA BatchKept ==
    ASSUME TypeInv, StoreInv, UNCHANGED <<log, staged, granted, pc, outcome>>,
           \A i \in 1..Len(granted) :
                /\ arg'[granted[i].req] = arg[granted[i].req]
                /\ reply'[granted[i].req] = reply[granted[i].req]
    PROVE  GrantsOpen' /\ BatchPlaced'
<1>1. GrantsOpen' BY DEF StoreInv, GrantsOpen
<1>2. \A l : \A i \in 1..Len(granted) : PlacedIn(l, granted[i]) => PlacedIn(l, granted[i])'
  BY SMTT(40) DEF PlacedIn
<1>3. \A r : Granted(r)' = Granted(r) BY DEF Granted
<1>4. Uncommitted' = Uncommitted /\ CommittedBatch' = CommittedBatch /\ FailedBatch' = FailedBatch
  BY DEF Uncommitted, CommittedBatch, FailedBatch
<1>5. BatchPlaced' BY <1>2, <1>3, <1>4 DEF StoreInv, BatchPlaced, Absent
<1> QED BY <1>1, <1>5

\* A fresh token is nowhere: neither waiting, nor in the batch, nor on the log.
LEMMA FreshIsNowhere ==
    ASSUME TypeInv, Frozen, StoreInv, NEW r \in Req, arg[r] = NoRequest
    PROVE  ~ Waiting(r) /\ ~ Granted(r) /\ Absent(log, r) /\ Absent(staged, r)
<1>1. arg[r].events = <<>> BY DEF NoRequest
<1>2. ~ Waiting(r) BY <1>1 DEF StoreInv, WaitingUntouched, Untouched
<1>3. ~ Granted(r) BY <1>1 DEF StoreInv, GrantsOpen, Granted
<1>4. r \notin Submitted BY DEF Submitted
<1>5. /\ \A p \in 1..Len(log) : log[p] \in SubmittedRecord
      /\ \A k \in 1..Len(staged) : staged[k] \in SubmittedRecord
  BY DEF Frozen
<1>6. Absent(log, r) /\ Absent(staged, r) BY <1>4, <1>5 DEF Absent, SubmittedRecord
<1> QED BY <1>2, <1>3, <1>6

\* Submitting puts a fresh token at the end of the queue, or answers it.
LEMMA SubmitStoreInv ==
    ASSUME TypeInv, Frozen, StoreInv, NEW r \in Req, Submit(r)
    PROVE  StoreInv'
<1> USE DEF callerVars, drainVars, batchVars, logVars
<1>1. ~ Waiting(r) /\ ~ Granted(r) /\ Absent(log, r) /\ Absent(staged, r)
  BY FreshIsNowhere DEF Submit
<1>2. UNCHANGED <<pushback, drained, log, staged, granted, pc, outcome>> BY DEF Submit
<1>3. PICK q \in Request :
        \/ /\ reply' = [reply EXCEPT ![r] = Err("empty")]
           /\ UNCHANGED <<arg, queue>>
        \/ /\ arg' = [arg EXCEPT ![r] = q]
           /\ reply' = [reply EXCEPT ![r] = Err("shutdown")]
           /\ UNCHANGED queue
        \/ /\ q.events # <<>>
           /\ arg' = [arg EXCEPT ![r] = q]
           /\ queue' = Append(queue, r)
           /\ UNCHANGED reply
  BY DEF Submit
<1>4. \A x \in Req : x # r => arg'[x] = arg[x] /\ reply'[x] = reply[x]
  BY <1>3 DEF TypeInv, TypeOK, CallersOK
<1>5. GrantsOpen' /\ BatchPlaced'
  <2>1. \A i \in 1..Len(granted) : granted[i].req \in Req /\ granted[i].req # r
    BY <1>1, BatchTypes DEF Granted
  <2> QED BY <1>2, <1>4, <2>1, BatchKept
<1>6. \A x \in Req : x # r /\ Untouched(x) => Untouched(x)'
  BY <1>2, <1>4 DEF Untouched, Absent, Granted
<1>7. CASE queue' = queue
  <2>1. \A x : Waiting(x)' = Waiting(x) BY <1>2, <1>7 DEF Waiting, Queued, Deferred, Drawn
  <2>2. WaitingUntouched' BY <1>1, <1>6, <2>1 DEF StoreInv, WaitingUntouched
  <2>3. WaitsOnce' BY <1>2, <1>7 DEF StoreInv, WaitsOnce, Queued, Deferred, Drawn
  <2> QED BY <1>5, <2>2, <2>3 DEF StoreInv
<1>8. CASE queue' # queue
  <2>1. /\ q.events # <<>>
        /\ arg' = [arg EXCEPT ![r] = q]
        /\ queue' = Append(queue, r)
        /\ reply' = reply
    BY <1>3, <1>8
  <2>2. /\ Len(queue) \in Nat /\ Len(queue') = Len(queue) + 1
        /\ \A i \in 1..Len(queue) : queue'[i] = queue[i]
        /\ queue'[Len(queue) + 1] = r
    <3>1. queue \in Seq(Req \cup {Shutdown}) /\ r \in Req \cup {Shutdown}
      BY DEF TypeInv, TypeOK, DrainOK
    <3> QED BY <2>1, <3>1, AppendProperties
  <2>3. \A x : Queued(x)' <=> Queued(x) \/ x = r BY <2>2 DEF Queued
  <2>4. \A x : Deferred(x)' = Deferred(x) /\ Drawn(x)' = Drawn(x)
    BY <1>2 DEF Deferred, Drawn
  <2>5. \A x : Waiting(x)' <=> Waiting(x) \/ x = r BY <2>3, <2>4 DEF Waiting
  <2>6. Untouched(r)'
    <3>1. arg'[r].events # <<>> BY <2>1 DEF TypeInv, TypeOK, CallersOK
    <3>2. reply'[r] = None BY <2>1 DEF Submit
    <3> QED BY <1>1, <1>2, <3>1, <3>2 DEF Untouched, Absent, Granted
  <2>7. WaitingUntouched' BY <1>6, <2>5, <2>6 DEF StoreInv, WaitingUntouched
  <2>8. WaitsOnce'
    <3>1. \A i \in 1..Len(queue) : queue[i] # r BY <1>1 DEF Waiting, Queued
    <3>2. \A i, j \in 1..Len(queue') : queue'[i] = queue'[j] /\ queue'[i] # Shutdown => i = j
      BY <2>2, <3>1 DEF StoreInv, WaitsOnce
    <3>3. \A x \in Req : /\ ~ (Queued(x)' /\ Deferred(x)')
                         /\ ~ (Queued(x)' /\ Drawn(x)')
                         /\ ~ (Deferred(x)' /\ Drawn(x)')
      BY <1>1, <2>3, <2>4 DEF StoreInv, WaitsOnce, Waiting
    <3> QED BY <1>2, <3>2, <3>3 DEF StoreInv, WaitsOnce
  <2> QED BY <1>5, <2>7, <2>8 DEF StoreInv
<1> QED BY <1>7, <1>8

\* A request that waits no more than before is as untouched as before, when a step changes neither
\* callers nor log and keeps or drops the batch.
LEMMA WaitingKept ==
    ASSUME StoreInv, UNCHANGED <<arg, reply, log>>,
           UNCHANGED <<staged, granted>> \/ (staged' = <<>> /\ granted' = <<>>),
           \A x \in Req : Waiting(x)' => Waiting(x)
    PROVE  WaitingUntouched'
<1>1. \A x \in Req : Untouched(x) => Untouched(x)' BY DEF Untouched, Absent, Granted
<1> QED BY <1>1 DEF StoreInv, WaitingUntouched

\* No batch, no grant: nothing to place.
LEMMA NoBatchPlaced ==
    ASSUME staged' = <<>>, granted' = <<>>, CommittedBatch' => outcome' = "ok"
    PROVE  GrantsOpen' /\ BatchPlaced'
<1>1. Len(staged') = 0 /\ Len(granted') = 0 OBVIOUS
<1> QED BY <1>1 DEF GrantsOpen, BatchPlaced

\* Receiving from the queue takes its head out of it for good.
LEMMA Received ==
    ASSUME TypeInv, StoreInv, queue # <<>>, queue' = Tail(queue), NEW r, r = Head(queue)
    PROVE  /\ \A x : Queued(x)' => Queued(x)
           /\ Queued(r)
           /\ r # Shutdown => ~ Queued(r)'
           /\ \A i, j \in 1..Len(queue') : queue'[i] = queue'[j] /\ queue'[i] # Shutdown => i = j
<1>1. /\ Len(queue) \in Nat /\ Len(queue) > 0
      /\ Len(queue') = Len(queue) - 1
      /\ Head(queue) = queue[1]
      /\ \A i \in 1..Len(queue') : queue'[i] = queue[i + 1]
  <2>1. queue \in Seq(Req \cup {Shutdown}) BY DEF TypeInv, TypeOK, DrainOK
  <2>2. Len(queue) \in Nat /\ Len(queue) > 0 BY <2>1, EmptySeq
  <2> QED BY <2>1, <2>2, HeadTail
<1>2. \A i \in 1..Len(queue') : i + 1 \in 1..Len(queue) /\ i + 1 # 1 BY <1>1
<1>3. 1 \in 1..Len(queue) BY <1>1
<1>4. \A i, j \in 1..Len(queue) : queue[i] = queue[j] /\ queue[i] # Shutdown => i = j
  BY DEF StoreInv, WaitsOnce
<1>5. \A i, j \in 1..Len(queue') : queue'[i] = queue'[j] /\ queue'[i] # Shutdown => i = j
  <2> SUFFICES ASSUME NEW i \in 1..Len(queue'), NEW j \in 1..Len(queue'),
                      queue'[i] = queue'[j], queue'[i] # Shutdown
               PROVE  i = j
    OBVIOUS
  <2>1. i + 1 = j + 1 BY <1>1, <1>2, <1>4
  <2> QED BY <1>1, <2>1
<1>6. \A x : Queued(x)' => Queued(x) BY <1>1, <1>2 DEF Queued
<1>7. r # Shutdown => ~ Queued(r)' BY <1>1, <1>2, <1>3, <1>4 DEF Queued
<1> QED BY <1>1, <1>3, <1>5, <1>6, <1>7 DEF Queued

\* The first request of a drain moves from the queue, or from pushback, to the drain, and the
\* batch is empty.
LEMMA StartStoreInv ==
    ASSUME TypeInv, StoreInv, NEW r \in Req, Start(r), Waiting(r),
           \A x : Queued(x)' => Queued(x),
           \A x : Deferred(x)' => Deferred(x),
           ~ Queued(r)', ~ Deferred(r)', Len(pushback') <= 1,
           \A i, j \in 1..Len(queue') : queue'[i] = queue'[j] /\ queue'[i] # Shutdown => i = j
    PROVE  StoreInv'
<1>1. /\ drained' = <<r>> /\ staged' = <<>> /\ granted' = <<>>
      /\ pc' \in {"eval", "drain"}
      /\ UNCHANGED <<arg, reply, log>>
  BY DEF Start, callerVars, logVars
<1>2. \A x : Drawn(x)' <=> x = r BY <1>1 DEF Drawn
<1>3. WaitsOnce'
  <2>1. \A i, j \in 1..Len(drained') : drained'[i] = drained'[j] => i = j BY <1>1
  <2>2. \A x \in Req : ~ (Queued(x) /\ Deferred(x)) BY DEF StoreInv, WaitsOnce
  <2> QED BY <1>2, <2>1, <2>2 DEF WaitsOnce
<1>4. WaitingUntouched'
  <2>1. \A x \in Req : Waiting(x)' => Waiting(x) BY <1>2 DEF Waiting
  <2> QED BY <1>1, <2>1, WaitingKept
<1>5. GrantsOpen' /\ BatchPlaced' BY <1>1, NoBatchPlaced DEF CommittedBatch
<1> QED BY <1>3, <1>4, <1>5 DEF StoreInv

\* Collecting a drain moves requests between the places they wait in.
LEMMA CollectStoreInv ==
    ASSUME TypeInv, StoreInv,
           SendShutdown \/ TakePushback \/ ReceiveFirst \/ ReceiveShutdown \/ DrainOne
    PROVE  StoreInv'
<1> USE DEF callerVars, drainVars, batchVars, logVars
<1>t. /\ queue \in Seq(Req \cup {Shutdown}) /\ pushback \in Seq(Req) /\ drained \in Seq(Req)
      /\ Len(pushback) \in Nat
  BY DEF TypeInv, TypeOK, DrainOK
<1>s. Shutdown \notin Req BY ConstantsAssumption
<1>1. CASE SendShutdown
  <2>1. /\ queue' = Append(queue, Shutdown)
        /\ UNCHANGED <<arg, reply, pushback, drained, log, staged, granted, pc, outcome>>
    BY <1>1 DEF SendShutdown
  <2>2. /\ Len(queue) \in Nat /\ Len(queue') = Len(queue) + 1
        /\ \A i \in 1..Len(queue) : queue'[i] = queue[i]
        /\ queue'[Len(queue) + 1] = Shutdown
    BY <1>t, <2>1, AppendProperties
  <2>3. \A x \in Req : /\ Queued(x)' <=> Queued(x)
                       /\ Deferred(x)' <=> Deferred(x)
                       /\ Drawn(x)' <=> Drawn(x)
    BY <1>s, <2>1, <2>2 DEF Queued, Deferred, Drawn
  <2>4. \A i, j \in 1..Len(queue') : queue'[i] = queue'[j] /\ queue'[i] # Shutdown => i = j
    BY <2>2 DEF StoreInv, WaitsOnce
  <2>5. WaitsOnce' BY <2>1, <2>3, <2>4 DEF StoreInv, WaitsOnce
  <2>6. WaitingUntouched' BY <2>1, <2>3, WaitingKept DEF Waiting
  <2>7. GrantsOpen' /\ BatchPlaced' BY <2>1, BatchKept
  <2> QED BY <2>5, <2>6, <2>7 DEF StoreInv
<1>2. CASE TakePushback
  <2>0. Head(pushback) \in Req /\ pushback # <<>> BY <1>2, <1>t, HeadTail DEF TakePushback
  <2> PICK r \in Req : r = Head(pushback)
    BY <2>0
  <2>1. pushback # <<>> /\ pushback' = <<>> /\ queue' = queue /\ Start(r)
    BY <1>2 DEF TakePushback
  <2>2. r = pushback[1] /\ 1 \in 1..Len(pushback)
    <3>1. Len(pushback) # 0 BY <1>t, <2>1, EmptySeq
    <3> QED BY <1>t, <2>1, <3>1, HeadTail
  <2>3. Deferred(r) /\ \A x : ~ Deferred(x)' BY <2>1, <2>2 DEF Deferred
  <2>4. \A x : Queued(x)' <=> Queued(x) BY <2>1 DEF Queued
  <2>5. ~ Queued(r) BY <2>2, <2>3 DEF StoreInv, WaitsOnce
  <2>6. \A i, j \in 1..Len(queue') : queue'[i] = queue'[j] /\ queue'[i] # Shutdown => i = j
    BY <2>1 DEF StoreInv, WaitsOnce
  <2>7. Len(pushback') <= 1 BY <2>1
  <2> QED BY <2>1, <2>2, <2>3, <2>4, <2>5, <2>6, <2>7, StartStoreInv DEF Waiting
<1>3. CASE ReceiveFirst
  <2>0. Head(queue) \in Req BY <1>3, <1>t, HeadTail DEF ReceiveFirst
  <2> PICK r \in Req : r = Head(queue)
    BY <2>0
  <2>1. /\ queue # <<>> /\ r # Shutdown /\ queue' = Tail(queue)
        /\ pushback' = pushback /\ Start(r)
    BY <1>3 DEF ReceiveFirst
  <2>2. /\ \A x : Queued(x)' => Queued(x)
        /\ Queued(r) /\ ~ Queued(r)'
        /\ \A i, j \in 1..Len(queue') : queue'[i] = queue'[j] /\ queue'[i] # Shutdown => i = j
    BY <2>1, Received
  <2>3. \A x : Deferred(x)' <=> Deferred(x) BY <2>1 DEF Deferred
  <2>4. ~ Deferred(r) /\ Len(pushback') <= 1 BY <2>1, <2>2 DEF StoreInv, WaitsOnce
  <2> QED BY <2>1, <2>2, <2>3, <2>4, StartStoreInv DEF Waiting
<1>4. CASE ReceiveShutdown \/ DrainOne
  <2>1. /\ queue # <<>> /\ queue' = Tail(queue)
        /\ UNCHANGED <<arg, reply, log, staged, granted, outcome>>
        /\ pc \in {"recv", "drain"}
        /\ pc' \in {"loop", "drain", "eval"}
    BY <1>4 DEF ReceiveShutdown, DrainOne
  <2>2. staged' = <<>> /\ granted' = <<>>
    BY <2>1 DEF StoreInv, BatchPlaced, Uncommitted, CommittedBatch, FailedBatch
  <2>3. GrantsOpen' /\ BatchPlaced' BY <2>1, <2>2, NoBatchPlaced DEF CommittedBatch
  <2>4. Head(queue) \in Req \cup {Shutdown} BY <1>t, <2>1, HeadTail
  <2> PICK r \in Req \cup {Shutdown} : r = Head(queue)
    BY <2>4
  <2>5. /\ \A x : Queued(x)' => Queued(x)
        /\ Queued(r)
        /\ r # Shutdown => ~ Queued(r)'
        /\ \A i, j \in 1..Len(queue') : queue'[i] = queue'[j] /\ queue'[i] # Shutdown => i = j
    BY <2>1, Received
  <2>6. \/ UNCHANGED <<pushback, drained>>
        \/ r # Shutdown /\ drained' = Append(drained, r) /\ UNCHANGED pushback
        \/ r # Shutdown /\ pushback' = <<r>> /\ UNCHANGED drained
    BY <1>4 DEF ReceiveShutdown, DrainOne
  <2>7. WaitsOnce' /\ \A x \in Req : Waiting(x)' => Waiting(x)
    <3>0. /\ \A x \in Req : ~ (Queued(x) /\ Deferred(x)) /\ ~ (Queued(x) /\ Drawn(x))
                    /\ ~ (Deferred(x) /\ Drawn(x))
          /\ \A i, j \in 1..Len(drained) : drained[i] = drained[j] => i = j
          /\ Len(pushback) <= 1
      BY DEF StoreInv, WaitsOnce
    <3>1. CASE UNCHANGED <<pushback, drained>>
      <4>1. \A x : (Deferred(x)' <=> Deferred(x)) /\ (Drawn(x)' <=> Drawn(x))
        BY <3>1 DEF Deferred, Drawn
      <4> QED BY <2>5, <3>0, <3>1, <4>1 DEF WaitsOnce, Waiting
    <3>2. CASE r # Shutdown /\ drained' = Append(drained, r) /\ UNCHANGED pushback
      <4>1. r \in Req BY <3>2
      <4>2. /\ Len(drained) \in Nat /\ Len(drained') = Len(drained) + 1
            /\ \A i \in 1..Len(drained) : drained'[i] = drained[i]
            /\ drained'[Len(drained) + 1] = r
        BY <1>t, <3>2, <4>1, AppendProperties
      <4>3. \A x : (Deferred(x)' <=> Deferred(x)) /\ (Drawn(x)' <=> Drawn(x) \/ x = r)
        BY <3>2, <4>2 DEF Deferred, Drawn
      <4>4. Queued(r) /\ ~ Queued(r)' /\ ~ Deferred(r) /\ ~ Drawn(r)
        BY <2>5, <3>0, <3>2, <4>1
      <4>5. \A i, j \in 1..Len(drained') : drained'[i] = drained'[j] => i = j
        BY <3>0, <4>2, <4>4 DEF Drawn
      <4>6. \A x \in Req : ~ (Queued(x)' /\ Deferred(x)') /\ ~ (Queued(x)' /\ Drawn(x)')
                  /\ ~ (Deferred(x)' /\ Drawn(x)')
        BY <2>5, <3>0, <4>3, <4>4
      <4>7. \A x \in Req : Waiting(x)' => Waiting(x) BY <2>5, <4>3, <4>4 DEF Waiting
      <4> QED BY <2>5, <3>0, <3>2, <4>5, <4>6, <4>7 DEF WaitsOnce
    <3>3. CASE r # Shutdown /\ pushback' = <<r>> /\ UNCHANGED drained
      <4>1. r \in Req BY <3>3
      <4>2. \A x : (Deferred(x)' <=> x = r) /\ (Drawn(x)' <=> Drawn(x))
        BY <3>3 DEF Deferred, Drawn
      <4>3. Queued(r) /\ ~ Queued(r)' /\ ~ Drawn(r) BY <2>5, <3>0, <3>3, <4>1
      <4>4. Len(pushback') <= 1 BY <3>3
      <4>5. \A x \in Req : ~ (Queued(x)' /\ Deferred(x)') /\ ~ (Queued(x)' /\ Drawn(x)')
                  /\ ~ (Deferred(x)' /\ Drawn(x)')
        BY <2>5, <3>0, <4>2, <4>3
      <4>6. \A x \in Req : Waiting(x)' => Waiting(x) BY <2>5, <4>2, <4>3 DEF Waiting
      <4> QED BY <2>5, <3>0, <3>3, <4>4, <4>5, <4>6 DEF WaitsOnce
    <3> QED BY <2>6, <3>1, <3>2, <3>3
  <2>8. WaitingUntouched' BY <2>1, <2>7, WaitingKept
  <2> QED BY <2>3, <2>7, <2>8 DEF StoreInv
<1> QED BY <1>1, <1>2, <1>3, <1>4

\* A log extended with the records of a request it does not hold grants that request the range
\* they take, and disturbs no earlier grant.
LEMMA AppendPlaced ==
    ASSUME TypeInv, NEW r \in Req, NEW l, NEW m, Len(l) \in Nat, arg[r].events # <<>>,
           Absent(l, r),
           Len(m) = Len(l) + Len(arg[r].events),
           \A p \in 1..Len(l) : m[p] = l[p],
           \A k \in 1..Len(arg[r].events) : m[Len(l) + k] = RecordsOf(r)[k]
    PROVE  /\ PlacedIn(m, [req |-> r, first |-> Len(l) + 1, last |-> Len(l) + Len(arg[r].events)])
           /\ \A g \in Grant : g.req # r /\ PlacedIn(l, g) => PlacedIn(m, g)
<1> DEFINE n == Len(arg[r].events)
           w == [req |-> r, first |-> Len(l) + 1, last |-> Len(l) + n]
<1>1. n \in Nat /\ n > 0
  <2>1. arg[r].events \in Seq(Event) BY RequestFields DEF TypeInv, TypeOK, CallersOK
  <2> QED BY <2>1, EmptySeq
<1>2. \A k \in 1..n : m[Len(l) + k].req = r /\ m[Len(l) + k].event = arg[r].events[k]
  BY RecordsOfType DEF TypeInv
<1> HIDE DEF n
<1>3. Len(m) = Len(l) + n BY DEF n
<1>4. \A p \in 1..Len(m) : p > Len(l) =>
        m[p].req = r /\ m[p].event = arg[r].events[p - (Len(l) + 1) + 1]
  <2> SUFFICES ASSUME NEW p \in 1..Len(m), p > Len(l)
               PROVE  m[p].req = r /\ m[p].event = arg[r].events[p - (Len(l) + 1) + 1]
    OBVIOUS
  <2>1. PICK k \in 1..n : p = Len(l) + k
    <3>1. p - Len(l) \in 1..n /\ p = Len(l) + (p - Len(l)) BY <1>1, <1>3
    <3> QED BY <3>1
  <2>2. p - (Len(l) + 1) + 1 = k BY <1>1, <2>1
  <2> QED BY <1>2, <2>1, <2>2
<1>5. \A p \in 1..Len(l) : m[p].req # r BY DEF Absent
<1>6. PlacedIn(m, w)
  <2>1. w.req = r /\ w.first = Len(l) + 1 /\ w.last = Len(l) + n OBVIOUS
  <2> HIDE DEF w
  <2>2. /\ 1 <= w.first /\ w.first <= w.last /\ w.last <= Len(m)
        /\ w.last = w.first + n - 1
    BY <1>1, <1>3, <2>1
  <2>3. \A p \in 1..Len(m) : m[p].req = w.req <=> w.first <= p /\ p <= w.last
    BY <1>1, <1>3, <1>4, <1>5, <2>1
  <2>4. \A p \in 1..Len(m) : m[p].req = w.req =>
          m[p].event = arg[w.req].events[p - w.first + 1]
    BY <1>1, <1>3, <1>4, <1>5, <2>1
  <2> QED BY <2>1, <2>2, <2>3, <2>4 DEF PlacedIn, n
<1>7. ASSUME NEW g \in Grant, g.req # r, PlacedIn(l, g) PROVE PlacedIn(m, g)
  <2>1. g.first \in Nat /\ g.last \in Nat BY DEF Grant
  <2>2. g.last <= Len(l) BY <1>7 DEF PlacedIn
  <2>3. g.last <= Len(m) BY <1>1, <1>3, <2>1, <2>2
  <2>4. \A p \in 1..Len(m) : p \in 1..Len(l) \/ p > Len(l) BY <1>1, <1>3
  <2>5. \A p \in 1..Len(m) : p > Len(l) => m[p].req # g.req /\ ~ (p <= g.last)
    BY <1>3, <1>4, <1>7, <2>1, <2>2
  <2>6. \A p \in 1..Len(l) : m[p] = l[p] OBVIOUS
  <2>7. \A p \in 1..Len(m) : m[p].req = g.req <=> g.first <= p /\ p <= g.last
    BY <1>7, <2>4, <2>5, <2>6 DEF PlacedIn
  <2>8. \A p \in 1..Len(m) : m[p].req = g.req =>
          m[p].event = arg[g.req].events[p - g.first + 1]
    BY <1>7, <2>4, <2>5, <2>6 DEF PlacedIn
  <2> QED BY <1>7, <2>3, <2>7, <2>8 DEF PlacedIn
<1> QED BY <1>6, <1>7 DEF n

\* Staging an untouched request grants it the next range of the batch.
LEMMA AcceptStoreInv ==
    ASSUME TypeInv, StoreInv, pc = "eval", NEW r \in Req, Untouched(r), Stage(r),
           UNCHANGED <<arg, reply, log, pc>>
    PROVE  /\ GrantsOpen' /\ BatchPlaced'
           /\ \A x \in Req : x # r /\ Untouched(x) => Untouched(x)'
<1> DEFINE n == Len(arg[r].events)
           w == [req |-> r, first |-> Len(log) + Len(staged) + 1,
                 last |-> Len(log) + Len(staged) + n]
<1>1. staged' = staged \o RecordsOf(r) /\ granted' = Append(granted, w) BY DEF Stage
<1>2. n \in Nat
  <2>1. arg[r].events \in Seq(Event) BY RequestFields DEF TypeInv, TypeOK, CallersOK
  <2> QED BY <2>1
<1>3. /\ staged' \in Seq(Record)
      /\ Len(staged') = Len(staged) + n
      /\ \A k \in 1..Len(staged) : staged'[k] = staged[k]
      /\ \A k \in 1..n : staged'[Len(staged) + k] = RecordsOf(r)[k]
  <2>0. RecordsOf(r) \in Seq(Record) /\ staged \in Seq(Record)
    BY RecordsOfType, BatchTypes DEF TypeInv
  <2>1. Len(RecordsOf(r)) = n BY RecordsOfType DEF TypeInv
  <2>2. /\ staged \o RecordsOf(r) \in Seq(Record)
        /\ Len(staged \o RecordsOf(r)) = Len(staged) + Len(RecordsOf(r))
        /\ \A i \in 1..Len(staged) + Len(RecordsOf(r)) :
              (staged \o RecordsOf(r))[i] =
                  IF i <= Len(staged) THEN staged[i] ELSE RecordsOf(r)[i - Len(staged)]
        /\ Len(staged) \in Nat
    BY <2>0, ConcatProperties
  <2> HIDE DEF n
  <2>3. \A k \in 1..Len(staged) : staged'[k] = staged[k] BY <1>1, <1>2, <2>1, <2>2
  <2>4. \A k \in 1..n : staged'[Len(staged) + k] = RecordsOf(r)[k]
    <3> SUFFICES ASSUME NEW k \in 1..n PROVE staged'[Len(staged) + k] = RecordsOf(r)[k]
      OBVIOUS
    <3>1. /\ Len(staged) + k \in 1..Len(staged) + Len(RecordsOf(r))
          /\ ~ (Len(staged) + k <= Len(staged))
          /\ Len(staged) + k - Len(staged) = k
      BY <1>2, <2>1, <2>2
    <3> QED BY <1>1, <2>2, <3>1
  <2> QED BY <1>1, <2>1, <2>2, <2>3, <2>4
<1>4. /\ w \in Grant /\ w.req = r
      /\ Len(granted') = Len(granted) + 1
      /\ \A i \in 1..Len(granted) : granted'[i] = granted[i]
      /\ granted'[Len(granted) + 1] = w
  <2>0. /\ Len(log) + Len(staged) + 1 \in Nat
        /\ Len(log) + Len(staged) + n \in Nat
    BY <1>2, BatchTypes, NatSum
  <2> HIDE DEF n
  <2>1. w \in Grant /\ w.req = r BY <2>0 DEF Grant
  <2>2. granted \in Seq(Grant) BY BatchTypes
  <2> HIDE DEF w
  <2> QED BY <1>1, <2>1, <2>2, AppendProperties
<1>5. Len(log) \in Nat /\ Len(staged) \in Nat /\ Len(granted) \in Nat BY BatchTypes
<1> HIDE DEF w, n
<1>6. \A i \in 1..Len(granted') : i \in 1..Len(granted) \/ i = Len(granted) + 1
  BY <1>4, <1>5
<1>7. \A i \in 1..Len(granted) : granted[i].req # r BY DEF Untouched, Granted
<1>8. \A x : Granted(x)' <=> Granted(x) \/ x = r BY <1>4, <1>5, <1>6 DEF Granted
<1>9. \A k \in 1..Len(staged') : staged'[k].req = r \/ (k \in 1..Len(staged) /\ staged'[k] = staged[k])
  <2> SUFFICES ASSUME NEW k \in 1..Len(staged'), k > Len(staged)
               PROVE  staged'[k].req = r
    BY <1>3, <1>5
  <2>1. k - Len(staged) \in 1..n /\ Len(staged) + (k - Len(staged)) = k
    BY <1>2, <1>3, <1>5
  <2>2. \A j \in 1..n : RecordsOf(r)[j].req = r BY RecordsOfType DEF TypeInv, n
  <2> QED BY <1>3, <2>1, <2>2
<1>10. GrantsOpen'
  <2>1. \A i, j \in 1..Len(granted') : granted'[i].req = granted'[j].req => i = j
    BY <1>4, <1>6, <1>7 DEF StoreInv, GrantsOpen
  <2>2. \A i \in 1..Len(granted') :
          reply'[granted'[i].req] = None /\ arg'[granted'[i].req].events # <<>>
    BY <1>4, <1>6 DEF StoreInv, GrantsOpen, Untouched
  <2> QED BY <2>1, <2>2 DEF GrantsOpen
<1>11. \A x \in Req : x # r /\ Untouched(x) => Untouched(x)'
  BY <1>8, <1>9 DEF Untouched, Absent
<1>12. BatchPlaced'
  <2> DEFINE l == log \o staged
             m == log' \o staged'
  <2>1. /\ Len(l) = Len(log) + Len(staged) /\ Len(l) \in Nat
        /\ \A p \in 1..Len(log) : l[p] = log[p]
        /\ \A p \in Len(log) + 1 .. Len(log) + Len(staged) : l[p] = staged[p - Len(log)]
    BY <1>5, BatchTypes
  <2>2. /\ Len(m) = Len(log) + Len(staged')
        /\ \A i \in 1..Len(log) + Len(staged') :
              m[i] = IF i <= Len(log) THEN log[i] ELSE staged'[i - Len(log)]
    <3>1. log \in Seq(Record) /\ m = log \o staged' BY BatchTypes
    <3>2. staged' \in Seq(Record) BY <1>3
    <3> QED BY <3>1, <3>2, ConcatProperties
  <2>3. Absent(l, r)
    <3> HIDE DEF l
    <3>1. \A p \in 1..Len(l) : p \in 1..Len(log) \/ p - Len(log) \in 1..Len(staged)
      BY <1>5, <2>1
    <3>2. \A p \in 1..Len(l) : p \in 1..Len(log) \/ p \in Len(log) + 1 .. Len(log) + Len(staged)
      BY <1>5, <2>1
    <3> QED BY <2>1, <3>1, <3>2 DEF Absent, Untouched
  <2> HIDE DEF l, m
  <2>4. Len(m) = Len(l) + n BY <1>2, <1>3, <1>5, <2>1, <2>2
  <2>5. \A p \in 1..Len(l) : m[p] = l[p]
    <3> SUFFICES ASSUME NEW p \in 1..Len(l) PROVE m[p] = l[p]
      OBVIOUS
    <3>0. p \in 1..Len(log) + Len(staged') BY <1>2, <1>3, <1>5, <2>1
    <3>1. CASE p <= Len(log) BY <1>5, <2>1, <2>2, <3>0, <3>1
    <3>2. CASE p > Len(log)
      <4>1. p \in Len(log) + 1 .. Len(log) + Len(staged) /\ p - Len(log) \in 1..Len(staged)
        BY <1>5, <2>1, <3>2
      <4>2. m[p] = staged'[p - Len(log)] BY <1>5, <2>2, <3>0, <3>2, SMTT(40)
      <4> QED BY <1>3, <2>1, <4>1, <4>2
    <3> QED BY <1>5, <2>1, <3>1, <3>2
  <2>6. \A k \in 1..n : m[Len(l) + k] = RecordsOf(r)[k]
    <3> SUFFICES ASSUME NEW k \in 1..n PROVE m[Len(l) + k] = RecordsOf(r)[k]
      OBVIOUS
    <3>1. /\ Len(l) + k \in 1..Len(log) + Len(staged')
          /\ Len(l) + k > Len(log)
          /\ Len(l) + k - Len(log) = Len(staged) + k
      BY <1>2, <1>3, <1>5, <2>1
    <3>2. m[Len(l) + k] = staged'[Len(staged) + k] BY <1>5, <2>2, <3>1
    <3> QED BY <1>3, <3>2
  <2>7. w = [req |-> r, first |-> Len(l) + 1, last |-> Len(l) + n] BY <2>1 DEF w
  <2>8. PlacedIn(m, w) /\ \A g \in Grant : g.req # r /\ PlacedIn(l, g) => PlacedIn(m, g)
    <3>1. arg[r].events # <<>> BY DEF Untouched
    <3> QED BY <2>1, <2>3, <2>4, <2>5, <2>6, <2>7, <3>1, AppendPlaced DEF n
  <2>9. w.first > Len(log) BY <1>5, <2>1, <2>7
  <2>10. Uncommitted BY DEF Uncommitted
  <2>11. \A i \in 1..Len(granted) : PlacedIn(l, granted[i]) /\ granted[i].first > Len(log)
    BY <2>10 DEF StoreInv, BatchPlaced, l
  <2>12. \A i \in 1..Len(granted') : PlacedIn(m, granted'[i]) /\ granted'[i].first > Len(log)
    <3> SUFFICES ASSUME NEW i \in 1..Len(granted')
                 PROVE  PlacedIn(m, granted'[i]) /\ granted'[i].first > Len(log)
      OBVIOUS
    <3>1. CASE i \in 1..Len(granted) BY <1>4, <1>7, <2>8, <2>11, <3>1, BatchTypes
    <3>2. CASE i = Len(granted) + 1 BY <1>4, <2>8, <2>9, <3>2
    <3> QED BY <1>6, <3>1, <3>2
  <2>13. \A k \in 1..Len(staged') : \E i \in 1..Len(granted') : granted'[i].req = staged'[k].req
    <3>1. \A k \in 1..Len(staged) : Granted(staged[k].req)
      BY <2>10 DEF StoreInv, BatchPlaced
    <3>2. \A x : Granted(x) \/ x = r => \E i \in 1..Len(granted') : granted'[i].req = x
      BY <1>8 DEF Granted
    <3> QED BY <1>9, <3>1, <3>2
  <2>14. ~ CommittedBatch' /\ ~ FailedBatch' /\ Uncommitted'
    BY DEF CommittedBatch, FailedBatch, Uncommitted
  <2>15. \A g : PlacedIn(m, g) => PlacedIn(log \o staged, g)' BY DEF PlacedIn, m
  <2> QED BY <2>12, <2>13, <2>14, <2>15 DEF BatchPlaced, Granted
<1> QED BY <1>10, <1>11, <1>12

\* Evaluating the next drained request answers it, or stages it.
LEMMA EvaluateStoreInv ==
    ASSUME TypeInv, StoreInv, Evaluate
    PROVE  StoreInv'
<1> USE DEF logVars
<1>1. drained \in Seq(Req) /\ drained # <<>> /\ Len(drained) \in Nat /\ reply \in [Req -> Reply]
  BY DEF TypeInv, TypeOK, DrainOK, CallersOK, Evaluate
<1>2. Head(drained) \in Req BY <1>1, HeadTail
<1> PICK r \in Req : r = Head(drained)
  BY <1>2
<1>3. /\ pc = "eval" /\ drained' = Tail(drained)
      /\ UNCHANGED <<arg, queue, pushback, log, pc, outcome>>
      /\ \/ UNCHANGED <<staged, granted>> /\ \E answer : reply' = [reply EXCEPT ![r] = answer]
         \/ Stage(r) /\ reply' = reply
  BY DEF Evaluate, RejectAfterBeyondTip, RejectConflict, RejectError, Accept, Answer
<1>4. /\ Len(drained) > 0 /\ Len(drained') = Len(drained) - 1 /\ r = drained[1]
      /\ \A i \in 1..Len(drained') : drained'[i] = drained[i + 1]
  <2>1. Len(drained) # 0 BY <1>1, EmptySeq
  <2> QED BY <1>1, <1>3, <2>1, HeadTail
<1>5. \A i \in 1..Len(drained') : i + 1 \in 1..Len(drained) /\ i + 1 # 1 BY <1>1, <1>4
<1>6. 1 \in 1..Len(drained) BY <1>1, <1>4
<1>7. \A i, j \in 1..Len(drained) : drained[i] = drained[j] => i = j
  BY DEF StoreInv, WaitsOnce
<1>8. Drawn(r) /\ ~ Drawn(r)' /\ \A x : Drawn(x)' => Drawn(x)
  BY <1>4, <1>5, <1>6, <1>7 DEF Drawn
<1>9. \A x : (Queued(x)' <=> Queued(x)) /\ (Deferred(x)' <=> Deferred(x))
  BY <1>3 DEF Queued, Deferred
<1>10. \A x \in Req : Waiting(x)' => Waiting(x) /\ x # r
  BY <1>8, <1>9 DEF StoreInv, WaitsOnce, Waiting
<1>11. WaitsOnce'
  <2>1. \A i, j \in 1..Len(drained') : drained'[i] = drained'[j] => i = j
    <3> SUFFICES ASSUME NEW i \in 1..Len(drained'), NEW j \in 1..Len(drained'),
                        drained'[i] = drained'[j]
                 PROVE  i = j
      OBVIOUS
    <3>1. i + 1 = j + 1 BY <1>4, <1>5, <1>7, SMTT(40)
    <3> QED BY <3>1
  <2>2. \A i, j \in 1..Len(queue') : queue'[i] = queue'[j] /\ queue'[i] # Shutdown => i = j
    BY <1>3 DEF StoreInv, WaitsOnce
  <2> QED BY <1>3, <1>8, <1>9, <2>1, <2>2 DEF StoreInv, WaitsOnce
<1>12. Untouched(r) BY <1>8 DEF StoreInv, WaitingUntouched, Waiting
<1>13. /\ GrantsOpen' /\ BatchPlaced'
       /\ \A x \in Req : x # r /\ Untouched(x) => Untouched(x)'
  <2>1. CASE Stage(r) /\ reply' = reply BY <1>3, <1>12, <2>1, AcceptStoreInv
  <2>2. CASE UNCHANGED <<staged, granted>> /\ \E answer : reply' = [reply EXCEPT ![r] = answer]
    <3>1. \A x \in Req : x # r => reply'[x] = reply[x] BY <1>1, <2>2
    <3>2. \A i \in 1..Len(granted) : granted[i].req \in Req /\ granted[i].req # r
      BY <1>12, BatchTypes DEF Untouched, Granted
    <3>3. GrantsOpen' /\ BatchPlaced' BY <1>3, <2>2, <3>1, <3>2, BatchKept
    <3>4. \A x \in Req : x # r /\ Untouched(x) => Untouched(x)'
      BY <1>3, <2>2, <3>1 DEF Untouched, Absent, Granted
    <3> QED BY <3>3, <3>4
  <2> QED BY <1>3, <2>1, <2>2
<1>14. WaitingUntouched' BY <1>10, <1>13 DEF StoreInv, WaitingUntouched
<1> QED BY <1>11, <1>13, <1>14 DEF StoreInv

\* The batch becomes durable: what was granted beyond the log lies on it.
LEMMA CommitStoreInv ==
    ASSUME TypeInv, StoreInv, Commit
    PROVE  StoreInv'
<1>1. /\ pc = "commit" /\ pc' = "feed" /\ log' = log \o staged /\ outcome' = "ok"
      /\ UNCHANGED <<arg, reply, queue, pushback, drained, staged, granted>>
  BY DEF Commit, callerVars, drainVars
<1>2. WaitsOnce' /\ GrantsOpen' /\ \A x : Waiting(x)' <=> Waiting(x)
  BY <1>1 DEF StoreInv, WaitsOnce, Waiting, Queued, Deferred, Drawn, GrantsOpen
<1>3. \A x : Absent(log, x) /\ Absent(staged, x) => Absent(log \o staged, x)
  <2> SUFFICES ASSUME NEW x, Absent(log, x), Absent(staged, x), NEW p \in 1..Len(log \o staged)
               PROVE  (log \o staged)[p].req # x
    BY DEF Absent
  <2>1. CASE p \in 1..Len(log) BY <2>1, BatchTypes DEF Absent
  <2>2. CASE p \notin 1..Len(log)
    <3>1. p \in Len(log) + 1 .. Len(log) + Len(staged) /\ p - Len(log) \in 1..Len(staged)
      BY <2>2, BatchTypes
    <3> QED BY <3>1, BatchTypes DEF Absent
  <2> QED BY <2>1, <2>2
<1>4. \A x \in Req : Untouched(x) => Untouched(x)'
  <2>1. \A x : Absent(log \o staged, x) => Absent(log, x)' BY <1>1 DEF Absent
  <2>2. \A x : (Absent(staged, x)' <=> Absent(staged, x)) /\ (Granted(x)' <=> Granted(x))
    BY <1>1 DEF Absent, Granted
  <2> QED BY <1>1, <1>3, <2>1, <2>2 DEF Untouched
<1>5. BatchPlaced'
  <2>1. \A i \in 1..Len(granted) : PlacedIn(log \o staged, granted[i])
    BY <1>1 DEF StoreInv, BatchPlaced, Uncommitted
  <2>2. \A g : PlacedIn(log \o staged, g) => PlacedIn(log, g)' BY <1>1 DEF PlacedIn
  <2> QED BY <1>1, <2>1, <2>2 DEF BatchPlaced, Uncommitted, FailedBatch, CommittedBatch
<1> QED BY <1>2, <1>4, <1>5 DEF StoreInv, WaitingUntouched

\* A batch that fails leaves its requests without a record.
LEMMA FailStoreInv ==
    ASSUME TypeInv, StoreInv, RejectTooLarge \/ RolloverFails \/ CommitFails
    PROVE  StoreInv'
<1>1. /\ pc \in {"append", "commit"} /\ pc' = "reply" /\ outcome' # "ok"
      /\ UNCHANGED <<arg, reply, queue, pushback, drained, log, staged, granted>>
  BY DEF RejectTooLarge, RolloverFails, CommitFails, callerVars, drainVars, logVars
<1>2. WaitsOnce' /\ WaitingUntouched' /\ GrantsOpen'
  BY <1>1 DEF StoreInv, WaitsOnce, WaitingUntouched, Waiting, Queued, Deferred, Drawn, Untouched,
      Granted, Absent, GrantsOpen
<1>3. \A i \in 1..Len(granted) : Absent(log, granted[i].req)
  <2>1. \A i \in 1..Len(granted) : PlacedIn(log \o staged, granted[i]) /\ granted[i].first > Len(log)
    BY <1>1 DEF StoreInv, BatchPlaced, Uncommitted
  <2> QED BY <2>1, BeyondIsAbsent
<1>4. BatchPlaced'
  BY <1>1, <1>3 DEF BatchPlaced, Uncommitted, CommittedBatch, FailedBatch, Absent
<1> QED BY <1>2, <1>4 DEF StoreInv

\* Replying to one request of the batch leaves the others as they are.
LEMMA ReplyOneStoreInv ==
    ASSUME TypeInv, StoreInv, ReplyOne
    PROVE  StoreInv'
<1>1. granted \in Seq(Grant) /\ granted # <<>> /\ Len(granted) \in Nat /\ reply \in [Req -> Reply]
  BY BatchTypes DEF ReplyOne, TypeInv, TypeOK, CallersOK
<1>2. /\ Len(granted) > 0 /\ Len(Tail(granted)) = Len(granted) - 1
      /\ Head(granted) = granted[1] /\ Head(granted).req \in Req
      /\ \A i \in 1..Len(Tail(granted)) : Tail(granted)[i] = granted[i + 1]
  <2>1. Len(granted) # 0 BY <1>1, EmptySeq
  <2>2. Head(granted) \in Grant BY <1>1, HeadTail
  <2> QED BY <1>1, <2>1, <2>2, HeadTail DEF Grant
<1> PICK r \in Req : r = Head(granted).req
  BY <1>2
<1>3. /\ pc = "reply" /\ granted' = Tail(granted)
      /\ \E answer : reply' = [reply EXCEPT ![r] = answer]
      /\ UNCHANGED <<arg, queue, pushback, drained, log, staged, outcome, pc>>
  BY DEF ReplyOne, Answer, drainVars, logVars
<1>4. \A i \in 1..Len(granted') : i + 1 \in 1..Len(granted) /\ i + 1 # 1 /\ granted'[i] = granted[i + 1]
  BY <1>1, <1>2, <1>3
<1>5. \A x \in Req : x # r => reply'[x] = reply[x] BY <1>1, <1>3
<1>6. Granted(r) /\ \A x : Granted(x)' => Granted(x)
  <2>1. 1 \in 1..Len(granted) /\ granted[1].req = r BY <1>1, <1>2
  <2>2. \A x : Granted(x)' => Granted(x) BY <1>4 DEF Granted
  <2> QED BY <2>1, <2>2 DEF Granted
<1>7. \A x : Waiting(x)' <=> Waiting(x) BY <1>3 DEF Waiting, Queued, Deferred, Drawn
<1>8. WaitsOnce' BY <1>3 DEF StoreInv, WaitsOnce, Queued, Deferred, Drawn
<1>9. WaitingUntouched'
  BY <1>3, <1>5, <1>6, <1>7 DEF StoreInv, WaitingUntouched, Untouched, Absent
<1>10. GrantsOpen'
  <2>1. 1 \in 1..Len(granted) /\ granted[1].req = r BY <1>1, <1>2
  <2>2. \A i \in 1..Len(granted') : granted'[i].req \in Req /\ granted'[i].req # r
    <3> SUFFICES ASSUME NEW i \in 1..Len(granted')
                 PROVE  granted'[i].req \in Req /\ granted'[i].req # r
      OBVIOUS
    <3>1. PICK k \in 1..Len(granted) : k # 1 /\ granted'[i] = granted[k] BY <1>4
    <3>2. granted[k].req \in Req BY BatchTypes
    <3>3. granted[k].req # granted[1].req BY <2>1, <3>1 DEF StoreInv, GrantsOpen
    <3> QED BY <2>1, <3>1, <3>2, <3>3
  <2>3. \A i, j \in 1..Len(granted') : granted'[i].req = granted'[j].req => i = j
    <3> SUFFICES ASSUME NEW i \in 1..Len(granted'), NEW j \in 1..Len(granted'),
                        granted'[i].req = granted'[j].req
                 PROVE  i = j
      OBVIOUS
    <3>1. i + 1 = j + 1 BY <1>4 DEF StoreInv, GrantsOpen
    <3> QED BY <3>1
  <2> QED BY <1>3, <1>4, <1>5, <2>2, <2>3 DEF StoreInv, GrantsOpen
<1>11. BatchPlaced'
  <2>1. \A i \in 1..Len(granted) :
          /\ outcome = "ok" => PlacedIn(log, granted[i])
          /\ outcome # "ok" => Absent(log, granted[i].req)
    BY <1>3 DEF StoreInv, BatchPlaced, CommittedBatch, FailedBatch
  <2>2. \A i \in 1..Len(granted') :
          /\ outcome = "ok" => PlacedIn(log, granted'[i])
          /\ outcome # "ok" => Absent(log, granted'[i].req)
    BY <1>4, <2>1
  <2>3. \A g : PlacedIn(log, g) => PlacedIn(log, g)' BY <1>3 DEF PlacedIn
  <2> QED BY <1>3, <2>2, <2>3 DEF BatchPlaced, Uncommitted, CommittedBatch, FailedBatch, Absent
<1> QED BY <1>8, <1>9, <1>10, <1>11 DEF StoreInv

\* Every step keeps each request in its place.
LEMMA StepStoreInv == TypeInv /\ Frozen /\ StoreInv /\ [Next]_vars => StoreInv'
<1> SUFFICES ASSUME TypeInv, Frozen, StoreInv, [Next]_vars PROVE StoreInv'
  OBVIOUS
<1> USE DEF callerVars, drainVars, batchVars, logVars
<1>1. CASE \E r \in Req : Submit(r) BY <1>1, SubmitStoreInv
<1>2. CASE SendShutdown \/ TakePushback \/ ReceiveFirst \/ ReceiveShutdown \/ DrainOne
  BY <1>2, CollectStoreInv
<1>3. CASE DrainEnd \/ GoRound \/ Restart
  <2>1. /\ pc \in {"drain", "loop", "down"} /\ pc' \in {"eval", "recv"}
        /\ UNCHANGED <<arg, reply, queue, pushback, drained, log, staged, granted>>
    BY <1>3 DEF DrainEnd, GoRound, Restart
  <2>2. staged = <<>> /\ granted = <<>>
    BY <2>1 DEF StoreInv, BatchPlaced, Uncommitted, CommittedBatch, FailedBatch
  <2> QED BY <2>1, <2>2, StoreQuiet DEF CommittedBatch
<1>4. CASE Evaluate BY <1>4, EvaluateStoreInv
<1>5. CASE EvaluateEnd
  <2>1. /\ pc = "eval" /\ (staged # <<>> => pc' = "append") /\ (staged = <<>> => pc' = "loop")
        /\ UNCHANGED <<arg, reply, queue, pushback, drained, log, staged, granted>>
    BY <1>5 DEF EvaluateEnd
  <2>2. CASE staged = <<>>
    <3>1. \A i \in 1..Len(granted) :
            PlacedIn(log \o staged, granted[i]) /\ granted[i].first > Len(log)
      BY <2>1 DEF StoreInv, BatchPlaced, Uncommitted
    <3>2. Len(log \o staged) = Len(log) /\ Len(log) \in Nat BY <2>2, BatchTypes
    <3>3. \A i \in 1..Len(granted) : FALSE BY <3>1, <3>2, BatchTypes DEF PlacedIn
    <3>4. granted = <<>>
      <4>1. granted \in Seq(Grant) /\ Len(granted) \in Nat BY BatchTypes
      <4>2. Len(granted) = 0 BY <3>3, <4>1
      <4> QED BY <4>1, <4>2, EmptySeq
    <3> QED BY <2>1, <2>2, <3>4, StoreQuiet DEF CommittedBatch
  <2>3. CASE staged # <<>> BY <2>1, <2>3, StoreQuiet DEF Uncommitted, CommittedBatch
  <2> QED BY <2>2, <2>3
<1>6. CASE FitsActive \/ Rollover
  <2>1. /\ pc = "append" /\ pc' = "commit"
        /\ UNCHANGED <<arg, reply, queue, pushback, drained, log, staged, granted>>
    BY <1>6 DEF FitsActive, Rollover
  <2> QED BY <2>1, StoreQuiet DEF Uncommitted, CommittedBatch
<1>7. CASE RejectTooLarge \/ RolloverFails \/ CommitFails BY <1>7, FailStoreInv
<1>8. CASE Commit BY <1>8, CommitStoreInv
<1>9. CASE FeedIndex \/ PublishSegments \/ PublishWatermark
  <2>1. /\ pc \in {"feed", "publish", "watermark"} /\ pc' \in {"publish", "watermark", "reply"}
        /\ UNCHANGED <<arg, reply, queue, pushback, drained, log, staged, granted, outcome>>
    BY <1>9 DEF FeedIndex, PublishSegments, PublishWatermark
  <2>2. CommittedBatch /\ outcome = "ok" BY <2>1 DEF StoreInv, BatchPlaced, CommittedBatch
  <2> QED BY <2>1, <2>2, StoreQuiet DEF CommittedBatch
<1>10. CASE ReplyOne BY <1>10, ReplyOneStoreInv
<1>11. CASE ReplyEnd
  <2>1. /\ granted = <<>> /\ granted' = <<>> /\ staged' = <<>> /\ pc' = "loop"
        /\ UNCHANGED <<arg, reply, queue, pushback, drained, log>>
    BY <1>11 DEF ReplyEnd
  <2>2. WaitsOnce' /\ \A x : Waiting(x)' <=> Waiting(x)
    BY <2>1 DEF StoreInv, WaitsOnce, Waiting, Queued, Deferred, Drawn
  <2>3. WaitingUntouched' BY <2>1, <2>2, WaitingKept
  <2>4. GrantsOpen' /\ BatchPlaced' BY <2>1, NoBatchPlaced DEF CommittedBatch
  <2> QED BY <2>2, <2>3, <2>4 DEF StoreInv
<1>12. CASE Exit
  <2>1. /\ pc = "loop" /\ pc' = "exited" /\ queue' = <<>>
        /\ reply' = [r \in Req |-> IF \E i \in DOMAIN queue : queue[i] = r
                                   THEN Err("shutdown") ELSE reply[r]]
        /\ UNCHANGED <<arg, pushback, drained, log, staged, granted, outcome>>
    BY <1>12 DEF Exit
  <2>2. staged = <<>> /\ granted = <<>>
    BY <2>1 DEF StoreInv, BatchPlaced, Uncommitted, CommittedBatch, FailedBatch
  <2>3. /\ \A x : ~ Queued(x)'
        /\ \A x : (Deferred(x)' <=> Deferred(x)) /\ (Drawn(x)' <=> Drawn(x))
    BY <2>1 DEF Queued, Deferred, Drawn
  <2>4. DOMAIN queue = 1..Len(queue) BY DEF TypeInv, TypeOK, DrainOK
  <2>5. \A x \in Req : ~ Queued(x) => reply'[x] = reply[x] BY <2>1, <2>4 DEF Queued
  <2>6. WaitsOnce'
    <3>1. Len(queue') = 0 BY <2>1
    <3> QED BY <2>1, <2>3, <3>1 DEF StoreInv, WaitsOnce
  <2>7. WaitingUntouched'
    <3> SUFFICES ASSUME NEW x \in Req, Waiting(x)' PROVE Untouched(x)'
      BY DEF WaitingUntouched
    <3>1. Waiting(x) /\ ~ Queued(x) BY <2>3 DEF StoreInv, WaitsOnce, Waiting
    <3>2. Untouched(x) /\ reply'[x] = reply[x]
      BY <2>5, <3>1 DEF StoreInv, WaitingUntouched
    <3> QED BY <2>1, <3>2 DEF Untouched, Absent, Granted
  <2>8. GrantsOpen' /\ BatchPlaced' BY <2>1, <2>2, NoBatchPlaced DEF CommittedBatch
  <2> QED BY <2>6, <2>7, <2>8 DEF StoreInv
<1>13. CASE Crash
  <2>1. /\ queue' = <<>> /\ pushback' = <<>> /\ drained' = <<>> /\ staged' = <<>>
        /\ granted' = <<>> /\ pc' \in {"down", "astray"}
    BY <1>13 DEF Crash
  <2>2. WaitsOnce' /\ \A x : ~ Waiting(x)'
    BY <2>1 DEF WaitsOnce, Waiting, Queued, Deferred, Drawn
  <2>3. GrantsOpen' /\ BatchPlaced' BY <2>1, NoBatchPlaced DEF CommittedBatch
  <2> QED BY <2>2, <2>3 DEF StoreInv, WaitingUntouched
<1>14. CASE UNCHANGED vars
  <2>1. UNCHANGED <<arg, reply, queue, pushback, drained, log, staged, granted, pc, outcome>>
    BY <1>14 DEF vars
  <2>2. WaitsOnce' /\ WaitingUntouched'
    BY <2>1 DEF StoreInv, WaitsOnce, WaitingUntouched, Waiting, Queued, Deferred, Drawn,
        Untouched, Granted, Absent
  <2>3. GrantsOpen' /\ BatchPlaced' BY <2>1, BatchKept
  <2> QED BY <2>2, <2>3 DEF StoreInv
<1>15. CASE CommitMisplaced
  <2>1. /\ UNCHANGED <<arg, reply, queue, pushback, drained, log, staged, granted>>
        /\ pc' = "astray"
    BY <1>15 DEF CommitMisplaced
  <2>2. WaitsOnce' /\ WaitingUntouched' /\ GrantsOpen'
    BY <2>1 DEF StoreInv, WaitsOnce, WaitingUntouched, Waiting, Queued, Deferred, Drawn,
        Untouched, Granted, Absent, GrantsOpen
  <2>3. BatchPlaced'
    BY <2>1 DEF BatchPlaced, Uncommitted, CommittedBatch, FailedBatch
  <2> QED BY <2>2, <2>3 DEF StoreInv
<1> QED
  BY <1>1, <1>2, <1>3, <1>4, <1>5, <1>6, <1>7, <1>8, <1>9, <1>10, <1>11, <1>12, <1>13, <1>14,
      <1>15
      DEF Next, Worker

\* Every request is in its place, always.
LEMMA AlwaysStoreInv == Spec => [](Frozen /\ StoreInv)
<1>1. Init => Frozen /\ StoreInv BY InitFrozen, InitStoreInv
<1>2. TypeInv /\ (Frozen /\ StoreInv) /\ [Next]_vars => (Frozen /\ StoreInv)'
  BY StepFrozen, StepStoreInv
<1> QED BY <1>1, <1>2, AlwaysTypeInv, PTL DEF Spec

--------------------
\* What a failed commit leaves behind the log's end. Each of its records belongs to a request that
\* was answered with the I/O error, or is about to be, and has no record on the log: its range lies
\* in the remains. This is what a crash that brings the batch back needs.
OwedAnError(r) == FailedBatch /\ outcome = "log" /\ Granted(r) /\ reply[r] = None

PlacedBeyond(r) ==
    \E g \in Grant : g.req = r /\ g.first > Len(log) /\ PlacedIn(log \o remains.records, g)

RemainsInv ==
    \A k \in 1..Len(remains.records) :
        LET r == remains.records[k].req IN
        /\ arg[r].events # <<>>
        /\ reply[r] = Err("log") \/ OwedAnError(r)
        /\ PlacedBeyond(r)

\* An answer is final.
LEMMA AnswersStay ==
    ASSUME TypeInv, StoreInv, [Next]_vars, NEW r \in Req, reply[r] # None
    PROVE  reply'[r] = reply[r]
<1> USE DEF callerVars, drainVars
<1>1. reply \in [Req -> Reply] BY DEF TypeInv, TypeOK, CallersOK
<1>2. CASE \E x \in Req : Submit(x)
  <2>1. PICK x \in Req : Submit(x) BY <1>2
  <2>2. x # r BY <2>1 DEF Submit
  <2>3. reply' = reply \/ \E a : reply' = [reply EXCEPT ![x] = a] BY <2>1 DEF Submit
  <2> QED BY <1>1, <2>2, <2>3
<1>3. CASE Evaluate
  <2> DEFINE x == Head(drained)
  <2>1. /\ drained # <<>>
        /\ reply' = reply \/ \E a : reply' = [reply EXCEPT ![x] = a]
    BY <1>3 DEF Evaluate, RejectAfterBeyondTip, RejectConflict, RejectError, Accept, Answer
  <2>2. x \in Req /\ x = drained[1] /\ 1 \in 1..Len(drained)
    BY <2>1, HeadTail DEF TypeInv, TypeOK, DrainOK
  <2>3. Waiting(x) BY <2>2 DEF Waiting, Drawn
  <2> HIDE DEF x
  <2>4. x # r BY <2>2, <2>3 DEF StoreInv, WaitingUntouched, Untouched
  <2> QED BY <1>1, <2>1, <2>4
<1>4. CASE Exit
  <2>1. reply'[r] = IF \E i \in DOMAIN queue : queue[i] = r THEN Err("shutdown") ELSE reply[r]
    BY <1>4 DEF Exit
  <2>2. ASSUME NEW i \in DOMAIN queue, queue[i] = r PROVE FALSE
    <3>1. DOMAIN queue = 1..Len(queue) BY DEF TypeInv, TypeOK, DrainOK
    <3>2. Waiting(r) BY <2>2, <3>1 DEF Waiting, Queued
    <3> QED BY <3>2 DEF StoreInv, WaitingUntouched, Untouched
  <2> QED BY <2>1, <2>2
<1>5. CASE Crash BY <1>5 DEF Crash, InFlight
<1>6. CASE ReplyOne
  <2> DEFINE x == Head(granted).req
  <2>1. granted # <<>> /\ \E a : reply' = [reply EXCEPT ![x] = a]
    BY <1>6 DEF ReplyOne, Answer
  <2>2. Head(granted) = granted[1] /\ 1 \in 1..Len(granted)
    BY <2>1, BatchTypes, HeadTail
  <2>3. reply[x] = None BY <2>2 DEF StoreInv, GrantsOpen
  <2> HIDE DEF x
  <2> QED BY <1>1, <2>1, <2>3
<1>7. CASE \/ SendShutdown \/ TakePushback \/ ReceiveFirst \/ ReceiveShutdown \/ DrainOne
           \/ DrainEnd \/ EvaluateEnd \/ RejectTooLarge \/ FitsActive \/ Rollover \/ RolloverFails
           \/ Commit \/ CommitMisplaced \/ CommitFails \/ FeedIndex \/ PublishSegments
           \/ PublishWatermark \/ ReplyEnd \/ GoRound \/ Restart \/ UNCHANGED vars
  <2>1. reply' = reply
    BY <1>7 DEF SendShutdown, TakePushback, ReceiveFirst, Start, ReceiveShutdown, DrainOne,
        DrainEnd, EvaluateEnd, RejectTooLarge, FitsActive, Rollover, RolloverFails, Commit,
        CommitMisplaced, CommitFails, FeedIndex, PublishSegments, PublishWatermark, ReplyEnd,
        GoRound, Restart, vars
  <2> QED BY <2>1
<1> QED BY <1>2, <1>3, <1>4, <1>5, <1>6, <1>7 DEF Next, Worker

\* A request that is owed the I/O error gets it, or stays owed it, or the process crashes.
LEMMA ErrorIsPaid ==
    ASSUME TypeInv, StoreInv, [Next]_vars, NEW r \in Req, arg[r].events # <<>>,
           OwedAnError(r), ~ Crash
    PROVE  reply'[r] = Err("log") \/ OwedAnError(r)'
<1> USE DEF callerVars, batchVars
<1>1. pc = "reply" /\ outcome = "log" /\ Granted(r) /\ reply[r] = None
  BY DEF OwedAnError, FailedBatch
<1>2. reply \in [Req -> Reply] BY DEF TypeInv, TypeOK, CallersOK
<1>3. CASE ReplyOne
  <2> DEFINE x == Head(granted).req
  <2>1. /\ granted # <<>> /\ granted' = Tail(granted) /\ pc' = pc /\ outcome' = outcome
        /\ reply' = [reply EXCEPT ![x] = Err("log")]
    BY <1>1, <1>3 DEF ReplyOne, Answer
  <2>2. /\ Head(granted) = granted[1]
        /\ Len(Tail(granted)) = Len(granted) - 1
        /\ \A i \in 1..Len(Tail(granted)) : Tail(granted)[i] = granted[i + 1]
        /\ Len(granted) \in Nat
    BY <2>1, BatchTypes, HeadTail
  <2>3. PICK i \in 1..Len(granted) : granted[i].req = r BY <1>1 DEF Granted
  <2> HIDE DEF x
  <2>4. CASE x = r BY <1>2, <2>1, <2>4
  <2>5. CASE x # r
    <3>1. i # 1 BY <2>2, <2>3, <2>5 DEF x
    <3>2. i - 1 \in 1..Len(granted') /\ granted'[i - 1] = granted[i]
      BY <2>1, <2>2, <2>3, <3>1
    <3>3. Granted(r)' BY <2>3, <3>2 DEF Granted
    <3> QED BY <1>1, <1>2, <2>1, <2>5, <3>3 DEF OwedAnError, FailedBatch
  <2> QED BY <2>4, <2>5
<1>4. CASE \E x \in Req : Submit(x)
  <2>1. PICK x \in Req : Submit(x) BY <1>4
  <2>2. x # r BY <2>1 DEF Submit, NoRequest
  <2>3. /\ reply' = reply \/ \E a : reply' = [reply EXCEPT ![x] = a]
        /\ UNCHANGED <<granted, outcome, pc>>
    BY <2>1 DEF Submit
  <2>4. reply'[r] = reply[r] BY <1>2, <2>2, <2>3
  <2> QED BY <1>1, <2>3, <2>4 DEF OwedAnError, FailedBatch, Granted
<1>5. CASE SendShutdown \/ UNCHANGED vars
  <2>1. UNCHANGED <<reply, granted, outcome, pc>> BY <1>5 DEF SendShutdown, vars
  <2> QED BY <2>1 DEF OwedAnError, FailedBatch, Granted
<1>6. ~ ReplyEnd BY <1>1 DEF ReplyEnd, Granted
<1> QED
  BY <1>1, <1>3, <1>4, <1>5, <1>6 DEF Next, Worker, TakePushback, ReceiveFirst, ReceiveShutdown,
      DrainOne, DrainEnd, Evaluate, EvaluateEnd, RejectTooLarge, FitsActive, Rollover,
      RolloverFails, Commit, CommitMisplaced, CommitFails, FeedIndex, PublishSegments,
      PublishWatermark, GoRound, Exit, Restart

\* At the start nothing lies behind the log.
LEMMA InitRemainsInv == Init => RemainsInv
BY DEF Init, RemainsInv, Nowhere

\* Every step keeps what remains in its place, or clears it.
LEMMA StepRemainsInv ==
    TypeInv /\ Frozen /\ StoreInv /\ RemainsInv /\ [Next]_vars => RemainsInv'
<1> SUFFICES ASSUME TypeInv, Frozen, StoreInv, RemainsInv, [Next]_vars PROVE RemainsInv'
  OBVIOUS
<1>1. CASE remains'.records = <<>> BY <1>1 DEF RemainsInv
<1>2. CASE CommitFails /\ remains'.records = staged /\ log' = log
  <2>1. /\ pc = "commit" /\ pc' = "reply" /\ outcome' = "log"
        /\ UNCHANGED <<arg, reply, granted>>
    BY <1>2 DEF CommitFails, callerVars
  <2>2. ASSUME NEW k \in 1..Len(staged), NEW r \in Req, r = staged[k].req
        PROVE  arg'[r].events # <<>> /\ OwedAnError(r)' /\ PlacedBeyond(r)'
    <3>1. PICK i \in 1..Len(granted) : granted[i].req = r
      BY <2>1, <2>2 DEF StoreInv, BatchPlaced, Uncommitted, Granted
    <3>2. PICK g : g = granted[i] OBVIOUS
    <3>3. PlacedIn(log \o staged, g) /\ g.first > Len(log) /\ g \in Grant /\ g.req = r
      BY <2>1, <3>1, <3>2, BatchTypes DEF StoreInv, BatchPlaced, Uncommitted
    <3>4. reply[r] = None /\ arg[r].events # <<>> BY <3>1 DEF StoreInv, GrantsOpen
    <3>5. Granted(r) /\ Granted(r)' BY <2>1, <3>1 DEF Granted
    <3>6. OwedAnError(r)' BY <2>1, <3>4, <3>5 DEF OwedAnError, FailedBatch
    <3>7. PlacedIn(log \o remains.records, g)' BY <1>2, <2>1, <3>3 DEF PlacedIn
    <3>8. g.first > Len(log') BY <1>2, <3>3
    <3>9. PlacedBeyond(r)' BY <3>3, <3>7, <3>8 DEF PlacedBeyond
    <3> QED BY <2>1, <3>4, <3>6, <3>9
  <2>3. \A k \in 1..Len(staged) : staged[k].req \in Req
    <3>1. \A x \in Record : x.req \in Req BY DEF Record
    <3> QED BY <3>1, BatchTypes, ElementOfSeq
  <2> QED BY <1>2, <2>2, <2>3 DEF RemainsInv
<1>3. CASE remains'.records = remains.records /\ log' = log /\ remains'.records # <<>>
  <2>1. ~ Crash BY <1>3, RemainsTypes DEF Crash, TypeInv, TypeOK, LogOK, Remains
  <2>2. ASSUME NEW k \in 1..Len(remains.records), NEW r \in Req, r = remains.records[k].req
        PROVE  /\ arg'[r].events # <<>>
               /\ reply'[r] = Err("log") \/ OwedAnError(r)'
               /\ PlacedBeyond(r)'
    <3>1. /\ arg[r].events # <<>>
          /\ reply[r] = Err("log") \/ OwedAnError(r)
          /\ PlacedBeyond(r)
      BY <2>2 DEF RemainsInv
    <3>2. arg'[r] = arg[r]
      <4>1. remains.records[k] \in SubmittedRecord BY DEF Frozen
      <4>2. r \in Submitted BY <2>2, <4>1 DEF SubmittedRecord
      <4> QED BY <4>2, ArgStable
    <3>3. reply'[r] = Err("log") \/ OwedAnError(r)'
      <4>1. CASE reply[r] = Err("log")
        <5>1. reply[r] # None BY <4>1 DEF Err, None
        <5> QED BY <4>1, <5>1, AnswersStay
      <4>2. CASE OwedAnError(r) BY <2>1, <3>1, <4>2, ErrorIsPaid
      <4> QED BY <3>1, <4>1, <4>2
    <3>4. PICK g \in Grant : /\ g.req = r /\ g.first > Len(log)
                             /\ PlacedIn(log \o remains.records, g)
      BY <3>1 DEF PlacedBeyond
    <3>5. PlacedIn(log \o remains.records, g)' BY <1>3, <3>2, <3>4 DEF PlacedIn
    <3>6. g.first > Len(log') BY <1>3, <3>4
    <3>7. PlacedBeyond(r)' BY <3>4, <3>5, <3>6 DEF PlacedBeyond
    <3> QED BY <3>1, <3>2, <3>3, <3>7
  <2>3. \A k \in 1..Len(remains.records) : remains.records[k].req \in Req
    <3>1. remains.records \in Seq(Record)
      BY RemainsTypes DEF TypeInv, TypeOK, LogOK
    <3>2. \A x \in Record : x.req \in Req BY DEF Record
    <3> QED BY <3>1, <3>2, ElementOfSeq
  <2> QED BY <1>3, <2>2, <2>3 DEF RemainsInv
<1> QED BY <1>1, <1>2, <1>3, RemainsChange

\* What remains is accounted for, always.
LEMMA AlwaysRemainsInv == Spec => []RemainsInv
<1>1. TypeInv /\ (Frozen /\ StoreInv) /\ RemainsInv /\ [Next]_vars => RemainsInv'
  BY StepRemainsInv
<1> QED BY <1>1, InitRemainsInv, AlwaysTypeInv, AlwaysStoreInv, PTL DEF Spec

--------------------
\* Publication.

\* At the start the watermark is the empty log's and the snapshot holds its one segment.
LEMMA InitPublishInv == Init => PublishInv
<1> SUFFICES ASSUME Init PROVE PublishInv
  OBVIOUS
<1>1. /\ pc = "recv" /\ watermark = 0 /\ Len(log) = 0 /\ snap = segs
      /\ \A r \in Req : reply[r].kind = "none"
  BY DEF Init, None
<1> QED BY <1>1 DEF PublishInv, WatermarkAtTip, AckedBelow, SnapshotTracked, SnapshotCurrent

\* The watermark moves to the tip before the batch's replies.
LEMMA StepWatermark ==
    ASSUME TypeInv, WatermarkAtTip, [Next]_vars
    PROVE  WatermarkAtTip'
<1> USE DEF logVars, readVars, batchVars
<1>1. CASE Commit
  <2>1. /\ pc = "commit" /\ pc' = "feed" /\ log' = log \o staged
        /\ UNCHANGED <<staged, watermark>>
    BY <1>1 DEF Commit
  <2>2. Len(log') = Len(log) + Len(staged) BY <2>1, BatchTypes
  <2> QED BY <2>1, <2>2 DEF WatermarkAtTip
<1>2. CASE FeedIndex \/ PublishSegments
  BY <1>2 DEF FeedIndex, PublishSegments, WatermarkAtTip
<1>3. CASE PublishWatermark \/ Restart
  BY <1>3 DEF PublishWatermark, Restart, WatermarkAtTip
<1>4. CASE Crash BY <1>4 DEF Crash, WatermarkAtTip
<1>5. CASE UNCHANGED vars BY <1>5 DEF vars, WatermarkAtTip
<1>6. CASE \/ \E r \in Req : Submit(r)
           \/ SendShutdown \/ TakePushback \/ ReceiveFirst \/ ReceiveShutdown \/ DrainOne \/ DrainEnd
           \/ Evaluate \/ EvaluateEnd \/ RejectTooLarge \/ FitsActive \/ Rollover \/ RolloverFails
           \/ CommitMisplaced \/ CommitFails \/ ReplyOne \/ ReplyEnd \/ GoRound \/ Exit
  <2>1. /\ UNCHANGED <<log, watermark>>
        /\ \/ pc' = pc /\ staged' = staged
           \/ pc' = "astray"
           \/ /\ pc \notin {"down", "astray", "feed", "publish", "watermark"}
              /\ pc' \notin {"down", "astray", "feed", "publish", "watermark"}
    BY <1>6 DEF Submit, SendShutdown, TakePushback, ReceiveFirst, Start, ReceiveShutdown,
        DrainOne, DrainEnd, Evaluate, EvaluateEnd, RejectTooLarge, FitsActive, Rollover,
        RolloverFails, CommitMisplaced, CommitFails, ReplyOne, ReplyEnd, GoRound, Exit
  <2> QED BY <2>1 DEF WatermarkAtTip
<1> QED BY <1>1, <1>2, <1>3, <1>4, <1>5, <1>6 DEF Next, Worker

\* Only commit_ok acknowledges a request.
LEMMA OnlyReplyAcks ==
    ASSUME TypeInv, [Next]_vars, ~ ReplyOne, NEW r \in Req, reply'[r].kind = "ok"
    PROVE  reply'[r] = reply[r]
<1>1. reply \in [Req -> Reply] BY DEF TypeInv, TypeOK, CallersOK
<1>2. CASE \E x \in Req : Submit(x)
  <2>1. PICK x \in Req : \/ reply' = reply
                         \/ reply' = [reply EXCEPT ![x] = Err("empty")]
                         \/ reply' = [reply EXCEPT ![x] = Err("shutdown")]
    BY <1>2 DEF Submit
  <2> QED BY <1>1, <2>1 DEF Err
<1>3. CASE Evaluate
  <2> DEFINE x == Head(drained)
  <2>1. \/ reply' = reply
        \/ \E k \in {"afterBeyondTip", "log"} : reply' = [reply EXCEPT ![x] = Err(k)]
        \/ \E c, at : reply' = [reply EXCEPT ![x] = Conflict(c, at)]
    BY <1>3 DEF Evaluate, RejectAfterBeyondTip, RejectConflict, RejectError, Accept, Answer
  <2> HIDE DEF x
  <2> QED BY <1>1, <2>1 DEF Err, Conflict
<1>4. CASE Exit BY <1>1, <1>4 DEF Exit, Err
<1>5. CASE Crash BY <1>1, <1>5 DEF Crash, Err
<1>6. CASE \/ SendShutdown \/ TakePushback \/ ReceiveFirst \/ ReceiveShutdown \/ DrainOne \/ DrainEnd
           \/ EvaluateEnd \/ RejectTooLarge \/ FitsActive \/ Rollover \/ RolloverFails \/ Commit
           \/ CommitMisplaced \/ CommitFails \/ FeedIndex \/ PublishSegments \/ PublishWatermark
           \/ ReplyEnd \/ GoRound \/ Restart \/ UNCHANGED vars
  <2>1. reply' = reply
    BY <1>6 DEF SendShutdown, TakePushback, ReceiveFirst, Start, ReceiveShutdown, DrainOne,
        DrainEnd, EvaluateEnd, RejectTooLarge, FitsActive, Rollover, RolloverFails, Commit,
        CommitMisplaced, CommitFails, FeedIndex, PublishSegments, PublishWatermark, ReplyEnd,
        GoRound, Restart, vars, callerVars
  <2> QED BY <2>1
<1> QED BY <1>2, <1>3, <1>4, <1>5, <1>6 DEF Next, Worker

\* An acknowledged range stays below the watermark, or on the log while the process is down.
LEMMA StepAcked ==
    ASSUME TypeInv, StoreInv, WatermarkAtTip, AckedBelow, [Next]_vars
    PROVE  AckedBelow'
<1> USE DEF logVars, readVars
<1> SUFFICES ASSUME NEW r \in Req, reply'[r].kind = "ok"
             PROVE  reply'[r].last <= (IF pc' \in {"down", "astray"} THEN Len(log') ELSE watermark')
  BY DEF AckedBelow
<1>1. watermark \in Nat /\ Len(log) \in Nat /\ Len(staged) \in Nat /\ reply \in [Req -> Reply]
  BY BatchTypes DEF TypeInv, TypeOK, ReadOK, CallersOK
<1>2. pc \notin {"down", "astray"} => watermark <= Len(log) BY <1>1 DEF WatermarkAtTip
<1>3. CASE ReplyOne
  <2> DEFINE g == Head(granted)
  <2>1. /\ pc = "reply" /\ UNCHANGED <<pc, watermark, log>> /\ granted # <<>>
        /\ reply' = [reply EXCEPT ![g.req] = IF outcome = "ok" THEN Ok(g) ELSE Err(outcome)]
    BY <1>3 DEF ReplyOne, Answer
  <2>2. g \in Grant /\ g = granted[1] /\ 1 \in 1..Len(granted)
    <3>1. granted \in Seq(Grant) /\ Len(granted) # 0 /\ Len(granted) \in Nat
      BY <2>1, BatchTypes, EmptySeq
    <3> QED BY <2>1, <3>1, HeadTail
  <2>3. CASE r = g.req /\ outcome = "ok"
    <3>1. PlacedIn(log, g) BY <2>1, <2>2, <2>3 DEF StoreInv, BatchPlaced, CommittedBatch
    <3>2. reply'[r].last = g.last
      <4> HIDE DEF g
      <4> QED BY <1>1, <2>1, <2>3 DEF Ok
    <3> QED BY <2>1, <3>1, <3>2 DEF PlacedIn, WatermarkAtTip
  <2>4. CASE r = g.req /\ outcome # "ok"
    <3>1. outcome \in {"tooLarge", "log"} BY <2>4 DEF TypeInv, TypeOK, BatchOK
    <3> HIDE DEF g
    <3> QED BY <1>1, <2>1, <2>4, <3>1 DEF Err
  <2>5. CASE r # g.req BY <1>1, <2>1, <2>5 DEF AckedBelow
  <2> QED BY <2>3, <2>4, <2>5
<1>4. CASE ~ ReplyOne
  <2>1. reply'[r] = reply[r] BY <1>4, OnlyReplyAcks
  <2>2. reply[r].last <= (IF pc \in {"down", "astray"} THEN Len(log) ELSE watermark) /\ reply[r].last \in Nat
    <3>1. reply[r] \in Reply /\ reply[r].kind = "ok" BY <1>1, <2>1
    <3>2. reply[r].last \in Nat BY <3>1 DEF Reply, ErrorKinds
    <3> QED BY <2>1, <3>2 DEF AckedBelow
  <2>3. CASE Crash
    <3>1. /\ pc \notin {"down", "astray"} /\ pc' \in {"down", "astray"}
          /\ log' = log \/ log' = log \o staged \/ log' = log \o remains.records
      BY <2>3 DEF Crash
    <3>2. Len(log') >= Len(log) /\ Len(log') \in Nat
      <4>1. /\ log \in Seq(Record) /\ staged \in Seq(Record)
            /\ remains.records \in Seq(Record)
        BY RemainsTypes DEF TypeInv, TypeOK, LogOK, BatchOK
      <4> QED BY <3>1, <4>1, ConcatProperties
    <3> QED BY <1>1, <1>2, <2>1, <2>2, <3>1, <3>2
  <2>4. CASE Restart BY <2>1, <2>2, <2>4 DEF Restart
  <2>5. CASE PublishWatermark BY <1>1, <1>2, <2>1, <2>2, <2>5 DEF PublishWatermark
  <2>6. CASE UNCHANGED vars BY <2>1, <2>2, <2>6 DEF vars
  <2>7. CASE CommitMisplaced
    <3>1. log' = log /\ pc = "commit" /\ pc' = "astray" BY <2>7 DEF CommitMisplaced
    <3> QED BY <1>1, <1>2, <2>1, <2>2, <3>1
  <2>8. CASE \/ \E x \in Req : Submit(x)
             \/ SendShutdown \/ TakePushback \/ ReceiveFirst \/ ReceiveShutdown \/ DrainOne
             \/ DrainEnd \/ Evaluate \/ EvaluateEnd \/ RejectTooLarge \/ FitsActive \/ Rollover
             \/ RolloverFails \/ Commit \/ CommitFails \/ FeedIndex \/ PublishSegments \/ ReplyEnd
             \/ GoRound \/ Exit
    <3>1. watermark' = watermark /\ pc \notin {"down", "astray"} /\ pc' \notin {"down", "astray"}
      BY <2>8 DEF Submit, SendShutdown, TakePushback, ReceiveFirst, Start, ReceiveShutdown,
          DrainOne, DrainEnd, Evaluate, EvaluateEnd, RejectTooLarge, FitsActive, Rollover,
          RolloverFails, Commit, CommitFails, FeedIndex, PublishSegments, ReplyEnd, GoRound, Exit
    <3> QED BY <2>1, <2>2, <3>1
  <2> QED BY <1>4, <2>3, <2>4, <2>5, <2>6, <2>7, <2>8 DEF Next, Worker
<1> QED BY <1>3, <1>4

\* A snapshot that lacks at most the segment begun beyond the watermark covers the watermark.
LEMMA TrackedCovers ==
    ASSUME TypeInv, SnapshotCurrent \/ SnapshotBehind
    PROVE  SnapshotCovers
<1>1. /\ segs \in Seq(Nat) /\ snap \in Seq(Nat) /\ watermark \in Nat
      /\ DOMAIN segs = 1..Len(segs) /\ DOMAIN snap = 1..Len(snap)
      /\ Len(segs) \in Nat /\ Len(snap) \in Nat
  BY DEF TypeInv, TypeOK, LogOK, ReadOK
<1>2. CASE SnapshotCurrent BY <1>2 DEF SnapshotCurrent, SnapshotCovers, Published
<1>3. CASE SnapshotBehind
  <2> SUFFICES ASSUME NEW i \in 1..Len(segs), segs[i] <= watermark
               PROVE  i \in 1..Len(snap) /\ snap[i] = segs[i]
    BY <1>1 DEF SnapshotCovers, Published
  <2>1. /\ Len(snap) = Len(segs) - 1 /\ segs[Len(segs)] > watermark
        /\ \A k \in 1..Len(snap) : snap[k] = segs[k]
    BY <1>3 DEF SnapshotBehind
  <2>2. i # Len(segs)
    <3>1. segs[i] \in Nat BY <1>1, ElementOfSeq
    <3>2. watermark \in Nat BY <1>1
    <3> SUFFICES ASSUME i = Len(segs) PROVE FALSE
      OBVIOUS
    <3>3. segs[i] > watermark BY <2>1
    <3> QED BY <3>1, <3>2, <3>3
  <2>3. i \in 1..Len(snap)
    <3>1. Len(segs) \in Nat /\ Len(snap) = Len(segs) - 1 BY <1>1, <2>1
    <3> QED BY <2>2, <3>1
  <2> QED BY <2>1, <2>3
<1> QED BY <1>2, <1>3

\* As long as no append failed, the snapshot follows the segments.
LEMMA StepSnapshot ==
    ASSUME TypeInv, WatermarkAtTip, SnapshotTracked, [Next]_vars
    PROVE  SnapshotTracked'
<1> USE DEF logVars, readVars, batchVars, boundVars
<1>1. /\ segs \in Seq(Nat) /\ Len(segs) \in Nat /\ Len(snap) \in Nat /\ sealedBefore \in Nat
      /\ faults \in Nat /\ watermark \in Nat /\ Len(log) \in Nat
  BY BatchTypes DEF TypeInv, TypeOK, LogOK, ReadOK, BatchOK, BoundsOK
<1>2. CASE Restart BY <1>2 DEF Restart, SnapshotTracked, SnapshotCurrent
<1>3. CASE EvaluateEnd
  <2>1. /\ pc = "eval" /\ pc' \in {"loop", "append"} /\ sealedBefore' = Len(segs) - 1
        /\ UNCHANGED <<segs, snap, faults>>
    BY <1>3 DEF EvaluateEnd
  <2> QED BY <2>1 DEF SnapshotTracked, SnapshotCurrent
<1>4. CASE FitsActive
  <2>1. /\ pc = "append" /\ pc' = "commit" /\ UNCHANGED <<segs, snap, faults, sealedBefore>>
    BY <1>4 DEF FitsActive
  <2> QED BY <2>1 DEF SnapshotTracked, SnapshotCurrent
<1>5. CASE Rollover
  <2>1. /\ pc = "append" /\ pc' = "commit" /\ segs' = Append(segs, Len(log) + 1)
        /\ UNCHANGED <<snap, faults, sealedBefore, watermark>>
    BY <1>5 DEF Rollover, NextPosition
  <2>2. /\ Len(segs') = Len(segs) + 1 /\ segs'[Len(segs) + 1] = Len(log) + 1
        /\ \A i \in 1..Len(segs) : segs'[i] = segs[i]
    <3>1. Len(log) + 1 \in Nat BY <1>1
    <3> QED BY <1>1, <2>1, <3>1, AppendProperties
  <2>3. watermark = Len(log) BY <2>1 DEF WatermarkAtTip
  <2>4. faults' = 0 => SnapshotBehind'
    <3> SUFFICES ASSUME faults' = 0 PROVE SnapshotBehind'
      OBVIOUS
    <3>1. snap = segs /\ sealedBefore = Len(segs) - 1
      BY <2>1 DEF SnapshotTracked, SnapshotCurrent
    <3> QED BY <1>1, <2>1, <2>2, <2>3, <3>1 DEF SnapshotBehind
  <2> QED BY <2>1, <2>4 DEF SnapshotTracked
<1>6. CASE Commit \/ FeedIndex
  <2>1. /\ pc \in {"commit", "feed"} /\ pc' \in {"feed", "publish"}
        /\ UNCHANGED <<segs, snap, faults, sealedBefore, watermark>>
    BY <1>6 DEF Commit, FeedIndex
  <2> QED BY <2>1 DEF SnapshotTracked, SnapshotCurrent, SnapshotBehind
<1>7. CASE PublishSegments
  <2>1. /\ pc = "publish" /\ pc' = "watermark" /\ UNCHANGED <<segs, faults>>
        /\ snap' = IF Len(segs) - 1 > sealedBefore THEN segs ELSE snap
    BY <1>7 DEF PublishSegments, Rolled
  <2>2. faults' = 0 => snap' = segs'
    BY <1>1, <2>1 DEF SnapshotTracked, SnapshotCurrent, SnapshotBehind
  <2> QED BY <2>1, <2>2 DEF SnapshotTracked, SnapshotCurrent
<1>8. CASE Crash \/ CommitMisplaced
  <2>1. /\ pc \notin {"down", "astray"} /\ pc' \in {"down", "astray"}
        /\ UNCHANGED <<segs, snap, faults, watermark>>
    BY <1>8 DEF Crash, CommitMisplaced
  <2>2. faults = 0 => SnapshotCovers BY <2>1, TrackedCovers DEF SnapshotTracked
  <2> QED BY <2>1, <2>2 DEF SnapshotTracked, SnapshotCovers, Published
<1>9. CASE RolloverFails \/ CommitFails
  <2>1. faults' = faults + 1 BY <1>9 DEF RolloverFails, CommitFails
  <2> QED BY <1>1, <2>1 DEF SnapshotTracked
<1>10. CASE Evaluate
  <2>1. /\ pc = "eval" /\ UNCHANGED <<segs, snap, pc>> /\ (faults' = faults \/ faults' = faults + 1)
    BY <1>10 DEF Evaluate, RejectError
  <2> QED BY <1>1, <2>1 DEF SnapshotTracked, SnapshotCurrent
<1>11. CASE (\E r \in Req : Submit(r)) \/ SendShutdown \/ UNCHANGED vars
  <2>1. UNCHANGED <<segs, snap, pc, faults, sealedBefore, watermark>>
    BY <1>11 DEF Submit, SendShutdown, vars
  <2> QED BY <2>1 DEF SnapshotTracked, SnapshotCurrent, SnapshotBehind, SnapshotCovers, Published
<1>12. CASE \/ TakePushback \/ ReceiveFirst \/ ReceiveShutdown \/ DrainOne \/ DrainEnd
            \/ RejectTooLarge \/ PublishWatermark \/ ReplyOne \/ ReplyEnd \/ GoRound \/ Exit
  <2>1. /\ UNCHANGED <<segs, snap, faults>>
        /\ pc \notin {"commit", "feed", "publish", "down", "astray"}
        /\ pc' \notin {"commit", "feed", "publish", "down", "astray", "append"}
    BY <1>12 DEF TakePushback, ReceiveFirst, Start, ReceiveShutdown, DrainOne, DrainEnd,
        RejectTooLarge, PublishWatermark, ReplyOne, ReplyEnd, GoRound, Exit
  <2> QED BY <2>1 DEF SnapshotTracked, SnapshotCurrent
<1> QED BY <1>2, <1>3, <1>4, <1>5, <1>6, <1>7, <1>8, <1>9, <1>10, <1>11, <1>12 DEF Next, Worker

\* Watermark, acknowledgements and snapshot are in step, always.
LEMMA AlwaysPublishInv == Spec => []PublishInv
<1>1. Init => PublishInv BY InitPublishInv
<1>2. TypeInv /\ (Frozen /\ StoreInv) /\ PublishInv /\ [Next]_vars => PublishInv'
  BY StepWatermark, StepAcked, StepSnapshot DEF PublishInv
<1> QED BY <1>1, <1>2, AlwaysTypeInv, AlwaysStoreInv, PTL DEF Spec

--------------------
\* What the published snapshot lacks when appends fail. The segments begin one after the other; the
\* index has at most one entry for each, and one less while a rollover has yet to be fed; and every
\* segment is published, or begins behind a lost seal, or was begun by the batch being published.
SegmentsRise ==
    \A j \in 1..Len(segs) :
        /\ segs[j] <= Len(log) + 1
        /\ \A i \in 1..j : segs[i] <= segs[j]

BasesBehind ==
    /\ Len(idxBases) <= Len(segs)
    /\ pc = "append" => sealedBefore = Len(segs) - 1
    /\ pc = "commit" /\ Rolled => Len(idxBases) < Len(segs)
    /\ pc = "feed" /\ Rolled => Len(idxBases) < Len(segs)

Begun(i) == pc = "publish" /\ Rolled /\ segs[i] > watermark

Explained ==
    pc \notin {"down", "astray"} =>
        \A i \in 1..Len(segs) : Published(i) \/ SealLost(i) \/ Begun(i)

SealInv == SegmentsRise /\ BasesBehind /\ Explained

\* What the types say of segments, index bases and snapshot.
LEMMA SealTypes ==
    ASSUME TypeInv
    PROVE  /\ segs \in Seq(Nat) /\ Len(segs) \in Nat /\ DOMAIN segs = 1..Len(segs)
           /\ \A i \in 1..Len(segs) : segs[i] \in Nat
           /\ idxBases \in Seq(Nat) /\ Len(idxBases) \in Nat
           /\ DOMAIN idxBases = 1..Len(idxBases)
           /\ Len(log) \in Nat /\ Len(staged) \in Nat
           /\ watermark \in Nat /\ sealedBefore \in Nat
<1>1. /\ segs \in Seq(Nat) /\ idxBases \in Seq(Nat) /\ watermark \in Nat
      /\ sealedBefore \in Nat
  BY DEF TypeInv, TypeOK, LogOK, IndexOK, ReadOK, BatchOK
<1> QED BY <1>1, BatchTypes, ElementOfSeq

\* At the start the one segment is published.
LEMMA InitSealInv == Init => SealInv
<1> SUFFICES ASSUME Init PROVE SealInv
  OBVIOUS
<1>1. pc = "recv" /\ segs = <<1>> /\ snap = <<1>> /\ idxBases = <<1>> /\ log = <<>> BY DEF Init
<1> QED BY <1>1 DEF SealInv, SegmentsRise, BasesBehind, Explained, Published

\* A step that touches neither segments, index bases nor snapshot, on its way through the control.
LEMMA SealQuiet ==
    ASSUME TypeInv, SealInv, Len(log') \in Nat, Len(log') >= Len(log),
           UNCHANGED <<segs, idxBases, snap>>,
           \/ pc' \notin {"append", "commit", "feed", "publish"} /\ ~ (pc = "publish" /\ Rolled)
           \/ UNCHANGED <<pc, sealedBefore, watermark>>
           \/ pc' \in {"down", "astray"}
           \/ pc = "commit" /\ pc' = "feed" /\ UNCHANGED sealedBefore
           \/ pc' = "append" /\ sealedBefore' = Len(segs) - 1 /\ pc = "eval"
           \/ pc = "append" /\ pc' = "commit" /\ UNCHANGED sealedBefore,
           pc' \notin {"down", "astray"} => pc \notin {"down", "astray"}
    PROVE  SealInv'
<1>1. SegmentsRise'
  BY SealTypes DEF SealInv, SegmentsRise
<1>2. BasesBehind' BY SealTypes DEF SealInv, BasesBehind, Rolled
<1>3. Explained'
  BY SealTypes DEF SealInv, Explained, Published, SealLost, Begun, Rolled
<1> QED BY <1>1, <1>2, <1>3 DEF SealInv

\* Every step keeps the snapshot explained.
LEMMA StepSealInv ==
    TypeInv /\ WatermarkAtTip /\ SealInv /\ [Next]_vars => SealInv'
<1> SUFFICES ASSUME TypeInv, WatermarkAtTip, SealInv, [Next]_vars PROVE SealInv'
  OBVIOUS
<1> USE DEF logVars, readVars, batchVars, indexVars
<1>1. CASE Rollover
  <2>1. /\ pc = "append" /\ pc' = "commit" /\ segs' = Append(segs, Len(log) + 1)
        /\ UNCHANGED <<snap, idxBases, sealedBefore, watermark, log>>
    BY <1>1 DEF Rollover, NextPosition
  <2>2. /\ Len(segs') = Len(segs) + 1 /\ segs'[Len(segs) + 1] = Len(log) + 1
        /\ \A i \in 1..Len(segs) : segs'[i] = segs[i]
        /\ DOMAIN segs' = 1..Len(segs')
    <3>1. Len(log) + 1 \in Nat BY SealTypes
    <3> QED BY <2>1, <3>1, SealTypes, AppendProperties
  <2>3. SegmentsRise' BY <2>1, <2>2, SealTypes DEF SealInv, SegmentsRise
  <2>4. BasesBehind' BY <2>1, <2>2, SealTypes DEF SealInv, BasesBehind
  <2>5. ASSUME NEW i \in 1..Len(segs') PROVE Published(i)' \/ SealLost(i)'
    <3>1. CASE i = Len(segs) + 1
      <4>1. i \notin DOMAIN idxBases' BY <2>1, <3>1, SealTypes DEF SealInv, BasesBehind
      <4>2. i \in 1..i BY <3>1, SealTypes
      <4> QED BY <4>1, <4>2 DEF SealLost
    <3>2. CASE i \in 1..Len(segs)
      <4>1. Published(i) \/ SealLost(i)
        BY <2>1, <3>2 DEF SealInv, Explained, Begun
      <4>2. Published(i) => Published(i)' BY <2>1, <2>2, <3>2 DEF Published
      <4>3. SealLost(i) => SealLost(i)'
        <5>1. \A k \in 1..i : segs'[k] = segs[k] BY <2>2, <3>2, SealTypes
        <5> QED BY <2>1, <5>1 DEF SealLost
      <4> QED BY <4>1, <4>2, <4>3
    <3> QED BY <2>2, <3>1, <3>2, SealTypes
  <2> QED BY <2>3, <2>4, <2>5 DEF SealInv, Explained
<1>2. CASE FeedIndex
  <2>1. /\ pc = "feed" /\ pc' = "publish"
        /\ UNCHANGED <<segs, snap, sealedBefore, watermark, log, staged>>
        /\ idxBases' = IF Rolled THEN Append(idxBases, Len(log) - Len(staged) + 1) ELSE idxBases
    BY <1>2 DEF FeedIndex
  <2>2. Len(log) - Len(staged) + 1 = watermark + 1
    <3>1. watermark + Len(staged) = Len(log) BY <2>1 DEF WatermarkAtTip
    <3> QED BY <3>1, SealTypes
  <2>3. SegmentsRise' BY <2>1 DEF SealInv, SegmentsRise
  <2>4. CASE ~ Rolled
    <3>1. idxBases' = idxBases BY <2>1, <2>4
    <3>2. BasesBehind' BY <2>1, <3>1 DEF SealInv, BasesBehind
    <3>3. Explained'
      BY <2>1, <3>1 DEF SealInv, Explained, Published, SealLost, Begun, Rolled
    <3> QED BY <2>3, <3>2, <3>3 DEF SealInv
  <2>5. CASE Rolled
    <3>1. idxBases' = Append(idxBases, watermark + 1) BY <2>1, <2>2, <2>5
    <3>2. /\ Len(idxBases') = Len(idxBases) + 1
          /\ idxBases'[Len(idxBases) + 1] = watermark + 1
          /\ \A k \in 1..Len(idxBases) : idxBases'[k] = idxBases[k]
          /\ DOMAIN idxBases' = 1..Len(idxBases')
      <4>1. watermark + 1 \in Nat BY SealTypes
      <4> QED BY <3>1, <4>1, SealTypes, AppendProperties
    <3>3. BasesBehind' BY <2>1, <2>5, <3>2, SealTypes DEF SealInv, BasesBehind
    <3>4. ASSUME NEW i \in 1..Len(segs), ~ Published(i)
          PROVE  SealLost(i)' \/ segs[i] > watermark
      <4>1. SealLost(i) BY <2>1, <3>4 DEF SealInv, Explained, Begun
      <4>2. PICK k \in 1..i : k \notin DOMAIN idxBases \/ idxBases[k] # segs[k]
        BY <4>1 DEF SealLost
      <4>3. k \in 1..Len(segs) BY SealTypes
      <4>4. CASE k = Len(idxBases) + 1 /\ segs[k] = watermark + 1
        <5>1. segs[k] <= segs[i] BY DEF SealInv, SegmentsRise
        <5> QED BY <4>3, <4>4, <5>1, SealTypes
      <4>5. CASE k = Len(idxBases) + 1 /\ segs[k] # watermark + 1
        <5>1. idxBases'[k] # segs'[k] BY <2>1, <3>2, <4>5
        <5> QED BY <5>1 DEF SealLost
      <4>6. CASE k # Len(idxBases) + 1
        <5>1. k \notin DOMAIN idxBases' \/ idxBases'[k] # segs'[k]
          BY <2>1, <3>2, <4>2, <4>6, SealTypes
        <5> QED BY <5>1 DEF SealLost
      <4> QED BY <4>4, <4>5, <4>6
    <3>5. Explained'
      BY <2>1, <2>5, <3>4 DEF Explained, Published, Begun, Rolled
    <3> QED BY <2>3, <3>3, <3>5 DEF SealInv
  <2> QED BY <2>4, <2>5
<1>3. CASE PublishSegments
  <2>1. /\ pc = "publish" /\ pc' = "watermark"
        /\ UNCHANGED <<segs, idxBases, sealedBefore, watermark, log>>
        /\ snap' = IF Rolled THEN segs ELSE snap
    BY <1>3 DEF PublishSegments
  <2>2. SegmentsRise' /\ BasesBehind' BY <2>1 DEF SealInv, SegmentsRise, BasesBehind
  <2>3. CASE Rolled
    <3>1. Explained' BY <2>1, <2>3, SealTypes DEF Explained, Published
    <3> QED BY <2>2, <3>1 DEF SealInv
  <2>4. CASE ~ Rolled
    <3>1. Explained' BY <2>1, <2>4 DEF SealInv, Explained, Published, SealLost, Begun
    <3> QED BY <2>2, <3>1 DEF SealInv
  <2> QED BY <2>3, <2>4
<1>4. CASE Restart
  <2>1. pc' = "recv" /\ UNCHANGED <<segs, log>> /\ snap' = segs /\ idxBases' = segs
    BY <1>4 DEF Restart
  <2> QED
    BY <2>1, SealTypes DEF SealInv, SegmentsRise, BasesBehind, Explained, Published
<1>5. CASE Commit \/ Crash
  <2>1. /\ \/ log' = log \/ log' = log \o staged \/ log' = log \o remains.records
        /\ UNCHANGED <<segs, idxBases, snap>>
        /\ \/ pc' \in {"down", "astray"}
           \/ pc = "commit" /\ pc' = "feed" /\ UNCHANGED sealedBefore
    BY <1>5 DEF Commit, Crash
  <2>2. Len(log') \in Nat /\ Len(log') >= Len(log)
    <3>1. /\ log \in Seq(Record) /\ staged \in Seq(Record)
          /\ remains.records \in Seq(Record)
      BY RemainsTypes DEF TypeInv, TypeOK, LogOK, BatchOK
    <3> QED BY <2>1, <3>1, ConcatProperties
  <2> QED BY <2>1, <2>2, SealQuiet
<1>6. CASE \/ \E r \in Req : Submit(r)
           \/ SendShutdown \/ TakePushback \/ ReceiveFirst \/ ReceiveShutdown \/ DrainOne
           \/ DrainEnd \/ Evaluate \/ EvaluateEnd \/ RejectTooLarge \/ FitsActive
           \/ RolloverFails \/ CommitMisplaced \/ CommitFails \/ PublishWatermark \/ ReplyOne
           \/ ReplyEnd \/ GoRound \/ Exit \/ UNCHANGED vars
  <2>1. log' = log /\ UNCHANGED <<segs, idxBases, snap>>
    BY <1>6 DEF Submit, SendShutdown, TakePushback, ReceiveFirst, Start, ReceiveShutdown,
        DrainOne, DrainEnd, Evaluate, RejectAfterBeyondTip, RejectConflict, RejectError,
        Accept, EvaluateEnd, RejectTooLarge, FitsActive, RolloverFails, CommitMisplaced,
        CommitFails, PublishWatermark, ReplyOne, ReplyEnd, GoRound, Exit, vars
  <2>2. \/ pc' \notin {"append", "commit", "feed", "publish"} /\ pc # "publish"
        \/ UNCHANGED <<pc, sealedBefore, watermark>>
        \/ pc' \in {"down", "astray"}
        \/ pc' = "append" /\ sealedBefore' = Len(segs) - 1 /\ pc = "eval"
        \/ pc = "append" /\ pc' = "commit" /\ UNCHANGED sealedBefore
    BY <1>6 DEF Submit, SendShutdown, TakePushback, ReceiveFirst, Start, ReceiveShutdown,
        DrainOne, DrainEnd, Evaluate, EvaluateEnd, RejectTooLarge, FitsActive, RolloverFails,
        CommitMisplaced, CommitFails, PublishWatermark, ReplyOne, ReplyEnd, GoRound, Exit, vars
  <2>3. pc' \notin {"down", "astray"} => pc \notin {"down", "astray"}
    BY <1>6 DEF Submit, SendShutdown, TakePushback, ReceiveFirst, Start, ReceiveShutdown,
        DrainOne, DrainEnd, Evaluate, EvaluateEnd, RejectTooLarge, FitsActive, RolloverFails,
        CommitMisplaced, CommitFails, PublishWatermark, ReplyOne, ReplyEnd, GoRound, Exit, vars
  <2>4. Len(log') \in Nat /\ Len(log') >= Len(log) BY <2>1, SealTypes
  <2> QED BY <2>1, <2>2, <2>3, <2>4, SealQuiet
<1> QED BY <1>1, <1>2, <1>3, <1>4, <1>5, <1>6 DEF Next, Worker

\* What the snapshot lacks is explained, always.
LEMMA AlwaysSealInv == Spec => []SealInv
<1>1. TypeInv /\ PublishInv /\ SealInv /\ [Next]_vars => SealInv'
  BY StepSealInv DEF PublishInv
<1> QED BY <1>1, InitSealInv, AlwaysTypeInv, AlwaysPublishInv, PTL DEF Spec

\* A caller that was acknowledged reads its own write, while the process is up and the writer
\* writes where it believes: process() publishes index, snapshot and watermark before commit_ok
\* sends the replies, and a restart publishes the whole log. The one thing that can keep an
\* acknowledged event from a reader is a segment whose seal was lost, its own or an earlier one.
THEOREM AckedIsVisible == Spec => []ReadYourWrites
<1>1. TypeInv /\ FastInv /\ PublishInv /\ SealInv => ReadYourWrites
  <2> SUFFICES ASSUME TypeInv, FastInv, PublishInv, SealInv, pc \notin {"down", "astray"},
                      NEW r \in Req, reply[r].kind = "ok"
               PROVE  /\ reply[r].last <= watermark /\ reply[r].last <= idxEnd
                      /\ \A i \in DOMAIN segs :
                            segs[i] <= reply[r].last => Published(i) \/ SealLost(i)
    BY DEF ReadYourWrites
  <2>1. watermark \in Nat /\ idxEnd \in Nat /\ Len(log) \in Nat /\ Len(staged) \in Nat
    BY BatchTypes DEF TypeInv, TypeOK, ReadOK, IndexOK
  <2>2. reply[r].last \in Nat
    <3>1. reply[r] \in Reply BY DEF TypeInv, TypeOK, CallersOK
    <3> QED BY <3>1 DEF Reply, ErrorKinds
  <2>3. reply[r].last <= watermark BY DEF PublishInv, AckedBelow
  <2>4. watermark <= idxEnd BY <2>1 DEF PublishInv, WatermarkAtTip, FastInv, IndexCaughtUp
  <2>5. ASSUME NEW i \in DOMAIN segs, segs[i] <= reply[r].last
        PROVE  Published(i) \/ SealLost(i)
    <3>1. i \in 1..Len(segs) /\ segs[i] \in Nat BY SealTypes
    <3>2. ~ Begun(i) BY <2>1, <2>2, <2>3, <2>5, <3>1 DEF Begun
    <3> QED BY <3>1, <3>2 DEF SealInv, Explained
  <2>6. reply[r].last <= idxEnd BY <2>1, <2>2, <2>3, <2>4
  <2> QED BY <2>3, <2>5, <2>6
<1> QED BY <1>1, AlwaysTypeInv, AlwaysFastInv, AlwaysPublishInv, AlwaysSealInv, PTL

\* "The loaded snapshot always covers the loaded watermark" (read/mod.rs) as long as no append
\* failed, for every sequence of rollovers, crashes and restarts: the new segment is published
\* before the watermark enters it.
THEOREM SnapshotIsAhead == Spec => []SnapshotCoversWatermark
<1>1. TypeInv /\ PublishInv => SnapshotCoversWatermark
  <2> SUFFICES ASSUME TypeInv, PublishInv, faults = 0 PROVE SnapshotCovers
    BY DEF SnapshotCoversWatermark
  <2>1. SnapshotTracked BY DEF PublishInv
  <2> QED BY <2>1, TrackedCovers DEF SnapshotTracked
<1> QED BY <1>1, AlwaysTypeInv, AlwaysPublishInv, PTL

--------------------
\* The coordinator implements the store.

\* The store's reading of queries and conditions is the coordinator's.
LEMMA SameReading ==
    /\ \A query, event : Store!Matches(query, event) <=> Matches(query, event)
    /\ \A q, event, p : Store!Forbids(q, event, p) <=> Forbids(q, event, p)
    /\ \A r : Store!InFlight(r) <=> InFlight(r)
<1>1. \A query, event : Store!Matches(query, event) <=> Matches(query, event)
  BY DEF Store!Matches, Store!ItemMatches, Matches, ItemMatches
<1>2. \A q, event, p : Store!Forbids(q, event, p) <=> Forbids(q, event, p)
  BY <1>1 DEF Store!Forbids, Forbids
<1>3. \A r : Store!InFlight(r) <=> InFlight(r) BY DEF Store!InFlight, InFlight
<1> QED BY <1>1, <1>2, <1>3

\* A request absent from a log has no position on it; a placed one has the positions of its grant.
LEMMA PositionsOf ==
    ASSUME NEW l \in Seq(Record), NEW r
    PROVE  /\ Absent(l, r) => Store!Positions(l, r) = {}
           /\ \A g \in Grant : PlacedIn(l, g) /\ g.req = r =>
                /\ Store!Positions(l, r) = g.first .. g.last
                /\ Store!Positions(l, r) # {}
<1>1. DOMAIN l = 1..Len(l) /\ Len(l) \in Nat OBVIOUS
<1>2. Absent(l, r) => Store!Positions(l, r) = {} BY <1>1 DEF Absent, Store!Positions
<1>3. ASSUME NEW g \in Grant, PlacedIn(l, g), g.req = r
      PROVE  /\ Store!Positions(l, r) = g.first .. g.last
             /\ Store!Positions(l, r) # {}
  <2>1. g.first \in Nat /\ g.last \in Nat BY DEF Grant
  <2>2. /\ 1 <= g.first /\ g.first <= g.last /\ g.last <= Len(l)
        /\ \A p \in 1..Len(l) : l[p].req = r <=> g.first <= p /\ p <= g.last
    BY <1>3 DEF PlacedIn
  <2>3. \A p : p \in Store!Positions(l, r) <=> p \in g.first .. g.last
    BY <1>1, <2>1, <2>2 DEF Store!Positions
  <2>4. g.first \in g.first .. g.last BY <2>1, <2>2
  <2> QED BY <2>3, <2>4
<1> QED BY <1>2, <1>3

\* A batch that lands behind the log is admitted by the store: whole requests, in flight or failed
\* late ones, whose conditions hold where they land.
LEMMA BatchAdmitted ==
    ASSUME TypeInv, SoundInv, NEW s \in Seq(Record), Lands(s), NEW late,
           \A k \in 1..Len(s) :
                /\ InFlight(s[k].req) \/ s[k].req \in late
                /\ \E g \in Grant : /\ g.req = s[k].req /\ g.first > Len(log)
                                   /\ PlacedIn(log \o s, g)
    PROVE  Store!Admits(log \o s, late)
<1> DEFINE l == log \o s
<1>1. /\ l \in Seq(Record) /\ Len(l) = Len(log) + Len(s)
      /\ Len(log) \in Nat /\ Len(s) \in Nat
      /\ log \in Seq(Record)
      /\ \A p \in 1..Len(log) : l[p] = log[p]
      /\ \A p \in Len(log) + 1 .. Len(log) + Len(s) : l[p] = s[p - Len(log)]
  <2>1. log \in Seq(Record) BY BatchTypes
  <2> QED BY <2>1, ConcatProperties
<1>2. \A k \in 1..Len(s) :
        \E g \in Grant : g.req = s[k].req /\ g.first > Len(log) /\ PlacedIn(l, g)
  OBVIOUS
<1>4. ASSUME NEW p \in 1..Len(l), NEW q \in 1..Len(l), q < p, l[q].req # l[p].req
      PROVE  ~ Forbids(arg[l[p].req], l[q].event, q)
  BY <1>4, CommitIsSound
<1> HIDE DEF l
<1>5. Len(l) >= Len(log) BY <1>1
<1>6. SubSeq(l, 1, Len(log)) = log
  <2>1. /\ SubSeq(l, 1, Len(log)) \in Seq(Record)
        /\ Len(SubSeq(l, 1, Len(log))) = Len(log)
        /\ \A i \in 1..Len(log) : SubSeq(l, 1, Len(log))[i] = l[i]
    BY <1>1
  <2> QED BY <1>1, <2>1, SeqEqual
<1>7. ASSUME NEW p \in Len(log) + 1 .. Len(l)
      PROVE  /\ Store!InFlight(l[p].req) \/ l[p].req \in late
             /\ \E f \in Len(log) + 1 .. p : Store!WholeAt(l, l[p].req, f)
             /\ \A q \in 1 .. p - 1 : l[q].req # l[p].req =>
                    ~ Store!Forbids(arg[l[p].req], l[q].event, q)
  <2> DEFINE r == l[p].req
  <2>1. p \in 1..Len(l) /\ p - Len(log) \in 1..Len(s) /\ l[p] = s[p - Len(log)]
    BY <1>1
  <2>2. InFlight(r) \/ r \in late BY <2>1
  <2>3. PICK g \in Grant : g.req = r /\ g.first > Len(log) /\ PlacedIn(l, g) BY <1>2, <2>1
  <2>4. g.first \in Nat /\ g.last \in Nat BY DEF Grant
  <2>6. g.first \in Len(log) + 1 .. p /\ Store!WholeAt(l, r, g.first)
    <3> HIDE DEF r
    <3>1. g.first <= p BY <2>1, <2>3 DEF PlacedIn, r
    <3>2. g.first \in Len(log) + 1 .. p BY <1>1, <2>3, <2>4, <3>1
    <3>3. Store!Positions(l, r) = g.first .. g.last BY <1>1, <2>3, PositionsOf
    <3>4. g.last = g.first + Len(arg[r].events) - 1 BY <2>3 DEF PlacedIn
    <3>5. \A x \in Store!Positions(l, r) : l[x].event = arg[r].events[x - g.first + 1]
      <4>1. \A x \in Store!Positions(l, r) : x \in 1..Len(l) /\ l[x].req = r
        BY <1>1 DEF Store!Positions
      <4> QED BY <2>3, <4>1 DEF PlacedIn
    <3> QED BY <3>2, <3>3, <3>4, <3>5 DEF Store!WholeAt
  <2>7. \A q \in 1 .. p - 1 : l[q].req # l[p].req => ~ Forbids(arg[l[p].req], l[q].event, q)
    <3>1. \A q \in 1 .. p - 1 : q \in 1..Len(l) /\ q < p BY <1>1
    <3> QED BY <1>4, <2>1, <3>1
  <2> QED BY <2>2, <2>6, <2>7, SameReading
<1> QED BY <1>5, <1>6, <1>7 DEF Store!Admits, l

\* What commit makes durable is admitted by the store: its requests are in flight.
LEMMA CommitAdmitted ==
    ASSUME TypeInv, StoreInv, SoundInv, pc = "commit", NEW late
    PROVE  Store!Admits(log \o staged, late)
<1>1. Uncommitted BY DEF Uncommitted
<1>2. Lands(staged) /\ staged \in Seq(Record) BY BatchTypes DEF SoundInv, StagedSound
<1>3. ASSUME NEW k \in 1..Len(staged)
      PROVE  /\ InFlight(staged[k].req)
             /\ \E g \in Grant : /\ g.req = staged[k].req /\ g.first > Len(log)
                                /\ PlacedIn(log \o staged, g)
  <2>1. PICK i \in 1..Len(granted) : granted[i].req = staged[k].req
    BY <1>1 DEF StoreInv, BatchPlaced, Granted
  <2>2. /\ granted[i] \in Grant /\ granted[i].first > Len(log)
        /\ PlacedIn(log \o staged, granted[i])
    BY <1>1, BatchTypes DEF StoreInv, BatchPlaced
  <2>3. InFlight(staged[k].req)
    <3>1. reply[staged[k].req] = None /\ arg[staged[k].req].events # <<>>
      BY <2>1 DEF StoreInv, GrantsOpen
    <3>2. NoRequest.events = <<>> BY DEF NoRequest
    <3> QED BY <3>1, <3>2 DEF InFlight
  <2> QED BY <2>1, <2>2, <2>3
<1> QED BY <1>2, <1>3, BatchAdmitted

\* What a crash brings back of a failed batch is admitted: its requests were told of an I/O error,
\* or were about to be.
LEMMA RemainsAdmitted ==
    ASSUME TypeInv, RemainsInv, SoundInv
    PROVE  Store!Admits(log \o remains.records, {r \in Req : Store!Failed(r)})
<1> DEFINE s == remains.records
<1>1. s \in Seq(Record) /\ Lands(s)
  BY RemainsTypes DEF TypeInv, TypeOK, LogOK, SoundInv, RemainsSound
<1>2. ASSUME NEW k \in 1..Len(s)
      PROVE  /\ InFlight(s[k].req) \/ s[k].req \in {r \in Req : Store!Failed(r)}
             /\ \E g \in Grant : /\ g.req = s[k].req /\ g.first > Len(log)
                                /\ PlacedIn(log \o s, g)
  <2>1. s[k].req \in Req
    <3>1. \A x \in Record : x.req \in Req BY DEF Record
    <3> QED BY <1>1, <3>1, ElementOfSeq
  <2>2. /\ arg[s[k].req].events # <<>>
        /\ reply[s[k].req] = Err("log") \/ reply[s[k].req] = None
        /\ PlacedBeyond(s[k].req)
    BY DEF RemainsInv, OwedAnError
  <2>3. arg[s[k].req] # NoRequest BY <2>2 DEF NoRequest
  <2> QED BY <2>1, <2>2, <2>3 DEF InFlight, PlacedBeyond, Store!Failed, Store!IOError, Err
<1> HIDE DEF s
<1>3. Store!Admits(log \o s, {r \in Req : Store!Failed(r)}) BY <1>1, <1>2, BatchAdmitted
<1> QED BY <1>3 DEF s

\* A log as it was is admitted.
LEMMA SameAdmitted == TypeInv => \A late : Store!Admits(log, late)
<1> SUFFICES ASSUME TypeInv, NEW late PROVE Store!Admits(log, late)
  OBVIOUS
<1>1. log \in Seq(Record) /\ Len(log) \in Nat BY BatchTypes
<1>2. SubSeq(log, 1, Len(log)) = log BY <1>1
<1>3. \A p \in Len(log) + 1 .. Len(log) : FALSE BY <1>1
<1> QED BY <1>1, <1>2, <1>3 DEF Store!Admits

\* Answering one caller is a step of the store, when the answer is true.
LEMMA AnswerOne ==
    ASSUME TypeInv, NEW r \in Req, NEW answer, reply' = [reply EXCEPT ![r] = answer],
           UNCHANGED <<arg, log>>, reply[r] = None,
           Store!Truthful(r, answer), answer.kind # "lost"
    PROVE  Store!AnswerSome
<1>1. /\ reply'[r] = answer
      /\ \A x \in Req : x # r => reply'[x] = reply[x]
  BY DEF TypeInv, TypeOK, CallersOK
<1> QED BY <1>1 DEF Store!AnswerSome

\* A conflict the writer reports is one the store could report: the first forbidden event on the
\* log, or one of the same batch.
LEMMA ConflictIsTrue ==
    ASSUME TypeInv, FastInv, pc = "eval", NEW r \in Req, Absent(log, r),
           NEW clause \in {"boundary", "existence"}, NEW at,
           \/ clause = "boundary" /\ at \in ClauseConflicts(arg[r].match, arg[r].after)
           \/ clause = "existence" /\ at \in ClauseConflicts(arg[r].exists, 0)
    PROVE  Store!Truthful(r, Conflict(clause, at))
<1> DEFINE query == IF clause = "boundary" THEN arg[r].match ELSE arg[r].exists
           after == IF clause = "boundary" THEN arg[r].after ELSE 0
           answer == Conflict(clause, at)
<1>1. log \in Seq(Record) /\ DOMAIN log = 1..Len(log) /\ Len(log) \in Nat BY BatchTypes
<1>2. after \in Nat BY RequestFields DEF TypeInv, TypeOK, CallersOK
<1>3. at \in ClauseConflicts(query, after) OBVIOUS
<1>4. Store!Against(r, clause) = ScanMatches(query, after)
  <2>1. \A p \in DOMAIN log : p > 0 BY <1>1
  <2> QED BY <2>1, SameReading DEF Store!Against, ScanMatches
<1>5. Store!Positions(log, r) = {} BY <1>1, PositionsOf
<1>6. answer.kind = "conflict" /\ answer.at = at /\ answer.clause = clause BY DEF Conflict
<1> HIDE DEF query, after, answer
<1>7. at > 0 => at \in Lowest(ScanMatches(query, after))
  <2>1. FastMatches(query, after) = ScanMatches(query, after) BY <1>2, FastIsExact
  <2> QED BY <1>3, <2>1 DEF ClauseConflicts, DurableMatches
<1>8. at > 0 => at \in Store!Against(r, clause) /\ \A p \in Store!Against(r, clause) : at <= p
  BY <1>4, <1>7 DEF Lowest
<1> QED BY <1>5, <1>6, <1>8 DEF Store!Truthful, answer

\* Submitting is a submission to the store, or an answer by the handle.
LEMMA SubmitRefines ==
    ASSUME TypeInv, Frozen, StoreInv, NEW r \in Req, Submit(r)
    PROVE  Store!Next
<1>1. arg \in [Req -> RequestType] /\ reply \in [Req -> Reply] /\ log \in Seq(Record)
  BY BatchTypes DEF TypeInv, TypeOK, CallersOK
<1>2. arg[r] = NoRequest /\ reply[r] = None /\ log' = log BY DEF Submit, logVars
<1>3. Store!Positions(log, r) = {} BY <1>1, <1>2, FreshIsNowhere, PositionsOf
<1>4. \A kind \in {"empty", "shutdown"} :
        /\ Store!Truthful(r, Err(kind)) /\ Err(kind).kind # "lost" /\ Err(kind) # None
  BY <1>3 DEF Store!Truthful, Err, None
<1>5. PICK q \in Request :
        \/ reply' = [reply EXCEPT ![r] = Err("empty")] /\ arg' = arg
        \/ arg' = [arg EXCEPT ![r] = q] /\ reply' = [reply EXCEPT ![r] = Err("shutdown")]
        \/ arg' = [arg EXCEPT ![r] = q] /\ reply' = reply
  BY DEF Submit
<1>6. CASE reply' = [reply EXCEPT ![r] = Err("empty")] /\ arg' = arg
  <2>1. Store!AnswerSome BY <1>2, <1>4, <1>6, AnswerOne
  <2> QED BY <2>1 DEF Store!Next
<1>7. CASE arg' = [arg EXCEPT ![r] = q] /\ reply' = [reply EXCEPT ![r] = Err("shutdown")]
  <2>1. /\ arg'[r] = q /\ reply'[r] = Err("shutdown")
        /\ \A x \in Req : x # r => arg'[x] = arg[x] /\ reply'[x] = reply[x]
    BY <1>1, <1>7
  <2>2. Store!AnswerSome BY <1>2, <1>4, <2>1 DEF Store!AnswerSome
  <2> QED BY <2>2 DEF Store!Next
<1>8. CASE arg' = [arg EXCEPT ![r] = q] /\ reply' = reply
  BY <1>2, <1>8 DEF Store!Next, Store!Submit
<1> QED BY <1>5, <1>6, <1>7, <1>8

\* Evaluating a request is invisible when it is staged, and a true answer when it is refused.
LEMMA EvaluateRefines ==
    ASSUME TypeInv, FastInv, StoreInv, Evaluate
    PROVE  Store!Next \/ UNCHANGED Store!vars
<1>1. drained \in Seq(Req) /\ drained # <<>> /\ Len(drained) \in Nat
  BY DEF TypeInv, TypeOK, DrainOK, Evaluate
<1>2. Head(drained) \in Req /\ Head(drained) = drained[1] /\ 1 \in 1..Len(drained)
  <2>1. Len(drained) # 0 BY <1>1, EmptySeq
  <2> QED BY <1>1, <2>1, HeadTail
<1> PICK r \in Req : r = Head(drained)
  BY <1>2
<1>3. pc = "eval" /\ UNCHANGED <<arg, log>> BY DEF Evaluate, logVars
<1>4. reply[r] = None /\ Absent(log, r)
  BY <1>2 DEF StoreInv, WaitingUntouched, Untouched, Waiting, Drawn
<1>5. \/ Accept(r)
      \/ \E kind \in {"afterBeyondTip", "log"} : Answer(r, Err(kind))
      \/ \E clause \in {"boundary", "existence"} : \E at :
            /\ \/ clause = "boundary" /\ at \in ClauseConflicts(arg[r].match, arg[r].after)
               \/ clause = "existence" /\ at \in ClauseConflicts(arg[r].exists, 0)
            /\ Answer(r, Conflict(clause, at))
  BY DEF Evaluate, RejectAfterBeyondTip, RejectConflict, RejectError
<1>6. CASE Accept(r) BY <1>3, <1>6 DEF Accept, Store!vars
<1>7. ASSUME NEW kind \in {"afterBeyondTip", "log"}, Answer(r, Err(kind)) PROVE Store!Next
  <2>1. Store!Positions(log, r) = {} BY <1>4, BatchTypes, PositionsOf
  <2>2. Store!Truthful(r, Err(kind)) /\ Err(kind).kind # "lost"
    BY <2>1 DEF Store!Truthful, Err
  <2> QED BY <1>3, <1>4, <1>7, <2>2, AnswerOne DEF Answer, Store!Next
<1>8. ASSUME NEW clause \in {"boundary", "existence"}, NEW at,
             \/ clause = "boundary" /\ at \in ClauseConflicts(arg[r].match, arg[r].after)
             \/ clause = "existence" /\ at \in ClauseConflicts(arg[r].exists, 0),
             Answer(r, Conflict(clause, at))
      PROVE  Store!Next
  <2>1. Store!Truthful(r, Conflict(clause, at)) BY <1>3, <1>4, <1>8, ConflictIsTrue
  <2>2. Conflict(clause, at).kind # "lost" BY DEF Conflict
  <2> QED BY <1>3, <1>4, <1>8, <2>1, <2>2, AnswerOne DEF Answer, Store!Next
<1> QED BY <1>5, <1>6, <1>7, <1>8

\* commit_ok tells the range the records have, commit_err that there are none.
LEMMA ReplyRefines ==
    ASSUME TypeInv, StoreInv, ReplyOne
    PROVE  Store!Next
<1> DEFINE g == Head(granted)
           answer == IF outcome = "ok" THEN Ok(g) ELSE Err(outcome)
<1>1. /\ pc = "reply" /\ granted # <<>> /\ UNCHANGED <<arg, log>>
      /\ reply' = [reply EXCEPT ![g.req] = answer]
  BY DEF ReplyOne, Answer, logVars
<1>2. g \in Grant /\ g.req \in Req /\ g = granted[1] /\ 1 \in 1..Len(granted)
  <2>1. granted \in Seq(Grant) /\ Len(granted) # 0 /\ Len(granted) \in Nat
    BY <1>1, BatchTypes, EmptySeq
  <2>2. g = granted[1] /\ 1 \in 1..Len(granted) BY <1>1, <2>1, HeadTail
  <2> QED BY <2>2, BatchTypes
<1>3. reply[g.req] = None BY <1>2 DEF StoreInv, GrantsOpen
<1>4. log \in Seq(Record) BY BatchTypes
<1>5. Store!Truthful(g.req, answer) /\ answer.kind # "lost"
  <2>1. CASE outcome = "ok"
    <3>1. PlacedIn(log, g) BY <1>1, <1>2, <2>1 DEF StoreInv, BatchPlaced, CommittedBatch
    <3>2. answer.kind = "ok" /\ answer.first = g.first /\ answer.last = g.last
      BY <2>1 DEF Ok
    <3> HIDE DEF g, answer
    <3>3. Store!Positions(log, g.req) = g.first .. g.last /\ Store!Positions(log, g.req) # {}
      BY <1>2, <1>4, <3>1, PositionsOf
    <3> QED BY <3>2, <3>3 DEF Store!Truthful
  <2>2. CASE outcome # "ok"
    <3>1. Absent(log, g.req) BY <1>1, <1>2, <2>2 DEF StoreInv, BatchPlaced, FailedBatch
    <3>2. answer.kind \in {"tooLarge", "log"} BY <2>2 DEF Err, TypeInv, TypeOK, BatchOK
    <3> HIDE DEF g, answer
    <3>3. Store!Positions(log, g.req) = {} BY <1>4, <3>1, PositionsOf
    <3> QED BY <3>2, <3>3 DEF Store!Truthful
  <2> QED BY <2>1, <2>2
<1>6. Store!AnswerSome
  <2> HIDE DEF g, answer
  <2> QED BY <1>1, <1>2, <1>3, <1>5, AnswerOne
<1> QED BY <1>6 DEF Store!Next

\* The requests an exiting worker leaves in the queue have no record.
LEMMA ExitRefines ==
    ASSUME TypeInv, StoreInv, Exit
    PROVE  Store!Next
<1>1. /\ UNCHANGED <<arg, log>>
      /\ reply' = [r \in Req |-> IF \E i \in DOMAIN queue : queue[i] = r
                                 THEN Err("shutdown") ELSE reply[r]]
  BY DEF Exit, logVars
<1>2. DOMAIN queue = 1..Len(queue) /\ log \in Seq(Record)
  BY BatchTypes DEF TypeInv, TypeOK, DrainOK
<1>3. ASSUME NEW r \in Req, reply'[r] # reply[r]
      PROVE  reply[r] = None /\ Store!Truthful(r, reply'[r]) /\ reply'[r].kind # "lost"
  <2>1. Queued(r) /\ reply'[r] = Err("shutdown") BY <1>1, <1>2, <1>3 DEF Queued
  <2>2. reply[r] = None /\ Absent(log, r)
    BY <2>1 DEF StoreInv, WaitingUntouched, Untouched, Waiting
  <2>3. Store!Positions(log, r) = {} BY <1>2, <2>2, PositionsOf
  <2> QED BY <2>1, <2>2, <2>3 DEF Store!Truthful, Err
<1>4. Store!AnswerSome BY <1>1, <1>3 DEF Store!AnswerSome
<1> QED BY <1>4 DEF Store!Next

\* Every step of the coordinator is a step of the store, or invisible.
LEMMA StepRefines ==
    ASSUME TypeInv, FastInv, Frozen, StoreInv, RemainsInv, SoundInv, [Next]_vars
    PROVE  [Store!Next]_(Store!vars)
<1> USE DEF callerVars, logVars
<1>1. CASE \E r \in Req : Submit(r) BY <1>1, SubmitRefines
<1>2. CASE Evaluate BY <1>2, EvaluateRefines
<1>3. CASE Commit
  <2>1. pc = "commit" /\ log' = log \o staged /\ UNCHANGED <<arg, reply>>
    BY <1>3 DEF Commit
  <2>2. Store!Admits(log \o staged, {}) BY <2>1, CommitAdmitted
  <2>3. Store!Commit BY <2>1, <2>2 DEF Store!Commit
  <2> QED BY <2>3 DEF Store!Next
<1>4. CASE Crash
  <2>1. /\ \/ log' = log
           \/ pc = "commit" /\ log' = log \o staged
           \/ log' = log \o remains.records
        /\ reply' = [r \in Req |-> IF InFlight(r) THEN Err("lost") ELSE reply[r]]
        /\ UNCHANGED arg
    BY <1>4 DEF Crash
  <2>2. Store!Admits(log', {r \in Req : Store!Failed(r)})
    BY <2>1, CommitAdmitted, SameAdmitted, RemainsAdmitted
  <2>3. \A r \in Req : reply'[r] = IF Store!InFlight(r) THEN [kind |-> "lost"] ELSE reply[r]
    BY <2>1, SameReading DEF Err
  <2>4. Store!Crash BY <2>1, <2>2, <2>3 DEF Store!Crash
  <2> QED BY <2>4 DEF Store!Next
<1>5. CASE ReplyOne BY <1>5, ReplyRefines
<1>6. CASE Exit BY <1>6, ExitRefines
<1>7. CASE \/ SendShutdown \/ TakePushback \/ ReceiveFirst \/ ReceiveShutdown \/ DrainOne \/ DrainEnd
           \/ EvaluateEnd \/ RejectTooLarge \/ FitsActive \/ Rollover \/ RolloverFails
           \/ CommitMisplaced \/ CommitFails \/ FeedIndex \/ PublishSegments \/ PublishWatermark
           \/ ReplyEnd \/ GoRound \/ Restart \/ UNCHANGED vars
  <2>1. UNCHANGED <<arg, reply, log>>
    BY <1>7 DEF SendShutdown, TakePushback, ReceiveFirst, Start, ReceiveShutdown, DrainOne,
        DrainEnd, EvaluateEnd, RejectTooLarge, FitsActive, Rollover, RolloverFails,
        CommitMisplaced, CommitFails, FeedIndex, PublishSegments, PublishWatermark, ReplyEnd,
        GoRound, Restart, vars
  <2> QED BY <2>1 DEF Store!vars
<1> QED BY <1>1, <1>2, <1>3, <1>4, <1>5, <1>6, <1>7 DEF Next, Worker

\* When every event carries a tag, the coordinator implements the store its callers are promised:
\* queueing, batching, group commit, rollover, tips and index are invisible, a record becomes
\* durable with its whole request at a moment its condition holds, every answer agrees with the
\* log, and a crash loses only answers, and may bring back what was refused with an I/O error: a
\* batch whose marker was written before the fsync that failed (write.rs, commit). It holds until
\* the writer writes beside the place it believes. Safety only: the store promises nothing about
\* when it answers.
THEOREM Implementation == ASSUME Tagged PROVE Spec => RefinesStore
<1>1. Init => Store!Init BY DEF Init, Store!Init
<1>2. TypeInv /\ FastInv /\ (Frozen /\ TagInv /\ SoundInv) /\ (Frozen /\ StoreInv)
      /\ RemainsInv /\ [Next]_vars
      => [Store!Next]_(Store!vars)
  BY StepRefines
<1> QED
  BY <1>1, <1>2, AlwaysTypeInv, AlwaysFastInv, AlwaysSound, AlwaysStoreInv, AlwaysRemainsInv,
      PTL
      DEF Spec, RefinesStore, Store!Spec

--------------------
\* Nobody is overtaken: the order in which requests are answered is the order in which they were
\* queued.

Token == Req \cup {Shutdown}

\* Line in parts: the requests of the log, those of the batch while it may still be committed, the
\* drain, the deferred request and the queue.
Requests(s) == [i \in DOMAIN s |-> s[i].req]

Batched == IF Uncommitted THEN Requests(staged) ELSE <<>>

Cat(s, t) == s \o t

Joined(a, b, d, p, q) == Cat(a, Cat(b, Cat(d, Cat(p, q))))

Before(L, r, s) == \E i, j \in 1..Len(L) : i < j /\ L[i] = r /\ L[j] = s

Within(L, r) == \E i \in 1..Len(L) : L[i] = r

\* K has of L's order what it has of L's requests, and nothing else.
Narrows(L, K) == \A r, s : r # s /\ Before(K, r, s) => Before(L, r, s)

\* No request stands both before and behind another.
Apart(L) == \A r, s \in Req : r # s => ~ (Before(L, r, s) /\ Before(L, s, r))

Keeps(L, K) ==
    \A r, s \in Req : r # s /\ Within(L, r) /\ Within(L, s) /\ Before(K, r, s) => Before(L, r, s)

\* Outside a drain nothing is drawn, and a drain begins with nothing deferred.
DrainPhases ==
    /\ pc \notin {"drain", "eval"} => drained = <<>>
    /\ pc = "drain" => pushback = <<>>

\* The requests of what a failed commit left behind the log were once the batch's, in its order.
LineInv == DrainPhases /\ Apart(Line) /\ Apart(Requests(remains.records))

\* The requests of a sequence of records.
LEMMA RequestsType ==
    ASSUME NEW s \in Seq(Record)
    PROVE  /\ Requests(s) \in Seq(Token)
           /\ Len(Requests(s)) = Len(s)
           /\ \A i \in 1..Len(s) : Requests(s)[i] = s[i].req
<1>1. Len(s) \in Nat /\ DOMAIN s = 1..Len(s) /\ \A i \in 1..Len(s) : s[i] \in Record
  BY LenProperties
<1>2. \A i \in 1..Len(s) : s[i].req \in Token BY <1>1 DEF Record, Token
<1>3. Requests(s) = [i \in 1..Len(s) |-> s[i].req] BY <1>1 DEF Requests
<1> QED BY <1>1, <1>2, <1>3

\* u is s, of length m, and then t, of length n.
Chain(u, s, t, m, n) ==
    /\ Len(u) = m + n
    /\ \A i \in 1..m : u[i] = s[i]
    /\ \A i \in 1..n : u[m + i] = t[i]

LEMMA ConcatAt ==
    ASSUME NEW S, NEW s \in Seq(S), NEW t \in Seq(S), NEW m \in Nat, NEW n \in Nat,
           m = Len(s), n = Len(t), NEW u, u = s \o t
    PROVE  u \in Seq(S) /\ Chain(u, s, t, m, n)
<1>1. /\ u \in Seq(S)
      /\ Len(u) = m + n
      /\ \A i \in 1..(m + n) : u[i] = IF i <= m THEN s[i] ELSE t[i - m]
  BY ConcatProperties
<1>2. \A i \in 1..m : i \in 1..(m + n) /\ i <= m OBVIOUS
<1>3. \A i \in 1..n : m + i \in 1..(m + n) /\ ~ (m + i <= m) /\ (m + i) - m = i OBVIOUS
<1> QED BY <1>1, <1>2, <1>3 DEF Chain

LEMMA RequestsConcat ==
    ASSUME NEW s \in Seq(Record), NEW t \in Seq(Record)
    PROVE  Requests(s \o t) = Requests(s) \o Requests(t)
<1>1. PICK m \in Nat, n \in Nat : m = Len(s) /\ n = Len(t) BY LenProperties
<1>2. PICK u : u = s \o t OBVIOUS
<1>7. u \in Seq(Record) /\ Chain(u, s, t, m, n) BY <1>1, <1>2, ConcatAt
<1>3. PICK a, b, c :
        /\ a = Requests(s) /\ a \in Seq(Token) /\ Len(a) = m /\ \A i \in 1..m : a[i] = s[i].req
        /\ b = Requests(t) /\ b \in Seq(Token) /\ Len(b) = n /\ \A i \in 1..n : b[i] = t[i].req
        /\ c = Requests(u) /\ c \in Seq(Token) /\ Len(c) = m + n
        /\ \A i \in 1..(m + n) : c[i] = u[i].req
  <2>1. /\ Requests(s) \in Seq(Token) /\ Len(Requests(s)) = m
        /\ \A i \in 1..m : Requests(s)[i] = s[i].req
    BY <1>1, RequestsType
  <2>2. /\ Requests(t) \in Seq(Token) /\ Len(Requests(t)) = n
        /\ \A i \in 1..n : Requests(t)[i] = t[i].req
    BY <1>1, RequestsType
  <2>3. /\ Requests(u) \in Seq(Token) /\ Len(Requests(u)) = m + n
        /\ \A i \in 1..(m + n) : Requests(u)[i] = u[i].req
    BY <1>7, RequestsType DEF Chain
  <2> QED BY <2>1, <2>2, <2>3
<1>4. PICK d : d = a \o b OBVIOUS
<1>8. d \in Seq(Token) /\ Chain(d, a, b, m, n) BY <1>3, <1>4, ConcatAt
<1>5. ASSUME NEW i \in 1..(m + n) PROVE c[i] = d[i]
  <2>1. CASE i \in 1..m
    <3>1. c[i] = u[i].req /\ a[i] = s[i].req BY <1>3, <2>1
    <3>2. u[i] = s[i] /\ d[i] = a[i] BY <1>7, <1>8, <2>1 DEF Chain
    <3> QED BY <3>1, <3>2
  <2>2. CASE i \notin 1..m
    <3>1. PICK k \in 1..n : i = m + k
      <4>1. i - m \in 1..n /\ i = m + (i - m)
        BY ONLY <2>2, m \in Nat, n \in Nat, i \in 1..(m + n)
      <4> QED BY <4>1
    <3>2. c[i] = u[i].req /\ b[k] = t[k].req BY <1>3, <3>1
    <3>3. u[i] = t[k] /\ d[i] = b[k] BY <1>7, <1>8, <3>1 DEF Chain
    <3> QED BY <3>2, <3>3
  <2> QED BY <2>1, <2>2
<1>6. c = d BY <1>3, <1>5, <1>8, SeqEqual DEF Chain
<1> QED BY <1>2, <1>3, <1>4, <1>6

\* Any number of copies of one request in its place, or nothing in place of some, leaves the
\* others in their order.
LEMMA MiddleOrder ==
    ASSUME NEW X \in Seq(Token), NEW M \in Seq(Token), NEW N \in Seq(Token), NEW Z \in Seq(Token),
           NEW r, \/ N = <<>>
                  \/ Len(M) = 1 /\ M[1] = r /\ \A i \in 1..Len(N) : N[i] = r
    PROVE  Narrows(X \o (M \o Z), X \o (N \o Z))
<1>1. PICK x \in Nat, m \in Nat, n \in Nat, z \in Nat :
        x = Len(X) /\ m = Len(M) /\ n = Len(N) /\ z = Len(Z)
  BY LenProperties
<1>2. PICK MZ, NZ : MZ = M \o Z /\ NZ = N \o Z OBVIOUS
<1>3. MZ \in Seq(Token) /\ Chain(MZ, M, Z, m, z) /\ NZ \in Seq(Token) /\ Chain(NZ, N, Z, n, z)
  BY <1>1, <1>2, ConcatAt
<1>4. PICK L, K : L = X \o MZ /\ K = X \o NZ OBVIOUS
<1>5. /\ L \in Seq(Token) /\ Chain(L, X, MZ, x, m + z)
      /\ K \in Seq(Token) /\ Chain(K, X, NZ, x, n + z)
  <2>1. m + z \in Nat /\ m + z = Len(MZ) /\ n + z \in Nat /\ n + z = Len(NZ)
    BY <1>3 DEF Chain
  <2> QED BY <1>1, <1>3, <1>4, <2>1, ConcatAt
<1>6. n = 0 \/ (m = 1 /\ M[1] = r /\ \A i \in 1..n : N[i] = r) BY <1>1
<1>7. ASSUME NEW i \in 1..(x + (n + z))
      PROVE  \E k \in 1..(x + (m + z)) :
                /\ L[k] = K[i]
                /\ \/ i <= x /\ k = i
                   \/ x < i /\ i <= x + n /\ k = x + 1 /\ m = 1 /\ K[i] = r
                   \/ x + n < i /\ k + n = i + m
  <2>1. CASE i <= x
    <3>1. i \in 1..(x + (m + z)) /\ i \in 1..x
      BY ONLY <2>1, x \in Nat, m \in Nat, n \in Nat, z \in Nat, i \in 1..(x + (n + z))
    <3> QED BY <1>5, <2>1, <3>1 DEF Chain
  <2>2. CASE x < i /\ i <= x + n
    <3>1. PICK h \in 1..n : i = x + h /\ h \in 1..(n + z)
      <4>1. i - x \in 1..n /\ i = x + (i - x) /\ i - x \in 1..(n + z)
        BY ONLY <2>2, x \in Nat, n \in Nat, z \in Nat, i \in 1..(x + (n + z))
      <4> QED BY <4>1
    <3>2. m = 1 /\ M[1] = r /\ N[h] = r BY <1>6, <3>1
    <3>3. K[i] = r BY <1>3, <1>5, <3>1, <3>2 DEF Chain
    <3>4. x + 1 \in 1..(x + (m + z)) /\ 1 \in 1..(m + z) /\ 1 \in 1..m
      <4>1. m = 1 BY <3>2
      <4> QED BY ONLY <4>1, x \in Nat, m \in Nat, z \in Nat
    <3>5. L[x + 1] = r BY <1>3, <1>5, <3>2, <3>4 DEF Chain
    <3> QED BY <2>2, <3>2, <3>3, <3>4, <3>5
  <2>3. CASE x + n < i
    <3>1. PICK h \in 1..z : i = x + (n + h)
      <4>1. (i - n) - x \in 1..z /\ i = x + (n + ((i - n) - x))
        BY ONLY <2>3, x \in Nat, n \in Nat, z \in Nat, i \in 1..(x + (n + z))
      <4> QED BY <4>1
    <3>2. /\ n + h \in 1..(n + z) /\ m + h \in 1..(m + z) /\ x + (m + h) \in 1..(x + (m + z))
          /\ (x + (m + h)) + n = i + m
      BY ONLY <3>1, x \in Nat, m \in Nat, n \in Nat, z \in Nat, h \in 1..z
    <3>3. K[i] = Z[h] /\ L[x + (m + h)] = Z[h] BY <1>3, <1>5, <3>1, <3>2 DEF Chain
    <3> QED BY <2>3, <3>2, <3>3
  <2> QED BY ONLY <2>1, <2>2, <2>3, x \in Nat, n \in Nat, z \in Nat, i \in 1..(x + (n + z))
<1>8. Narrows(L, K)
  <2> SUFFICES ASSUME NEW u, NEW v, u # v, Before(K, u, v)
               PROVE  Before(L, u, v)
    BY DEF Narrows
  <2>1. PICK i \in 1..(x + (n + z)), j \in 1..(x + (n + z)) : i < j /\ K[i] = u /\ K[j] = v
    BY <1>5 DEF Before, Chain
  <2>2. PICK k \in 1..(x + (m + z)) :
          /\ L[k] = u
          /\ \/ i <= x /\ k = i
             \/ x < i /\ i <= x + n /\ k = x + 1 /\ m = 1 /\ K[i] = r
             \/ x + n < i /\ k + n = i + m
    BY <1>7, <2>1
  <2>3. PICK l \in 1..(x + (m + z)) :
          /\ L[l] = v
          /\ \/ j <= x /\ l = j
             \/ x < j /\ j <= x + n /\ l = x + 1 /\ m = 1 /\ K[j] = r
             \/ x + n < j /\ l + n = j + m
    BY <1>7, <2>1
  <2>4. k <= l
    <3>1. i < j BY <2>1
    <3>2. \/ i <= x /\ k = i
          \/ x < i /\ i <= x + n /\ k = x + 1 /\ m = 1
          \/ x + n < i /\ k + n = i + m
      BY <2>2
    <3>3. \/ j <= x /\ l = j
          \/ x < j /\ j <= x + n /\ l = x + 1 /\ m = 1
          \/ x + n < j /\ l + n = j + m
      BY <2>3
    <3> QED
      BY ONLY <3>1, <3>2, <3>3, x \in Nat, m \in Nat, n \in Nat, z \in Nat,
              i \in 1..(x + (n + z)), j \in 1..(x + (n + z)),
              k \in 1..(x + (m + z)), l \in 1..(x + (m + z))
  <2>5. k # l BY <2>1, <2>2, <2>3
  <2>6. k < l
    BY ONLY <2>4, <2>5, x \in Nat, m \in Nat, z \in Nat,
            k \in 1..(x + (m + z)), l \in 1..(x + (m + z))
  <2> QED BY <1>5, <2>2, <2>3, <2>6 DEF Before, Chain
<1> QED BY <1>2, <1>4, <1>8

\* An order narrowed stays an order, and nobody new comes into it.
LEMMA NarrowStays ==
    ASSUME NEW L, NEW K, Apart(L), Narrows(L, K)
    PROVE  Apart(K) /\ Keeps(L, K)
BY DEF Apart, Narrows, Keeps

\* A newcomer takes the last place.
LEMMA AppendOrder ==
    ASSUME NEW L \in Seq(Token), NEW x \in Token, NEW K, K = L \o <<x>>, Apart(L),
           x \in Req => ~ Within(L, x)
    PROVE  Apart(K) /\ Keeps(L, K)
<1>1. PICK n \in Nat : n = Len(L) BY LenProperties
<1>2. <<x>> \in Seq(Token) /\ Len(<<x>>) = 1 /\ <<x>>[1] = x OBVIOUS
<1>3. Chain(K, L, <<x>>, n, 1) BY <1>1, <1>2, ConcatAt
<1>4. Len(K) = n + 1 /\ K[n + 1] = x /\ \A i \in 1..n : K[i] = L[i]
  BY <1>2, <1>3 DEF Chain
<1>5. ASSUME NEW r \in Req, NEW s \in Req, r # s, Before(K, r, s)
      PROVE  Before(L, r, s) \/ (s = x /\ Within(L, r))
  <2>1. PICK i \in 1..(n + 1), j \in 1..(n + 1) : i < j /\ K[i] = r /\ K[j] = s
    BY <1>4, <1>5 DEF Before
  <2>2. i \in 1..n /\ (j \in 1..n \/ j = n + 1)
    BY ONLY <2>1, n \in Nat, i \in 1..(n + 1), j \in 1..(n + 1)
  <2> QED BY <1>1, <1>4, <2>1, <2>2 DEF Before, Within
<1>6. Keeps(L, K) BY <1>5 DEF Keeps
<1>7. ASSUME NEW r \in Req, NEW s \in Req, r # s, Before(K, r, s), Before(K, s, r) PROVE FALSE
  <2>1. Before(L, r, s) \/ (s = x /\ Within(L, r)) BY <1>5, <1>7
  <2>2. Before(L, s, r) \/ (r = x /\ Within(L, s)) BY <1>5, <1>7
  <2>3. \A u, v : Before(L, u, v) => Within(L, u) /\ Within(L, v) BY DEF Before, Within
  <2> QED BY <1>7, <2>1, <2>2, <2>3 DEF Apart
<1> QED BY <1>6, <1>7 DEF Apart

\* Concatenation, without its elements.
LEMMA CatAlgebra ==
    /\ \A s, t \in Seq(Token) : Cat(s, t) \in Seq(Token)
    /\ \A s, t, u \in Seq(Token) : Cat(Cat(s, t), u) = Cat(s, Cat(t, u))
    /\ <<>> \in Seq(Token)
    /\ \A s \in Seq(Token) : Cat(s, <<>>) = s /\ Cat(<<>>, s) = s
<1>1. \A s, t \in Seq(Token) : Cat(s, t) \in Seq(Token) BY ConcatProperties DEF Cat
<1>2. \A s, t, u \in Seq(Token) : Cat(Cat(s, t), u) = Cat(s, Cat(t, u))
  BY ConcatAssociative DEF Cat
<1>3. \A s \in Seq(Token) : Cat(s, <<>>) = s /\ Cat(<<>>, s) = s BY ConcatEmptySeq DEF Cat
<1> QED BY <1>1, <1>2, <1>3, EmptySeq

LEMMA JoinedIs ==
    ASSUME NEW a \in Seq(Token), NEW b \in Seq(Token), NEW d \in Seq(Token),
           NEW p \in Seq(Token), NEW q \in Seq(Token)
    PROVE  Cat(Cat(Cat(Cat(a, b), d), p), q) = Joined(a, b, d, p, q)
<1>2. Cat(a, b) \in Seq(Token) /\ Cat(Cat(a, b), d) \in Seq(Token) BY CatAlgebra
<1>3. Cat(p, q) \in Seq(Token) /\ Cat(d, Cat(p, q)) \in Seq(Token) BY CatAlgebra
<1>4. /\ Cat(Cat(Cat(Cat(a, b), d), p), q) = Cat(Cat(Cat(a, b), d), Cat(p, q))
      /\ Cat(Cat(Cat(a, b), d), Cat(p, q)) = Cat(Cat(a, b), Cat(d, Cat(p, q)))
      /\ Cat(Cat(a, b), Cat(d, Cat(p, q))) = Cat(a, Cat(b, Cat(d, Cat(p, q))))
  BY <1>2, <1>3, CatAlgebra
<1> QED BY <1>4 DEF Joined

\* Line, in its parts.
LineIsParts ==
    /\ Requests(log) \in Seq(Token) /\ Requests(staged) \in Seq(Token)
    /\ Batched \in Seq(Token)
    /\ drained \in Seq(Token) /\ pushback \in Seq(Token) /\ queue \in Seq(Token)
    /\ Line = Joined(Requests(log), Batched, drained, pushback, queue)

LEMMA LineParts == TypeInv => LineIsParts
<1> SUFFICES ASSUME TypeInv PROVE LineIsParts
  OBVIOUS
<1>1. /\ log \in Seq(Record) /\ staged \in Seq(Record)
      /\ drained \in Seq(Req) /\ pushback \in Seq(Req) /\ queue \in Seq(Token)
  BY DEF TypeInv, TypeOK, LogOK, BatchOK, DrainOK, Token
<1>2. drained \in Seq(Token) /\ pushback \in Seq(Token)
  <2>1. Req \subseteq Token BY DEF Token
  <2> QED BY <1>1, <2>1, SeqMonotonic
<1>3. /\ Requests(log) \in Seq(Token) /\ Requests(staged) \in Seq(Token)
      /\ Batched \in Seq(Token)
  BY <1>1, RequestsType, EmptySeq DEF Batched
<1>4. PICK a \in Seq(Token), b \in Seq(Token), d \in Seq(Token), p \in Seq(Token), q \in Seq(Token) :
        /\ a = Requests(log) /\ b = Batched /\ d = drained /\ p = pushback /\ q = queue
  BY <1>1, <1>2, <1>3
<1>5. Line = Cat(Cat(Cat(Cat(a, b), d), p), q)
  <2>1. Line = Requests(log) \o Requests(IF Uncommitted THEN staged ELSE <<>>)
                  \o drained \o pushback \o queue
    BY DEF Line, Requests, Uncommitted
  <2>2. Requests(<<>>) = <<>> BY DEF Requests
  <2>3. Requests(IF Uncommitted THEN staged ELSE <<>>) = Batched BY <2>2 DEF Batched
  <2> QED BY <1>4, <2>1, <2>3 DEF Cat
<1>6. Line = Joined(a, b, d, p, q) BY <1>5, JoinedIs
<1> QED BY <1>1, <1>2, <1>3, <1>4, <1>6 DEF LineIsParts

\* A middle part dropped, or repeated in its place.
LEMMA CatMiddle ==
    ASSUME NEW X \in Seq(Token), NEW M \in Seq(Token), NEW N \in Seq(Token), NEW Z \in Seq(Token),
           NEW r, \/ N = <<>>
                  \/ Len(M) = 1 /\ M[1] = r /\ \A i \in 1..Len(N) : N[i] = r
    PROVE  Narrows(Cat(X, Cat(M, Z)), Cat(X, Cat(N, Z)))
BY MiddleOrder DEF Cat

LEMMA Dropped ==
    ASSUME NEW X \in Seq(Token), NEW M \in Seq(Token), NEW Z \in Seq(Token)
    PROVE  Narrows(Cat(X, Cat(M, Z)), Cat(X, Z))
<1>1. <<>> \in Seq(Token) /\ Cat(<<>>, Z) = Z BY CatAlgebra
<1>2. Narrows(Cat(X, Cat(M, Z)), Cat(X, Cat(<<>>, Z))) BY <1>1, CatMiddle
<1> QED BY <1>1, <1>2

LEMMA HeadAndTail ==
    ASSUME NEW s \in Seq(Token), s # <<>>
    PROVE  /\ <<Head(s)>> \in Seq(Token) /\ Tail(s) \in Seq(Token)
           /\ s = Cat(<<Head(s)>>, Tail(s))
<1>1. Head(s) \in Token /\ Tail(s) \in Seq(Token) BY HeadTailProperties
<1>2. <<Head(s)>> \in Seq(Token) BY <1>1
<1>3. s = <<Head(s)>> \o Tail(s)
  <2>1. Len(s) \in Nat \ {0} BY EmptySeq
  <2>2. PICK u : u = <<Head(s)>> \o Tail(s) OBVIOUS
  <2>3. PICK n \in Nat : n = Len(Tail(s)) /\ Len(s) = n + 1 BY <2>1, HeadTailProperties
  <2>4. <<Head(s)>>[1] = Head(s) /\ Len(<<Head(s)>>) = 1 OBVIOUS
  <2>5. u \in Seq(Token) /\ Chain(u, <<Head(s)>>, Tail(s), 1, n)
    BY <1>1, <1>2, <2>2, <2>3, <2>4, ConcatAt
  <2>6. Len(u) = Len(s) BY <2>3, <2>5 DEF Chain
  <2>7. s[1] = Head(s) /\ \A i \in 1..n : Tail(s)[i] = s[i + 1]
    BY <2>3, HeadTailProperties
  <2>8. ASSUME NEW i \in 1..(n + 1) PROVE s[i] = u[i]
    <3>1. CASE i = 1 BY <2>4, <2>5, <2>7, <3>1 DEF Chain
    <3>2. CASE i # 1
      <4>1. PICK k \in 1..n : i = 1 + k /\ i = k + 1
        <5>1. i - 1 \in 1..n /\ i = 1 + (i - 1) /\ i = (i - 1) + 1
          BY ONLY <3>2, n \in Nat, i \in 1..(n + 1)
        <5> QED BY <5>1
      <4> QED BY <2>5, <2>7, <4>1 DEF Chain
    <3> QED BY <3>1, <3>2
  <2> QED BY <2>2, <2>3, <2>5, <2>6, <2>8, SeqEqual
<1> QED BY <1>1, <1>2, <1>3 DEF Cat

\* A request that moves from one part to the next keeps its place.
LEMMA Moves ==
    ASSUME NEW a \in Seq(Token), NEW b \in Seq(Token), NEW d \in Seq(Token),
           NEW p \in Seq(Token), NEW q \in Seq(Token), NEW x \in Seq(Token)
    PROVE  /\ Joined(a, <<>>, <<>>, x, q) = Joined(a, <<>>, x, <<>>, q)
           /\ Joined(a, <<>>, <<>>, <<>>, Cat(x, q)) = Joined(a, <<>>, x, <<>>, q)
           /\ Joined(a, b, d, <<>>, Cat(x, q)) = Joined(a, b, Cat(d, x), <<>>, q)
           /\ Joined(a, b, d, <<>>, Cat(x, q)) = Joined(a, b, d, x, q)
           /\ Joined(Cat(a, b), <<>>, d, p, q) = Joined(a, b, d, p, q)
           /\ Joined(a, b, d, p, Cat(q, x)) = Cat(Joined(a, b, d, p, q), x)
<1>1. /\ Cat(x, q) \in Seq(Token) /\ Cat(<<>>, q) = q /\ Cat(<<>>, Cat(x, q)) = Cat(x, q)
      /\ Cat(<<>>, Cat(<<>>, Cat(x, q))) = Cat(x, q)
  BY CatAlgebra
<1>2. Joined(a, <<>>, <<>>, x, q) = Joined(a, <<>>, x, <<>>, q) BY <1>1 DEF Joined
<1>3. Joined(a, <<>>, <<>>, <<>>, Cat(x, q)) = Joined(a, <<>>, x, <<>>, q)
  BY <1>1 DEF Joined
<1>4. Joined(a, b, d, <<>>, Cat(x, q)) = Joined(a, b, d, x, q) BY <1>1 DEF Joined
<1>5. Joined(a, b, d, <<>>, Cat(x, q)) = Joined(a, b, Cat(d, x), <<>>, q)
  <2>1. Cat(d, Cat(x, q)) = Cat(Cat(d, x), q) BY CatAlgebra
  <2> QED BY <1>1, <2>1 DEF Joined
<1>6. Joined(Cat(a, b), <<>>, d, p, q) = Joined(a, b, d, p, q)
  <2>1. PICK t \in Seq(Token) : t = Cat(d, Cat(p, q)) BY CatAlgebra
  <2>2. Cat(<<>>, t) = t /\ Cat(Cat(a, b), t) = Cat(a, Cat(b, t)) BY <2>1, CatAlgebra
  <2> QED BY <2>1, <2>2 DEF Joined
<1>7. Joined(a, b, d, p, Cat(q, x)) = Cat(Joined(a, b, d, p, q), x)
  <2>1. PICK u \in Seq(Token), v \in Seq(Token), w \in Seq(Token) :
          u = Cat(p, q) /\ v = Cat(d, u) /\ w = Cat(b, v)
    BY CatAlgebra
  <2>2. Cat(p, Cat(q, x)) = Cat(u, x) BY <2>1, CatAlgebra
  <2>3. Cat(d, Cat(u, x)) = Cat(v, x) BY <2>1, CatAlgebra
  <2>4. Cat(b, Cat(v, x)) = Cat(w, x) BY <2>1, CatAlgebra
  <2>5. Cat(a, Cat(w, x)) = Cat(Cat(a, w), x) BY <2>1, CatAlgebra
  <2> QED BY <2>1, <2>2, <2>3, <2>4, <2>5 DEF Joined
<1> QED BY <1>2, <1>3, <1>4, <1>5, <1>6, <1>7

\* A request that is refused, a batch that fails, what an exit or a crash leaves behind: the
\* others keep their order.
LEMMA Losses ==
    ASSUME NEW a \in Seq(Token), NEW b \in Seq(Token), NEW d \in Seq(Token),
           NEW p \in Seq(Token), NEW q \in Seq(Token), NEW x \in Seq(Token)
    PROVE  /\ Narrows(Joined(a, b, d, p, q), Joined(a, <<>>, d, p, q))
           /\ Narrows(Joined(a, b, d, p, q), Joined(a, b, d, p, <<>>))
           /\ Narrows(Joined(a, b, d, p, q), Joined(a, b, <<>>, <<>>, <<>>))
           /\ Narrows(Joined(a, b, d, p, q), Joined(a, <<>>, <<>>, <<>>, <<>>))
           /\ Narrows(Joined(a, b, d, <<>>, Cat(x, q)), Joined(a, b, d, <<>>, q))
           /\ Narrows(Joined(a, b, Cat(x, d), p, q), Joined(a, b, d, p, q))
<1>1. PICK ab \in Seq(Token), abd \in Seq(Token), abdp \in Seq(Token),
           pq \in Seq(Token), dpq \in Seq(Token), bdpq \in Seq(Token) :
        /\ ab = Cat(a, b) /\ abd = Cat(ab, d) /\ abdp = Cat(abd, p)
        /\ pq = Cat(p, q) /\ dpq = Cat(d, pq) /\ bdpq = Cat(b, dpq)
  BY CatAlgebra
<1>2. /\ <<>> \in Seq(Token) /\ Cat(<<>>, <<>>) = <<>> /\ Cat(a, <<>>) = a /\ Cat(b, <<>>) = b
      /\ Cat(d, <<>>) = d /\ Cat(p, <<>>) = p /\ Cat(<<>>, dpq) = dpq /\ Cat(<<>>, q) = q
      /\ Cat(ab, <<>>) = ab /\ Cat(abdp, <<>>) = abdp /\ Cat(dpq, <<>>) = dpq
      /\ Cat(q, <<>>) = q /\ Cat(bdpq, <<>>) = bdpq
  BY CatAlgebra
<1>3. Joined(a, b, d, p, q) = Cat(a, Cat(b, dpq)) /\ Joined(a, <<>>, d, p, q) = Cat(a, dpq)
  BY <1>1, <1>2 DEF Joined
<1>4. Narrows(Joined(a, b, d, p, q), Joined(a, <<>>, d, p, q)) BY <1>3, Dropped
<1>5. Narrows(Joined(a, b, d, p, q), Joined(a, b, d, p, <<>>))
  <2>1. Joined(a, b, d, p, q) = Cat(abdp, Cat(q, <<>>))
    <3>1. Cat(abdp, q) = Cat(abd, pq) BY <1>1, CatAlgebra
    <3>2. Cat(abd, pq) = Cat(ab, dpq) BY <1>1, CatAlgebra
    <3>3. Cat(ab, dpq) = Cat(a, bdpq) BY <1>1, CatAlgebra
    <3> QED BY <1>1, <1>2, <1>3, <3>1, <3>2, <3>3
  <2>2. Joined(a, b, d, p, <<>>) = Cat(abdp, <<>>)
    <3>1. Cat(abd, p) = Cat(ab, Cat(d, p)) BY <1>1, CatAlgebra
    <3>2. Cat(d, p) \in Seq(Token) BY CatAlgebra
    <3>3. Cat(ab, Cat(d, p)) = Cat(a, Cat(b, Cat(d, p))) BY <1>1, <3>2, CatAlgebra
    <3> QED BY <1>1, <1>2, <3>1, <3>3 DEF Joined
  <2> QED BY <1>2, <2>1, <2>2, Dropped
<1>6. Narrows(Joined(a, b, d, p, q), Joined(a, b, <<>>, <<>>, <<>>))
  <2>1. Joined(a, b, d, p, q) = Cat(ab, Cat(dpq, <<>>))
    <3>1. Cat(a, Cat(b, dpq)) = Cat(ab, dpq) BY <1>1, CatAlgebra
    <3> QED BY <1>2, <1>3, <3>1
  <2>2. Joined(a, b, <<>>, <<>>, <<>>) = Cat(ab, <<>>) BY <1>1, <1>2 DEF Joined
  <2> QED BY <1>2, <2>1, <2>2, Dropped
<1>7. Narrows(Joined(a, b, d, p, q), Joined(a, <<>>, <<>>, <<>>, <<>>))
  <2>1. Joined(a, b, d, p, q) = Cat(a, Cat(bdpq, <<>>)) BY <1>1, <1>2, <1>3
  <2>2. Joined(a, <<>>, <<>>, <<>>, <<>>) = Cat(a, <<>>) BY <1>2 DEF Joined
  <2> QED BY <1>2, <2>1, <2>2, Dropped
<1>8. Narrows(Joined(a, b, d, <<>>, Cat(x, q)), Joined(a, b, d, <<>>, q))
  <2>4. Cat(x, q) \in Seq(Token) BY CatAlgebra
  <2>1. Cat(x, q) \in Seq(Token) /\ Cat(<<>>, Cat(x, q)) = Cat(x, q) BY <2>4, CatAlgebra
  <2>2. Joined(a, b, d, <<>>, Cat(x, q)) = Cat(abd, Cat(x, q))
    <3>1. Cat(a, Cat(b, Cat(d, Cat(x, q)))) = Cat(ab, Cat(d, Cat(x, q)))
      <4>1. Cat(d, Cat(x, q)) \in Seq(Token) BY <2>1, CatAlgebra
      <4> QED BY <1>1, <4>1, CatAlgebra
    <3>2. Cat(ab, Cat(d, Cat(x, q))) = Cat(abd, Cat(x, q)) BY <1>1, <2>1, CatAlgebra
    <3> QED BY <2>1, <3>1, <3>2 DEF Joined
  <2>3. Joined(a, b, d, <<>>, q) = Cat(abd, q)
    <3>1. Cat(a, Cat(b, Cat(d, q))) = Cat(ab, Cat(d, q))
      <4>1. Cat(d, q) \in Seq(Token) BY CatAlgebra
      <4> QED BY <1>1, <4>1, CatAlgebra
    <3>2. Cat(ab, Cat(d, q)) = Cat(abd, q) BY <1>1, CatAlgebra
    <3> QED BY <1>2, <3>1, <3>2 DEF Joined
  <2> QED BY <2>2, <2>3, Dropped
<1>9. Narrows(Joined(a, b, Cat(x, d), p, q), Joined(a, b, d, p, q))
  <2>1. Joined(a, b, Cat(x, d), p, q) = Cat(ab, Cat(x, dpq))
    <3>1. Cat(Cat(x, d), pq) = Cat(x, dpq) /\ Cat(x, dpq) \in Seq(Token)
      BY <1>1, CatAlgebra
    <3>2. Cat(a, Cat(b, Cat(x, dpq))) = Cat(ab, Cat(x, dpq)) BY <1>1, <3>1, CatAlgebra
    <3> QED BY <1>1, <3>1, <3>2 DEF Joined
  <2>2. Joined(a, b, d, p, q) = Cat(ab, dpq) BY <1>1, <1>3, CatAlgebra
  <2> QED BY <2>1, <2>2, Dropped
<1> QED BY <1>4, <1>5, <1>6, <1>7, <1>8, <1>9

\* An accepted request stands in the batch once per record.
LEMMA Repeats ==
    ASSUME NEW a \in Seq(Token), NEW b \in Seq(Token), NEW d \in Seq(Token),
           NEW p \in Seq(Token), NEW q \in Seq(Token), NEW x \in Seq(Token), NEW y \in Seq(Token),
           Len(x) = 1, \A i \in 1..Len(y) : y[i] = x[1]
    PROVE  Narrows(Joined(a, b, Cat(x, d), p, q), Joined(a, Cat(b, y), d, p, q))
<1>1. PICK ab \in Seq(Token), pq \in Seq(Token), dpq \in Seq(Token) :
        ab = Cat(a, b) /\ pq = Cat(p, q) /\ dpq = Cat(d, pq)
  BY CatAlgebra
<1>2. Joined(a, b, Cat(x, d), p, q) = Cat(ab, Cat(x, dpq))
  <2>1. Cat(Cat(x, d), pq) = Cat(x, dpq) /\ Cat(x, dpq) \in Seq(Token) BY <1>1, CatAlgebra
  <2>2. Cat(a, Cat(b, Cat(x, dpq))) = Cat(ab, Cat(x, dpq)) BY <1>1, <2>1, CatAlgebra
  <2> QED BY <1>1, <2>1, <2>2 DEF Joined
<1>3. Joined(a, Cat(b, y), d, p, q) = Cat(ab, Cat(y, dpq))
  <2>1. Cat(Cat(b, y), dpq) = Cat(b, Cat(y, dpq)) /\ Cat(y, dpq) \in Seq(Token)
    BY <1>1, CatAlgebra
  <2>2. Cat(a, Cat(b, Cat(y, dpq))) = Cat(ab, Cat(y, dpq)) BY <1>1, <2>1, CatAlgebra
  <2> QED BY <1>1, <2>1, <2>2 DEF Joined
<1>4. PICK r : Len(x) = 1 /\ x[1] = r /\ \A i \in 1..Len(y) : y[i] = r OBVIOUS
<1>5. Narrows(Cat(ab, Cat(x, dpq)), Cat(ab, Cat(y, dpq))) BY <1>4, CatMiddle
<1> QED BY <1>2, <1>3, <1>5

\* The same parts after a step.
LEMMA LinePartsNext == TypeInv' => LineIsParts'
BY LineParts, PTL

\* Outside a drain nothing is drawn.
LEMMA StepDrainPhases == TypeInv /\ DrainPhases /\ [Next]_vars => DrainPhases'
<1> SUFFICES ASSUME TypeInv, DrainPhases, [Next]_vars PROVE DrainPhases'
  OBVIOUS
<1> USE DEF DrainPhases, callerVars, drainVars, batchVars, logVars
<1>1. CASE \E r \in Req : Submit(r) BY <1>1 DEF Submit
<1>2. CASE TakePushback \/ ReceiveFirst BY <1>2 DEF TakePushback, ReceiveFirst, Start
<1>3. CASE DrainOne BY <1>3 DEF DrainOne
<1>4. CASE SendShutdown \/ ReceiveShutdown \/ DrainEnd \/ EvaluateEnd \/ RejectTooLarge
            \/ FitsActive \/ Rollover \/ RolloverFails \/ Commit \/ CommitMisplaced \/ CommitFails
  BY <1>4 DEF SendShutdown, ReceiveShutdown, DrainEnd, EvaluateEnd, RejectTooLarge,
      FitsActive, Rollover, RolloverFails, Commit, CommitMisplaced, CommitFails
<1>5. CASE Evaluate BY <1>5 DEF Evaluate
<1>6. CASE FeedIndex \/ PublishSegments \/ PublishWatermark \/ ReplyOne \/ ReplyEnd \/ GoRound
            \/ Exit \/ Crash \/ Restart
  BY <1>6 DEF FeedIndex, PublishSegments, PublishWatermark, ReplyOne, ReplyEnd, GoRound,
      Exit, Crash, Restart
<1>7. CASE UNCHANGED vars BY <1>7 DEF vars
<1> QED BY <1>1, <1>2, <1>3, <1>4, <1>5, <1>6, <1>7 DEF Next, Worker

\* A line that is only cut, or that only grows at its end, stays in order.
Ordered(L, K) == Apart(K) /\ Keeps(L, K)

LEMMA OrderedWhen ==
    ASSUME NEW L, Apart(L), NEW K, Narrows(L, K) \/ K = L
    PROVE  Ordered(L, K)
<1>1. Narrows(L, L) BY DEF Narrows
<1> QED BY <1>1, NarrowStays DEF Ordered

\* Who is in neither part is not in the whole.
LEMMA NotInConcat ==
    ASSUME NEW s \in Seq(Token), NEW t \in Seq(Token), NEW x, ~ Within(s, x), ~ Within(t, x)
    PROVE  ~ Within(Cat(s, t), x)
<1>1. PICK m \in Nat, n \in Nat : m = Len(s) /\ n = Len(t) BY LenProperties
<1>2. PICK u : u = s \o t OBVIOUS
<1>3. Chain(u, s, t, m, n) BY <1>1, <1>2, ConcatAt
<1>4. ASSUME NEW i \in 1..(m + n) PROVE u[i] # x
  <2>1. CASE i \in 1..m BY <1>1, <1>3, <2>1 DEF Chain, Within
  <2>2. CASE i \notin 1..m
    <3>1. PICK k \in 1..n : i = m + k
      <4>1. i - m \in 1..n /\ i = m + (i - m)
        BY ONLY <2>2, m \in Nat, n \in Nat, i \in 1..(m + n)
      <4> QED BY <4>1
    <3> QED BY <1>1, <1>3, <3>1 DEF Chain, Within
  <2> QED BY <2>1, <2>2
<1> QED BY <1>2, <1>3, <1>4 DEF Chain, Within, Cat

\* A caller joins at the end of the line.
LEMMA JoinsLast ==
    ASSUME TypeInv, LineIsParts, LineIsParts', Apart(Line), NEW x \in Token,
           x \in Req => ~ Waiting(x) /\ Absent(log, x) /\ Absent(staged, x),
           queue' = Append(queue, x), UNCHANGED <<log, staged, drained, pushback, pc>>
    PROVE  Ordered(Line, Line')
<1>1. PICK a \in Seq(Token), b \in Seq(Token), d \in Seq(Token), p \in Seq(Token),
           q \in Seq(Token) :
        /\ a = Requests(log) /\ b = Batched /\ d = drained /\ p = pushback /\ q = queue
        /\ Line = Joined(a, b, d, p, q)
  BY DEF LineIsParts
<1>2. PICK u \in Seq(Token) : u = <<x>>
  <2>1. <<x>> \in Seq(Token) OBVIOUS
  <2> QED BY <2>1
<1>3. queue' = Cat(q, u) BY <1>1, <1>2, AppendIsConcat DEF Cat
<1>4. Line' = Joined(a, b, d, p, Cat(q, u))
  BY <1>1, <1>3 DEF LineIsParts, Requests, Batched, Uncommitted
<1>5. Line' = Cat(Line, u)
  <2>1. Joined(a, b, d, p, Cat(q, u)) = Cat(Joined(a, b, d, p, q), u) BY Moves, SMTT(40)
  <2> QED BY <1>1, <1>4, <2>1
<1>6. Line \in Seq(Token) BY <1>1, CatAlgebra DEF Joined
<1>7. x \in Req => ~ Within(Line, x)
  <2> SUFFICES ASSUME x \in Req PROVE ~ Within(Line, x)
    OBVIOUS
  <2>1. ~ Within(q, x) /\ ~ Within(p, x) /\ ~ Within(d, x)
    BY <1>1 DEF Within, Waiting, Queued, Deferred, Drawn
  <2>2. ~ Within(a, x) /\ ~ Within(b, x)
    <3>1. log \in Seq(Record) /\ staged \in Seq(Record)
      BY DEF TypeInv, TypeOK, LogOK, BatchOK
    <3>2. ~ Within(Requests(log), x) /\ ~ Within(Requests(staged), x)
      BY <3>1, RequestsType DEF Within, Absent
    <3>3. ~ Within(<<>>, x) BY DEF Within
    <3> QED BY <1>1, <3>2, <3>3 DEF Batched
  <2>3. \A s, t \in Seq(Token) : ~ Within(s, x) /\ ~ Within(t, x) => ~ Within(Cat(s, t), x)
    BY NotInConcat
  <2>4. Cat(p, q) \in Seq(Token) /\ Cat(d, Cat(p, q)) \in Seq(Token)
          /\ Cat(b, Cat(d, Cat(p, q))) \in Seq(Token)
    BY CatAlgebra
  <2> QED BY <1>1, <2>1, <2>2, <2>3, <2>4 DEF Joined
<1> QED BY <1>2, <1>5, <1>6, <1>7, AppendOrder DEF Cat, Ordered

\* What a crash brings back joins behind the log, and none of it stood in the line.
LEMMA JoinsLog ==
    ASSUME NEW L, NEW a \in Seq(Token), NEW e \in Seq(Token), NEW K, K = Cat(a, e),
           Apart(L), Narrows(L, a), Apart(e),
           \A r \in Req : Within(a, r) => Within(L, r),
           \A r \in Req : Within(e, r) => ~ Within(L, r)
    PROVE  Ordered(L, K)
<1>1. PICK m \in Nat, n \in Nat : m = Len(a) /\ n = Len(e) BY LenProperties
<1>2. Len(K) = m + n /\ (\A i \in 1..m : K[i] = a[i]) /\ (\A i \in 1..n : K[m + i] = e[i])
  BY <1>1, ConcatAt DEF Cat, Chain
<1>3. ASSUME NEW r \in Req, NEW s \in Req, r # s, Before(K, r, s)
      PROVE  \/ Before(a, r, s) /\ Within(a, r) /\ Within(a, s)
             \/ Before(e, r, s) /\ Within(e, r) /\ Within(e, s)
             \/ Within(a, r) /\ Within(e, s)
  <2>1. PICK i \in 1..(m + n), j \in 1..(m + n) : i < j /\ K[i] = r /\ K[j] = s
    BY <1>2, <1>3 DEF Before
  <2>2. CASE i \in 1..m /\ j \in 1..m
    BY <1>1, <1>2, <2>1, <2>2 DEF Before, Within
  <2>3. CASE i \in 1..m /\ j \notin 1..m
    <3>1. PICK k \in 1..n : j = m + k
      <4>1. j - m \in 1..n /\ j = m + (j - m)
        BY ONLY <2>3, m \in Nat, n \in Nat, j \in 1..(m + n)
      <4> QED BY <4>1
    <3> QED BY <1>1, <1>2, <2>1, <2>3, <3>1 DEF Within
  <2>4. CASE i \notin 1..m
    <3>1. PICK k \in 1..n, l \in 1..n : i = m + k /\ j = m + l /\ k < l
      <4>1. /\ i - m \in 1..n /\ i = m + (i - m)
            /\ j - m \in 1..n /\ j = m + (j - m) /\ i - m < j - m
        BY ONLY <2>1, <2>4, m \in Nat, n \in Nat, i \in 1..(m + n), j \in 1..(m + n)
      <4> QED BY <4>1
    <3> QED BY <1>1, <1>2, <2>1, <3>1 DEF Before, Within
  <2> QED BY <2>2, <2>3, <2>4
<1>4. Keeps(L, K) BY <1>3 DEF Keeps, Narrows
<1>5. ASSUME NEW r \in Req, NEW s \in Req, r # s, Before(K, r, s), Before(K, s, r) PROVE FALSE
  <2>1. \/ Before(a, r, s) /\ Before(a, s, r)
        \/ Before(e, r, s) /\ Before(e, s, r)
    BY <1>3, <1>5
  <2> QED BY <1>5, <2>1 DEF Apart, Narrows
<1> QED BY <1>4, <1>5 DEF Apart, Ordered

\* Who waits, or has a record in the batch or on the log, has none in what remains.
LEMMA RemainsApart ==
    ASSUME TypeInv, LineIsParts, StoreInv, RemainsInv, NEW r \in Req,
           Within(Requests(remains.records), r)
    PROVE  ~ Within(Line, r)
<1>1. /\ log \in Seq(Record) /\ staged \in Seq(Record) /\ remains.records \in Seq(Record)
  BY RemainsTypes DEF TypeInv, TypeOK, LogOK, BatchOK
<1>2. PICK k \in 1..Len(remains.records) : remains.records[k].req = r
  BY <1>1, RequestsType DEF Within
<1>3. reply[r] = Err("log") \/ OwedAnError(r) BY <1>2 DEF RemainsInv
<1>4. ~ Waiting(r)
  BY <1>3 DEF StoreInv, WaitingUntouched, Untouched, OwedAnError, Err, None
<1>5. ~ Within(queue, r) /\ ~ Within(pushback, r) /\ ~ Within(drained, r)
  BY <1>4 DEF Within, Waiting, Queued, Deferred, Drawn
<1>6. ~ Within(Batched, r)
  <2> SUFFICES ASSUME Within(Batched, r) PROVE FALSE
    OBVIOUS
  <2>1. Uncommitted /\ Within(Requests(staged), r)
    <3>1. ~ Within(<<>>, r) BY DEF Within
    <3> QED BY <3>1 DEF Batched
  <2>2. PICK i \in 1..Len(staged) : staged[i].req = r BY <1>1, <2>1, RequestsType DEF Within
  <2>3. Granted(r) BY <2>1, <2>2 DEF StoreInv, BatchPlaced
  <2>4. reply[r] = None BY <2>3 DEF StoreInv, GrantsOpen, Granted
  <2> QED BY <1>3, <2>1, <2>4 DEF OwedAnError, FailedBatch, Uncommitted, Err, None
<1>7. ~ Within(Requests(log), r)
  <2>1. PICK g \in Grant : /\ g.req = r /\ g.first > Len(log)
                           /\ PlacedIn(log \o remains.records, g)
    BY <1>2 DEF RemainsInv, PlacedBeyond
  <2>2. g.first \in Nat /\ Len(log) \in Nat BY <1>1 DEF Grant
  <2>3. \A p \in 1..Len(log) : /\ p \in 1..Len(log \o remains.records)
                              /\ (log \o remains.records)[p] = log[p]
    BY <1>1, ConcatProperties
  <2>4. Absent(log, r) BY <2>1, <2>2, <2>3 DEF PlacedIn, Absent
  <2> QED BY <1>1, <2>4, RequestsType DEF Within, Absent
<1>8. PICK a \in Seq(Token), b \in Seq(Token), d \in Seq(Token), p \in Seq(Token),
           q \in Seq(Token) :
        /\ a = Requests(log) /\ b = Batched /\ d = drained /\ p = pushback /\ q = queue
        /\ Line = Joined(a, b, d, p, q)
  BY DEF LineIsParts
<1>9. \A s, u \in Seq(Token) : ~ Within(s, r) /\ ~ Within(u, r) => ~ Within(Cat(s, u), r)
  BY NotInConcat
<1>10. Cat(p, q) \in Seq(Token) /\ Cat(d, Cat(p, q)) \in Seq(Token)
         /\ Cat(b, Cat(d, Cat(p, q))) \in Seq(Token)
  BY CatAlgebra
<1> QED BY <1>5, <1>6, <1>7, <1>8, <1>9, <1>10 DEF Joined

\* The first request of a drain comes from the front of the line.
LEMMA TakeKeepsLine ==
    ASSUME TypeInv, LineIsParts, LineIsParts', StoreInv, DrainPhases, TakePushback \/ ReceiveFirst
    PROVE  Line' = Line
<1>1. PICK a \in Seq(Token), p \in Seq(Token), q \in Seq(Token) :
        a = Requests(log) /\ p = pushback /\ q = queue
  BY DEF LineIsParts
<1>2. /\ pc = "recv" /\ Batched = <<>> /\ drained = <<>>
  BY DEF TakePushback, ReceiveFirst, Batched, Uncommitted, DrainPhases
<1>3. staged' = <<>> /\ UNCHANGED log /\ Batched' = <<>>
  <2>1. staged' = <<>> /\ UNCHANGED log BY DEF TakePushback, ReceiveFirst, Start, logVars
  <2>2. Requests(<<>>) = <<>> BY DEF Requests
  <2> QED BY <2>1, <2>2 DEF Batched
<1>4. Line = Joined(a, <<>>, <<>>, p, q) BY <1>1, <1>2 DEF LineIsParts
<1>5. CASE TakePushback
  <2>1. Len(p) = 1 /\ p # <<>>
    <3>1. Len(p) \in Nat /\ Len(p) <= 1 /\ Len(p) # 0
      BY <1>1, <1>5, EmptySeq DEF TakePushback, StoreInv, WaitsOnce
    <3>2. p # <<>> BY <1>1, <1>5 DEF TakePushback
    <3>3. PICK n \in Nat : n = Len(p) /\ n <= 1 /\ n # 0 BY <3>1
    <3>4. n = 1 BY ONLY <3>3
    <3> QED BY <3>2, <3>3, <3>4
  <2>2. p = <<Head(p)>>
    <3>1. Head(p) = p[1] /\ <<Head(p)>> \in Seq(Token) /\ Len(<<Head(p)>>) = 1
            /\ <<Head(p)>>[1] = Head(p)
      BY <2>1, HeadTailProperties
    <3> QED BY <2>1, <3>1, SeqEqual
  <2>3. drained' = p /\ pushback' = <<>> /\ queue' = q
    BY <1>1, <1>5, <2>2 DEF TakePushback, Start
  <2>4. Line' = Joined(a, <<>>, p, <<>>, q) BY <1>1, <1>3, <2>3 DEF LineIsParts
  <2>5. Joined(a, <<>>, <<>>, p, q) = Joined(a, <<>>, p, <<>>, q) BY Moves
  <2> QED BY <1>4, <2>4, <2>5
<1>6. CASE ReceiveFirst
  <2>1. q # <<>> /\ p = <<>> BY <1>1, <1>6 DEF ReceiveFirst
  <2>2. PICK h \in Seq(Token), t \in Seq(Token) : h = <<Head(q)>> /\ t = Tail(q) /\ q = Cat(h, t)
    BY <2>1, HeadAndTail
  <2>3. drained' = h /\ pushback' = <<>> /\ queue' = t
    BY <1>1, <1>6, <2>1, <2>2 DEF ReceiveFirst, Start
  <2>4. Line' = Joined(a, <<>>, h, <<>>, t) BY <1>1, <1>3, <2>3 DEF LineIsParts
  <2>5. Joined(a, <<>>, <<>>, <<>>, Cat(h, t)) = Joined(a, <<>>, h, <<>>, t) BY Moves
  <2> QED BY <1>4, <2>1, <2>2, <2>4, <2>5
<1> QED BY <1>5, <1>6

\* Receiving the sentinel takes it out of the line; a request the drain receives is folded in or
\* deferred where it stood.
LEMMA DrainKeepsOrder ==
    ASSUME TypeInv, LineIsParts, LineIsParts', StoreInv, Apart(Line), DrainPhases,
           ReceiveShutdown \/ DrainOne
    PROVE  Ordered(Line, Line')
<1>1. PICK a \in Seq(Token), b \in Seq(Token), d \in Seq(Token), q \in Seq(Token) :
        a = Requests(log) /\ b = Batched /\ d = drained /\ q = queue
  BY DEF LineIsParts
<1>2. q # <<>> /\ pushback = <<>> BY <1>1 DEF ReceiveShutdown, DrainOne, DrainPhases
<1>3. PICK h \in Seq(Token), t \in Seq(Token) : h = <<Head(q)>> /\ t = Tail(q) /\ q = Cat(h, t)
  BY <1>2, HeadAndTail
<1>4. Line = Joined(a, b, d, <<>>, Cat(h, t)) BY <1>1, <1>2, <1>3 DEF LineIsParts
<1>5. queue' = t /\ UNCHANGED <<log, staged>>
  BY <1>1, <1>3 DEF ReceiveShutdown, DrainOne, batchVars, logVars
<1>6. Batched' = b
  <2>1. CASE ReceiveShutdown
    <3>1. pc = "recv" /\ pc' = "loop" BY <2>1 DEF ReceiveShutdown
    <3> QED BY <1>1, <3>1 DEF Batched, Uncommitted
  <2>2. CASE DrainOne
    <3>1. pc = "drain" /\ staged = <<>>
      BY <2>2 DEF DrainOne, StoreInv, BatchPlaced, Uncommitted, CommittedBatch, FailedBatch
    <3> QED BY <1>1, <1>5, <3>1 DEF Batched, Uncommitted, Requests
  <2> QED BY <2>1, <2>2
<1>7. CASE \/ ReceiveShutdown
           \/ DrainOne /\ UNCHANGED <<drained, pushback>>
  <2>1. Line' = Joined(a, b, d, <<>>, t)
    <3>1. UNCHANGED <<drained, pushback>> BY <1>7 DEF ReceiveShutdown
    <3> QED BY <1>1, <1>2, <1>5, <1>6, <3>1 DEF LineIsParts, Requests
  <2>2. Narrows(Joined(a, b, d, <<>>, Cat(h, t)), Joined(a, b, d, <<>>, t)) BY Losses
  <2> QED BY <1>4, <2>1, <2>2, OrderedWhen
<1>8. CASE drained' = Append(drained, Head(queue)) /\ UNCHANGED pushback
  <2>1. drained' = Cat(d, h) BY <1>1, <1>3, <1>8, AppendIsConcat DEF Cat
  <2>2. Line' = Joined(a, b, Cat(d, h), <<>>, t)
    BY <1>1, <1>2, <1>5, <1>6, <1>8, <2>1 DEF LineIsParts, Requests
  <2>3. Joined(a, b, d, <<>>, Cat(h, t)) = Joined(a, b, Cat(d, h), <<>>, t)
    BY Moves, SMTT(40)
  <2> QED BY <1>4, <2>2, <2>3, OrderedWhen
<1>9. CASE pushback' = <<Head(queue)>> /\ UNCHANGED drained
  <2>1. Line' = Joined(a, b, d, h, t)
    BY <1>1, <1>3, <1>5, <1>6, <1>9 DEF LineIsParts, Requests
  <2>2. Joined(a, b, d, <<>>, Cat(h, t)) = Joined(a, b, d, h, t) BY Moves, SMTT(40)
  <2> QED BY <1>4, <2>1, <2>2, OrderedWhen
<1>10. \/ ReceiveShutdown
       \/ DrainOne /\ UNCHANGED <<drained, pushback>>
       \/ drained' = Append(drained, Head(queue)) /\ UNCHANGED pushback
       \/ pushback' = <<Head(queue)>> /\ UNCHANGED drained
  BY DEF DrainOne
<1> QED BY <1>7, <1>8, <1>9, <1>10

\* An evaluated request leaves the line or becomes its records, in place.
LEMMA EvaluateKeepsOrder ==
    ASSUME TypeInv, LineIsParts, LineIsParts', Apart(Line), Evaluate
    PROVE  Ordered(Line, Line')
<1>1. PICK a \in Seq(Token), b \in Seq(Token), d \in Seq(Token), p \in Seq(Token),
           q \in Seq(Token) :
        a = Requests(log) /\ b = Requests(staged) /\ d = drained /\ p = pushback /\ q = queue
  BY DEF LineIsParts
<1>2. pc = "eval" /\ pc' = "eval" /\ d # <<>> /\ Batched = b /\ Batched' = Requests(staged')
  BY <1>1 DEF Evaluate, Batched, Uncommitted, Requests
<1>3. PICK x \in Seq(Token), t \in Seq(Token) : x = <<Head(d)>> /\ t = Tail(d) /\ d = Cat(x, t)
  BY <1>2, HeadAndTail
<1>4. Line = Joined(a, b, Cat(x, t), p, q) BY <1>1, <1>2, <1>3 DEF LineIsParts
<1>5. drained' = t /\ UNCHANGED <<log, pushback, queue>>
  BY <1>1, <1>3 DEF Evaluate, logVars
<1>6. CASE UNCHANGED staged
  <2>1. Line' = Joined(a, b, t, p, q) BY <1>1, <1>2, <1>5, <1>6 DEF LineIsParts, Requests
  <2>2. Narrows(Joined(a, b, Cat(x, t), p, q), Joined(a, b, t, p, q)) BY Losses
  <2> QED BY <1>4, <2>1, <2>2, OrderedWhen
<1>7. CASE staged' = staged \o RecordsOf(Head(drained))
  <2>1. PICK r \in Req : r = Head(drained)
    BY <1>1, <1>2, HeadTail DEF TypeInv, TypeOK, DrainOK
  <2>2. /\ RecordsOf(r) \in Seq(Record) /\ staged \in Seq(Record)
        /\ \A i \in 1..Len(RecordsOf(r)) : RecordsOf(r)[i].req = r
    BY RecordsOfType DEF TypeInv, TypeOK, BatchOK
  <2>3. PICK y \in Seq(Token) :
          /\ y = Requests(RecordsOf(r)) /\ Len(y) = Len(RecordsOf(r))
          /\ \A i \in 1..Len(y) : y[i] = r
    BY <2>2, RequestsType
  <2>4. Requests(staged') = Cat(b, y)
    BY <1>1, <1>7, <2>1, <2>2, <2>3, RequestsConcat DEF Cat
  <2>5. Line' = Joined(a, Cat(b, y), t, p, q)
    BY <1>1, <1>2, <1>5, <2>4 DEF LineIsParts, Requests
  <2>6. Len(x) = 1 /\ x[1] = r BY <1>1, <1>3, <2>1
  <2>7. \A i \in 1..Len(y) : y[i] = x[1] BY <2>3, <2>6
  <2>8. Narrows(Joined(a, b, Cat(x, t), p, q), Joined(a, Cat(b, y), t, p, q))
    BY <2>6, <2>7, Repeats
  <2> QED BY <1>4, <2>5, <2>8, OrderedWhen
<1>8. UNCHANGED staged \/ staged' = staged \o RecordsOf(Head(drained))
  BY DEF Evaluate, RejectAfterBeyondTip, RejectConflict, RejectError, Accept, Stage
<1> QED BY <1>6, <1>7, <1>8

\* A batch that fails and an exit only cut the line. So does a crash, which may put what remains of
\* a failed batch behind the log.
LEMMA CutsKeepOrder ==
    ASSUME TypeInv, LineIsParts, LineIsParts', StoreInv, RemainsInv, LineInv,
           RejectTooLarge \/ RolloverFails \/ CommitFails \/ CommitMisplaced \/ Exit \/ Crash
    PROVE  Ordered(Line, Line')
<1>1. PICK a \in Seq(Token), b \in Seq(Token), d \in Seq(Token), p \in Seq(Token),
           q \in Seq(Token) :
        /\ a = Requests(log) /\ b = Batched /\ d = drained /\ p = pushback /\ q = queue
        /\ Line = Joined(a, b, d, p, q)
  BY DEF LineIsParts
<1>5. Apart(Line) /\ DrainPhases /\ Apart(Requests(remains.records)) BY DEF LineInv
<1>2. CASE RejectTooLarge \/ RolloverFails \/ CommitFails \/ CommitMisplaced
  <2>1. pc' \in {"reply", "astray"} /\ UNCHANGED <<log, drained, pushback, queue>>
    BY <1>2 DEF RejectTooLarge, RolloverFails, CommitFails, CommitMisplaced, drainVars, logVars
  <2>2. Line' = Joined(a, <<>>, d, p, q)
    BY <1>1, <2>1 DEF LineIsParts, Requests, Batched, Uncommitted
  <2>3. Narrows(Joined(a, b, d, p, q), Joined(a, <<>>, d, p, q)) BY Losses
  <2> QED BY <1>1, <1>5, <2>2, <2>3, OrderedWhen
<1>3. CASE Exit
  <2>1. pc = "loop" /\ pc' = "exited" /\ UNCHANGED <<log, drained, pushback>> /\ queue' = <<>>
    BY <1>3 DEF Exit, logVars
  <2>2. Line' = Joined(a, b, d, p, <<>>)
    BY <1>1, <2>1 DEF LineIsParts, Requests, Batched, Uncommitted
  <2>3. Narrows(Joined(a, b, d, p, q), Joined(a, b, d, p, <<>>)) BY Losses
  <2> QED BY <1>1, <1>5, <2>2, <2>3, OrderedWhen
<1>4. CASE Crash
  <2>1. /\ pc' \in {"down", "astray"} /\ drained' = <<>> /\ pushback' = <<>> /\ queue' = <<>>
        /\ \/ log' = log
           \/ pc = "commit" /\ log' = log \o staged
           \/ log' = log \o remains.records
    BY <1>4 DEF Crash
  <2>2. Line' = Joined(Requests(log'), <<>>, <<>>, <<>>, <<>>)
    BY <2>1 DEF LineIsParts, Batched, Uncommitted
  <2>3. CASE log' = log
    <3>1. Narrows(Joined(a, b, d, p, q), Joined(a, <<>>, <<>>, <<>>, <<>>)) BY Losses
    <3> QED BY <1>1, <1>5, <2>2, <2>3, <3>1, OrderedWhen
  <2>4. CASE pc = "commit" /\ log' = log \o staged
    <3>1. Requests(log') = Cat(a, b)
      <4>1. log \in Seq(Record) /\ staged \in Seq(Record)
        BY DEF TypeInv, TypeOK, LogOK, BatchOK
      <4>2. b = Requests(staged) BY <1>1, <2>4 DEF Batched, Uncommitted
      <4> QED BY <1>1, <2>4, <4>1, <4>2, RequestsConcat DEF Cat
    <3>2. PICK e \in Seq(Token) : e = <<>> BY CatAlgebra
    <3>5. Joined(Cat(a, b), <<>>, e, e, e) = Joined(a, b, e, e, e) BY Moves, SMTT(40)
    <3>3. Joined(Cat(a, b), <<>>, <<>>, <<>>, <<>>) = Joined(a, b, <<>>, <<>>, <<>>)
      BY <3>2, <3>5
    <3>4. Narrows(Joined(a, b, d, p, q), Joined(a, b, <<>>, <<>>, <<>>)) BY Losses
    <3> QED BY <1>1, <1>5, <2>2, <3>1, <3>3, <3>4, OrderedWhen
  <2>5. CASE log' = log \o remains.records
    <3>1. remains.records \in Seq(Record) /\ log \in Seq(Record)
      BY RemainsTypes DEF TypeInv, TypeOK, LogOK
    <3>2. PICK e \in Seq(Token) : e = Requests(remains.records) BY <3>1, RequestsType
    <3>3. Requests(log') = Cat(a, e)
      BY <1>1, <2>5, <3>1, <3>2, RequestsConcat DEF Cat
    <3>4. /\ Joined(Cat(a, e), <<>>, <<>>, <<>>, <<>>) = Cat(a, e)
          /\ Joined(a, <<>>, <<>>, <<>>, <<>>) = a
      <4>1. Cat(<<>>, <<>>) = <<>> /\ Cat(a, e) \in Seq(Token) BY CatAlgebra
      <4>2. Cat(Cat(a, e), <<>>) = Cat(a, e) /\ Cat(a, <<>>) = a BY <4>1, CatAlgebra
      <4> QED BY <4>1, <4>2 DEF Joined
    <3>5. Narrows(Line, a)
      <4>1. Narrows(Joined(a, b, d, p, q), Joined(a, <<>>, <<>>, <<>>, <<>>)) BY Losses
      <4> QED BY <1>1, <3>4, <4>1
    <3>6. \A r \in Req : Within(a, r) => Within(Line, r)
      <4>1. PICK z \in Seq(Token) : z = Cat(b, Cat(d, Cat(p, q))) BY CatAlgebra
      <4>2. Line = a \o z BY <1>1, <4>1 DEF Joined, Cat
      <4>3. Len(Line) = Len(a) + Len(z) /\ \A i \in 1..Len(a) : Line[i] = a[i]
        BY <4>2, ConcatProperties
      <4>4. Len(a) \in Nat /\ Len(z) \in Nat BY LenProperties
      <4> QED BY <4>3, <4>4 DEF Within
    <3>7. \A r \in Req : Within(e, r) => ~ Within(Line, r) BY <3>2, RemainsApart
    <3>8. Line' = Cat(a, e) BY <2>2, <3>3, <3>4
    <3> QED BY <1>5, <3>2, <3>5, <3>6, <3>7, <3>8, JoinsLog
  <2> QED BY <2>1, <2>3, <2>4, <2>5
<1> QED BY <1>2, <1>3, <1>4

\* What remains of a failed batch is in order, as the batch was.
LEMMA RemainsOrdered ==
    ASSUME TypeInv, LineIsParts, LineInv, [Next]_vars
    PROVE  Apart(Requests(remains'.records))
<1>1. CASE remains'.records = <<>>
  <2>1. Len(Requests(<<>>)) = 0 BY DEF Requests
  <2> QED BY <1>1, <2>1 DEF Apart, Before
<1>2. CASE CommitFails /\ remains'.records = staged
  <2>1. PICK a \in Seq(Token), b \in Seq(Token), d \in Seq(Token), p \in Seq(Token),
             q \in Seq(Token) : b = Batched /\ Line = Joined(a, b, d, p, q)
    BY DEF LineIsParts
  <2>2. b = Requests(staged) BY <1>2, <2>1 DEF CommitFails, Batched, Uncommitted
  <2>3. Apart(Joined(a, b, <<>>, <<>>, <<>>))
    <3>1. Narrows(Joined(a, b, d, p, q), Joined(a, b, <<>>, <<>>, <<>>)) BY Losses
    <3> QED BY <2>1, <3>1, NarrowStays DEF LineInv
  <2>4. /\ Joined(a, b, <<>>, <<>>, <<>>) = Cat(<<>>, Cat(a, b))
        /\ Cat(<<>>, b) = b /\ <<>> \in Seq(Token)
    <3>1. Cat(<<>>, <<>>) = <<>> /\ Cat(b, <<>>) = b /\ Cat(a, b) \in Seq(Token)
            /\ <<>> \in Seq(Token) /\ Cat(<<>>, b) = b
      BY CatAlgebra
    <3>2. Cat(<<>>, Cat(a, b)) = Cat(a, b) BY <3>1, CatAlgebra
    <3> QED BY <3>1, <3>2 DEF Joined
  <2>5. Narrows(Cat(<<>>, Cat(a, b)), Cat(<<>>, b)) BY <2>4, Dropped
  <2>6. Apart(b) BY <2>3, <2>4, <2>5, NarrowStays
  <2> QED BY <1>2, <2>2, <2>6
<1>3. CASE remains'.records = remains.records BY <1>3 DEF LineInv
<1> QED BY <1>1, <1>2, <1>3, RemainsChange

\* No step puts anyone in front of someone who stands in the line.
LEMMA StepLine ==
    ASSUME TypeInv, TypeInv', Frozen, StoreInv, RemainsInv, LineInv, [Next]_vars
    PROVE  Ordered(Line, Line')
<1>1. LineIsParts /\ LineIsParts' /\ DrainPhases /\ Apart(Line)
  BY LineParts, LinePartsNext DEF LineInv
<1> USE DEF callerVars, drainVars, batchVars, logVars
<1>2. CASE \E r \in Req : Submit(r)
  <2>1. PICK r \in Req : Submit(r) BY <1>2
  <2>2. UNCHANGED <<log, staged, drained, pushback, pc>>
        /\ (queue' = queue \/ queue' = Append(queue, r))
    BY <2>1 DEF Submit
  <2>3. r \in Token /\ ~ Waiting(r) /\ Absent(log, r) /\ Absent(staged, r)
    BY <2>1, FreshIsNowhere DEF Submit, Token
  <2>4. CASE queue' = queue
    <3>1. Line' = Line BY <1>1, <2>2, <2>4 DEF LineIsParts, Requests, Batched, Uncommitted
    <3> QED BY <1>1, <3>1, OrderedWhen
  <2> QED BY <1>1, <2>2, <2>3, <2>4, JoinsLast
<1>3. CASE SendShutdown
  <2>1. queue' = Append(queue, Shutdown) /\ UNCHANGED <<log, staged, drained, pushback, pc>>
    BY <1>3 DEF SendShutdown
  <2>2. Shutdown \in Token /\ Shutdown \notin Req BY ConstantsAssumption DEF Token
  <2> QED BY <1>1, <2>1, <2>2, JoinsLast
<1>4. CASE TakePushback \/ ReceiveFirst
  <2>1. Line' = Line BY <1>1, <1>4, TakeKeepsLine
  <2> QED BY <1>1, <2>1, OrderedWhen
<1>5. CASE ReceiveShutdown \/ DrainOne BY <1>1, <1>5, DrainKeepsOrder
<1>6. CASE Evaluate BY <1>1, <1>6, EvaluateKeepsOrder
<1>7. CASE RejectTooLarge \/ RolloverFails \/ CommitFails \/ CommitMisplaced \/ Exit \/ Crash
  BY <1>1, <1>7, CutsKeepOrder
<1>8. CASE Commit
  <2>1. PICK a \in Seq(Token), b \in Seq(Token), d \in Seq(Token), p \in Seq(Token),
             q \in Seq(Token) :
          /\ a = Requests(log) /\ b = Batched /\ d = drained /\ p = pushback /\ q = queue
          /\ Line = Joined(a, b, d, p, q)
    BY <1>1 DEF LineIsParts
  <2>2. /\ pc = "commit" /\ pc' = "feed" /\ log' = log \o staged
        /\ UNCHANGED <<drained, pushback, queue>>
    BY <1>8 DEF Commit
  <2>3. Requests(log') = Cat(a, b)
    <3>1. log \in Seq(Record) /\ staged \in Seq(Record)
      BY DEF TypeInv, TypeOK, LogOK, BatchOK
    <3>2. b = Requests(staged) BY <2>1, <2>2 DEF Batched, Uncommitted
    <3> QED BY <2>1, <2>2, <3>1, <3>2, RequestsConcat DEF Cat
  <2>4. Line' = Joined(Cat(a, b), <<>>, d, p, q)
    BY <1>1, <2>1, <2>2, <2>3 DEF LineIsParts, Batched, Uncommitted
  <2>5. Joined(Cat(a, b), <<>>, d, p, q) = Joined(a, b, d, p, q) BY Moves
  <2> QED BY <1>1, <2>1, <2>4, <2>5, OrderedWhen
<1>9. CASE \/ DrainEnd \/ EvaluateEnd \/ FitsActive \/ Rollover \/ FeedIndex \/ PublishSegments
           \/ PublishWatermark \/ ReplyOne \/ ReplyEnd \/ GoRound \/ Restart \/ UNCHANGED vars
  <2>1. UNCHANGED <<log, drained, pushback, queue>>
    BY <1>9 DEF DrainEnd, EvaluateEnd, FitsActive, Rollover, FeedIndex, PublishSegments,
        PublishWatermark, ReplyOne, ReplyEnd, GoRound, Restart, vars
  <2>2. Batched' = Batched
    <3>1. CASE \/ FitsActive \/ Rollover \/ FeedIndex \/ PublishSegments
               \/ PublishWatermark \/ ReplyOne \/ ReplyEnd \/ GoRound \/ Restart
               \/ UNCHANGED vars
      <4>1. UNCHANGED staged \/ (~ Uncommitted /\ ~ Uncommitted')
        BY <3>1 DEF FitsActive, Rollover, FeedIndex, PublishSegments, PublishWatermark,
            ReplyOne, ReplyEnd, GoRound, Restart, vars, Uncommitted
      <4>2. Uncommitted' <=> Uncommitted
        BY <3>1 DEF FitsActive, Rollover, FeedIndex, PublishSegments, PublishWatermark,
            ReplyOne, ReplyEnd, GoRound, Restart, vars, Uncommitted
      <4> QED BY <4>1, <4>2 DEF Batched, Requests
    <3>2. CASE DrainEnd
      <4>1. pc = "drain" /\ staged = <<>> /\ UNCHANGED staged
        BY <3>2 DEF DrainEnd, StoreInv, BatchPlaced, Uncommitted, CommittedBatch, FailedBatch
      <4> QED BY <4>1 DEF Batched, Uncommitted, Requests
    <3>3. CASE EvaluateEnd
      <4>1. /\ pc = "eval" /\ UNCHANGED staged
            /\ pc' = IF staged = <<>> THEN "loop" ELSE "append"
        BY <3>3 DEF EvaluateEnd
      <4> QED BY <4>1 DEF Batched, Uncommitted, Requests
    <3> QED BY <1>9, <3>1, <3>2, <3>3
  <2>3. Line' = Line BY <1>1, <2>1, <2>2 DEF LineIsParts, Requests
  <2> QED BY <1>1, <2>3, OrderedWhen
<1> QED BY <1>2, <1>3, <1>4, <1>5, <1>6, <1>7, <1>8, <1>9 DEF Next, Worker

\* Nobody stands in the line at the start.
LEMMA InitLineInv == Init => LineInv
<1> SUFFICES ASSUME Init PROVE LineInv
  OBVIOUS
<1>1. DrainPhases BY DEF Init, DrainPhases
<1>2. Line = <<>>
  <2>1. /\ log = <<>> /\ staged = <<>> /\ drained = <<>> /\ pushback = <<>> /\ queue = <<>>
    BY DEF Init
  <2>2. [i \in DOMAIN <<>> |-> <<>>[i].req] = <<>> OBVIOUS
  <2> QED BY <2>1, <2>2 DEF Line
<1>3. Len(Line) = 0 BY <1>2
<1>4. Apart(Line) BY <1>3 DEF Apart, Before
<1>5. Apart(Requests(remains.records))
  <2>1. remains.records = <<>> BY DEF Init, Nowhere
  <2>2. Len(Requests(<<>>)) = 0 BY DEF Requests
  <2> QED BY <2>1, <2>2 DEF Apart, Before
<1> QED BY <1>1, <1>4, <1>5 DEF LineInv

\* The line stays in order, and the model's own words for it.
LEMMA AlwaysLineInv == Spec => []LineInv
<1>1. /\ TypeInv /\ TypeInv' /\ (Frozen /\ StoreInv) /\ RemainsInv /\ LineInv /\ [Next]_vars
      => LineInv'
  <2> SUFFICES ASSUME TypeInv, TypeInv', Frozen, StoreInv, RemainsInv, LineInv, [Next]_vars
               PROVE  LineInv'
    OBVIOUS
  <2>1. DrainPhases' BY StepDrainPhases DEF LineInv
  <2>2. Ordered(Line, Line') BY StepLine
  <2>3. Apart(Requests(remains'.records)) BY LineParts, RemainsOrdered
  <2>4. Apart(Requests(remains.records))' BY <2>3 DEF Requests, Apart, Before
  <2> QED BY <2>1, <2>2, <2>4 DEF LineInv, Ordered
<1> QED BY <1>1, InitLineInv, AlwaysTypeInv, AlwaysStoreInv, AlwaysRemainsInv, PTL DEF Spec

LEMMA AheadIsBefore ==
    TypeInv => \A r, s \in Req : Ahead(r, s) <=> Before(Line, r, s)
<1> SUFFICES ASSUME TypeInv PROVE \A r, s \in Req : Ahead(r, s) <=> Before(Line, r, s)
  OBVIOUS
<1>1. Line \in Seq(Token)
  <2>1. PICK a \in Seq(Token), b \in Seq(Token), d \in Seq(Token), p \in Seq(Token),
             q \in Seq(Token) : Line = Joined(a, b, d, p, q)
    BY LineParts DEF LineIsParts
  <2> QED BY <2>1, CatAlgebra DEF Joined
<1>2. DOMAIN Line = 1..Len(Line) BY <1>1
<1> QED BY <1>2 DEF Ahead, Before

\* Nobody is overtaken, deferred requests included: whatever is drained, deferred, refused,
\* committed, failed, answered or lost, no step turns around two requests that stood in the line.
THEOREM NobodyOvertakes == Spec => NoOvertaking
<1>1. TypeInv => \A r, s \in Req : Ahead(r, s) <=> Before(Line, r, s) BY AheadIsBefore
<1>2. TypeInv' => \A r, s \in Req : Ahead(r, s)' <=> Before(Line', r, s)
  <2>1. TypeInv' => (\A r, s \in Req : Ahead(r, s) <=> Before(Line, r, s))'
    BY AheadIsBefore, PTL
  <2> QED BY <2>1 DEF Before
<1>3. /\ TypeInv /\ TypeInv' /\ (Frozen /\ StoreInv) /\ RemainsInv /\ LineInv /\ [Next]_vars
      => [\A r, s \in Req : r # s /\ Ahead(r, s) => ~ Ahead(s, r)']_vars
  <2> SUFFICES ASSUME TypeInv, TypeInv', Frozen, StoreInv, RemainsInv, LineInv, [Next]_vars,
                      NEW r \in Req, NEW s \in Req, r # s, Ahead(r, s), Ahead(s, r)'
               PROVE  FALSE
    OBVIOUS
  <2>1. Before(Line, r, s) /\ Before(Line', s, r) BY <1>1, <1>2
  <2>2. Ordered(Line, Line') BY StepLine
  <2>3. Within(Line, r) /\ Within(Line, s) BY <2>1 DEF Before, Within
  <2>4. Before(Line, s, r) BY <2>1, <2>2, <2>3 DEF Ordered, Keeps
  <2> QED BY <2>1, <2>4 DEF LineInv, Apart
<1> QED
  BY <1>3, AlwaysTypeInv, AlwaysStoreInv, AlwaysRemainsInv, AlwaysLineInv, PTL
      DEF Spec, NoOvertaking
=============================================================================

-------------------------- MODULE SegmentLog_proofs --------------------------
\* Proofs about SegmentLog, for every capacity of a segment, every set of batches and every number
\* of faults and crashes.
EXTENDS SegmentLog, WellFoundedInduction, SequenceTheorems, TLAPS

--------------------
\* Induction over numbers, as the existence of least elements.

\* A nonempty set of numbers has a least element.
LEMMA NatLeast ==
    ASSUME NEW T, T \subseteq Nat, T # {}
    PROVE  \E n \in T : \A m \in T : n <= m
<1> DEFINE R == OpToRel(<, Nat)
<1>1. IsWellFoundedOn(R, Nat) BY NatLessThanWellFounded
<1>2. PICK n \in T : \A m \in T : ~ (<<m, n>> \in R)
  <2> HIDE DEF R
  <2> QED BY <1>1, WFMin
<1>3. \A a, b \in Nat : <<a, b>> \in R <=> a < b BY DEF OpToRel
<1>4. n \in Nat OBVIOUS
<1>5. ASSUME NEW m \in T PROVE n <= m
  <2> HIDE DEF R
  <2>1. ~ (m < n) BY <1>2, <1>3
  <2> QED BY <2>1, <1>4
<1> QED BY <1>5

\* A set of numbers that holds 0 and every successor up to n holds n.
LEMMA UpTo ==
    ASSUME NEW T, NEW n \in Nat, 0 \in T,
           \A i \in Nat : i < n /\ i \in T => i + 1 \in T
    PROVE  \A i \in 0 .. n : i \in T
<1> DEFINE Bad == {i \in 0 .. n : i \notin T}
<1> SUFFICES ASSUME Bad # {} PROVE FALSE
  OBVIOUS
<1>1. Bad \subseteq Nat OBVIOUS
<1>2. PICK i \in Bad : \A m \in Bad : i <= m
  <2> HIDE DEF Bad
  <2> QED BY <1>1, NatLeast
<1>3. i \in 0 .. n /\ i \notin T /\ i # 0 OBVIOUS
<1>4. i - 1 \in Nat /\ i - 1 < n /\ i - 1 \in 0 .. n /\ (i - 1) + 1 = i /\ ~ (i <= i - 1)
  BY <1>3
<1>5. i - 1 \notin T BY <1>3, <1>4
<1>6. i - 1 \in Bad BY <1>4, <1>5
<1> QED BY <1>2, <1>4, <1>6

\* Min of a set of numbers, and Max of a bounded one.
LEMMA MinIsLeast ==
    ASSUME NEW T, T \subseteq Nat, T # {}
    PROVE  Min(T) \in T /\ \A x \in T : Min(T) <= x
BY NatLeast DEF Min

LEMMA MaxIsGreatest ==
    ASSUME NEW T, T \subseteq Nat, T # {}, NEW n \in Nat, \A x \in T : x <= n
    PROVE  Max(T) \in T /\ \A x \in T : x <= Max(T)
<1> DEFINE Bounds == {m \in Nat : \A x \in T : x <= m}
<1>1. PICK m \in Bounds : \A k \in Bounds : m <= k
  <2>1. Bounds \subseteq Nat /\ n \in Bounds OBVIOUS
  <2> HIDE DEF Bounds
  <2> QED BY <2>1, NatLeast
<1>2. m \in Nat /\ \A x \in T : x <= m OBVIOUS
<1>3. m \in T
  <2> SUFFICES ASSUME m \notin T PROVE FALSE
    OBVIOUS
  <2>1. PICK t \in T : TRUE OBVIOUS
  <2>2. t \in Nat /\ t <= m /\ t # m BY <1>2
  <2>3. m - 1 \in Nat /\ ~ (m <= m - 1) BY <1>2, <2>2
  <2>4. \A x \in T : x <= m - 1
    <3> SUFFICES ASSUME NEW x \in T PROVE x <= m - 1
      OBVIOUS
    <3>1. x \in Nat /\ x <= m /\ x # m BY <1>2
    <3> QED BY <3>1, <1>2
  <2>5. m - 1 \in Bounds BY <2>3, <2>4
  <2> HIDE DEF Bounds
  <2> QED BY <1>1, <2>3, <2>5
<1>4. \A x \in T : m >= x BY <1>2
<1>5. \E x \in T : \A y \in T : x >= y BY <1>3, <1>4
<1>6. Max(T) \in T /\ \A y \in T : Max(T) >= y BY <1>5 DEF Max
<1> QED BY <1>6

--------------------
\* FlattenSeq. Its recursive function, whose existence comes first.
Chain(f, ss, n) == f = [i \in 1 .. n |-> IF i = 1 THEN ss[i] ELSE f[i - 1] \o ss[i]]

LEMMA ChainAt ==
    ASSUME NEW ss, NEW n \in Nat, NEW f, Chain(f, ss, n), NEW i \in 1 .. n
    PROVE  f[i] = IF i = 1 THEN ss[i] ELSE f[i - 1] \o ss[i]
<1> DEFINE g == [k \in 1 .. n |-> IF k = 1 THEN ss[k] ELSE f[k - 1] \o ss[k]]
<1>1. f = g BY DEF Chain
<1>2. g[i] = IF i = 1 THEN ss[i] ELSE f[i - 1] \o ss[i] OBVIOUS
<1> HIDE DEF g
<1> QED BY <1>1, <1>2

LEMMA ChainExists ==
    ASSUME NEW ss, NEW n \in Nat
    PROVE  \E f : Chain(f, ss, n)
<1> DEFINE T == {m \in Nat : \E f : Chain(f, ss, m)}
<1>1. 0 \in T
  <2> DEFINE e == [i \in 1 .. 0 |-> 0]
  <2>1. 1 .. 0 = {} OBVIOUS
  <2>2. e = [i \in 1 .. 0 |-> IF i = 1 THEN ss[i] ELSE e[i - 1] \o ss[i]] BY <2>1
  <2>3. Chain(e, ss, 0) BY <2>2 DEF Chain
  <2> QED BY <2>3
<1>2. ASSUME NEW m \in Nat, m \in T PROVE m + 1 \in T
  <2>1. PICK f : Chain(f, ss, m) BY <1>2
  <2> DEFINE x == IF m + 1 = 1 THEN ss[m + 1] ELSE f[m] \o ss[m + 1]
  <2> DEFINE g == [i \in 1 .. m + 1 |-> IF i = m + 1 THEN x ELSE f[i]]
  <2>2. \A i \in 1 .. m : g[i] = f[i] OBVIOUS
  <2>3. g[m + 1] = x OBVIOUS
  <2>4. ASSUME NEW i \in 1 .. m + 1
        PROVE  (IF i = m + 1 THEN x ELSE f[i]) = IF i = 1 THEN ss[i] ELSE g[i - 1] \o ss[i]
    <3>1. CASE i = m + 1
      <4>1. CASE i = 1 BY <3>1, <4>1
      <4>2. CASE i # 1
        <5>1. i - 1 = m /\ m \in 1 .. m /\ m + 1 # 1 BY <3>1, <4>2
        <5>2. g[i - 1] = f[m] BY <5>1, <2>2
        <5> HIDE DEF g
        <5> QED BY <3>1, <4>2, <5>1, <5>2
      <4> QED BY <4>1, <4>2
    <3>2. CASE i # m + 1
      <4>1. i \in 1 .. m BY <3>2
      <4>2. f[i] = IF i = 1 THEN ss[i] ELSE f[i - 1] \o ss[i] BY <2>1, <4>1, ChainAt
      <4>3. i # 1 => i - 1 \in 1 .. m BY <4>1
      <4>4. i # 1 => g[i - 1] = f[i - 1] BY <4>3, <2>2
      <4> HIDE DEF g
      <4> QED BY <3>2, <4>2, <4>4
    <3> QED BY <3>1, <3>2
  <2> DEFINE h == [i \in 1 .. m + 1 |-> IF i = 1 THEN ss[i] ELSE g[i - 1] \o ss[i]]
  <2>5. g = h
    <3>1. \A i \in 1 .. m + 1 : h[i] = IF i = 1 THEN ss[i] ELSE g[i - 1] \o ss[i] OBVIOUS
    <3>2. \A i \in 1 .. m + 1 : g[i] = IF i = m + 1 THEN x ELSE f[i] OBVIOUS
    <3>3. \A i \in 1 .. m + 1 : g[i] = h[i]
      <4> HIDE DEF g, h, x
      <4> QED BY <2>4, <3>1, <3>2
    <3> QED BY <3>3
  <2>6. Chain(g, ss, m + 1) BY <2>5 DEF Chain
  <2> HIDE DEF g
  <2> QED BY <2>6
<1>3. \A i \in 0 .. n : i \in T
  <2> HIDE DEF T
  <2> QED BY <1>1, <1>2, UpTo
<1> QED BY <1>3

LEMMA FlattenChain ==
    ASSUME NEW ss, Len(ss) \in Nat \ {0}
    PROVE  \E f : Chain(f, ss, Len(ss)) /\ FlattenSeq(ss) = f[Len(ss)]
<1> DEFINE n == Len(ss)
<1> DEFINE C(g) == g = [i \in 1 .. n |-> IF i = 1 THEN ss[i] ELSE g[i - 1] \o ss[i]]
<1> DEFINE g == CHOOSE g : C(g)
<1>1. \E f : C(f) BY ChainExists DEF Chain
<1>2. C(g)
  <2> HIDE DEF C
  <2> QED BY <1>1
<1>3. FlattenSeq(ss) = g[n] BY DEF FlattenSeq
<1>4. Chain(g, ss, n) BY <1>2 DEF Chain
<1> QED BY <1>3, <1>4

\* Chains of sequences are sequences, and depend on what they chain only.
LEMMA ChainType ==
    ASSUME NEW S, NEW ss \in Seq(Seq(S)), NEW f, Chain(f, ss, Len(ss))
    PROVE  \A i \in 1 .. Len(ss) : f[i] \in Seq(S)
<1> DEFINE T == {m \in Nat : m = 0 \/ f[m] \in Seq(S)}
<1>1. 0 \in T OBVIOUS
<1>2. ASSUME NEW m \in Nat, m < Len(ss), m \in T PROVE m + 1 \in T
  <2>1. m + 1 \in 1 .. Len(ss) /\ (m + 1) - 1 = m BY <1>2
  <2>2. f[m + 1] = IF m + 1 = 1 THEN ss[m + 1] ELSE f[m] \o ss[m + 1] BY <2>1, ChainAt
  <2>3. ss[m + 1] \in Seq(S) BY <2>1
  <2>4. m + 1 # 1 => f[m] \in Seq(S) BY <1>2
  <2>5. f[m + 1] \in Seq(S) BY <2>2, <2>3, <2>4, ConcatProperties
  <2> QED BY <2>5
<1>3. \A i \in 0 .. Len(ss) : i \in T
  <2> HIDE DEF T
  <2> QED BY <1>1, <1>2, UpTo, LenProperties
<1> QED BY <1>3

Same(s, t, n) == \A i \in 1 .. n : s[i] = t[i]

LEMMA ChainSame ==
    ASSUME NEW ss, NEW tt, NEW n \in Nat, NEW m \in Nat, NEW f, NEW g,
           Chain(f, ss, n), Chain(g, tt, m),
           n <= m, Same(ss, tt, n)
    PROVE  Same(f, g, n)
<1> DEFINE T == {k \in Nat : k = 0 \/ f[k] = g[k]}
<1>1. 0 \in T OBVIOUS
<1>2. ASSUME NEW k \in Nat, k < n, k \in T PROVE k + 1 \in T
  <2>1. k + 1 \in 1 .. n /\ k + 1 \in 1 .. m /\ (k + 1) - 1 = k BY <1>2
  <2>2. f[k + 1] = IF k + 1 = 1 THEN ss[k + 1] ELSE f[k] \o ss[k + 1] BY <2>1, ChainAt
  <2>3. g[k + 1] = IF k + 1 = 1 THEN tt[k + 1] ELSE g[k] \o tt[k + 1] BY <2>1, ChainAt
  <2>4. k + 1 # 1 => f[k] = g[k] BY <1>2
  <2>5. f[k + 1] = g[k + 1] BY <2>1, <2>2, <2>3, <2>4 DEF Same
  <2> QED BY <2>5
<1>3. \A i \in 0 .. n : i \in T
  <2> HIDE DEF T
  <2> QED BY <1>1, <1>2, UpTo
<1> QED BY <1>3 DEF Same

\* FlattenSeq of nothing, its type, and of one sequence more.
LEMMA FlattenEmpty == FlattenSeq(<<>>) = <<>>
BY DEF FlattenSeq

LEMMA FlattenType ==
    ASSUME NEW S, NEW ss \in Seq(Seq(S))
    PROVE  FlattenSeq(ss) \in Seq(S)
<1>1. Len(ss) \in Nat BY LenProperties
<1>2. CASE Len(ss) = 0
  <2>1. ss = <<>> BY <1>2, EmptySeq
  <2> QED BY <2>1, FlattenEmpty, EmptySeq
<1>3. CASE Len(ss) # 0
  <2>1. PICK f : Chain(f, ss, Len(ss)) /\ FlattenSeq(ss) = f[Len(ss)]
    BY <1>1, <1>3, FlattenChain
  <2>2. Len(ss) \in 1 .. Len(ss) BY <1>1, <1>3
  <2>3. f[Len(ss)] \in Seq(S) BY <2>1, <2>2, ChainType
  <2> QED BY <2>1, <2>3
<1> QED BY <1>2, <1>3

LEMMA FlattenLonger ==
    ASSUME NEW S, NEW ss \in Seq(Seq(S)), NEW tt \in Seq(Seq(S)),
           NEW n \in Nat, NEW m \in Nat, Len(ss) = n, Len(tt) = m, m = n + 1,
           Same(ss, tt, n)
    PROVE  FlattenSeq(tt) = FlattenSeq(ss) \o tt[m]
<1>1. PICK g : Chain(g, tt, m) /\ FlattenSeq(tt) = g[m] BY FlattenChain, SMTT(40)
<1>2. m \in 1 .. m /\ m - 1 = n OBVIOUS
<1>3. g[m] = IF m = 1 THEN tt[m] ELSE g[n] \o tt[m] BY <1>1, <1>2, ChainAt
<1>4. CASE n = 0
  <2>1. ss = <<>> BY <1>4, EmptySeq
  <2>2. tt[m] \in Seq(S) BY <1>2
  <2>3. <<>> \o tt[m] = tt[m] BY <2>2, ConcatEmptySeq
  <2> QED BY <1>1, <1>3, <1>4, <2>1, <2>3, FlattenEmpty
<1>5. CASE n # 0
  <2>1. PICK f : Chain(f, ss, n) /\ FlattenSeq(ss) = f[n] BY <1>5, FlattenChain
  <2>2. n <= m /\ n \in 1 .. n /\ m # 1 BY <1>5
  <2>3. Same(f, g, n) BY <1>1, <2>1, <2>2, ChainSame
  <2>4. f[n] = g[n] BY <2>2, <2>3 DEF Same
  <2> QED BY <1>1, <1>3, <2>1, <2>2, <2>4
<1> QED BY <1>4, <1>5

LEMMA FlattenAppend ==
    ASSUME NEW S, NEW ss \in Seq(Seq(S)), NEW t \in Seq(S)
    PROVE  FlattenSeq(Append(ss, t)) = FlattenSeq(ss) \o t
<1>1. PICK n \in Nat : n = Len(ss) BY LenProperties
<1>2. PICK tt \in Seq(Seq(S)) : tt = Append(ss, t) BY AppendProperties
<1>3. /\ Len(tt) = n + 1
      /\ Same(ss, tt, n)
      /\ tt[n + 1] = t
  BY <1>1, <1>2, AppendProperties DEF Same
<1>4. PICK m \in Nat : m = n + 1 OBVIOUS
<1>5. FlattenSeq(tt) = FlattenSeq(ss) \o tt[m] BY <1>1, <1>3, <1>4, FlattenLonger
<1> QED BY <1>2, <1>3, <1>4, <1>5

\* FlattenSeq distributes over concatenation.
LEMMA ConcatAppend ==
    ASSUME NEW S, NEW s \in Seq(S), NEW t \in Seq(S), NEW e \in S
    PROVE  s \o Append(t, e) = Append(s \o t, e)
<1>1. Append(t, e) = t \o <<e>> /\ <<e>> \in Seq(S) BY AppendIsConcat
<1>2. s \o t \in Seq(S) BY ConcatProperties
<1>3. Append(s \o t, e) = (s \o t) \o <<e>> BY <1>2, AppendIsConcat
<1>4. (s \o t) \o <<e>> = s \o (t \o <<e>>) BY <1>1, ConcatAssociative
<1> QED BY <1>1, <1>3, <1>4

LEMMA FlattenConcat ==
    ASSUME NEW S, NEW ss \in Seq(Seq(S)), NEW tt \in Seq(Seq(S))
    PROVE  FlattenSeq(ss \o tt) = FlattenSeq(ss) \o FlattenSeq(tt)
<1>0. \A a, b, c \in Seq(S) : (a \o b) \o c = a \o (b \o c) BY ConcatAssociative, SMTT(60)
<1> DEFINE Q(u) == FlattenSeq(ss \o u) = FlattenSeq(ss) \o FlattenSeq(u)
<1> DEFINE T == {n \in Nat : \A u \in Seq(Seq(S)) : Len(u) = n => Q(u)}
<1>1. 0 \in T
  <2> SUFFICES ASSUME NEW u \in Seq(Seq(S)), Len(u) = 0 PROVE Q(u)
    OBVIOUS
  <2>1. u = <<>> BY EmptySeq
  <2>2. ss \o <<>> = ss BY ConcatEmptySeq
  <2>3. FlattenSeq(ss) \o <<>> = FlattenSeq(ss) BY FlattenType, ConcatEmptySeq
  <2> QED BY <2>1, <2>2, <2>3, FlattenEmpty
<1>2. ASSUME NEW n \in Nat, n \in T PROVE n + 1 \in T
  <2> SUFFICES ASSUME NEW u \in Seq(Seq(S)), Len(u) = n + 1 PROVE Q(u)
    OBVIOUS
  <2>1. u # <<>> BY EmptySeq
  <2>2. PICK v \in Seq(Seq(S)), e \in Seq(S) : u = Append(v, e)
    BY <2>1, SequenceEmptyOrAppend
  <2>3. Len(v) = n BY <2>2, AppendProperties, LenProperties
  <2>4. Q(v) BY <1>2, <2>3
  <2>5. FlattenSeq(u) = FlattenSeq(v) \o e BY <2>2, FlattenAppend
  <2>6. ss \o u = Append(ss \o v, e) BY <2>2, ConcatAppend
  <2>7. ss \o v \in Seq(Seq(S)) BY ConcatProperties
  <2>8. FlattenSeq(ss \o u) = FlattenSeq(ss \o v) \o e BY <2>6, <2>7, FlattenAppend
  <2>9. /\ FlattenSeq(ss) \in Seq(S)
        /\ FlattenSeq(v) \in Seq(S)
    BY FlattenType
  <2>10. (FlattenSeq(ss) \o FlattenSeq(v)) \o e = FlattenSeq(ss) \o (FlattenSeq(v) \o e)
    <3>1. PICK a \in Seq(S), b \in Seq(S) : a = FlattenSeq(ss) /\ b = FlattenSeq(v)
      BY <2>9
    <3>2. (a \o b) \o e = a \o (b \o e) BY <1>0, Zenon
    <3> QED BY <3>1, <3>2
  <2> QED BY <2>4, <2>5, <2>8, <2>10
<1>3. PICK n \in Nat : n = Len(tt) BY LenProperties
<1>4. \A i \in 0 .. n : i \in T
  <2> HIDE DEF T
  <2> QED BY <1>1, <1>2, UpTo
<1>5. n \in T
  <2> HIDE DEF T
  <2> QED BY <1>4
<1> QED BY <1>3, <1>5

--------------------
\* Frames and the cells they fill.
Frame == [kind : {"data", "commit"}, batch : Nat, index : Nat, len : Nat \ {0}, mates : Nat]

Cell == {Zero} \cup [frame : Frame, nth : Nat \ {0}]

CellSeqs(F) == [i \in DOMAIN F |-> CellsOf(F[i])]

RecordSeqs(F) == [i \in DOMAIN F |-> IF IsMarker(F[i]) THEN <<>> ELSE <<F[i]>>]

LEMMA CellsOfType ==
    ASSUME NEW f \in Frame
    PROVE  /\ CellsOf(f) \in Seq(Cell)
           /\ Len(CellsOf(f)) = f.len
           /\ \A k \in 1 .. f.len : CellsOf(f)[k] = [frame |-> f, nth |-> k]
<1>1. f.len \in Nat BY DEF Frame
<1>2. \A k \in 1 .. f.len : [frame |-> f, nth |-> k] \in Cell BY <1>1 DEF Cell
<1>3. CellsOf(f) \in [1 .. f.len -> Cell] BY <1>2 DEF CellsOf
<1> QED BY <1>1, <1>3 DEF CellsOf

LEMMA SeqsType ==
    ASSUME NEW F \in Seq(Frame)
    PROVE  /\ CellSeqs(F) \in Seq(Seq(Cell)) /\ Len(CellSeqs(F)) = Len(F)
           /\ \A i \in 1 .. Len(F) : CellSeqs(F)[i] = CellsOf(F[i])
           /\ RecordSeqs(F) \in Seq(Seq(Frame)) /\ Len(RecordSeqs(F)) = Len(F)
           /\ \A i \in 1 .. Len(F) :
                RecordSeqs(F)[i] = IF IsMarker(F[i]) THEN <<>> ELSE <<F[i]>>
<1>1. PICK n \in Nat : n = Len(F) /\ DOMAIN F = 1 .. n BY LenProperties
<1>2. \A i \in 1 .. n : F[i] \in Frame BY <1>1, ElementOfSeq
<1>3. \A i \in 1 .. n : CellsOf(F[i]) \in Seq(Cell) BY <1>2, CellsOfType
<1>4. CellSeqs(F) \in [1 .. n -> Seq(Cell)] BY <1>1, <1>3 DEF CellSeqs
<1>5. \A i \in 1 .. n : (IF IsMarker(F[i]) THEN <<>> ELSE <<F[i]>>) \in Seq(Frame) BY <1>2
<1>6. RecordSeqs(F) \in [1 .. n -> Seq(Frame)] BY <1>1, <1>5 DEF RecordSeqs
<1>7. CellSeqs(F) \in Seq(Seq(Cell)) /\ Len(CellSeqs(F)) = n BY <1>4
<1>8. RecordSeqs(F) \in Seq(Seq(Frame)) /\ Len(RecordSeqs(F)) = n BY <1>6
<1>9. \A i \in 1 .. n : CellSeqs(F)[i] = CellsOf(F[i]) BY <1>1 DEF CellSeqs
<1>10. \A i \in 1 .. n : RecordSeqs(F)[i] = IF IsMarker(F[i]) THEN <<>> ELSE <<F[i]>>
  BY <1>1 DEF RecordSeqs
<1> QED BY <1>1, <1>7, <1>8, <1>9, <1>10

LEMMA SeqsConcat ==
    ASSUME NEW F \in Seq(Frame), NEW G \in Seq(Frame)
    PROVE  /\ CellSeqs(F \o G) = CellSeqs(F) \o CellSeqs(G)
           /\ RecordSeqs(F \o G) = RecordSeqs(F) \o RecordSeqs(G)
<1>1. PICK n \in Nat, m \in Nat : n = Len(F) /\ m = Len(G) BY LenProperties
<1>2. PICK H \in Seq(Frame) : H = F \o G BY ConcatProperties
<1>3. /\ Len(H) = n + m
      /\ \A i \in 1 .. n + m : H[i] = IF i <= n THEN F[i] ELSE G[i - n]
  BY <1>1, <1>2, ConcatProperties
<1>4. CellSeqs(H) = CellSeqs(F) \o CellSeqs(G)
  <2>1. PICK a \in Seq(Seq(Cell)), b \in Seq(Seq(Cell)), c \in Seq(Seq(Cell)) :
            a = CellSeqs(F) /\ b = CellSeqs(G) /\ c = CellSeqs(H)
    BY SeqsType
  <2>2. Len(a) = n /\ Len(b) = m /\ Len(c) = n + m BY <1>1, <1>3, <2>1, SeqsType
  <2>3. a \o b \in Seq(Seq(Cell)) /\ Len(a \o b) = n + m BY <2>2, ConcatProperties
  <2>4. ASSUME NEW i \in 1 .. n + m PROVE c[i] = (a \o b)[i]
    <3>1. c[i] = CellsOf(H[i]) BY <1>3, <2>1, SeqsType
    <3>2. (a \o b)[i] = IF i <= n THEN a[i] ELSE b[i - n] BY <2>2, ConcatProperties
    <3>3. CASE i <= n
      <4>1. i \in 1 .. n BY <3>3
      <4>2. a[i] = CellsOf(F[i]) BY <4>1, <1>1, <2>1, SeqsType
      <4> QED BY <1>3, <3>1, <3>2, <3>3, <4>2
    <3>4. CASE ~ (i <= n)
      <4>1. i - n \in 1 .. m BY <3>4
      <4>2. b[i - n] = CellsOf(G[i - n]) BY <4>1, <1>1, <2>1, SeqsType
      <4> QED BY <1>3, <3>1, <3>2, <3>4, <4>2
    <3> QED BY <3>3, <3>4
  <2>5. c = a \o b BY <2>2, <2>3, <2>4, SeqEqual
  <2> QED BY <2>1, <2>5
<1>5. RecordSeqs(H) = RecordSeqs(F) \o RecordSeqs(G)
  <2> DEFINE r(f) == IF IsMarker(f) THEN <<>> ELSE <<f>>
  <2>1. PICK a \in Seq(Seq(Frame)), b \in Seq(Seq(Frame)), c \in Seq(Seq(Frame)) :
            a = RecordSeqs(F) /\ b = RecordSeqs(G) /\ c = RecordSeqs(H)
    BY SeqsType
  <2>2. Len(a) = n /\ Len(b) = m /\ Len(c) = n + m BY <1>1, <1>3, <2>1, SeqsType
  <2>3. a \o b \in Seq(Seq(Frame)) /\ Len(a \o b) = n + m BY <2>2, ConcatProperties
  <2>4. ASSUME NEW i \in 1 .. n + m PROVE c[i] = (a \o b)[i]
    <3>1. c[i] = r(H[i]) BY <1>3, <2>1, SeqsType
    <3>2. (a \o b)[i] = IF i <= n THEN a[i] ELSE b[i - n] BY <2>2, ConcatProperties
    <3>3. CASE i <= n
      <4>1. i \in 1 .. n BY <3>3
      <4>2. a[i] = r(F[i]) BY <4>1, <1>1, <2>1, SeqsType
      <4>3. H[i] = F[i] BY <1>3, <3>3
      <4> HIDE DEF r
      <4> QED BY <3>1, <3>2, <3>3, <4>2, <4>3
    <3>4. CASE ~ (i <= n)
      <4>1. i - n \in 1 .. m BY <3>4
      <4>2. b[i - n] = r(G[i - n]) BY <4>1, <1>1, <2>1, SeqsType
      <4>3. H[i] = G[i - n] BY <1>3, <3>4
      <4> HIDE DEF r
      <4> QED BY <3>1, <3>2, <3>4, <4>2, <4>3
    <3> QED BY <3>3, <3>4
  <2>5. c = a \o b BY <2>2, <2>3, <2>4, SeqEqual
  <2> QED BY <2>1, <2>5
<1> QED BY <1>2, <1>4, <1>5

\* Layout, Size and Records of frames written one after the other.
LEMMA LayoutType ==
    ASSUME NEW F \in Seq(Frame)
    PROVE  /\ Layout(F) \in Seq(Cell) /\ Size(F) \in Nat
           /\ Records(F) \in Seq(Frame) /\ Len(Records(F)) \in Nat
<1>1. Layout(F) = FlattenSeq(CellSeqs(F)) /\ Records(F) = FlattenSeq(RecordSeqs(F))
  BY DEF Layout, Records, CellSeqs, RecordSeqs
<1>2. CellSeqs(F) \in Seq(Seq(Cell)) /\ RecordSeqs(F) \in Seq(Seq(Frame)) BY SeqsType
<1>3. Layout(F) \in Seq(Cell) /\ Records(F) \in Seq(Frame) BY <1>1, <1>2, FlattenType
<1> QED BY <1>3, LenProperties DEF Size

LEMMA LayoutConcat ==
    ASSUME NEW F \in Seq(Frame), NEW G \in Seq(Frame)
    PROVE  /\ F \o G \in Seq(Frame)
           /\ Layout(F \o G) = Layout(F) \o Layout(G)
           /\ Size(F \o G) = Size(F) + Size(G)
           /\ Records(F \o G) = Records(F) \o Records(G)
           /\ Len(Records(F \o G)) = Len(Records(F)) + Len(Records(G))
<1>1. PICK H \in Seq(Frame) : H = F \o G BY ConcatProperties
<1>2. /\ Layout(F) = FlattenSeq(CellSeqs(F)) /\ Records(F) = FlattenSeq(RecordSeqs(F))
      /\ Layout(G) = FlattenSeq(CellSeqs(G)) /\ Records(G) = FlattenSeq(RecordSeqs(G))
      /\ Layout(H) = FlattenSeq(CellSeqs(H)) /\ Records(H) = FlattenSeq(RecordSeqs(H))
  BY DEF Layout, Records, CellSeqs, RecordSeqs
<1>3. /\ CellSeqs(F) \in Seq(Seq(Cell)) /\ RecordSeqs(F) \in Seq(Seq(Frame))
      /\ CellSeqs(G) \in Seq(Seq(Cell)) /\ RecordSeqs(G) \in Seq(Seq(Frame))
  BY SeqsType
<1>4. CellSeqs(H) = CellSeqs(F) \o CellSeqs(G) /\ RecordSeqs(H) = RecordSeqs(F) \o RecordSeqs(G)
  BY <1>1, SeqsConcat
<1>5. Layout(H) = Layout(F) \o Layout(G)
  <2>1. PICK a \in Seq(Seq(Cell)), b \in Seq(Seq(Cell)) : a = CellSeqs(F) /\ b = CellSeqs(G)
    BY <1>3
  <2>2. FlattenSeq(a \o b) = FlattenSeq(a) \o FlattenSeq(b) BY FlattenConcat
  <2> QED BY <1>2, <1>4, <2>1, <2>2
<1>6. Records(H) = Records(F) \o Records(G)
  <2>1. PICK a \in Seq(Seq(Frame)), b \in Seq(Seq(Frame)) : a = RecordSeqs(F) /\ b = RecordSeqs(G)
    BY <1>3
  <2>2. FlattenSeq(a \o b) = FlattenSeq(a) \o FlattenSeq(b) BY FlattenConcat
  <2> QED BY <1>2, <1>4, <2>1, <2>2
<1>7. Size(H) = Size(F) + Size(G) BY <1>5, LayoutType, ConcatProperties DEF Size
<1>8. Len(Records(H)) = Len(Records(F)) + Len(Records(G))
  BY <1>6, LayoutType, ConcatProperties
<1> QED BY <1>1, <1>5, <1>6, <1>7, <1>8

LEMMA LayoutEmpty == Layout(<<>>) = <<>> /\ Size(<<>>) = 0 /\ Records(<<>>) = <<>>
<1>1. DOMAIN <<>> = {} OBVIOUS
<1>2. [i \in DOMAIN <<>> |-> CellsOf(<<>>[i])] = <<>> BY <1>1
<1>3. [i \in DOMAIN <<>> |-> IF IsMarker(<<>>[i]) THEN <<>> ELSE <<(<<>>[i])>>] = <<>>
  BY <1>1
<1> QED BY <1>2, <1>3, FlattenEmpty DEF Layout, Records, Size

LEMMA LayoutOne ==
    ASSUME NEW f \in Frame
    PROVE  /\ <<f>> \in Seq(Frame)
           /\ Layout(<<f>>) = CellsOf(f) /\ Size(<<f>>) = f.len
           /\ Records(<<f>>) = IF IsMarker(f) THEN <<>> ELSE <<f>>
<1>0. <<f>> \in Seq(Frame) /\ Len(<<f>>) = 1 /\ <<f>>[1] = f OBVIOUS
<1>1. PICK F \in Seq(Frame) : F = <<f>> /\ Len(F) = 1 /\ F[1] = f BY <1>0
<1>2. /\ CellSeqs(F) \in Seq(Seq(Cell)) /\ Len(CellSeqs(F)) = 1 /\ CellSeqs(F)[1] = CellsOf(f)
      /\ RecordSeqs(F) \in Seq(Seq(Frame)) /\ Len(RecordSeqs(F)) = 1
      /\ RecordSeqs(F)[1] = IF IsMarker(f) THEN <<>> ELSE <<f>>
  <2>1. 1 \in 1 .. Len(F) BY <1>1
  <2>2. CellSeqs(F)[1] = CellsOf(F[1]) BY <2>1, SeqsType
  <2>3. RecordSeqs(F)[1] = IF IsMarker(F[1]) THEN <<>> ELSE <<F[1]>> BY <2>1, SeqsType
  <2> QED BY <1>1, <2>2, <2>3, SeqsType
<1>3. ASSUME NEW S, NEW ss \in Seq(Seq(S)), Len(ss) = 1 PROVE FlattenSeq(ss) = ss[1]
  <2>0. Len(ss) \in Nat \ {0} BY <1>3
  <2>1. PICK g : Chain(g, ss, 1) /\ FlattenSeq(ss) = g[1] BY <1>3, <2>0, FlattenChain
  <2>2. g[1] = ss[1] BY <2>1, ChainAt
  <2> QED BY <2>1, <2>2
<1>4. FlattenSeq(CellSeqs(F)) = CellsOf(f) BY <1>2, <1>3
<1>5. FlattenSeq(RecordSeqs(F)) = IF IsMarker(f) THEN <<>> ELSE <<f>> BY <1>2, <1>3
<1>6. Layout(F) = CellsOf(f) /\ Records(F) = IF IsMarker(f) THEN <<>> ELSE <<f>>
  BY <1>4, <1>5 DEF Layout, Records, CellSeqs, RecordSeqs
<1> QED BY <1>1, <1>6, CellsOfType DEF Size

--------------------
\* What a segment's cells hold, and Run.
Area == [1 .. Capacity -> Cell]

Holds(cells, frames) ==
    /\ Size(frames) <= Capacity
    /\ \A i \in 1 .. Size(frames) : cells[i] = Layout(frames)[i]

LEMMA AreaLen ==
    ASSUME NEW cells \in Area
    PROVE  DOMAIN cells = 1 .. Capacity /\ Len(cells) = Capacity
BY ShapesAssumption DEF Area

LEMMA ValidFacts ==
    ASSUME NEW cells \in Area, NEW at, ValidAt(cells, at)
    PROVE  /\ at \in 1 .. Capacity
           /\ cells[at].frame \in Frame
           /\ cells[at].frame.len \in Nat \ {0}
           /\ at + cells[at].frame.len \in at + 1 .. Capacity + 1
           /\ \A k \in 1 .. cells[at].frame.len :
                cells[at + k - 1] = [frame |-> cells[at].frame, nth |-> k]
<1>1. at \in 1 .. Capacity BY AreaLen DEF ValidAt
<1>2. cells[at] \in Cell /\ cells[at].nth = 1 BY <1>1 DEF ValidAt, Area
<1>3. cells[at] # Zero BY <1>2 DEF Zero
<1>4. cells[at].frame \in Frame BY <1>2, <1>3 DEF Cell
<1>5. cells[at].frame.len \in Nat \ {0} BY <1>4 DEF Frame
<1>6. at + cells[at].frame.len - 1 <= Capacity BY AreaLen DEF ValidAt
<1> QED BY <1>1, <1>4, <1>5, <1>6, ShapesAssumption, SMTT(40) DEF ValidAt

LEMMA HoldsNext ==
    ASSUME NEW cells \in Area, NEW F \in Seq(Frame), Holds(cells, F),
           ValidAt(cells, Size(F) + 1)
    PROVE  LET f == cells[Size(F) + 1].frame IN
           /\ f \in Frame
           /\ F \o <<f>> \in Seq(Frame)
           /\ Size(F \o <<f>>) = Size(F) + f.len
           /\ Holds(cells, F \o <<f>>)
<1> DEFINE f == cells[Size(F) + 1].frame
<1>1. PICK n \in Nat : n = Size(F) BY LayoutType
<1>2. PICK l \in Nat \ {0} : l = f.len BY ValidFacts
<1>3. /\ n + 1 \in 1 .. Capacity /\ f \in Frame
      /\ (n + 1) + l \in (n + 1) + 1 .. Capacity + 1
      /\ \A k \in 1 .. l : cells[(n + 1) + k - 1] = [frame |-> f, nth |-> k]
  BY <1>1, <1>2, ValidFacts
<1> HIDE DEF f
<1>4. <<f>> \in Seq(Frame) /\ Layout(<<f>>) = CellsOf(f) /\ Size(<<f>>) = l
  BY <1>2, <1>3, LayoutOne
<1>5. PICK G \in Seq(Frame) : G = <<f>> BY <1>4
<1>6. /\ F \o G \in Seq(Frame)
      /\ Layout(F \o G) = Layout(F) \o Layout(G)
      /\ Size(F \o G) = n + l
  BY <1>1, <1>4, <1>5, LayoutConcat
<1>7. PICK a \in Seq(Cell), b \in Seq(Cell) : a = Layout(F) /\ b = Layout(G) BY LayoutType
<1>8. Len(a) = n /\ Len(b) = l BY <1>1, <1>4, <1>5, <1>7 DEF Size
<1>9. \A i \in 1 .. n : cells[i] = a[i] BY <1>1, <1>7 DEF Holds
<1>10. \A k \in 1 .. l : b[k] = [frame |-> f, nth |-> k]
  BY <1>2, <1>3, <1>4, <1>5, <1>7, CellsOfType
<1>11. ASSUME NEW i \in 1 .. n + l PROVE cells[i] = (a \o b)[i]
  <2>1. (a \o b)[i] = IF i <= n THEN a[i] ELSE b[i - n] BY <1>8, ConcatProperties
  <2>2. CASE i <= n
    <3>1. i \in 1 .. n BY <2>2
    <3> QED BY <1>9, <2>1, <2>2, <3>1
  <2>3. CASE ~ (i <= n)
    <3>1. i - n \in 1 .. l /\ (n + 1) + (i - n) - 1 = i BY <2>3
    <3>2. cells[i] = [frame |-> f, nth |-> i - n] BY <1>3, <3>1
    <3> QED BY <1>10, <2>1, <2>3, <3>1, <3>2
  <2> QED BY <2>2, <2>3
<1>12. n + l <= Capacity BY <1>3, ShapesAssumption, SMTT(40)
<1>13. Holds(cells, F \o G) BY <1>6, <1>7, <1>11, <1>12 DEF Holds
<1> QED BY <1>1, <1>2, <1>3, <1>5, <1>6, <1>13 DEF f

LEMMA HoldsPrefix ==
    ASSUME NEW cells, NEW F \in Seq(Frame), NEW G \in Seq(Frame), Holds(cells, F \o G)
    PROVE  /\ Holds(cells, F)
           /\ Size(F) + Size(G) <= Capacity
           /\ \A i \in 1 .. Size(G) : cells[Size(F) + i] = Layout(G)[i]
<1>1. PICK n \in Nat, m \in Nat : n = Size(F) /\ m = Size(G) BY LayoutType
<1>2. /\ Layout(F \o G) = Layout(F) \o Layout(G)
      /\ Size(F \o G) = n + m
  BY <1>1, LayoutConcat
<1>3. PICK a \in Seq(Cell), b \in Seq(Cell) : a = Layout(F) /\ b = Layout(G) BY LayoutType
<1>4. Len(a) = n /\ Len(b) = m BY <1>1, <1>3 DEF Size
<1>5. n + m <= Capacity /\ \A i \in 1 .. n + m : cells[i] = (a \o b)[i]
  BY <1>2, <1>3 DEF Holds
<1>6. \A i \in 1 .. n + m : (a \o b)[i] = IF i <= n THEN a[i] ELSE b[i - n]
  BY <1>4, ConcatProperties
<1>7. \A i \in 1 .. n : cells[i] = a[i]
  <2> SUFFICES ASSUME NEW i \in 1 .. n PROVE cells[i] = a[i]
    OBVIOUS
  <2>1. i \in 1 .. n + m /\ i <= n OBVIOUS
  <2> QED BY <1>5, <1>6, <2>1
<1>8. \A i \in 1 .. m : cells[n + i] = b[i]
  <2> SUFFICES ASSUME NEW i \in 1 .. m PROVE cells[n + i] = b[i]
    OBVIOUS
  <2>1. n + i \in 1 .. n + m /\ ~ (n + i <= n) /\ (n + i) - n = i OBVIOUS
  <2>2. cells[n + i] = (a \o b)[n + i] /\ (a \o b)[n + i] = b[(n + i) - n]
    BY <1>5, <1>6, <2>1
  <2> QED BY <2>1, <2>2
<1>9. n <= Capacity BY <1>5, ShapesAssumption
<1> QED BY <1>1, <1>3, <1>5, <1>7, <1>8, <1>9 DEF Holds

LEMMA HoldsValid ==
    ASSUME NEW cells \in Area, NEW F \in Seq(Frame), NEW f \in Frame,
           Holds(cells, F \o <<f>>)
    PROVE  /\ Holds(cells, F)
           /\ ValidAt(cells, Size(F) + 1)
           /\ cells[Size(F) + 1].frame = f
<1>1. <<f>> \in Seq(Frame) /\ Layout(<<f>>) = CellsOf(f) /\ Size(<<f>>) = f.len
  BY LayoutOne
<1>2. PICK n \in Nat, l \in Nat \ {0} : n = Size(F) /\ l = f.len BY LayoutType DEF Frame
<1>3. PICK G \in Seq(Frame) : G = <<f>> BY <1>1
<1>4. /\ Holds(cells, F) /\ n + l <= Capacity
      /\ \A i \in 1 .. l : cells[n + i] = CellsOf(f)[i]
  <2>1. Holds(cells, F \o G) BY <1>3
  <2>2. /\ Holds(cells, F) /\ Size(F) + Size(G) <= Capacity
        /\ \A i \in 1 .. Size(G) : cells[Size(F) + i] = Layout(G)[i]
    BY <2>1, HoldsPrefix
  <2>3. Size(G) = l /\ Layout(G) = CellsOf(f) BY <1>1, <1>2, <1>3
  <2> QED BY <1>2, <2>2, <2>3
<1>5. \A i \in 1 .. l : cells[n + i] = [frame |-> f, nth |-> i] BY <1>2, <1>4, CellsOfType
<1>6. cells[n + 1] = [frame |-> f, nth |-> 1] BY <1>5
<1>7. n + 1 \in 1 .. Capacity /\ (n + 1) + l - 1 <= Capacity BY <1>4, ShapesAssumption
<1>8. \A k \in 1 .. l : cells[(n + 1) + k - 1] = [frame |-> f, nth |-> k]
  <2> SUFFICES ASSUME NEW k \in 1 .. l PROVE cells[(n + 1) + k - 1] = [frame |-> f, nth |-> k]
    OBVIOUS
  <2>1. (n + 1) + k - 1 = n + k OBVIOUS
  <2> QED BY <1>5, <2>1
<1>9. ValidAt(cells, n + 1)
  <2>1. cells[n + 1].nth = 1 /\ cells[n + 1].frame = f BY <1>6
  <2>2. n + 1 \in DOMAIN cells /\ Len(cells) = Capacity BY <1>7, AreaLen
  <2>3. \A k \in 1 .. f.len : cells[(n + 1) + k - 1] = [frame |-> f, nth |-> k]
    BY <1>2, <1>8
  <2>4. (n + 1) + f.len - 1 <= Capacity BY <1>2, <1>7
  <2> QED BY <2>1, <2>2, <2>3, <2>4 DEF ValidAt
<1> QED BY <1>2, <1>4, <1>6, <1>9

\* Induction from n downwards.
LEMMA DownFrom ==
    ASSUME NEW T, NEW n \in Nat,
           \A i \in 1 .. n : (\A j \in i + 1 .. n : j \in T) => i \in T
    PROVE  \A i \in 1 .. n : i \in T
<1> DEFINE U == {k \in Nat : \A i \in 1 .. n : i > n - k => i \in T}
<1>1. 0 \in U OBVIOUS
<1>2. ASSUME NEW k \in Nat, k < n, k \in U PROVE k + 1 \in U
  <2> SUFFICES ASSUME NEW i \in 1 .. n, i > n - (k + 1) PROVE i \in T
    OBVIOUS
  <2>1. \A j \in i + 1 .. n : j \in T
    <3> SUFFICES ASSUME NEW j \in i + 1 .. n PROVE j \in T
      OBVIOUS
    <3>1. j \in 1 .. n /\ j > n - k OBVIOUS
    <3> QED BY <1>2, <3>1
  <2> QED BY <2>1
<1>3. \A k \in 0 .. n : k \in U
  <2> HIDE DEF U
  <2> QED BY <1>1, <1>2, UpTo
<1>4. n \in U
  <2> HIDE DEF U
  <2> QED BY <1>3
<1>5. \A i \in 1 .. n : i > n - n OBVIOUS
<1> QED BY <1>4, <1>5

\* The recursive function of Run, read from the last cell backwards.
Step(f, cells, at) ==
    IF ValidAt(cells, at) THEN <<cells[at].frame>> \o f[at + cells[at].frame.len] ELSE <<>>

Walk(f, cells) == f = [at \in 1 .. Capacity + 1 |-> Step(f, cells, at)]

LEMMA StepSame ==
    ASSUME NEW cells \in Area, NEW at \in 1 .. Capacity + 1, NEW f, NEW g,
           \A i \in at + 1 .. Capacity + 1 : f[i] = g[i]
    PROVE  Step(f, cells, at) = Step(g, cells, at)
<1>1. CASE ValidAt(cells, at)
  <2>1. at + cells[at].frame.len \in at + 1 .. Capacity + 1 BY <1>1, ValidFacts
  <2>2. f[at + cells[at].frame.len] = g[at + cells[at].frame.len] BY <2>1
  <2> QED BY <1>1, <2>2 DEF Step
<1>2. CASE ~ ValidAt(cells, at) BY <1>2 DEF Step
<1> QED BY <1>1, <1>2

LEMMA WalkExists ==
    ASSUME NEW cells \in Area
    PROVE  \E f : Walk(f, cells)
<1> DEFINE N == Capacity + 1
<1>0. N \in Nat /\ N = Capacity + 1 BY ShapesAssumption
<1> DEFINE Upper(f, k) == \A at \in 1 .. N : at > N - k => f[at] = Step(f, cells, at)
<1> DEFINE T == {k \in Nat : \E f : Upper(f, k)}
<1> HIDE DEF N
<1>1. 0 \in T
  <2>1. Upper(0, 0) BY <1>0
  <2> QED BY <2>1
<1>2. ASSUME NEW k \in Nat, k < N, k \in T PROVE k + 1 \in T
  <2>1. PICK f : Upper(f, k) BY <1>2
  <2>2. PICK a \in 1 .. N : a = N - k BY <1>0, <1>2
  <2> DEFINE g == [at \in 1 .. N |-> IF at = a THEN Step(f, cells, a) ELSE f[at]]
  <2>3. \A at \in a + 1 .. N : g[at] = f[at] BY <1>0
  <2>4. g[a] = Step(f, cells, a) OBVIOUS
  <2> HIDE DEF g
  <2>5. ASSUME NEW at \in 1 .. N, at > N - (k + 1) PROVE g[at] = Step(g, cells, at)
    <3>1. \A i \in at + 1 .. N : f[i] = g[i]
      <4> SUFFICES ASSUME NEW i \in at + 1 .. N PROVE f[i] = g[i]
        OBVIOUS
      <4>1. i \in a + 1 .. N BY <1>0, <2>2, <2>5
      <4> QED BY <2>3, <4>1
    <3>2. Step(f, cells, at) = Step(g, cells, at) BY <1>0, <3>1, StepSame
    <3>3. CASE at = a BY <2>4, <3>2, <3>3
    <3>4. CASE at # a
      <4>1. at \in a + 1 .. N /\ at > N - k BY <1>0, <2>2, <2>5, <3>4
      <4>2. f[at] = Step(f, cells, at) BY <2>1, <4>1
      <4> QED BY <2>3, <3>2, <4>1, <4>2
    <3> QED BY <3>3, <3>4
  <2>6. Upper(g, k + 1) BY <2>5
  <2> HIDE DEF Upper
  <2> QED BY <2>6
<1>3. \A k \in 0 .. N : k \in T
  <2> HIDE DEF T
  <2> QED BY <1>0, <1>1, <1>2, UpTo
<1>4. N \in T
  <2> HIDE DEF T
  <2> QED BY <1>0, <1>3
<1>5. PICK f : Upper(f, N) BY <1>4
<1> DEFINE h == [at \in 1 .. N |-> f[at]]
<1>6. \A at \in 1 .. N : h[at] = f[at] OBVIOUS
<1>7. \A at \in 1 .. N : f[at] = Step(h, cells, at)
  <2> SUFFICES ASSUME NEW at \in 1 .. N PROVE f[at] = Step(h, cells, at)
    OBVIOUS
  <2>1. f[at] = Step(f, cells, at) BY <1>0, <1>5
  <2>2. \A i \in at + 1 .. N : f[i] = h[i] BY <1>0, <1>6
  <2> HIDE DEF h
  <2>3. Step(f, cells, at) = Step(h, cells, at) BY <1>0, <2>2, StepSame
  <2> QED BY <2>1, <2>3
<1>8. h = [at \in 1 .. N |-> Step(h, cells, at)] BY <1>7
<1>9. Walk(h, cells)
  <2> HIDE DEF h
  <2> QED BY <1>0, <1>8 DEF Walk
<1> QED BY <1>9

LEMMA RunWalk ==
    ASSUME NEW cells \in Area
    PROVE  \E f : /\ Run(cells) = f[1]
                  /\ \A at \in 1 .. Capacity + 1 : f[at] = Step(f, cells, at)
<1> DEFINE C(f) == f = [at \in 1 .. Capacity + 1 |->
                          IF ValidAt(cells, at)
                          THEN <<cells[at].frame>> \o f[at + cells[at].frame.len]
                          ELSE <<>>]
<1> DEFINE f == CHOOSE f : C(f)
<1>1. \E g : C(g) BY WalkExists DEF Walk, Step
<1>2. C(f)
  <2> HIDE DEF C
  <2> QED BY <1>1
<1>3. Run(cells) = f[1] BY DEF Run
<1> DEFINE g == [at \in 1 .. Capacity + 1 |-> Step(f, cells, at)]
<1>4. f = g BY <1>2 DEF Step
<1>5. \A at \in 1 .. Capacity + 1 : g[at] = Step(f, cells, at) OBVIOUS
<1> HIDE DEF f, g
<1> QED BY <1>3, <1>4, <1>5

\* The run is frames the cells hold, and continues any frames they hold.
LEMMA RunHolds ==
    ASSUME NEW cells \in Area
    PROVE  Run(cells) \in Seq(Frame) /\ Holds(cells, Run(cells))
<1>1. PICK f : /\ Run(cells) = f[1]
               /\ \A at \in 1 .. Capacity + 1 : f[at] = Step(f, cells, at)
  BY RunWalk
<1> DEFINE N == Capacity + 1
<1>0. N \in Nat /\ N = Capacity + 1 /\ 1 \in 1 .. N BY ShapesAssumption
<1> DEFINE From(at) == /\ f[at] \in Seq(Frame)
                       /\ \A F \in Seq(Frame) :
                            Holds(cells, F) /\ Size(F) + 1 = at => Holds(cells, F \o f[at])
<1> DEFINE T == {at \in Nat : From(at)}
<1> HIDE DEF N
<1>2. ASSUME NEW at \in 1 .. N, \A j \in at + 1 .. N : j \in T PROVE at \in T
  <2>1. f[at] = Step(f, cells, at) BY <1>0, <1>1
  <2>2. CASE ~ ValidAt(cells, at)
    <3>1. f[at] = <<>> BY <2>1, <2>2 DEF Step
    <3>2. \A F \in Seq(Frame) : F \o <<>> = F BY ConcatEmptySeq
    <3>3. f[at] \in Seq(Frame) BY <3>1, EmptySeq
    <3>4. From(at) BY <3>1, <3>2, <3>3
    <3> HIDE DEF From
    <3> QED BY <3>4
  <2>3. CASE ValidAt(cells, at)
    <3>1. PICK e \in Frame, l \in Nat \ {0} :
            e = cells[at].frame /\ l = e.len /\ at + l \in at + 1 .. N
      BY <1>0, <2>3, ValidFacts
    <3>2. From(at + l) BY <1>2, <3>1
    <3>3. PICK r \in Seq(Frame) : r = f[at + l] BY <3>2
    <3>4. f[at] = <<e>> \o r BY <2>1, <2>3, <3>1, <3>3 DEF Step
    <3>5. PICK E \in Seq(Frame) : E = <<e>> BY LayoutOne
    <3>6. f[at] = E \o r /\ E \o r \in Seq(Frame) BY <3>4, <3>5, ConcatProperties
    <3>7. ASSUME NEW F \in Seq(Frame), Holds(cells, F), Size(F) + 1 = at
          PROVE  Holds(cells, F \o f[at])
      <4>1. /\ F \o E \in Seq(Frame) /\ Size(F \o E) = Size(F) + l
            /\ Holds(cells, F \o E)
        BY <2>3, <3>1, <3>5, <3>7, HoldsNext
      <4>2. Size(F) \in Nat BY LayoutType
      <4>3. Size(F \o E) + 1 = at + l BY <3>7, <4>1, <4>2
      <4>4. Holds(cells, (F \o E) \o r) BY <3>2, <3>3, <4>1, <4>3
      <4>5. (F \o E) \o r = F \o (E \o r) BY ConcatAssociative
      <4> QED BY <3>6, <4>4, <4>5
    <3>8. From(at) BY <3>6, <3>7
    <3> HIDE DEF From
    <3> QED BY <3>8
  <2> QED BY <2>2, <2>3
<1>3. \A at \in 1 .. N : at \in T
  <2> HIDE DEF T
  <2> QED BY <1>0, <1>2, DownFrom
<1>4. From(1)
  <2>1. 1 \in T
    <3> HIDE DEF T
    <3> QED BY <1>0, <1>3
  <2> QED BY <2>1
<1>5. PICK r \in Seq(Frame) : r = Run(cells) /\ r = f[1] BY <1>1, <1>4
<1>6. <<>> \in Seq(Frame) /\ Holds(cells, <<>>) /\ Size(<<>>) + 1 = 1
  BY LayoutEmpty, EmptySeq, ShapesAssumption DEF Holds
<1>7. Holds(cells, <<>> \o r) BY <1>4, <1>5, <1>6
<1>8. <<>> \o r = r BY ConcatEmptySeq
<1> QED BY <1>5, <1>7, <1>8

LEMMA FramesAssociate ==
    \A a, b, c \in Seq(Frame) : (a \o b) \o c = a \o (b \o c)
BY ConcatAssociative

LEMMA RunContinues ==
    ASSUME NEW cells \in Area, NEW F \in Seq(Frame), Holds(cells, F)
    PROVE  \E G \in Seq(Frame) : Run(cells) = F \o G
<1>1. PICK f : /\ Run(cells) = f[1]
               /\ \A at \in 1 .. Capacity + 1 : f[at] = Step(f, cells, at)
  BY RunWalk
<1>2. PICK run \in Seq(Frame) : run = Run(cells) BY RunHolds
<1> DEFINE Q(H) == f[Size(H) + 1] \in Seq(Frame) /\ run = H \o f[Size(H) + 1]
<1> DEFINE T == {n \in Nat : \A H \in Seq(Frame) : Len(H) = n /\ Holds(cells, H) => Q(H)}
<1>3. 0 \in T
  <2> SUFFICES ASSUME NEW H \in Seq(Frame), Len(H) = 0 PROVE Q(H)
    OBVIOUS
  <2>1. H = <<>> /\ Size(H) + 1 = 1 BY EmptySeq, LayoutEmpty
  <2>2. f[Size(H) + 1] = run BY <1>1, <1>2, <2>1
  <2>3. <<>> \o run = run BY ConcatEmptySeq
  <2> QED BY <2>1, <2>2, <2>3
<1>4. ASSUME NEW n \in Nat, n \in T PROVE n + 1 \in T
  <2> SUFFICES ASSUME NEW H \in Seq(Frame), Len(H) = n + 1, Holds(cells, H) PROVE Q(H)
    OBVIOUS
  <2>1. H # <<>> BY EmptySeq
  <2>2. PICK J \in Seq(Frame), e \in Frame : H = Append(J, e)
    BY <2>1, SequenceEmptyOrAppend
  <2>3. H = J \o <<e>> BY <2>2, AppendIsConcat
  <2>4. Len(J) = n BY <2>2, AppendProperties, LenProperties
  <2>5. /\ Holds(cells, J) /\ ValidAt(cells, Size(J) + 1)
        /\ cells[Size(J) + 1].frame = e
    BY <2>3, HoldsValid
  <2>6. Q(J) BY <1>4, <2>4, <2>5
  <2>7. PICK a \in Nat : a = Size(J) + 1 BY LayoutType
  <2>8. PICK l \in Nat : l = e.len BY DEF Frame
  <2>9. f[a] = <<e>> \o f[a + l] /\ a + l \in 1 .. Capacity + 1
    <3>1. a \in 1 .. Capacity /\ a + l \in a + 1 .. Capacity + 1
      BY <2>5, <2>7, <2>8, ValidFacts
    <3>2. a \in 1 .. Capacity + 1 /\ a + l \in 1 .. Capacity + 1
      BY <2>7, <3>1, ShapesAssumption
    <3>3. f[a] = Step(f, cells, a) BY <1>1, <3>2
    <3> QED BY <2>5, <2>7, <2>8, <3>2, <3>3 DEF Step
  <2>10. Size(H) + 1 = a + l
    <3>1. PICK E \in Seq(Frame) : E = <<e>> /\ Size(E) = l BY <2>8, LayoutOne
    <3>2. Size(J \o E) = Size(J) + Size(E) BY LayoutConcat
    <3> QED BY <2>3, <2>7, <3>1, <3>2, LayoutType
  <2>11. f[a + l] \in Seq(Frame)
    <3> DEFINE Good == {at \in Nat : f[at] \in Seq(Frame)}
    <3>1. ASSUME NEW at \in 1 .. Capacity + 1, \A j \in at + 1 .. Capacity + 1 : j \in Good
          PROVE  at \in Good
      <4>1. f[at] = Step(f, cells, at) BY <1>1
      <4>2. CASE ValidAt(cells, at)
        <5>1. PICK g \in Frame, k \in Nat :
                g = cells[at].frame /\ k = g.len /\ at + k \in at + 1 .. Capacity + 1
          BY <4>2, ValidFacts
        <5>2. PICK r \in Seq(Frame) : r = f[at + k] BY <3>1, <5>1
        <5>3. PICK E \in Seq(Frame) : E = <<g>> BY LayoutOne
        <5>4. f[at] = E \o r BY <4>1, <4>2, <5>1, <5>2, <5>3 DEF Step
        <5>5. f[at] \in Seq(Frame) BY <5>4, ConcatProperties
        <5> QED BY <5>5, ShapesAssumption
      <4>3. CASE ~ ValidAt(cells, at)
        <5>1. f[at] = <<>> BY <4>1, <4>3 DEF Step
        <5>2. f[at] \in Seq(Frame) BY <5>1, EmptySeq
        <5> QED BY <5>2, ShapesAssumption
      <4> QED BY <4>2, <4>3
    <3>2. Capacity + 1 \in Nat BY ShapesAssumption
    <3>3. \A at \in 1 .. Capacity + 1 : at \in Good
      <4> HIDE DEF Good
      <4> QED BY <3>1, <3>2, DownFrom
    <3>4. a + l \in Good
      <4> HIDE DEF Good
      <4> QED BY <2>9, <3>3
    <3> QED BY <3>4
  <2>12. run = J \o (<<e>> \o f[a + l]) BY <2>6, <2>7, <2>9
  <2>13. PICK r \in Seq(Frame), E \in Seq(Frame) : r = f[a + l] /\ E = <<e>>
    BY <2>11, LayoutOne
  <2>14. (J \o E) \o r = J \o (E \o r) BY FramesAssociate, ZenonT(40)
  <2>15. run = H \o r BY <2>3, <2>12, <2>13, <2>14
  <2> QED BY <2>10, <2>11, <2>13, <2>15
<1>5. PICK n \in Nat : n = Len(F) BY LenProperties
<1>6. \A i \in 0 .. n : i \in T
  <2> HIDE DEF T
  <2> QED BY <1>3, <1>4, UpTo
<1>7. n \in T
  <2> HIDE DEF T
  <2> QED BY <1>6
<1>8. Q(F) BY <1>5, <1>7
<1> QED BY <1>2, <1>8

--------------------
\* Recovery: the run up to its last marker, which no committed prefix exceeds.
Closed(frames) == frames # <<>> => IsMarker(frames[Len(frames)])

LEMMA Cut ==
    ASSUME NEW s \in Seq(Frame), NEW m \in 0 .. Len(s)
    PROVE  /\ SubSeq(s, 1, m) \in Seq(Frame) /\ Len(SubSeq(s, 1, m)) = m
           /\ SubSeq(s, m + 1, Len(s)) \in Seq(Frame)
           /\ s = SubSeq(s, 1, m) \o SubSeq(s, m + 1, Len(s))
           /\ \A i \in 1 .. m : SubSeq(s, 1, m)[i] = s[i]
<1>1. Len(s) \in Nat /\ \A i \in 1 .. Len(s) : s[i] \in Frame
  BY LenProperties, ElementOfSeq
<1>2. /\ SubSeq(s, 1, m) \in Seq(Frame) /\ Len(SubSeq(s, 1, m)) = m
      /\ \A i \in 1 .. m : SubSeq(s, 1, m)[i] = s[i]
  <2>1. \A i \in 1 .. m : s[i] \in Frame BY <1>1
  <2>2. /\ SubSeq(s, 1, m) \in Seq(Frame)
        /\ Len(SubSeq(s, 1, m)) = IF 1 <= m THEN m - 1 + 1 ELSE 0
        /\ \A i \in 1 .. m - 1 + 1 : SubSeq(s, 1, m)[i] = s[1 + i - 1]
    BY <1>1, <2>1, SubSeqProperties
  <2> QED BY <1>1, <2>2
<1>3. SubSeq(s, m + 1, Len(s)) \in Seq(Frame)
  <2>1. \A i \in m + 1 .. Len(s) : s[i] \in Frame BY <1>1
  <2> QED BY <1>1, <2>1, SubSeqProperties
<1>4. SubSeq(s, 1, m) \o SubSeq(s, m + 1, Len(s)) = SubSeq(s, 1, Len(s))
  <2>1. 1 \in 1 .. Len(s) + 1 /\ m \in 1 - 1 .. Len(s) /\ Len(s) \in m .. Len(s) BY <1>1
  <2> QED BY <2>1, ConcatAdjacentSubSeq
<1>5. SubSeq(s, 1, Len(s)) = s BY SubSeqFull
<1> QED BY <1>2, <1>3, <1>4, <1>5

LEMMA LastMarker ==
    ASSUME NEW s \in Seq(Frame)
    PROVE  LET m == SelectLastInSeq(s, IsMarker) IN
           /\ m \in 0 .. Len(s)
           /\ m # 0 => IsMarker(s[m])
           /\ \A i \in 1 .. Len(s) : IsMarker(s[i]) => i <= m
<1> DEFINE I == {i \in 1 .. Len(s) : IsMarker(s[i])}
<1>1. SelectLastInSeq(s, IsMarker) = IF I # {} THEN Max(I) ELSE 0
  BY DEF SelectLastInSeq, IsMarker
<1>2. Len(s) \in Nat BY LenProperties
<1>3. I \subseteq Nat /\ \A x \in I : x <= Len(s) BY <1>2
<1>4. CASE I = {} BY <1>1, <1>2, <1>4
<1>5. CASE I # {}
  <2>1. Max(I) \in I /\ \A x \in I : x <= Max(I)
    <3> HIDE DEF I
    <3> QED BY <1>2, <1>3, <1>5, MaxIsGreatest
  <2> QED BY <1>1, <1>2, <1>5, <2>1
<1> QED BY <1>4, <1>5

LEMMA RecoveredHolds ==
    ASSUME NEW cells \in Area
    PROVE  /\ Recovered(cells) \in Seq(Frame)
           /\ Holds(cells, Recovered(cells))
           /\ Closed(Recovered(cells))
<1>1. PICK run \in Seq(Frame) : run = Run(cells) /\ Holds(cells, run) BY RunHolds
<1>2. PICK m \in 0 .. Len(run) :
        /\ m = SelectLastInSeq(run, IsMarker)
        /\ m # 0 => IsMarker(run[m])
  BY LastMarker
<1>3. PICK R \in Seq(Frame), Q \in Seq(Frame) :
        /\ R = SubSeq(run, 1, m) /\ Len(R) = m /\ run = R \o Q
        /\ \A i \in 1 .. m : R[i] = run[i]
  BY Cut
<1>4. Recovered(cells) = R BY <1>1, <1>2, <1>3 DEF Recovered
<1>5. Holds(cells, R) BY <1>1, <1>3, HoldsPrefix
<1>6. Closed(R)
  <2> SUFFICES ASSUME R # <<>> PROVE IsMarker(R[m])
    BY <1>3 DEF Closed
  <2>1. m # 0 BY <1>3, EmptySeq
  <2>2. m \in 1 .. m BY <2>1, LenProperties
  <2> QED BY <1>2, <1>3, <2>1, <2>2
<1> QED BY <1>4, <1>5, <1>6

LEMMA RecoveredContinues ==
    ASSUME NEW cells \in Area, NEW F \in Seq(Frame), Holds(cells, F), Closed(F)
    PROVE  \E G \in Seq(Frame) : Recovered(cells) = F \o G
<1>1. PICK G \in Seq(Frame) : Run(cells) = F \o G BY RunContinues
<1>2. PICK run \in Seq(Frame) : run = Run(cells) BY RunHolds
<1>3. PICK R \in Seq(Frame) : R = Recovered(cells) BY RecoveredHolds
<1>4. PICK m \in 0 .. Len(run) :
        /\ m = SelectLastInSeq(run, IsMarker)
        /\ \A i \in 1 .. Len(run) : IsMarker(run[i]) => i <= m
  BY LastMarker
<1>5. R = SubSeq(run, 1, m) BY <1>2, <1>3, <1>4 DEF Recovered
<1>6. CASE F = <<>>
  <2>1. <<>> \o R = R BY ConcatEmptySeq
  <2> QED BY <1>3, <1>6, <2>1
<1>7. CASE F # <<>>
  <2>1. PICK k \in Nat : k = Len(F) /\ k # 0 /\ Len(run) \in Nat
    BY <1>7, EmptySeq, LenProperties
  <2>2. IsMarker(F[k]) BY <1>7, <2>1 DEF Closed
  <2>3. Len(run) = k + Len(G) /\ Len(G) \in Nat /\ \A i \in 1 .. k : run[i] = F[i]
    <3>1. Len(G) \in Nat BY LenProperties
    <3>2. \A i \in 1 .. k + Len(G) : run[i] = IF i <= k THEN F[i] ELSE G[i - k]
      BY <1>1, <1>2, <2>1, ConcatProperties
    <3>3. Len(run) = k + Len(G) BY <1>1, <1>2, <2>1, ConcatProperties
    <3>4. \A i \in 1 .. k : i \in 1 .. k + Len(G) /\ i <= k BY <3>1
    <3> QED BY <3>1, <3>2, <3>3, <3>4
  <2>4. k \in 1 .. k /\ k \in 1 .. Len(run) BY <2>1, <2>3
  <2>5. k <= m /\ m \in Nat /\ m <= Len(run)
    <3>1. run[k] = F[k] BY <2>3, <2>4
    <3>2. IsMarker(run[k]) BY <2>2, <3>1
    <3>3. k <= m BY <1>4, <2>4, <3>2, Zenon
    <3>4. m \in Nat /\ m <= Len(run) BY <2>1
    <3> QED BY <3>3, <3>4
  <2>6. SubSeq(run, 1, k) \o SubSeq(run, k + 1, m) = SubSeq(run, 1, m)
    <3>1. 1 \in 1 .. Len(run) + 1 /\ k \in 1 - 1 .. Len(run) /\ m \in k .. Len(run)
      BY <2>1, <2>5
    <3> QED BY <3>1, ConcatAdjacentSubSeq
  <2>7. SubSeq(run, 1, k) = F
    <3>1. PICK P \in Seq(Frame) : P = SubSeq(run, 1, k) /\ Len(P) = k
                                  /\ \A i \in 1 .. k : P[i] = run[i]
      <4>1. k \in 0 .. Len(run) BY <2>1, <2>4
      <4> QED BY <4>1, Cut
    <3>2. \A i \in 1 .. Len(P) : P[i] = F[i] BY <2>3, <3>1
    <3>3. P = F BY <2>1, <3>1, <3>2, SeqEqual
    <3> QED BY <3>1, <3>3
  <2>8. SubSeq(run, k + 1, m) \in Seq(Frame)
    <3>1. \A i \in k + 1 .. m : run[i] \in Frame
      <4> SUFFICES ASSUME NEW i \in k + 1 .. m PROVE run[i] \in Frame
        OBVIOUS
      <4>1. i \in 1 .. Len(run) BY <2>1, <2>5
      <4> QED BY <4>1, ElementOfSeq
    <3>2. k + 1 \in Int /\ m \in Int BY <2>1, <2>5
    <3> QED BY <3>1, <3>2, SubSeqProperties
  <2> QED BY <1>3, <1>5, <2>6, <2>7, <2>8
<1> QED BY <1>6, <1>7

\* The end of a sequence of frames, and frames written behind others.
LEMMA Ending ==
    ASSUME NEW l \in Seq(Frame), NEW b \in 1 .. Len(l) + 1
    PROVE  /\ SubSeq(l, b, Len(l)) \in Seq(Frame)
           /\ Len(SubSeq(l, b, Len(l))) = Len(l) - b + 1
           /\ \A i \in 1 .. Len(l) - b + 1 : SubSeq(l, b, Len(l))[i] = l[b + i - 1]
<1>1. PICK n \in Nat : n = Len(l) /\ \A i \in 1 .. n : l[i] \in Frame
  BY LenProperties, ElementOfSeq
<1>2. b \in Int /\ n \in Int /\ b \in 1 .. n + 1 BY <1>1
<1>3. \A i \in b .. n : l[i] \in Frame BY <1>1, <1>2
<1>4. /\ SubSeq(l, b, n) \in Seq(Frame)
      /\ Len(SubSeq(l, b, n)) = IF b <= n THEN n - b + 1 ELSE 0
      /\ \A i \in 1 .. n - b + 1 : SubSeq(l, b, n)[i] = l[b + i - 1]
  BY <1>2, <1>3, SubSeqProperties
<1>5. (IF b <= n THEN n - b + 1 ELSE 0) = n - b + 1 BY <1>2
<1> QED BY <1>1, <1>4, <1>5

LEMMA TailGrows ==
    ASSUME NEW l \in Seq(Frame), NEW r \in Seq(Frame), NEW b \in 1 .. Len(l) + 1
    PROVE  SubSeq(l, b, Len(l)) \o r = SubSeq(l \o r, b, Len(l \o r))
<1>1. PICK n \in Nat, m \in Nat : n = Len(l) /\ m = Len(r) BY LenProperties
<1>2. PICK t \in Seq(Frame) : t = l \o r BY ConcatProperties
<1>3. Len(t) = n + m /\ \A i \in 1 .. n + m : t[i] = IF i <= n THEN l[i] ELSE r[i - n]
  BY <1>1, <1>2, ConcatProperties
<1>4. PICK k \in Nat : k = n - b + 1 /\ b = n - k + 1 /\ b \in Nat BY <1>1
<1>5. PICK x \in Seq(Frame) :
        x = SubSeq(l, b, n) /\ Len(x) = k /\ \A i \in 1 .. k : x[i] = l[b + i - 1]
  BY <1>1, <1>4, Ending
<1>6. b \in 1 .. Len(t) + 1 /\ Len(t) - b + 1 = k + m BY <1>1, <1>3, <1>4
<1>7. PICK y \in Seq(Frame) :
        y = SubSeq(t, b, Len(t)) /\ Len(y) = k + m /\ \A i \in 1 .. k + m : y[i] = t[b + i - 1]
  BY <1>6, Ending, ZenonT(40)
<1>8. PICK z \in Seq(Frame) : z = x \o r BY ConcatProperties
<1>9. Len(z) = k + m /\ \A i \in 1 .. k + m : z[i] = IF i <= k THEN x[i] ELSE r[i - k]
  <2>1. Len(x) = k /\ Len(r) = m BY <1>1, <1>5
  <2>2. /\ Len(x \o r) = Len(x) + Len(r)
        /\ \A i \in 1 .. Len(x) + Len(r) :
             (x \o r)[i] = IF i <= Len(x) THEN x[i] ELSE r[i - Len(x)]
    BY ConcatProperties
  <2> QED BY <1>8, <2>1, <2>2
<1>10. ASSUME NEW i \in 1 .. k + m PROVE z[i] = y[i]
  <2>1. b + i - 1 \in 1 .. n + m /\ (b + i - 1 <= n <=> i <= k) /\ (b + i - 1) - n = i - k
    BY <1>1, <1>4
  <2>2. y[i] = IF i <= k THEN l[b + i - 1] ELSE r[i - k] BY <1>3, <1>7, <2>1
  <2>3. i <= k => i \in 1 .. k BY <1>4
  <2> QED BY <1>5, <1>9, <2>2, <2>3
<1>11. z = y BY <1>7, <1>9, <1>10, SeqEqual
<1> QED BY <1>1, <1>2, <1>5, <1>7, <1>8, <1>11

LEMMA HoldsConcat ==
    ASSUME NEW c, NEW F \in Seq(Frame), NEW G \in Seq(Frame), Holds(c, F),
           Size(F) + Size(G) <= Capacity,
           \A i \in 1 .. Size(G) : c[Size(F) + i] = Layout(G)[i]
    PROVE  Holds(c, F \o G)
<1>1. PICK n \in Nat, m \in Nat : n = Size(F) /\ m = Size(G) BY LayoutType
<1>2. PICK a \in Seq(Cell), b \in Seq(Cell) :
        a = Layout(F) /\ b = Layout(G) /\ Len(a) = n /\ Len(b) = m
  BY <1>1, LayoutType DEF Size
<1>3. Layout(F \o G) = a \o b /\ Size(F \o G) = n + m
  BY <1>1, <1>2, LayoutConcat, ZenonT(40)
<1>4. \A i \in 1 .. n + m : (a \o b)[i] = IF i <= n THEN a[i] ELSE b[i - n]
  <2>1. \A i \in 1 .. Len(a) + Len(b) :
          (a \o b)[i] = IF i <= Len(a) THEN a[i] ELSE b[i - Len(a)]
    BY ConcatProperties
  <2> QED BY <1>2, <2>1
<1>5. ASSUME NEW i \in 1 .. n + m PROVE c[i] = (a \o b)[i]
  <2>1. CASE i <= n
    <3>1. i \in 1 .. n BY <2>1
    <3>2. c[i] = a[i] BY <1>1, <1>2, <3>1 DEF Holds
    <3> QED BY <1>4, <2>1, <3>2
  <2>2. CASE ~ (i <= n)
    <3>1. i - n \in 1 .. m /\ n + (i - n) = i BY <2>2
    <3>2. c[n + (i - n)] = b[i - n] BY <1>1, <1>2, <3>1
    <3> QED BY <1>4, <2>2, <3>1, <3>2
  <2> QED BY <2>1, <2>2
<1> QED BY <1>1, <1>3, <1>5 DEF Holds

LEMMA ClosedConcat ==
    ASSUME NEW F \in Seq(Frame), NEW G \in Seq(Frame), Closed(F), Closed(G)
    PROVE  Closed(F \o G)
<1>1. CASE G = <<>>
  <2>1. F \o G = F BY <1>1, ConcatEmptySeq
  <2> QED BY <2>1
<1>2. CASE G # <<>>
  <2>1. PICK n \in Nat, m \in Nat : n = Len(F) /\ m = Len(G) /\ m # 0
    BY <1>2, LenProperties, EmptySeq
  <2>2. PICK H \in Seq(Frame) : H = F \o G BY ConcatProperties
  <2>3. Len(H) = n + m /\ \A i \in 1 .. n + m : H[i] = IF i <= n THEN F[i] ELSE G[i - n]
    BY <2>1, <2>2, ConcatProperties
  <2>4. n + m \in 1 .. n + m /\ ~ (n + m <= n) /\ (n + m) - n = m BY <2>1
  <2>5. H[n + m] = G[m] BY <2>3, <2>4
  <2>6. IsMarker(G[m]) BY <1>2, <2>1 DEF Closed
  <2>7. Closed(H) BY <2>3, <2>5, <2>6 DEF Closed
  <2> QED BY <2>2, <2>7
<1> QED BY <1>1, <1>2

--------------------
\* The inductive invariant, of the behaviours that no flaw has touched. Under the cursor of the
\* active segment the page cache holds frames, up to a marker, and their records are the end of
\* the log. A position is anchored when append_batch returned it or when a later segment was
\* created: it is in a segment whose header is synced, in frames up to a marker that cache and
\* disk both hold and no write touches. Of the rest of the log the disk may lack any part: it came
\* back from the page cache, and nothing has synced it since.
File ==
    {f \in [header : BOOLEAN, firm : BOOLEAN, cache : Area, disk : Area] : f.firm => f.header}

Types ==
    /\ \A b \in DOMAIN files : b \in 1 .. Len(log) + 1 /\ files[b] \in File
    /\ pc \in Phases
    /\ base \in Nat /\ offset \in Nat /\ drift \in Nat /\ batches \in Nat
    /\ log \in Seq(Frame) /\ batch \in Seq(Frame) /\ promised \in Seq(Frame)

InBatch == pc \in {"create", "header", "write", "sync"}

BatchFits ==
    /\ InBatch => batch # <<>> /\ Closed(batch) /\ Size(batch) <= Capacity
    /\ pc \in {"write", "sync"} => offset + Size(batch) <= Capacity
    /\ pc = "sync" /\ drift = 0 =>
        \A i \in 1 .. Size(batch) : files[base].cache[offset + i] = Layout(batch)[i]

Creation ==
    /\ pc = "header" => /\ NextPosition \in DOMAIN files /\ ~ files[NextPosition].header
                        /\ ~ Volatile
    /\ pc = "first" => log = <<>> /\ DOMAIN files = {1} /\ ~ files[1].header

Kept(b, F) == Holds(files[b].cache, F) /\ Holds(files[b].disk, F)

UnderCursor(F) ==
    /\ Holds(files[base].cache, F)
    /\ Size(F) = offset
    /\ Closed(F)
    /\ Records(F) = SubSeq(log, base, Len(log))

CursorInv ==
    IsOpen => /\ base \in Written /\ base \in 1 .. Len(log) + 1
              /\ \E F \in Seq(Frame) : UnderCursor(F)

Safe(b, F) ==
    /\ b \in Written /\ files[b].firm
    /\ Kept(b, F)
    /\ b = base => Size(F) <= offset

Serves(b, F, p) ==
    /\ Closed(F)
    /\ p - b + 1 \in 1 .. Len(Records(F))
    /\ Records(F)[p - b + 1] = log[p]
    /\ b <= base /\ (b < base => p < base)

Anchored(p) == p <= Len(promised) \/ \E x \in Written : p < x

Stored(p) == \E b \in Nat : \E F \in Seq(Frame) : Safe(b, F) /\ Serves(b, F, p)

StoredInv == \A p \in 1 .. Len(log) : Anchored(p) => Stored(p)

Promise == Len(promised) <= Len(log) /\ \A i \in 1 .. Len(promised) : promised[i] = log[i]

LogInv == Types /\ BatchFits /\ Creation /\ CursorInv /\ StoredInv /\ Promise

--------------------
\* What every step relies on.
LEMMA LogFacts ==
    ASSUME LogInv
    PROVE  /\ Len(log) \in Nat /\ NextPosition = Len(log) + 1 /\ NextPosition \in Nat \ {0}
           /\ Written \subseteq 1 .. Len(log) + 1
           /\ Size(batch) \in Nat /\ Layout(batch) \in Seq(Cell) /\ Len(Layout(batch)) = Size(batch)
           /\ Capacity \in Nat /\ Fresh \in Area
<1>1. log \in Seq(Frame) /\ batch \in Seq(Frame) BY DEF LogInv, Types
<1>2. Len(log) \in Nat BY <1>1, LenProperties
<1>3. Written \subseteq 1 .. Len(log) + 1 BY DEF LogInv, Types, Written
<1>4. Size(batch) \in Nat /\ Layout(batch) \in Seq(Cell) BY <1>1, LayoutType
<1>5. Fresh \in Area BY DEF Fresh, Area, Cell
<1> QED BY <1>2, <1>3, <1>4, <1>5, ShapesAssumption DEF NextPosition, Size

LEMMA FileFacts ==
    ASSUME NEW h \in BOOLEAN, NEW m \in BOOLEAN, m => h, NEW c \in Area, NEW d \in Area,
           NEW f, f = [header |-> h, firm |-> m, cache |-> c, disk |-> d]
    PROVE  f \in File /\ f.header = h /\ f.firm = m /\ f.cache = c /\ f.disk = d
BY DEF File

LEMMA NewFileFacts ==
    ASSUME NEW h \in BOOLEAN, NEW m \in BOOLEAN, m => h
    PROVE  /\ NewFile(h, m) \in File /\ NewFile(h, m).header = h /\ NewFile(h, m).firm = m
           /\ NewFile(h, m).cache = Fresh /\ NewFile(h, m).disk = Fresh
<1>1. Fresh \in Area BY DEF Fresh, Area, Cell
<1>2. PICK f : f = [header |-> h, firm |-> m, cache |-> Fresh, disk |-> Fresh] OBVIOUS
<1>3. f \in File /\ f.header = h /\ f.firm = m /\ f.cache = Fresh /\ f.disk = Fresh
  BY <1>1, <1>2, FileFacts
<1>4. NewFile(h, m) = f BY <1>2 DEF NewFile
<1> QED BY <1>3, <1>4

LEMMA FileParts ==
    ASSUME NEW f \in File
    PROVE  /\ f.header \in BOOLEAN /\ f.firm \in BOOLEAN /\ (f.firm => f.header)
           /\ f.cache \in Area /\ f.disk \in Area
BY DEF File

\* A step that loses no frames loses no position, when the log and the cursor's segment stay.
LEMMA StoredFrom ==
    ASSUME UNCHANGED <<log, base>>, NEW p, Stored(p),
           \A b \in Nat : \A F \in Seq(Frame) : Safe(b, F) => Safe(b, F)'
    PROVE  Stored(p)'
<1>1. PICK b \in Nat : \E F \in Seq(Frame) : Safe(b, F) /\ Serves(b, F, p) BY DEF Stored
<1>2. PICK F \in Seq(Frame) : Safe(b, F) /\ Serves(b, F, p) BY <1>1
<1>3. Safe(b, F)' BY <1>2
<1>4. Serves(b, F, p)' BY <1>2 DEF Serves
<1> QED BY <1>3, <1>4 DEF Stored

LEMMA StoredStays ==
    ASSUME LogInv, UNCHANGED <<log, base, promised>>, Written' \subseteq Written,
           \A b \in Nat : \A F \in Seq(Frame) : Safe(b, F) => Safe(b, F)'
    PROVE  StoredInv'
<1> SUFFICES ASSUME NEW p \in 1 .. Len(log), Anchored(p)' PROVE Stored(p)'
  BY DEF StoredInv
<1>1. Anchored(p) BY DEF Anchored
<1>2. Stored(p) BY <1>1 DEF LogInv, StoredInv
<1> QED BY <1>2, StoredFrom

\* When nothing the open set relies on is in the page cache only, every position is stored.
LEMMA StoredAll ==
    ASSUME LogInv, IsOpen, ~ Volatile, NEW p \in 1 .. Len(log)
    PROVE  Stored(p)
<1>1. base \in Written /\ base \in 1 .. Len(log) + 1 /\ offset \in Nat /\ log \in Seq(Frame)
  BY DEF LogInv, CursorInv, Types
<1>2. PICK n \in Nat : n = Len(log) BY LogFacts
<1>3. CASE p < base
  <2>1. Anchored(p) BY <1>1, <1>3 DEF Anchored
  <2> QED BY <2>1 DEF LogInv, StoredInv
<1>4. CASE ~ (p < base)
  <2>1. PICK F \in Seq(Frame) : UnderCursor(F) BY DEF LogInv, CursorInv
  <2>2. Holds(files[base].cache, F) /\ Size(F) = offset /\ Closed(F) BY <2>1 DEF UnderCursor
  <2>3. files[base].firm /\ \A i \in 1 .. offset : files[base].cache[i] = files[base].disk[i]
    BY DEF Volatile
  <2>4. Holds(files[base].disk, F) BY <2>2, <2>3 DEF Holds
  <2>5. Safe(base, F) BY <1>1, <2>2, <2>3, <2>4 DEF Safe, Kept
  <2>6. base \in Nat /\ base <= p /\ p - base + 1 \in 1 .. n - base + 1 /\ base + (p - base + 1) - 1 = p
    BY <1>1, <1>2, <1>4
  <2>7. /\ Len(Records(F)) = n - base + 1
        /\ \A i \in 1 .. n - base + 1 : Records(F)[i] = log[base + i - 1]
    BY <1>1, <1>2, <2>1, Ending DEF UnderCursor
  <2>8. Records(F)[p - base + 1] = log[p] BY <2>6, <2>7
  <2>9. Serves(base, F, p) BY <2>2, <2>6, <2>7, <2>8 DEF Serves
  <2> QED BY <2>5, <2>6, <2>9 DEF Stored
<1> QED BY <1>3, <1>4

\* Steps that touch neither files, cursor nor log.
LEMMA NoTouch ==
    ASSUME LogInv, UNCHANGED <<files, base, offset, log, promised>>,
           IsOpen' => IsOpen
    PROVE  CursorInv' /\ StoredInv'
<1>1. CursorInv' BY DEF LogInv, CursorInv, UnderCursor, Written
<1>2. Written' = Written BY DEF Written
<1>3. \A b \in Nat : \A F \in Seq(Frame) : Safe(b, F) => Safe(b, F)'
  BY DEF Safe, Kept, Written
<1>4. StoredInv' BY <1>2, <1>3, StoredStays
<1> QED BY <1>1, <1>4

LEMMA InitInv == Init => LogInv
<1> SUFFICES ASSUME Init PROVE LogInv
  OBVIOUS
<1> USE DEF Init
<1>1. DOMAIN files = {} OBVIOUS
<1>2. <<>> \in Seq(Frame) /\ Len(<<>>) = 0 OBVIOUS
<1>3. Types BY <1>1, <1>2 DEF Types, Phases
<1>4. BatchFits /\ Creation BY <1>1 DEF BatchFits, InBatch, Creation
<1>5. CursorInv BY DEF CursorInv, IsOpen
<1>6. StoredInv /\ Promise BY <1>2 DEF StoredInv, Promise
<1> QED BY <1>3, <1>4, <1>5, <1>6 DEF LogInv

LEMMA FramesFacts ==
    ASSUME log \in Seq(Frame), NEW shape \in Shapes, NEW n \in Nat
    PROVE  /\ Frames(n, shape) \in Seq(Frame) /\ Frames(n, shape) # <<>>
           /\ Closed(Frames(n, shape))
<1>1. shape \in Seq(Nat \ {0}) BY ShapesAssumption
<1>2. PICK k \in Nat : k = Len(shape) /\ DOMAIN shape = 1 .. k BY <1>1, LenProperties
<1>3. \A i \in 1 .. k : shape[i] \in Nat \ {0} BY <1>1, <1>2, ElementOfSeq
<1> DEFINE D == [i \in DOMAIN shape |-> Data(n, i, shape)]
<1> DEFINE M == Marker(n, Len(log) + Len(shape))
<1>4. \A i \in 1 .. k : Data(n, i, shape) \in Frame BY <1>2, <1>3 DEF Data, Frame
<1>5. D \in Seq(Frame) /\ Len(D) = k
  <2>1. D \in [1 .. k -> Frame] BY <1>2, <1>4
  <2> QED BY <2>1
<1>6. M \in Frame /\ IsMarker(M)
  <2>1. Len(log) \in Nat BY LenProperties
  <2> QED BY <1>2, <2>1, ShapesAssumption DEF Marker, Frame, IsMarker
<1>7. Frames(n, shape) = D \o <<M>> BY DEF Frames
<1> HIDE DEF D, M
<1>8. PICK d \in Seq(Frame) : d = D /\ Len(d) = k BY <1>5
<1>9. PICK f \in Seq(Frame) : f = Append(d, M) /\ Len(f) = k + 1 /\ f[k + 1] = M
  BY <1>6, <1>8, AppendProperties
<1>10. Frames(n, shape) = f BY <1>6, <1>7, <1>8, <1>9, AppendIsConcat
<1>11. Closed(f) /\ f # <<>>
  <2>1. Len(f) # 0 BY <1>9
  <2>2. f # <<>> BY <2>1, EmptySeq
  <2> QED BY <1>6, <1>9, <2>2 DEF Closed
<1> QED BY <1>9, <1>10, <1>11

LEMMA BeginInv == ASSUME LogInv, Begin PROVE LogInv'
<1> USE DEF Begin
<1>1. PICK shape \in Shapes :
        /\ Size(Frames(batches + 1, shape)) <= Capacity
        /\ batch' = Frames(batches + 1, shape)
        /\ pc' = IF Size(Frames(batches + 1, shape)) > Capacity - offset THEN "create" ELSE "write"
  OBVIOUS
<1>2. batches + 1 \in Nat BY DEF LogInv, Types
<1>3. batch' \in Seq(Frame) /\ batch' # <<>> /\ Closed(batch')
  BY <1>1, <1>2, FramesFacts DEF LogInv, Types
<1>4. pc' \in {"create", "write"} /\ pc = "idle" BY <1>1
<1>5. Types' BY <1>2, <1>3, <1>4 DEF LogInv, Types, Phases
<1>6. BatchFits'
  <2>1. Size(batch') \in Nat /\ Size(batch') <= Capacity BY <1>1, <1>3, LayoutType
  <2>2. offset \in Nat BY DEF LogInv, Types
  <2>3. pc' = "write" => offset + Size(batch') <= Capacity
    BY <1>1, <2>1, <2>2, ShapesAssumption
  <2> QED BY <1>3, <1>4, <2>1, <2>3 DEF BatchFits
<1>7. Creation' /\ Promise' BY <1>4 DEF LogInv, Creation, Promise
<1>8. CursorInv' /\ StoredInv' BY <1>4, NoTouch DEF IsOpen
<1> QED BY <1>5, <1>6, <1>7, <1>8 DEF LogInv

\* Steps that only give up.
LEMMA QuietInv ==
    ASSUME LogInv, CreateExists \/ CreateFails \/ SyncFails
    PROVE  LogInv'
<1>1. /\ pc \in {"create", "header", "sync"} /\ IsOpen /\ batch' = <<>> /\ pc' = "idle"
      /\ UNCHANGED <<files, base, offset, log, promised, batches>> /\ drift' \in {0, drift}
  BY DEF CreateExists, CreateFails, SyncFails, GiveUp, IsOpen
<1>2. drift' \in Nat BY <1>1 DEF LogInv, Types
<1>3. Types' BY <1>1, <1>2 DEF LogInv, Types, Phases
<1>4. BatchFits' /\ Creation' /\ Promise'
  BY <1>1 DEF LogInv, BatchFits, InBatch, Creation, Promise
<1>5. CursorInv' /\ StoredInv' BY <1>1, NoTouch
<1> QED BY <1>3, <1>4, <1>5 DEF LogInv

LEMMA RefusedInv == ASSUME LogInv, OpenRefused PROVE LogInv'
<1> USE DEF OpenRefused
<1>1. Types' /\ BatchFits' /\ Creation' /\ Promise'
  BY DEF LogInv, Types, Phases, BatchFits, InBatch, Creation, Promise
<1>2. CursorInv' /\ StoredInv' BY NoTouch DEF IsOpen
<1> QED BY <1>1, <1>2 DEF LogInv

\* A new segment. The name it takes is no written segment's.
LEMMA PutFacts ==
    ASSUME LogInv, NEW h \in BOOLEAN, NEW m \in BOOLEAN, m => h,
           files' = Put(NextPosition, NewFile(h, m)), log' = log,
           NextPosition \notin Written
    PROVE  /\ DOMAIN files' = DOMAIN files \cup {NextPosition}
           /\ files'[NextPosition] = NewFile(h, m)
           /\ files'[NextPosition].header = h
           /\ \A b \in DOMAIN files : b # NextPosition => files'[b] = files[b]
           /\ \A b \in DOMAIN files' : b \in 1 .. Len(log) + 1 /\ files'[b] \in File
           /\ Written \subseteq Written'
           /\ Written' = IF h THEN Written \cup {NextPosition} ELSE Written
           /\ \A b \in Written : b # NextPosition /\ files'[b] = files[b]
<1>1. /\ DOMAIN files' = DOMAIN files \cup {NextPosition}
      /\ files'[NextPosition] = NewFile(h, m)
      /\ \A b \in DOMAIN files : b # NextPosition => files'[b] = files[b]
  BY DEF Put
<1>2. NewFile(h, m) \in File /\ NewFile(h, m).header = h BY NewFileFacts
<1>3. NextPosition \in 1 .. Len(log) + 1 BY LogFacts
<1>4. \A b \in DOMAIN files' : b \in 1 .. Len(log) + 1 /\ files'[b] \in File
  BY <1>1, <1>2, <1>3 DEF LogInv, Types
<1>5. \A b \in Written : b # NextPosition /\ files'[b] = files[b] BY <1>1 DEF Written
<1>6. Written \subseteq Written' BY <1>1, <1>5 DEF Written
<1>7. Written' = IF h THEN Written \cup {NextPosition} ELSE Written
  BY <1>1, <1>2, <1>5 DEF Written
<1> QED BY <1>1, <1>2, <1>4, <1>5, <1>6, <1>7

LEMMA PutKeeps ==
    ASSUME LogInv, NEW h \in BOOLEAN, NEW m \in BOOLEAN, m => h,
           files' = Put(NextPosition, NewFile(h, m)),
           NextPosition \notin Written, IsOpen, h => ~ Volatile,
           UNCHANGED <<base, offset, log, promised>>
    PROVE  CursorInv' /\ StoredInv' /\ (~ Volatile => ~ Volatile')
<1>1. /\ Written \subseteq Written'
      /\ Written' = IF h THEN Written \cup {NextPosition} ELSE Written
      /\ \A b \in Written : b # NextPosition /\ files'[b] = files[b]
  BY PutFacts
<1>2. base \in Written /\ base \in 1 .. Len(log) + 1 BY DEF LogInv, CursorInv
<1>3. files'[base] = files[base] BY <1>1, <1>2
<1>4. CursorInv'
  <2>1. PICK F \in Seq(Frame) : UnderCursor(F) BY DEF LogInv, CursorInv
  <2>2. UnderCursor(F)' BY <1>3, <2>1 DEF UnderCursor
  <2> QED BY <1>1, <1>2, <2>2 DEF CursorInv
<1>5. \A b \in Nat : \A F \in Seq(Frame) : Safe(b, F) => Safe(b, F)'
  BY <1>1 DEF Safe, Kept
<1>6. StoredInv'
  <2>1. CASE h
    <3> SUFFICES ASSUME NEW p \in 1 .. Len(log) PROVE Stored(p)'
      BY DEF StoredInv
    <3>1. Stored(p) BY <2>1, StoredAll
    <3> QED BY <1>5, <3>1, StoredFrom
  <2>2. CASE ~ h
    <3>1. Written' \subseteq Written BY <1>1, <2>2
    <3> QED BY <1>5, <3>1, StoredStays
  <2> QED BY <2>1, <2>2
<1>7. ~ Volatile => ~ Volatile' BY <1>3 DEF Volatile
<1> QED BY <1>4, <1>6, <1>7

LEMMA CreateFileInv == ASSUME LogInv, CreateFile, flaws' = {} PROVE LogInv'
<1> USE DEF CreateFile
<1>1. NextPosition \notin Written /\ IsOpen BY DEF Written, IsOpen
<1>2. /\ DOMAIN files' = DOMAIN files \cup {NextPosition}
      /\ ~ files'[NextPosition].header
      /\ \A b \in DOMAIN files' : b \in 1 .. Len(log) + 1 /\ files'[b] \in File
  BY <1>1, PutFacts
<1>3. Types' BY <1>2 DEF LogInv, Types, Phases
<1>4. BatchFits' /\ Promise' BY DEF LogInv, BatchFits, InBatch, Promise
<1>5. ~ Volatile
  <2>1. Volatile => "unsynced" \in flaws' BY DEF FlawedIf
  <2> QED BY <2>1
<1>6. CursorInv' /\ StoredInv' /\ ~ Volatile' BY <1>1, <1>5, PutKeeps
<1>7. Creation'
  <2>1. NextPosition' = NextPosition BY DEF NextPosition
  <2> QED BY <1>2, <1>6, <2>1 DEF Creation
<1> QED BY <1>3, <1>4, <1>6, <1>7 DEF LogInv

LEMMA HeaderFailsInv == ASSUME LogInv, HeaderFails PROVE LogInv'
<1> USE DEF HeaderFails
<1>1. NextPosition \notin Written /\ IsOpen /\ ~ Volatile
  BY DEF LogInv, Creation, Written, IsOpen
<1>2. PICK h \in BOOLEAN : files' = Put(NextPosition, NewFile(h, FALSE)) OBVIOUS
<1>3. \A b \in DOMAIN files' : b \in 1 .. Len(log) + 1 /\ files'[b] \in File
  BY <1>1, <1>2, PutFacts
<1>4. batch' = <<>> /\ pc' = "idle" /\ UNCHANGED <<base, offset, drift, log, promised, batches>>
  BY DEF GiveUp
<1>5. Types'
  <2> HIDE DEF HeaderFails
  <2> QED BY <1>3, <1>4 DEF LogInv, Types, Phases
<1>6. BatchFits' /\ Promise' /\ Creation'
  BY <1>4 DEF LogInv, BatchFits, InBatch, Promise, Creation
<1>7. CursorInv' /\ StoredInv' BY <1>1, <1>2, PutKeeps
<1> QED BY <1>5, <1>6, <1>7 DEF LogInv

\* A fresh segment holds no frame, the part of the log from the position after its end.
LEMMA EmptyCursor ==
    ASSUME NEW cells, NEW l \in Seq(Frame)
    PROVE  /\ <<>> \in Seq(Frame) /\ Holds(cells, <<>>) /\ Size(<<>>) = 0 /\ Closed(<<>>)
           /\ Records(<<>>) = SubSeq(l, Len(l) + 1, Len(l))
<1>1. Len(l) \in Nat BY LenProperties
<1>2. SubSeq(l, Len(l) + 1, Len(l)) = <<>> BY <1>1, SubSeqEmpty
<1>3. <<>> \in Seq(Frame) BY EmptySeq
<1>4. Closed(<<>>) BY DEF Closed
<1>5. Holds(cells, <<>>)
  <2>1. 0 <= Capacity /\ 1 .. 0 = {} BY ShapesAssumption
  <2> QED BY <2>1, LayoutEmpty DEF Holds
<1> QED BY <1>2, <1>3, <1>4, <1>5, LayoutEmpty

LEMMA WriteHeaderInv == ASSUME LogInv, WriteHeader PROVE LogInv'
<1> USE DEF WriteHeader
<1>1. NextPosition \notin Written /\ IsOpen /\ ~ Volatile
  BY DEF LogInv, Creation, Written, IsOpen
<1>2. /\ DOMAIN files' = DOMAIN files \cup {NextPosition}
      /\ files'[NextPosition].header
      /\ \A b \in DOMAIN files' : b \in 1 .. Len(log) + 1 /\ files'[b] \in File
      /\ Written \subseteq Written'
      /\ \A b \in Written : b # NextPosition /\ files'[b] = files[b]
  BY <1>1, PutFacts
<1>3. base' = Len(log) + 1 /\ base' \in Nat \ {0} /\ base' \in 1 .. Len(log) + 1
  BY LogFacts
<1>4. Types' BY <1>2, <1>3 DEF LogInv, Types, Phases
<1>5. BatchFits'
  <2>1. /\ batch # <<>> /\ Closed(batch)
        /\ Size(batch) <= Capacity /\ Size(batch) \in Nat
    BY LogFacts DEF LogInv, BatchFits, InBatch
  <2> QED BY <2>1 DEF BatchFits
<1>6. Promise' /\ Creation' BY DEF LogInv, Promise, Creation
<1>7. CursorInv'
  <2>1. base' \in Written' BY <1>2 DEF Written
  <2>2. log \in Seq(Frame) BY DEF LogInv, Types
  <2>3. UnderCursor(<<>>)'
    <3>1. Holds(files'[base'].cache, <<>>) BY <2>2, EmptyCursor
    <3>2. Size(<<>>) = offset' /\ Closed(<<>>) BY <2>2, EmptyCursor
    <3>3. Records(<<>>) = SubSeq(log', base', Len(log')) BY <1>3, <2>2, EmptyCursor
    <3> QED BY <3>1, <3>2, <3>3 DEF UnderCursor
  <2>4. \E F \in Seq(Frame) : UnderCursor(F)' BY <2>3, EmptySeq
  <2> QED BY <1>3, <2>1, <2>4 DEF CursorInv
<1>8. StoredInv'
  <2> SUFFICES ASSUME NEW p \in 1 .. Len(log) PROVE Stored(p)'
    BY DEF StoredInv
  <2>1. Stored(p) BY <1>1, StoredAll
  <2>2. PICK b \in Nat : \E F \in Seq(Frame) : Safe(b, F) /\ Serves(b, F, p) BY <2>1 DEF Stored
  <2>3. PICK F \in Seq(Frame) : Safe(b, F) /\ Serves(b, F, p) BY <2>2
  <2>4. b \in Written /\ b # base' /\ files'[b] = files[b] BY <1>2, <2>3 DEF Safe
  <2>5. Safe(b, F)' BY <1>2, <2>3, <2>4 DEF Safe, Kept
  <2>6. PICK n \in Nat : n = Len(log) /\ base' = n + 1 BY <1>3, LogFacts
  <2>7. b <= base' /\ p < base'
    <3>1. b \in 1 .. n + 1 BY <2>4, <2>6, LogFacts
    <3> QED BY <2>6, <3>1
  <2>8. Serves(b, F, p)' BY <2>3, <2>7 DEF Serves
  <2> QED BY <2>5, <2>8 DEF Stored
<1> QED BY <1>4, <1>5, <1>6, <1>7, <1>8 DEF LogInv

\* A write behind the cursor.
LEMMA OverwriteFacts ==
    ASSUME NEW cells \in Area, NEW at \in Nat, NEW new \in Seq(Cell)
    PROVE  /\ Overwrite(cells, at, new) \in Area
           /\ \A i \in 1 .. Capacity : i <= at => Overwrite(cells, at, new)[i] = cells[i]
           /\ \A i \in 1 .. Capacity : at + Len(new) < i => Overwrite(cells, at, new)[i] = cells[i]
           /\ \A i \in 1 .. Len(new) : at + i <= Capacity => Overwrite(cells, at, new)[at + i] = new[i]
<1>1. PICK n \in Nat : n = Len(new) /\ \A i \in 1 .. n : new[i] \in Cell
  BY LenProperties, ElementOfSeq
<1>2. DOMAIN cells = 1 .. Capacity /\ \A i \in 1 .. Capacity : cells[i] \in Cell
  BY DEF Area
<1> DEFINE w == [i \in 1 .. Capacity |-> IF i \in at + 1 .. at + n THEN new[i - at] ELSE cells[i]]
<1>3. Overwrite(cells, at, new) = w BY <1>1, <1>2 DEF Overwrite
<1>4. \A i \in 1 .. Capacity : w[i] = IF i \in at + 1 .. at + n THEN new[i - at] ELSE cells[i]
  OBVIOUS
<1>5. \A i \in 1 .. Capacity : i \in at + 1 .. at + n => i - at \in 1 .. n
  BY ShapesAssumption
<1>6. w \in Area BY <1>1, <1>2, <1>5 DEF Area
<1> HIDE DEF w
<1>7. \A i \in 1 .. Capacity : i <= at \/ at + n < i => w[i] = cells[i]
  <2> SUFFICES ASSUME NEW i \in 1 .. Capacity, i <= at \/ at + n < i PROVE w[i] = cells[i]
    OBVIOUS
  <2>1. i \notin at + 1 .. at + n BY <1>1, ShapesAssumption
  <2> QED BY <1>4, <2>1
<1>8. \A i \in 1 .. n : at + i <= Capacity => w[at + i] = new[i]
  <2> SUFFICES ASSUME NEW i \in 1 .. n, at + i <= Capacity PROVE w[at + i] = new[i]
    OBVIOUS
  <2>1. at + i \in 1 .. Capacity /\ at + i \in at + 1 .. at + n /\ (at + i) - at = i
    BY <1>1, ShapesAssumption
  <2>2. w[at + i] = new[(at + i) - at] BY <1>4, <2>1
  <2> QED BY <2>1, <2>2
<1> QED BY <1>1, <1>3, <1>6, <1>7, <1>8

LEMMA SameHolds ==
    ASSUME NEW F \in Seq(Frame), NEW at \in Nat, NEW c, NEW d, Size(F) <= at,
           \A i \in 1 .. at : d[i] = c[i], Holds(c, F)
    PROVE  Holds(d, F)
<1>1. Size(F) \in Nat BY LayoutType
<1>2. \A i \in 1 .. Size(F) : i \in 1 .. at BY <1>1
<1> QED BY <1>2 DEF Holds

\* What a write makes of the active segment's two areas.
LEMMA WrittenCells ==
    ASSUME LogInv, pc = "write", NEW new \in Seq(Cell), WriteCells(new)
    PROVE  \E c \in Area, d \in Area, e \in Area, g \in Area :
             /\ c = files[base].cache /\ d = files[base].disk
             /\ e = Overwrite(c, offset + drift, new)
             /\ \A i \in 1 .. Capacity : g[i] = d[i] \/ (g[i] = c[i] /\ offset < i)
             /\ DOMAIN files' = DOMAIN files
             /\ \A b \in DOMAIN files : b # base => files'[b] = files[b]
             /\ files'[base].cache = e /\ files'[base].disk = g
             /\ files'[base].header = files[base].header /\ files'[base].firm = files[base].firm
             /\ files'[base] \in File
<1>1. base \in Written /\ base \in DOMAIN files /\ offset \in Nat /\ drift \in Nat
  BY DEF LogInv, CursorInv, Types, Written, IsOpen
<1>2. PICK f \in File : f = files[base] BY <1>1 DEF LogInv, Types
<1>3. PICK at \in Nat : at = offset + drift /\ offset <= at BY <1>1
<1>4. PICK c \in Area, d \in Area, e \in Area :
        c = f.cache /\ d = f.disk /\ e = Overwrite(c, at, new)
  BY <1>2, <1>3, FileParts, OverwriteFacts
<1>5. PICK early \in SUBSET Dirty(at, Len(new)) :
        files' = [files EXCEPT
            ![base].cache = Overwrite(@, at, new),
            ![base].disk = [i \in 1..Capacity |-> IF i \in early THEN files[base].cache[i] ELSE @[i]]]
  BY <1>3 DEF WriteCells
<1> DEFINE g == [i \in 1 .. Capacity |-> IF i \in early THEN c[i] ELSE d[i]]
<1>6. g \in Area BY DEF Area
<1>7. \A i \in early : offset < i
  <2>1. Len(new) \in Nat BY LenProperties
  <2>2. \A i \in early : i \in at + 1 .. at + Len(new) BY <1>5 DEF Dirty
  <2> QED BY <1>1, <1>3, <2>1, <2>2
<1>8. \A i \in 1 .. Capacity : g[i] = d[i] \/ (g[i] = c[i] /\ offset < i) BY <1>7
<1>9. /\ DOMAIN files' = DOMAIN files
      /\ \A b \in DOMAIN files : b # base => files'[b] = files[b]
      /\ files'[base] = [f EXCEPT !.cache = e, !.disk = g]
  BY <1>1, <1>2, <1>4, <1>5
<1> HIDE DEF g
<1>10. files'[base] = [header |-> f.header, firm |-> f.firm, cache |-> e, disk |-> g]
  BY <1>9 DEF File
<1>11. /\ files'[base] \in File /\ files'[base].header = f.header /\ files'[base].firm = f.firm
       /\ files'[base].cache = e /\ files'[base].disk = g
  BY <1>4, <1>6, <1>10, FileFacts, FileParts
<1> QED BY <1>2, <1>3, <1>4, <1>6, <1>8, <1>9, <1>11

LEMMA WriteKeeps ==
    ASSUME LogInv, pc = "write", NEW new \in Seq(Cell), WriteCells(new),
           UNCHANGED <<base, offset, log, promised>>
    PROVE  /\ \A b \in DOMAIN files' : b \in 1 .. Len(log) + 1 /\ files'[b] \in File
           /\ drift = 0 /\ offset + Len(new) <= Capacity =>
                \A i \in 1 .. Len(new) : files'[base].cache[offset + i] = new[i]
           /\ CursorInv' /\ StoredInv'
           /\ \A b \in Nat : \A F \in Seq(Frame) : Safe(b, F) => Safe(b, F)'
<1>1. PICK c \in Area, d \in Area, e \in Area, g \in Area :
        /\ c = files[base].cache /\ d = files[base].disk
        /\ e = Overwrite(c, offset + drift, new)
        /\ \A i \in 1 .. Capacity : g[i] = d[i] \/ (g[i] = c[i] /\ offset < i)
        /\ DOMAIN files' = DOMAIN files
        /\ \A b \in DOMAIN files : b # base => files'[b] = files[b]
        /\ files'[base].cache = e /\ files'[base].disk = g
        /\ files'[base].header = files[base].header /\ files'[base].firm = files[base].firm
        /\ files'[base] \in File
  BY WrittenCells
<1>2. /\ base \in Written /\ base \in DOMAIN files /\ offset \in Nat /\ drift \in Nat
      /\ base \in 1 .. Len(log) + 1
  BY DEF LogInv, CursorInv, Types, Written, IsOpen
<1>3. offset <= Capacity
  <2>1. offset + Size(batch) <= Capacity /\ Size(batch) \in Nat
    BY LogFacts DEF LogInv, BatchFits
  <2> QED BY <1>2, <2>1, ShapesAssumption
<1>4. PICK at \in Nat : at = offset + drift /\ offset <= at BY <1>2
<1>5. /\ \A i \in 1 .. offset : e[i] = c[i] /\ g[i] = d[i]
      /\ \A i \in 1 .. Len(new) : at + i <= Capacity => e[at + i] = new[i]
  <2>1. /\ \A i \in 1 .. Capacity : i <= at => e[i] = c[i]
        /\ \A i \in 1 .. Len(new) : at + i <= Capacity => e[at + i] = new[i]
    <3>1. e = Overwrite(c, at, new) BY <1>1, <1>4
    <3> QED BY <3>1, OverwriteFacts
  <2>2. ASSUME NEW i \in 1 .. offset PROVE e[i] = c[i] /\ g[i] = d[i]
    <3>1. i \in 1 .. Capacity /\ i <= at /\ ~ (offset < i) BY <1>2, <1>3, <1>4, ShapesAssumption
    <3> QED BY <1>1, <2>1, <3>1
  <2> QED BY <2>1, <2>2
<1>6. \A b \in DOMAIN files' : b \in 1 .. Len(log) + 1 /\ files'[b] \in File
  BY <1>1, <1>2 DEF LogInv, Types
<1>7. Written' = Written BY <1>1 DEF Written
<1>8. \A F \in Seq(Frame) : Holds(c, F) /\ Size(F) <= offset => Holds(e, F)
  BY <1>2, <1>5, SameHolds
<1>9. \A F \in Seq(Frame) : Holds(d, F) /\ Size(F) <= offset => Holds(g, F)
  BY <1>2, <1>5, SameHolds
<1>10. CursorInv'
  <2>1. PICK F \in Seq(Frame) : UnderCursor(F) BY DEF LogInv, CursorInv, IsOpen
  <2>2. Holds(c, F) /\ Size(F) <= offset BY <1>1, <1>2, <2>1 DEF UnderCursor
  <2>3. Holds(files'[base].cache, F) BY <1>1, <1>8, <2>2
  <2>4. UnderCursor(F)' BY <2>1, <2>3 DEF UnderCursor
  <2> QED BY <1>2, <1>7, <2>4 DEF CursorInv
<1>13. \A b \in Nat : \A F \in Seq(Frame) : Safe(b, F) => Safe(b, F)'
  <2>1. ASSUME NEW b \in Nat, NEW F \in Seq(Frame), Safe(b, F) PROVE Safe(b, F)'
    <3>1. CASE b = base
      <4>1. Holds(c, F) /\ Holds(d, F) /\ Size(F) <= offset BY <1>1, <2>1, <3>1 DEF Safe, Kept
      <4>2. Holds(e, F) /\ Holds(g, F) BY <1>8, <1>9, <4>1
      <4> QED BY <1>1, <1>7, <2>1, <3>1, <4>2 DEF Safe, Kept
    <3>2. CASE b # base
      <4>1. files'[b] = files[b] BY <1>1, <2>1, <3>2 DEF Safe, Written
      <4> QED BY <1>7, <2>1, <3>2, <4>1 DEF Safe, Kept
    <3> QED BY <3>1, <3>2
  <2> QED BY <2>1
<1>11. StoredInv' BY <1>7, <1>13, StoredStays
<1>12. drift = 0 /\ offset + Len(new) <= Capacity =>
         \A i \in 1 .. Len(new) : files'[base].cache[offset + i] = new[i]
  <2> SUFFICES ASSUME drift = 0, offset + Len(new) <= Capacity, NEW i \in 1 .. Len(new)
               PROVE  e[offset + i] = new[i]
    BY <1>1
  <2>1. Len(new) \in Nat BY LenProperties
  <2>2. at = offset /\ at + i <= Capacity BY <1>2, <1>4, <2>1, ShapesAssumption
  <2> QED BY <1>5, <2>2
<1> QED BY <1>6, <1>10, <1>11, <1>12, <1>13

LEMMA WriteBatchInv == ASSUME LogInv, WriteBatch PROVE LogInv'
<1> USE DEF WriteBatch
<1>1. Layout(batch) \in Seq(Cell) /\ Len(Layout(batch)) = Size(batch) BY LogFacts
<1>2. offset + Len(Layout(batch)) <= Capacity BY <1>1 DEF LogInv, BatchFits
<1>3. /\ \A b \in DOMAIN files' : b \in 1 .. Len(log) + 1 /\ files'[b] \in File
      /\ drift = 0 =>
           \A i \in 1 .. Len(Layout(batch)) : files'[base].cache[offset + i] = Layout(batch)[i]
      /\ CursorInv' /\ StoredInv'
  BY <1>1, <1>2, WriteKeeps
<1>4. Types' BY <1>3 DEF LogInv, Types, Phases
<1>5. BatchFits'
  <2>1. drift = 0 => \A i \in 1 .. Size(batch) : files'[base].cache[offset + i] = Layout(batch)[i]
    BY <1>1, <1>3
  <2> QED BY <2>1 DEF LogInv, BatchFits, InBatch
<1>6. Creation' /\ Promise' BY DEF LogInv, Creation, Promise
<1> QED BY <1>3, <1>4, <1>5, <1>6 DEF LogInv

\* A part of the batch, up to a cell.
LEMMA PartOf ==
    ASSUME NEW l \in Seq(Cell), NEW n \in 0 .. Len(l)
    PROVE  /\ SubSeq(l, 1, n) \in Seq(Cell) /\ Len(SubSeq(l, 1, n)) = n
           /\ \A i \in 1 .. n : SubSeq(l, 1, n)[i] = l[i]
<1>1. Len(l) \in Nat /\ n \in Nat BY LenProperties
<1>2. \A i \in 1 .. n : l[i] \in Cell BY <1>1, ElementOfSeq
<1>3. 1 \in Int /\ n \in Int BY <1>1
<1>4. /\ SubSeq(l, 1, n) \in Seq(Cell)
      /\ Len(SubSeq(l, 1, n)) = IF 1 <= n THEN n - 1 + 1 ELSE 0
      /\ \A i \in 1 .. n - 1 + 1 : SubSeq(l, 1, n)[i] = l[1 + i - 1]
  BY <1>2, <1>3, SubSeqProperties
<1>5. (IF 1 <= n THEN n - 1 + 1 ELSE 0) = n /\ n - 1 + 1 = n /\ \A i \in 1 .. n : 1 + i - 1 = i
  BY <1>1
<1> QED BY <1>4, <1>5

LEMMA PartOfBatch ==
    ASSUME LogInv, NEW n \in Nat, n <= Size(batch)
    PROVE  SubSeq(Layout(batch), 1, n) \in Seq(Cell)
<1>1. Layout(batch) \in Seq(Cell) /\ n \in 0 .. Len(Layout(batch)) BY LogFacts
<1> QED BY <1>1, PartOf

LEMMA FirstFrame ==
    ASSUME NEW G \in Seq(Frame), G # <<>>
    PROVE  G[1].len \in Nat /\ G[1].len <= Size(G)
<1>1. PICK n \in Nat : n = Len(G) /\ 0 < n BY LenProperties, EmptySeq
<1>2. 1 \in 0 .. Len(G) /\ 1 \in 1 .. Len(G) BY <1>1
<1>3. PICK g \in Frame : g = G[1] BY <1>2, ElementOfSeq
<1>4. PICK P \in Seq(Frame), R \in Seq(Frame) : G = P \o R /\ Len(P) = 1 /\ P[1] = g
  <2>1. /\ SubSeq(G, 1, 1) \in Seq(Frame) /\ Len(SubSeq(G, 1, 1)) = 1
        /\ SubSeq(G, 1 + 1, Len(G)) \in Seq(Frame)
        /\ G = SubSeq(G, 1, 1) \o SubSeq(G, 1 + 1, Len(G))
        /\ \A i \in 1 .. 1 : SubSeq(G, 1, 1)[i] = G[i]
    BY <1>2, Cut
  <2>2. SubSeq(G, 1, 1)[1] = g BY <1>3, <2>1
  <2> QED BY <2>1, <2>2
<1>5. P = <<g>> BY <1>4
<1>6. Size(P) = g.len BY <1>5, LayoutOne
<1>7. Size(G) = Size(P) + Size(R) /\ Size(R) \in Nat /\ Size(P) \in Nat
  BY <1>4, LayoutConcat, LayoutType
<1> QED BY <1>3, <1>6, <1>7

LEMMA WriteFailsInv == ASSUME LogInv, WriteFails \/ FirstWriteFails PROVE LogInv'
<1>1. /\ pc = "write" /\ batch' = <<>> /\ pc' = "idle"
      /\ UNCHANGED <<base, offset, log, promised, batches>>
  BY DEF WriteFails, FirstWriteFails, GiveUp
<1>2. PICK n \in Nat : /\ n <= Size(batch) /\ WriteCells(SubSeq(Layout(batch), 1, n))
                       /\ drift' \in {0, drift + n}
  <2>1. Size(batch) \in Nat BY LogFacts
  <2>2. batch[1].len \in Nat /\ batch[1].len <= Size(batch)
    BY <1>1, FirstFrame DEF LogInv, BatchFits, InBatch, Types
  <2>3. CASE WriteFails
    <3>1. PICK n \in batch[1].len .. Size(batch) - 1 :
            WriteCells(SubSeq(Layout(batch), 1, n)) /\ drift' = 0
      BY <2>3 DEF WriteFails
    <3>2. n \in Nat /\ n <= Size(batch) BY <2>1, <2>2
    <3> QED BY <3>1, <3>2
  <2>4. CASE FirstWriteFails
    <3>1. PICK n \in 1 .. batch[1].len - 1 :
            WriteCells(SubSeq(Layout(batch), 1, n)) /\ drift' = drift + n
      BY <2>4 DEF FirstWriteFails
    <3>2. n \in Nat /\ n <= Size(batch) BY <2>1, <2>2
    <3> QED BY <3>1, <3>2
  <2> QED BY <2>3, <2>4
<1>3. drift' \in Nat BY <1>2 DEF LogInv, Types
<1>4. SubSeq(Layout(batch), 1, n) \in Seq(Cell) BY <1>2, PartOfBatch
<1>5. /\ \A b \in DOMAIN files' : b \in 1 .. Len(log) + 1 /\ files'[b] \in File
      /\ CursorInv' /\ StoredInv'
  BY <1>1, <1>2, <1>4, WriteKeeps
<1>6. Types' BY <1>1, <1>3, <1>5 DEF LogInv, Types, Phases
<1>7. BatchFits' /\ Creation' /\ Promise'
  BY <1>1 DEF LogInv, BatchFits, InBatch, Creation, Promise
<1> QED BY <1>5, <1>6, <1>7 DEF LogInv

\* A successful sync puts the cache on the disk and settles the header.
Firmed(f, s) == [f EXCEPT !.disk = s, !.firm = TRUE]

LEMMA FileSynced ==
    ASSUME NEW f \in File, f.header = TRUE, NEW s \in Area
    PROVE  /\ Firmed(f, s) \in File /\ Firmed(f, s).header = TRUE /\ Firmed(f, s).firm = TRUE
           /\ Firmed(f, s).cache = f.cache /\ Firmed(f, s).disk = s
<1>1. PICK c \in Area, d \in Area : c = f.cache /\ d = f.disk
  BY FileParts
<1>2. PICK g : g = [f EXCEPT !.disk = s, !.firm = TRUE] OBVIOUS
<1>3. g.header = TRUE /\ g.firm = TRUE /\ g.cache = c /\ g.disk = s BY <1>1, <1>2 DEF File
<1>4. g = [header |-> TRUE, firm |-> TRUE, cache |-> c, disk |-> s]
  BY <1>1, <1>2, <1>3 DEF File
<1>5. g \in File BY <1>3, <1>4 DEF File
<1>6. Firmed(f, s) = g BY <1>2 DEF Firmed
<1> QED BY <1>1, <1>3, <1>5, <1>6

\* A successful sync: the frames under the cursor grow by the batch, and the disk holds them all.
LEMMA SyncFacts ==
    ASSUME LogInv, SyncBatch, drift = 0, NEW F \in Seq(Frame), UnderCursor(F),
           NEW H \in Seq(Frame), H = F \o batch
    PROVE  /\ DOMAIN files' = DOMAIN files
           /\ \A b \in DOMAIN files' : files'[b] \in File
           /\ \A b \in DOMAIN files : files'[b].header = files[b].header
           /\ \A b \in DOMAIN files : b # base => files'[b] = files[b]
           /\ files'[base].firm
           /\ Kept(base, H)'
<1> USE DEF SyncBatch
<1>1. base \in Written /\ base \in DOMAIN files /\ offset \in Nat /\ IsOpen /\ batch \in Seq(Frame)
  BY DEF LogInv, CursorInv, Types, Written, IsOpen
<1>2. PICK f \in File : f = files[base] /\ f.header = TRUE
  <2>1. files[base] \in File /\ files[base].header BY <1>1 DEF LogInv, Types, Written
  <2> QED BY <2>1, FileParts
<1>3. PICK c \in Area, d \in Area : c = f.cache /\ d = f.disk BY <1>2, FileParts
<1>4. PICK n \in Nat : n = Size(batch) BY LogFacts
<1>5. offset + n <= Capacity BY <1>4 DEF LogInv, BatchFits
<1> DEFINE s == [i \in 1 .. Capacity |-> IF i <= offset + n THEN c[i] ELSE d[i]]
<1>6. s = Synced
  <2>1. offset + drift + Size(batch) = offset + n BY <1>1, <1>4
  <2> QED BY <1>2, <1>3, <2>1 DEF Synced
<1>7. s \in Area BY DEF Area
<1>8. \A i \in 1 .. offset + n : s[i] = c[i]
  <2> SUFFICES ASSUME NEW i \in 1 .. offset + n PROVE s[i] = c[i]
    OBVIOUS
  <2>1. i \in 1 .. Capacity /\ i <= offset + n BY <1>1, <1>5, ShapesAssumption
  <2> QED BY <2>1
<1> HIDE DEF s
<1>9. /\ DOMAIN files' = DOMAIN files
      /\ \A b \in DOMAIN files : b # base => files'[b] = files[b]
      /\ files'[base] = Firmed(f, s)
  BY <1>1, <1>2, <1>6 DEF Firmed
<1>10. PICK g : g = files'[base] /\ g = Firmed(f, s) BY <1>9
<1>11. /\ files'[base].cache = c /\ files'[base].disk = s /\ files'[base].firm
       /\ files'[base].header = f.header /\ files'[base] \in File
  <2> HIDE DEF SyncBatch
  <2> DEFINE R(x) == x \in File /\ x.header = TRUE /\ x.firm = TRUE /\ x.cache = f.cache /\ x.disk = s
  <2>0. R(Firmed(f, s)) BY <1>2, <1>7, FileSynced
  <2> HIDE DEF R
  <2>2. R(g) BY <1>10, <2>0
  <2>1. g \in File /\ g.header = TRUE /\ g.firm = TRUE /\ g.cache = f.cache /\ g.disk = s
    BY <2>2 DEF R
  <2> QED BY <1>2, <1>3, <1>10, <2>1
<1>12. \A b \in DOMAIN files' : files'[b] \in File BY <1>9, <1>11 DEF LogInv, Types
<1>13. \A b \in DOMAIN files : files'[b].header = files[b].header BY <1>2, <1>9, <1>11
<1>14. Kept(base, H)'
  <2>1. Holds(c, F) /\ Size(F) = offset BY <1>2, <1>3 DEF UnderCursor
  <2>2. \A i \in 1 .. Size(batch) : c[Size(F) + i] = Layout(batch)[i]
    BY <1>2, <1>3, <2>1 DEF LogInv, BatchFits
  <2>3. Size(F) + Size(batch) <= Capacity BY <1>4, <1>5, <2>1
  <2>4. Holds(c, H) BY <1>1, <2>1, <2>2, <2>3, HoldsConcat
  <2>5. Size(H) = offset + n BY <1>1, <1>4, <2>1, LayoutConcat
  <2>6. Size(H) <= offset + n /\ offset + n \in Nat BY <1>1, <2>5
  <2>7. Holds(s, H) BY <1>8, <2>4, <2>6, SameHolds
  <2> QED BY <1>11, <2>4, <2>7 DEF Kept
<1> QED BY <1>9, <1>11, <1>12, <1>13, <1>14

LEMMA SyncBatchInv == ASSUME LogInv, SyncBatch, flaws' = {} PROVE LogInv'
<1> USE DEF SyncBatch
<1>0. drift = 0
  <2>1. drift # 0 => "misplaced" \in flaws' BY DEF FlawedIf
  <2> QED BY <2>1
<1>1. /\ base \in Written /\ base \in DOMAIN files /\ offset \in Nat /\ IsOpen
      /\ batch \in Seq(Frame) /\ log \in Seq(Frame) /\ base \in 1 .. Len(log) + 1
  BY DEF LogInv, CursorInv, Types, Written, IsOpen
<1>2. PICK F \in Seq(Frame) : UnderCursor(F) BY <1>1 DEF LogInv, CursorInv
<1>3. PICK G \in Seq(Frame) :
        /\ G = F \o batch /\ Size(G) = Size(F) + Size(batch)
        /\ Records(G) = Records(F) \o Records(batch)
  BY <1>1, <1>2, LayoutConcat
<1>4. /\ DOMAIN files' = DOMAIN files
      /\ \A b \in DOMAIN files' : files'[b] \in File
      /\ \A b \in DOMAIN files : files'[b].header = files[b].header
      /\ \A b \in DOMAIN files : b # base => files'[b] = files[b]
      /\ files'[base].firm
      /\ Kept(base, G)'
  BY <1>0, <1>2, <1>3, SyncFacts
<1>5. PICK r \in Seq(Frame) : r = Records(batch) BY <1>1, LayoutType
<1>6. PICK n \in Nat, m \in Nat : n = Len(log) /\ m = Len(r) BY <1>1, LenProperties
<1>7. PICK l \in Seq(Frame) : l = log \o r BY <1>1, ConcatProperties
<1>8. Len(l) = n + m /\ \A i \in 1 .. n + m : l[i] = IF i <= n THEN log[i] ELSE r[i - n]
  BY <1>1, <1>6, <1>7, ConcatProperties
<1>9. log' = l /\ promised' = l BY <1>5, <1>7
<1>10. Written' = Written BY <1>4 DEF Written
<1>11. /\ batch' = <<>> /\ pc' = "idle" /\ base' = base
       /\ offset' = offset + Size(batch) /\ offset' \in Nat /\ offset <= offset'
  BY <1>1, LogFacts, SMTT(40)
<1>12. \A i \in 1 .. n + 1 : i \in 1 .. Len(l) + 1 BY <1>8
<1>13. Types'
  <2>1. \A b \in DOMAIN files' : b \in 1 .. Len(log') + 1
    BY <1>4, <1>6, <1>9, <1>12 DEF LogInv, Types
  <2>2. <<>> \in Seq(Frame) BY EmptySeq
  <2> QED BY <1>0, <1>4, <1>9, <1>11, <2>1, <2>2 DEF LogInv, Types, Phases
<1>14. BatchFits' /\ Creation' BY <1>11 DEF BatchFits, InBatch, Creation
<1>15. Promise' BY <1>8, <1>9 DEF Promise
<1>16. Closed(G)
  BY <1>1, <1>2, <1>3, ClosedConcat DEF LogInv, BatchFits, InBatch, UnderCursor
<1>17. Records(G) = SubSeq(l, base, Len(l))
  <2>1. SubSeq(log, base, Len(log)) \o r = SubSeq(log \o r, base, Len(log \o r))
    BY <1>1, TailGrows
  <2>2. Records(F) = SubSeq(log, base, Len(log)) BY <1>2 DEF UnderCursor
  <2> QED BY <1>3, <1>5, <1>7, <2>1, <2>2
<1>18. Size(G) = offset' BY <1>2, <1>3, <1>11 DEF UnderCursor
<1>19. Kept(base, G)' BY <1>4
<1>20. CursorInv'
  <2>1. UnderCursor(G)' BY <1>9, <1>11, <1>16, <1>17, <1>18, <1>19 DEF UnderCursor, Kept
  <2>2. base \in 1 .. Len(l) + 1 BY <1>1, <1>6, <1>12
  <2> QED BY <1>1, <1>9, <1>10, <1>11, <2>1, <2>2 DEF CursorInv
<1>21. ASSUME NEW p \in 1 .. n + m PROVE Stored(p)'
  <2>1. base \in Nat /\ base \in 1 .. n + 1 BY <1>1, <1>6
  <2>2. CASE p < base
    <3>1. p \in 1 .. Len(log) /\ p <= n BY <1>6, <2>1, <2>2
    <3>2. Anchored(p) BY <1>1, <2>2 DEF Anchored
    <3>3. PICK b \in Nat : \E H \in Seq(Frame) : Safe(b, H) /\ Serves(b, H, p)
      BY <3>1, <3>2 DEF LogInv, StoredInv, Stored
    <3>4. PICK H \in Seq(Frame) : Safe(b, H) /\ Serves(b, H, p) BY <3>3
    <3>5. b # base
      <4>1. Len(Records(H)) \in Nat /\ p - b + 1 \in 1 .. Len(Records(H)) BY <3>4, LayoutType DEF Serves
      <4> QED BY <2>1, <2>2, <4>1
    <3>6. files'[b] = files[b] BY <1>4, <3>4, <3>5 DEF Safe, Written
    <3>7. Safe(b, H)' BY <1>10, <1>11, <3>4, <3>5, <3>6 DEF Safe, Kept
    <3>8. l[p] = log[p] BY <1>8, <3>1
    <3>9. Serves(b, H, p)' BY <1>9, <1>11, <3>4, <3>8 DEF Serves
    <3> QED BY <3>7, <3>9 DEF Stored
  <2>3. CASE ~ (p < base)
    <3>1. p \in base .. Len(l) /\ base \in 1 .. Len(l) + 1 /\ Len(l) \in Nat
      BY <1>8, <2>1, <2>3
    <3>2. PICK k \in Nat : k = p - base + 1 BY <2>1, <3>1
    <3>3. k \in 1 .. Len(l) - base + 1 /\ base + k - 1 = p BY <2>1, <3>1, <3>2, SMTT(40)
    <3>4. /\ Len(Records(G)) = Len(l) - base + 1
          /\ \A i \in 1 .. Len(l) - base + 1 : Records(G)[i] = l[base + i - 1]
      BY <1>17, <3>1, Ending
    <3>5. k \in 1 .. Len(Records(G)) /\ Records(G)[k] = l[p] BY <3>3, <3>4
    <3>6. base <= base /\ ~ (base < base) BY <2>1
    <3>7. Serves(base, G, p)' BY <1>9, <1>11, <1>16, <3>2, <3>5, <3>6 DEF Serves
    <3>8. Safe(base, G)'
      <4>1. Size(G) <= offset' BY <1>11, <1>18
      <4> QED BY <1>1, <1>4, <1>10, <1>11, <1>19, <4>1 DEF Safe, Kept
    <3>9. base' = base BY <1>11
    <3> QED BY <2>1, <3>7, <3>8, <3>9 DEF Stored, Safe, Serves, Kept
  <2> QED BY <2>2, <2>3
<1>22. StoredInv' BY <1>8, <1>9, <1>21 DEF StoredInv
<1> QED BY <1>13, <1>14, <1>15, <1>20, <1>22 DEF LogInv

\* The process ends: the page cache keeps all, and a header may be there that was not synced.
LEMMA KillInv == ASSUME LogInv, Kill PROVE LogInv'
<1>1. /\ batch' = <<>> /\ drift' = 0 /\ pc' = "down" /\ pc \notin {"down", "refused"}
      /\ UNCHANGED <<base, offset, log, promised, batches>>
  BY DEF Kill, Down
<1>2. BatchFits' /\ Creation' /\ Promise' /\ CursorInv'
  BY <1>1 DEF LogInv, BatchFits, InBatch, Creation, Promise, CursorInv, IsOpen
<1>3. (\A b \in DOMAIN files' : b \in 1 .. Len(log) + 1 /\ files'[b] \in File) /\ StoredInv'
  <2>1. CASE UNCHANGED files
    <3>1. StoredInv' BY <1>1, <2>1, NoTouch DEF IsOpen
    <3> QED BY <2>1, <3>1 DEF LogInv, Types
  <2>2. ASSUME pc = "write", NEW n \in 1 .. Size(batch) - 1,
               WriteCells(SubSeq(Layout(batch), 1, n))
        PROVE  (\A b \in DOMAIN files' : b \in 1 .. Len(log) + 1 /\ files'[b] \in File) /\ StoredInv'
    <3>1. n \in Nat /\ n <= Size(batch) BY <2>2, LogFacts
    <3>2. SubSeq(Layout(batch), 1, n) \in Seq(Cell) BY <3>1, PartOfBatch
    <3> QED BY <1>1, <2>2, <3>2, WriteKeeps
  <2>3. ASSUME pc = "header", files' = Put(NextPosition, NewFile(TRUE, FALSE))
        PROVE  (\A b \in DOMAIN files' : b \in 1 .. Len(log) + 1 /\ files'[b] \in File) /\ StoredInv'
    <3>1. NextPosition \notin Written /\ IsOpen /\ ~ Volatile
      BY <2>3 DEF LogInv, Creation, Written, IsOpen
    <3>2. \A b \in DOMAIN files' : b \in 1 .. Len(log) + 1 /\ files'[b] \in File
      BY <1>1, <2>3, <3>1, PutFacts
    <3>3. StoredInv' BY <1>1, <2>3, <3>1, PutKeeps
    <3> QED BY <3>2, <3>3
  <2>4. ASSUME pc = "first", files' = Put(NextPosition, NewFile(TRUE, FALSE))
        PROVE  (\A b \in DOMAIN files' : b \in 1 .. Len(log) + 1 /\ files'[b] \in File) /\ StoredInv'
    <3>1. log = <<>> /\ DOMAIN files = {1} /\ ~ files[1].header BY <2>4 DEF LogInv, Creation
    <3>2. NextPosition \notin Written /\ Len(log) = 0
      <4>1. Len(log) = 0 BY <3>1
      <4>2. NextPosition = 1 BY <4>1 DEF NextPosition
      <4> QED BY <3>1, <4>1, <4>2 DEF Written
    <3>3. \A b \in DOMAIN files' : b \in 1 .. Len(log) + 1 /\ files'[b] \in File
      BY <1>1, <2>4, <3>2, PutFacts
    <3>4. StoredInv' BY <1>1, <3>2 DEF StoredInv
    <3> QED BY <3>3, <3>4
  <2> QED BY <2>1, <2>2, <2>3, <2>4 DEF Kill
<1>4. Types' BY <1>1, <1>3 DEF LogInv, Types, Phases
<1> QED BY <1>2, <1>3, <1>4 DEF LogInv

\* A power loss keeps what cache and disk agree on, and every segment whose header is synced.
LEMMA LossFacts ==
    ASSUME LogInv, PowerLoss
    PROVE  /\ \A b \in DOMAIN files' : b \in DOMAIN files /\ files'[b] \in File
           /\ \A b \in Written' : b \in Written \/ (pc \in {"header", "first"} /\ b = NextPosition)
           /\ \A b \in Written : files[b].firm =>
                /\ b \in Written' /\ files'[b].firm
                /\ \A F \in Seq(Frame) : Kept(b, F) => Kept(b, F)'
<1>1. PICK kept \in SUBSET Unsynced,
           gone \in SUBSET {b \in DOMAIN files : ~ files[b].header},
           headed \in SUBSET {b \in DOMAIN files : Unsure(b)} :
        files' = [b \in DOMAIN files \ gone |->
                    Settled(b, kept, files[b].firm \/ b \in headed)]
  BY DEF PowerLoss
<1> DEFINE Header(b) == files[b].firm \/ b \in headed
<1>2. ASSUME NEW b \in DOMAIN files
      PROVE  \E c \in Area :
               /\ Settled(b, kept, Header(b)) =
                    [header |-> Header(b), firm |-> Header(b), cache |-> c, disk |-> c]
               /\ \A F \in Seq(Frame) : Kept(b, F) => Holds(c, F)
  <2>1. files[b] \in File BY <1>2 DEF LogInv, Types
  <2>2. PICK x \in Area, y \in Area : x = files[b].cache /\ y = files[b].disk
    BY <2>1, FileParts
  <2> DEFINE c == [i \in 1 .. Capacity |-> IF <<b, i>> \in kept THEN x[i] ELSE y[i]]
  <2>3. c \in Area BY DEF Area
  <2>4. Settled(b, kept, Header(b)) =
          [header |-> Header(b), firm |-> Header(b), cache |-> c, disk |-> c]
    BY <2>2 DEF Settled
  <2>5. \A i \in 1 .. Capacity : c[i] = IF <<b, i>> \in kept THEN x[i] ELSE y[i] OBVIOUS
  <2> HIDE DEF c
  <2>6. ASSUME NEW F \in Seq(Frame), Kept(b, F) PROVE Holds(c, F)
    <3>1. Holds(x, F) /\ Holds(y, F) BY <2>2, <2>6 DEF Kept
    <3>2. PICK n \in Nat : n = Size(F) BY LayoutType
    <3>3. n <= Capacity BY <3>1, <3>2 DEF Holds
    <3>4. \A i \in 1 .. n : c[i] = Layout(F)[i]
      <4> SUFFICES ASSUME NEW i \in 1 .. n PROVE c[i] = Layout(F)[i]
        OBVIOUS
      <4>1. i \in 1 .. Capacity BY <3>3, ShapesAssumption
      <4>2. x[i] = Layout(F)[i] /\ y[i] = Layout(F)[i] BY <3>1, <3>2 DEF Holds
      <4> QED BY <2>5, <4>1, <4>2
    <3> QED BY <3>2, <3>3, <3>4 DEF Holds
  <2> QED BY <2>3, <2>4, <2>6
<1>3. /\ DOMAIN files' = DOMAIN files \ gone
      /\ \A b \in DOMAIN files \ gone : files'[b] = Settled(b, kept, Header(b))
  BY <1>1
<1>4. \A b \in DOMAIN files :
        /\ Header(b) \in BOOLEAN /\ (files[b].firm => Header(b) /\ files[b].header)
        /\ Header(b) => files[b].header \/ (pc \in {"header", "first"} /\ b = NextPosition)
  <2> SUFFICES ASSUME NEW b \in DOMAIN files
               PROVE  /\ Header(b) \in BOOLEAN /\ (files[b].firm => Header(b) /\ files[b].header)
                      /\ Header(b) => files[b].header \/ (pc \in {"header", "first"} /\ b = NextPosition)
    OBVIOUS
  <2>1. files[b] \in File BY DEF LogInv, Types
  <2>2. files[b].firm \in BOOLEAN /\ (files[b].firm => files[b].header) BY <2>1, FileParts
  <2> QED BY <2>2 DEF Unsure
<1> HIDE DEF Header
<1>5. ASSUME NEW b \in DOMAIN files'
      PROVE  /\ b \in DOMAIN files /\ files'[b] \in File
             /\ files'[b].header = Header(b) /\ files'[b].firm = Header(b)
             /\ \A F \in Seq(Frame) : Kept(b, F) => Kept(b, F)'
  <2>1. b \in DOMAIN files /\ files'[b] = Settled(b, kept, Header(b)) BY <1>3
  <2>2. PICK c \in Area :
          /\ Settled(b, kept, Header(b)) =
               [header |-> Header(b), firm |-> Header(b), cache |-> c, disk |-> c]
          /\ \A F \in Seq(Frame) : Kept(b, F) => Holds(c, F)
    BY <1>2, <2>1
  <2>3. PICK h \in BOOLEAN : h = Header(b) BY <1>4, <2>1
  <2>4. PICK g : g = files'[b] /\ g = [header |-> h, firm |-> h, cache |-> c, disk |-> c]
    BY <2>1, <2>2, <2>3
  <2>5. g \in File /\ g.header = h /\ g.firm = h /\ g.cache = c /\ g.disk = c
    BY <2>4, FileFacts
  <2>6. \A F \in Seq(Frame) : Kept(b, F) => Kept(b, F)' BY <2>2, <2>4, <2>5 DEF Kept
  <2> QED BY <2>1, <2>3, <2>4, <2>5, <2>6
<1>6. ASSUME NEW b \in Written, files[b].firm
      PROVE  /\ b \in Written' /\ files'[b].firm
             /\ \A F \in Seq(Frame) : Kept(b, F) => Kept(b, F)'
  <2>1. b \in DOMAIN files /\ b \notin gone BY DEF Written
  <2>2. b \in DOMAIN files' /\ Header(b) BY <1>3, <1>4, <1>6, <2>1
  <2>3. files'[b].header /\ files'[b].firm /\ \A F \in Seq(Frame) : Kept(b, F) => Kept(b, F)'
    BY <1>5, <2>2
  <2> QED BY <2>2, <2>3 DEF Written
<1>7. \A b \in Written' : b \in Written \/ (pc \in {"header", "first"} /\ b = NextPosition)
  BY <1>4, <1>5 DEF Written
<1>8. \A b \in DOMAIN files' : b \in DOMAIN files /\ files'[b] \in File BY <1>5
<1> QED BY <1>6, <1>7, <1>8

LEMMA PowerLossInv == ASSUME LogInv, PowerLoss PROVE LogInv'
<1>1. /\ batch' = <<>> /\ drift' = 0 /\ pc' = "down" /\ pc \notin {"down", "refused"}
      /\ UNCHANGED <<base, offset, log, promised, batches>>
  BY DEF PowerLoss, Down
<1>2. /\ \A b \in DOMAIN files' : b \in DOMAIN files /\ files'[b] \in File
      /\ \A b \in Written' : b \in Written \/ (pc \in {"header", "first"} /\ b = NextPosition)
      /\ \A b \in Written : files[b].firm =>
           /\ b \in Written' /\ files'[b].firm
           /\ \A F \in Seq(Frame) : Kept(b, F) => Kept(b, F)'
  BY LossFacts
<1>3. BatchFits' /\ Creation' /\ Promise' /\ CursorInv'
  BY <1>1 DEF LogInv, BatchFits, InBatch, Creation, Promise, CursorInv, IsOpen
<1>4. Types' BY <1>1, <1>2 DEF LogInv, Types, Phases
<1>5. \A b \in Nat : \A F \in Seq(Frame) : Safe(b, F) => Safe(b, F)'
  BY <1>1, <1>2 DEF Safe
<1>6. StoredInv'
  <2>1. CASE pc = "header"
    <3> SUFFICES ASSUME NEW p \in 1 .. Len(log) PROVE Stored(p)'
      BY <1>1 DEF StoredInv
    <3>1. IsOpen /\ ~ Volatile BY <2>1 DEF IsOpen, LogInv, Creation
    <3>2. Stored(p) BY <3>1, StoredAll
    <3> QED BY <1>1, <1>5, <3>2, StoredFrom
  <2>2. CASE pc = "first"
    <3>1. log = <<>> BY <2>2 DEF LogInv, Creation
    <3>2. Len(log') = 0 BY <1>1, <3>1
    <3> QED BY <3>2 DEF StoredInv
  <2>3. CASE pc \notin {"header", "first"}
    <3>1. Written' \subseteq Written BY <1>2, <2>3
    <3> QED BY <1>1, <1>5, <3>1, StoredStays
  <2> QED BY <2>1, <2>2, <2>3
<1> QED BY <1>3, <1>4, <1>6 DEF LogInv

\* A directory with no written segment was promised nothing.
LEMMA NothingWritten == ASSUME LogInv, Written = {} PROVE promised = <<>> /\ Len(promised) = 0
<1>1. PICK n \in Nat : n = Len(promised) /\ promised \in Seq(Frame)
  BY LenProperties DEF LogInv, Types
<1>2. CASE n = 0 BY <1>1, <1>2, EmptySeq
<1>3. CASE n # 0
  <2>1. 1 \in 1 .. Len(log)
    <3>1. n <= Len(log) /\ Len(log) \in Nat BY <1>1, LogFacts DEF LogInv, Promise
    <3> QED BY <1>1, <1>3, <3>1
  <2>2. Anchored(1) BY <1>1, <1>3 DEF Anchored
  <2>3. \E b \in Nat : \E F \in Seq(Frame) : Safe(b, F)
    BY <2>1, <2>2 DEF LogInv, StoredInv, Stored
  <2> QED BY <2>3 DEF Safe
<1> QED BY <1>2, <1>3

LEMMA OpenFreshInv == ASSUME LogInv, OpenFresh PROVE LogInv'
<1> USE DEF OpenFresh
<1>1. /\ promised = <<>> /\ Len(promised) = 0 /\ log' = <<>> /\ Len(log') = 0
      /\ <<>> \in Seq(Frame)
  BY NothingWritten, EmptySeq
<1>2. /\ DOMAIN files' = {1} /\ files'[1] = NewFile(FALSE, FALSE)
      /\ NewFile(FALSE, FALSE) \in File /\ ~ files'[1].header
  BY NewFileFacts
<1>3. Types'
  <2>1. 1 \in 1 .. Len(log') + 1 BY <1>1
  <2>2. \A b \in DOMAIN files' : b \in 1 .. Len(log') + 1 /\ files'[b] \in File
    BY <1>2, <2>1
  <2> QED BY <1>1, <2>2 DEF LogInv, Types, Phases
<1>4. BatchFits' /\ CursorInv' BY DEF BatchFits, InBatch, CursorInv, IsOpen
<1>5. Creation' BY <1>1, <1>2 DEF Creation
<1>6. Promise'
  <2>1. Len(promised') = 0 /\ Len(log') = 0 BY <1>1
  <2> QED BY <2>1 DEF Promise
<1>7. StoredInv' BY <1>1 DEF StoredInv
<1> QED BY <1>3, <1>4, <1>5, <1>6, <1>7 DEF LogInv

LEMMA FirstHeaderInv == ASSUME LogInv, FirstHeader PROVE LogInv'
<1> USE DEF FirstHeader
<1>1. log = <<>> /\ log \in Seq(Frame) /\ Len(log) = 0 BY DEF LogInv, Types, Creation
<1>2. /\ DOMAIN files' = {1} /\ files'[1] = NewFile(TRUE, TRUE)
      /\ NewFile(TRUE, TRUE) \in File /\ files'[1].header
  BY NewFileFacts
<1>3. 1 \in 1 .. Len(log) + 1 BY <1>1
<1>4. Types'
  <2>1. \A b \in DOMAIN files' : b \in 1 .. Len(log') + 1 /\ files'[b] \in File
    BY <1>2, <1>3
  <2> QED BY <2>1 DEF LogInv, Types, Phases
<1>5. BatchFits' /\ Creation' /\ Promise'
  BY <1>1 DEF LogInv, BatchFits, InBatch, Creation, Promise
<1>6. StoredInv' BY <1>1 DEF StoredInv
<1>7. CursorInv'
  <2>1. <<>> \in Seq(Frame) /\ UnderCursor(<<>>)'
    <3>1. Holds(files'[1].cache, <<>>) BY <1>1, EmptyCursor
    <3>2. /\ <<>> \in Seq(Frame) /\ Size(<<>>) = 0 /\ Closed(<<>>)
          /\ Records(<<>>) = SubSeq(log, Len(log) + 1, Len(log))
      BY <1>1, EmptyCursor
    <3>3. Len(log) + 1 = 1 BY <1>1
    <3> QED BY <3>1, <3>2, <3>3 DEF UnderCursor
  <2>2. 1 \in Written' BY <1>2 DEF Written
  <2> QED BY <1>3, <2>1, <2>2 DEF CursorInv
<1> QED BY <1>4, <1>5, <1>6, <1>7 DEF LogInv

--------------------
\* SegmentSet::open: what the written segments hold together.
Held(b) == IF b = Max(Written) THEN Recovered(files[b].cache) ELSE Run(files[b].cache)

Total == Max(Written) + Len(Content(Max(Written))) - 1

Opening == LogInv /\ pc = "down" /\ Written # {} /\ Contiguous

LEMMA HeldFacts ==
    ASSUME Opening
    PROVE  /\ Written \subseteq Nat \ {0} /\ Max(Written) \in Written
           /\ \A x \in Written : x <= Max(Written)
           /\ \A b \in Written :
                /\ Held(b) \in Seq(Frame) /\ Holds(files[b].cache, Held(b))
                /\ Content(b) = Records(Held(b))
                /\ Content(b) \in Seq(Frame) /\ Len(Content(b)) \in Nat
           /\ Closed(Held(Max(Written)))
           /\ Total \in Nat
<1> USE DEF Opening
<1>1. Len(log) + 1 \in Nat /\ Written \subseteq 1 .. Len(log) + 1 BY LogFacts
<1>2. Written \subseteq Nat /\ Written \subseteq Nat \ {0} /\ \A x \in Written : x <= Len(log) + 1
  BY <1>1
<1>3. Max(Written) \in Written /\ \A x \in Written : x <= Max(Written)
  BY <1>1, <1>2, MaxIsGreatest
<1>4. ASSUME NEW b \in Written
      PROVE  /\ Held(b) \in Seq(Frame) /\ Holds(files[b].cache, Held(b))
             /\ Content(b) = Records(Held(b))
             /\ Content(b) \in Seq(Frame) /\ Len(Content(b)) \in Nat
             /\ b = Max(Written) => Closed(Held(b))
  <2>1. b \in DOMAIN files /\ files[b] \in File BY DEF Written, LogInv, Types
  <2>2. PICK c \in Area : c = files[b].cache BY <2>1, FileParts
  <2>3. Held(b) = IF b = Max(Written) THEN Recovered(c) ELSE Run(c) BY <2>2 DEF Held
  <2>4. Held(b) \in Seq(Frame) /\ Holds(c, Held(b)) /\ (b = Max(Written) => Closed(Held(b)))
    BY <2>3, RunHolds, RecoveredHolds
  <2>5. Holds(files[b].cache, Held(b)) BY <2>2, <2>4
  <2>6. Content(b) = Records(Held(b)) BY DEF Content, Held
  <2> QED BY <2>4, <2>5, <2>6, LayoutType
<1>5. Total \in Nat
  <2>1. Max(Written) \in Nat \ {0} /\ Len(Content(Max(Written))) \in Nat
    BY <1>2, <1>3, <1>4
  <2> QED BY <2>1 DEF Total
<1> QED BY <1>2, <1>3, <1>4, <1>5

LEMMA AfterFacts ==
    ASSUME Opening, NEW b \in Written, b # Max(Written)
    PROVE  /\ After(b) \in Written /\ b < After(b) /\ After(b) = b + Len(Content(b))
           /\ \A x \in Written : b < x => After(b) <= x
<1> DEFINE S == {x \in Written : x > b}
<1>1. /\ Written \subseteq Nat \ {0} /\ Max(Written) \in Written
      /\ \A x \in Written : x <= Max(Written)
  BY HeldFacts
<1>2. S \subseteq Nat /\ Max(Written) \in S
  <2>1. b \in Nat /\ Max(Written) \in Nat /\ b <= Max(Written) BY <1>1
  <2>2. Max(Written) > b BY <2>1
  <2> QED BY <1>1, <2>2
<1>3. After(b) \in S /\ \A x \in S : After(b) <= x
  <2>1. After(b) = Min(S) BY DEF After
  <2> HIDE DEF S
  <2> QED BY <1>2, <2>1, MinIsLeast
<1>4. After(b) = b + Len(Content(b)) BY DEF Opening, Contiguous
<1> QED BY <1>1, <1>3, <1>4

LEMMA OwnerFacts ==
    ASSUME Opening, NEW p \in Nat \ {0}
    PROVE  /\ Owner(p) \in Written /\ Owner(p) <= p
           /\ \A x \in Written : x <= p => x <= Owner(p)
<1> DEFINE S == {x \in Written : x <= p}
<1>1. Written \subseteq Nat \ {0} /\ Written \subseteq Nat BY HeldFacts
<1>2. 1 \in Written BY <1>1, MinIsLeast DEF Opening, Contiguous
<1>3. S \subseteq Nat /\ 1 \in S /\ p \in Nat /\ \A x \in S : x <= p
  <2>1. 1 <= p /\ p \in Nat OBVIOUS
  <2> QED BY <1>1, <1>2, <2>1
<1>4. Owner(p) \in S /\ \A x \in S : x <= Owner(p)
  <2>1. Owner(p) = Max(S) BY DEF Owner
  <2> HIDE DEF S
  <2> QED BY <1>3, <2>1, MaxIsGreatest
<1> QED BY <1>1, <1>4

LEMMA OwnerServes ==
    ASSUME Opening, NEW p \in 1 .. Total
    PROVE  p - Owner(p) + 1 \in 1 .. Len(Content(Owner(p)))
<1>1. Total \in Nat BY HeldFacts
<1>2. p \in Nat \ {0} /\ p <= Total BY <1>1
<1>3. PICK o \in Written : /\ o = Owner(p) /\ o <= p
                           /\ \A x \in Written : x <= p => x <= o
  BY <1>2, OwnerFacts
<1>4. PICK n \in Nat : n = Len(Content(o)) /\ o \in Nat \ {0} BY <1>3, HeldFacts
<1>5. p < o + n
  <2>1. CASE o = Max(Written)
    <3>1. Total = o + n - 1 BY <1>4, <2>1 DEF Total
    <3> QED BY <1>2, <1>4, <3>1
  <2>2. CASE o # Max(Written)
    <3>1. PICK a \in Written : a = After(o) /\ o < a /\ a = o + n
      BY <1>3, <1>4, <2>2, AfterFacts
    <3>2. a \in Nat BY <1>4, <3>1
    <3> QED BY <1>2, <1>3, <1>4, <3>1, <3>2
  <2> QED BY <2>1, <2>2
<1> QED BY <1>2, <1>3, <1>4, <1>5

\* What open serves is a log, each position held by its owner.
LEMMA ContentsFacts ==
    ASSUME Opening
    PROVE  /\ Contents \in Seq(Frame) /\ Len(Contents) = Total
           /\ \A p \in 1 .. Total : Contents[p] = Content(Owner(p))[p - Owner(p) + 1]
<1>1. Contents = [p \in 1 .. Total |-> Content(Owner(p))[p - Owner(p) + 1]]
  BY DEF Contents, Total
<1>2. Total \in Nat BY HeldFacts
<1>3. ASSUME NEW p \in 1 .. Total PROVE Content(Owner(p))[p - Owner(p) + 1] \in Frame
  <2>1. PICK k \in 1 .. Len(Content(Owner(p))) : k = p - Owner(p) + 1 BY OwnerServes
  <2>2. p \in Nat \ {0} BY <1>2
  <2>3. Owner(p) \in Written BY <2>2, OwnerFacts
  <2>4. PICK s \in Seq(Frame) : s = Content(Owner(p)) BY <2>3, HeldFacts
  <2>5. s[k] \in Frame BY <2>1, <2>4, ElementOfSeq
  <2> QED BY <2>1, <2>4, <2>5
<1>4. Contents \in [1 .. Total -> Frame] BY <1>1, <1>3
<1>5. \A p \in 1 .. Total : Contents[p] = Content(Owner(p))[p - Owner(p) + 1] BY <1>1
<1> HIDE DEF Total
<1> QED BY <1>2, <1>4, <1>5

\* What was stored before the crash is served again, by the segment that stored it.
LEMMA ServedAgain ==
    ASSUME Opening, NEW p \in 1 .. Len(log), Stored(p)
    PROVE  /\ p \in 1 .. Total /\ Contents[p] = log[p]
           /\ \E F \in Seq(Frame) : Safe(Owner(p), F) /\ Serves(Owner(p), F, p)
<1>1. PICK b \in Nat : \E F \in Seq(Frame) : Safe(b, F) /\ Serves(b, F, p)
  BY DEF Stored
<1>2. PICK F \in Seq(Frame) : Safe(b, F) /\ Serves(b, F, p) BY <1>1
<1>3. b \in Written /\ Holds(files[b].cache, F) BY <1>2 DEF Safe, Kept
<1>4. /\ Written \subseteq Nat \ {0} /\ Max(Written) \in Written
      /\ \A x \in Written : x <= Max(Written)
      /\ Held(b) \in Seq(Frame) /\ Content(b) = Records(Held(b)) /\ Total \in Nat
  BY <1>3, HeldFacts
<1>5. Closed(F) BY <1>2 DEF Serves
<1>6. PICK G \in Seq(Frame) : Held(b) = F \o G
  <2>1. PICK c \in Area : c = files[b].cache
    BY <1>3, FileParts DEF Written, Opening, LogInv, Types
  <2>2. CASE b = Max(Written) BY <1>3, <1>5, <2>1, <2>2, RecoveredContinues DEF Held
  <2>3. CASE b # Max(Written) BY <1>3, <2>1, <2>3, RunContinues DEF Held
  <2> QED BY <2>2, <2>3
<1>7. PICK r \in Seq(Frame), q \in Seq(Frame) :
        r = Records(F) /\ q = Records(G) /\ Content(b) = r \o q
  <2>1. Records(F) \in Seq(Frame) /\ Records(G) \in Seq(Frame) BY LayoutType
  <2>2. Records(F \o G) = Records(F) \o Records(G) BY LayoutConcat
  <2>3. Content(b) = Records(F) \o Records(G) BY <1>4, <1>6, <2>2
  <2> QED BY <2>1, <2>3
<1>8. PICK n \in Nat, m \in Nat : n = Len(r) /\ m = Len(q) BY <1>7, LenProperties
<1>9. Len(r \o q) = n + m /\ \A i \in 1 .. n : (r \o q)[i] = r[i]
  <2>1. /\ Len(r \o q) = Len(r) + Len(q)
        /\ \A i \in 1 .. Len(r) + Len(q) :
             (r \o q)[i] = IF i <= Len(r) THEN r[i] ELSE q[i - Len(r)]
    BY ConcatProperties
  <2> QED BY <1>8, <2>1
<1>10. PICK k \in 1 .. n : k = p - b + 1 /\ r[k] = log[p] BY <1>2, <1>7, <1>8 DEF Serves
<1>11. p \in Nat \ {0} /\ b \in Nat \ {0} /\ b <= p /\ p < b + (n + m)
  <2>1. Len(log) \in Nat BY LogFacts DEF Opening
  <2> QED BY <1>3, <1>4, <1>8, <1>10, <2>1
<1>12. Content(b)[k] = log[p] /\ Len(Content(b)) = n + m BY <1>7, <1>9, <1>10
<1>13. ASSUME NEW x \in Written, b < x PROVE p < x
  <2>1. b # Max(Written) BY <1>4, <1>11, <1>13
  <2>2. After(b) = b + (n + m) /\ After(b) <= x BY <1>3, <1>12, <1>13, <2>1, AfterFacts
  <2>3. x \in Nat BY <1>4
  <2> QED BY <1>8, <1>11, <2>2, <2>3
<1>14. p <= Total
  <2>1. PICK t \in Nat \ {0} : t = Max(Written) /\ b <= t BY <1>3, <1>4
  <2>2. CASE b = t
    <3>1. Total = b + (n + m) - 1 BY <1>12, <2>1, <2>2 DEF Total
    <3> QED BY <1>8, <1>11, <3>1
  <2>3. CASE b # t
    <3>1. p < t BY <1>4, <1>11, <1>13, <2>1, <2>3
    <3>2. PICK l \in Nat : l = Len(Content(Max(Written))) BY <1>4, HeldFacts
    <3>3. Total = t + l - 1 BY <2>1, <3>2 DEF Total
    <3> QED BY <1>11, <2>1, <3>1, <3>2, <3>3
  <2> QED BY <2>2, <2>3
<1>15. p \in 1 .. Total BY <1>4, <1>11, <1>14
<1>16. Owner(p) = b
  <2>1. PICK o \in Written : /\ o = Owner(p) /\ o <= p
                             /\ \A x \in Written : x <= p => x <= o
    BY <1>11, OwnerFacts
  <2>2. o \in Nat /\ b <= o BY <1>3, <1>4, <1>11, <2>1
  <2>3. ~ (b < o) BY <1>11, <1>13, <2>1, <2>2
  <2> QED BY <1>11, <2>1, <2>2, <2>3
<1>17. Contents[p] = Content(Owner(p))[p - Owner(p) + 1] BY <1>15, ContentsFacts
<1> QED BY <1>2, <1>10, <1>12, <1>15, <1>16, <1>17

LEMMA OpenSetInv == ASSUME LogInv, OpenSet PROVE LogInv'
<1>1. /\ pc = "down" /\ Written # {} /\ Contiguous
      /\ files' = [b \in Written |-> files[b]]
      /\ base' = Max(Written)
      /\ offset' = Size(Recovered(files[Max(Written)].cache))
      /\ log' = Contents /\ pc' = "idle"
      /\ UNCHANGED <<drift, batch, promised, batches>>
  BY DEF OpenSet, Opens
<1>2. Opening BY <1>1 DEF Opening
<1>3. PICK t \in Nat \ {0}, F \in Seq(Frame) :
        t = Max(Written) /\ F = Held(t) /\ t \in Written /\ \A x \in Written : x <= t
  BY <1>2, HeldFacts
<1>4. /\ Written \subseteq Nat \ {0} /\ Total \in Nat
      /\ \A b \in Written : /\ Held(b) \in Seq(Frame) /\ Holds(files[b].cache, Held(b))
                            /\ Content(b) = Records(Held(b))
      /\ Closed(F)
  BY <1>2, <1>3, HeldFacts
<1>5. base' = t /\ offset' = Size(F) /\ offset' \in Nat BY <1>1, <1>3, LayoutType DEF Held
<1>6. PICK l \in Seq(Frame) : /\ l = log' /\ Len(l) = Total
                              /\ \A p \in 1 .. Total : l[p] = Content(Owner(p))[p - Owner(p) + 1]
  BY <1>1, <1>2, ContentsFacts
<1>7. DOMAIN files' = Written /\ \A b \in Written : files'[b] = files[b] /\ b \in DOMAIN files
  BY <1>1 DEF Written
<1>8. Written' = Written BY <1>7 DEF Written
<1>9. PICK r \in Seq(Frame), n \in Nat : r = Records(F) /\ n = Len(r) /\ r = Content(t)
  BY <1>3, <1>4, LayoutType
<1>10. Total = t + n - 1 BY <1>3, <1>9 DEF Total
<1>11. \A x \in Written : x \in 1 .. Total + 1 BY <1>3, <1>4, <1>10
<1>12. Types'
  <2>1. \A b \in DOMAIN files' : b \in 1 .. Len(log') + 1 /\ files'[b] \in File
    BY <1>6, <1>7, <1>11 DEF LogInv, Types
  <2> QED BY <1>1, <1>5, <1>6, <2>1 DEF LogInv, Types, Phases
<1>13. BatchFits' /\ Creation' BY <1>1 DEF BatchFits, InBatch, Creation
<1>15. CursorInv'
  <2>1. t \in 1 .. Len(l) + 1 /\ Len(l) - t + 1 = n
    <3>1. PICK k \in Nat : k = Len(l) /\ k = t + n - 1 BY <1>4, <1>6, <1>10
    <3>2. t \in 1 .. k + 1 /\ k - t + 1 = n BY <3>1
    <3> QED BY <3>1, <3>2
  <2>2. PICK x \in Seq(Frame) :
          /\ x = SubSeq(l, t, Len(l)) /\ Len(x) = n
          /\ \A i \in 1 .. n : x[i] = l[t + i - 1]
    BY <2>1, Ending
  <2>3. ASSUME NEW i \in 1 .. n PROVE x[i] = r[i]
    <3>1. PICK p \in 1 .. Total : p = t + i - 1 /\ p \in Nat \ {0} /\ t <= p /\ p - t + 1 = i
      <4>1. PICK k \in Nat : k = Total /\ k = t + n - 1 BY <1>4, <1>10
      <4>2. /\ t + i - 1 \in 1 .. k /\ t + i - 1 \in Nat \ {0} /\ t <= t + i - 1
            /\ (t + i - 1) - t + 1 = i
        BY <4>1
      <4> QED BY <4>1, <4>2
    <3>2. PICK o \in Written : o = Owner(p) /\ \A y \in Written : y <= p => y <= o
      BY <1>2, <3>1, OwnerFacts
    <3>3. o = t
      <4>1. o <= t /\ t <= o /\ o \in Nat BY <1>3, <1>4, <3>1, <3>2
      <4> QED BY <1>3, <4>1
    <3>4. l[p] = Content(Owner(p))[p - Owner(p) + 1] BY <1>6
    <3>5. l[p] = r[i] BY <1>9, <3>1, <3>2, <3>3, <3>4
    <3> QED BY <2>2, <3>1, <3>5
  <2>4. x = r BY <1>9, <2>2, <2>3, SeqEqual
  <2>5. Holds(files'[t].cache, F) BY <1>3, <1>4, <1>7
  <2>6. UnderCursor(F)' BY <1>4, <1>5, <1>6, <1>9, <2>2, <2>4, <2>5 DEF UnderCursor
  <2> QED BY <1>3, <1>5, <1>6, <1>8, <2>1, <2>6 DEF CursorInv
<1>16. ASSUME NEW p \in 1 .. Total, Anchored(p)' PROVE Stored(p)'
  <2>1. PICK m \in Nat : m = Len(log) /\ Written \subseteq 1 .. m + 1 BY LogFacts
  <2>2. p \in Nat \ {0} BY <1>4
  <2>3. Anchored(p) BY <1>1, <1>8, <1>16 DEF Anchored
  <2>4. p \in 1 .. m
    <3>1. CASE p <= Len(promised)
      <4>1. Len(promised) \in Nat /\ Len(promised) <= m
        BY <2>1, LenProperties DEF LogInv, Promise, Types
      <4> QED BY <2>1, <2>2, <3>1, <4>1
    <3>2. CASE \E x \in Written : p < x
      <4>1. PICK x \in 1 .. m + 1 : p < x BY <2>1, <3>2
      <4> QED BY <2>1, <2>2, <4>1
    <3> QED BY <2>3, <3>1, <3>2 DEF Anchored
  <2>5. PICK b \in Written : /\ b = Owner(p) /\ b <= p /\ b \in Nat
                              /\ \A x \in Written : x <= p => x <= b
    BY <1>2, <1>4, <2>2, OwnerFacts
  <2>6. l[p] = log[p] /\ \E G \in Seq(Frame) : Safe(b, G) /\ Serves(b, G, p)
    <3>1. Stored(p) BY <2>1, <2>3, <2>4 DEF LogInv, StoredInv
    <3> QED BY <1>1, <1>2, <1>6, <2>1, <2>4, <2>5, <3>1, ServedAgain
  <2>7. PICK G \in Seq(Frame) : Safe(b, G) /\ Serves(b, G, p) BY <2>6
  <2>8. b = base' => Size(G) <= offset'
    <3> SUFFICES ASSUME b = base' PROVE Size(G) <= offset'
      OBVIOUS
    <3>1. PICK c \in Area : c = files[t].cache
      BY <1>7, <1>3, FileParts DEF LogInv, Types
    <3>2. b = t /\ Holds(c, G) /\ Closed(G) BY <1>5, <2>7, <3>1 DEF Safe, Kept, Serves
    <3>3. PICK R \in Seq(Frame) : F = G \o R
      BY <1>3, <3>1, <3>2, RecoveredContinues DEF Held
    <3>4. Size(F) = Size(G) + Size(R) /\ Size(G) \in Nat /\ Size(R) \in Nat
      BY <3>3, LayoutConcat, LayoutType
    <3> QED BY <1>5, <3>4
  <2>9. Safe(b, G)' BY <1>7, <1>8, <2>7, <2>8 DEF Safe, Kept
  <2>10. b <= base' /\ (b < base' => p < base')
    <3>1. b <= t BY <1>3, <2>5
    <3>2. b < t => p < t BY <1>3, <2>2, <2>5
    <3> QED BY <1>5, <3>1, <3>2
  <2>11. Serves(b, G, p)' BY <1>6, <2>6, <2>7, <2>10 DEF Serves
  <2> QED BY <2>5, <2>9, <2>11 DEF Stored
<1>17. StoredInv' BY <1>6, <1>16 DEF StoredInv
<1>18. Promise'
  <2>1. PICK m \in Nat, k \in Nat : /\ m = Len(log) /\ k = Len(promised) /\ k <= m
                                    /\ \A i \in 1 .. k : promised[i] = log[i]
    BY LenProperties, LogFacts DEF LogInv, Promise, Types
  <2>2. ASSUME NEW i \in 1 .. k PROVE i \in 1 .. Total /\ l[i] = promised[i]
    <3>1. i \in 1 .. m /\ Anchored(i) BY <2>1 DEF Anchored
    <3>2. Stored(i) BY <2>1, <3>1 DEF LogInv, StoredInv
    <3> QED BY <1>1, <1>2, <1>6, <2>1, <3>1, <3>2, ServedAgain
  <2>3. k <= Total
    <3>1. CASE k = 0 BY <1>4, <3>1
    <3>2. CASE k # 0
      <4>1. k \in 1 .. k BY <2>1, <3>2
      <4>2. PICK j \in Nat : j = Total BY <1>4
      <4>3. k \in 1 .. j BY <2>2, <4>1, <4>2
      <4> QED BY <4>2, <4>3
    <3> QED BY <3>1, <3>2
  <2> QED BY <1>1, <1>6, <2>1, <2>2, <2>3 DEF Promise
<1> QED BY <1>12, <1>13, <1>15, <1>17, <1>18 DEF LogInv

--------------------
\* Flaws stay, and the invariant holds of every behaviour without one.
Sound == flaws = {} => LogInv

LEMMA FlawsGrow == ASSUME [Next]_vars, flaws' = {} PROVE flaws = {}
<1>1. CASE CreateFile BY <1>1 DEF CreateFile, FlawedIf
<1>2. CASE SyncBatch BY <1>2 DEF SyncBatch, FlawedIf
<1>3. CASE SyncFails BY <1>3 DEF SyncFails, FlawedIf
<1>4. CASE RewindFails BY <1>4 DEF RewindFails
<1>5. CASE Begin \/ CreateExists \/ CreateFails \/ HeaderFails \/ WriteHeader \/ WriteBatch
  BY <1>5 DEF Begin, CreateExists, CreateFails, HeaderFails, WriteHeader, WriteBatch
<1>6. CASE WriteFails \/ FirstWriteFails \/ Kill \/ PowerLoss
  BY <1>6 DEF WriteFails, FirstWriteFails, Kill, PowerLoss, Down
<1>7. CASE OpenFresh \/ FirstHeader \/ OpenSet \/ OpenRefused
  BY <1>7 DEF OpenFresh, FirstHeader, OpenSet, OpenRefused
<1>8. CASE UNCHANGED vars BY <1>8 DEF vars
<1> QED BY <1>1, <1>2, <1>3, <1>4, <1>5, <1>6, <1>7, <1>8 DEF Next

LEMMA LogAlways == Spec => []Sound
<1>1. Sound /\ [Next]_vars => Sound'
  <2> SUFFICES ASSUME Sound, [Next]_vars, flaws' = {} PROVE LogInv'
    BY DEF Sound
  <2> LogInv BY FlawsGrow DEF Sound
  <2>1. CASE Begin BY <2>1, BeginInv
  <2>2. CASE CreateFile BY <2>2, CreateFileInv
  <2>3. CASE CreateExists \/ CreateFails \/ SyncFails BY <2>3, QuietInv
  <2>4. CASE HeaderFails BY <2>4, HeaderFailsInv
  <2>5. CASE WriteHeader BY <2>5, WriteHeaderInv
  <2>6. CASE WriteBatch BY <2>6, WriteBatchInv
  <2>7. CASE WriteFails \/ FirstWriteFails BY <2>7, WriteFailsInv
  <2>8. CASE RewindFails BY <2>8 DEF RewindFails
  <2>9. CASE SyncBatch BY <2>9, SyncBatchInv
  <2>10. CASE Kill BY <2>10, KillInv
  <2>11. CASE PowerLoss BY <2>11, PowerLossInv
  <2>12. CASE OpenFresh BY <2>12, OpenFreshInv
  <2>13. CASE FirstHeader BY <2>13, FirstHeaderInv
  <2>14. CASE OpenSet BY <2>14, OpenSetInv
  <2>15. CASE OpenRefused BY <2>15, RefusedInv
  <2>16. CASE UNCHANGED vars
    <3>1. UNCHANGED <<files, pc, base, offset, drift, log, batch, promised, batches>>
      BY <2>16 DEF vars
    <3>2. CursorInv' /\ StoredInv' BY <3>1, NoTouch DEF IsOpen
    <3>3. Types' /\ BatchFits' /\ Creation' /\ Promise'
      BY <3>1 DEF LogInv, Types, BatchFits, InBatch, Creation, NextPosition, Promise, Volatile
    <3> QED BY <3>2, <3>3 DEF LogInv
  <2> QED BY <2>1, <2>2, <2>3, <2>4, <2>5, <2>6, <2>7, <2>8, <2>9, <2>10, <2>11, <2>12,
             <2>13, <2>14, <2>15, <2>16 DEF Next
<1> QED BY <1>1, InitInv, PTL DEF Spec, Sound

--------------------
\* Whatever calls failed and however often the process was killed or the machine went down, at any
\* point of append_batch, rollover and open: once the set is open again it serves every record
\* append_batch returned a position for, at that position. The exceptions are the histories that
\* flaws names: a batch synced behind its offsets after a rewind that did nothing, a rewind that
\* failed, and records of the page cache that no sync covered before they were sealed in.
THEOREM AckedHolds == Spec => []AckedSurvives
<1>1. Sound => AckedSurvives
  <2> SUFFICES ASSUME LogInv PROVE IsPrefix(promised, log)
    BY DEF Sound, AckedSurvives, AckedIsDurable
  <2>1. promised \in Seq(Frame) /\ log \in Seq(Frame) BY DEF LogInv, Types
  <2>2. PICK k \in Nat, n \in Nat : k = Len(promised) /\ n = Len(log)
    BY <2>1, LenProperties
  <2>3. k <= n /\ \A i \in 1 .. k : promised[i] = log[i] BY <2>2 DEF LogInv, Promise
  <2>4. PICK s \in Seq(Frame) :
          s = SubSeq(log, 1, k) /\ Len(s) = k /\ \A i \in 1 .. k : s[i] = log[i]
    <3>1. k \in 0 .. Len(log) BY <2>2, <2>3
    <3> QED BY <2>1, <3>1, Cut
  <2>5. promised = s BY <2>1, <2>2, <2>3, <2>4, SeqEqual
  <2> QED BY <2>2, <2>3, <2>4, <2>5 DEF IsPrefix
<1> QED BY <1>1, LogAlways, PTL

\* The records of the active segment that append_batch returned a position for would be recovered
\* from what the disk holds of it now.
LEMMA DiskHolds ==
    ASSUME LogInv, IsOpen
    PROVE  IsPrefix(SubSeq(promised, base, Len(promised)), Records(Recovered(files[base].disk)))
<1>1. /\ promised \in Seq(Frame) /\ log \in Seq(Frame)
      /\ base \in Written /\ base \in Nat /\ base \in 1 .. Len(log) + 1
  BY DEF LogInv, Types, CursorInv
<1>2. PICK k \in Nat, n \in Nat : k = Len(promised) /\ n = Len(log)
  BY <1>1, LenProperties
<1>3. k <= n /\ \A i \in 1 .. k : promised[i] = log[i] BY <1>2 DEF LogInv, Promise
<1>4. files[base] \in File BY <1>1 DEF LogInv, Types, Written
<1>5. PICK d \in Area : d = files[base].disk BY <1>4, FileParts
<1>6. PICK R \in Seq(Frame) : R = Recovered(d) BY RecoveredHolds
<1>7. PICK r \in Seq(Frame) : r = Records(R) BY LayoutType
<1>8. PICK m \in Nat : m = Len(r) BY LenProperties
<1>9. \A p \in base .. k : p - base + 1 \in 1 .. m /\ r[p - base + 1] = promised[p]
  <2> SUFFICES ASSUME NEW p \in base .. k
               PROVE  p - base + 1 \in 1 .. m /\ r[p - base + 1] = promised[p]
    OBVIOUS
  <2>1. p \in 1 .. k /\ p \in 1 .. n BY <1>1, <1>3
  <2>2. Anchored(p) BY <1>2, <2>1 DEF Anchored
  <2>3. Stored(p) BY <1>2, <2>1, <2>2 DEF LogInv, StoredInv
  <2>4. PICK b \in Nat : \E F \in Seq(Frame) : Safe(b, F) /\ Serves(b, F, p) BY <2>3 DEF Stored
  <2>5. PICK F \in Seq(Frame) : Safe(b, F) /\ Serves(b, F, p) BY <2>4
  <2>6. b = base
    <3>1. b <= base /\ (b < base => p < base) BY <2>5 DEF Serves
    <3> QED BY <1>1, <3>1
  <2>7. Holds(d, F) /\ Closed(F) BY <1>5, <2>5, <2>6 DEF Safe, Kept, Serves
  <2>8. PICK G \in Seq(Frame) : R = F \o G BY <1>6, <2>7, RecoveredContinues
  <2>9. PICK u \in Seq(Frame), v \in Seq(Frame) : u = Records(F) /\ v = Records(G) BY LayoutType
  <2>10. r = u \o v BY <1>7, <2>8, <2>9, LayoutConcat
  <2>11. PICK i \in Nat, j \in Nat : i = Len(u) /\ j = Len(v) BY LenProperties
  <2>12. p - base + 1 \in 1 .. i /\ u[p - base + 1] = log[p]
    BY <2>5, <2>6, <2>9, <2>11 DEF Serves
  <2>13. m = i + j /\ \A q \in 1 .. i : r[q] = u[q]
    <3>1. /\ Len(u \o v) = Len(u) + Len(v)
          /\ \A q \in 1 .. Len(u) + Len(v) : (u \o v)[q] = IF q <= Len(u) THEN u[q] ELSE v[q - Len(u)]
      BY ConcatProperties
    <3> QED BY <1>8, <2>10, <2>11, <3>1
  <2>14. p - base + 1 \in 1 .. m BY <2>11, <2>12, <2>13
  <2> QED BY <1>3, <2>1, <2>12, <2>13, <2>14
<1>10. CASE base <= k
  <2>1. base \in 1 .. Len(promised) + 1 BY <1>1, <1>2, <1>10
  <2>2. PICK s \in Seq(Frame) :
          /\ s = SubSeq(promised, base, k) /\ Len(s) = k - base + 1
          /\ \A i \in 1 .. k - base + 1 : s[i] = promised[base + i - 1]
    BY <1>1, <1>2, <2>1, Ending
  <2>3. \A i \in 1 .. k - base + 1 : i \in 1 .. m /\ s[i] = r[i]
    <3> SUFFICES ASSUME NEW i \in 1 .. k - base + 1 PROVE i \in 1 .. m /\ s[i] = r[i]
      OBVIOUS
    <3>1. PICK p \in base .. k : p = base + i - 1 BY <1>1, <1>2
    <3>2. p - base + 1 = i BY <1>1, <3>1
    <3> QED BY <1>9, <2>2, <3>1, <3>2
  <2>4. PICK l \in Nat : l = k - base + 1 /\ l # 0
    <3>1. k - base + 1 \in Nat /\ k - base + 1 # 0 BY <1>1, <1>2, <1>10
    <3> QED BY <3>1
  <2>5. l \in 1 .. m BY <2>3, <2>4
  <2>6. PICK t \in Seq(Frame) : t = SubSeq(r, 1, l) /\ Len(t) = l /\ \A i \in 1 .. l : t[i] = r[i]
    <3>1. l \in 0 .. Len(r) BY <1>8, <2>5
    <3> QED BY <3>1, Cut
  <2>7. s = t BY <2>2, <2>3, <2>4, <2>6, SeqEqual
  <2>8. Len(s) <= Len(r) BY <1>8, <2>2, <2>4, <2>5
  <2>9. IsPrefix(s, r) BY <2>2, <2>4, <2>6, <2>7, <2>8 DEF IsPrefix
  <2> QED BY <1>2, <1>5, <1>6, <1>7, <2>2, <2>9
<1>11. CASE ~ (base <= k)
  <2>1. \A i \in base .. k : promised[i] \in Frame BY <1>1, <1>2, <1>11
  <2>2. PICK s \in Seq(Frame) : s = SubSeq(promised, base, k) /\ Len(s) = 0
    <3>1. base \in Int /\ k \in Int BY <1>1, <1>2
    <3>2. /\ SubSeq(promised, base, k) \in Seq(Frame)
          /\ Len(SubSeq(promised, base, k)) = IF base <= k THEN k - base + 1 ELSE 0
      BY <2>1, <3>1, SubSeqProperties
    <3> QED BY <1>11, <3>2
  <2>3. PICK t \in Seq(Frame) : t = SubSeq(r, 1, 0) /\ Len(t) = 0
    <3>1. 0 \in 0 .. Len(r) BY <1>8
    <3> QED BY <3>1, Cut
  <2>4. s = t BY <2>2, <2>3, SeqEqual
  <2>5. Len(s) <= Len(r) BY <1>8, <2>2
  <2>6. IsPrefix(s, r) BY <2>2, <2>3, <2>4, <2>5 DEF IsPrefix
  <2> QED BY <1>2, <1>5, <1>6, <1>7, <2>2, <2>6
<1> QED BY <1>10, <1>11

\* At every moment the page cache holds, under the writer's cursor, exactly the records the log
\* serves from the active segment, and of these the disk holds, up to a marker, every record that
\* append_batch returned a position for. Again the histories that flaws names are the exception.
THEOREM CursorHolds == Spec => []CursorIsRecoverable
<1>1. Sound => CursorIsRecoverable
  <2> SUFFICES ASSUME LogInv, IsOpen
               PROVE  /\ \E n \in 0 .. Len(Run(files[base].cache)) :
                           LET run == SubSeq(Run(files[base].cache), 1, n) IN
                           Size(run) = offset /\ Records(run) = SubSeq(log, base, Len(log))
                      /\ IsPrefix(SubSeq(promised, base, Len(promised)),
                                  Records(Recovered(files[base].disk)))
    BY DEF Sound, CursorIsRecoverable
  <2>1. PICK F \in Seq(Frame) : UnderCursor(F) BY DEF LogInv, CursorInv
  <2>2. PICK c \in Area : c = files[base].cache /\ Holds(c, F)
    <3>1. files[base] \in File BY DEF LogInv, Types, CursorInv, Written
    <3> QED BY <2>1, <3>1, FileParts DEF UnderCursor
  <2>3. PICK G \in Seq(Frame) : Run(c) = F \o G BY <2>2, RunContinues
  <2>4. PICK run \in Seq(Frame) : run = Run(c) BY <2>2, RunHolds
  <2>5. PICK n \in Nat, m \in Nat : n = Len(F) /\ m = Len(G) BY LenProperties
  <2>6. Len(run) = n + m /\ \A i \in 1 .. n : run[i] = F[i]
    <3>1. /\ Len(F \o G) = Len(F) + Len(G)
          /\ \A i \in 1 .. Len(F) + Len(G) :
               (F \o G)[i] = IF i <= Len(F) THEN F[i] ELSE G[i - Len(F)]
      BY ConcatProperties
    <3> QED BY <2>3, <2>4, <2>5, <3>1
  <2>7. n \in 0 .. Len(run) BY <2>5, <2>6
  <2>8. PICK s \in Seq(Frame) :
          s = SubSeq(run, 1, n) /\ Len(s) = n /\ \A i \in 1 .. n : s[i] = run[i]
    BY <2>7, Cut
  <2>9. s = F BY <2>5, <2>6, <2>8, SeqEqual
  <2>10. Size(s) = offset /\ Records(s) = SubSeq(log, base, Len(log))
    BY <2>1, <2>9 DEF UnderCursor
  <2>11. \E k \in 0 .. Len(Run(files[base].cache)) :
           LET q == SubSeq(Run(files[base].cache), 1, k) IN
           Size(q) = offset /\ Records(q) = SubSeq(log, base, Len(log))
    BY <2>2, <2>4, <2>7, <2>8, <2>10
  <2> QED BY <2>11, DiskHolds
<1> QED BY <1>1, LogAlways, PTL

--------------------
\* One crash and no failed call. A torn area holds frames F, behind them any part of the cells of
\* the frames G, and zeros to its end.
Torn(c, F, G) ==
    /\ Holds(c, F)
    /\ Size(F) + Size(G) <= Capacity
    /\ \A i \in 1 .. Size(G) : c[Size(F) + i] \in {Zero, Layout(G)[i]}
    /\ \A i \in Size(F) + Size(G) + 1 .. Capacity : c[i] = Zero

Splits(s, P, e, R) == s = (P \o <<e>>) \o R

LEMMA PrefixNext ==
    ASSUME NEW s \in Seq(Frame), NEW j \in Nat, j < Len(s)
    PROVE  s[j + 1] \in Frame /\ SubSeq(s, 1, j + 1) = SubSeq(s, 1, j) \o <<s[j + 1]>>
<1>1. PICK n \in Nat : n = Len(s) /\ j < n BY LenProperties
<1>2. j \in 0 .. n /\ j + 1 \in 0 .. n /\ j + 1 \in 1 .. n BY <1>1
<1>3. PICK e \in Frame : e = s[j + 1] BY <1>1, <1>2, ElementOfSeq
<1>4. PICK P \in Seq(Frame) :
        P = SubSeq(s, 1, j) /\ Len(P) = j /\ \A i \in 1 .. j : P[i] = s[i]
  BY <1>1, <1>2, Cut
<1>5. PICK A \in Seq(Frame) :
        A = SubSeq(s, 1, j + 1) /\ Len(A) = j + 1 /\ \A i \in 1 .. j + 1 : A[i] = s[i]
  BY <1>1, <1>2, Cut
<1>6. PICK B \in Seq(Frame) : /\ B = Append(P, e) /\ Len(B) = j + 1 /\ B[j + 1] = e
                              /\ \A i \in 1 .. j : B[i] = P[i]
  <2>1. PICK B \in Seq(Frame) : B = Append(P, e) BY AppendProperties
  <2>2. Len(B) = Len(P) + 1 /\ B[Len(P) + 1] = e /\ Same(B, P, Len(P))
    BY <2>1, AppendProperties DEF Same
  <2>3. Len(P) = j BY <1>4
  <2> QED BY <2>1, <2>2, <2>3 DEF Same
<1>7. ASSUME NEW i \in 1 .. j + 1 PROVE A[i] = B[i]
  <2>1. CASE i = j + 1 BY <1>3, <1>5, <1>6, <2>1
  <2>2. CASE i # j + 1
    <3>1. i \in 1 .. j BY <2>2
    <3> QED BY <1>4, <1>5, <1>6, <3>1
  <2> QED BY <2>1, <2>2
<1>8. A = B BY <1>5, <1>6, <1>7, SeqEqual
<1>9. B = P \o <<e>> BY <1>3, <1>6, AppendIsConcat
<1> QED BY <1>3, <1>4, <1>5, <1>8, <1>9

LEMMA SplitAt ==
    ASSUME NEW s \in Seq(Frame), NEW j \in Nat, j < Len(s)
    PROVE  /\ s[j + 1] \in Frame
           /\ \E R \in Seq(Frame) : Splits(s, SubSeq(s, 1, j), s[j + 1], R)
<1>1. j + 1 \in 0 .. Len(s) BY LenProperties
<1>2. PICK R \in Seq(Frame) : s = SubSeq(s, 1, j + 1) \o R BY <1>1, Cut
<1> QED BY <1>2, PrefixNext DEF Splits

\* The first cell of a frame among others.
LEMMA FirstCell ==
    ASSUME NEW P \in Seq(Frame), NEW g \in Frame, NEW R \in Seq(Frame), NEW G \in Seq(Frame),
           Splits(G, P, g, R)
    PROVE  /\ Size(P) + 1 \in 1 .. Size(G)
           /\ Layout(G)[Size(P) + 1] = [frame |-> g, nth |-> 1]
<1>1. PICK O \in Seq(Frame) : O = <<g>> /\ Layout(O) = CellsOf(g) /\ Size(O) = g.len
  BY LayoutOne
<1>2. PICK l \in Nat \ {0} : l = g.len BY DEF Frame
<1>3. PICK n \in Nat, m \in Nat : n = Size(P) /\ m = Size(R) BY LayoutType
<1>4. PICK Q \in Seq(Frame) : Q = P \o O /\ Layout(Q) = Layout(P) \o Layout(O) /\ Size(Q) = n + l
  <2>1. /\ P \o O \in Seq(Frame) /\ Layout(P \o O) = Layout(P) \o Layout(O)
        /\ Size(P \o O) = Size(P) + Size(O)
    BY LayoutConcat
  <2>2. Size(P) = n /\ Size(O) = l BY <1>1, <1>2, <1>3
  <2> QED BY <2>1, <2>2
<1>5. Layout(G) = Layout(Q) \o Layout(R) /\ Size(G) = (n + l) + m
  <2>1. Layout(Q \o R) = Layout(Q) \o Layout(R) /\ Size(Q \o R) = Size(Q) + Size(R)
    BY LayoutConcat
  <2>2. Size(Q) = n + l /\ Size(R) = m /\ G = Q \o R BY <1>1, <1>3, <1>4 DEF Splits
  <2> QED BY <2>1, <2>2
<1>6. PICK a \in Seq(Cell), b \in Seq(Cell), c \in Seq(Cell), d \in Seq(Cell) :
        a = Layout(P) /\ b = Layout(O) /\ c = Layout(Q) /\ d = Layout(R)
  BY LayoutType
<1>7. Len(a) = n /\ Len(b) = l /\ Len(c) = n + l /\ Len(d) = m
  BY <1>1, <1>2, <1>3, <1>4, <1>6 DEF Size
<1>8. n + 1 \in 1 .. (n + l) + m /\ n + 1 <= n + l /\ ~ (n + 1 <= n) /\ (n + 1) - n = 1
      /\ n + 1 \in 1 .. n + l /\ 1 \in 1 .. l
  <2>1. l \in Nat /\ 1 <= l OBVIOUS
  <2> QED BY <2>1
<1>9. (c \o d)[n + 1] = c[n + 1]
  <2>1. \A i \in 1 .. Len(c) + Len(d) :
          (c \o d)[i] = IF i <= Len(c) THEN c[i] ELSE d[i - Len(c)]
    BY ConcatProperties
  <2> QED BY <1>7, <1>8, <2>1
<1>10. (a \o b)[n + 1] = b[1]
  <2>1. \A i \in 1 .. Len(a) + Len(b) :
          (a \o b)[i] = IF i <= Len(a) THEN a[i] ELSE b[i - Len(a)]
    BY ConcatProperties
  <2> QED BY <1>7, <1>8, <2>1
<1>11. b[1] = [frame |-> g, nth |-> 1] BY <1>1, <1>2, <1>6, <1>8, CellsOfType
<1> QED BY <1>3, <1>4, <1>5, <1>6, <1>8, <1>9, <1>10, <1>11

LEMMA JoinBehind ==
    ASSUME NEW a \in Seq(Frame), NEW b \in Seq(Frame), NEW c \in Seq(Frame),
           NEW d \in Seq(Frame), d = b \o c
    PROVE  a \o d = (a \o b) \o c
BY FramesAssociate, ZenonT(30)

LEMMA SplitBehind ==
    ASSUME NEW F \in Seq(Frame), NEW H \in Seq(Frame), NEW P \in Seq(Frame), NEW e \in Frame,
           NEW R \in Seq(Frame), Splits(H, P, e, R)
    PROVE  Splits(F \o H, F \o P, e, R)
<1>1. PICK O \in Seq(Frame) : O = <<e>> BY LayoutOne
<1>2. PICK V \in Seq(Frame) : V = P \o O BY ConcatProperties
<1>3. H = V \o R BY <1>1, <1>2 DEF Splits
<1>4. F \o H = (F \o V) \o R BY <1>3, JoinBehind, SMTT(40)
<1>5. F \o V = (F \o P) \o O BY <1>2, JoinBehind
<1> QED BY <1>1, <1>4, <1>5 DEF Splits

LEMMA HoldsSplit ==
    ASSUME NEW c \in Area, NEW H \in Seq(Frame), NEW P \in Seq(Frame), NEW e \in Frame,
           NEW R \in Seq(Frame), Splits(H, P, e, R), Holds(c, H)
    PROVE  ValidAt(c, Size(P) + 1) /\ c[Size(P) + 1].frame = e
<1>1. PICK O \in Seq(Frame) : O = <<e>> BY LayoutOne
<1>2. PICK V \in Seq(Frame) : V = P \o O BY ConcatProperties
<1>3. H = V \o R BY <1>1, <1>2 DEF Splits
<1>4. Holds(c, V) BY <1>3, HoldsPrefix
<1> QED BY <1>1, <1>2, <1>4, HoldsValid

\* A run through a torn area ends with the frames that are there in full.
LEMMA TornRun ==
    ASSUME NEW c \in Area, NEW F \in Seq(Frame), NEW G \in Seq(Frame), Torn(c, F, G)
    PROVE  \E k \in 0 .. Len(G) : Run(c) = F \o SubSeq(G, 1, k)
<1>1. PICK H \in Seq(Frame) : Run(c) = F \o H BY RunContinues DEF Torn
<1>2. Holds(c, F \o H) BY <1>1, RunHolds
<1>3. PICK n \in Nat, m \in Nat, k \in Nat : n = Len(H) /\ m = Len(G) /\ k = Size(F)
  BY LenProperties, LayoutType
<1> DEFINE T == {j \in Nat : j <= m /\ \A i \in 1 .. j : H[i] = G[i]}
<1>4. 0 \in T BY <1>3
<1>5. ASSUME NEW j \in Nat, j < n, j \in T PROVE j + 1 \in T
  <2>1. j <= m /\ \A i \in 1 .. j : H[i] = G[i] BY <1>5
  <2> HIDE DEF T
  <2>2. PICK P \in Seq(Frame) : P = SubSeq(H, 1, j) /\ Len(P) = j /\ \A i \in 1 .. j : P[i] = H[i]
    <3>1. j \in 0 .. Len(H) BY <1>3, <1>5
    <3> QED BY <3>1, Cut
  <2>3. PICK S \in Seq(Frame) : S = SubSeq(G, 1, j) /\ Len(S) = j /\ \A i \in 1 .. j : S[i] = G[i]
    <3>1. j \in 0 .. Len(G) BY <1>3, <2>1
    <3> QED BY <3>1, Cut
  <2>4. P = S BY <2>1, <2>2, <2>3, SeqEqual
  <2>5. PICK f \in Frame, R \in Seq(Frame) : f = H[j + 1] /\ Splits(H, P, f, R)
    <3>1. j < Len(H) BY <1>3, <1>5
    <3>2. /\ H[j + 1] \in Frame
          /\ \E R \in Seq(Frame) : Splits(H, SubSeq(H, 1, j), H[j + 1], R)
      BY <3>1, SplitAt
    <3> QED BY <2>2, <3>2
  <2>6. PICK U \in Seq(Frame), Q \in Seq(Frame) : U = F \o H /\ Q = F \o P
    BY ConcatProperties
  <2>7. Splits(U, Q, f, R) BY <2>5, <2>6, SplitBehind
  <2>10. ValidAt(c, Size(Q) + 1) /\ c[Size(Q) + 1].frame = f
    BY <1>2, <2>6, <2>7, HoldsSplit
  <2>11. PICK s \in Nat : s = Size(P) /\ Size(Q) = k + s
    BY <1>3, <2>6, LayoutConcat, LayoutType
  <2>12. c[k + s + 1].nth = 1 /\ k + s + 1 \in 1 .. Capacity /\ c[k + s + 1].frame = f
    BY <2>10, <2>11, ValidFacts DEF ValidAt
  <2>13. c[k + s + 1] # Zero BY <2>12 DEF Zero
  <2>14. j # m
    <3> SUFFICES ASSUME j = m PROVE FALSE
      OBVIOUS
    <3>1. S = G BY <1>3, <2>3, SeqEqual
    <3>2. Size(G) = s BY <2>4, <2>11, <3>1
    <3>3. k + s + 1 \in Size(F) + Size(G) + 1 .. Capacity
      BY <1>3, <2>11, <2>12, <3>2, ShapesAssumption
    <3> QED BY <2>13, <3>3 DEF Torn
  <2>15. j < m /\ j + 1 <= m BY <1>3, <2>1, <2>14
  <2>16. PICK g \in Frame, W \in Seq(Frame) : g = G[j + 1] /\ Splits(G, S, g, W)
    <3>1. j < Len(G) BY <1>3, <2>15
    <3>2. /\ G[j + 1] \in Frame
          /\ \E W \in Seq(Frame) : Splits(G, SubSeq(G, 1, j), G[j + 1], W)
      BY <3>1, SplitAt
    <3> QED BY <2>3, <3>2
  <2>17. s + 1 \in 1 .. Size(G) /\ Layout(G)[s + 1] = [frame |-> g, nth |-> 1]
    <3>1. Size(S) + 1 \in 1 .. Size(G) /\ Layout(G)[Size(S) + 1] = [frame |-> g, nth |-> 1]
      BY <2>16, FirstCell
    <3> QED BY <2>4, <2>11, <3>1
  <2>18. k + (s + 1) = k + s + 1 BY <1>3, <2>11
  <2>19. c[k + s + 1] \in {Zero, Layout(G)[s + 1]} BY <1>3, <2>17, <2>18 DEF Torn
  <2>20. f = g BY <2>12, <2>13, <2>17, <2>19
  <2>21. ASSUME NEW i \in 1 .. j + 1 PROVE H[i] = G[i]
    <3>1. CASE i = j + 1 BY <2>5, <2>16, <2>20, <3>1
    <3>2. CASE i # j + 1
      <4>1. i \in 1 .. j BY <3>2
      <4> QED BY <2>1, <4>1
    <3> QED BY <3>1, <3>2
  <2> QED BY <2>15, <2>21 DEF T
<1>6. \A i \in 0 .. n : i \in T
  <2> HIDE DEF T
  <2> QED BY <1>3, <1>4, <1>5, UpTo
<1>7. n <= m /\ \A i \in 1 .. n : H[i] = G[i]
  <2>1. n \in 0 .. n BY <1>3
  <2>2. n \in T BY <1>6, <2>1
  <2> QED BY <2>2
<1>8. n \in 0 .. Len(G) BY <1>3, <1>7
<1>9. PICK S \in Seq(Frame) : S = SubSeq(G, 1, n) /\ Len(S) = n /\ \A i \in 1 .. n : S[i] = G[i]
  BY <1>8, Cut
<1>10. H = S BY <1>3, <1>7, <1>9, SeqEqual
<1> QED BY <1>1, <1>8, <1>9, <1>10

\* A batch has one marker, its last frame; its records are the others.
OneMarker(G) == \A i \in 1 .. Len(G) : IsMarker(G[i]) => i = Len(G)

LEMMA TornRecovered ==
    ASSUME NEW c \in Area, NEW F \in Seq(Frame), NEW G \in Seq(Frame), Torn(c, F, G),
           Closed(F), OneMarker(G)
    PROVE  Recovered(c) = F \/ Recovered(c) = F \o G
<1>1. PICK k \in 0 .. Len(G) : Run(c) = F \o SubSeq(G, 1, k) BY TornRun
<1>2. PICK H \in Seq(Frame) : H = SubSeq(G, 1, k) /\ Len(H) = k /\ \A i \in 1 .. k : H[i] = G[i]
  BY Cut
<1>3. PICK n \in Nat, m \in Nat : n = Len(F) /\ m = Len(G) /\ k \in Nat /\ k <= m
  BY LenProperties
<1>4. PICK run \in Seq(Frame) : run = Run(c) /\ run = F \o H BY <1>1, <1>2, RunHolds
<1>5. /\ Len(run) = n + k
      /\ \A i \in 1 .. n + k : run[i] = IF i <= n THEN F[i] ELSE H[i - n]
  <2>1. /\ Len(F \o H) = Len(F) + Len(H)
        /\ \A i \in 1 .. Len(F) + Len(H) :
             (F \o H)[i] = IF i <= Len(F) THEN F[i] ELSE H[i - Len(F)]
    BY ConcatProperties
  <2>2. Len(F) = n /\ Len(H) = k BY <1>2, <1>3
  <2> QED BY <1>4, <2>1, <2>2
<1>6. PICK j \in 0 .. Len(run) : Recovered(c) = SubSeq(run, 1, j)
  BY <1>4, LastMarker DEF Recovered
<1>7. PICK R \in Seq(Frame) : /\ R = Recovered(c) /\ Len(R) = j /\ Closed(R)
                              /\ \A i \in 1 .. j : R[i] = run[i]
  BY <1>6, Cut, RecoveredHolds
<1>8. PICK Q \in Seq(Frame) : R = F \o Q BY <1>7, RecoveredContinues DEF Torn
<1>9. PICK q \in Nat : q = Len(Q) BY LenProperties
<1>10. /\ j = n + q
       /\ \A i \in 1 .. n + q : R[i] = IF i <= n THEN F[i] ELSE Q[i - n]
  <2>1. /\ Len(F \o Q) = Len(F) + Len(Q)
        /\ \A i \in 1 .. Len(F) + Len(Q) :
             (F \o Q)[i] = IF i <= Len(F) THEN F[i] ELSE Q[i - Len(F)]
    BY ConcatProperties
  <2>2. Len(F) = n /\ Len(Q) = q /\ Len(R) = j BY <1>3, <1>7, <1>9
  <2> QED BY <1>8, <2>1, <2>2
<1>11. q <= k BY <1>3, <1>5, <1>6, <1>9, <1>10
<1>12. ASSUME NEW i \in 1 .. q PROVE Q[i] = G[i]
  <2>1. /\ n + i \in 1 .. n + q /\ n + i \in 1 .. n + k /\ n + i \in 1 .. j
        /\ ~ (n + i <= n) /\ (n + i) - n = i /\ i \in 1 .. k
    BY <1>3, <1>9, <1>10, <1>11
  <2>2. R[n + i] = Q[i] BY <1>10, <2>1
  <2>3. run[n + i] = H[i] BY <1>5, <2>1
  <2>4. R[n + i] = run[n + i] BY <1>7, <2>1
  <2>5. H[i] = G[i] BY <1>2, <2>1
  <2> QED BY <2>2, <2>3, <2>4, <2>5
<1>13. CASE q = 0
  <2>1. Q = <<>> BY <1>9, <1>13, EmptySeq
  <2>2. F \o <<>> = F BY ConcatEmptySeq
  <2> QED BY <1>7, <1>8, <2>1, <2>2
<1>14. CASE q # 0
  <2>1. /\ n + q \in 1 .. n + q /\ ~ (n + q <= n) /\ (n + q) - n = q /\ q \in 1 .. q
        /\ q \in 1 .. m
    BY <1>3, <1>9, <1>11, <1>14
  <2>2. R[Len(R)] = G[q]
    <3>1. R[n + q] = Q[q] BY <1>10, <2>1
    <3>2. Q[q] = G[q] BY <1>12, <2>1
    <3> QED BY <1>7, <1>10, <3>1, <3>2
  <2>3. R # <<>>
    <3>1. Len(R) # 0 BY <1>3, <1>7, <1>9, <1>10, <1>14
    <3> QED BY <3>1, EmptySeq
  <2>4. IsMarker(G[q]) BY <1>7, <2>2, <2>3 DEF Closed
  <2>5. q = m BY <1>3, <2>1, <2>4 DEF OneMarker
  <2>6. Q = G BY <1>3, <1>9, <1>12, <2>5, SeqEqual
  <2> QED BY <1>7, <1>8, <2>6
<1> QED BY <1>13, <1>14

LEMMA RecordsOfData ==
    ASSUME NEW D \in Seq(Frame), \A i \in 1 .. Len(D) : ~ IsMarker(D[i])
    PROVE  Records(D) = D
<1>1. PICK n \in Nat : n = Len(D) BY LenProperties
<1> DEFINE T == {j \in Nat : Records(SubSeq(D, 1, j)) = SubSeq(D, 1, j)}
<1>2. 0 \in T
  <2>1. SubSeq(D, 1, 0) = <<>> BY SubSeqEmpty
  <2> QED BY <2>1, LayoutEmpty
<1>3. ASSUME NEW j \in Nat, j < n, j \in T PROVE j + 1 \in T
  <2>1. j \in 0 .. Len(D) /\ j < Len(D) /\ j + 1 \in 1 .. Len(D) BY <1>1, <1>3
  <2>2. PICK P \in Seq(Frame) : P = SubSeq(D, 1, j) /\ Records(P) = P BY <1>3, <2>1, Cut
  <2>3. PICK e \in Frame : e = D[j + 1] /\ SubSeq(D, 1, j + 1) = P \o <<e>>
    BY <2>1, <2>2, PrefixNext
  <2>4. ~ IsMarker(e) BY <2>1, <2>3
  <2>5. PICK O \in Seq(Frame) : O = <<e>> /\ Records(O) = O BY <2>4, LayoutOne
  <2>6. Records(P \o O) = Records(P) \o Records(O) BY LayoutConcat
  <2>7. Records(SubSeq(D, 1, j + 1)) = SubSeq(D, 1, j + 1) BY <2>2, <2>3, <2>5, <2>6
  <2> QED BY <2>7
<1>4. \A i \in 0 .. n : i \in T
  <2> HIDE DEF T
  <2> QED BY <1>1, <1>2, <1>3, UpTo
<1>5. SubSeq(D, 1, Len(D)) = D BY SubSeqFull
<1>6. n \in 0 .. n BY <1>1
<1> QED BY <1>1, <1>4, <1>5, <1>6

Stamped(r, n, k) ==
    Len(r) = k /\ \A i \in 1 .. k : r[i].batch = n /\ r[i].index = i /\ r[i].mates = k

LEMMA BatchFrames ==
    ASSUME log \in Seq(Frame), NEW shape \in Shapes, NEW n \in Nat, NEW G \in Seq(Frame),
           G = Frames(n, shape), NEW k \in Nat, k = Len(shape)
    PROVE  /\ OneMarker(G) /\ Closed(G) /\ G # <<>>
           /\ Len(G) = k + 1 /\ G[k + 1].index = Len(log) + k
           /\ Records(G) \in Seq(Frame) /\ Stamped(Records(G), n, k)
<1>1. shape \in Seq(Nat \ {0}) /\ DOMAIN shape = 1 .. k BY ShapesAssumption, LenProperties
<1>2. \A i \in 1 .. k : shape[i] \in Nat \ {0} BY <1>1, ElementOfSeq
<1>3. \A i \in 1 .. k : Data(n, i, shape) \in Frame /\ ~ IsMarker(Data(n, i, shape))
  BY <1>1, <1>2 DEF Data, Frame, IsMarker
<1> DEFINE d == [i \in 1 .. k |-> Data(n, i, shape)]
<1>4. d \in [1 .. k -> Frame] /\ \A i \in 1 .. k : d[i] = Data(n, i, shape) BY <1>3
<1> HIDE DEF d
<1>5. d \in Seq(Frame) /\ Len(d) = k BY <1>4
<1>6. PICK D \in Seq(Frame) :
        D = d /\ Len(D) = k /\ \A i \in 1 .. k : D[i] = Data(n, i, shape)
  BY <1>4, <1>5
<1>7. PICK M \in Frame : /\ M = Marker(n, Len(log) + Len(shape)) /\ IsMarker(M)
                         /\ M.index = Len(log) + k
  <2>1. PICK N \in Nat : N = Len(log) BY LenProperties
  <2>2. MarkerLen \in Nat \ {0} /\ N + k \in Nat BY ShapesAssumption
  <2>3. /\ Marker(n, N + k) \in Frame /\ IsMarker(Marker(n, N + k))
        /\ Marker(n, N + k).index = N + k
    BY <2>2 DEF Marker, Frame, IsMarker
  <2> QED BY <2>1, <2>3
<1>8. PICK O \in Seq(Frame) : O = <<M>> /\ Records(O) = <<>> /\ Len(O) = 1 /\ O[1] = M
  BY <1>7, LayoutOne
<1>9. G = D \o O BY <1>1, <1>6, <1>7, <1>8 DEF Frames, d
<1>10. /\ Len(G) = k + 1
       /\ \A i \in 1 .. k + 1 : G[i] = IF i <= k THEN D[i] ELSE O[i - k]
  <2>1. /\ Len(D \o O) = Len(D) + Len(O)
        /\ \A i \in 1 .. Len(D) + Len(O) :
             (D \o O)[i] = IF i <= Len(D) THEN D[i] ELSE O[i - Len(D)]
    BY ConcatProperties
  <2>2. Len(D) = k /\ Len(O) = 1 BY <1>6, <1>8
  <2> QED BY <1>9, <2>1, <2>2
<1>11. G[k + 1] = M
  <2>1. k + 1 \in 1 .. k + 1 /\ ~ (k + 1 <= k) /\ (k + 1) - k = 1 OBVIOUS
  <2> QED BY <1>8, <1>10, <2>1
<1>12. OneMarker(G)
  <2> SUFFICES ASSUME NEW i \in 1 .. k + 1, i # k + 1 PROVE ~ IsMarker(G[i])
    BY <1>10 DEF OneMarker
  <2>1. i \in 1 .. k /\ i <= k OBVIOUS
  <2>2. G[i] = Data(n, i, shape) BY <1>6, <1>10, <2>1
  <2> QED BY <1>3, <2>1, <2>2
<1>13. Closed(G) BY <1>7, <1>10, <1>11 DEF Closed
<1>14. G # <<>>
  <2>1. Len(G) # 0 BY <1>10
  <2> QED BY <2>1, EmptySeq
<1>15. Records(G) = D
  <2>1. \A i \in 1 .. Len(D) : ~ IsMarker(D[i]) BY <1>3, <1>6
  <2>2. Records(D) = D BY <2>1, RecordsOfData
  <2>3. Records(D \o O) = Records(D) \o Records(O) BY LayoutConcat
  <2>4. D \o <<>> = D BY ConcatEmptySeq
  <2> QED BY <1>8, <1>9, <2>2, <2>3, <2>4
<1>16. Stamped(D, n, k)
  <2> SUFFICES ASSUME NEW i \in 1 .. k
               PROVE  D[i].batch = n /\ D[i].index = i /\ D[i].mates = k
    BY <1>6 DEF Stamped
  <2>1. D[i] = Data(n, i, shape) BY <1>6
  <2> QED BY <2>1 DEF Data
<1> QED BY <1>7, <1>10, <1>11, <1>12, <1>13, <1>14, <1>15, <1>16

\* A log of whole batches stays one when a batch of a later number is added to it.
Span(l, p) == p - l[p].index + 1 .. p - l[p].index + 1 + l[p].mates - 1

WholeAt(l, p) ==
    /\ {q \in 1 .. Len(l) : l[q].batch = l[p].batch} = Span(l, p)
    /\ \A q \in Span(l, p) : l[q].index = q - (p - l[p].index + 1) + 1

Whole(l) == \A p \in 1 .. Len(l) : WholeAt(l, p)

Older(l, n) == \A p \in 1 .. Len(l) : l[p].batch < n

LEMMA WholeMeans ==
    ASSUME log \in Seq(Frame)
    PROVE  BatchesAreWhole <=> Whole(log)
<1>1. DOMAIN log = 1 .. Len(log) BY LenProperties
<1> QED BY <1>1 DEF BatchesAreWhole, Whole, WholeAt, Span

LEMMA WholeGrows ==
    ASSUME NEW l \in Seq(Frame), Whole(l), NEW n \in Nat, Older(l, n),
           NEW k \in Nat, NEW r \in Seq(Frame), Stamped(r, n, k)
    PROVE  /\ l \o r \in Seq(Frame) /\ Whole(l \o r) /\ Older(l \o r, n + 1)
<1>1. PICK N \in Nat : N = Len(l) BY LenProperties
<1>2. PICK h \in Seq(Frame) : h = l \o r BY ConcatProperties
<1>3. Len(h) = N + k /\ \A i \in 1 .. N + k : h[i] = IF i <= N THEN l[i] ELSE r[i - N]
  <2>1. /\ Len(l \o r) = Len(l) + Len(r)
        /\ \A i \in 1 .. Len(l) + Len(r) :
             (l \o r)[i] = IF i <= Len(l) THEN l[i] ELSE r[i - Len(l)]
    BY ConcatProperties
  <2> QED BY <1>1, <1>2, <2>1 DEF Stamped
<1>4. \A i \in 1 .. N : i \in 1 .. N + k /\ h[i] = l[i] BY <1>1, <1>3
<1>5. ASSUME NEW i \in N + 1 .. N + k
      PROVE  i \in 1 .. N + k /\ h[i].batch = n /\ h[i].index = i - N /\ h[i].mates = k
  <2>1. i \in 1 .. N + k /\ ~ (i <= N) /\ i - N \in 1 .. k BY <1>1
  <2> QED BY <1>3, <2>1 DEF Stamped
<1>6. \A i \in 1 .. N + k : i \in 1 .. N \/ i \in N + 1 .. N + k BY <1>1
<1>7. \A i \in 1 .. N : l[i].batch \in Nat /\ l[i].batch < n /\ l[i].index \in Nat /\ l[i].mates \in Nat
  <2> SUFFICES ASSUME NEW i \in 1 .. N
               PROVE  /\ l[i].batch \in Nat /\ l[i].batch < n
                      /\ l[i].index \in Nat /\ l[i].mates \in Nat
    OBVIOUS
  <2>1. l[i] \in Frame BY <1>1, ElementOfSeq
  <2>2. l[i].batch < n BY <1>1 DEF Older
  <2> QED BY <2>1, <2>2 DEF Frame
<1>8. Older(h, n + 1)
  <2> SUFFICES ASSUME NEW i \in 1 .. N + k PROVE h[i].batch < n + 1
    BY <1>3 DEF Older
  <2>1. CASE i \in 1 .. N BY <1>4, <1>7, <2>1
  <2>2. CASE i \in N + 1 .. N + k BY <1>5, <2>2
  <2> QED BY <1>6, <2>1, <2>2
<1>9. ASSUME NEW p \in 1 .. N PROVE WholeAt(h, p)
  <2>1. WholeAt(l, p) BY <1>1 DEF Whole
  <2>2. Span(h, p) = Span(l, p) /\ h[p] = l[p] BY <1>4 DEF Span
  <2>3. {q \in 1 .. N : l[q].batch = l[p].batch} = Span(l, p) BY <1>1, <2>1 DEF WholeAt
  <2>4. ASSUME NEW q \in 1 .. N + k PROVE h[q].batch = h[p].batch <=> q \in Span(l, p)
    <3>1. CASE q \in 1 .. N BY <1>4, <2>2, <2>3, <3>1
    <3>2. CASE q \in N + 1 .. N + k
      <4>1. q \notin 1 .. N BY <1>1, <3>2
      <4>2. q \notin Span(l, p) BY <2>3, <4>1
      <4>3. h[q].batch = n /\ h[p].batch < n /\ h[p].batch \in Nat
        BY <1>5, <1>7, <2>2, <3>2
      <4>4. h[q].batch # h[p].batch BY <4>3
      <4> QED BY <4>2, <4>4
    <3> QED BY <1>6, <3>1, <3>2
  <2>5. Span(l, p) \subseteq 1 .. N /\ Span(l, p) \subseteq 1 .. N + k BY <1>4, <2>3
  <2>6. {q \in 1 .. N + k : h[q].batch = h[p].batch} = Span(h, p) BY <2>2, <2>4, <2>5
  <2>7. \A q \in Span(h, p) : h[q].index = q - (p - h[p].index + 1) + 1
    <3> SUFFICES ASSUME NEW q \in Span(l, p) PROVE h[q].index = q - (p - h[p].index + 1) + 1
      BY <2>2
    <3>1. l[q].index = q - (p - l[p].index + 1) + 1 BY <2>1 DEF WholeAt
    <3>2. h[q] = l[q] BY <1>4, <2>5
    <3> QED BY <2>2, <3>1, <3>2
  <2> QED BY <1>3, <2>6, <2>7 DEF WholeAt
<1>10. ASSUME NEW p \in N + 1 .. N + k PROVE WholeAt(h, p)
  <2>1. h[p].batch = n /\ h[p].index = p - N /\ h[p].mates = k BY <1>5
  <2>2. p - h[p].index + 1 = N + 1 /\ p - h[p].index + 1 + h[p].mates - 1 = N + k
    BY <1>1, <2>1
  <2>3. Span(h, p) = N + 1 .. N + k BY <2>2 DEF Span
  <2>4. ASSUME NEW q \in 1 .. N + k PROVE h[q].batch = n <=> q \in N + 1 .. N + k
    <3>1. CASE q \in 1 .. N
      <4>1. q \notin N + 1 .. N + k BY <1>1, <3>1
      <4>2. h[q].batch \in Nat /\ h[q].batch < n BY <1>4, <1>7, <3>1
      <4>3. h[q].batch # n BY <4>2
      <4> QED BY <4>1, <4>3
    <3>2. CASE q \in N + 1 .. N + k BY <1>5, <3>2
    <3> QED BY <1>6, <3>1, <3>2
  <2>5. \A q \in N + 1 .. N + k : q \in 1 .. N + k BY <1>1
  <2>6. {q \in 1 .. N + k : h[q].batch = h[p].batch} = Span(h, p)
    BY <2>1, <2>3, <2>4, <2>5
  <2>7. \A q \in Span(h, p) : h[q].index = q - (p - h[p].index + 1) + 1
    <3> SUFFICES ASSUME NEW q \in N + 1 .. N + k PROVE h[q].index = q - (N + 1) + 1
      BY <2>2, <2>3
    <3>1. h[q].index = q - N BY <1>5
    <3> QED BY <1>1, <3>1
  <2> QED BY <1>3, <2>6, <2>7 DEF WholeAt
<1>11. Whole(h) BY <1>3, <1>6, <1>9, <1>10 DEF Whole
<1> QED BY <1>2, <1>8, <1>11

\* What a write, a sync and a crash make of a torn area.
LEMMA TornLater ==
    ASSUME NEW c, NEW F \in Seq(Frame), NEW G \in Seq(Frame), Torn(c, F, <<>>),
           Size(F) + Size(G) <= Capacity
    PROVE  Torn(c, F, G)
<1>1. PICK n \in Nat, m \in Nat : n = Size(F) /\ m = Size(G) /\ Size(<<>>) = 0
  BY LayoutType, LayoutEmpty
<1>2. \A i \in n + 0 + 1 .. Capacity : c[i] = Zero BY <1>1 DEF Torn
<1>3. \A i \in 1 .. m : n + i \in n + 0 + 1 .. Capacity BY <1>1, ShapesAssumption
<1>4. \A i \in n + m + 1 .. Capacity : i \in n + 0 + 1 .. Capacity
  BY <1>1, ShapesAssumption
<1> QED BY <1>1, <1>2, <1>3, <1>4 DEF Torn

LEMMA TornMerge ==
    ASSUME NEW x, NEW y, NEW c, NEW F \in Seq(Frame), NEW G \in Seq(Frame),
           Torn(x, F, G), Torn(y, F, G), \A i \in 1 .. Capacity : c[i] = x[i] \/ c[i] = y[i]
    PROVE  Torn(c, F, G)
<1>1. PICK n \in Nat, m \in Nat : n = Size(F) /\ m = Size(G) BY LayoutType
<1>2. n + m <= Capacity BY <1>1 DEF Torn
<1>3. /\ \A i \in 1 .. n : i \in 1 .. Capacity
      /\ \A i \in 1 .. m : n + i \in 1 .. Capacity
      /\ \A i \in n + m + 1 .. Capacity : i \in 1 .. Capacity
  BY <1>1, <1>2, ShapesAssumption, SMTT(40)
<1>4. Holds(c, F)
  <2>1. \A i \in 1 .. n : x[i] = Layout(F)[i] /\ y[i] = Layout(F)[i]
    BY <1>1 DEF Torn, Holds
  <2>2. \A i \in 1 .. n : c[i] = Layout(F)[i] BY <1>3, <2>1
  <2> QED BY <1>1, <2>2 DEF Torn, Holds
<1>5. \A i \in 1 .. m : c[n + i] \in {Zero, Layout(G)[i]} BY <1>1, <1>3 DEF Torn
<1>6. \A i \in n + m + 1 .. Capacity : c[i] = Zero BY <1>1, <1>3 DEF Torn
<1> QED BY <1>1, <1>2, <1>4, <1>5, <1>6 DEF Torn

LEMMA TornFull ==
    ASSUME NEW c, NEW F \in Seq(Frame), NEW G \in Seq(Frame), Torn(c, F, G),
           \A i \in 1 .. Size(G) : c[Size(F) + i] = Layout(G)[i]
    PROVE  F \o G \in Seq(Frame) /\ Torn(c, F \o G, <<>>)
<1>1. PICK n \in Nat, m \in Nat : n = Size(F) /\ m = Size(G) /\ Size(<<>>) = 0
  BY LayoutType, LayoutEmpty
<1>2. Holds(c, F \o G) BY HoldsConcat DEF Torn
<1>3. F \o G \in Seq(Frame) /\ Size(F \o G) = n + m BY <1>1, LayoutConcat
<1>4. n + m + 0 = n + m /\ 1 .. 0 = {} OBVIOUS
<1>5. n + m <= Capacity /\ \A i \in n + m + 1 .. Capacity : c[i] = Zero BY <1>1 DEF Torn
<1> QED BY <1>1, <1>2, <1>3, <1>4, <1>5 DEF Torn

LEMMA TornFresh == <<>> \in Seq(Frame) /\ Torn(Fresh, <<>>, <<>>) /\ Closed(<<>>)
<1>1. <<>> \in Seq(Frame) /\ Size(<<>>) = 0 BY EmptySeq, LayoutEmpty
<1>2. \A i \in 1 .. Capacity : Fresh[i] = Zero BY DEF Fresh
<1>3. 0 + 0 <= Capacity /\ 1 .. 0 = {} /\ 0 + 0 + 1 = 1 /\ 0 <= Capacity
  BY ShapesAssumption
<1>4. Holds(Fresh, <<>>) BY <1>1, <1>3 DEF Holds
<1> QED BY <1>1, <1>2, <1>3, <1>4 DEF Torn, Closed

--------------------
\* The second inductive invariant, for behaviours with at most one crash and no failed call. Until
\* the crash every sealed segment holds its frames and zeros, and the active one at most the batch
\* being written behind its cursor; the crash keeps any part of that batch. The log is one of
\* whole batches throughout. What open finds in the page cache after the crash may be sealed in
\* before a sync covers it, so that the first invariant is used up to that open only.
Shaped(G) == \E shape \in Shapes : G = Frames(batches, shape)

Follows(b, e) == e \in Written /\ b < e /\ \A x \in Written : b < x => e <= x

SealedBy(b, F) ==
    /\ Torn(files[b].cache, F, <<>>)
    /\ Torn(files[b].disk, F, <<>>)
    /\ Follows(b, b + Len(Records(F)))

Below(t) ==
    /\ 1 \in Written /\ t \in Written
    /\ \A x \in Written : x <= t
    /\ \A b \in Written : b # t => \E F \in Seq(Frame) : SealedBy(b, F)

Top(t, F, G) ==
    /\ Torn(files[t].cache, F, G)
    /\ Torn(files[t].disk, F, G)
    /\ Closed(F)
    /\ F # <<>> => F[Len(F)].index = Len(log)
    /\ t + Len(Records(F)) = Len(log) + 1
    /\ G # <<>> => Shaped(G) /\ Older(log, batches)

Clean == faults = 0 /\ (crashes = 0 \/ (crashes = 1 /\ pc = "down"))

Started ==
    /\ faults \in Nat /\ crashes \in Nat /\ batches \in Nat
    /\ InBatch => Shaped(batch)
    /\ pc = "header" => files[NextPosition] = NewFile(FALSE, FALSE)
    /\ pc = "first" => files[1] = NewFile(FALSE, FALSE)
    /\ faults = 0 => drift = 0
    /\ Clean => flaws = {}

LogIsWhole ==
    faults = 0 /\ crashes <= 1 =>
        /\ pc # "refused"
        /\ log \in Seq(Frame)
        /\ Whole(log)
        /\ Older(log, batches + 1)
        /\ InBatch => Older(log, batches)
        /\ pc = "first" => log = <<>>

Behind == IF pc = "sync" THEN batch ELSE <<>>

NeverDown ==
    faults = 0 /\ crashes = 0 =>
        /\ pc = "down" => DOMAIN files = {}
        /\ \A b \in Written : files[b].firm
        /\ IsOpen => /\ Below(base)
                     /\ \A x \in DOMAIN files : x \notin Written => pc = "header" /\ x = NextPosition
                     /\ \E F \in Seq(Frame) : Top(base, F, Behind) /\ Size(F) = offset

OnceDown ==
    faults = 0 /\ crashes = 1 /\ pc = "down" =>
        /\ \A p \in 1 .. Len(log) : Stored(p)
        /\ Written # {} =>
            \E t \in Nat : /\ Below(t)
                           /\ \A x \in DOMAIN files : x \notin Written => t < x
                           /\ \E F \in Seq(Frame) : \E G \in Seq(Frame) : Top(t, F, G)

OnceInv == Started /\ LogIsWhole /\ NeverDown /\ OnceDown

LEMMA CleanIsSound == ASSUME Sound, OnceInv, Clean PROVE LogInv
BY DEF Sound, OnceInv, Started

LEMMA OnceInit == Init => OnceInv
<1> SUFFICES ASSUME Init PROVE OnceInv
  OBVIOUS
<1> USE DEF Init
<1>1. Started BY DEF Started, InBatch
<1>2. NeverDown /\ OnceDown BY DEF NeverDown, OnceDown, IsOpen, Written
<1>3. Len(log) = 0 /\ log \in Seq(Frame) BY EmptySeq
<1>4. LogIsWhole BY <1>3 DEF LogIsWhole, Whole, Older, InBatch
<1> QED BY <1>1, <1>2, <1>4 DEF OnceInv

\* Steps that leave the files, the cursor and the log alone.
LEMMA FilesSame ==
    ASSUME UNCHANGED files
    PROVE  /\ Written' = Written
           /\ \A t : Below(t) => Below(t)'
<1>1. Written' = Written BY DEF Written
<1>2. \A b : \A F \in Seq(Frame) : SealedBy(b, F) => SealedBy(b, F)'
  BY <1>1 DEF SealedBy, Follows
<1>3. \A t : Below(t) => Below(t)' BY <1>1, <1>2 DEF Below
<1> QED BY <1>1, <1>3

LEMMA FrameAt ==
    ASSUME NEW l \in Seq(Frame), NEW p \in 1 .. Len(l)
    PROVE  l[p] \in Frame /\ l[p].batch \in Nat
<1>1. l[p] \in Frame BY ElementOfSeq
<1> QED BY <1>1 DEF Frame

LEMMA OnceBegin == ASSUME OnceInv, Begin PROVE OnceInv'
<1> USE DEF Begin
<1>1. /\ pc = "idle" /\ pc' \in {"create", "write"} /\ batches' = batches + 1 /\ batches \in Nat
      /\ UNCHANGED <<files, base, offset, drift, log, flaws, faults, crashes>>
      /\ IsOpen /\ Behind = <<>> /\ Behind' = <<>>
  BY DEF OnceInv, Started, IsOpen, Behind
<1>2. Started'
  <2>1. Shaped(batch)' BY <1>1 DEF Shaped, Frames
  <2> HIDE DEF Begin
  <2>2. /\ faults \in Nat /\ crashes \in Nat /\ (faults = 0 => drift = 0)
        /\ Clean => flaws = {}
    BY DEF OnceInv, Started
  <2>3. pc' # "header" /\ pc' # "first" /\ batches' \in Nat BY <1>1
  <2>4. Clean' => Clean BY <1>1 DEF Clean
  <2>5. Clean' => flaws' = {} BY <1>1, <2>2, <2>4
  <2>6. /\ faults' \in Nat /\ crashes' \in Nat /\ (faults' = 0 => drift' = 0) BY <1>1, <2>2
  <2> QED BY <2>1, <2>3, <2>5, <2>6 DEF Started
<1>3. LogIsWhole'
  <2> HIDE DEF Begin
  <2> SUFFICES ASSUME faults = 0, crashes <= 1
               PROVE  /\ log \in Seq(Frame)
                      /\ Whole(log) /\ Older(log, batches') /\ Older(log, batches' + 1)
    BY <1>1 DEF LogIsWhole
  <2>1. Whole(log) /\ Older(log, batches + 1) /\ log \in Seq(Frame)
    BY DEF OnceInv, LogIsWhole
  <2>2. \A p \in 1 .. Len(log) : log[p].batch \in Nat BY <2>1, FrameAt
  <2>3. Older(log, batches + 1 + 1) BY <1>1, <2>1, <2>2 DEF Older
  <2> QED BY <1>1, <2>1, <2>3
<1>4. NeverDown'
  <2> HIDE DEF Begin
  <2> SUFFICES ASSUME faults = 0, crashes = 0
               PROVE  /\ \A b \in Written' : files[b].firm
                      /\ Below(base)'
                      /\ \A x \in DOMAIN files : x \in Written'
                      /\ \E F \in Seq(Frame) : Top(base, F, Behind)' /\ Size(F) = offset
    BY <1>1 DEF NeverDown, IsOpen
  <2>1. /\ Below(base) /\ \A x \in DOMAIN files : x \in Written
        /\ \A b \in Written : files[b].firm
        /\ \E F \in Seq(Frame) : Top(base, F, <<>>) /\ Size(F) = offset
    BY <1>1 DEF OnceInv, NeverDown
  <2>2. PICK F \in Seq(Frame) : Top(base, F, <<>>) /\ Size(F) = offset BY <2>1
  <2>3. Top(base, F, Behind)' BY <1>1, <2>2 DEF Top
  <2>4. Below(base)' /\ Written' = Written BY <1>1, <2>1, FilesSame DEF Below
  <2> QED BY <2>1, <2>2, <2>3, <2>4
<1>5. OnceDown' BY <1>1 DEF OnceDown
<1> QED BY <1>2, <1>3, <1>4, <1>5 DEF OnceInv

\* A failed call ends the claim.
LEMMA OnceFailed ==
    ASSUME OnceInv,
           \/ CreateFails \/ HeaderFails \/ WriteFails \/ FirstWriteFails \/ RewindFails \/ SyncFails
    PROVE  OnceInv'
<1>1. faults' = faults + 1 /\ pc' = "idle" /\ crashes' = crashes /\ batches' = batches
  BY DEF CreateFails, HeaderFails, WriteFails, FirstWriteFails, RewindFails, SyncFails, Fail, GiveUp
<1>2. faults' \in Nat /\ faults' # 0 /\ crashes' \in Nat /\ batches' \in Nat
  BY <1>1 DEF OnceInv, Started
<1> QED BY <1>1, <1>2 DEF OnceInv, Started, Clean, InBatch, LogIsWhole, NeverDown, OnceDown

LEMMA OnceExists == ASSUME OnceInv, CreateExists PROVE OnceInv'
<1>1. /\ pc = "create" /\ pc' = "idle" /\ IsOpen /\ Behind = <<>> /\ Behind' = <<>>
      /\ UNCHANGED <<files, base, offset, drift, log, flaws, batches, faults, crashes>>
  BY DEF CreateExists, GiveUp, IsOpen, Behind
<1>2. Started' /\ OnceDown' BY <1>1 DEF OnceInv, Started, Clean, InBatch, OnceDown
<1>3. LogIsWhole' BY <1>1 DEF OnceInv, LogIsWhole, InBatch
<1>4. NeverDown'
  <2> SUFFICES ASSUME faults = 0, crashes = 0
               PROVE  /\ \A b \in Written' : files[b].firm
                      /\ Below(base)'
                      /\ \A x \in DOMAIN files : x \in Written'
                      /\ \E F \in Seq(Frame) : Top(base, F, Behind)' /\ Size(F) = offset
    BY <1>1 DEF NeverDown, IsOpen
  <2>1. /\ Below(base) /\ \A x \in DOMAIN files : x \in Written
        /\ \A b \in Written : files[b].firm
        /\ \E F \in Seq(Frame) : Top(base, F, <<>>) /\ Size(F) = offset
    BY <1>1 DEF OnceInv, NeverDown
  <2>2. PICK F \in Seq(Frame) : Top(base, F, <<>>) /\ Size(F) = offset BY <2>1
  <2>3. Top(base, F, Behind)' BY <1>1, <2>2 DEF Top
  <2>4. Below(base)' /\ Written' = Written BY <1>1, <2>1, FilesSame DEF Below
  <2> QED BY <2>1, <2>2, <2>3, <2>4
<1> QED BY <1>2, <1>3, <1>4 DEF OnceInv

\* Before the crash nothing the open set relies on is in the page cache only.
LEMMA OnceFirm ==
    ASSUME OnceInv, faults = 0, crashes = 0, IsOpen, offset \in Nat
    PROVE  ~ Volatile
<1>1. /\ base \in Written /\ \A b \in Written : files[b].firm
      /\ \E F \in Seq(Frame) : Top(base, F, Behind) /\ Size(F) = offset
  BY DEF OnceInv, NeverDown, Below
<1>2. PICK F \in Seq(Frame) : Top(base, F, Behind) /\ Size(F) = offset BY <1>1
<1>3. Holds(files[base].cache, F) /\ Holds(files[base].disk, F) BY <1>2 DEF Top, Torn
<1>4. \A i \in 1 .. offset : files[base].cache[i] = files[base].disk[i] BY <1>2, <1>3 DEF Holds
<1> QED BY <1>1, <1>4 DEF Volatile

\* A new segment.
LEMMA OnceCreate == ASSUME Sound, OnceInv, CreateFile PROVE OnceInv'
<1> USE DEF CreateFile
<1>1. /\ pc = "create" /\ pc' = "header" /\ IsOpen /\ Behind = <<>> /\ Behind' = <<>>
      /\ UNCHANGED <<base, offset, drift, log, batch, batches, faults, crashes>>
      /\ NextPosition' = NextPosition /\ NextPosition \notin Written
      /\ NextPosition \notin DOMAIN files
  BY DEF IsOpen, Behind, NextPosition, Written
<1>2. /\ DOMAIN files' = DOMAIN files \cup {NextPosition}
      /\ files'[NextPosition] = NewFile(FALSE, FALSE)
      /\ \A b \in DOMAIN files : b # NextPosition => files'[b] = files[b]
      /\ \A b \in Written : b # NextPosition /\ files'[b] = files[b]
  BY <1>1 DEF Put, Written
<1>3. Written' = Written
  <2>1. ~ files'[NextPosition].header BY <1>2 DEF NewFile
  <2> QED BY <1>1, <1>2, <2>1 DEF Written
<1>4. Started'
  <2>1. Shaped(batch)' BY <1>1 DEF OnceInv, Started, InBatch, Shaped, Frames
  <2>2. ASSUME Clean' PROVE flaws' = {}
    <3>1. faults = 0 /\ crashes = 0 BY <1>1, <2>2 DEF Clean
    <3>2. LogInv /\ flaws = {} BY <3>1, CleanIsSound DEF OnceInv, Started, Clean
    <3>3. ~ Volatile BY <1>1, <3>1, <3>2, OnceFirm DEF LogInv, Types
    <3> QED BY <3>2, <3>3 DEF FlawedIf
  <2> HIDE DEF CreateFile
  <2> QED BY <1>1, <1>2, <2>1, <2>2 DEF OnceInv, Started
<1>5. LogIsWhole' /\ OnceDown' BY <1>1 DEF OnceInv, LogIsWhole, InBatch, OnceDown
<1>6. NeverDown'
  <2> HIDE DEF CreateFile
  <2> SUFFICES ASSUME faults = 0, crashes = 0
               PROVE  /\ \A b \in Written' : files'[b].firm
                      /\ Below(base)'
                      /\ \A x \in DOMAIN files' : x \notin Written' => x = NextPosition
                      /\ \E F \in Seq(Frame) : Top(base, F, Behind)' /\ Size(F) = offset
    BY <1>1 DEF NeverDown, IsOpen
  <2>1. /\ Below(base) /\ \A x \in DOMAIN files : x \in Written
        /\ \A b \in Written : files[b].firm
        /\ \E F \in Seq(Frame) : Top(base, F, <<>>) /\ Size(F) = offset
    BY <1>1 DEF OnceInv, NeverDown
  <2>2. PICK F \in Seq(Frame) : Top(base, F, <<>>) /\ Size(F) = offset BY <2>1
  <2>3. files'[base] = files[base] BY <1>2, <2>1 DEF Below
  <2>4. Top(base, F, Behind)' BY <1>1, <2>2, <2>3 DEF Top
  <2>5. \A b \in Written : \A H \in Seq(Frame) : SealedBy(b, H) => SealedBy(b, H)'
    BY <1>2, <1>3 DEF SealedBy, Follows
  <2>6. Below(base)' BY <1>1, <1>3, <2>1, <2>5 DEF Below
  <2> QED BY <1>2, <1>3, <2>1, <2>2, <2>4, <2>6
<1> QED BY <1>4, <1>5, <1>6 DEF OnceInv

LEMMA OnceHeader == ASSUME Sound, OnceInv, WriteHeader PROVE OnceInv'
<1> USE DEF WriteHeader
<1>1. /\ pc = "header" /\ pc' = "write" /\ IsOpen /\ Behind = <<>> /\ Behind' = <<>>
      /\ base' = NextPosition /\ offset' = 0 /\ drift' = 0
      /\ UNCHANGED <<log, batch, flaws, batches, faults, crashes>>
      /\ NextPosition' = NextPosition
  BY DEF IsOpen, Behind, NextPosition
<1>4. Started'
  <2>1. Shaped(batch)' BY <1>1 DEF OnceInv, Started, InBatch, Shaped, Frames
  <2> HIDE DEF WriteHeader
  <2> QED BY <1>1, <2>1 DEF OnceInv, Started, Clean
<1>5. LogIsWhole' /\ OnceDown' BY <1>1 DEF OnceInv, LogIsWhole, InBatch, OnceDown
<1>6. NeverDown'
  <2> SUFFICES ASSUME faults = 0, crashes = 0
               PROVE  /\ \A b \in Written' : files'[b].firm
                      /\ Below(base)'
                      /\ \A x \in DOMAIN files' : x \in Written'
                      /\ \E F \in Seq(Frame) : Top(base, F, Behind)' /\ Size(F) = 0
    BY <1>1 DEF NeverDown, IsOpen
  <2>0. LogInv BY CleanIsSound DEF Clean
  <2>a. NextPosition \notin Written BY <1>1, <2>0 DEF LogInv, Creation, Written
  <2>b. /\ DOMAIN files' = DOMAIN files \cup {NextPosition}
        /\ files'[NextPosition] = NewFile(TRUE, TRUE)
        /\ \A b \in DOMAIN files : b # NextPosition => files'[b] = files[b]
        /\ \A b \in Written : b # NextPosition /\ files'[b] = files[b]
    BY <2>a DEF Put, Written
  <2>c. files'[NextPosition].header /\ files'[NextPosition].firm BY <2>b DEF NewFile
  <2>d. Written' = Written \cup {NextPosition} BY <2>a, <2>b, <2>c DEF Written
  <2> HIDE DEF WriteHeader
  <2>1. /\ Below(base) /\ \A x \in DOMAIN files : x \notin Written => x = NextPosition
        /\ \A b \in Written : files[b].firm
        /\ \E F \in Seq(Frame) : Top(base, F, <<>>) /\ Size(F) = offset
    BY <1>1 DEF OnceInv, NeverDown
  <2>2. PICK F \in Seq(Frame) : Top(base, F, <<>>) BY <2>1
  <2>3. PICK N \in Nat : N = Len(log) /\ NextPosition = N + 1 /\ Written \subseteq 1 .. N + 1
    BY <2>0, LogFacts
  <2>4. base \in Written /\ base \in Nat /\ base < NextPosition
    <3>1. base \in Written /\ base # NextPosition BY <2>a, <2>1 DEF Below
    <3>2. base \in 1 .. N + 1 BY <2>3, <3>1
    <3> QED BY <2>3, <3>1, <3>2
  <2>5. base + Len(Records(F)) = NextPosition BY <2>2, <2>3 DEF Top
  <2>6. \A x \in Written' : x <= NextPosition BY <2>d, <2>3
  <2>7. \A b \in Written' : files'[b].firm BY <2>b, <2>c, <2>d, <2>1
  <2>8. ASSUME NEW b \in Written PROVE \E H \in Seq(Frame) : SealedBy(b, H)'
    <3>1. files'[b] = files[b] BY <2>b
    <3>2. CASE b = base
      <4>1. Torn(files'[b].cache, F, <<>>) /\ Torn(files'[b].disk, F, <<>>)
        BY <2>2, <3>1, <3>2 DEF Top
      <4>2. \A x \in Written : x <= base BY <2>1 DEF Below
      <4>3. ASSUME NEW x \in Written', b < x PROVE NextPosition <= x
        <5>1. x \in Nat BY <2>d, <2>3
        <5>2. x \notin Written BY <2>4, <3>2, <4>2, <4>3, <5>1
        <5>3. x = NextPosition BY <2>d, <5>2
        <5> QED BY <2>3, <5>3
      <4>4. Follows(b, NextPosition)' BY <1>1, <2>d, <2>4, <3>2, <4>3 DEF Follows
      <4>5. SealedBy(b, F)' BY <1>1, <2>5, <3>2, <4>1, <4>4 DEF SealedBy, Follows
      <4> QED BY <4>5
    <3>3. CASE b # base
      <4>1. PICK H \in Seq(Frame) : SealedBy(b, H) BY <2>1, <3>3 DEF Below
      <4>2. PICK e \in Written : e = b + Len(Records(H)) /\ b < e /\ \A x \in Written : b < x => e <= x
        BY <4>1 DEF SealedBy, Follows
      <4>3. e <= NextPosition BY <2>3, <4>2
      <4>4. \A x \in Written' : b < x => e <= x BY <2>d, <4>2, <4>3
      <4>5. SealedBy(b, H)' BY <2>d, <3>1, <4>1, <4>2, <4>4 DEF SealedBy, Follows
      <4> QED BY <4>5
    <3> QED BY <3>2, <3>3
  <2>9. Below(base)'
    <3>1. 1 \in Written' /\ NextPosition \in Written' BY <2>d, <2>1 DEF Below
    <3>2. \A b \in Written' : b # NextPosition => b \in Written BY <2>d
    <3> QED BY <1>1, <2>6, <2>8, <3>1, <3>2 DEF Below
  <2>10. <<>> \in Seq(Frame) /\ Top(base, <<>>, Behind)' /\ Size(<<>>) = 0
    <3>1. /\ <<>> \in Seq(Frame) /\ Torn(Fresh, <<>>, <<>>) /\ Closed(<<>>)
          /\ Size(<<>>) = 0 /\ Records(<<>>) = <<>>
      BY TornFresh, LayoutEmpty
    <3>2. files'[base'].cache = Fresh /\ files'[base'].disk = Fresh
      BY <1>1, <2>b DEF NewFile
    <3>3. Len(<<>>) = 0 /\ NextPosition + 0 = N + 1 BY <2>3
    <3>4. base' + Len(Records(<<>>)) = Len(log') + 1 BY <1>1, <2>3, <3>1, <3>3
    <3> QED BY <1>1, <3>1, <3>2, <3>4 DEF Top
  <2> QED BY <2>b, <2>d, <2>1, <2>7, <2>9, <2>10
<1> QED BY <1>4, <1>5, <1>6 DEF OnceInv

LEMMA OnceFresh == ASSUME OnceInv, OpenFresh PROVE OnceInv'
<1>1. /\ pc = "down" /\ pc' = "first" /\ files'[1] = NewFile(FALSE, FALSE) /\ DOMAIN files' = {1}
      /\ log' = <<>>
      /\ UNCHANGED <<drift, flaws, batch, batches, faults, crashes>>
  BY DEF OpenFresh
<1>2. Written' = {} BY <1>1 DEF Written, NewFile
<1>3. Started' BY <1>1 DEF OnceInv, Started, Clean, InBatch
<1>4. NeverDown' /\ OnceDown' BY <1>1, <1>2 DEF NeverDown, OnceDown, IsOpen
<1>5. Len(log') = 0 /\ log' \in Seq(Frame) BY <1>1, EmptySeq
<1>6. LogIsWhole' BY <1>1, <1>5 DEF LogIsWhole, Whole, Older, InBatch
<1> QED BY <1>3, <1>4, <1>6 DEF OnceInv

LEMMA OnceFirst == ASSUME OnceInv, FirstHeader PROVE OnceInv'
<1>1. /\ pc = "first" /\ pc' = "idle" /\ files'[1] = NewFile(TRUE, TRUE) /\ DOMAIN files' = {1}
      /\ base' = 1 /\ offset' = 0 /\ Behind' = <<>>
      /\ UNCHANGED <<log, drift, flaws, batch, batches, faults, crashes>>
  BY DEF FirstHeader, Behind
<1>2. Started' /\ OnceDown' BY <1>1 DEF OnceInv, Started, Clean, InBatch, OnceDown
<1>3. LogIsWhole' BY <1>1 DEF OnceInv, LogIsWhole, InBatch
<1>4. Written' = {1} /\ files'[1].firm BY <1>1 DEF Written, NewFile
<1>5. Below(base)' BY <1>1, <1>4 DEF Below
<1>6. ASSUME faults = 0, crashes = 0
      PROVE  <<>> \in Seq(Frame) /\ Top(base, <<>>, Behind)' /\ Size(<<>>) = 0
  <2>1. /\ <<>> \in Seq(Frame) /\ Torn(Fresh, <<>>, <<>>) /\ Closed(<<>>)
        /\ Size(<<>>) = 0 /\ Records(<<>>) = <<>>
    BY TornFresh, LayoutEmpty
  <2>2. files'[base'].cache = Fresh /\ files'[base'].disk = Fresh BY <1>1 DEF NewFile
  <2>3. log' = <<>>
    <3>1. crashes <= 1 BY <1>6
    <3> QED BY <1>1, <1>6, <3>1 DEF OnceInv, LogIsWhole
  <2>4. Len(<<>>) = 0 /\ 1 + 0 = 0 + 1 OBVIOUS
  <2>5. base' + Len(Records(<<>>)) = Len(log') + 1 BY <1>1, <2>1, <2>3, <2>4
  <2> QED BY <1>1, <2>1, <2>2, <2>5 DEF Top
<1>7. NeverDown' BY <1>1, <1>4, <1>5, <1>6 DEF NeverDown
<1> QED BY <1>2, <1>3, <1>7 DEF OnceInv

\* The batch is written behind the cursor, then synced.
LEMMA TornWritten ==
    ASSUME NEW c \in Area, NEW F \in Seq(Frame), NEW G \in Seq(Frame), Torn(c, F, G),
           NEW at \in Nat, at = Size(F)
    PROVE  Torn(Overwrite(c, at, Layout(G)), F, G)
<1>1. PICK m \in Nat, new \in Seq(Cell) : m = Size(G) /\ new = Layout(G) /\ Len(new) = m
  BY LayoutType DEF Size
<1>2. at + m <= Capacity BY <1>1 DEF Torn
<1>3. PICK e \in Area :
        /\ e = Overwrite(c, at, new)
        /\ \A i \in 1 .. Capacity : i <= at => e[i] = c[i]
        /\ \A i \in 1 .. Capacity : at + m < i => e[i] = c[i]
        /\ \A i \in 1 .. m : at + i <= Capacity => e[at + i] = new[i]
  <2>1. PICK e \in Area :
          /\ e = Overwrite(c, at, new)
          /\ \A i \in 1 .. Capacity : i <= at => e[i] = c[i]
          /\ \A i \in 1 .. Capacity : at + Len(new) < i => e[i] = c[i]
          /\ \A i \in 1 .. Len(new) : at + i <= Capacity => e[at + i] = new[i]
    BY OverwriteFacts, Zenon
  <2> QED BY <1>1, <2>1
<1>4. /\ \A i \in 1 .. at : i \in 1 .. Capacity /\ i <= at
      /\ \A i \in 1 .. m : at + i <= Capacity
      /\ \A i \in at + m + 1 .. Capacity : i \in 1 .. Capacity /\ at + m < i
  BY <1>1, <1>2, ShapesAssumption, SMTT(40)
<1>5. Holds(e, F)
  <2>1. Size(F) <= at /\ Holds(c, F) BY DEF Torn
  <2>2. \A i \in 1 .. at : e[i] = c[i] BY <1>3, <1>4
  <2> QED BY <2>1, <2>2, SameHolds
<1>6. \A i \in 1 .. m : e[at + i] = new[i] BY <1>3, <1>4
<1>7. \A i \in at + m + 1 .. Capacity : e[i] = Zero
  <2>1. \A i \in at + m + 1 .. Capacity : c[i] = Zero BY <1>1 DEF Torn
  <2> QED BY <1>3, <1>4, <2>1
<1> QED BY <1>1, <1>2, <1>3, <1>5, <1>6, <1>7 DEF Torn

\* So does any part of it: each cell is the old one or the one the whole batch would put there.
LEMMA TornPartly ==
    ASSUME NEW c \in Area, NEW F \in Seq(Frame), NEW G \in Seq(Frame), Torn(c, F, G),
           NEW at \in Nat, at = Size(F), NEW n \in 0 .. Size(G)
    PROVE  Torn(Overwrite(c, at, SubSeq(Layout(G), 1, n)), F, G)
<1>1. PICK m \in Nat, new \in Seq(Cell) : m = Size(G) /\ new = Layout(G) /\ Len(new) = m
  BY LayoutType DEF Size
<1>2. PICK part \in Seq(Cell) :
        /\ part = SubSeq(new, 1, n) /\ Len(part) = n
        /\ \A i \in 1 .. n : part[i] = new[i]
  BY <1>1, PartOf
<1>3. PICK e \in Area :
        /\ e = Overwrite(c, at, part)
        /\ \A i \in 1 .. Capacity : i <= at => e[i] = c[i]
        /\ \A i \in 1 .. Capacity : at + n < i => e[i] = c[i]
        /\ \A i \in 1 .. n : at + i <= Capacity => e[at + i] = part[i]
  <2>1. PICK e \in Area :
          /\ e = Overwrite(c, at, part)
          /\ \A i \in 1 .. Capacity : i <= at => e[i] = c[i]
          /\ \A i \in 1 .. Capacity : at + Len(part) < i => e[i] = c[i]
          /\ \A i \in 1 .. Len(part) : at + i <= Capacity => e[at + i] = part[i]
    BY OverwriteFacts, Zenon
  <2> QED BY <1>2, <2>1
<1>4. PICK w \in Area :
        /\ w = Overwrite(c, at, new)
        /\ \A i \in 1 .. m : at + i <= Capacity => w[at + i] = new[i]
  <2>1. PICK w \in Area :
          /\ w = Overwrite(c, at, new)
          /\ \A i \in 1 .. Len(new) : at + i <= Capacity => w[at + i] = new[i]
    BY OverwriteFacts, Zenon
  <2> QED BY <1>1, <2>1
<1>5. Torn(w, F, G) BY <1>1, <1>4, TornWritten
<1>6. \A i \in 1 .. Capacity : e[i] = c[i] \/ e[i] = w[i]
  <2> SUFFICES ASSUME NEW i \in 1 .. Capacity PROVE e[i] = c[i] \/ e[i] = w[i]
    OBVIOUS
  <2>1. CASE i <= at BY <1>3, <2>1
  <2>2. CASE at + n < i BY <1>3, <2>2
  <2>3. CASE at < i /\ i <= at + n
    <3>1. PICK j \in 1 .. n : i = at + j /\ j \in 1 .. m /\ at + j <= Capacity
      <4>1. n \in Nat /\ n <= m /\ i \in Nat BY <1>1, ShapesAssumption
      <4>2. i - at \in 1 .. n /\ i = at + (i - at) /\ i - at \in 1 .. m BY <2>3, <4>1
      <4> QED BY <4>2, ShapesAssumption
    <3> QED BY <1>2, <1>3, <1>4, <3>1
  <2>4. n \in Nat /\ i \in Nat BY <1>1, ShapesAssumption
  <2> QED BY <2>1, <2>2, <2>3, <2>4
<1>7. Torn(e, F, G) BY <1>5, <1>6, TornMerge
<1> QED BY <1>1, <1>2, <1>3, <1>7

LEMMA OnceWrite == ASSUME Sound, OnceInv, WriteBatch PROVE OnceInv'
<1>1. /\ pc = "write" /\ pc' = "sync" /\ IsOpen /\ InBatch /\ Behind = <<>> /\ Behind' = batch
      /\ UNCHANGED <<base, offset, drift, log, batch, flaws, batches, faults, crashes>>
      /\ WriteCells(Layout(batch))
  BY DEF WriteBatch, IsOpen, InBatch, Behind
<1>7. Shaped(batch) /\ Shaped(batch)' BY <1>1 DEF OnceInv, Started, Shaped, Frames
<1>8. Started' BY <1>1, <1>7 DEF OnceInv, Started, Clean
<1>9. LogIsWhole' /\ OnceDown' BY <1>1 DEF OnceInv, LogIsWhole, InBatch, OnceDown
<1>10. NeverDown'
  <2> SUFFICES ASSUME faults = 0, crashes = 0
               PROVE  /\ \A b \in Written' : files'[b].firm
                      /\ Below(base)'
                      /\ \A x \in DOMAIN files' : x \in Written'
                      /\ \E F \in Seq(Frame) : Top(base, F, Behind)' /\ Size(F) = offset
    BY <1>1 DEF NeverDown, IsOpen
  <2>a. LogInv BY CleanIsSound DEF Clean
  <2>b. /\ offset \in Nat /\ batch \in Seq(Frame) /\ offset + Size(batch) <= Capacity
        /\ Layout(batch) \in Seq(Cell)
    BY <1>1, <2>a, LogFacts DEF LogInv, Types, BatchFits
  <2>c. PICK c \in Area, d \in Area, e \in Area, g \in Area :
          /\ c = files[base].cache /\ d = files[base].disk
          /\ e = Overwrite(c, offset + drift, Layout(batch))
          /\ \A i \in 1 .. Capacity : g[i] = d[i] \/ (g[i] = c[i] /\ offset < i)
          /\ DOMAIN files' = DOMAIN files
          /\ \A b \in DOMAIN files : b # base => files'[b] = files[b]
          /\ files'[base].cache = e /\ files'[base].disk = g
          /\ files'[base].header = files[base].header /\ files'[base].firm = files[base].firm
    BY <1>1, <2>a, <2>b, WrittenCells
  <2>d. drift = 0 /\ offset + drift = offset BY <2>b DEF OnceInv, Started
  <2>e. Written' = Written BY <2>c DEF Written
  <2>1. /\ Below(base) /\ \A x \in DOMAIN files : x \in Written
        /\ \A b \in Written : files[b].firm
        /\ \E F \in Seq(Frame) : Top(base, F, <<>>) /\ Size(F) = offset
    BY <1>1 DEF OnceInv, NeverDown
  <2>2. PICK F \in Seq(Frame) : Top(base, F, <<>>) /\ Size(F) = offset BY <2>1
  <2>3. Torn(c, F, <<>>) /\ Torn(d, F, <<>>) BY <2>c, <2>2 DEF Top
  <2>4. Torn(c, F, batch) /\ Torn(d, F, batch) BY <2>b, <2>2, <2>3, TornLater
  <2>5. Torn(e, F, batch)
    <3>1. e = Overwrite(c, offset, Layout(batch)) BY <2>c, <2>d
    <3> QED BY <2>b, <2>2, <2>4, <3>1, TornWritten
  <2>6. Torn(g, F, batch)
    <3>1. \A i \in 1 .. Capacity : g[i] = c[i] \/ g[i] = d[i] BY <2>c
    <3> QED BY <2>b, <2>4, <3>1, TornMerge
  <2>7. Older(log, batches)
    <3>1. crashes <= 1 OBVIOUS
    <3> QED BY <1>1, <3>1 DEF OnceInv, LogIsWhole
  <2>8. Top(base, F, Behind)' BY <1>1, <1>7, <2>c, <2>2, <2>5, <2>6, <2>7 DEF Top
  <2>9. \A b \in Written : b # base => \A H \in Seq(Frame) : SealedBy(b, H) => SealedBy(b, H)'
    BY <2>c, <2>e DEF SealedBy, Follows, Written
  <2>10. Below(base)' BY <1>1, <2>e, <2>1, <2>9 DEF Below
  <2>11. \A b \in Written' : files'[b].firm BY <2>c, <2>e, <2>1 DEF Written
  <2> QED BY <2>c, <2>e, <2>1, <2>2, <2>8, <2>10, <2>11
<1> QED BY <1>8, <1>9, <1>10 DEF OnceInv

LEMMA OnceSync == ASSUME Sound, OnceInv, SyncBatch PROVE OnceInv'
<1>1. /\ pc = "sync" /\ pc' = "idle" /\ IsOpen /\ InBatch /\ Behind = batch /\ Behind' = <<>>
      /\ base' = base /\ offset' = offset + Size(batch) /\ log' = log \o Records(batch)
      /\ UNCHANGED <<drift, batches, faults, crashes>>
      /\ files' = [files EXCEPT ![base].disk = Synced, ![base].firm = TRUE]
      /\ flaws' = IF drift # 0 THEN flaws \cup {"misplaced"} ELSE flaws
  BY DEF SyncBatch, FlawedIf, IsOpen, InBatch, Behind
<1>2. batches \in Nat BY DEF OnceInv, Started
<1>3. PICK shape \in Shapes : batch = Frames(batches, shape)
  BY <1>1 DEF OnceInv, Started, Shaped
<1>4. PICK k \in Nat : k = Len(shape)
  <2>1. shape \in Seq(Nat \ {0}) BY ShapesAssumption
  <2> QED BY <2>1, LenProperties
<1>5. ASSUME log \in Seq(Frame)
      PROVE  \E r \in Seq(Frame) :
               /\ batch \in Seq(Frame) /\ Closed(batch) /\ batch # <<>>
               /\ Len(batch) = k + 1 /\ batch[k + 1].index = Len(log) + k
               /\ r = Records(batch) /\ Stamped(r, batches, k) /\ Len(r) = k
  <2>1. batch \in Seq(Frame) BY <1>2, <1>3, <1>5, FramesFacts
  <2>2. /\ Closed(batch) /\ batch # <<>>
        /\ Len(batch) = k + 1 /\ batch[k + 1].index = Len(log) + k
        /\ Records(batch) \in Seq(Frame) /\ Stamped(Records(batch), batches, k)
    BY <1>2, <1>3, <1>4, <1>5, <2>1, BatchFrames
  <2> QED BY <2>1, <2>2 DEF Stamped
<1>7. Started' /\ OnceDown'
  <2>1. Clean' => flaws' = {} BY <1>1 DEF OnceInv, Started, Clean
  <2> QED BY <1>1, <2>1 DEF OnceInv, Started, InBatch, OnceDown
<1>8. LogIsWhole'
  <2> SUFFICES ASSUME faults = 0, crashes <= 1
               PROVE  log' \in Seq(Frame) /\ Whole(log') /\ Older(log', batches + 1)
    BY <1>1 DEF LogIsWhole, InBatch
  <2>1. Whole(log) /\ Older(log, batches) /\ log \in Seq(Frame)
    BY <1>1 DEF OnceInv, LogIsWhole
  <2>2. PICK r \in Seq(Frame) : r = Records(batch) /\ Stamped(r, batches, k) BY <1>5, <2>1
  <2>3. Whole(log \o r) /\ Older(log \o r, batches + 1) BY <1>2, <2>1, <2>2, WholeGrows
  <2>4. log \o r \in Seq(Frame) BY <2>1, ConcatProperties
  <2> QED BY <1>1, <2>2, <2>3, <2>4
<1>9. NeverDown'
  <2> SUFFICES ASSUME faults = 0, crashes = 0
               PROVE  /\ \A b \in Written' : files'[b].firm
                      /\ Below(base)'
                      /\ \A x \in DOMAIN files' : x \in Written'
                      /\ \E F \in Seq(Frame) : Top(base, F, Behind)' /\ Size(F) = offset'
    BY <1>1 DEF NeverDown, IsOpen
  <2>a. LogInv /\ drift = 0
    <3>1. LogInv BY CleanIsSound DEF Clean
    <3> QED BY <3>1 DEF OnceInv, Started
  <2>b. /\ base \in Written /\ base \in DOMAIN files /\ files[base] \in File
        /\ offset \in Nat /\ batch \in Seq(Frame) /\ offset + Size(batch) <= Capacity
        /\ log \in Seq(Frame) /\ base \in 1 .. Len(log) + 1
    BY <1>1, <2>a DEF LogInv, CursorInv, Types, Written, BatchFits
  <2>f. PICK r \in Seq(Frame) :
          /\ Closed(batch) /\ batch # <<>>
          /\ Len(batch) = k + 1 /\ batch[k + 1].index = Len(log) + k
          /\ r = Records(batch) /\ Len(r) = k
    BY <1>5, <2>b
  <2>1. /\ Below(base) /\ \A x \in DOMAIN files : x \in Written
        /\ \A b \in Written : files[b].firm
        /\ \E F \in Seq(Frame) : Top(base, F, batch) /\ Size(F) = offset
    BY <1>1 DEF OnceInv, NeverDown
  <2>2. PICK F \in Seq(Frame) : Top(base, F, batch) /\ Size(F) = offset BY <2>1
  <2>3. PICK c \in Area, d \in Area : /\ c = files[base].cache /\ d = files[base].disk
                                      /\ Torn(c, F, batch) /\ Torn(d, F, batch)
    BY <2>b, <2>2, FileParts DEF Top
  <2>4. PICK m \in Nat : m = Size(batch) BY <2>a, LogFacts
  <2> DEFINE s == [i \in 1 .. Capacity |-> IF i <= offset + m THEN c[i] ELSE d[i]]
  <2>5. s = Synced
    <3>1. offset + drift + Size(batch) = offset + m BY <2>a, <2>b, <2>4
    <3> QED BY <2>3, <3>1 DEF Synced
  <2>6. s \in Area BY DEF Area
  <2>7. \A i \in 1 .. Capacity : (i <= offset + m => s[i] = c[i]) /\ (s[i] = c[i] \/ s[i] = d[i])
    OBVIOUS
  <2> HIDE DEF s
  <2>8. Torn(s, F, batch)
    <3>1. \A i \in 1 .. Capacity : s[i] = c[i] \/ s[i] = d[i] BY <2>7
    <3> QED BY <2>b, <2>3, <3>1, TornMerge
  <2>9. \A i \in 1 .. m : c[offset + i] = Layout(batch)[i] /\ s[offset + i] = Layout(batch)[i]
    <3> SUFFICES ASSUME NEW i \in 1 .. m
                 PROVE  c[offset + i] = Layout(batch)[i] /\ s[offset + i] = Layout(batch)[i]
      OBVIOUS
    <3>1. offset + i \in 1 .. Capacity /\ offset + i <= offset + m
      BY <2>b, <2>4, ShapesAssumption, SMTT(40)
    <3>2. c[offset + i] = Layout(batch)[i] BY <1>1, <2>a, <2>3, <2>4 DEF LogInv, BatchFits
    <3> QED BY <2>7, <3>1, <3>2
  <2>10. PICK H \in Seq(Frame) : H = F \o batch BY <2>b, ConcatProperties
  <2>11. Torn(c, H, <<>>) BY <2>b, <2>2, <2>3, <2>4, <2>9, <2>10, TornFull
  <2>12. Torn(s, H, <<>>) BY <2>b, <2>2, <2>4, <2>8, <2>9, <2>10, TornFull
  <2>13. Closed(H) BY <2>b, <2>f, <2>2, <2>10, ClosedConcat DEF Top
  <2>14. PICK N \in Nat, n \in Nat : N = Len(log) /\ n = Len(F) BY <2>b, LenProperties
  <2>15. Len(log') = N + k
    <3>1. Len(log \o r) = Len(log) + Len(r) BY <2>b, ConcatProperties
    <3> QED BY <1>1, <2>f, <2>14, <3>1
  <2>16. H[Len(H)].index = Len(log')
    <3>1. /\ Len(F \o batch) = Len(F) + Len(batch)
          /\ \A i \in 1 .. Len(F) + Len(batch) :
               (F \o batch)[i] = IF i <= Len(F) THEN F[i] ELSE batch[i - Len(F)]
      BY <2>b, ConcatProperties
    <3>2. Len(H) = n + (k + 1) /\ Len(F) = n /\ Len(batch) = k + 1
      BY <2>f, <2>10, <2>14, <3>1
    <3>3. n + (k + 1) \in 1 .. n + (k + 1) /\ ~ (n + (k + 1) <= n) /\ (n + (k + 1)) - n = k + 1
      BY <2>14
    <3>4. H[n + (k + 1)] = batch[k + 1] BY <2>10, <3>1, <3>2, <3>3
    <3> QED BY <2>f, <2>14, <2>15, <3>2, <3>4
  <2>17. base + Len(Records(H)) = Len(log') + 1
    <3>1. PICK x \in Nat : x = Len(Records(F)) /\ Len(Records(H)) = x + k
      <4>1. Len(Records(H)) = Len(Records(F)) + Len(Records(batch))
        BY <2>b, <2>10, LayoutConcat
      <4>2. Len(Records(F)) \in Nat BY LayoutType
      <4> QED BY <2>f, <4>1, <4>2
    <3>2. base + x = N + 1 BY <2>2, <2>14, <3>1 DEF Top
    <3>3. base \in Nat BY <2>b, <2>14
    <3>4. base + (x + k) = (N + k) + 1
      <4>1. PICK t \in Nat : t = base BY <3>3
      <4>2. t + x = N + 1 BY <3>2, <4>1
      <4>3. t + (x + k) = (N + k) + 1 BY <4>2, SMTT(40)
      <4> QED BY <4>1, <4>3
    <3> QED BY <2>15, <3>1, <3>4
  <2>18. /\ DOMAIN files' = DOMAIN files
         /\ \A b \in DOMAIN files : b # base => files'[b] = files[b]
         /\ files'[base].cache = c /\ files'[base].disk = s
         /\ files'[base].header = files[base].header /\ files'[base].firm = TRUE
    <3>1. /\ DOMAIN files' = DOMAIN files
          /\ \A b \in DOMAIN files : b # base => files'[b] = files[b]
          /\ files'[base] = Firmed(files[base], s)
      BY <1>1, <2>b, <2>5 DEF Firmed
    <3>2. PICK f \in File : f = files[base] /\ f.header = TRUE
      <4>1. files[base].header BY <2>b DEF Written
      <4> QED BY <2>b, <4>1, FileParts
    <3> DEFINE R(x) == x.header = TRUE /\ x.firm = TRUE /\ x.cache = f.cache /\ x.disk = s
    <3>3. R(Firmed(f, s)) BY <2>6, <3>2, FileSynced
    <3> HIDE DEF R
    <3>4. R(files'[base]) BY <3>1, <3>2, <3>3
    <3>5. /\ files'[base].header = TRUE /\ files'[base].firm = TRUE
          /\ files'[base].cache = f.cache /\ files'[base].disk = s
      BY <3>4 DEF R
    <3> QED BY <2>3, <3>1, <3>2, <3>5
  <2>19. Written' = Written BY <2>18 DEF Written
  <2>20. Top(base, H, Behind)' BY <1>1, <2>11, <2>12, <2>13, <2>16, <2>17, <2>18 DEF Top
  <2>21. Size(H) = offset' BY <1>1, <2>b, <2>2, <2>10, LayoutConcat
  <2>22. \A b \in Written : b # base => \A X \in Seq(Frame) : SealedBy(b, X) => SealedBy(b, X)'
    BY <2>18, <2>19 DEF SealedBy, Follows, Written
  <2>23. Below(base)' BY <1>1, <2>1, <2>19, <2>22 DEF Below
  <2>24. \A b \in Written' : files'[b].firm BY <2>1, <2>18, <2>19 DEF Written
  <2> QED BY <2>1, <2>18, <2>19, <2>20, <2>21, <2>23, <2>24
<1> QED BY <1>7, <1>8, <1>9 DEF OnceInv

\* The crash, and what open finds after it. A kill leaves a part of the batch being written in the
\* page cache; a power loss keeps any part of the cells the disk lacks.
CrashKeeps(b) ==
    \A F \in Seq(Frame) : \A G \in Seq(Frame) :
        /\ Torn(files[b].cache, F, G) /\ Torn(files[b].disk, F, G)
        /\ pc = "write" /\ b = base => Size(F) = offset /\ G = batch
        => Torn(files'[b].cache, F, G) /\ Torn(files'[b].disk, F, G)

LEMMA KillCells ==
    ASSUME LogInv, OnceInv, faults = 0, crashes = 0, Kill
    PROVE  /\ Written \subseteq DOMAIN files'
           /\ \E h \in BOOLEAN :
                /\ h => pc \in {"header", "first"}
                /\ \A b \in DOMAIN files' :
                     /\ b \in DOMAIN files /\ CrashKeeps(b)
                     /\ files'[b].header = (files[b].header \/ (h /\ b = NextPosition))
<1> DEFINE Goal(h) ==
      \A b \in DOMAIN files' :
        /\ b \in DOMAIN files /\ CrashKeeps(b)
        /\ files'[b].header = (files[b].header \/ (h /\ b = NextPosition))
<1>1. \A b \in DOMAIN files : files[b] \in File BY DEF LogInv, Types
<1>2. \A b \in DOMAIN files : files[b].header \in BOOLEAN BY <1>1, FileParts
<1>3. CASE UNCHANGED files
  <2>1. Goal(FALSE) BY <1>2, <1>3 DEF CrashKeeps
  <2> QED BY <1>3, <2>1 DEF Written
<1>4. ASSUME pc = "write", NEW n \in 1 .. Size(batch) - 1,
             WriteCells(SubSeq(Layout(batch), 1, n))
      PROVE  Goal(FALSE) /\ Written \subseteq DOMAIN files'
  <2>1. n \in Nat /\ n <= Size(batch) /\ n \in 0 .. Size(batch) BY <1>4, LogFacts
  <2>2. SubSeq(Layout(batch), 1, n) \in Seq(Cell) BY <2>1, PartOfBatch
  <2>3. /\ base \in Written /\ base \in DOMAIN files /\ offset \in Nat
        /\ batch \in Seq(Frame) /\ offset + drift = offset
    BY <1>4 DEF LogInv, CursorInv, Types, Written, IsOpen, OnceInv, Started
  <2>4. PICK c \in Area, d \in Area, e \in Area, g \in Area :
          /\ c = files[base].cache /\ d = files[base].disk
          /\ e = Overwrite(c, offset + drift, SubSeq(Layout(batch), 1, n))
          /\ \A i \in 1 .. Capacity : g[i] = d[i] \/ (g[i] = c[i] /\ offset < i)
          /\ DOMAIN files' = DOMAIN files
          /\ \A b \in DOMAIN files : b # base => files'[b] = files[b]
          /\ files'[base].cache = e /\ files'[base].disk = g
          /\ files'[base].header = files[base].header /\ files'[base].firm = files[base].firm
    <3>1. PICK new \in Seq(Cell) : new = SubSeq(Layout(batch), 1, n) BY <2>2
    <3>2. WriteCells(new) BY <1>4, <3>1
    <3> HIDE <2>1
    <3>3. PICK c \in Area, d \in Area, e \in Area, g \in Area :
            /\ c = files[base].cache /\ d = files[base].disk
            /\ e = Overwrite(c, offset + drift, new)
            /\ \A i \in 1 .. Capacity : g[i] = d[i] \/ (g[i] = c[i] /\ offset < i)
            /\ DOMAIN files' = DOMAIN files
            /\ \A b \in DOMAIN files : b # base => files'[b] = files[b]
            /\ files'[base].cache = e /\ files'[base].disk = g
            /\ files'[base].header = files[base].header /\ files'[base].firm = files[base].firm
      BY <1>4, <3>2, WrittenCells
    <3> QED BY <3>1, <3>3
  <2>5. ASSUME NEW F \in Seq(Frame), Torn(c, F, batch), Torn(d, F, batch), Size(F) = offset
        PROVE  Torn(e, F, batch) /\ Torn(g, F, batch)
    <3>1. e = Overwrite(c, offset, SubSeq(Layout(batch), 1, n)) BY <2>3, <2>4
    <3>2. Torn(e, F, batch) BY <2>1, <2>3, <2>5, <3>1, TornPartly
    <3>3. \A i \in 1 .. Capacity : g[i] = c[i] \/ g[i] = d[i] BY <2>4
    <3> QED BY <2>3, <2>5, <3>2, <3>3, TornMerge
  <2>6. CrashKeeps(base) BY <1>4, <2>4, <2>5 DEF CrashKeeps
  <2>7. \A b \in DOMAIN files : b # base => CrashKeeps(b) BY <2>4 DEF CrashKeeps
  <2>8. \A b \in DOMAIN files : files'[b].header = files[b].header BY <2>3, <2>4
  <2>9. Goal(FALSE) BY <1>2, <2>4, <2>6, <2>7, <2>8
  <2> QED BY <2>4, <2>9 DEF Written
<1>5. ASSUME pc \in {"header", "first"}, files' = Put(NextPosition, NewFile(TRUE, FALSE))
      PROVE  Goal(TRUE) /\ Written \subseteq DOMAIN files'
  <2>1. NextPosition \in DOMAIN files /\ files[NextPosition] = NewFile(FALSE, FALSE)
    <3>1. CASE pc = "header" BY <3>1 DEF LogInv, Creation, OnceInv, Started
    <3>2. CASE pc = "first"
      <4>1. log = <<>> /\ DOMAIN files = {1} /\ files[1] = NewFile(FALSE, FALSE)
        BY <3>2 DEF LogInv, Creation, OnceInv, Started
      <4>2. NextPosition = 1
        <5>1. Len(log) = 0 BY <4>1
        <5> QED BY <5>1 DEF NextPosition
      <4> QED BY <4>1, <4>2
    <3> QED BY <1>5, <3>1, <3>2
  <2>2. /\ DOMAIN files' = DOMAIN files
        /\ files'[NextPosition] = NewFile(TRUE, FALSE)
        /\ \A b \in DOMAIN files : b # NextPosition => files'[b] = files[b]
    BY <1>5, <2>1 DEF Put
  <2>3. /\ files[NextPosition].cache = Fresh /\ files[NextPosition].disk = Fresh
        /\ files'[NextPosition].cache = Fresh /\ files'[NextPosition].disk = Fresh
        /\ files'[NextPosition].header = TRUE
    BY <2>1, <2>2 DEF NewFile
  <2>4. \A b \in DOMAIN files : CrashKeeps(b) BY <2>2, <2>3 DEF CrashKeeps
  <2>5. \A b \in DOMAIN files : files'[b].header = (files[b].header \/ (TRUE /\ b = NextPosition))
    BY <1>2, <2>2, <2>3
  <2>6. Goal(TRUE) BY <2>2, <2>4, <2>5
  <2> QED BY <2>2, <2>6 DEF Written
<1> HIDE DEF Goal
<1>6. CASE pc = "write" /\ \E n \in 1 .. Size(batch) - 1 : WriteCells(SubSeq(Layout(batch), 1, n))
  BY <1>4, <1>6 DEF Goal
<1>7. CASE pc \in {"header", "first"} /\ files' = Put(NextPosition, NewFile(TRUE, FALSE))
  BY <1>5, <1>7 DEF Goal
<1> QED BY <1>3, <1>6, <1>7 DEF Kill

LEMMA LossCells ==
    ASSUME LogInv, OnceInv, faults = 0, crashes = 0, PowerLoss
    PROVE  /\ Written \subseteq DOMAIN files'
           /\ \E h \in BOOLEAN :
                /\ h => pc \in {"header", "first"}
                /\ \A b \in DOMAIN files' :
                     /\ b \in DOMAIN files /\ CrashKeeps(b)
                     /\ files'[b].header = (files[b].header \/ (h /\ b = NextPosition))
<1>1. PICK kept \in SUBSET Unsynced,
           gone \in SUBSET {b \in DOMAIN files : ~ files[b].header},
           headed \in SUBSET {b \in DOMAIN files : Unsure(b)} :
        files' = [b \in DOMAIN files \ gone |->
                    Settled(b, kept, files[b].firm \/ b \in headed)]
  BY DEF PowerLoss
<1>2. \A b \in Written : files[b].firm BY DEF OnceInv, NeverDown
<1>3. \A b \in DOMAIN files : /\ files[b].header \in BOOLEAN /\ files[b].firm \in BOOLEAN
                              /\ (files[b].firm <=> files[b].header)
  <2> SUFFICES ASSUME NEW b \in DOMAIN files
               PROVE  /\ files[b].header \in BOOLEAN /\ files[b].firm \in BOOLEAN
                      /\ (files[b].firm <=> files[b].header)
    OBVIOUS
  <2>1. files[b] \in File BY DEF LogInv, Types
  <2>2. /\ files[b].header \in BOOLEAN /\ files[b].firm \in BOOLEAN
        /\ (files[b].firm => files[b].header)
    BY <2>1, FileParts
  <2> QED BY <1>2, <2>2 DEF Written
<1>4. \A b \in headed : pc \in {"header", "first"} /\ b = NextPosition BY <1>1, <1>3 DEF Unsure
<1>5. PICK h \in BOOLEAN : h <=> NextPosition \in headed
  <2>1. CASE NextPosition \in headed BY <2>1
  <2>2. CASE NextPosition \notin headed BY <2>2
  <2> QED BY <2>1, <2>2
<1>6. h => pc \in {"header", "first"} BY <1>4, <1>5
<1>7. Written \subseteq DOMAIN files' BY <1>1 DEF Written
<1>8. ASSUME NEW b \in DOMAIN files'
      PROVE  /\ b \in DOMAIN files /\ CrashKeeps(b)
             /\ files'[b].header = (files[b].header \/ (h /\ b = NextPosition))
  <2>1. b \in DOMAIN files /\ files'[b] = Settled(b, kept, files[b].firm \/ b \in headed)
    BY <1>1
  <2>2. PICK x, y : x = files[b].cache /\ y = files[b].disk OBVIOUS
  <2> DEFINE c == [i \in 1 .. Capacity |-> IF <<b, i>> \in kept THEN x[i] ELSE y[i]]
  <2>3. /\ files'[b].cache = c /\ files'[b].disk = c
        /\ files'[b].header = (files[b].firm \/ b \in headed)
    BY <2>1, <2>2 DEF Settled
  <2>4. \A i \in 1 .. Capacity : c[i] = x[i] \/ c[i] = y[i] OBVIOUS
  <2> HIDE DEF c
  <2>5. ASSUME NEW F \in Seq(Frame), NEW G \in Seq(Frame), Torn(x, F, G), Torn(y, F, G)
        PROVE  Torn(c, F, G)
    BY <2>4, <2>5, TornMerge
  <2>6. CrashKeeps(b) BY <2>2, <2>3, <2>5 DEF CrashKeeps
  <2>7. b \in headed <=> h /\ b = NextPosition
    <3>1. b \in headed => b = NextPosition BY <1>4
    <3>2. CASE b = NextPosition BY <1>5, <3>2
    <3> QED BY <3>1, <3>2
  <2>8. files[b].firm = files[b].header BY <1>3, <2>1
  <2>9. files'[b].header = (files[b].header \/ (h /\ b = NextPosition))
    <3>1. CASE b \in headed BY <1>3, <2>1, <2>3, <2>7, <2>8, <3>1
    <3>2. CASE b \notin headed BY <1>3, <2>1, <2>3, <2>7, <2>8, <3>2
    <3> QED BY <3>1, <3>2
  <2> QED BY <2>1, <2>6, <2>9
<1> QED BY <1>6, <1>7, <1>8

LEMMA CrashSafe ==
    ASSUME LogInv, Kill \/ PowerLoss
    PROVE  \A b \in Nat : \A F \in Seq(Frame) : Safe(b, F) => Safe(b, F)'
<1>1. UNCHANGED <<base, offset, log, promised>> BY DEF Kill, PowerLoss, Down
<1>2. CASE PowerLoss
  <2>1. \A b \in Written : files[b].firm =>
          /\ b \in Written' /\ files'[b].firm
          /\ \A F \in Seq(Frame) : Kept(b, F) => Kept(b, F)'
    BY <1>2, LossFacts
  <2> QED BY <1>1, <2>1 DEF Safe
<1>3. CASE UNCHANGED files BY <1>1, <1>3 DEF Safe, Kept, Written
<1>4. ASSUME pc = "write", NEW n \in 1 .. Size(batch) - 1,
             WriteCells(SubSeq(Layout(batch), 1, n))
      PROVE  \A b \in Nat : \A F \in Seq(Frame) : Safe(b, F) => Safe(b, F)'
  <2>1. n \in Nat /\ n <= Size(batch) BY <1>4, LogFacts
  <2>2. SubSeq(Layout(batch), 1, n) \in Seq(Cell) BY <2>1, PartOfBatch
  <2> QED BY <1>1, <1>4, <2>2, WriteKeeps
<1>5. ASSUME pc \in {"header", "first"}, files' = Put(NextPosition, NewFile(TRUE, FALSE))
      PROVE  \A b \in Nat : \A F \in Seq(Frame) : Safe(b, F) => Safe(b, F)'
  <2>1. NextPosition \notin Written
    <3>1. CASE pc = "header" BY <3>1 DEF LogInv, Creation, Written
    <3>2. CASE pc = "first"
      <4>1. log = <<>> /\ ~ files[1].header BY <3>2 DEF LogInv, Creation
      <4>2. NextPosition = 1
        <5>1. Len(log) = 0 BY <4>1
        <5> QED BY <5>1 DEF NextPosition
      <4> QED BY <4>1, <4>2 DEF Written
    <3> QED BY <1>5, <3>1, <3>2
  <2>2. Written \subseteq Written' /\ \A b \in Written : files'[b] = files[b]
    BY <1>1, <1>5, <2>1, PutFacts
  <2> QED BY <1>1, <2>2 DEF Safe, Kept
<1> QED BY <1>2, <1>3, <1>4, <1>5 DEF Kill

LEMMA OnceCrash == ASSUME Sound, OnceInv, Kill \/ PowerLoss PROVE OnceInv'
<1>1. /\ crashes' = crashes + 1 /\ pc' = "down" /\ pc \notin {"down", "refused"} /\ drift' = 0
      /\ UNCHANGED <<base, offset, log, promised, flaws, batches, faults>>
      /\ crashes \in Nat
  BY DEF Kill, PowerLoss, Down, OnceInv, Started
<1>2. Started' /\ NeverDown'
  <2>1. Clean' => Clean BY <1>1 DEF Clean
  <2> QED BY <1>1, <2>1 DEF OnceInv, Started, InBatch, NeverDown
<1>3. LogIsWhole' BY <1>1 DEF OnceInv, LogIsWhole, InBatch
<1>8. OnceDown'
  <2> SUFFICES ASSUME faults = 0, crashes = 0
               PROVE  /\ \A p \in 1 .. Len(log) : Stored(p)'
                      /\ Written' # {} =>
                          \E t \in Nat :
                            /\ Below(t)'
                            /\ \A x \in DOMAIN files' : x \notin Written' => t < x
                            /\ \E F \in Seq(Frame) : \E G \in Seq(Frame) : Top(t, F, G)'
    BY <1>1 DEF OnceDown
  <2>a. LogInv BY CleanIsSound DEF Clean
  <2>b. /\ Written \subseteq DOMAIN files'
        /\ \E h \in BOOLEAN :
             /\ h => pc \in {"header", "first"}
             /\ \A b \in DOMAIN files' :
                  /\ b \in DOMAIN files /\ CrashKeeps(b)
                  /\ files'[b].header = (files[b].header \/ (h /\ b = NextPosition))
    BY <2>a, KillCells, LossCells
  <2>c. PICK h \in BOOLEAN :
          /\ h => pc \in {"header", "first"}
          /\ \A b \in DOMAIN files' :
               /\ b \in DOMAIN files /\ CrashKeeps(b)
               /\ files'[b].header = (files[b].header \/ (h /\ b = NextPosition))
    BY <2>b
  <2>d. Written \subseteq Written' BY <2>b, <2>c DEF Written
  <2>e. \A b \in Written' : b \in Written \/ (h /\ b = NextPosition) BY <2>c DEF Written
  <2>f. PICK N \in Nat : N = Len(log) /\ NextPosition = N + 1 /\ Written \subseteq 1 .. N + 1
    BY <2>a, LogFacts
  <2>1. CASE pc = "first"
    <3>1. DOMAIN files = {1} /\ ~ files[1].header /\ files[1] = NewFile(FALSE, FALSE) /\ log = <<>>
      BY <2>a, <2>1 DEF LogInv, Creation, OnceInv, Started
    <3>2. Len(log) = 0 BY <3>1
    <3> SUFFICES ASSUME Written' # {}
                 PROVE  \E t \in Nat :
                          /\ Below(t)'
                          /\ \A x \in DOMAIN files' : x \notin Written' => t < x
                          /\ \E F \in Seq(Frame) : \E G \in Seq(Frame) : Top(t, F, G)'
      BY <3>2
    <3>3. 1 \in DOMAIN files' /\ Written' = {1} /\ DOMAIN files' \subseteq {1}
      BY <2>c, <3>1 DEF Written
    <3>4. Below(1)' BY <3>3 DEF Below
    <3>5. <<>> \in Seq(Frame) /\ Top(1, <<>>, <<>>)'
      <4>1. /\ <<>> \in Seq(Frame) /\ Torn(Fresh, <<>>, <<>>) /\ Closed(<<>>)
            /\ Records(<<>>) = <<>>
        BY TornFresh, LayoutEmpty
      <4>2. files[1].cache = Fresh /\ files[1].disk = Fresh BY <3>1 DEF NewFile
      <4>3. Torn(files'[1].cache, <<>>, <<>>) /\ Torn(files'[1].disk, <<>>, <<>>)
        BY <2>c, <2>1, <3>3, <4>1, <4>2 DEF CrashKeeps
      <4>4. Len(<<>>) = 0 /\ 1 + 0 = 0 + 1 OBVIOUS
      <4>5. 1 + Len(Records(<<>>)) = Len(log') + 1 BY <1>1, <3>1, <4>1, <4>4
      <4> QED BY <1>1, <4>1, <4>3, <4>5 DEF Top
    <3> QED BY <3>3, <3>4, <3>5
  <2>2. CASE pc # "first"
    <3>1. IsOpen BY <1>1, <2>2 DEF IsOpen
    <3>2. /\ Below(base)
          /\ \A x \in DOMAIN files : x \notin Written => pc = "header" /\ x = NextPosition
          /\ \E F \in Seq(Frame) : Top(base, F, Behind) /\ Size(F) = offset
      BY <3>1 DEF OnceInv, NeverDown
    <3>3. PICK F \in Seq(Frame) : Top(base, F, Behind) /\ Size(F) = offset BY <3>2
    <3>4. Behind \in Seq(Frame) /\ <<>> \in Seq(Frame) /\ batch \in Seq(Frame)
      BY <2>a, EmptySeq DEF Behind, LogInv, Types
    <3>5. /\ base \in Written /\ base \in Written' /\ 1 \in Written'
          /\ \A x \in Written : x <= base
      BY <2>d, <3>2 DEF Below
    <3>6. base + Len(Records(F)) = N + 1 /\ base \in Nat BY <2>f, <3>3, <3>5 DEF Top
    <3>7. \A b \in Written' : CrashKeeps(b) BY <2>c DEF Written
    <3>0. ASSUME NEW p \in 1 .. Len(log) PROVE Stored(p)'
      <4>1. ~ Volatile BY <2>a, <3>1, OnceFirm DEF LogInv, Types
      <4>2. Stored(p) BY <2>a, <3>1, <4>1, StoredAll
      <4>3. \A b \in Nat : \A H \in Seq(Frame) : Safe(b, H) => Safe(b, H)' BY <2>a, CrashSafe
      <4> QED BY <1>1, <4>2, <4>3, StoredFrom
    <3>8. CASE Written' = Written
      <4>1. \A b \in Written : b # base => \A H \in Seq(Frame) : SealedBy(b, H) => SealedBy(b, H)'
        BY <3>4, <3>7, <3>8 DEF SealedBy, Follows, CrashKeeps
      <4>2. Below(base)' BY <1>1, <3>2, <3>8, <4>1 DEF Below
      <4>3. \A x \in DOMAIN files' : x \notin Written' => base < x
        <5> SUFFICES ASSUME NEW x \in DOMAIN files', x \notin Written' PROVE base < x
          OBVIOUS
        <5>1. x = NextPosition /\ x # base BY <2>c, <3>2, <3>5, <3>8
        <5>2. base <= NextPosition BY <2>f, <3>5
        <5> QED BY <2>f, <3>6, <5>1, <5>2
      <4>4. \E G \in Seq(Frame) : Top(base, F, G)'
        <5>1. PICK G \in Seq(Frame) : G = IF pc = "write" THEN batch ELSE Behind BY <3>4
        <5>2. Top(base, F, G)
          <6>1. CASE pc = "write"
            <7>1. Behind = <<>> BY <6>1 DEF Behind
            <7>2. Size(F) + Size(G) <= Capacity BY <2>a, <3>3, <5>1, <6>1 DEF LogInv, BatchFits
            <7>3. Torn(files[base].cache, F, G) /\ Torn(files[base].disk, F, G)
              BY <3>3, <7>1, <7>2, TornLater DEF Top
            <7>4. Shaped(G) /\ Older(log, batches)
              <8>1. crashes <= 1 /\ InBatch BY <6>1 DEF InBatch
              <8> QED BY <5>1, <6>1, <8>1 DEF OnceInv, Started, LogIsWhole
            <7> QED BY <3>3, <7>3, <7>4 DEF Top
          <6>2. CASE pc # "write" BY <3>3, <5>1, <6>2
          <6> QED BY <6>1, <6>2
        <5>3. Torn(files'[base].cache, F, G) /\ Torn(files'[base].disk, F, G)
          BY <3>3, <3>5, <3>7, <5>1, <5>2 DEF Top, CrashKeeps
        <5>4. Shaped(G) => Shaped(G)' BY <1>1 DEF Shaped, Frames
        <5>5. Top(base, F, G)' BY <1>1, <5>2, <5>3, <5>4 DEF Top
        <5> QED BY <5>5
      <4>5. PICK t \in Nat : t = base BY <3>6
      <4>6. Below(t)' /\ \E G \in Seq(Frame) : Top(t, F, G)'
        BY <1>1, <4>2, <4>4, <4>5 DEF Below, Top
      <4> QED BY <3>0, <4>3, <4>5, <4>6
    <3>9. CASE Written' # Written
      <4>1. /\ h /\ pc = "header" /\ NextPosition \notin Written
            /\ NextPosition \in Written' /\ Written' = Written \cup {NextPosition}
        <5>1. PICK b \in Written' : b \notin Written BY <2>d, <3>9
        <5>2. h /\ b = NextPosition BY <2>e, <5>1
        <5> QED BY <2>c, <2>d, <2>e, <2>2, <5>1, <5>2
      <4>2. Behind = <<>> /\ files[NextPosition] = NewFile(FALSE, FALSE)
        BY <4>1 DEF Behind, OnceInv, Started
      <4>3. base < NextPosition
        <5>1. base <= NextPosition /\ base # NextPosition BY <2>f, <3>5, <4>1
        <5> QED BY <2>f, <3>6, <5>1
      <4>4. \A x \in DOMAIN files' : x \in Written' BY <2>c, <2>d, <3>2, <4>1
      <4>9. \A b \in Written' : \A H \in Seq(Frame) :
              Torn(files[b].cache, H, <<>>) /\ Torn(files[b].disk, H, <<>>) =>
                  Torn(files'[b].cache, H, <<>>) /\ Torn(files'[b].disk, H, <<>>)
        BY <3>4, <3>7, <4>1 DEF CrashKeeps
      <4>5. ASSUME NEW b \in Written PROVE \E H \in Seq(Frame) : SealedBy(b, H)'
        <5>1. b \in Written' BY <2>d
        <5>2. CASE b = base
          <6>1. Torn(files'[b].cache, F, <<>>) /\ Torn(files'[b].disk, F, <<>>)
            BY <3>3, <4>2, <4>9, <5>1, <5>2 DEF Top
          <6>2. ASSUME NEW x \in Written', b < x PROVE NextPosition <= x
            <7>1. x \in Nat BY <2>f, <4>1
            <7>2. x \notin Written BY <3>5, <3>6, <5>2, <6>2, <7>1
            <7>3. x = NextPosition BY <4>1, <7>2
            <7> QED BY <2>f, <7>3
          <6>3. b + Len(Records(F)) = NextPosition BY <2>f, <3>6, <5>2
          <6>4. SealedBy(b, F)'
            BY <4>1, <4>3, <5>2, <6>1, <6>2, <6>3 DEF SealedBy, Follows
          <6> QED BY <6>4
        <5>3. CASE b # base
          <6>1. PICK H \in Seq(Frame) : SealedBy(b, H) BY <3>2, <5>3 DEF Below
          <6>2. PICK e \in Written : e = b + Len(Records(H)) /\ b < e /\ \A x \in Written : b < x => e <= x
            BY <6>1 DEF SealedBy, Follows
          <6>3. e <= NextPosition BY <2>f, <6>2
          <6>4. \A x \in Written' : b < x => e <= x BY <4>1, <6>2, <6>3
          <6>5. Torn(files'[b].cache, H, <<>>) /\ Torn(files'[b].disk, H, <<>>)
            BY <4>9, <5>1, <6>1 DEF SealedBy
          <6>6. SealedBy(b, H)' BY <4>1, <6>2, <6>4, <6>5 DEF SealedBy, Follows
          <6> QED BY <6>6
        <5> QED BY <5>2, <5>3
      <4>6. PICK t \in Nat : t = NextPosition BY <2>f
      <4>7. Below(t)'
        <5>1. \A x \in Written' : x <= t BY <2>f, <4>1, <4>6
        <5>2. \A b \in Written' : b # t => b \in Written BY <4>1, <4>6
        <5> QED BY <3>5, <4>1, <4>5, <4>6, <5>1, <5>2 DEF Below
      <4>8. Top(t, <<>>, <<>>)'
        <5>1. /\ Torn(Fresh, <<>>, <<>>) /\ Closed(<<>>) /\ Records(<<>>) = <<>>
          BY TornFresh, LayoutEmpty
        <5>2. files[t].cache = Fresh /\ files[t].disk = Fresh BY <4>2, <4>6 DEF NewFile
        <5>3. Torn(files'[t].cache, <<>>, <<>>) /\ Torn(files'[t].disk, <<>>, <<>>)
          BY <3>4, <4>1, <4>6, <4>9, <5>1, <5>2
        <5>4. Len(<<>>) = 0 /\ N + 1 + 0 = N + 1 OBVIOUS
        <5>5. t + Len(Records(<<>>)) = Len(log') + 1 BY <1>1, <2>f, <4>6, <5>1, <5>4
        <5> QED BY <1>1, <5>1, <5>3, <5>5 DEF Top
      <4> QED BY <3>0, <3>4, <4>4, <4>7, <4>8
    <3> QED BY <3>8, <3>9
  <2> QED BY <2>1, <2>2
<1> QED BY <1>2, <1>3, <1>8 DEF OnceInv

\* Opening after that crash: a sealed segment is read to its zeros, the active one gives back what
\* was committed or that and the whole batch.
LEMMA SealedRun ==
    ASSUME NEW c \in Area, NEW H \in Seq(Frame), Torn(c, H, <<>>)
    PROVE  Run(c) = H /\ StopsClean(c)
<1>1. <<>> \in Seq(Frame) /\ Size(<<>>) = 0 /\ Len(<<>>) = 0 BY EmptySeq, LayoutEmpty
<1>2. PICK k \in 0 .. 0 : Run(c) = H \o SubSeq(<<>>, 1, k) BY <1>1, TornRun
<1>3. k = 0 OBVIOUS
<1>4. SubSeq(<<>>, 1, 0) = <<>> BY <1>1, SubSeqEmpty
<1>5. Run(c) = H BY <1>2, <1>3, <1>4, ConcatEmptySeq
<1>6. PICK n \in Nat : n = Size(H) BY LayoutType
<1>7. \A i \in n + 0 + 1 .. Capacity : c[i] = Zero BY <1>1, <1>6 DEF Torn
<1>8. n + 1 > Capacity \/ n + 1 \in n + 0 + 1 .. Capacity BY ShapesAssumption
<1> QED BY <1>5, <1>6, <1>7, <1>8 DEF StopsClean

LEMMA ShapedFrames ==
    ASSUME log \in Seq(Frame), batches \in Nat, NEW G \in Seq(Frame), Shaped(G)
    PROVE  /\ OneMarker(G)
           /\ \E k \in Nat : /\ Len(G) = k + 1 /\ G[k + 1].index = Len(log) + k
                             /\ Records(G) \in Seq(Frame) /\ Stamped(Records(G), batches, k)
<1>1. PICK shape \in Shapes : G = Frames(batches, shape) BY DEF Shaped
<1>2. PICK k \in Nat : k = Len(shape)
  <2>1. shape \in Seq(Nat \ {0}) BY ShapesAssumption
  <2> QED BY <2>1, LenProperties
<1>3. log \in Seq(Frame) /\ batches \in Nat OBVIOUS
<1>5. /\ OneMarker(G) /\ Len(G) = k + 1 /\ G[k + 1].index = Len(log) + k
      /\ Records(G) \in Seq(Frame) /\ Stamped(Records(G), batches, k)
  BY <1>1, <1>2, <1>3, BatchFrames
<1> QED BY <1>5

LEMMA WhichRecovered ==
    ASSUME LogInv, NEW t \in Nat, t \in Written,
           NEW F \in Seq(Frame), NEW G \in Seq(Frame), Top(t, F, G)
    PROVE  \/ Recovered(files[t].cache) = F
           \/ /\ Recovered(files[t].cache) = F \o G
              /\ Older(log, batches)
              /\ \E k \in Nat : /\ Len(G) = k + 1 /\ G[k + 1].index = Len(log) + k
                                /\ Records(G) \in Seq(Frame) /\ Stamped(Records(G), batches, k)
<1>1. PICK c \in Area : c = files[t].cache /\ Torn(c, F, G) /\ Closed(F)
  <2>1. files[t] \in File BY DEF LogInv, Types, Written
  <2> QED BY <2>1, FileParts DEF Top
<1>2. CASE G = <<>>
  <2>1. OneMarker(G)
    <3>1. Len(G) = 0 BY <1>2
    <3> QED BY <3>1 DEF OneMarker
  <2>2. Recovered(c) = F \/ Recovered(c) = F \o G BY <1>1, <2>1, TornRecovered
  <2>3. F \o <<>> = F BY ConcatEmptySeq
  <2> QED BY <1>1, <1>2, <2>2, <2>3
<1>3. CASE G # <<>>
  <2>1. Shaped(G) /\ Older(log, batches) BY <1>3 DEF Top
  <2>5. /\ OneMarker(G)
        /\ \E k \in Nat : /\ Len(G) = k + 1 /\ G[k + 1].index = Len(log) + k
                          /\ Records(G) \in Seq(Frame) /\ Stamped(Records(G), batches, k)
    BY <2>1, ShapedFrames DEF LogInv, Types
  <2>6. Recovered(c) = F \/ Recovered(c) = F \o G BY <1>1, <2>5, TornRecovered
  <2> QED BY <1>1, <2>1, <2>5, <2>6
<1> QED BY <1>2, <1>3

LEMMA OnceAccepted ==
    ASSUME LogInv, pc = "down", NEW t \in Nat, Below(t),
           \A x \in DOMAIN files : x \notin Written => t < x,
           NEW F \in Seq(Frame), NEW G \in Seq(Frame), Top(t, F, G)
    PROVE  /\ Opens /\ Max(Written) = t
           /\ \A b \in Written \ {Max(Written)} : StopsClean(files[b].cache)
<1>1. PICK N \in Nat : N = Len(log) /\ Written \subseteq 1 .. N + 1 BY LogFacts
<1>2. /\ 1 \in Written /\ t \in Written /\ Written \subseteq Nat
      /\ \A x \in Written : x <= t /\ 1 <= x
  BY <1>1 DEF Below
<1>3. Max(Written) = t
  <2>1. PICK m \in Written : m = Max(Written) /\ \A x \in Written : x <= m
    BY <1>2, MaxIsGreatest
  <2>2. m <= t /\ t <= m /\ m \in Nat BY <1>2, <2>1
  <2> QED BY <2>1, <2>2
<1>4. Min(Written) = 1
  <2>1. PICK m \in Written : m = Min(Written) /\ \A x \in Written : m <= x
    BY <1>2, MinIsLeast
  <2>2. m <= 1 /\ 1 <= m /\ m \in Nat BY <1>2, <2>1
  <2> QED BY <2>1, <2>2
<1>5. ASSUME NEW b \in Written, b # t
      PROVE  After(b) = b + Len(Content(b)) /\ StopsClean(files[b].cache)
  <2>1. PICK H \in Seq(Frame) : SealedBy(b, H) BY <1>5 DEF Below
  <2>2. PICK c \in Area : c = files[b].cache /\ Torn(c, H, <<>>)
    <3>1. files[b] \in File BY DEF LogInv, Types, Written
    <3> QED BY <2>1, <3>1, FileParts DEF SealedBy
  <2>3. Run(c) = H /\ StopsClean(c) BY <2>2, SealedRun
  <2>4. Content(b) = Records(H) BY <1>3, <1>5, <2>2, <2>3 DEF Content
  <2>5. PICK e \in Written : /\ e = b + Len(Records(H)) /\ b < e
                             /\ \A x \in Written : b < x => e <= x
    BY <2>1 DEF SealedBy, Follows
  <2> DEFINE S == {x \in Written : x > b}
  <2>6. S \subseteq Nat /\ e \in S /\ e \in Nat /\ b \in Nat /\ \A x \in S : e <= x
    <3>1. e \in Nat /\ b \in Nat /\ e > b BY <1>2, <2>5
    <3>2. \A x \in S : x \in Nat /\ b < x BY <1>2, <3>1
    <3> QED BY <1>2, <2>5, <3>1, <3>2
  <2>7. PICK m \in S : m = Min(S) /\ \A x \in S : m <= x
    <3> HIDE DEF S
    <3> QED BY <2>6, MinIsLeast
  <2>8. m = e
    <3>1. m <= e /\ e <= m /\ m \in Nat BY <2>6, <2>7
    <3> QED BY <2>6, <3>1
  <2>9. After(b) = m BY <2>7 DEF After
  <2> QED BY <2>2, <2>3, <2>4, <2>5, <2>8, <2>9
<1>6. Contiguous BY <1>3, <1>4, <1>5 DEF Contiguous
<1>7. \A b \in Unwritten : b > Max(Written)
  <2> SUFFICES ASSUME NEW b \in DOMAIN files, b \notin Written PROVE b > t
    BY <1>3 DEF Unwritten
  <2>1. b \in Nat /\ t < b BY <1>1 DEF LogInv, Types
  <2> QED BY <2>1
<1>8. PICK n \in Nat : n = Len(Records(F)) /\ t + n = N + 1
  <2>1. Records(F) \in Seq(Frame) BY LayoutType
  <2>2. Len(Records(F)) \in Nat BY <2>1, LenProperties
  <2> QED BY <1>1, <2>2 DEF Top
<1>9. MarkerAgrees
  <2> SUFFICES ASSUME NEW run, run = Recovered(files[t].cache), run # <<>>
               PROVE  run[Len(run)].index + 1 = t + Len(Records(run))
    BY <1>3 DEF MarkerAgrees, Last
  <2>1. CASE run = F
    <3>1. F[Len(F)].index = N BY <1>1, <2>1 DEF Top
    <3> QED BY <1>8, <2>1, <3>1
  <2>2. CASE run # F
    <3>1. PICK k \in Nat : /\ run = F \o G
                           /\ Len(G) = k + 1 /\ G[k + 1].index = N + k
                           /\ Records(G) \in Seq(Frame) /\ Stamped(Records(G), batches, k)
      BY <1>1, <1>2, <2>2, WhichRecovered
    <3>2. PICK f \in Nat : f = Len(F) BY LenProperties
    <3>3. Len(run) = f + (k + 1) /\ run[f + (k + 1)] = G[k + 1]
      <4>1. /\ Len(F \o G) = Len(F) + Len(G)
            /\ \A i \in 1 .. Len(F) + Len(G) :
                 (F \o G)[i] = IF i <= Len(F) THEN F[i] ELSE G[i - Len(F)]
        BY ConcatProperties
      <4>2. f + (k + 1) \in 1 .. f + (k + 1) /\ ~ (f + (k + 1) <= f) /\ (f + (k + 1)) - f = k + 1
        BY <3>2
      <4> QED BY <3>1, <3>2, <4>1, <4>2
    <3>4. Len(Records(run)) = n + k
      <4>1. Records(F \o G) = Records(F) \o Records(G) /\ Records(F) \in Seq(Frame)
        BY LayoutConcat, LayoutType
      <4>2. Len(Records(F) \o Records(G)) = Len(Records(F)) + Len(Records(G))
        BY <3>1, <4>1, ConcatProperties
      <4>3. Len(Records(G)) = k BY <3>1 DEF Stamped
      <4> QED BY <1>8, <3>1, <4>1, <4>2, <4>3
    <3>5. run[Len(run)].index = N + k BY <3>1, <3>3
    <3>6. N + k + 1 = t + (n + k) BY <1>8
    <3> QED BY <3>4, <3>5, <3>6
  <2> QED BY <2>1, <2>2
<1> QED BY <1>3, <1>5, <1>6, <1>7, <1>9 DEF Opens

LEMMA ShiftBy ==
    \A t, n, k, N \in Nat : t + n = N + 1 => t + (n + k) - 1 = N + k
OBVIOUS

LEMMA OnceServed ==
    ASSUME Opening, \A p \in 1 .. Len(log) : Stored(p),
           NEW t \in Nat, t = Max(Written), t \in Written,
           NEW F \in Seq(Frame), NEW G \in Seq(Frame), Top(t, F, G)
    PROVE  \/ Contents = log
           \/ \E k \in Nat : \E r \in Seq(Frame) :
                Older(log, batches) /\ Stamped(r, batches, k) /\ Contents = log \o r
<1>1. PICK N \in Nat : N = Len(log) /\ log \in Seq(Frame)
  BY LogFacts DEF Opening, LogInv, Types
<1>2. PICK a \in Seq(Frame), n \in Nat : a = Records(F) /\ n = Len(a) /\ t + n = N + 1
  <2>1. Records(F) \in Seq(Frame) BY LayoutType
  <2>2. Len(Records(F)) \in Nat BY <2>1, LenProperties
  <2> QED BY <1>1, <2>1, <2>2 DEF Top
<1>3. ASSUME NEW k \in Nat, NEW p \in 1 .. N + k, ~ (p <= N)
      PROVE  /\ p \in Nat \ {0} /\ t <= p /\ p - t + 1 \in 1 .. n + k
             /\ ~ (p - t + 1 <= n) /\ (p - t + 1) - n = p - N
  <2>1. t + n = N + 1 /\ p \in Nat /\ p <= N + k /\ N + 1 <= p BY <1>2, <1>3
  <2>2. p \in Nat \ {0} BY <2>1
  <2>3. t <= p BY <2>1
  <2>4. p - t + 1 \in 1 .. n + k BY <2>1
  <2>5. ~ (p - t + 1 <= n) BY <2>1
  <2>6. (p - t + 1) - n = p - N
    <3>1. (p - t + 1) - n = p + 1 - (t + n) BY <2>1
    <3>2. p + 1 - (N + 1) = p - N BY <2>1
    <3> QED BY <2>1, <3>1, <3>2
  <2> QED BY <2>2, <2>3, <2>4, <2>5, <2>6
<1>8. PICK l \in Seq(Frame) : /\ l = Contents /\ Len(l) = Total
                              /\ \A p \in 1 .. Total : l[p] = Content(Owner(p))[p - Owner(p) + 1]
  BY ContentsFacts
<1>4. \A p \in 1 .. N : l[p] = log[p] BY <1>1, <1>8, ServedAgain
<1>5. Content(t) = Records(Recovered(files[t].cache)) /\ Total = t + Len(Content(t)) - 1
  BY DEF Content, Total
<1>6. CASE Recovered(files[t].cache) = F
  <2>1. Total = t + n - 1 BY <1>2, <1>5, <1>6
  <2>2. Len(l) = N BY <1>2, <1>8, <2>1
  <2>3. l = log BY <1>1, <1>4, <2>2, SeqEqual
  <2> QED BY <1>8, <2>3
<1>7. CASE Recovered(files[t].cache) # F
  <2>1. PICK k \in Nat : /\ Recovered(files[t].cache) = F \o G /\ Older(log, batches)
                         /\ Records(G) \in Seq(Frame) /\ Stamped(Records(G), batches, k)
    BY <1>7, WhichRecovered DEF Opening
  <2>2. PICK r \in Seq(Frame) : r = Records(G) /\ Stamped(r, batches, k) /\ Len(r) = k
    BY <2>1 DEF Stamped
  <2>3. PICK s \in Seq(Frame) :
          /\ s = Content(t) /\ Len(s) = n + k
          /\ \A i \in 1 .. n + k : s[i] = IF i <= n THEN a[i] ELSE r[i - n]
    <3>1. Records(F \o G) = Records(F) \o Records(G) BY LayoutConcat
    <3>2. Content(t) = a \o r BY <1>2, <1>5, <2>1, <2>2, <3>1
    <3>3. /\ Len(a \o r) = Len(a) + Len(r) /\ a \o r \in Seq(Frame)
          /\ \A i \in 1 .. Len(a) + Len(r) :
               (a \o r)[i] = IF i <= Len(a) THEN a[i] ELSE r[i - Len(a)]
      BY ConcatProperties
    <3> QED BY <1>2, <2>2, <3>2, <3>3, ZenonT(40)
  <2>4. Total = N + k
    <3>1. Total = t + (n + k) - 1 BY <1>5, <2>3
    <3>2. t + (n + k) - 1 = N + k
      <4>1. t + n = N + 1 BY <1>2
      <4>2. t \in Nat /\ n \in Nat /\ k \in Nat /\ N \in Nat OBVIOUS
      <4> QED BY ONLY <4>1, <4>2, ShiftBy
    <3> QED BY <3>1, <3>2
  <2>5. PICK h \in Seq(Frame) :
          /\ h = log \o r /\ Len(h) = N + k
          /\ \A i \in 1 .. N + k : h[i] = IF i <= N THEN log[i] ELSE r[i - N]
    <3>1. /\ Len(log \o r) = Len(log) + Len(r) /\ log \o r \in Seq(Frame)
          /\ \A i \in 1 .. Len(log) + Len(r) :
               (log \o r)[i] = IF i <= Len(log) THEN log[i] ELSE r[i - Len(log)]
      BY <1>1, ConcatProperties
    <3> QED BY <1>1, <2>2, <3>1
  <2>6. ASSUME NEW p \in 1 .. N + k PROVE l[p] = h[p]
    <3>1. CASE p <= N
      <4>1. p \in 1 .. N BY <3>1
      <4> QED BY <1>4, <2>5, <3>1, <4>1
    <3>2. CASE ~ (p <= N)
      <4>1. /\ p \in Nat \ {0} /\ t <= p /\ p - t + 1 \in 1 .. n + k
            /\ ~ (p - t + 1 <= n) /\ (p - t + 1) - n = p - N
        BY <1>3, <3>2
      <4>2. Owner(p) = t
        <5>1. PICK o \in Written : o = Owner(p) /\ \A x \in Written : x <= p => x <= o
          BY <4>1, OwnerFacts
        <5>2. o \in Nat /\ o <= t /\ t <= o BY <4>1, <5>1, HeldFacts
        <5> QED BY <5>1, <5>2
      <4>3. l[p] = s[p - t + 1] BY <1>8, <2>3, <2>4, <4>2
      <4>4. s[p - t + 1] = r[p - N] BY <2>3, <4>1
      <4> QED BY <2>5, <3>2, <4>3, <4>4
    <3> QED BY <3>1, <3>2
  <2>7. l = h BY <1>8, <2>4, <2>5, <2>6, SeqEqual
  <2> QED BY <1>8, <2>1, <2>2, <2>5, <2>7
<1> QED BY <1>6, <1>7

LEMMA OnceOpen == ASSUME Sound, OnceInv, OpenSet PROVE OnceInv'
<1>1. /\ pc = "down" /\ pc' = "idle" /\ Written # {} /\ log' = Contents
      /\ UNCHANGED <<drift, batch, flaws, batches, faults, crashes>> /\ Contiguous
  BY DEF OpenSet, Opens
<1>3. Started' /\ OnceDown' BY <1>1 DEF OnceInv, Started, Clean, InBatch, OnceDown
<1>4. ASSUME faults = 0, crashes <= 1 PROVE crashes = 1
  <2>1. crashes # 0 BY <1>1, <1>4 DEF OnceInv, NeverDown, Written
  <2>2. crashes \in Nat BY DEF OnceInv, Started
  <2> QED BY <1>4, <2>1, <2>2
<1>5. NeverDown'
  <2> SUFFICES ASSUME faults = 0, crashes = 0 PROVE FALSE
    BY <1>1 DEF NeverDown
  <2>1. crashes <= 1 OBVIOUS
  <2> QED BY <1>4, <2>1
<1>6. LogIsWhole'
  <2> SUFFICES ASSUME faults = 0, crashes <= 1
               PROVE  Contents \in Seq(Frame) /\ Whole(Contents) /\ Older(Contents, batches + 1)
    BY <1>1 DEF LogIsWhole, InBatch
  <2>a. LogInv BY <1>1, <1>4, CleanIsSound DEF Clean
  <2>b. Opening BY <1>1, <2>a DEF Opening
  <2>1. Whole(log) /\ Older(log, batches + 1) /\ log \in Seq(Frame) /\ batches \in Nat
    BY DEF OnceInv, LogIsWhole, Started
  <2>2. PICK t \in Nat : /\ Below(t)
                         /\ \A x \in DOMAIN files : x \notin Written => t < x
                         /\ \E F \in Seq(Frame) : \E G \in Seq(Frame) : Top(t, F, G)
    BY <1>1, <1>4 DEF OnceInv, OnceDown
  <2>c. \A p \in 1 .. Len(log) : Stored(p) BY <1>1, <1>4 DEF OnceInv, OnceDown
  <2>3. PICK F \in Seq(Frame), G \in Seq(Frame) : Top(t, F, G) BY <2>2
  <2>4. Max(Written) = t BY <1>1, <2>a, <2>2, <2>3, OnceAccepted
  <2>5. \/ Contents = log
        \/ \E k \in Nat : \E r \in Seq(Frame) :
             Older(log, batches) /\ Stamped(r, batches, k) /\ Contents = log \o r
    BY <2>b, <2>c, <2>2, <2>3, <2>4, OnceServed DEF Below
  <2>6. CASE Contents = log BY <2>1, <2>6
  <2>7. CASE Contents # log
    <3>1. PICK k \in Nat, r \in Seq(Frame) :
            Older(log, batches) /\ Stamped(r, batches, k) /\ Contents = log \o r
      BY <2>5, <2>7
    <3>2. Whole(log \o r) /\ Older(log \o r, batches + 1) BY <2>1, <3>1, WholeGrows
    <3>3. Contents \in Seq(Frame) BY <2>b, ContentsFacts
    <3> QED BY <3>1, <3>2, <3>3
  <2> QED BY <2>6, <2>7
<1> QED BY <1>3, <1>5, <1>6 DEF OnceInv

\* A refusal takes a second crash or a failed call.
LEMMA OnceRefused == ASSUME Sound, OnceInv, OpenRefused PROVE OnceInv'
<1>1. /\ pc = "down" /\ pc' = "refused" /\ Written # {}
      /\ ~ Opens \/ \E b \in Written \ {Max(Written)} : ~ StopsClean(files[b].cache)
      /\ UNCHANGED <<files, drift, batch, log, flaws, batches, faults, crashes>>
  BY DEF OpenRefused
<1>2. ~ (faults = 0 /\ crashes <= 1)
  <2> SUFFICES ASSUME faults = 0, crashes <= 1 PROVE FALSE
    OBVIOUS
  <2>1. crashes \in Nat /\ crashes # 0 BY <1>1 DEF OnceInv, Started, NeverDown, Written
  <2>2. crashes = 1 BY <2>1
  <2>a. LogInv BY <1>1, <2>2, CleanIsSound DEF Clean
  <2>3. PICK t \in Nat : /\ Below(t)
                         /\ \A x \in DOMAIN files : x \notin Written => t < x
                         /\ \E F \in Seq(Frame) : \E G \in Seq(Frame) : Top(t, F, G)
    BY <1>1, <2>2 DEF OnceInv, OnceDown
  <2>4. PICK F \in Seq(Frame), G \in Seq(Frame) : Top(t, F, G) BY <2>3
  <2>5. Opens /\ \A b \in Written \ {Max(Written)} : StopsClean(files[b].cache)
    BY <1>1, <2>a, <2>3, <2>4, OnceAccepted
  <2> QED BY <1>1, <2>5
<1>3. Started' /\ OnceDown' BY <1>1 DEF OnceInv, Started, Clean, InBatch, OnceDown
<1>4. LogIsWhole' BY <1>1, <1>2 DEF LogIsWhole
<1>5. NeverDown'
  <2>1. ~ (faults = 0 /\ crashes = 0)
    <3>1. crashes = 0 => crashes <= 1 OBVIOUS
    <3> QED BY <1>2, <3>1
  <2> QED BY <1>1, <2>1 DEF NeverDown
<1> QED BY <1>3, <1>4, <1>5 DEF OnceInv

LEMMA OnceStutter == ASSUME Sound, OnceInv, UNCHANGED vars PROVE OnceInv'
<1>1. UNCHANGED <<files, pc, base, offset, drift, log, batch, flaws, batches, faults, crashes>>
  BY DEF vars
<1>2. Written' = Written /\ \A t : Below(t) => Below(t)' BY <1>1, FilesSame
<1>3. \A t : \A F \in Seq(Frame) : \A G \in Seq(Frame) : Top(t, F, G) => Top(t, F, G)'
  <2> SUFFICES ASSUME NEW t, NEW F \in Seq(Frame), NEW G \in Seq(Frame), Top(t, F, G)
               PROVE  Top(t, F, G)'
    OBVIOUS
  <2>1. Shaped(G) => Shaped(G)' BY <1>1 DEF Shaped, Frames
  <2> QED BY <1>1, <2>1 DEF Top
<1>4. Started' /\ LogIsWhole'
  <2>1. Shaped(batch) => Shaped(batch)' BY <1>1 DEF Shaped, Frames
  <2> QED BY <1>1, <2>1 DEF OnceInv, Started, Clean, LogIsWhole, InBatch, NextPosition
<1>5. NeverDown'
  <2> SUFFICES ASSUME faults = 0, crashes = 0
               PROVE  /\ pc = "down" => DOMAIN files = {}
                      /\ \A b \in Written : files[b].firm
                      /\ IsOpen => /\ Below(base)'
                                   /\ \A x \in DOMAIN files : x \notin Written =>
                                        pc = "header" /\ x = NextPosition
                                   /\ \E F \in Seq(Frame) :
                                        Top(base, F, Behind)' /\ Size(F) = offset
    BY <1>1, <1>2 DEF NeverDown, IsOpen, NextPosition
  <2> SUFFICES ASSUME IsOpen
               PROVE  Below(base)' /\ \E F \in Seq(Frame) : Top(base, F, Behind)' /\ Size(F) = offset
    BY DEF OnceInv, NeverDown
  <2>1. Below(base) /\ \E F \in Seq(Frame) : Top(base, F, Behind) /\ Size(F) = offset
    BY DEF OnceInv, NeverDown
  <2>2. PICK F \in Seq(Frame) : Top(base, F, Behind) /\ Size(F) = offset BY <2>1
  <2>3. PICK G : G = Behind /\ G \in Seq(Frame)
    <3>1. LogInv BY CleanIsSound DEF Clean
    <3> QED BY <3>1, EmptySeq DEF Behind, LogInv, Types
  <2>4. PICK b : b = base OBVIOUS
  <2>5. Top(b, F, G)' /\ Below(b)' BY <1>2, <1>3, <2>1, <2>2, <2>3, <2>4
  <2>6. Behind' = G /\ base' = b BY <1>1, <2>3, <2>4 DEF Behind
  <2>7. Top(base, F, Behind)' /\ Below(base)' BY <2>5, <2>6 DEF Top, Below
  <2> QED BY <2>2, <2>7
<1>6. OnceDown'
  <2>1. \A p : Stored(p) => Stored(p)'
    BY <1>1, <1>2 DEF Stored, Safe, Kept, Serves
  <2> QED BY <1>1, <1>2, <1>3, <2>1 DEF OnceInv, OnceDown
<1> QED BY <1>4, <1>5, <1>6 DEF OnceInv

LEMMA OnceAlways == Spec => []OnceInv
<1>1. Sound /\ OnceInv /\ [Next]_vars => OnceInv'
  <2> SUFFICES ASSUME Sound, OnceInv, [Next]_vars PROVE OnceInv'
    OBVIOUS
  <2>1. CASE Begin BY <2>1, OnceBegin
  <2>2. CASE CreateFile BY <2>2, OnceCreate
  <2>3. CASE CreateExists BY <2>3, OnceExists
  <2>4. CASE \/ CreateFails \/ HeaderFails \/ WriteFails \/ FirstWriteFails \/ RewindFails
             \/ SyncFails
    BY <2>4, OnceFailed
  <2>5. CASE WriteHeader BY <2>5, OnceHeader
  <2>6. CASE WriteBatch BY <2>6, OnceWrite
  <2>7. CASE SyncBatch BY <2>7, OnceSync
  <2>8. CASE Kill \/ PowerLoss BY <2>8, OnceCrash
  <2>9. CASE OpenFresh BY <2>9, OnceFresh
  <2>10. CASE FirstHeader BY <2>10, OnceFirst
  <2>11. CASE OpenSet BY <2>11, OnceOpen
  <2>12. CASE OpenRefused BY <2>12, OnceRefused
  <2>13. CASE UNCHANGED vars BY <2>13, OnceStutter
  <2> QED BY <2>1, <2>2, <2>3, <2>4, <2>5, <2>6, <2>7, <2>8, <2>9, <2>10, <2>11, <2>12,
             <2>13 DEF Next
<1> QED BY <1>1, OnceInit, LogAlways, PTL DEF Spec

\* As long as no call has failed and there was at most one kill or power loss, at any point of
\* append_batch, rollover or open and whatever part of the unsynced cells it kept: the log serves
\* every batch whole, in one piece, or not at all.
THEOREM OneCrashIsWhole == Spec => []OneCrashKeepsBatchesWhole
<1>1. OnceInv => OneCrashKeepsBatchesWhole
  <2> SUFFICES ASSUME OnceInv, crashes <= 1, faults = 0 PROVE BatchesAreWhole
    BY DEF OneCrashKeepsBatchesWhole
  <2>1. Whole(log) /\ log \in Seq(Frame) BY DEF OnceInv, LogIsWhole
  <2> QED BY <2>1, WholeMeans
<1> QED BY <1>1, OnceAlways, PTL

\* As long as no call has failed and there was at most one kill or power loss, open accepts the
\* directory: the unwritten file is the last one, the base positions are contiguous, the last
\* marker agrees, and every sealed segment is read to a clean end.
THEOREM OneCrashOpens == Spec => []OneCrashReopens
<1>1. OnceInv => OneCrashReopens BY DEF OnceInv, LogIsWhole, OneCrashReopens
<1> QED BY <1>1, OnceAlways, PTL
=============================================================================

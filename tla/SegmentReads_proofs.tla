------------------------- MODULE SegmentReads_proofs -------------------------
\* Proofs about SegmentReads, for segments, batches, buffers and windows of every size.
EXTENDS SegmentReads, WellFoundedInduction, SequenceTheorems, TLAPS


--------------------
\* Induction over numbers, as the existence of least elements.

\* A nonempty set of numbers has a least element.
LEMMA NatLeast ==
    ASSUME NEW T, T \subseteq Nat, T # {}
    PROVE  \E n \in T : \A m \in T : n <= m
<1> DEFINE R == OpToRel(<, Nat)
<1>1. IsWellFoundedOn(R, Nat) BY NatLessThanWellFounded
<1>2. PICK n \in T : \A m \in T : ~ (<<m, n>> \in R)
  <2> HIDE DEF R
  <2> QED BY <1>1, WFMin
<1>3. \A a, b \in Nat : <<a, b>> \in R <=> a < b BY DEF OpToRel
<1>4. n \in Nat OBVIOUS
<1>5. ASSUME NEW m \in T PROVE n <= m
  <2> HIDE DEF R
  <2>1. ~ (m < n) BY <1>2, <1>3
  <2> QED BY <2>1, <1>4
<1> QED BY <1>5

\* A set of numbers that holds 0 and every successor up to n holds n.
LEMMA UpTo ==
    ASSUME NEW T, NEW n \in Nat, 0 \in T,
           \A i \in Nat : i < n /\ i \in T => i + 1 \in T
    PROVE  \A i \in 0 .. n : i \in T
<1> DEFINE Bad == {i \in 0 .. n : i \notin T}
<1> SUFFICES ASSUME Bad # {} PROVE FALSE
  OBVIOUS
<1>1. Bad \subseteq Nat OBVIOUS
<1>2. PICK i \in Bad : \A m \in Bad : i <= m
  <2> HIDE DEF Bad
  <2> QED BY <1>1, NatLeast
<1>3. i \in 0 .. n /\ i \notin T /\ i # 0 OBVIOUS
<1>4. i - 1 \in Nat /\ i - 1 < n /\ i - 1 \in 0 .. n /\ (i - 1) + 1 = i /\ ~ (i <= i - 1)
  BY <1>3
<1>5. i - 1 \notin T BY <1>3, <1>4
<1>6. i - 1 \in Bad BY <1>4, <1>5
<1> QED BY <1>2, <1>4, <1>6

\* Min of a set of numbers, and Max of a bounded one.
LEMMA MinIsLeast ==
    ASSUME NEW T, T \subseteq Nat, T # {}
    PROVE  Min(T) \in T /\ \A x \in T : Min(T) <= x
BY NatLeast DEF Min

LEMMA MaxIsGreatest ==
    ASSUME NEW T, T \subseteq Nat, T # {}, NEW n \in Nat, \A x \in T : x <= n
    PROVE  Max(T) \in T /\ \A x \in T : x <= Max(T)
<1> DEFINE Bounds == {m \in Nat : \A x \in T : x <= m}
<1>1. PICK m \in Bounds : \A k \in Bounds : m <= k
  <2>1. Bounds \subseteq Nat /\ n \in Bounds OBVIOUS
  <2> HIDE DEF Bounds
  <2> QED BY <2>1, NatLeast
<1>2. m \in Nat /\ \A x \in T : x <= m OBVIOUS
<1>3. m \in T
  <2> SUFFICES ASSUME m \notin T PROVE FALSE
    OBVIOUS
  <2>1. PICK t \in T : TRUE OBVIOUS
  <2>2. t \in Nat /\ t <= m /\ t # m BY <1>2
  <2>3. m - 1 \in Nat /\ ~ (m <= m - 1) BY <1>2, <2>2
  <2>4. \A x \in T : x <= m - 1
    <3> SUFFICES ASSUME NEW x \in T PROVE x <= m - 1
      OBVIOUS
    <3>1. x \in Nat /\ x <= m /\ x # m BY <1>2
    <3> QED BY <3>1, <1>2
  <2>5. m - 1 \in Bounds BY <2>3, <2>4
  <2> HIDE DEF Bounds
  <2> QED BY <1>1, <2>3, <2>5
<1>4. \A x \in T : m >= x BY <1>2
<1>5. \E x \in T : \A y \in T : x >= y BY <1>3, <1>4
<1>6. Max(T) \in T /\ \A y \in T : Max(T) >= y BY <1>5 DEF Max
<1> QED BY <1>6

--------------------
\* FlattenSeq. Its recursive function, whose existence comes first.
Chain(f, ss, n) == f = [i \in 1 .. n |-> IF i = 1 THEN ss[i] ELSE f[i - 1] \o ss[i]]

LEMMA ChainAt ==
    ASSUME NEW ss, NEW n \in Nat, NEW f, Chain(f, ss, n), NEW i \in 1 .. n
    PROVE  f[i] = IF i = 1 THEN ss[i] ELSE f[i - 1] \o ss[i]
<1> DEFINE g == [k \in 1 .. n |-> IF k = 1 THEN ss[k] ELSE f[k - 1] \o ss[k]]
<1>1. f = g BY DEF Chain
<1>2. g[i] = IF i = 1 THEN ss[i] ELSE f[i - 1] \o ss[i] OBVIOUS
<1> HIDE DEF g
<1> QED BY <1>1, <1>2

LEMMA ChainExists ==
    ASSUME NEW ss, NEW n \in Nat
    PROVE  \E f : Chain(f, ss, n)
<1> DEFINE T == {m \in Nat : \E f : Chain(f, ss, m)}
<1>1. 0 \in T
  <2> DEFINE e == [i \in 1 .. 0 |-> 0]
  <2>1. 1 .. 0 = {} OBVIOUS
  <2>2. e = [i \in 1 .. 0 |-> IF i = 1 THEN ss[i] ELSE e[i - 1] \o ss[i]] BY <2>1
  <2>3. Chain(e, ss, 0) BY <2>2 DEF Chain
  <2> QED BY <2>3
<1>2. ASSUME NEW m \in Nat, m \in T PROVE m + 1 \in T
  <2>1. PICK f : Chain(f, ss, m) BY <1>2
  <2> DEFINE x == IF m + 1 = 1 THEN ss[m + 1] ELSE f[m] \o ss[m + 1]
  <2> DEFINE g == [i \in 1 .. m + 1 |-> IF i = m + 1 THEN x ELSE f[i]]
  <2>2. \A i \in 1 .. m : g[i] = f[i] OBVIOUS
  <2>3. g[m + 1] = x OBVIOUS
  <2>4. ASSUME NEW i \in 1 .. m + 1
        PROVE  (IF i = m + 1 THEN x ELSE f[i]) = IF i = 1 THEN ss[i] ELSE g[i - 1] \o ss[i]
    <3>1. CASE i = m + 1
      <4>1. CASE i = 1 BY <3>1, <4>1
      <4>2. CASE i # 1
        <5>1. i - 1 = m /\ m \in 1 .. m /\ m + 1 # 1 BY <3>1, <4>2
        <5>2. g[i - 1] = f[m] BY <5>1, <2>2
        <5> HIDE DEF g
        <5> QED BY <3>1, <4>2, <5>1, <5>2
      <4> QED BY <4>1, <4>2
    <3>2. CASE i # m + 1
      <4>1. i \in 1 .. m BY <3>2
      <4>2. f[i] = IF i = 1 THEN ss[i] ELSE f[i - 1] \o ss[i] BY <2>1, <4>1, ChainAt
      <4>3. i # 1 => i - 1 \in 1 .. m BY <4>1
      <4>4. i # 1 => g[i - 1] = f[i - 1] BY <4>3, <2>2
      <4> HIDE DEF g
      <4> QED BY <3>2, <4>2, <4>4
    <3> QED BY <3>1, <3>2
  <2> DEFINE h == [i \in 1 .. m + 1 |-> IF i = 1 THEN ss[i] ELSE g[i - 1] \o ss[i]]
  <2>5. g = h
    <3>1. \A i \in 1 .. m + 1 : h[i] = IF i = 1 THEN ss[i] ELSE g[i - 1] \o ss[i] OBVIOUS
    <3>2. \A i \in 1 .. m + 1 : g[i] = IF i = m + 1 THEN x ELSE f[i] OBVIOUS
    <3>3. \A i \in 1 .. m + 1 : g[i] = h[i]
      <4> HIDE DEF g, h, x
      <4> QED BY <2>4, <3>1, <3>2
    <3> QED BY <3>3
  <2>6. Chain(g, ss, m + 1) BY <2>5 DEF Chain
  <2> HIDE DEF g
  <2> QED BY <2>6
<1>3. \A i \in 0 .. n : i \in T
  <2> HIDE DEF T
  <2> QED BY <1>1, <1>2, UpTo
<1> QED BY <1>3

LEMMA FlattenChain ==
    ASSUME NEW ss, Len(ss) \in Nat \ {0}
    PROVE  \E f : Chain(f, ss, Len(ss)) /\ FlattenSeq(ss) = f[Len(ss)]
<1> DEFINE n == Len(ss)
<1> DEFINE C(g) == g = [i \in 1 .. n |-> IF i = 1 THEN ss[i] ELSE g[i - 1] \o ss[i]]
<1> DEFINE g == CHOOSE g : C(g)
<1>1. \E f : C(f) BY ChainExists DEF Chain
<1>2. C(g)
  <2> HIDE DEF C
  <2> QED BY <1>1
<1>3. FlattenSeq(ss) = g[n] BY DEF FlattenSeq
<1>4. Chain(g, ss, n) BY <1>2 DEF Chain
<1> QED BY <1>3, <1>4

\* Chains of sequences are sequences, and depend on what they chain only.
LEMMA ChainType ==
    ASSUME NEW S, NEW ss \in Seq(Seq(S)), NEW f, Chain(f, ss, Len(ss))
    PROVE  \A i \in 1 .. Len(ss) : f[i] \in Seq(S)
<1> DEFINE T == {m \in Nat : m = 0 \/ f[m] \in Seq(S)}
<1>1. 0 \in T OBVIOUS
<1>2. ASSUME NEW m \in Nat, m < Len(ss), m \in T PROVE m + 1 \in T
  <2>1. m + 1 \in 1 .. Len(ss) /\ (m + 1) - 1 = m BY <1>2
  <2>2. f[m + 1] = IF m + 1 = 1 THEN ss[m + 1] ELSE f[m] \o ss[m + 1] BY <2>1, ChainAt
  <2>3. ss[m + 1] \in Seq(S) BY <2>1
  <2>4. m + 1 # 1 => f[m] \in Seq(S) BY <1>2
  <2>5. f[m + 1] \in Seq(S) BY <2>2, <2>3, <2>4, ConcatProperties
  <2> QED BY <2>5
<1>3. \A i \in 0 .. Len(ss) : i \in T
  <2> HIDE DEF T
  <2> QED BY <1>1, <1>2, UpTo, LenProperties
<1> QED BY <1>3

Same(s, t, n) == \A i \in 1 .. n : s[i] = t[i]

LEMMA ChainSame ==
    ASSUME NEW ss, NEW tt, NEW n \in Nat, NEW m \in Nat, NEW f, NEW g,
           Chain(f, ss, n), Chain(g, tt, m),
           n <= m, Same(ss, tt, n)
    PROVE  Same(f, g, n)
<1> DEFINE T == {k \in Nat : k = 0 \/ f[k] = g[k]}
<1>1. 0 \in T OBVIOUS
<1>2. ASSUME NEW k \in Nat, k < n, k \in T PROVE k + 1 \in T
  <2>1. k + 1 \in 1 .. n /\ k + 1 \in 1 .. m /\ (k + 1) - 1 = k BY <1>2
  <2>2. f[k + 1] = IF k + 1 = 1 THEN ss[k + 1] ELSE f[k] \o ss[k + 1] BY <2>1, ChainAt
  <2>3. g[k + 1] = IF k + 1 = 1 THEN tt[k + 1] ELSE g[k] \o tt[k + 1] BY <2>1, ChainAt
  <2>4. k + 1 # 1 => f[k] = g[k] BY <1>2
  <2>5. f[k + 1] = g[k + 1] BY <2>1, <2>2, <2>3, <2>4 DEF Same
  <2> QED BY <2>5
<1>3. \A i \in 0 .. n : i \in T
  <2> HIDE DEF T
  <2> QED BY <1>1, <1>2, UpTo
<1> QED BY <1>3 DEF Same

\* FlattenSeq of nothing, its type, and of one sequence more.
LEMMA FlattenEmpty == FlattenSeq(<<>>) = <<>>
BY DEF FlattenSeq

LEMMA FlattenType ==
    ASSUME NEW S, NEW ss \in Seq(Seq(S))
    PROVE  FlattenSeq(ss) \in Seq(S)
<1>1. Len(ss) \in Nat BY LenProperties
<1>2. CASE Len(ss) = 0
  <2>1. ss = <<>> BY <1>2, EmptySeq
  <2> QED BY <2>1, FlattenEmpty, EmptySeq
<1>3. CASE Len(ss) # 0
  <2>1. PICK f : Chain(f, ss, Len(ss)) /\ FlattenSeq(ss) = f[Len(ss)]
    BY <1>1, <1>3, FlattenChain
  <2>2. Len(ss) \in 1 .. Len(ss) BY <1>1, <1>3
  <2>3. f[Len(ss)] \in Seq(S) BY <2>1, <2>2, ChainType
  <2> QED BY <2>1, <2>3
<1> QED BY <1>2, <1>3

LEMMA FlattenLonger ==
    ASSUME NEW S, NEW ss \in Seq(Seq(S)), NEW tt \in Seq(Seq(S)),
           NEW n \in Nat, NEW m \in Nat, Len(ss) = n, Len(tt) = m, m = n + 1,
           Same(ss, tt, n)
    PROVE  FlattenSeq(tt) = FlattenSeq(ss) \o tt[m]
<1>1. PICK g : Chain(g, tt, m) /\ FlattenSeq(tt) = g[m] BY FlattenChain, SMTT(40)
<1>2. m \in 1 .. m /\ m - 1 = n OBVIOUS
<1>3. g[m] = IF m = 1 THEN tt[m] ELSE g[n] \o tt[m] BY <1>1, <1>2, ChainAt
<1>4. CASE n = 0
  <2>1. ss = <<>> BY <1>4, EmptySeq
  <2>2. tt[m] \in Seq(S) BY <1>2
  <2>3. <<>> \o tt[m] = tt[m] BY <2>2, ConcatEmptySeq
  <2> QED BY <1>1, <1>3, <1>4, <2>1, <2>3, FlattenEmpty
<1>5. CASE n # 0
  <2>1. PICK f : Chain(f, ss, n) /\ FlattenSeq(ss) = f[n] BY <1>5, FlattenChain
  <2>2. n <= m /\ n \in 1 .. n /\ m # 1 BY <1>5
  <2>3. Same(f, g, n) BY <1>1, <2>1, <2>2, ChainSame
  <2>4. f[n] = g[n] BY <2>2, <2>3 DEF Same
  <2> QED BY <1>1, <1>3, <2>1, <2>2, <2>4
<1> QED BY <1>4, <1>5

--------------------
\* Types.
Frame == [kind : {"data", "commit", "zero"}, batch : Nat, index : Nat, len : Nat]

CellType == [frame : Frame, nth : Nat]

SegmentType ==
    [base : Nat \ {0}, cells : [0 .. SegmentSize - 1 -> CellType],
     flushed : HeaderSize .. SegmentSize, offsets : Seq(Nat)]

WriterType ==
    [pc : {"idle", "write", "sidecar", "publish"}, offset : Nat, drift : Nat,
     shape : Shapes \cup {<<>>}, put : Nat, rolled : BOOLEAN]

ReadType ==
    [pc : {"none", "pin", "start", "next", "peek", "head", "record", "segment", "count",
           "window", "emit", "point", "payload", "check", "done"},
     kind : Kinds, live : BOOLEAN, want : Seq(Nat), view : Nat, seg : Nat, off : Nat,
     ext : Nat, count : Nat, lo : Nat, buf : [at : Nat, cells : Seq(CellType)],
     out : Seq(Frame), end : {"open", "clean", "error"}]

--------------------
\* What a segment s holds of the log L. Bound(s) is the position behind its last record, Off(s, p)
\* the cell of the record at position p, and Spot(s, L, p) the same, or the cell behind the last
\* marker for p the bound.
Bound(s) == s.base + Len(s.offsets)

Off(s, p) == s.offsets[p - s.base + 1]

Behind(s, L, p) == Off(s, p) + L[p].len

Spot(s, L, p) ==
    IF p < Bound(s) THEN Off(s, p)
    ELSE IF p = s.base THEN HeaderSize
    ELSE Behind(s, L, p - 1) + MarkerLen

MarkerAt(s, c) ==
    /\ s.cells[c].nth = 1
    /\ s.cells[c].frame.kind = "commit" /\ s.cells[c].frame.len = MarkerLen

RecordAt(s, c, frame) == \A j \in 1 .. frame.len : s.cells[c + j - 1] = [frame |-> frame, nth |-> j]

\* The record at p is stored whole below the flushed offset, and right behind it, or behind the
\* marker that follows it, is the next one.
Linked(s, L, p) ==
    \/ Spot(s, L, p + 1) = Behind(s, L, p)
    \/ Spot(s, L, p + 1) = Behind(s, L, p) + MarkerLen /\ MarkerAt(s, Behind(s, L, p))

Stored(s, L, p) ==
    /\ Off(s, p) >= HeaderSize
    /\ L[p].kind = "data" /\ L[p].len >= 1
    /\ RecordAt(s, Off(s, p), L[p])
    /\ Behind(s, L, p) + MarkerLen <= s.flushed
    /\ Linked(s, L, p)

Positions(s) == s.base .. Bound(s) - 1

SegmentOK(s, L) ==
    /\ s \in SegmentType
    /\ Bound(s) <= Len(L) + 1
    /\ Spot(s, L, s.base) = HeaderSize
    /\ \A p \in Positions(s) : Stored(s, L, p)
    /\ \A p, q \in Positions(s) : p < q => Behind(s, L, p) <= Off(s, q)

\* Of a sealed segment a reader that goes on past the data finds the flushed offset or zeroes.
SealedOK(s, L) ==
    \A c \in Spot(s, L, Bound(s)) .. s.flushed - 1 : s.cells[c] = Zero

\* The segments hold consecutive runs of positions.
LastBound(S) == Bound(S[Len(S)])

SegmentsOK(S, L) ==
    /\ S \in Seq(SegmentType) /\ S # <<>>
    /\ L \in Seq(Frame)
    /\ S[1].base = 1
    /\ \A i \in 1 .. Len(S) : SegmentOK(S[i], L)
    /\ \A i \in 1 .. Len(S) - 1 : SealedOK(S[i], L) /\ S[i + 1].base = Bound(S[i])

\* The writer and the active segment s.
PendingIn(s, w, n) ==
    \A j \in 1 .. w.put : s.cells[w.offset + j - 1] = Layout(n, w.shape)[j]

WriterOK(w, s, L, n) ==
    /\ w \in WriterType /\ n \in Nat
    /\ Bound(s) - 1 + (IF w.pc = "sidecar" THEN Len(w.shape) ELSE 0) = Len(L)
    /\ Spot(s, L, Bound(s)) = w.offset + IF w.pc = "publish" THEN Len(Layout(n, w.shape)) ELSE 0
    /\ s.flushed = w.offset + IF w.pc \in {"sidecar", "publish"} THEN Len(Layout(n, w.shape)) ELSE 0
    /\ w.pc # "idle" => /\ w.shape \in Shapes
                        /\ w.offset + Len(Layout(n, w.shape)) <= SegmentSize
                        /\ w.put <= Len(Layout(n, w.shape))
    /\ w.pc \in {"write", "sidecar"} /\ w.drift = 0 => PendingIn(s, w, n)
    /\ w.pc = "sidecar" =>
        /\ w.drift = 0
        /\ w.put = Len(Layout(n, w.shape))
        /\ \A i \in 1 .. Len(w.shape) : L[Bound(s) - 1 + i] = Record(n, i, w.shape[i])

\* What is published.
PublishedOK ==
    /\ snap \in 1 .. Len(segs)
    /\ watermark \in 0 .. LastBound(segs) - 1
    /\ lost \in BOOLEAN
    /\ ~ lost => \/ snap = Len(segs)
                 \/ /\ writer.pc # "idle" /\ writer.rolled
                    /\ snap = Len(segs) - 1
                    /\ watermark < segs[Len(segs)].base

--------------------
\* The read r of the segments S that hold the log L.
Holds(s, p) == p \in Positions(s)

At(r) == r.want[Len(r.out) + 1]

More(r) == Len(r.out) < Len(r.want)

WantOK(r, S) ==
    /\ \A m \in 1 .. Len(r.want) : r.want[m] \in 1 .. LastBound(S) - 1
    /\ r.kind = "forward" => \A m \in 1 .. Len(r.want) : r.want[m] = r.want[1] + m - 1
    /\ r.kind = "back" => \A m \in 1 .. Len(r.want) : r.want[m] + m = r.want[1] + 1

OutOK(r, L) ==
    /\ Len(r.out) <= Len(r.want)
    /\ \A m \in 1 .. Len(r.out) : r.out[m] = L[r.want[m]]

\* The buffer is stale only behind every record the read wants.
Sound(r, S, L, c) ==
    \E m \in 1 .. Len(r.want) :
        \/ Holds(S[r.seg], r.want[m]) /\ c < Behind(S[r.seg], L, r.want[m])
        \/ r.seg < Len(S) /\ r.want[m] >= S[r.seg + 1].base

BufOK(r, S, L) ==
    r.seg # 0 =>
        \A i \in 1 .. Len(r.buf.cells) :
            Sound(r, S, L, r.buf.at + i - 1) =>
                r.buf.cells[i] = S[r.seg].cells[r.buf.at + i - 1]

\* The view holds what the read wants.
Covers(r, S) ==
    \/ r.view = Len(S)
    \/ r.view < Len(S) /\ \A m \in 1 .. Len(r.want) : r.want[m] < S[r.view + 1].base

\* Where each step of a read finds it.
AtSpot(r, s, L) ==
    /\ At(r) \in s.base .. Bound(s)
    /\ \/ r.off = Spot(s, L, At(r))
       \/ r.off + MarkerLen = Spot(s, L, At(r)) /\ MarkerAt(s, r.off)

AtRecord(r, s) == Holds(s, At(r)) /\ r.off = Off(s, At(r))

ExtentOK(r, S, L) ==
    /\ r.ext <= S[r.seg].flushed
    /\ \A m \in 1 .. Len(r.want) :
        /\ Holds(S[r.seg], r.want[m]) => Behind(S[r.seg], L, r.want[m]) <= r.ext
        /\ r.seg < Len(S) /\ r.want[m] >= S[r.seg + 1].base => r.ext = S[r.seg].flushed

WindowOK(r, s, L) ==
    r.lo # 0 =>
        \A m \in Len(r.out) + 1 .. Len(r.want) :
            r.want[m] >= r.lo =>
                /\ Holds(s, r.want[m])
                /\ r.buf.at <= Off(s, r.want[m])
                /\ Behind(s, L, r.want[m]) <= r.buf.at + Len(r.buf.cells)

InSegment(r, S) == r.seg \in 1 .. r.view /\ r.view <= Len(S)

ForwardOK(r, S, L) ==
    /\ r.pc \in {"next", "peek", "head", "record"} => r.kind = "forward" /\ InSegment(r, S)
    /\ r.pc = "next" /\ More(r) => AtSpot(r, S[r.seg], L)
    /\ r.pc \in {"peek", "head"} => More(r) /\ AtSpot(r, S[r.seg], L)
    /\ r.pc = "head" => ExtentOK(r, S, L)
    /\ r.pc = "record" => /\ More(r) /\ AtRecord(r, S[r.seg])
                          /\ InBuf(r.buf, r.off, 1)

BackOK(r, S, L, all) ==
    /\ r.pc \in {"segment", "count", "window", "emit"} => r.kind = "back"
    /\ r.pc = "segment" => r.view <= Len(S) /\ r.seg \in 0 .. r.view
    /\ r.pc \in {"count", "window", "emit"} => InSegment(r, S) /\ More(r)
    /\ r.pc = "count" => r.lo = 0
    /\ r.pc \in {"segment", "count", "window", "emit"} /\ r.seg # 0 =>
        ExtentOK(r, S, L) /\ WindowOK(r, S[r.seg], L)
    /\ r.pc \in {"segment", "window", "emit"} /\ r.seg # 0 => r.count <= Len(S[r.seg].offsets)
    /\ r.pc = "segment" /\ r.seg # 0 /\ More(r) =>
        (At(r) >= S[r.seg].base => Holds(S[r.seg], At(r)))
    /\ r.pc \in {"count", "window", "emit"} /\ all => Holds(S[r.seg], At(r))
    /\ r.pc = "emit" => r.lo # 0 /\ At(r) >= r.lo

PointOK(r, S, L) ==
    /\ r.pc = "pin" => r.seg = 0
    /\ r.pc = "start" => r.view <= Len(S) /\ r.seg \in 0 .. r.view
    /\ r.pc = "start" /\ r.kind # "indexed" => r.seg = 0
    /\ r.pc \in {"point", "payload", "check"} =>
        /\ r.kind = "indexed" /\ InSegment(r, S) /\ More(r) /\ AtRecord(r, S[r.seg])
    /\ r.pc \in {"payload", "check"} => r.buf.at = r.off /\ Len(r.buf.cells) >= 1
    /\ r.pc = "check" => Len(r.buf.cells) >= L[At(r)].len

ReadOK(r, S, L, all) ==
    /\ r \in ReadType
    /\ WantOK(r, S) /\ OutOK(r, L) /\ BufOK(r, S, L)
    /\ r.seg <= Len(S)
    /\ ForwardOK(r, S, L) /\ BackOK(r, S, L, all) /\ PointOK(r, S, L)
    /\ (r.end = "open") <=> (r.pc # "done")
    /\ all => /\ r.pc \notin {"none", "pin", "done"} => Covers(r, S)
              /\ r.end # "error"
              /\ r.end = "clean" => ~ More(r)

PinnedOK == rd.pc = "pin" => \A m \in 1 .. Len(rd.want) : rd.want[m] <= watermark

Inv ==
    /\ SegmentsOK(segs, log)
    /\ WriterOK(writer, segs[Len(segs)], log, batches)
    /\ PublishedOK
    /\ ReadOK(rd, segs, log, ~ lost)
    /\ PinnedOK

--------------------
\* The cells of a batch. Pre(n, shape, i) are those of its first i records.
Lists(n, shape, i) == [j \in 1 .. i |-> CellsOf(Record(n, j, shape[j]))]

Pre(n, shape, i) == FlattenSeq(Lists(n, shape, i))

LEMMA CellsOfType ==
    ASSUME NEW f \in Frame
    PROVE  /\ CellsOf(f) \in Seq(CellType) /\ Len(CellsOf(f)) = f.len
           /\ \A k \in 1 .. f.len : CellsOf(f)[k] = [frame |-> f, nth |-> k]
<1>1. f.len \in Nat BY DEF Frame
<1>2. \A k \in 1 .. f.len : [frame |-> f, nth |-> k] \in CellType BY <1>1 DEF CellType
<1> QED BY <1>1, <1>2 DEF CellsOf

LEMMA FrameTypes ==
    ASSUME NEW n \in Nat
    PROVE  /\ Marker(n) \in Frame
           /\ \A i, len \in Nat : Record(n, i, len) \in Frame
BY ReadsAssumption DEF Marker, Record, Frame

LEMMA ShapeType ==
    ASSUME NEW shape \in Shapes
    PROVE  /\ shape \in Seq(Nat \ {0}) /\ Len(shape) \in Nat \ {0}
           /\ \A i \in 1 .. Len(shape) : shape[i] \in Nat \ {0}
           /\ DOMAIN shape = 1 .. Len(shape)
<1>1. shape \in Seq(Nat \ {0}) /\ shape # <<>> BY ReadsAssumption
<1>2. Len(shape) \in Nat /\ DOMAIN shape = 1 .. Len(shape) BY <1>1, LenProperties
<1>3. Len(shape) # 0 BY <1>1, EmptySeq
<1>4. \A i \in 1 .. Len(shape) : shape[i] \in Nat \ {0} BY <1>1, ElementOfSeq
<1> QED BY <1>1, <1>2, <1>3, <1>4

LEMMA ListsType ==
    ASSUME NEW n \in Nat, NEW shape \in Shapes, NEW i \in 0 .. Len(shape)
    PROVE  /\ Lists(n, shape, i) \in Seq(Seq(CellType)) /\ Len(Lists(n, shape, i)) = i
           /\ \A j \in 1 .. i : Lists(n, shape, i)[j] = CellsOf(Record(n, j, shape[j]))
<1>1. \A j \in 1 .. i : CellsOf(Record(n, j, shape[j])) \in Seq(CellType)
  <2> SUFFICES ASSUME NEW j \in 1 .. i PROVE CellsOf(Record(n, j, shape[j])) \in Seq(CellType)
    OBVIOUS
  <2>1. shape[j] \in Nat /\ j \in Nat BY ShapeType
  <2>2. Record(n, j, shape[j]) \in Frame BY <2>1, FrameTypes
  <2> QED BY <2>2, CellsOfType
<1>2. i \in Nat BY ShapeType
<1> QED BY <1>1, <1>2 DEF Lists

LEMMA PreOfPrefix ==
    ASSUME NEW n \in Nat, NEW shape \in Shapes, NEW i \in 0 .. Len(shape)
    PROVE  RecordCells(n, SubSeq(shape, 1, i)) = Pre(n, shape, i)
<1>1. /\ DOMAIN SubSeq(shape, 1, i) = 1 .. i
      /\ \A j \in 1 .. i : SubSeq(shape, 1, i)[j] = shape[j]
  <2>1. Len(shape) \in Nat BY ShapeType
  <2> QED BY <2>1, ShapeType
<1>2. [j \in 1 .. i |-> CellsOf(Record(n, j, SubSeq(shape, 1, i)[j]))] = Lists(n, shape, i)
  BY <1>1 DEF Lists
<1> QED BY <1>1, <1>2 DEF RecordCells, Pre

LEMMA PreAll ==
    ASSUME NEW n \in Nat, NEW shape \in Shapes
    PROVE  RecordCells(n, shape) = Pre(n, shape, Len(shape))
BY ShapeType DEF RecordCells, Pre, Lists

LEMMA PreEmpty == \A n, shape : Pre(n, shape, 0) = <<>>
<1> SUFFICES ASSUME NEW n, NEW shape PROVE Pre(n, shape, 0) = <<>>
  OBVIOUS
<1>1. Lists(n, shape, 0) = <<>> BY DEF Lists
<1> QED BY <1>1, FlattenEmpty DEF Pre

LEMMA PreNext ==
    ASSUME NEW n \in Nat, NEW shape \in Shapes, NEW i \in 1 .. Len(shape)
    PROVE  Pre(n, shape, i) = Pre(n, shape, i - 1) \o CellsOf(Record(n, i, shape[i]))
<1>1. i \in Nat /\ i - 1 \in Nat /\ i = (i - 1) + 1
      /\ i \in 0 .. Len(shape) /\ i - 1 \in 0 .. Len(shape)
  BY ShapeType
<1>2. PICK ss \in Seq(Seq(CellType)) :
        /\ ss = Lists(n, shape, i - 1) /\ Len(ss) = i - 1
        /\ \A j \in 1 .. i - 1 : ss[j] = CellsOf(Record(n, j, shape[j]))
  BY <1>1, ListsType
<1>3. PICK tt \in Seq(Seq(CellType)) :
        /\ tt = Lists(n, shape, i) /\ Len(tt) = i
        /\ \A j \in 1 .. i : tt[j] = CellsOf(Record(n, j, shape[j]))
  BY <1>1, ListsType
<1>4. Same(ss, tt, i - 1) BY <1>1, <1>2, <1>3 DEF Same
<1>5. FlattenSeq(tt) = FlattenSeq(ss) \o tt[i] BY <1>1, <1>2, <1>3, <1>4, FlattenLonger
<1>6. tt[i] = CellsOf(Record(n, i, shape[i])) BY <1>1, <1>3
<1> QED BY <1>2, <1>3, <1>5, <1>6 DEF Pre

LEMMA PreType ==
    ASSUME NEW n \in Nat, NEW shape \in Shapes, NEW i \in 0 .. Len(shape)
    PROVE  Pre(n, shape, i) \in Seq(CellType) /\ Len(Pre(n, shape, i)) \in Nat
<1>1. Pre(n, shape, i) \in Seq(CellType) BY ListsType, FlattenType DEF Pre
<1> QED BY <1>1, LenProperties

Longer(s, t) == Len(s) <= Len(t) /\ \A k \in 1 .. Len(s) : t[k] = s[k]

LEMMA ConcatFacts ==
    ASSUME NEW S, NEW s \in Seq(S), NEW t \in Seq(S), NEW a \in Nat, NEW b \in Nat,
           Len(s) = a, Len(t) = b
    PROVE  /\ s \o t \in Seq(S) /\ Len(s \o t) = a + b /\ Longer(s, s \o t)
           /\ \A k \in 1 .. b : (s \o t)[a + k] = t[k]
<1>1. /\ s \o t \in Seq(S) /\ Len(s \o t) = Len(s) + Len(t)
      /\ \A i \in 1 .. Len(s) + Len(t) : (s \o t)[i] = IF i <= Len(s) THEN s[i] ELSE t[i - Len(s)]
  BY ConcatProperties
<1>2. \A i \in 1 .. a + b : (s \o t)[i] = IF i <= a THEN s[i] ELSE t[i - a] BY <1>1
<1>3. \A k \in 1 .. a : (s \o t)[k] = s[k] BY <1>2
<1>4. ASSUME NEW k \in 1 .. b PROVE (s \o t)[a + k] = t[k]
  <2>1. a + k \in 1 .. a + b /\ ~ (a + k <= a) /\ (a + k) - a = k OBVIOUS
  <2> QED BY <1>2, <2>1
<1>5. Len(s \o t) = a + b BY <1>1
<1>6. Longer(s, s \o t) BY <1>3, <1>5 DEF Longer
<1> QED BY <1>1, <1>4, <1>5, <1>6

LEMMA CellsConcat ==
    \A s, t \in Seq(CellType) : \A a, b \in Nat :
        Len(s) = a /\ Len(t) = b =>
            /\ s \o t \in Seq(CellType) /\ Len(s \o t) = a + b /\ Longer(s, s \o t)
            /\ \A k \in 1 .. b : (s \o t)[a + k] = t[k]
<1> SUFFICES ASSUME NEW s \in Seq(CellType), NEW t \in Seq(CellType),
                    NEW a \in Nat, NEW b \in Nat, Len(s) = a, Len(t) = b
             PROVE  /\ s \o t \in Seq(CellType) /\ Len(s \o t) = a + b /\ Longer(s, s \o t)
                    /\ \A k \in 1 .. b : (s \o t)[a + k] = t[k]
  BY Zenon
<1>1. s \o t \in Seq(CellType) BY ConcatFacts
<1>2. Len(s \o t) = a + b BY ConcatFacts
<1>3. Longer(s, s \o t) BY ConcatFacts
<1>4. \A k \in 1 .. b : (s \o t)[a + k] = t[k] BY ConcatFacts
<1> QED BY <1>1, <1>2, <1>3, <1>4

LEMMA PreStep ==
    ASSUME NEW n \in Nat, NEW shape \in Shapes, NEW i \in 1 .. Len(shape)
    PROVE  /\ Len(Pre(n, shape, i)) = Len(Pre(n, shape, i - 1)) + shape[i]
           /\ Longer(Pre(n, shape, i - 1), Pre(n, shape, i))
           /\ \A k \in 1 .. shape[i] :
                Pre(n, shape, i)[Len(Pre(n, shape, i - 1)) + k]
                    = [frame |-> Record(n, i, shape[i]), nth |-> k]
<1>1. i \in 0 .. Len(shape) /\ i - 1 \in 0 .. Len(shape) /\ i \in Nat /\ shape[i] \in Nat
  BY ShapeType
<1>2. PICK p \in Seq(CellType), a \in Nat : p = Pre(n, shape, i - 1) /\ Len(p) = a
  BY <1>1, PreType
<1>3. Record(n, i, shape[i]) \in Frame /\ Record(n, i, shape[i]).len = shape[i]
  BY <1>1, FrameTypes DEF Record
<1>4. PICK t \in Seq(CellType) :
        /\ t = CellsOf(Record(n, i, shape[i])) /\ Len(t) = shape[i]
        /\ \A k \in 1 .. shape[i] : t[k] = [frame |-> Record(n, i, shape[i]), nth |-> k]
  BY <1>3, CellsOfType
<1>5. Pre(n, shape, i) = p \o t BY <1>2, <1>4, PreNext
<1>6. /\ Len(p \o t) = a + shape[i] /\ Longer(p, p \o t)
      /\ \A k \in 1 .. shape[i] : (p \o t)[a + k] = t[k]
  <2>1. PICK b \in Nat : b = shape[i] /\ Len(t) = b BY <1>1, <1>4
  <2>2. /\ Len(p \o t) = a + b /\ Longer(p, p \o t)
        /\ \A k \in 1 .. b : (p \o t)[a + k] = t[k]
    <3>1. Len(p) = a /\ Len(t) = b BY <1>2, <2>1
    <3> QED BY ONLY <3>1, CellsConcat, p \in Seq(CellType), t \in Seq(CellType), a \in Nat, b \in Nat
  <2> QED BY <2>1, <2>2
<1> QED BY <1>2, <1>4, <1>5, <1>6

\* What holds of neighbours holds of the first and the last.
LEMMA LongerStep ==
    ASSUME NEW S, NEW s \in Seq(S), NEW t \in Seq(S), NEW u \in Seq(S),
           Longer(s, t), Longer(t, u)
    PROVE  Longer(s, u)
<1>1. PICK a \in Nat, b \in Nat, c \in Nat : a = Len(s) /\ b = Len(t) /\ c = Len(u)
  BY LenProperties
<1>2. a <= b /\ b <= c /\ (\A k \in 1 .. a : t[k] = s[k]) /\ \A k \in 1 .. b : u[k] = t[k]
  BY <1>1 DEF Longer
<1>3. a <= c /\ \A k \in 1 .. a : u[k] = s[k] BY <1>2
<1> QED BY <1>1, <1>3 DEF Longer

LEMMA PreLonger ==
    ASSUME NEW n \in Nat, NEW shape \in Shapes, NEW i \in 0 .. Len(shape),
           NEW j \in i .. Len(shape)
    PROVE  Longer(Pre(n, shape, i), Pre(n, shape, j))
<1> DEFINE T == {d \in Nat : i + d <= Len(shape) => Longer(Pre(n, shape, i), Pre(n, shape, i + d))}
<1>0. Len(shape) \in Nat /\ i \in Nat /\ j \in Nat /\ j - i \in Nat BY ShapeType
<1>1. 0 \in T
  <2>1. i + 0 = i BY <1>0
  <2>2. Len(Pre(n, shape, i)) \in Nat BY PreType
  <2> QED BY <2>1, <2>2 DEF Longer
<1>2. ASSUME NEW d \in Nat, d \in T PROVE d + 1 \in T
  <2> SUFFICES ASSUME i + (d + 1) <= Len(shape)
               PROVE  Longer(Pre(n, shape, i), Pre(n, shape, i + (d + 1)))
    OBVIOUS
  <2>1. /\ i + d \in 0 .. Len(shape) /\ i + (d + 1) \in 1 .. Len(shape)
        /\ i + (d + 1) \in 0 .. Len(shape) /\ (i + (d + 1)) - 1 = i + d
    BY <1>0
  <2>2. Longer(Pre(n, shape, i), Pre(n, shape, i + d)) BY <1>2, <2>1
  <2>3. Longer(Pre(n, shape, i + d), Pre(n, shape, i + (d + 1))) BY <2>1, PreStep
  <2>4. /\ Pre(n, shape, i) \in Seq(CellType) /\ Pre(n, shape, i + d) \in Seq(CellType)
        /\ Pre(n, shape, i + (d + 1)) \in Seq(CellType)
    BY <2>1, PreType
  <2> QED BY <2>2, <2>3, <2>4, LongerStep
<1>3. \A d \in 0 .. j - i : d \in T
  <2> HIDE DEF T
  <2> QED BY <1>0, <1>1, <1>2, UpTo
<1>4. j - i \in T
  <2> HIDE DEF T
  <2> QED BY <1>0, <1>3
<1>5. i + (j - i) = j BY <1>0
<1> QED BY <1>0, <1>4, <1>5

\* The lengths do not depend on the batch's number.
LEMMA PreLen ==
    ASSUME NEW n \in Nat, NEW shape \in Shapes, NEW i \in 0 .. Len(shape)
    PROVE  Len(Pre(n, shape, i)) = Len(Pre(0, shape, i))
<1> DEFINE T == {d \in Nat : d <= Len(shape) => Len(Pre(n, shape, d)) = Len(Pre(0, shape, d))}
<1>0. Len(shape) \in Nat /\ i \in Nat BY ShapeType
<1>1. 0 \in T BY PreEmpty
<1>2. ASSUME NEW d \in Nat, d \in T PROVE d + 1 \in T
  <2> SUFFICES ASSUME d + 1 <= Len(shape)
               PROVE  Len(Pre(n, shape, d + 1)) = Len(Pre(0, shape, d + 1))
    OBVIOUS
  <2>1. d + 1 \in 1 .. Len(shape) /\ (d + 1) - 1 = d /\ d <= Len(shape) BY <1>0
  <2>2. PICK e \in 1 .. Len(shape) : e = d + 1 /\ e - 1 = d BY <2>1
  <2>3. Len(Pre(n, shape, e)) = Len(Pre(n, shape, e - 1)) + shape[e]
    BY ZenonT(40), PreStep
  <2>4. Len(Pre(0, shape, e)) = Len(Pre(0, shape, e - 1)) + shape[e]
    BY ZenonT(40), PreStep
  <2> QED BY <1>2, <2>1, <2>2, <2>3, <2>4
<1>3. \A d \in 0 .. i : d \in T
  <2> HIDE DEF T
  <2> QED BY <1>0, <1>1, <1>2, UpTo
<1>4. i \in T
  <2> HIDE DEF T
  <2> QED BY <1>0, <1>3
<1> QED BY <1>0, <1>4

LEMMA LayoutType ==
    ASSUME NEW n \in Nat, NEW shape \in Shapes
    PROVE  /\ Layout(n, shape) \in Seq(CellType)
           /\ Len(Layout(n, shape)) \in Nat /\ Len(Layout(n, shape)) = Len(Layout(0, shape))
           /\ Len(Layout(n, shape)) = Len(Pre(n, shape, Len(shape))) + MarkerLen
           /\ Longer(Pre(n, shape, Len(shape)), Layout(n, shape))
           /\ Layout(n, shape)[Len(Pre(n, shape, Len(shape))) + 1]
                = [frame |-> Marker(n), nth |-> 1]
<1>0. Len(shape) \in 0 .. Len(shape) /\ MarkerLen \in Nat \ {0}
  BY ShapeType, ReadsAssumption
<1>1. ASSUME NEW k \in Nat
      PROVE  /\ Layout(k, shape) \in Seq(CellType)
             /\ Len(Pre(k, shape, Len(shape))) \in Nat
             /\ Len(Layout(k, shape)) = Len(Pre(k, shape, Len(shape))) + MarkerLen
             /\ Longer(Pre(k, shape, Len(shape)), Layout(k, shape))
             /\ Layout(k, shape)[Len(Pre(k, shape, Len(shape))) + 1]
                    = [frame |-> Marker(k), nth |-> 1]
  <2>1. PICK p \in Seq(CellType), a \in Nat : p = Pre(k, shape, Len(shape)) /\ Len(p) = a
    BY <1>0, PreType
  <2>2. Marker(k) \in Frame /\ Marker(k).len = MarkerLen BY FrameTypes DEF Marker
  <2>3. PICK t \in Seq(CellType) :
          /\ t = CellsOf(Marker(k)) /\ Len(t) = MarkerLen
          /\ \A j \in 1 .. MarkerLen : t[j] = [frame |-> Marker(k), nth |-> j]
    BY <2>2, CellsOfType
  <2>4. Layout(k, shape) = p \o t BY <2>1, <2>3, PreAll DEF Layout
  <2>5. /\ p \o t \in Seq(CellType) /\ Len(p \o t) = a + MarkerLen /\ Longer(p, p \o t)
        /\ \A j \in 1 .. MarkerLen : (p \o t)[a + j] = t[j]
    <3>1. PICK b \in Nat : b = MarkerLen /\ Len(t) = b BY <1>0, <2>3
    <3>2. /\ p \o t \in Seq(CellType) /\ Len(p \o t) = a + b /\ Longer(p, p \o t)
          /\ \A j \in 1 .. b : (p \o t)[a + j] = t[j]
      <4>1. Len(p) = a /\ Len(t) = b BY <2>1, <3>1
      <4> QED BY ONLY <4>1, CellsConcat, p \in Seq(CellType), t \in Seq(CellType), a \in Nat, b \in Nat
    <3> QED BY <3>1, <3>2
  <2>6. (p \o t)[a + 1] = [frame |-> Marker(k), nth |-> 1] BY <1>0, <2>3, <2>5
  <2> QED BY <2>1, <2>4, <2>5, <2>6
<1>2. Len(Pre(n, shape, Len(shape))) = Len(Pre(0, shape, Len(shape))) BY <1>0, PreLen
<1>3. Len(Layout(n, shape)) = Len(Layout(0, shape)) BY <1>1, <1>2
<1>4. Len(Layout(n, shape)) \in Nat BY <1>0, <1>1
<1> QED BY <1>1, <1>3, <1>4

\* A batch whose cells are at `at' has its records where the sidecar says, each behind the one
\* before it, and a marker behind the last one.
Placed(cells, at, n, shape) ==
    \A j \in 1 .. Len(Layout(n, shape)) : cells[at + j - 1] = Layout(n, shape)[j]

LEMMA OffsetsType ==
    ASSUME NEW n \in Nat, NEW shape \in Shapes, NEW at \in Nat
    PROVE  /\ Offsets(at, shape) \in Seq(Nat) /\ Len(Offsets(at, shape)) = Len(shape)
           /\ \A i \in 1 .. Len(shape) :
                Offsets(at, shape)[i] = at + Len(Pre(n, shape, i - 1))
<1>0. Len(shape) \in Nat /\ DOMAIN shape = 1 .. Len(shape) BY ShapeType
<1>1. ASSUME NEW i \in 1 .. Len(shape)
      PROVE  /\ Len(RecordCells(0, SubSeq(shape, 1, i - 1))) = Len(Pre(n, shape, i - 1))
             /\ at + Len(Pre(n, shape, i - 1)) \in Nat
  <2>1. i - 1 \in 0 .. Len(shape) BY <1>0
  <2>2. RecordCells(0, SubSeq(shape, 1, i - 1)) = Pre(0, shape, i - 1)
    BY <2>1, PreOfPrefix
  <2>3. Len(Pre(n, shape, i - 1)) = Len(Pre(0, shape, i - 1)) BY <2>1, PreLen
  <2>4. Len(Pre(n, shape, i - 1)) \in Nat BY <2>1, PreType
  <2> QED BY <2>2, <2>3, <2>4
<1>2. Offsets(at, shape) = [i \in 1 .. Len(shape) |-> at + Len(Pre(n, shape, i - 1))]
  BY <1>0, <1>1 DEF Offsets
<1> QED BY <1>0, <1>1, <1>2

OffsetsOK(O, shape, m, at, size) ==
    /\ O \in Seq(Nat) /\ Len(O) = m /\ O[1] = at
    /\ \A i \in 1 .. m : O[i] \in Nat
    /\ \A i \in 1 .. m : O[i] >= at /\ O[i] + shape[i] + MarkerLen <= at + size
    /\ \A i, j \in 1 .. m : i < j => O[i] + shape[i] <= O[j]
    /\ \A i \in 1 .. m : i < m => O[i + 1] = O[i] + shape[i]
    /\ O[m] + shape[m] + MarkerLen = at + size

LEMMA OffsetsFacts ==
    ASSUME NEW n \in Nat, NEW shape \in Shapes, NEW at \in Nat
    PROVE  OffsetsOK(Offsets(at, shape), shape, Len(shape), at, Len(Layout(n, shape)))
<1> SUFFICES ASSUME NEW O, O = Offsets(at, shape), NEW m, m = Len(shape),
                    NEW size, size = Len(Layout(n, shape))
             PROVE  OffsetsOK(O, shape, m, at, size)
  OBVIOUS
<1>1. /\ O \in Seq(Nat) /\ Len(O) = m
      /\ \A i \in 1 .. m : O[i] = at + Len(Pre(n, shape, i - 1))
  BY OffsetsType
<1>2. m \in Nat \ {0} /\ MarkerLen \in Nat /\ \A i \in 1 .. m : shape[i] \in Nat \ {0}
  BY ShapeType, ReadsAssumption
<1>3. PICK l \in [0 .. m -> Nat] : \A i \in 0 .. m : l[i] = Len(Pre(n, shape, i))
  <2> DEFINE l == [i \in 0 .. m |-> Len(Pre(n, shape, i))]
  <2>1. l \in [0 .. m -> Nat] /\ \A i \in 0 .. m : l[i] = Len(Pre(n, shape, i)) BY PreType
  <2> QED BY <2>1
<1>4. l[0] = 0
  <2>1. Pre(n, shape, 0) = <<>> BY PreEmpty
  <2> QED BY <1>2, <1>3, <2>1
<1>5. \A i \in 1 .. m : l[i] = l[i - 1] + shape[i]
  <2> SUFFICES ASSUME NEW i \in 1 .. m PROVE l[i] = l[i - 1] + shape[i]
    OBVIOUS
  <2>1. i \in 0 .. m /\ i - 1 \in 0 .. m BY <1>2
  <2>2. Len(Pre(n, shape, i)) = Len(Pre(n, shape, i - 1)) + shape[i]
    BY ZenonT(40), PreStep
  <2> QED BY <1>3, <2>1, <2>2
<1>6. \A i, j \in 0 .. m : i <= j => l[i] <= l[j]
  <2> SUFFICES ASSUME NEW i \in 0 .. m, NEW j \in 0 .. m, i <= j PROVE l[i] <= l[j]
    OBVIOUS
  <2>1. j \in i .. Len(shape) /\ i \in 0 .. Len(shape) BY <1>2
  <2>2. Longer(Pre(n, shape, i), Pre(n, shape, j)) BY <2>1, PreLonger
  <2> QED BY <1>3, <2>2 DEF Longer
<1>7. size = l[m] + MarkerLen
  <2>1. size = Len(Pre(n, shape, m)) + MarkerLen BY LayoutType
  <2>2. l[m] = Len(Pre(n, shape, m)) BY <1>2, <1>3
  <2> QED BY <2>1, <2>2
<1>8. \A i \in 1 .. m : O[i] = at + l[i - 1]
  <2> SUFFICES ASSUME NEW i \in 1 .. m PROVE O[i] = at + l[i - 1]
    OBVIOUS
  <2>1. i - 1 \in 0 .. m BY <1>2
  <2> QED BY <1>1, <1>3, <2>1
<1>9. \A i \in 1 .. m : O[i] \in Nat /\ O[i] + shape[i] = at + l[i]
  <2> SUFFICES ASSUME NEW i \in 1 .. m PROVE O[i] \in Nat /\ O[i] + shape[i] = at + l[i]
    OBVIOUS
  <2>1. i - 1 \in 0 .. m /\ i \in 0 .. m BY <1>2
  <2>2. l[i - 1] \in Nat /\ l[i] = l[i - 1] + shape[i] /\ O[i] = at + l[i - 1] /\ shape[i] \in Nat
    BY <1>2, <1>5, <1>8, <2>1
  <2> QED BY <2>2
<1>10. O[1] = at
  <2>1. 1 \in 1 .. m /\ 1 - 1 = 0 BY <1>2
  <2> QED BY <1>4, <1>8, <2>1
<1>11. \A i \in 1 .. m : O[i] >= at /\ O[i] + shape[i] + MarkerLen <= at + size
  <2> SUFFICES ASSUME NEW i \in 1 .. m
               PROVE  O[i] >= at /\ O[i] + shape[i] + MarkerLen <= at + size
    OBVIOUS
  <2>1. i - 1 \in 0 .. m /\ i \in 0 .. m /\ m \in 0 .. m /\ i <= m BY <1>2
  <2>2. l[i - 1] \in Nat /\ l[i] \in Nat /\ l[m] \in Nat /\ l[i] <= l[m] BY <1>6, <2>1
  <2> QED BY SMTT(40), <1>2, <1>7, <1>8, <1>9, <2>2
<1>12. \A i, j \in 1 .. m : i < j => O[i] + shape[i] <= O[j]
  <2> SUFFICES ASSUME NEW i \in 1 .. m, NEW j \in 1 .. m, i < j PROVE O[i] + shape[i] <= O[j]
    OBVIOUS
  <2>1. i \in 0 .. m /\ j - 1 \in 0 .. m /\ i <= j - 1 BY <1>2
  <2>2. l[i] \in Nat /\ l[j - 1] \in Nat /\ l[i] <= l[j - 1] BY <1>6, <2>1
  <2> QED BY <1>8, <1>9, <2>2
<1>13. \A i \in 1 .. m : i < m => O[i + 1] = O[i] + shape[i]
  <2> SUFFICES ASSUME NEW i \in 1 .. m, i < m PROVE O[i + 1] = O[i] + shape[i]
    OBVIOUS
  <2>1. i + 1 \in 1 .. m /\ (i + 1) - 1 = i BY <1>2
  <2> QED BY <1>8, <1>9, <2>1
<1>14. O[m] + shape[m] + MarkerLen = at + size
  <2>1. m \in 1 .. m /\ l[m] \in Nat BY <1>2
  <2> QED BY <1>2, <1>7, <1>9, <2>1
<1> QED BY <1>1, <1>9, <1>10, <1>11, <1>12, <1>13, <1>14 DEF OffsetsOK

PlacedOK(cells, O, n, shape, m) ==
    /\ \A i \in 1 .. m : \A k \in 1 .. shape[i] :
        cells[O[i] + k - 1] = [frame |-> Record(n, i, shape[i]), nth |-> k]
    /\ cells[O[m] + shape[m]] = [frame |-> Marker(n), nth |-> 1]

LEMMA PlacedFacts ==
    ASSUME NEW n \in Nat, NEW shape \in Shapes, NEW at \in Nat, NEW cells,
           Placed(cells, at, n, shape)
    PROVE  PlacedOK(cells, Offsets(at, shape), n, shape, Len(shape))
<1> SUFFICES ASSUME NEW O, O = Offsets(at, shape), NEW m, m = Len(shape)
             PROVE  PlacedOK(cells, O, n, shape, m)
  OBVIOUS
<1>1. m \in Nat \ {0} /\ MarkerLen \in Nat \ {0} /\ \A i \in 1 .. m : shape[i] \in Nat \ {0}
  BY ShapeType, ReadsAssumption
<1> SUFFICES ASSUME NEW lay, lay = Layout(n, shape), NEW size, size = Len(lay),
                    NEW last, last = Pre(n, shape, m)
             PROVE  PlacedOK(cells, O, n, shape, m)
  OBVIOUS
<1>2. /\ lay = Layout(n, shape) /\ size = Len(lay) /\ last = Pre(n, shape, m)
      /\ size \in Nat
      /\ size = Len(last) + MarkerLen /\ Longer(last, lay) /\ Len(last) \in Nat
      /\ lay[Len(last) + 1] = [frame |-> Marker(n), nth |-> 1]
  <2>1. Len(Pre(n, shape, m)) \in Nat BY <1>1, PreType
  <2>2. /\ Len(Layout(n, shape)) \in Nat
        /\ Len(Layout(n, shape)) = Len(Pre(n, shape, m)) + MarkerLen
        /\ Longer(Pre(n, shape, m), Layout(n, shape))
        /\ Layout(n, shape)[Len(Pre(n, shape, m)) + 1] = [frame |-> Marker(n), nth |-> 1]
    BY LayoutType
  <2> QED BY <2>1, <2>2
<1>3. \A j \in 1 .. size : cells[at + j - 1] = lay[j] BY <1>2 DEF Placed
<1>4. \A i \in 1 .. m : O[i] = at + Len(Pre(n, shape, i - 1)) BY OffsetsType
<1>5. ASSUME NEW i \in 1 .. m, NEW k \in 1 .. shape[i]
      PROVE  cells[O[i] + k - 1] = [frame |-> Record(n, i, shape[i]), nth |-> k]
  <2>1. i \in 0 .. m /\ m \in i .. m /\ i - 1 \in 0 .. m BY <1>1
  <2>2. PICK a \in Nat, b \in Nat, c \in Nat :
          /\ a = Len(Pre(n, shape, i - 1)) /\ b = Len(Pre(n, shape, i)) /\ c = Len(last)
    BY <1>2, <2>1, PreType
  <2>3. b = a + shape[i] /\ Pre(n, shape, i)[a + k] = [frame |-> Record(n, i, shape[i]), nth |-> k]
    <3>1. /\ Len(Pre(n, shape, i)) = Len(Pre(n, shape, i - 1)) + shape[i]
          /\ \A j \in 1 .. shape[i] :
               Pre(n, shape, i)[Len(Pre(n, shape, i - 1)) + j]
                    = [frame |-> Record(n, i, shape[i]), nth |-> j]
      <4>1. i \in 1 .. Len(shape) OBVIOUS
      <4> QED BY ONLY ZenonT(40), <4>1, PreStep, n \in Nat, shape \in Shapes
    <3> QED BY <2>2, <3>1
  <2>4. b <= c /\ \A j \in 1 .. b : last[j] = Pre(n, shape, i)[j]
    <3>1. Longer(Pre(n, shape, i), last) BY <1>2, <2>1, PreLonger
    <3> QED BY <2>2, <3>1 DEF Longer
  <2>5. c <= size /\ \A j \in 1 .. c : lay[j] = last[j] BY <1>2, <2>2 DEF Longer
  <2>6. a + k \in 1 .. b /\ a + k \in 1 .. c /\ a + k \in 1 .. size /\ at + (a + k) - 1 = at + a + k - 1
    BY <1>1, <2>3, <2>4, <2>5
  <2>7. cells[at + (a + k) - 1] = [frame |-> Record(n, i, shape[i]), nth |-> k]
    BY <1>3, <2>3, <2>4, <2>5, <2>6
  <2>8. O[i] = at + a BY <1>4, <2>2
  <2> QED BY <2>6, <2>7, <2>8
<1>6. cells[O[m] + shape[m]] = [frame |-> Marker(n), nth |-> 1]
  <2>1. PICK c \in Nat : c = Len(last) /\ size = c + MarkerLen BY <1>2
  <2>2. PICK o \in Nat, l \in Nat : o = O[m] /\ l = shape[m] /\ o + l + MarkerLen = at + size
    <3>1. m \in 1 .. m BY <1>1
    <3>2. /\ \A i \in 1 .. m : O[i] \in Nat
          /\ O[m] + shape[m] + MarkerLen = at + Len(Layout(n, shape))
      <4>1. OffsetsOK(O, shape, m, at, Len(Layout(n, shape))) BY OffsetsFacts
      <4> QED BY <4>1 DEF OffsetsOK
    <3> QED BY <1>1, <1>2, <3>1, <3>2
  <2>3. c + 1 \in 1 .. size /\ at + (c + 1) - 1 = o + l
    <3>1. PICK ml \in Nat : ml = MarkerLen /\ ml # 0 BY <1>1
    <3>2. size = c + ml /\ o + l + ml = at + size BY <2>1, <2>2, <3>1
    <3> QED BY ONLY <3>1, <3>2, ml \in Nat, c \in Nat, o \in Nat, l \in Nat, at \in Nat, size \in Nat
  <2> QED BY <1>2, <1>3, <2>1, <2>2, <2>3
<1> QED BY <1>5, <1>6 DEF PlacedOK

--------------------
\* A segment that is in order.
LEMMA SegmentFacts ==
    ASSUME NEW s, NEW L \in Seq(Frame), SegmentOK(s, L)
    PROVE  /\ s.base \in Nat \ {0} /\ s.flushed \in Nat /\ s.flushed <= SegmentSize
           /\ HeaderSize <= s.flushed
           /\ s.offsets \in Seq(Nat) /\ Len(s.offsets) \in Nat
           /\ Bound(s) \in Nat /\ s.base <= Bound(s)
           /\ HeaderSize \in Nat /\ MarkerLen \in Nat \ {0} /\ SegmentSize \in Nat
           /\ s.cells \in [0 .. SegmentSize - 1 -> CellType]
<1>1. s \in SegmentType BY DEF SegmentOK
<1>2. HeaderSize \in Nat /\ MarkerLen \in Nat \ {0} /\ SegmentSize \in Nat
  BY ReadsAssumption
<1>3. s.base \in Nat \ {0} /\ s.flushed \in HeaderSize .. SegmentSize /\ s.offsets \in Seq(Nat)
      /\ s.cells \in [0 .. SegmentSize - 1 -> CellType]
  BY <1>1 DEF SegmentType
<1>4. Len(s.offsets) \in Nat BY <1>3, LenProperties
<1> QED BY <1>2, <1>3, <1>4 DEF Bound

LEMMA PositionFacts ==
    ASSUME NEW s, NEW L \in Seq(Frame), SegmentOK(s, L), NEW p \in Positions(s)
    PROVE  /\ p \in Nat /\ p \in 1 .. Len(L) /\ s.base <= p /\ p < Bound(s)
           /\ p - s.base + 1 \in 1 .. Len(s.offsets)
           /\ Off(s, p) \in Nat /\ HeaderSize <= Off(s, p)
           /\ L[p] \in Frame /\ L[p].len \in Nat \ {0} /\ L[p].kind = "data"
           /\ Behind(s, L, p) \in Nat /\ Off(s, p) < Behind(s, L, p)
           /\ Behind(s, L, p) = Off(s, p) + L[p].len
           /\ Behind(s, L, p) + MarkerLen <= s.flushed
<1>1. PICK b \in Nat \ {0}, n \in Nat, l \in Nat :
        b = s.base /\ n = Len(s.offsets) /\ l = Len(L) /\ Bound(s) = b + n /\ Bound(s) <= l + 1
  <2>1. Len(L) \in Nat BY LenProperties
  <2> QED BY <2>1, SegmentFacts DEF SegmentOK, Bound
<1>2. p \in b .. (b + n) - 1 BY <1>1 DEF Positions
<1>3. p \in Nat /\ p \in 1 .. l /\ b <= p /\ p < b + n /\ p - b + 1 \in 1 .. n
  BY SMTT(40), <1>1, <1>2
<1>4. Off(s, p) \in Nat
  <2>1. s.offsets \in Seq(Nat) BY SegmentFacts
  <2> QED BY <1>1, <1>3, <2>1, ElementOfSeq DEF Off
<1>5. L[p] \in Frame BY <1>1, <1>3, ElementOfSeq
<1>6. L[p].len \in Nat BY <1>5 DEF Frame
<1>7. Stored(s, L, p) BY DEF SegmentOK
<1>8. /\ HeaderSize <= Off(s, p) /\ L[p].kind = "data" /\ L[p].len # 0
      /\ Behind(s, L, p) + MarkerLen <= s.flushed
  <2>1. HeaderSize \in Nat BY SegmentFacts
  <2>2. Off(s, p) >= HeaderSize /\ L[p].kind = "data" /\ L[p].len >= 1
        /\ Behind(s, L, p) + MarkerLen <= s.flushed
    BY <1>7 DEF Stored
  <2> QED BY <1>4, <1>6, <2>1, <2>2
<1>9. Behind(s, L, p) = Off(s, p) + L[p].len BY DEF Behind
<1>10. Behind(s, L, p) \in Nat /\ Off(s, p) < Behind(s, L, p) BY <1>4, <1>6, <1>8, <1>9
<1> QED BY <1>1, <1>3, <1>4, <1>5, <1>6, <1>8, <1>9, <1>10

LEMMA SpotFacts ==
    ASSUME NEW s, NEW L \in Seq(Frame), SegmentOK(s, L), NEW p \in s.base .. Bound(s)
    PROVE  /\ Spot(s, L, p) \in Nat /\ Spot(s, L, p) <= s.flushed
           /\ HeaderSize <= Spot(s, L, p)
           /\ p \in Positions(s) => Spot(s, L, p) = Off(s, p)
           /\ p \notin Positions(s) => p = Bound(s)
           /\ \A q \in Positions(s) : q < p => Behind(s, L, q) <= Spot(s, L, p)
<1>1. s.base \in Nat /\ Bound(s) \in Nat /\ p \in Nat /\ s.flushed \in Nat
      /\ HeaderSize \in Nat /\ HeaderSize <= s.flushed /\ MarkerLen \in Nat
  BY SegmentFacts
<1>2. CASE p < Bound(s)
  <2>1. p \in Positions(s) /\ Spot(s, L, p) = Off(s, p) BY <1>1, <1>2 DEF Positions, Spot
  <2>2. \A q \in Positions(s) : q < p => Behind(s, L, q) <= Off(s, p)
    BY <2>1 DEF SegmentOK
  <2>3. /\ Off(s, p) \in Nat /\ HeaderSize <= Off(s, p) /\ Behind(s, L, p) \in Nat
        /\ Off(s, p) < Behind(s, L, p) /\ Behind(s, L, p) + MarkerLen <= s.flushed
    BY <2>1, PositionFacts
  <2> QED BY <1>1, <2>1, <2>2, <2>3
<1>3. CASE ~ (p < Bound(s))
  <2>1. p = Bound(s) /\ p \notin Positions(s) BY <1>1, <1>3 DEF Positions
  <2>2. CASE p = s.base
    <3>1. Spot(s, L, p) = HeaderSize BY <1>3, <2>2 DEF Spot
    <3>2. \A q \in Positions(s) : ~ (q < p) BY <1>1, <2>2 DEF Positions
    <3> QED BY <1>1, <2>1, <3>1, <3>2
  <2>3. CASE p # s.base
    <3>1. p - 1 \in Positions(s) BY <1>1, <2>1, <2>3 DEF Positions
    <3>2. Spot(s, L, p) = Behind(s, L, p - 1) + MarkerLen BY <1>3, <2>3 DEF Spot
    <3>3. /\ Off(s, p - 1) \in Nat /\ HeaderSize <= Off(s, p - 1)
          /\ Behind(s, L, p - 1) \in Nat /\ Off(s, p - 1) < Behind(s, L, p - 1)
          /\ Behind(s, L, p - 1) + MarkerLen <= s.flushed
      BY <3>1, PositionFacts
    <3>4. ASSUME NEW q \in Positions(s), q < p PROVE Behind(s, L, q) <= Spot(s, L, p)
      <4>1. CASE q = p - 1 BY <1>1, <3>2, <3>3, <4>1
      <4>2. CASE q # p - 1
        <5>1. q \in Nat /\ q < p - 1 /\ Behind(s, L, q) \in Nat
          BY <1>1, <3>4, <4>2, PositionFacts
        <5>2. Behind(s, L, q) <= Off(s, p - 1) BY <3>1, <5>1 DEF SegmentOK
        <5> QED BY <1>1, <3>2, <3>3, <5>1, <5>2
      <4> QED BY <4>1, <4>2
    <3> QED BY <1>1, <2>1, <3>2, <3>3, <3>4
  <2> QED BY <2>2, <2>3
<1> QED BY <1>2, <1>3

\* Writing behind the flushed offset, moving it on and adding to the log leave a segment in order.
Keeps(s, t) ==
    /\ t \in SegmentType /\ t.base = s.base /\ t.offsets = s.offsets
    /\ s.flushed <= t.flushed
    /\ \A c \in 0 .. s.flushed - 1 : t.cells[c] = s.cells[c]

LEMMA SegmentKept ==
    ASSUME NEW s, NEW t, NEW L \in Seq(Frame), NEW M \in Seq(Frame),
           SegmentOK(s, L), Keeps(s, t), Longer(L, M)
    PROVE  /\ SegmentOK(t, M)
           /\ \A p \in s.base .. Bound(s) : Spot(t, M, p) = Spot(s, L, p)
           /\ \A p \in Positions(s) : Off(t, p) = Off(s, p) /\ Behind(t, M, p) = Behind(s, L, p)
<1>1. /\ s.base \in Nat \ {0} /\ Bound(s) \in Nat /\ s.flushed \in Nat /\ t.flushed \in Nat
      /\ HeaderSize \in Nat /\ MarkerLen \in Nat \ {0} /\ s.flushed <= t.flushed
  <2>1. t.flushed \in HeaderSize .. SegmentSize BY DEF Keeps, SegmentType
  <2> QED BY <2>1, SegmentFacts DEF Keeps
<1>2. Bound(t) = Bound(s) /\ Positions(t) = Positions(s) /\ t.base = s.base
  BY DEF Keeps, Bound, Positions
<1>3. Bound(t) <= Len(M) + 1
  <2>1. Len(L) \in Nat /\ Len(M) \in Nat BY LenProperties
  <2>2. Bound(s) <= Len(L) + 1 /\ Len(L) <= Len(M) BY DEF SegmentOK, Longer
  <2> QED BY <1>1, <1>2, <2>1, <2>2
<1>4. ASSUME NEW p \in Positions(s)
      PROVE  M[p] = L[p] /\ Off(t, p) = Off(s, p) /\ Behind(t, M, p) = Behind(s, L, p)
  <2>1. p \in 1 .. Len(L) BY PositionFacts
  <2>2. M[p] = L[p] BY <2>1 DEF Longer
  <2>3. Off(t, p) = Off(s, p) BY DEF Keeps, Off
  <2> QED BY <2>2, <2>3 DEF Behind
<1>5. ASSUME NEW p \in s.base .. Bound(s) PROVE Spot(t, M, p) = Spot(s, L, p)
  <2>1. CASE p < Bound(s)
    <3>1. p \in Positions(s) BY <1>1, <2>1 DEF Positions
    <3> QED BY <1>2, <1>4, <2>1, <3>1 DEF Spot
  <2>2. CASE ~ (p < Bound(s)) /\ p = s.base BY <1>2, <2>2 DEF Spot
  <2>3. CASE ~ (p < Bound(s)) /\ p # s.base
    <3>1. p - 1 \in Positions(s) BY <1>1, <2>3 DEF Positions
    <3>2. Behind(t, M, p - 1) = Behind(s, L, p - 1) BY <1>4, <3>1
    <3> QED BY <1>2, <2>3, <3>2 DEF Spot
  <2> QED BY <2>1, <2>2, <2>3
<1>6. ASSUME NEW p \in Positions(s) PROVE Stored(t, M, p)
  <2>1. /\ Off(s, p) \in Nat /\ HeaderSize <= Off(s, p) /\ L[p].len \in Nat \ {0}
        /\ L[p].kind = "data" /\ Behind(s, L, p) \in Nat
        /\ Behind(s, L, p) = Off(s, p) + L[p].len
        /\ Behind(s, L, p) + MarkerLen <= s.flushed
        /\ p \in Nat /\ s.base <= p /\ p < Bound(s)
    BY PositionFacts
  <2>2. /\ M[p] = L[p] /\ Off(t, p) = Off(s, p) /\ Behind(t, M, p) = Behind(s, L, p)
    BY <1>4
  <2>0. PICK o \in Nat, l \in Nat \ {0}, g \in Nat, f \in Nat, k \in Nat \ {0} :
          /\ o = Off(s, p) /\ l = L[p].len /\ f = s.flushed /\ g = t.flushed /\ k = MarkerLen
          /\ Behind(s, L, p) = o + l /\ (o + l) + k <= f /\ f <= g
    BY <1>1, <2>1
  <2>a. (\A j \in 1 .. l : o + j - 1 \in 0 .. f - 1) /\ o + l \in 0 .. f - 1 /\ (o + l) + k <= g
    <3>1. (o + l) + k <= f /\ f <= g BY <2>0
    <3> QED BY ONLY <3>1, o \in Nat, l \in Nat \ {0}, g \in Nat, f \in Nat, k \in Nat \ {0}
  <2>3. RecordAt(t, Off(t, p), M[p])
    <3> SUFFICES ASSUME NEW j \in 1 .. l
                 PROVE  t.cells[Off(s, p) + j - 1] = [frame |-> L[p], nth |-> j]
      BY <2>0, <2>2 DEF RecordAt
    <3>1. o + j - 1 \in 0 .. f - 1 BY <2>a
    <3>2. s.cells[Off(s, p) + j - 1] = [frame |-> L[p], nth |-> j]
      BY <2>0 DEF SegmentOK, Stored, RecordAt
    <3> QED BY <2>0, <3>1, <3>2 DEF Keeps
  <2>4. Linked(t, M, p)
    <3>1. Linked(s, L, p) BY DEF SegmentOK, Stored
    <3>2. Spot(t, M, p + 1) = Spot(s, L, p + 1)
      <4>1. p + 1 \in s.base .. Bound(s) BY <1>1, <2>1
      <4> QED BY <4>1, <1>5
    <3>3. MarkerAt(s, Behind(s, L, p)) => MarkerAt(t, Behind(s, L, p))
      <4>1. Behind(s, L, p) \in 0 .. s.flushed - 1 BY <2>0, <2>a
      <4>2. t.cells[Behind(s, L, p)] = s.cells[Behind(s, L, p)] BY <4>1 DEF Keeps
      <4> QED BY <4>2 DEF MarkerAt
    <3> QED BY <2>2, <3>1, <3>2, <3>3 DEF Linked
  <2>5. Behind(t, M, p) + MarkerLen <= t.flushed BY <2>0, <2>2, <2>a
  <2>6. Off(t, p) >= HeaderSize /\ M[p].len >= 1 BY SMTT(40), <1>1, <2>1, <2>2
  <2> QED BY <2>1, <2>2, <2>3, <2>4, <2>5, <2>6 DEF Stored
<1>7. Spot(t, M, t.base) = HeaderSize
  <2>1. s.base \in s.base .. Bound(s) BY SegmentFacts
  <2> QED BY <1>2, <1>5, <2>1 DEF SegmentOK
<1>8. \A p, q \in Positions(t) : p < q => Behind(t, M, p) <= Off(t, q)
  <2> SUFFICES ASSUME NEW p \in Positions(t), NEW q \in Positions(t), p < q
               PROVE  Behind(t, M, p) <= Off(t, q)
    OBVIOUS
  <2>1. Behind(s, L, p) <= Off(s, q) BY <1>2 DEF SegmentOK
  <2> QED BY <1>2, <1>4, <2>1
<1>9. SegmentOK(t, M)
  <2>1. t \in SegmentType BY DEF Keeps
  <2> QED BY <1>2, <1>3, <1>6, <1>7, <1>8, <2>1 DEF SegmentOK
<1> QED BY <1>4, <1>5, <1>9

\* The sidecar takes in a batch that is in place.
Extended(s, t, L, n, shape, at) ==
    /\ at = Spot(s, L, Bound(s))
    /\ at + Len(Layout(n, shape)) <= s.flushed
    /\ Placed(s.cells, at, n, shape)
    /\ Bound(s) - 1 + Len(shape) <= Len(L)
    /\ \A i \in 1 .. Len(shape) : L[Bound(s) - 1 + i] = Record(n, i, shape[i])
    /\ t \in SegmentType /\ t.base = s.base /\ t.cells = s.cells /\ t.flushed = s.flushed
    /\ t.offsets = s.offsets \o Offsets(at, shape)

LEMMA SidecarGrows ==
    ASSUME NEW s, NEW t, NEW L \in Seq(Frame), SegmentOK(s, L),
           NEW n \in Nat, NEW shape \in Shapes, NEW at, Extended(s, t, L, n, shape, at)
    PROVE  /\ SegmentOK(t, L)
           /\ Bound(t) = Bound(s) + Len(shape)
           /\ Spot(t, L, Bound(t)) = at + Len(Layout(n, shape))
           /\ \A p \in Positions(s) : p \in Positions(t) /\ Off(t, p) = Off(s, p)
           /\ \A p \in s.base .. Bound(s) : Spot(t, L, p) = Spot(s, L, p)
<1> SUFFICES ASSUME
        at = Spot(s, L, Bound(s)),
        at + Len(Layout(n, shape)) <= s.flushed,
        Placed(s.cells, at, n, shape),
        Bound(s) - 1 + Len(shape) <= Len(L),
        \A i \in 1 .. Len(shape) : L[Bound(s) - 1 + i] = Record(n, i, shape[i]),
        t \in SegmentType, t.base = s.base, t.cells = s.cells, t.flushed = s.flushed,
        t.offsets = s.offsets \o Offsets(at, shape)
    PROVE  /\ SegmentOK(t, L)
           /\ Bound(t) = Bound(s) + Len(shape)
           /\ Spot(t, L, Bound(t)) = at + Len(Layout(n, shape))
           /\ \A p \in Positions(s) : p \in Positions(t) /\ Off(t, p) = Off(s, p)
           /\ \A p \in s.base .. Bound(s) : Spot(t, L, p) = Spot(s, L, p)
  BY DEF Extended
<1> SUFFICES ASSUME NEW O, O = Offsets(at, shape), NEW m, m = Len(shape),
                    NEW size, size = Len(Layout(n, shape)), NEW b, b = s.base,
                    NEW B, B = Bound(s)
             PROVE  /\ SegmentOK(t, L)
                    /\ Bound(t) = B + m
                    /\ Spot(t, L, Bound(t)) = at + size
                    /\ \A p \in Positions(s) : p \in Positions(t) /\ Off(t, p) = Off(s, p)
                    /\ \A p \in b .. B : Spot(t, L, p) = Spot(s, L, p)
  OBVIOUS
<1>1. /\ b \in Nat \ {0} /\ B \in Nat /\ b <= B /\ s.flushed \in Nat
      /\ HeaderSize \in Nat /\ MarkerLen \in Nat \ {0}
      /\ m \in Nat \ {0} /\ size \in Nat /\ at \in Nat /\ HeaderSize <= at
      /\ Len(L) \in Nat
  <2>1. B \in b .. B BY SegmentFacts
  <2>2. at \in Nat /\ HeaderSize <= at BY <2>1, SpotFacts
  <2>3. m \in Nat \ {0} BY ShapeType
  <2>4. size \in Nat BY LayoutType
  <2>5. Len(L) \in Nat BY LenProperties
  <2> QED BY <2>2, <2>3, <2>4, <2>5, SegmentFacts
<1>2. OffsetsOK(O, shape, m, at, size) /\ PlacedOK(s.cells, O, n, shape, m)
  BY <1>1, OffsetsFacts, PlacedFacts
<1>3. \A i \in 1 .. m : O[i] \in Nat /\ shape[i] \in Nat \ {0}
  BY <1>2, ShapeType DEF OffsetsOK
<1>4. /\ Bound(t) = B + m
      /\ \A p \in b .. B - 1 : Off(t, p) = Off(s, p)
      /\ \A i \in 1 .. m : Off(t, B - 1 + i) = O[i]
  <2>1. PICK u \in Seq(Nat), k \in Nat : u = s.offsets /\ k = Len(u) /\ B = b + k
    BY SegmentFacts DEF Bound
  <2>2. O \in Seq(Nat) /\ Len(O) = m BY <1>2 DEF OffsetsOK
  <2>3. /\ Len(u \o O) = Len(u) + Len(O)
        /\ \A i \in 1 .. Len(u) + Len(O) : (u \o O)[i] = IF i <= Len(u) THEN u[i] ELSE O[i - Len(u)]
    BY ONLY <2>2, ConcatProperties, u \in Seq(Nat)
  <2>4. /\ Len(u \o O) = k + m
        /\ \A i \in 1 .. k + m : (u \o O)[i] = IF i <= k THEN u[i] ELSE O[i - k]
    BY <2>1, <2>2, <2>3
  <2>5. t.offsets = u \o O /\ t.base = b BY <2>1
  <2>0. b \in Nat /\ B \in Nat /\ m \in Nat \ {0} /\ k \in Nat /\ B = b + k BY <1>1, <2>1
  <2>a. /\ b + (k + m) = B + m
        /\ \A p \in b .. B - 1 : p - b + 1 \in 1 .. k + m /\ p - b + 1 <= k
        /\ \A i \in 1 .. m : /\ (B - 1 + i) - b + 1 = k + i /\ k + i \in 1 .. k + m
                             /\ ~ (k + i <= k) /\ (k + i) - k = i
    BY ONLY <2>0
  <2>6. Bound(t) = B + m BY <2>4, <2>5, <2>a DEF Bound
  <2>7. ASSUME NEW p \in b .. B - 1 PROVE Off(t, p) = Off(s, p)
    <3>1. p - b + 1 \in 1 .. k + m /\ p - b + 1 <= k BY <2>a
    <3>2. (u \o O)[p - b + 1] = u[p - b + 1] BY <2>4, <3>1
    <3> QED BY <2>1, <2>5, <3>2 DEF Off
  <2>8. ASSUME NEW i \in 1 .. m PROVE Off(t, B - 1 + i) = O[i]
    <3>1. (B - 1 + i) - b + 1 = k + i /\ k + i \in 1 .. k + m /\ ~ (k + i <= k) /\ (k + i) - k = i
      BY <2>a
    <3>2. (u \o O)[k + i] = O[i] BY <2>4, <3>1
    <3> QED BY <2>5, <3>1, <3>2 DEF Off
  <2> QED BY <2>6, <2>7, <2>8
<1>5. Positions(s) = b .. B - 1 /\ Positions(t) = b .. (B + m) - 1 BY <1>4 DEF Positions
<1>a. b \in Nat \ {0} /\ B \in Nat /\ b <= B /\ m \in Nat \ {0} BY <1>1
<1>b. /\ \A p \in b .. (B + m) - 1 : p \notin b .. B - 1 => \E i \in 1 .. m : p = B - 1 + i
      /\ \A p \in b .. B - 1 : p \in b .. (B + m) - 1 /\ p + 1 \in b .. B /\ p < B
      /\ \A p, q : q \in b .. B - 1 /\ p \in b .. (B + m) - 1 /\ p < q => p \in b .. B - 1
      /\ \A i, j \in 1 .. m : B - 1 + i < B - 1 + j => i < j
      /\ 1 \in 1 .. m /\ m \in 1 .. m /\ B - 1 + 1 = B /\ B \in b .. B /\ b \in b .. B
      /\ \A i \in 1 .. m : i < m => /\ i + 1 \in 1 .. m /\ (B - 1 + i) + 1 = B - 1 + (i + 1)
                                  /\ (B - 1 + i) + 1 < B + m
  <2>1. ASSUME NEW p \in b .. (B + m) - 1, p \notin b .. B - 1
        PROVE  \E i \in 1 .. m : p = B - 1 + i
    <3>1. p - (B - 1) \in 1 .. m /\ p = B - 1 + (p - (B - 1))
      BY ONLY <1>a, <2>1, p \in b .. (B + m) - 1
    <3> QED BY <3>1
  <2>2. \A p \in b .. B - 1 : p \in b .. (B + m) - 1 /\ p + 1 \in b .. B /\ p < B
    BY ONLY <1>a
  <2>3. \A p, q : q \in b .. B - 1 /\ p \in b .. (B + m) - 1 /\ p < q => p \in b .. B - 1
    BY ONLY <1>a
  <2>4. /\ \A i, j \in 1 .. m : B - 1 + i < B - 1 + j => i < j
        /\ 1 \in 1 .. m /\ m \in 1 .. m /\ B - 1 + 1 = B /\ B \in b .. B /\ b \in b .. B
    BY ONLY <1>a
  <2>5. \A i \in 1 .. m : i < m => /\ i + 1 \in 1 .. m /\ (B - 1 + i) + 1 = B - 1 + (i + 1)
                                 /\ (B - 1 + i) + 1 < B + m
    BY ONLY <1>a
  <2> QED BY <2>1, <2>2, <2>3, <2>4, <2>5
<1>6. ASSUME NEW p \in Positions(t), p \notin Positions(s)
      PROVE  \E i \in 1 .. m : p = B - 1 + i
  BY <1>5, <1>6, <1>b
<1>7. \A p \in Positions(s) : Off(t, p) = Off(s, p) /\ Behind(t, L, p) = Behind(s, L, p)
  BY <1>4, <1>5 DEF Behind
<1>8. \A i \in 1 .. m :
        /\ L[B - 1 + i] = Record(n, i, shape[i]) /\ Record(n, i, shape[i]).len = shape[i]
        /\ Behind(t, L, B - 1 + i) = O[i] + shape[i]
  <2> SUFFICES ASSUME NEW i \in 1 .. m
               PROVE  /\ L[B - 1 + i] = Record(n, i, shape[i])
                      /\ Record(n, i, shape[i]).len = shape[i]
                      /\ Behind(t, L, B - 1 + i) = O[i] + shape[i]
    OBVIOUS
  <2>1. L[B - 1 + i] = Record(n, i, shape[i]) OBVIOUS
  <2>2. Record(n, i, shape[i]).len = shape[i] BY DEF Record
  <2>3. Off(t, B - 1 + i) = O[i] BY <1>4
  <2> QED BY <2>1, <2>2, <2>3 DEF Behind
<1>9. ASSUME NEW p \in b .. B PROVE Spot(t, L, p) = Spot(s, L, p)
  <2>1. p < Bound(t) BY <1>1, <1>4
  <2>2. Spot(t, L, p) = Off(t, p) BY <2>1 DEF Spot
  <2>3. CASE p = B
    <3>2. Off(t, B) = O[1] BY <1>4, <1>b
    <3>3. O[1] = at BY <1>2 DEF OffsetsOK
    <3> QED BY <2>2, <2>3, <3>2, <3>3
  <2>4. CASE p # B
    <3>1. p \in b .. B - 1 /\ p < Bound(s) BY <1>1, <2>4
    <3> QED BY <1>4, <2>2, <3>1 DEF Spot
  <2> QED BY <2>3, <2>4
<1>10. Spot(t, L, Bound(t)) = at + size
  <2>1. m \in 1 .. m /\ (B + m) - 1 = B - 1 + m /\ B + m # b /\ ~ (B + m < B + m)
    BY SMTT(40), <1>1
  <2>2. Spot(t, L, B + m) = Behind(t, L, B - 1 + m) + MarkerLen BY <1>4, <2>1 DEF Spot
  <2>3. O[m] + shape[m] + MarkerLen = at + size BY <1>2 DEF OffsetsOK
  <2> QED BY <1>4, <1>8, <2>1, <2>2, <2>3
<1>11. ASSUME NEW p \in Positions(s) PROVE Stored(t, L, p)
  <2>1. Stored(s, L, p) BY DEF SegmentOK
  <2>2. p + 1 \in b .. B BY <1>5, <1>b
  <2>3. Spot(t, L, p + 1) = Spot(s, L, p + 1) BY <1>9, <2>2
  <2> QED BY <1>7, <2>1, <2>3 DEF Stored, RecordAt, Linked, MarkerAt
<1>12. ASSUME NEW i \in 1 .. m PROVE Stored(t, L, B - 1 + i)
  <2> DEFINE p == B - 1 + i
  <2>1. /\ Off(t, p) = O[i] /\ Behind(t, L, p) = O[i] + shape[i]
        /\ L[p] = Record(n, i, shape[i]) /\ L[p].len = shape[i] /\ L[p].kind = "data"
    BY <1>4, <1>8 DEF Record
  <2>2. O[i] \in Nat /\ shape[i] \in Nat \ {0} BY <1>3
  <2>3. O[i] >= at /\ O[i] + shape[i] + MarkerLen <= at + size BY <1>2 DEF OffsetsOK
  <2>4. RecordAt(t, O[i], L[p])
    <3> SUFFICES ASSUME NEW k \in 1 .. shape[i]
                 PROVE  t.cells[O[i] + k - 1] = [frame |-> L[p], nth |-> k]
      BY <2>1 DEF RecordAt
    <3>1. s.cells[O[i] + k - 1] = [frame |-> Record(n, i, shape[i]), nth |-> k]
      BY <1>2 DEF PlacedOK
    <3> QED BY <2>1, <3>1
  <2>5. Linked(t, L, p)
    <3>1. CASE i < m
      <4>1. i + 1 \in 1 .. m /\ p + 1 = B - 1 + (i + 1) /\ p + 1 < B + m BY <1>b, <3>1
      <4>2. Spot(t, L, p + 1) = O[i + 1] BY <1>4, <4>1 DEF Spot
      <4>3. O[i + 1] = O[i] + shape[i] BY <1>2, <3>1 DEF OffsetsOK
      <4> QED BY <2>1, <4>2, <4>3 DEF Linked
    <3>2. CASE i = m
      <4>1. p + 1 = B + m BY <1>1, <3>2
      <4>2. Spot(t, L, p + 1) = at + size BY <1>4, <1>10, <4>1
      <4>3. O[m] + shape[m] + MarkerLen = at + size BY <1>2 DEF OffsetsOK
      <4>4. MarkerAt(t, O[m] + shape[m])
        <5>1. s.cells[O[m] + shape[m]] = [frame |-> Marker(n), nth |-> 1]
          BY <1>2 DEF PlacedOK
        <5> QED BY <5>1 DEF MarkerAt, Marker
      <4> QED BY <2>1, <3>2, <4>2, <4>3, <4>4 DEF Linked
    <3> QED BY <1>1, <3>1, <3>2
  <2>c. PICK o \in Nat, l \in Nat \ {0}, f \in Nat, k \in Nat, h \in Nat :
          /\ o = O[i] /\ l = shape[i] /\ f = s.flushed /\ k = MarkerLen /\ h = HeaderSize
          /\ o >= at /\ (o + l) + k <= at + size /\ at + size <= f /\ h <= at
    BY <1>1, <2>2, <2>3
  <2>d. (o + l) + k <= f /\ o >= h /\ l >= 1
    <3>1. o >= at /\ (o + l) + k <= at + size /\ at + size <= f /\ h <= at
          /\ at \in Nat /\ size \in Nat
      BY <1>1, <2>c
    <3> QED BY ONLY <3>1, o \in Nat, l \in Nat \ {0}, f \in Nat, k \in Nat, h \in Nat
  <2>6. Behind(t, L, p) + MarkerLen <= t.flushed BY <2>1, <2>c, <2>d
  <2>7. Off(t, p) >= HeaderSize /\ L[p].len >= 1 BY <2>1, <2>c, <2>d
  <2> QED BY <2>1, <2>4, <2>5, <2>6, <2>7 DEF Stored
<1>13. \A p \in Positions(t) : Stored(t, L, p) BY <1>6, <1>11, <1>12
<1>14. ASSUME NEW p \in Positions(t), NEW q \in Positions(t), p < q
       PROVE  Behind(t, L, p) <= Off(t, q)
  <2>1. CASE q \in Positions(s)
    <3>1. p \in Positions(s) BY <1>5, <1>14, <1>b, <2>1
    <3>2. Behind(s, L, p) <= Off(s, q) BY <1>14, <2>1, <3>1 DEF SegmentOK
    <3> QED BY <1>7, <2>1, <3>1, <3>2
  <2>2. CASE q \notin Positions(s)
    <3>1. PICK j \in 1 .. m : q = B - 1 + j BY <1>6, <2>2
    <3>2. Off(t, q) = O[j] /\ O[j] >= at /\ O[j] \in Nat
      BY <1>2, <1>3, <1>4, <3>1 DEF OffsetsOK
    <3>3. CASE p \in Positions(s)
      <4>1. p < B /\ B \in b .. B BY <1>5, <1>b, <3>3
      <4>2. Behind(s, L, p) <= at BY <3>3, <4>1, SpotFacts
      <4>3. Behind(s, L, p) \in Nat BY <3>3, PositionFacts
      <4>4. PICK x \in Nat, y \in Nat : x = Behind(s, L, p) /\ y = O[j] /\ x <= at /\ y >= at
        BY <3>2, <4>2, <4>3
      <4>5. x <= y
        <5>1. x <= at /\ y >= at /\ at \in Nat BY <1>1, <4>4
        <5> QED BY ONLY <5>1, x \in Nat, y \in Nat
      <4> QED BY <1>7, <3>2, <3>3, <4>4, <4>5
    <3>4. CASE p \notin Positions(s)
      <4>1. PICK i \in 1 .. m : p = B - 1 + i BY <1>6, <3>4
      <4>2. i < j BY <1>14, <1>b, <3>1, <4>1
      <4>3. O[i] + shape[i] <= O[j] BY <1>2, <4>2 DEF OffsetsOK
      <4> QED BY <1>8, <3>2, <4>1, <4>3
    <3> QED BY <3>3, <3>4
  <2> QED BY <2>1, <2>2
<1>15. Spot(t, L, t.base) = HeaderSize BY SMTT(40), <1>1, <1>9 DEF SegmentOK
<1>16. Bound(t) <= Len(L) + 1 BY SMTT(40), <1>1, <1>4
<1>17. SegmentOK(t, L) BY <1>13, <1>14, <1>15, <1>16 DEF SegmentOK
<1>18. \A p \in Positions(s) : p \in Positions(t) BY <1>5, <1>b
<1> QED BY <1>4, <1>7, <1>9, <1>10, <1>17, <1>18

--------------------
\* What the writer may do to the segments while a reader is at work: T is what became of S, and M
\* of the log L.
Follows(s, t) ==
    /\ t.base = s.base
    /\ s.flushed <= t.flushed
    /\ \A c \in 0 .. s.flushed - 1 : t.cells[c] = s.cells[c]
    /\ \A p \in Positions(s) : p \in Positions(t) /\ Off(t, p) = Off(s, p)

Grew(S, L, T, M) ==
    /\ Len(S) <= Len(T)
    /\ Longer(L, M)
    /\ \A i \in 1 .. Len(S) : Follows(S[i], T[i])
    /\ \A i \in 1 .. Len(S) - 1 : T[i] = S[i]
    /\ Len(S) < Len(T) => T[Len(S)] = S[Len(S)]
    /\ LastBound(S) <= LastBound(T)

LEMMA SegmentsFacts ==
    ASSUME NEW S, NEW L, SegmentsOK(S, L)
    PROVE  /\ Len(S) \in Nat \ {0} /\ L \in Seq(Frame) /\ S \in Seq(SegmentType)
           /\ \A i \in 1 .. Len(S) : SegmentOK(S[i], L)
           /\ \A i \in 1 .. Len(S) : S[i].base \in Nat /\ S[i].flushed \in Nat
           /\ SegmentOK(S[Len(S)], L)
           /\ LastBound(S) \in Nat \ {0} /\ Len(L) \in Nat /\ LastBound(S) <= Len(L) + 1
<1>1. S \in Seq(SegmentType) /\ S # <<>> /\ L \in Seq(Frame) BY DEF SegmentsOK
<1>2. Len(S) \in Nat \ {0} /\ Len(L) \in Nat BY <1>1, LenProperties, EmptySeq
<1>3. \A i \in 1 .. Len(S) : SegmentOK(S[i], L) BY DEF SegmentsOK
<1>4. SegmentOK(S[Len(S)], L) BY <1>2, <1>3
<1>5. \A i \in 1 .. Len(S) : S[i].base \in Nat /\ S[i].flushed \in Nat
  BY <1>1, <1>3, SegmentFacts
<1>6. PICK s : s = S[Len(S)] /\ SegmentOK(s, L) BY <1>4
<1>7. Bound(s) \in Nat /\ s.base <= Bound(s) /\ s.base \in Nat \ {0}
  BY <1>1, <1>6, SegmentFacts
<1>8. Bound(s) \in Nat \ {0} BY ONLY <1>7
<1>9. Bound(s) <= Len(L) + 1 BY <1>6 DEF SegmentOK
<1> QED BY <1>1, <1>2, <1>3, <1>4, <1>5, <1>6, <1>8, <1>9 DEF LastBound

LEMMA SealedKept ==
    ASSUME NEW s, NEW L \in Seq(Frame), NEW M \in Seq(Frame), SegmentOK(s, L), Longer(L, M)
    PROVE  SegmentOK(s, M) /\ (SealedOK(s, L) => SealedOK(s, M)) /\ Follows(s, s)
<1>1. s.flushed \in Nat /\ s \in SegmentType BY SegmentFacts DEF SegmentOK
<1>2. Keeps(s, s) BY <1>1 DEF Keeps
<1>3. SegmentOK(s, M) /\ \A p \in s.base .. Bound(s) : Spot(s, M, p) = Spot(s, L, p)
  BY <1>2, SegmentKept
<1>4. Bound(s) \in s.base .. Bound(s) BY SegmentFacts
<1>5. Spot(s, M, Bound(s)) = Spot(s, L, Bound(s)) BY <1>3, <1>4
<1>6. Follows(s, s) BY <1>1 DEF Follows
<1> QED BY <1>3, <1>5, <1>6 DEF SealedOK

LEMMA KeptFollows ==
    ASSUME NEW s, NEW t, NEW L \in Seq(Frame), NEW M \in Seq(Frame),
           SegmentOK(s, L), Keeps(s, t), Longer(L, M)
    PROVE  /\ SegmentOK(t, M) /\ Follows(s, t) /\ Bound(t) = Bound(s)
           /\ Spot(t, M, Bound(t)) = Spot(s, L, Bound(s))
<1>1. /\ SegmentOK(t, M)
      /\ \A p \in s.base .. Bound(s) : Spot(t, M, p) = Spot(s, L, p)
      /\ \A p \in Positions(s) : Off(t, p) = Off(s, p)
  BY SegmentKept
<1>2. Bound(t) = Bound(s) /\ Positions(t) = Positions(s) BY DEF Keeps, Bound, Positions
<1>3. Bound(s) \in s.base .. Bound(s) BY SegmentFacts
<1>4. Follows(s, t) BY <1>1, <1>2 DEF Follows, Keeps
<1> QED BY <1>1, <1>2, <1>3, <1>4

\* The active segment is replaced by one that follows it.
Replaced(S, T, t) == T = [S EXCEPT ![Len(S)] = t]

LEMMA ActiveReplaced ==
    ASSUME NEW S, NEW L, SegmentsOK(S, L), NEW M \in Seq(Frame), Longer(L, M),
           NEW t, SegmentOK(t, M), Follows(S[Len(S)], t), Bound(S[Len(S)]) <= Bound(t),
           NEW T, Replaced(S, T, t)
    PROVE  /\ SegmentsOK(T, M) /\ Grew(S, L, T, M)
           /\ Len(T) = Len(S) /\ T[Len(T)] = t
<1>1. PICK n \in Nat \ {0} : n = Len(S) /\ S \in Seq(SegmentType) /\ L \in Seq(Frame)
  BY SegmentsFacts
<1>2. t \in SegmentType BY DEF SegmentOK
<1>3. T \in Seq(SegmentType) /\ Len(T) = n /\ T[n] = t /\ \A i \in 1 .. n : i # n => T[i] = S[i]
  BY <1>1, <1>2 DEF Replaced
<1>4. /\ n \in 1 .. n /\ 1 \in 1 .. n /\ \A i \in 1 .. n - 1 : i \in 1 .. n /\ i # n /\ i + 1 \in 1 .. n
  OBVIOUS
<1>5. T # <<>> BY <1>3, <1>4, EmptySeq
<1>6. T[1].base = 1
  <2>1. S[1].base = 1 BY DEF SegmentsOK
  <2>2. CASE n = 1 BY <1>1, <1>3, <2>1, <2>2 DEF Follows
  <2>3. CASE n # 1 BY <1>3, <1>4, <2>1, <2>3
  <2> QED BY <2>2, <2>3
<1>7. \A i \in 1 .. n : i # n => SegmentOK(S[i], M) /\ (SealedOK(S[i], L) => SealedOK(S[i], M)) /\ Follows(S[i], S[i])
  <2> SUFFICES ASSUME NEW i \in 1 .. n
               PROVE  SegmentOK(S[i], M) /\ (SealedOK(S[i], L) => SealedOK(S[i], M)) /\ Follows(S[i], S[i])
    OBVIOUS
  <2>1. SegmentOK(S[i], L) BY <1>1 DEF SegmentsOK
  <2> QED BY <1>1, <2>1, SealedKept
<1>8. \A i \in 1 .. n : SegmentOK(T[i], M) BY <1>3, <1>7
<1>9. ASSUME NEW i \in 1 .. n - 1 PROVE SealedOK(T[i], M) /\ T[i + 1].base = Bound(T[i])
  <2>1. i \in 1 .. n /\ i # n /\ i + 1 \in 1 .. n BY <1>4
  <2>2. SealedOK(S[i], L) /\ S[i + 1].base = Bound(S[i]) BY <1>1 DEF SegmentsOK
  <2>3. T[i] = S[i] /\ SealedOK(T[i], M) BY <1>3, <1>7, <2>1, <2>2
  <2>4. T[i + 1].base = S[i + 1].base
    <3>1. CASE i + 1 = n BY <1>1, <1>3, <3>1 DEF Follows
    <3>2. CASE i + 1 # n BY <1>3, <2>1, <3>2
    <3> QED BY <3>1, <3>2
  <2> QED BY <2>2, <2>3, <2>4
<1>10. SegmentsOK(T, M) BY <1>3, <1>5, <1>6, <1>8, <1>9 DEF SegmentsOK
<1>11. \A i \in 1 .. n : Follows(S[i], T[i]) BY <1>1, <1>3, <1>7
<1>12. \A i \in 1 .. n - 1 : T[i] = S[i] BY <1>3, <1>4
<1>13. LastBound(S) <= LastBound(T) BY <1>1, <1>3 DEF LastBound
<1>14. Grew(S, L, T, M) BY <1>1, <1>3, <1>11, <1>12, <1>13 DEF Grew
<1> QED BY <1>1, <1>3, <1>10, <1>14

\* The active segment is sealed and a fresh one follows it.

LEMMA FreshOK ==
    ASSUME NEW L \in Seq(Frame), NEW b \in Nat \ {0}, b <= Len(L) + 1,
           NEW s \in SegmentType, s.base = b, s.offsets = <<>>
    PROVE  /\ SegmentOK(s, L) /\ Bound(s) = b /\ Spot(s, L, b) = HeaderSize
           /\ Positions(s) = {}
<1>1. Bound(s) = b BY DEF Bound
<1>2. Positions(s) = {} BY <1>1 DEF Positions
<1>3. Spot(s, L, b) = HeaderSize BY <1>1 DEF Spot
<1> QED BY <1>1, <1>2, <1>3 DEF SegmentOK

LEMMA NewSegmentType ==
    ASSUME NEW b \in Nat \ {0}
    PROVE  /\ NewSegment(b) \in SegmentType /\ NewSegment(b).base = b
           /\ NewSegment(b).offsets = <<>> /\ NewSegment(b).flushed = HeaderSize
<1>1. HeaderSize \in Nat /\ SegmentSize \in Nat /\ HeaderSize <= SegmentSize
  BY ReadsAssumption
<1>2. Zero \in CellType BY DEF Zero, CellType, Frame
<1>3. [i \in 0 .. SegmentSize - 1 |-> Zero] \in [0 .. SegmentSize - 1 -> CellType] BY <1>2
<1>4. HeaderSize \in HeaderSize .. SegmentSize /\ <<>> \in Seq(Nat) BY <1>1
<1> QED BY <1>3, <1>4 DEF NewSegment, SegmentType

Sealed(S, T, t) ==
    t \in SegmentType /\ t.base = LastBound(S) /\ t.offsets = <<>> /\ T = Append(S, t)

LEMMA ActiveSealed ==
    ASSUME NEW S, NEW L, SegmentsOK(S, L), SealedOK(S[Len(S)], L),
           NEW T, NEW t, Sealed(S, T, t)
    PROVE  /\ SegmentsOK(T, L) /\ Grew(S, L, T, L)
           /\ Len(T) = Len(S) + 1 /\ T[Len(T)] = t /\ T[Len(S)] = S[Len(S)]
           /\ LastBound(T) = LastBound(S) /\ Spot(t, L, Bound(t)) = HeaderSize
<1> SUFFICES ASSUME t \in SegmentType, t.base = LastBound(S), t.offsets = <<>>, T = Append(S, t)
             PROVE  /\ SegmentsOK(T, L) /\ Grew(S, L, T, L)
                    /\ Len(T) = Len(S) + 1 /\ T[Len(T)] = t /\ T[Len(S)] = S[Len(S)]
                    /\ LastBound(T) = LastBound(S) /\ Spot(t, L, Bound(t)) = HeaderSize
  BY DEF Sealed
<1>1. /\ Len(S) \in Nat \ {0} /\ L \in Seq(Frame) /\ S \in Seq(SegmentType)
      /\ LastBound(S) \in Nat \ {0} /\ LastBound(S) <= Len(L) + 1 /\ Len(L) \in Nat
      /\ \A i \in 1 .. Len(S) : SegmentOK(S[i], L)
  BY SegmentsFacts
<1>2. PICK n \in Nat \ {0} : n = Len(S) BY <1>1
<1>3. /\ T \in Seq(SegmentType) /\ Len(T) = n + 1 /\ T[n + 1] = t
      /\ \A i \in 1 .. n : T[i] = S[i]
  BY <1>1, <1>2, AppendProperties
<1>4. SegmentOK(t, L) /\ Bound(t) = LastBound(S) /\ Spot(t, L, Bound(t)) = HeaderSize
  <2>1. PICK b \in Nat \ {0} : b = LastBound(S) /\ b <= Len(L) + 1 BY <1>1
  <2> QED BY <1>1, <2>1, FreshOK
<1>5. /\ n \in 1 .. n /\ 1 \in 1 .. n /\ \A i \in 1 .. n + 1 : i = n + 1 \/ i \in 1 .. n
      /\ \A i \in 1 .. n : i \in 1 .. n - 1 \/ i = n
      /\ \A i \in 1 .. n - 1 : i + 1 \in 1 .. n /\ i \in 1 .. n
      /\ (n + 1) - 1 = n /\ n + 1 # 0 /\ n <= n + 1
  BY ONLY n \in Nat \ {0}
<1>6. T # <<>> BY <1>3, <1>5, EmptySeq
<1>7. T[1].base = 1 BY <1>3, <1>5 DEF SegmentsOK
<1>8. \A i \in 1 .. n + 1 : SegmentOK(T[i], L) BY <1>1, <1>2, <1>3, <1>4, <1>5
<1>9. ASSUME NEW i \in 1 .. n PROVE SealedOK(T[i], L) /\ T[i + 1].base = Bound(T[i])
  <2>1. CASE i = n BY <1>2, <1>3, <2>1 DEF LastBound
  <2>2. CASE i \in 1 .. n - 1
    <3>1. SealedOK(S[i], L) /\ S[i + 1].base = Bound(S[i]) BY <1>2, <2>2 DEF SegmentsOK
    <3> QED BY <1>3, <1>5, <2>2, <3>1
  <2> QED BY <1>5, <2>1, <2>2
<1>10. SegmentsOK(T, L) BY <1>1, <1>3, <1>5, <1>6, <1>7, <1>8, <1>9 DEF SegmentsOK
<1>11. Longer(L, L) BY <1>1 DEF Longer
<1>12. \A i \in 1 .. n : Follows(S[i], T[i]) BY <1>1, <1>2, <1>3, <1>11, SealedKept
<1>13. LastBound(T) = LastBound(S) BY <1>3, <1>4 DEF LastBound
<1>14. Grew(S, L, T, L) BY <1>1, <1>2, <1>3, <1>5, <1>11, <1>12, <1>13 DEF Grew
<1> QED BY <1>2, <1>3, <1>4, <1>5, <1>10, <1>13, <1>14

--------------------
\* The writer's steps, on its active segment s.
LEMMA WriterFacts ==
    ASSUME NEW w, NEW s, NEW L \in Seq(Frame), NEW n, SegmentOK(s, L), WriterOK(w, s, L, n)
    PROVE  /\ w.offset \in Nat /\ w.drift \in Nat /\ w.put \in Nat /\ w.rolled \in BOOLEAN
           /\ n \in Nat
           /\ w.pc \in {"idle", "write", "sidecar", "publish"}
           /\ w.pc # "idle" =>
                /\ w.shape \in Shapes /\ Len(Layout(n, w.shape)) \in Nat
                /\ w.offset + Len(Layout(n, w.shape)) <= SegmentSize
                /\ w.put <= Len(Layout(n, w.shape))
           /\ w.pc \in {"idle", "write"} =>
                /\ s.flushed = w.offset /\ Spot(s, L, Bound(s)) = w.offset
                /\ Bound(s) - 1 = Len(L)
           /\ w.pc = "sidecar" =>
                /\ s.flushed = w.offset + Len(Layout(n, w.shape))
                /\ Spot(s, L, Bound(s)) = w.offset
                /\ Bound(s) - 1 + Len(w.shape) = Len(L)
           /\ w.pc = "publish" =>
                /\ s.flushed = w.offset + Len(Layout(n, w.shape))
                /\ Spot(s, L, Bound(s)) = w.offset + Len(Layout(n, w.shape))
                /\ Bound(s) - 1 = Len(L)
<1>1. /\ w.offset \in Nat /\ w.drift \in Nat /\ w.put \in Nat /\ w.rolled \in BOOLEAN
      /\ n \in Nat /\ w.pc \in {"idle", "write", "sidecar", "publish"}
  BY DEF WriterOK, WriterType
<1>2. ASSUME w.pc # "idle"
      PROVE  /\ w.shape \in Shapes /\ Len(Layout(n, w.shape)) \in Nat
             /\ w.offset + Len(Layout(n, w.shape)) <= SegmentSize
             /\ w.put <= Len(Layout(n, w.shape))
  <2>1. /\ w.shape \in Shapes
        /\ w.offset + Len(Layout(n, w.shape)) <= SegmentSize
        /\ w.put <= Len(Layout(n, w.shape))
    BY <1>2 DEF WriterOK
  <2>2. Len(Layout(n, w.shape)) \in Nat BY <1>1, <2>1, LayoutType
  <2> QED BY <2>1, <2>2
<1>3. Bound(s) \in Nat BY SegmentFacts
<1>4. ASSUME w.pc \in {"idle", "write"}
      PROVE  s.flushed = w.offset /\ Spot(s, L, Bound(s)) = w.offset /\ Bound(s) - 1 = Len(L)
  BY <1>1, <1>3, <1>4 DEF WriterOK
<1>5. ASSUME w.pc = "sidecar"
      PROVE  /\ s.flushed = w.offset + Len(Layout(n, w.shape))
             /\ Spot(s, L, Bound(s)) = w.offset
             /\ Bound(s) - 1 + Len(w.shape) = Len(L)
  BY <1>1, <1>3, <1>5 DEF WriterOK
<1>6. ASSUME w.pc = "publish"
      PROVE  /\ s.flushed = w.offset + Len(Layout(n, w.shape))
             /\ Spot(s, L, Bound(s)) = w.offset + Len(Layout(n, w.shape))
             /\ Bound(s) - 1 = Len(L)
  BY <1>1, <1>3, <1>6 DEF WriterOK
<1> QED BY <1>1, <1>2, <1>4, <1>5, <1>6

\* A batch begins, in this segment or in a fresh one.
LEMMA BeginOK ==
    ASSUME NEW s, NEW L \in Seq(Frame), SegmentOK(s, L), NEW n \in Nat, NEW at \in Nat,
           NEW shape \in Shapes, NEW rolled \in BOOLEAN, NEW drift \in Nat,
           Bound(s) - 1 = Len(L), Spot(s, L, Bound(s)) = at, s.flushed = at,
           at + Len(Layout(0, shape)) <= SegmentSize,
           NEW w, w = [pc |-> "write", shape |-> shape, put |-> 0, rolled |-> rolled,
                       offset |-> at, drift |-> drift]
    PROVE  WriterOK(w, s, L, n)
<1>1. Len(Layout(n, shape)) \in Nat /\ Len(Layout(n, shape)) = Len(Layout(0, shape))
  BY LayoutType
<1>2. Bound(s) \in Nat /\ Len(L) \in Nat BY SegmentFacts, LenProperties
<1>3. w \in WriterType BY DEF WriterType
<1>4. w.pc = "write" /\ w.offset = at /\ w.put = 0 /\ w.shape = shape OBVIOUS
<1>5. PendingIn(s, w, n) BY <1>4 DEF PendingIn
<1>6. Bound(s) - 1 + 0 = Len(L) /\ at + 0 = at BY <1>2
<1>7. 0 <= Len(Layout(n, shape)) /\ at + Len(Layout(n, shape)) <= SegmentSize BY <1>1
<1> QED BY <1>3, <1>4, <1>5, <1>6, <1>7 DEF WriterOK

LEMMA IdleOK ==
    ASSUME NEW s, NEW L \in Seq(Frame), SegmentOK(s, L), NEW n \in Nat, NEW at \in Nat,
           NEW drift \in Nat,
           Bound(s) - 1 = Len(L), Spot(s, L, Bound(s)) = at, s.flushed = at
    PROVE  WriterOK(IdleWriter(at, drift), s, L, n)
<1>1. Bound(s) \in Nat /\ Len(L) \in Nat BY SegmentFacts, LenProperties
<1>2. /\ IdleWriter(at, drift) \in WriterType /\ IdleWriter(at, drift).pc = "idle"
      /\ IdleWriter(at, drift).offset = at
  BY DEF IdleWriter, WriterType
<1>3. Bound(s) - 1 + 0 = Len(L) /\ at + 0 = at BY <1>1
<1> QED BY <1>2, <1>3 DEF WriterOK

\* One more cell of it reaches the page cache.
LEMMA WriteThroughOK ==
    ASSUME NEW s, NEW L \in Seq(Frame), SegmentOK(s, L), NEW n, NEW w, WriterOK(w, s, L, n),
           w.pc = "write", w.put < Len(Layout(n, w.shape)),
           NEW t, t = [s EXCEPT !.cells = Overwrite(s.cells, w.offset + w.drift + w.put,
                                                    <<Layout(n, w.shape)[w.put + 1]>>)],
           NEW v, v = [w EXCEPT !.put = @ + 1]
    PROVE  Keeps(s, t) /\ WriterOK(v, t, L, n)
<1>1. /\ w.offset \in Nat /\ w.drift \in Nat /\ w.put \in Nat /\ n \in Nat
      /\ w.shape \in Shapes /\ Len(Layout(n, w.shape)) \in Nat
      /\ w.offset + Len(Layout(n, w.shape)) <= SegmentSize
      /\ s.flushed = w.offset /\ Spot(s, L, Bound(s)) = w.offset
      /\ Bound(s) - 1 = Len(L)
  BY WriterFacts
<1>2. PICK at \in Nat, put \in Nat, size \in Nat, to \in Nat :
        at = w.offset /\ put = w.put /\ size = Len(Layout(n, w.shape))
        /\ put < size /\ at + size <= SegmentSize
        /\ to = w.offset + w.drift + w.put /\ to >= at + put /\ (w.drift = 0 => to = at + put)
  <2>1. PICK at \in Nat, put \in Nat, size \in Nat, drift \in Nat :
          /\ at = w.offset /\ put = w.put /\ size = Len(Layout(n, w.shape)) /\ drift = w.drift
          /\ put < size /\ at + size <= SegmentSize
    BY <1>1
  <2>2. PICK to \in Nat : to = at + drift + put OBVIOUS
  <2>3. to >= at + put /\ (drift = 0 => to = at + put) BY ONLY <2>2, at \in Nat, put \in Nat, drift \in Nat
  <2> QED BY <2>1, <2>2, <2>3
<1>3. /\ SegmentSize \in Nat /\ s.cells \in [0 .. SegmentSize - 1 -> CellType] /\ s \in SegmentType
      /\ Bound(s) \in Nat /\ Len(L) \in Nat
  BY SegmentFacts, LenProperties DEF SegmentOK
<1>4. PICK x \in CellType : x = Layout(n, w.shape)[put + 1]
  <2>1. Layout(n, w.shape) \in Seq(CellType) BY <1>1, LayoutType
  <2>2. put + 1 \in 1 .. Len(Layout(n, w.shape)) BY <1>2
  <2> QED BY <2>1, <2>2, ElementOfSeq
<1>5. PICK cells \in [0 .. SegmentSize - 1 -> CellType] :
        /\ cells = Overwrite(s.cells, to, <<x>>)
        /\ \A i \in 0 .. SegmentSize - 1 : cells[i] = IF i = to THEN x ELSE s.cells[i]
  <2>1. DOMAIN s.cells = 0 .. SegmentSize - 1 BY <1>3
  <2>2. ASSUME NEW i \in 0 .. SegmentSize - 1
        PROVE  (IF i \in to .. to + Len(<<x>>) - 1
                  THEN <<x>>[i - to + 1] ELSE s.cells[i])
                = IF i = to THEN x ELSE s.cells[i]
    <3>1. Len(<<x>>) = 1 /\ <<x>>[1] = x OBVIOUS
    <3>2. i \in to .. to + 1 - 1 <=> i = to
      BY ONLY to \in Nat
    <3>3. i = to => i - to + 1 = 1 OBVIOUS
    <3> QED BY <3>1, <3>2, <3>3
  <2>3. Overwrite(s.cells, to, <<x>>)
          = [i \in 0 .. SegmentSize - 1 |-> IF i = to THEN x ELSE s.cells[i]]
    BY <2>1, <2>2 DEF Overwrite
  <2>4. [i \in 0 .. SegmentSize - 1 |-> IF i = to THEN x ELSE s.cells[i]]
          \in [0 .. SegmentSize - 1 -> CellType]
    BY <1>3
  <2> QED BY <2>3, <2>4
<1>6. t = [s EXCEPT !.cells = cells] BY <1>2, <1>4, <1>5
<1>7. /\ t \in SegmentType /\ t.base = s.base /\ t.flushed = s.flushed
      /\ t.offsets = s.offsets /\ t.cells = cells
  BY <1>3, <1>6 DEF SegmentType
<1>8. Keeps(s, t)
  <2>1. \A c \in 0 .. at - 1 : c \in 0 .. SegmentSize - 1 /\ c # to BY <1>2, <1>3
  <2>2. \A c \in 0 .. s.flushed - 1 : t.cells[c] = s.cells[c]
    BY <1>1, <1>2, <1>5, <1>7, <2>1
  <2>3. s.flushed <= t.flushed BY <1>1, <1>7
  <2> QED BY <1>7, <2>2, <2>3 DEF Keeps
<1>9. Longer(L, L) BY <1>3 DEF Longer
<1>10. Bound(t) = Bound(s) /\ Spot(t, L, Bound(t)) = Spot(s, L, Bound(s))
  BY <1>8, <1>9, KeptFollows
<1>11. w \in WriterType BY DEF WriterOK
<1>12. /\ v \in WriterType /\ v.pc = "write" /\ v.put = put + 1 /\ v.offset = at
       /\ v.shape = w.shape /\ v.drift = w.drift
  <2>1. v = [w EXCEPT !.put = put + 1] /\ put + 1 \in Nat BY <1>2
  <2>2. v \in WriterType BY <1>11, <2>1 DEF WriterType
  <2>3. v.pc = w.pc /\ v.put = put + 1 /\ v.offset = w.offset /\ v.shape = w.shape
        /\ v.drift = w.drift
    BY <1>11, <2>1 DEF WriterType
  <2> QED BY <1>2, <2>2, <2>3
<1>13. ASSUME v.drift = 0 PROVE PendingIn(t, v, n)
  <2> SUFFICES ASSUME NEW j \in 1 .. put + 1
               PROVE  cells[at + j - 1] = Layout(n, w.shape)[j]
    BY <1>7, <1>12 DEF PendingIn
  <2>1. w.drift = 0 /\ to = at + put BY <1>2, <1>12, <1>13
  <2>2. at + j - 1 \in 0 .. SegmentSize - 1 /\ (at + j - 1 = at + put <=> j = put + 1)
        /\ (j # put + 1 => j \in 1 .. put)
    BY SMTT(40), <1>2, <1>3
  <2>3. CASE j = put + 1 BY <1>4, <1>5, <2>1, <2>2, <2>3
  <2>4. CASE j # put + 1
    <3>1. j \in 1 .. put BY <2>2, <2>4
    <3>2. s.cells[at + j - 1] = Layout(n, w.shape)[j]
      BY <1>2, <2>1, <3>1 DEF WriterOK, PendingIn
    <3> QED BY <1>5, <2>1, <2>2, <2>4, <3>2
  <2> QED BY <2>3, <2>4
<1>14. put + 1 <= size /\ at + 0 = at /\ Bound(s) - 1 + 0 = Len(L) BY <1>1, <1>2, <1>3
<1>15. WriterOK(v, t, L, n) BY <1>1, <1>2, <1>7, <1>10, <1>12, <1>13, <1>14 DEF WriterOK
<1> QED BY <1>8, <1>15

\* The whole of it is synced and committed.
LEMMA FramesType ==
    ASSUME NEW n \in Nat, NEW shape \in Shapes
    PROVE  /\ Frames(n, shape) \in Seq(Frame) /\ Len(Frames(n, shape)) = Len(shape)
           /\ \A i \in 1 .. Len(shape) : Frames(n, shape)[i] = Record(n, i, shape[i])
<1>1. Len(shape) \in Nat /\ DOMAIN shape = 1 .. Len(shape) BY ShapeType
<1>2. \A i \in 1 .. Len(shape) : Record(n, i, shape[i]) \in Frame BY ShapeType, FrameTypes
<1>3. Frames(n, shape) = [i \in 1 .. Len(shape) |-> Record(n, i, shape[i])]
  BY <1>1 DEF Frames
<1> QED BY <1>1, <1>2, <1>3

Synced(s, t, L, M, w, v, n) ==
    /\ w.pc = "write" /\ w.drift = 0 /\ w.put = Len(Layout(n, w.shape))
    /\ t = [s EXCEPT !.flushed = w.offset + Len(Layout(n, w.shape))]
    /\ M = L \o Frames(n, w.shape)
    /\ v = [w EXCEPT !.pc = "sidecar"]

LEMMA SyncOK ==
    ASSUME NEW s, NEW L \in Seq(Frame), SegmentOK(s, L), NEW n, NEW w, WriterOK(w, s, L, n),
           NEW t, NEW M, NEW v, Synced(s, t, L, M, w, v, n)
    PROVE  Keeps(s, t) /\ M \in Seq(Frame) /\ Longer(L, M) /\ WriterOK(v, t, M, n)
<1> SUFFICES ASSUME
        w.pc = "write", w.drift = 0, w.put = Len(Layout(n, w.shape)),
        t = [s EXCEPT !.flushed = w.offset + Len(Layout(n, w.shape))],
        M = L \o Frames(n, w.shape),
        v = [w EXCEPT !.pc = "sidecar"]
    PROVE  Keeps(s, t) /\ M \in Seq(Frame) /\ Longer(L, M) /\ WriterOK(v, t, M, n)
  BY DEF Synced
<1>1. /\ w.offset \in Nat /\ w.put \in Nat /\ n \in Nat
      /\ w.shape \in Shapes /\ Len(Layout(n, w.shape)) \in Nat
      /\ w.offset + Len(Layout(n, w.shape)) <= SegmentSize
      /\ s.flushed = w.offset /\ Spot(s, L, Bound(s)) = w.offset
      /\ Bound(s) - 1 = Len(L)
  BY WriterFacts
<1>2. PICK at \in Nat, size \in Nat :
        at = w.offset /\ size = Len(Layout(n, w.shape)) /\ at + size <= SegmentSize
  BY <1>1
<1>3. /\ SegmentSize \in Nat /\ s \in SegmentType /\ Bound(s) \in Nat /\ Len(L) \in Nat
      /\ HeaderSize \in Nat /\ HeaderSize <= s.flushed
  BY SegmentFacts, LenProperties DEF SegmentOK
<1>4. /\ t \in SegmentType /\ t.base = s.base /\ t.flushed = at + size
      /\ t.offsets = s.offsets /\ t.cells = s.cells
  <2>1. at + size \in HeaderSize .. SegmentSize BY <1>1, <1>2, <1>3
  <2>2. t = [s EXCEPT !.flushed = at + size] BY <1>2
  <2> QED BY <1>3, <2>1, <2>2 DEF SegmentType
<1>5. Keeps(s, t)
  <2>1. s.flushed <= t.flushed BY <1>1, <1>2, <1>4
  <2> QED BY <1>4, <2>1 DEF Keeps
<1>6. PICK m \in Nat, l \in Nat : m = Len(w.shape) /\ l = Len(L) BY <1>1, <1>3, ShapeType
<1>7. /\ M \in Seq(Frame) /\ Len(M) = l + m /\ Longer(L, M)
      /\ \A i \in 1 .. m : M[l + i] = Record(n, i, w.shape[i])
  <2>1. PICK f \in Seq(Frame) : f = Frames(n, w.shape) /\ Len(f) = m
                               /\ \A i \in 1 .. m : f[i] = Record(n, i, w.shape[i])
    BY <1>1, <1>6, FramesType
  <2>2. Len(L) = l /\ Len(f) = m BY <1>6, <2>1
  <2>3. /\ L \o f \in Seq(Frame) /\ Len(L \o f) = l + m /\ Longer(L, L \o f)
        /\ \A i \in 1 .. m : (L \o f)[l + i] = f[i]
    BY ONLY <2>2, ConcatFacts, L \in Seq(Frame), f \in Seq(Frame), l \in Nat, m \in Nat
  <2> QED BY <2>1, <2>3
<1>8. Bound(t) = Bound(s) /\ Spot(t, M, Bound(t)) = Spot(s, L, Bound(s))
  <2>1. M \in Seq(Frame) /\ Longer(L, M) BY <1>7
  <2> QED BY ONLY <1>5, <2>1, KeptFollows, SegmentOK(s, L), L \in Seq(Frame)
<1>9. w \in WriterType BY DEF WriterOK
<1>10. /\ v \in WriterType /\ v.pc = "sidecar" /\ v.put = size /\ v.offset = at
       /\ v.shape = w.shape /\ v.drift = 0
  <2>1. v \in WriterType BY <1>9 DEF WriterType
  <2>2. v.pc = "sidecar" /\ v.put = w.put /\ v.offset = w.offset /\ v.shape = w.shape
        /\ v.drift = w.drift
    BY <1>9 DEF WriterType
  <2> QED BY <1>2, <2>1, <2>2
<1>11. PendingIn(t, v, n) BY ZenonT(40), <1>2, <1>4, <1>10 DEF WriterOK, PendingIn
<1>12. Bound(t) - 1 = l /\ l + m = Len(M) BY <1>1, <1>6, <1>7, <1>8
<1>13. at + 0 = at OBVIOUS
<1>14. WriterOK(v, t, M, n)
  <2>1. \A i \in 1 .. Len(v.shape) : M[Bound(t) - 1 + i] = Record(n, i, v.shape[i])
    BY <1>6, <1>7, <1>10, <1>12
  <2>2. Bound(t) - 1 + Len(v.shape) = Len(M) BY <1>6, <1>10, <1>12
  <2>3. Spot(t, M, Bound(t)) = v.offset + 0 BY <1>1, <1>2, <1>8, <1>10, <1>13
  <2>4. t.flushed = v.offset + Len(Layout(n, v.shape)) /\ v.put = Len(Layout(n, v.shape))
        /\ v.offset + Len(Layout(n, v.shape)) <= SegmentSize
        /\ v.put <= Len(Layout(n, v.shape)) /\ v.shape \in Shapes
    BY <1>1, <1>2, <1>4, <1>10
  <2> QED BY <1>1, <1>10, <1>11, <2>1, <2>2, <2>3, <2>4 DEF WriterOK
<1> QED BY <1>5, <1>7, <1>14

\* The sidecar is extended.
Recorded(s, t, w, v) ==
    /\ w.pc = "sidecar"
    /\ t = [s EXCEPT !.offsets = s.offsets \o Offsets(w.offset, w.shape)]
    /\ v = [w EXCEPT !.pc = "publish"]

LEMMA ExtendOK ==
    ASSUME NEW s, NEW L \in Seq(Frame), SegmentOK(s, L), NEW n, NEW w, WriterOK(w, s, L, n),
           NEW t, NEW v, Recorded(s, t, w, v)
    PROVE  SegmentOK(t, L) /\ Follows(s, t) /\ Bound(s) <= Bound(t) /\ WriterOK(v, t, L, n)
<1> SUFFICES ASSUME
        w.pc = "sidecar",
        t = [s EXCEPT !.offsets = s.offsets \o Offsets(w.offset, w.shape)],
        v = [w EXCEPT !.pc = "publish"]
    PROVE  SegmentOK(t, L) /\ Follows(s, t) /\ Bound(s) <= Bound(t) /\ WriterOK(v, t, L, n)
  BY DEF Recorded
<1>1. /\ w.offset \in Nat /\ w.put \in Nat /\ n \in Nat
      /\ w.shape \in Shapes /\ Len(Layout(n, w.shape)) \in Nat
      /\ w.offset + Len(Layout(n, w.shape)) <= SegmentSize
      /\ w.put <= Len(Layout(n, w.shape))
      /\ s.flushed = w.offset + Len(Layout(n, w.shape))
      /\ Spot(s, L, Bound(s)) = w.offset
      /\ Bound(s) - 1 + Len(w.shape) = Len(L)
  BY WriterFacts
<1>2. PICK at \in Nat, shape \in Shapes, size \in Nat, m \in Nat :
        at = w.offset /\ shape = w.shape /\ size = Len(Layout(n, shape)) /\ m = Len(shape)
  BY <1>1, ShapeType
<1>3. /\ s \in SegmentType /\ Bound(s) \in Nat /\ s.flushed \in Nat /\ Len(L) \in Nat
      /\ s.offsets \in Seq(Nat)
  BY SegmentFacts, LenProperties DEF SegmentOK
<1>4. Placed(s.cells, at, n, shape) BY <1>2 DEF WriterOK, PendingIn, Placed
<1>5. \A i \in 1 .. Len(shape) : L[Bound(s) - 1 + i] = Record(n, i, shape[i])
  BY <1>2 DEF WriterOK
<1>6. /\ t \in SegmentType /\ t.base = s.base /\ t.flushed = s.flushed /\ t.cells = s.cells
      /\ t.offsets = s.offsets \o Offsets(at, shape)
  <2>1. Offsets(at, shape) \in Seq(Nat) BY <1>1, OffsetsType
  <2>2. s.offsets \o Offsets(at, shape) \in Seq(Nat) BY <1>3, <2>1, ConcatProperties
  <2> QED BY <1>2, <1>3, <2>2 DEF SegmentType
<1>7. at = Spot(s, L, Bound(s)) /\ at + Len(Layout(n, shape)) <= s.flushed
      /\ Bound(s) - 1 + Len(shape) <= Len(L)
  BY <1>1, <1>2, <1>3
<1>8. /\ SegmentOK(t, L) /\ Bound(t) = Bound(s) + Len(shape)
      /\ Spot(t, L, Bound(t)) = at + Len(Layout(n, shape))
      /\ \A p \in Positions(s) : p \in Positions(t) /\ Off(t, p) = Off(s, p)
  <2>1. n \in Nat BY <1>1
  <2>2. Extended(s, t, L, n, shape, at) BY <1>4, <1>5, <1>6, <1>7 DEF Extended
  <2> QED BY ONLY <2>1, <2>2, SidecarGrows, SegmentOK(s, L), L \in Seq(Frame), shape \in Shapes
<1>9. Follows(s, t)
  <2>1. s.flushed <= t.flushed BY <1>3, <1>6
  <2> QED BY <1>6, <1>8, <2>1 DEF Follows
<1>10. Bound(s) <= Bound(t) BY <1>2, <1>3, <1>8
<1>11. w \in WriterType BY DEF WriterOK
<1>12. v \in WriterType /\ v.pc = "publish" /\ v.put = w.put /\ v.offset = at /\ v.shape = shape
  <2>1. v \in WriterType BY <1>11 DEF WriterType
  <2>2. v.pc = "publish" /\ v.put = w.put /\ v.offset = w.offset /\ v.shape = w.shape
    BY <1>11 DEF WriterType
  <2> QED BY <1>2, <2>1, <2>2
<1>13. Bound(t) - 1 + 0 = Len(L)
  <2>1. Bound(s) \in Nat /\ m \in Nat /\ Bound(t) = Bound(s) + m /\ Bound(s) - 1 + m = Len(L)
    BY <1>1, <1>2, <1>3, <1>8
  <2> QED BY ONLY <2>1
<1>14. WriterOK(v, t, L, n) BY <1>1, <1>2, <1>6, <1>8, <1>12, <1>13 DEF WriterOK
<1> QED BY <1>8, <1>9, <1>10, <1>14

--------------------
\* The writer's actions.
WriterInv ==
    /\ SegmentsOK(segs, log)
    /\ WriterOK(writer, segs[Len(segs)], log, batches)
    /\ PublishedOK

Forward == Grew(segs, log, segs', log') /\ watermark <= watermark' /\ (lost => lost')

LEMMA StateFacts ==
    ASSUME WriterInv
    PROVE  /\ Len(segs) \in Nat \ {0} /\ log \in Seq(Frame) /\ segs \in Seq(SegmentType)
           /\ SegmentOK(segs[Len(segs)], log) /\ segs[Len(segs)] \in SegmentType
           /\ LastBound(segs) \in Nat \ {0} /\ watermark \in Nat /\ snap \in Nat
           /\ lost \in BOOLEAN /\ batches \in Nat /\ writer \in WriterType
           /\ Grew(segs, log, segs, log) /\ NextPosition = LastBound(segs)
<1>1. /\ Len(segs) \in Nat \ {0} /\ log \in Seq(Frame) /\ segs \in Seq(SegmentType)
      /\ SegmentOK(segs[Len(segs)], log) /\ LastBound(segs) \in Nat \ {0} /\ Len(log) \in Nat
      /\ \A i \in 1 .. Len(segs) : SegmentOK(segs[i], log)
  BY SegmentsFacts DEF WriterInv
<1>2. segs[Len(segs)] \in SegmentType BY <1>1 DEF SegmentOK
<1>3. batches \in Nat /\ writer \in WriterType BY DEF WriterInv, WriterOK
<1>4. watermark \in Nat /\ snap \in Nat /\ lost \in BOOLEAN
  BY <1>1 DEF WriterInv, PublishedOK
<1>5. Longer(log, log) BY <1>1 DEF Longer
<1>6. \A i \in 1 .. Len(segs) : Follows(segs[i], segs[i]) BY <1>1, <1>5, SealedKept
<1>7. Grew(segs, log, segs, log) BY <1>1, <1>5, <1>6 DEF Grew
<1>8. NextPosition = LastBound(segs) BY DEF NextPosition, LastBound, Bound
<1> QED BY <1>1, <1>2, <1>3, <1>4, <1>7, <1>8

\* The sync at the head of rollover finds nothing to flush.
LEMMA SameFlushed ==
    ASSUME NEW S \in Seq(SegmentType), NEW m \in 1 .. Len(S), NEW x, S[m].flushed = x
    PROVE  [S EXCEPT ![m].flushed = x] = S
<1>1. S[m] \in SegmentType BY ElementOfSeq
<1>2. [S[m] EXCEPT !.flushed = x] = S[m] BY <1>1 DEF SegmentType
<1>3. [S EXCEPT ![m].flushed = x] = [S EXCEPT ![m] = [S[m] EXCEPT !.flushed = x]] OBVIOUS
<1>4. [S EXCEPT ![m] = S[m]] = S OBVIOUS
<1> QED BY <1>2, <1>3, <1>4

LEMMA BeginKeeps ==
    ASSUME WriterInv, NEW shape \in Shapes, Begin(shape)
    PROVE  WriterInv' /\ Forward
<1>1. /\ Len(segs) \in Nat \ {0} /\ log \in Seq(Frame)
      /\ LastBound(segs) \in Nat \ {0} /\ watermark \in Nat /\ snap \in Nat
      /\ lost \in BOOLEAN /\ batches \in Nat
      /\ Grew(segs, log, segs, log) /\ NextPosition = LastBound(segs)
  BY StateFacts
<1>2. PICK s : s = segs[Len(segs)] /\ SegmentOK(s, log) /\ WriterOK(writer, s, log, batches)
  BY StateFacts DEF WriterInv
<1>3. writer.pc = "idle" BY DEF Begin, Idle
<1>4. /\ writer.offset \in Nat /\ writer.drift \in Nat /\ s.flushed = writer.offset
      /\ Spot(s, log, Bound(s)) = writer.offset /\ Bound(s) - 1 = Len(log)
  BY <1>1, <1>2, <1>3, WriterFacts
<1>5. /\ UNCHANGED <<snap, watermark, log, lost, astray, rd, faults>> /\ batches' = batches + 1
  BY DEF Begin
<1>6. batches' \in Nat BY <1>1, <1>5
<1>7. lost \/ snap = Len(segs) BY <1>3 DEF WriterInv, PublishedOK
<1>8. snap \in 1 .. Len(segs) /\ watermark \in 0 .. LastBound(segs) - 1
  BY DEF WriterInv, PublishedOK
<1>9. CASE writer.offset + Len(Layout(0, shape)) <= SegmentSize
  <2>1. segs' = segs BY <1>9 DEF Begin
  <2>2. writer' = [pc |-> "write", shape |-> shape, put |-> 0, rolled |-> FALSE,
                   offset |-> writer.offset, drift |-> writer.drift]
    BY <1>9 DEF Begin
  <2>3. WriterOK(writer', s, log, batches') BY <1>1, <1>2, <1>4, <1>6, <1>9, <2>2, BeginOK
  <2>4. WriterOK(writer', segs'[Len(segs')], log', batches') BY <1>2, <1>5, <2>1, <2>3
  <2>5. SegmentsOK(segs', log') BY <1>5, <2>1 DEF WriterInv
  <2>6. PublishedOK' BY <1>1, <1>5, <1>7, <1>8, <2>1 DEF PublishedOK
  <2>7. Forward BY <1>1, <1>5, <2>1 DEF Forward
  <2> QED BY <2>4, <2>5, <2>6, <2>7 DEF WriterInv
<1>10. CASE ~ (writer.offset + Len(Layout(0, shape)) <= SegmentSize)
  <2>1. segs' = Append(segs, NewSegment(LastBound(segs)))
    <3>1. segs' = Append([segs EXCEPT ![Len(segs)].flushed = writer.offset],
                         NewSegment(LastBound(segs)))
      BY <1>1, <1>10 DEF Begin, Active
    <3>2. PICK S \in Seq(SegmentType), m \in Nat, x \in Nat :
            /\ S = segs /\ m = Len(segs) /\ x = writer.offset /\ m \in 1 .. Len(S)
            /\ S[m] \in SegmentType /\ S[m].flushed = x
      BY <1>1, <1>2, <1>4, StateFacts
    <3>3. [S EXCEPT ![m].flushed = x] = S BY ONLY <3>2, SameFlushed, S \in Seq(SegmentType)
    <3> QED BY <3>1, <3>2, <3>3
  <2>2. writer' = [pc |-> "write", shape |-> shape, put |-> 0, rolled |-> TRUE,
                   offset |-> HeaderSize, drift |-> 0]
    BY <1>10 DEF Begin
  <2>3. PICK t \in SegmentType :
          /\ t = NewSegment(LastBound(segs)) /\ t.base = LastBound(segs)
          /\ t.offsets = <<>> /\ t.flushed = HeaderSize
    BY <1>1, NewSegmentType
  <2>4. SealedOK(segs[Len(segs)], log)
    <3>1. \A c \in writer.offset .. writer.offset - 1 : FALSE BY <1>4
    <3> QED BY <1>2, <1>4, <3>1 DEF SealedOK
  <2>5. /\ SegmentsOK(segs', log) /\ Grew(segs, log, segs', log)
        /\ Len(segs') = Len(segs) + 1 /\ segs'[Len(segs')] = t
        /\ LastBound(segs') = LastBound(segs) /\ Spot(t, log, Bound(t)) = HeaderSize
    <3>1. segs' = Append(segs, t) /\ SegmentsOK(segs, log) BY <2>1, <2>3 DEF WriterInv
    <3>2. PICK T : T = segs' /\ Sealed(segs, T, t) BY <2>3, <3>1 DEF Sealed
    <3>3. SegmentsOK(segs, log) /\ Sealed(segs, T, t) BY <3>1, <3>2
    <3>4. /\ SegmentsOK(T, log) /\ Grew(segs, log, T, log)
          /\ Len(T) = Len(segs) + 1 /\ T[Len(T)] = t
          /\ LastBound(T) = LastBound(segs) /\ Spot(t, log, Bound(t)) = HeaderSize
      BY ONLY <2>4, <3>3, ActiveSealed
    <3> QED BY <3>2, <3>4
  <2>6. SegmentOK(t, log) /\ Bound(t) - 1 = Len(log)
    <3>1. SegmentOK(t, log) BY <2>5, SegmentsFacts
    <3>2. Bound(t) = Bound(s) BY <1>2, <2>5 DEF LastBound
    <3> QED BY <1>4, <3>1, <3>2
  <2>7. HeaderSize \in Nat /\ HeaderSize + Len(Layout(0, shape)) <= SegmentSize
    BY ReadsAssumption, FitsAssumption
  <2>8. WriterOK(writer', t, log, batches')
    BY <1>1, <1>6, <2>2, <2>3, <2>5, <2>6, <2>7, BeginOK
  <2>9. WriterOK(writer', segs'[Len(segs')], log', batches') BY <1>5, <2>5, <2>8
  <2>10. PublishedOK'
    <3>1. snap' \in 1 .. Len(segs') /\ watermark' \in 0 .. LastBound(segs') - 1
          /\ Len(segs) = Len(segs') - 1 /\ watermark' < LastBound(segs)
      BY <1>1, <1>5, <1>8, <2>5
    <3>2. writer'.pc # "idle" /\ writer'.rolled BY <2>2
    <3>3. segs'[Len(segs')].base = LastBound(segs) BY <2>3, <2>5
    <3> QED BY <1>1, <1>5, <1>7, <3>1, <3>2, <3>3 DEF PublishedOK
  <2>11. Forward BY <1>1, <1>5, <2>5 DEF Forward
  <2> QED BY <1>5, <2>5, <2>9, <2>10, <2>11 DEF WriterInv
<1> QED BY <1>9, <1>10

\* A step that replaces the active segment and publishes nothing.
LEMMA ReplacingKeeps ==
    ASSUME WriterInv, NEW t, log' \in Seq(Frame), Longer(log, log'), SegmentOK(t, log'),
           Follows(segs[Len(segs)], t), Bound(segs[Len(segs)]) <= Bound(t),
           Replaced(segs, segs', t),
           WriterOK(writer', t, log', batches'),
           writer.pc # "idle", writer'.pc # "idle", writer'.rolled = writer.rolled,
           UNCHANGED <<snap, watermark, lost>>
    PROVE  WriterInv' /\ Forward
<1>1. /\ SegmentsOK(segs', log') /\ Grew(segs, log, segs', log')
      /\ Len(segs') = Len(segs) /\ segs'[Len(segs')] = t
  <2>1. PICK M, T : M = log' /\ T = segs' OBVIOUS
  <2>2. SegmentsOK(segs, log) /\ M \in Seq(Frame) /\ Longer(log, M) /\ SegmentOK(t, M)
    BY <2>1 DEF WriterInv
  <2>3. Replaced(segs, T, t) BY <2>1
  <2>4. /\ SegmentsOK(T, M) /\ Grew(segs, log, T, M) /\ Len(T) = Len(segs) /\ T[Len(T)] = t
    BY ONLY <2>2, <2>3, ActiveReplaced, Follows(segs[Len(segs)], t),
            Bound(segs[Len(segs)]) <= Bound(t)
  <2> QED BY <2>1, <2>4
<1>2. /\ LastBound(segs) \in Nat \ {0} /\ watermark \in Nat /\ Len(segs) \in Nat \ {0}
      /\ Bound(t) \in Nat /\ lost \in BOOLEAN
  BY StateFacts, SegmentFacts
<1>3. watermark \in 0 .. LastBound(segs') - 1
  <2>1. watermark \in 0 .. LastBound(segs) - 1 BY DEF WriterInv, PublishedOK
  <2>2. LastBound(segs') = Bound(t) /\ LastBound(segs) <= Bound(t) BY <1>1 DEF LastBound
  <2> QED BY <1>2, <2>1, <2>2
<1>4. segs'[Len(segs')].base = segs[Len(segs)].base BY <1>1 DEF Follows
<1>5. PublishedOK' BY <1>1, <1>3, <1>4 DEF WriterInv, PublishedOK
<1>6. Forward BY <1>1, <1>2 DEF Forward
<1> QED BY <1>1, <1>5, <1>6 DEF WriterInv

LEMMA WriteThroughKeeps ==
    ASSUME WriterInv, WriteThrough
    PROVE  WriterInv' /\ Forward
<1>1. log \in Seq(Frame) /\ Len(log) \in Nat BY StateFacts, LenProperties
<1>2. PICK s : s = segs[Len(segs)] /\ SegmentOK(s, log) /\ WriterOK(writer, s, log, batches)
  BY StateFacts DEF WriterInv
<1>3. PICK t : t = [s EXCEPT !.cells = Overwrite(s.cells, writer.offset + writer.drift + writer.put,
                                                 <<Layout(batches, writer.shape)[writer.put + 1]>>)]
  OBVIOUS
<1>4. PICK v : v = writer' /\ v = [writer EXCEPT !.put = @ + 1] BY DEF WriteThrough
<1>5. writer.pc = "write" /\ writer.put < Len(Layout(batches, writer.shape))
  BY DEF WriteThrough, Pending
<1>6. Keeps(s, t) /\ WriterOK(v, t, log, batches)
  BY <1>1, <1>2, <1>3, <1>4, <1>5, WriteThroughOK
<1>7. Longer(log, log) BY <1>1 DEF Longer
<1>8. SegmentOK(t, log) /\ Follows(s, t) /\ Bound(t) = Bound(s) /\ Bound(s) \in Nat
  BY <1>1, <1>2, <1>6, <1>7, KeptFollows, SegmentFacts
<1>9. Bound(s) <= Bound(t) BY <1>8
<1>10. Replaced(segs, segs', t) BY <1>2, <1>3 DEF Replaced, WriteThrough, Active, Pending
<1>11. writer'.pc = "write" /\ writer'.rolled = writer.rolled
  <2>1. writer \in WriterType BY StateFacts
  <2> QED BY <1>4, <1>5, <2>1 DEF WriterType
<1>12. UNCHANGED <<snap, watermark, log, lost, astray, batches>> BY DEF WriteThrough
<1>13. WriterOK(writer', t, log', batches') /\ SegmentOK(t, log') /\ Longer(log, log')
       /\ log' \in Seq(Frame)
  BY <1>1, <1>4, <1>6, <1>7, <1>8, <1>12
<1>14. /\ Follows(segs[Len(segs)], t) /\ Bound(segs[Len(segs)]) <= Bound(t)
       /\ writer.pc # "idle" /\ writer'.pc # "idle" /\ writer'.rolled = writer.rolled
       /\ UNCHANGED <<snap, watermark, lost>>
  BY <1>2, <1>5, <1>8, <1>9, <1>11, <1>12
<1> QED BY ONLY WriterInv, <1>10, <1>13, <1>14, ReplacingKeeps

LEMMA SyncKeeps ==
    ASSUME WriterInv, Sync, ~ astray'
    PROVE  WriterInv' /\ Forward
<1>1. log \in Seq(Frame) /\ Len(log) \in Nat BY StateFacts, LenProperties
<1>2. PICK s : s = segs[Len(segs)] /\ SegmentOK(s, log) /\ WriterOK(writer, s, log, batches)
  BY StateFacts DEF WriterInv
<1>3. PICK t, M, v :
        /\ t = [s EXCEPT !.flushed = writer.offset + Len(Layout(batches, writer.shape))]
        /\ M = log' /\ M = log \o Frames(batches, writer.shape)
        /\ v = writer' /\ v = [writer EXCEPT !.pc = "sidecar"]
  BY DEF Sync
<1>5. writer.pc = "write" /\ writer.drift = 0 /\ writer.put = Len(Layout(batches, writer.shape))
  BY DEF Sync, Pending
<1>6. Keeps(s, t) /\ M \in Seq(Frame) /\ Longer(log, M) /\ WriterOK(v, t, M, batches)
  <2>1. Synced(s, t, log, M, writer, v, batches) BY <1>3, <1>5 DEF Synced
  <2> QED BY ONLY <1>1, <1>2, <2>1, SyncOK
<1>8. SegmentOK(t, M) /\ Follows(s, t) /\ Bound(t) = Bound(s) /\ Bound(s) \in Nat
  <2>1. SegmentOK(t, M) /\ Follows(s, t) /\ Bound(t) = Bound(s)
    BY ONLY <1>1, <1>2, <1>6, KeptFollows
  <2> QED BY <1>1, <1>2, <2>1, SegmentFacts
<1>9. Bound(s) <= Bound(t) BY <1>8
<1>10. Replaced(segs, segs', t) BY <1>2, <1>3 DEF Replaced, Sync, Active, Pending
<1>11. writer'.pc = "sidecar" /\ writer'.rolled = writer.rolled
  <2>1. writer \in WriterType BY StateFacts
  <2> QED BY <1>3, <1>5, <2>1 DEF WriterType
<1>12. UNCHANGED <<snap, watermark, lost, batches>> BY DEF Sync
<1>13. WriterOK(writer', t, log', batches') /\ SegmentOK(t, log') /\ Longer(log, log')
       /\ log' \in Seq(Frame)
  BY <1>3, <1>6, <1>8, <1>12
<1>14. /\ Follows(segs[Len(segs)], t) /\ Bound(segs[Len(segs)]) <= Bound(t)
       /\ writer.pc # "idle" /\ writer'.pc # "idle" /\ writer'.rolled = writer.rolled
       /\ UNCHANGED <<snap, watermark, lost>>
  BY <1>2, <1>5, <1>8, <1>9, <1>11, <1>12
<1> QED BY ONLY WriterInv, <1>10, <1>13, <1>14, ReplacingKeeps

LEMMA ExtendKeeps ==
    ASSUME WriterInv, ExtendSidecar
    PROVE  WriterInv' /\ Forward
<1>1. log \in Seq(Frame) /\ Len(log) \in Nat BY StateFacts, LenProperties
<1>2. PICK s : s = segs[Len(segs)] /\ SegmentOK(s, log) /\ WriterOK(writer, s, log, batches)
  BY StateFacts DEF WriterInv
<1>3. PICK t, v :
        /\ t = [s EXCEPT !.offsets = s.offsets \o Offsets(writer.offset, writer.shape)]
        /\ v = writer' /\ v = [writer EXCEPT !.pc = "publish"]
  BY DEF ExtendSidecar
<1>5. writer.pc = "sidecar" BY DEF ExtendSidecar
<1>6. /\ SegmentOK(t, log) /\ Follows(s, t) /\ Bound(s) <= Bound(t)
      /\ WriterOK(v, t, log, batches)
  <2>1. Recorded(s, t, writer, v) BY <1>3, <1>5 DEF Recorded
  <2> QED BY ONLY <1>1, <1>2, <2>1, ExtendOK
<1>7. Longer(log, log) BY <1>1 DEF Longer
<1>10. Replaced(segs, segs', t) BY <1>2, <1>3 DEF Replaced, ExtendSidecar, Active
<1>11. writer'.pc = "publish" /\ writer'.rolled = writer.rolled
  <2>1. writer \in WriterType BY StateFacts
  <2> QED BY <1>3, <1>5, <2>1 DEF WriterType
<1>12. UNCHANGED <<snap, watermark, log, lost, batches>> BY DEF ExtendSidecar
<1>13. WriterOK(writer', t, log', batches') /\ SegmentOK(t, log') /\ Longer(log, log')
       /\ log' \in Seq(Frame)
  BY <1>1, <1>3, <1>6, <1>7, <1>12
<1>14. /\ Follows(segs[Len(segs)], t) /\ Bound(segs[Len(segs)]) <= Bound(t)
       /\ writer.pc # "idle" /\ writer'.pc # "idle" /\ writer'.rolled = writer.rolled
       /\ UNCHANGED <<snap, watermark, lost>>
  BY <1>2, <1>5, <1>6, <1>11, <1>12
<1> QED BY ONLY WriterInv, <1>10, <1>13, <1>14, ReplacingKeeps

\* The steps that leave the segments alone.
LEMMA FailKeeps ==
    ASSUME WriterInv, AppendFails \/ FirstWriteFails
    PROVE  WriterInv' /\ Forward
<1>1. /\ log \in Seq(Frame) /\ Grew(segs, log, segs, log) /\ watermark \in Nat
      /\ lost \in BOOLEAN /\ batches \in Nat /\ writer \in WriterType
  BY StateFacts
<1>2. PICK s : s = segs[Len(segs)] /\ SegmentOK(s, log) /\ WriterOK(writer, s, log, batches)
  BY StateFacts DEF WriterInv
<1>3. /\ writer.pc = "write"
      /\ lost' = (lost \/ writer.rolled) /\ UNCHANGED <<segs, snap, watermark, log, batches>>
  BY DEF AppendFails, FirstWriteFails, Fail
<1>4. /\ writer.offset \in Nat /\ s.flushed = writer.offset
      /\ Spot(s, log, Bound(s)) = writer.offset /\ Bound(s) - 1 = Len(log)
      /\ writer.rolled \in BOOLEAN /\ writer.drift \in Nat /\ writer.put \in Nat
  BY <1>1, <1>2, <1>3, WriterFacts
<1>5. PICK at \in Nat, drift \in Nat : at = writer.offset /\ writer' = IdleWriter(at, drift)
  <2>1. 0 \in Nat /\ writer.drift + writer.put \in Nat BY <1>4
  <2> QED BY <1>4, <2>1 DEF AppendFails, FirstWriteFails
<1>6. WriterOK(writer', segs'[Len(segs')], log', batches')
  <2>1. WriterOK(IdleWriter(at, drift), s, log, batches) BY <1>1, <1>2, <1>4, <1>5, IdleOK
  <2> QED BY <1>2, <1>3, <1>5, <2>1
<1>7. lost' \in BOOLEAN /\ (lost => lost') /\ (~ lost' => ~ lost /\ ~ writer.rolled)
  BY <1>1, <1>3, <1>4
<1>8. PublishedOK' BY <1>3, <1>7 DEF WriterInv, PublishedOK
<1>9. Forward BY <1>1, <1>3, <1>7 DEF Forward
<1> QED BY <1>3, <1>6, <1>8, <1>9 DEF WriterInv

LEMMA PublishSegmentsKeeps ==
    ASSUME WriterInv, PublishSegments
    PROVE  WriterInv' /\ Forward
<1>1. /\ Grew(segs, log, segs, log) /\ watermark \in Nat /\ writer \in WriterType
      /\ Len(segs) \in Nat \ {0}
  BY StateFacts
<1>2. /\ writer.pc = "publish" /\ writer' = [writer EXCEPT !.rolled = FALSE] /\ snap' = Len(segs)
      /\ UNCHANGED <<segs, watermark, log, lost, batches>>
  BY DEF PublishSegments, Active
<1>3. /\ writer' \in WriterType /\ writer'.pc = writer.pc /\ writer'.offset = writer.offset
      /\ writer'.shape = writer.shape /\ writer'.put = writer.put
      /\ writer'.drift = writer.drift
  BY <1>1, <1>2 DEF WriterType
<1>4. WriterOK(writer', segs[Len(segs)], log, batches)
  BY <1>3 DEF WriterInv, WriterOK, PendingIn
<1>5. PublishedOK' BY <1>1, <1>2 DEF WriterInv, PublishedOK
<1>6. Forward BY <1>1, <1>2 DEF Forward
<1> QED BY <1>2, <1>4, <1>5, <1>6 DEF WriterInv

LEMMA PublishWatermarkKeeps ==
    ASSUME WriterInv, PublishWatermark
    PROVE  WriterInv' /\ Forward
<1>1. /\ log \in Seq(Frame) /\ Grew(segs, log, segs, log) /\ watermark \in Nat
      /\ batches \in Nat /\ LastBound(segs) \in Nat \ {0} /\ NextPosition = LastBound(segs)
  BY StateFacts
<1>2. PICK s : s = segs[Len(segs)] /\ SegmentOK(s, log) /\ WriterOK(writer, s, log, batches)
  BY StateFacts DEF WriterInv
<1>3. /\ writer.pc = "publish" /\ ~ writer.rolled
      /\ writer' = IdleWriter(writer.offset + Len(Layout(batches, writer.shape)), writer.drift)
      /\ watermark' = NextPosition - 1
      /\ UNCHANGED <<segs, snap, log, lost, batches>>
  BY DEF PublishWatermark, Pending
<1>4. /\ writer.offset \in Nat /\ writer.drift \in Nat /\ Len(Layout(batches, writer.shape)) \in Nat
      /\ s.flushed = writer.offset + Len(Layout(batches, writer.shape))
      /\ Spot(s, log, Bound(s)) = writer.offset + Len(Layout(batches, writer.shape))
      /\ Bound(s) - 1 = Len(log)
  BY <1>1, <1>2, <1>3, WriterFacts
<1>5. PICK at \in Nat : at = writer.offset + Len(Layout(batches, writer.shape)) BY <1>4
<1>6. WriterOK(IdleWriter(at, writer.drift), s, log, batches) BY <1>1, <1>2, <1>4, <1>5, IdleOK
<1>7. WriterOK(writer', segs'[Len(segs')], log', batches') BY <1>2, <1>3, <1>5, <1>6
<1>8. watermark' \in 0 .. LastBound(segs) - 1 /\ watermark <= watermark'
  <2>1. watermark \in 0 .. LastBound(segs) - 1 BY DEF WriterInv, PublishedOK
  <2> QED BY <1>1, <1>3, <2>1
<1>9. PublishedOK' BY <1>3, <1>8 DEF WriterInv, PublishedOK
<1>10. Forward BY <1>1, <1>3, <1>8 DEF Forward
<1> QED BY <1>3, <1>7, <1>9, <1>10 DEF WriterInv

\* A rewind that fails leaves the records astray, which is where the invariant ends.
LEMMA WriterKeeps ==
    ASSUME WriterInv, WriterStep, ~ astray'
    PROVE  WriterInv' /\ Forward
<1>1. ASSUME NEW shape \in Shapes, Begin(shape) PROVE WriterInv' /\ Forward
  BY <1>1, BeginKeeps
<1>2. ~ RewindFails BY DEF RewindFails
<1> QED BY <1>1, <1>2, WriteThroughKeeps, SyncKeeps, FailKeeps, ExtendKeeps,
           PublishSegmentsKeeps, PublishWatermarkKeeps DEF WriterStep

\* A fresh log, and one reopened.
Overwritten(out, cells, at, new, n) ==
    /\ out \in [0 .. SegmentSize - 1 -> CellType]
    /\ \A j \in 1 .. n : out[at + j - 1] = new[j]
    /\ \A c \in at + n .. SegmentSize - 1 : out[c] = cells[c]

LEMMA OverwriteFacts ==
    ASSUME NEW cells \in [0 .. SegmentSize - 1 -> CellType], NEW new \in Seq(CellType),
           NEW at \in Nat, NEW n \in Nat, n = Len(new), at + n <= SegmentSize
    PROVE  Overwritten(Overwrite(cells, at, new), cells, at, new, n)
<1>1. SegmentSize \in Nat BY ReadsAssumption
<1>2. Overwrite(cells, at, new)
        = [i \in 0 .. SegmentSize - 1 |->
            IF i \in at .. at + n - 1 THEN new[i - at + 1] ELSE cells[i]]
  BY DEF Overwrite
<1>3. \A i \in at .. at + n - 1 : new[i - at + 1] \in CellType
  <2> SUFFICES ASSUME NEW i \in at .. at + n - 1 PROVE new[i - at + 1] \in CellType
    OBVIOUS
  <2>1. i - at + 1 \in 1 .. n BY ONLY at \in Nat, n \in Nat, i \in at .. at + n - 1
  <2> QED BY <2>1, ElementOfSeq
<1>4. Overwrite(cells, at, new) \in [0 .. SegmentSize - 1 -> CellType] BY <1>2, <1>3
<1>5. /\ \A j \in 1 .. n : /\ at + j - 1 \in 0 .. SegmentSize - 1 /\ at + j - 1 \in at .. at + n - 1
                         /\ (at + j - 1) - at + 1 = j
      /\ \A c \in at + n .. SegmentSize - 1 : c \in 0 .. SegmentSize - 1 /\ c \notin at .. at + n - 1
  BY ONLY <1>1, at \in Nat, n \in Nat, at + n <= SegmentSize
<1>6. ASSUME NEW j \in 1 .. n PROVE Overwrite(cells, at, new)[at + j - 1] = new[j]
  BY <1>2, <1>5
<1>7. ASSUME NEW c \in at + n .. SegmentSize - 1 PROVE Overwrite(cells, at, new)[c] = cells[c]
  BY <1>2, <1>5
<1> QED BY <1>4, <1>6, <1>7 DEF Overwritten

LEMMA ReopenedOK ==
    ASSUME NEW shape \in Shapes, NEW L, L = Frames(0, shape)
    PROVE  /\ L \in Seq(Frame) /\ Len(L) = Len(shape)
           /\ SegmentOK(Reopened(shape), L) /\ SealedOK(Reopened(shape), L)
           /\ Bound(Reopened(shape)) = Len(shape) + 1 /\ Reopened(shape).base = 1
<1>1. /\ L \in Seq(Frame) /\ Len(L) = Len(shape)
      /\ \A i \in 1 .. Len(shape) : L[i] = Record(0, i, shape[i])
  BY FramesType
<1>2. PICK m \in Nat \ {0}, size \in Nat, h \in Nat :
        /\ m = Len(shape) /\ size = Len(Layout(0, shape)) /\ h = HeaderSize
        /\ h + size <= SegmentSize
  <2>1. Len(shape) \in Nat \ {0} /\ Len(Layout(0, shape)) \in Nat /\ HeaderSize \in Nat
    BY ShapeType, LayoutType, ReadsAssumption
  <2> QED BY <2>1, FitsAssumption
<1>3. SegmentSize \in Nat /\ HeaderSize <= SegmentSize BY ReadsAssumption
<1>4. PICK zeroes \in [0 .. SegmentSize - 1 -> CellType] :
        zeroes = NewSegment(1).cells /\ \A c \in 0 .. SegmentSize - 1 : zeroes[c] = Zero
  <2>1. Zero \in CellType BY DEF Zero, CellType, Frame
  <2>2. NewSegment(1).cells = [i \in 0 .. SegmentSize - 1 |-> Zero] BY DEF NewSegment
  <2> QED BY <2>1, <2>2
<1>5. PICK cells \in [0 .. SegmentSize - 1 -> CellType] :
        /\ cells = Overwrite(zeroes, h, Layout(0, shape))
        /\ \A j \in 1 .. size : cells[h + j - 1] = Layout(0, shape)[j]
        /\ \A c \in h + size .. SegmentSize - 1 : cells[c] = zeroes[c]
  <2>1. PICK new \in Seq(CellType) : new = Layout(0, shape) /\ size = Len(new)
    <3>1. Layout(0, shape) \in Seq(CellType) BY LayoutType
    <3> QED BY <1>2, <3>1
  <2>2. h + size <= SegmentSize BY <1>2
  <2>3. Overwritten(Overwrite(zeroes, h, new), zeroes, h, new, size)
    BY ONLY <2>1, <2>2, OverwriteFacts, h \in Nat, size \in Nat, new \in Seq(CellType),
            zeroes \in [0 .. SegmentSize - 1 -> CellType]
  <2> QED BY <2>1, <2>3 DEF Overwritten
<1>6. PICK t : t = Reopened(shape) OBVIOUS
<1>7. t = [base |-> 1, cells |-> cells, flushed |-> SegmentSize, offsets |-> Offsets(h, shape)]
  BY <1>2, <1>4, <1>5, <1>6 DEF Reopened
<1>8. PICK s : s = [base |-> 1, cells |-> cells, flushed |-> SegmentSize, offsets |-> <<>>]
  OBVIOUS
<1>9. Offsets(h, shape) \in Seq(Nat) BY OffsetsType
<1>10. s \in SegmentType /\ t \in SegmentType
  <2>1. SegmentSize \in HeaderSize .. SegmentSize /\ <<>> \in Seq(Nat) /\ 1 \in Nat \ {0}
    BY <1>3, ReadsAssumption
  <2> QED BY <1>7, <1>8, <1>9, <2>1 DEF SegmentType
<1>11. SegmentOK(s, L) /\ Bound(s) = 1 /\ Spot(s, L, 1) = HeaderSize
  <2>1. s.base = 1 /\ s.offsets = <<>> /\ 1 \in Nat \ {0} /\ 1 <= Len(L) + 1
    BY <1>1, <1>2, <1>8
  <2> QED BY <1>1, <1>10, <2>1, FreshOK
<1>12. Extended(s, t, L, 0, shape, h)
  <2>1. h = Spot(s, L, Bound(s)) BY <1>2, <1>11
  <2>2. h + Len(Layout(0, shape)) <= s.flushed BY <1>2, <1>8
  <2>3. Placed(s.cells, h, 0, shape) BY <1>2, <1>5, <1>8 DEF Placed
  <2>4. Bound(s) - 1 + Len(shape) <= Len(L) BY <1>1, <1>2, <1>11
  <2>5. \A i \in 1 .. Len(shape) : L[Bound(s) - 1 + i] = Record(0, i, shape[i])
    <3>1. \A i \in 1 .. m : Bound(s) - 1 + i = i BY <1>11
    <3> QED BY <1>1, <1>2, <3>1
  <2>6. <<>> \o Offsets(h, shape) = Offsets(h, shape) BY <1>9, ConcatEmptySeq
  <2>7. t.base = s.base /\ t.cells = s.cells /\ t.flushed = s.flushed
        /\ t.offsets = s.offsets \o Offsets(h, shape)
    BY <1>7, <1>8, <2>6
  <2> QED BY <1>10, <2>1, <2>2, <2>3, <2>4, <2>5, <2>7 DEF Extended
<1>13. /\ SegmentOK(t, L) /\ Bound(t) = Bound(s) + Len(shape)
       /\ Spot(t, L, Bound(t)) = h + Len(Layout(0, shape))
  <2>1. PICK n \in Nat : n = 0 OBVIOUS
  <2>2. L \in Seq(Frame) /\ SegmentOK(s, L) /\ Extended(s, t, L, n, shape, h)
    BY <1>1, <1>11, <1>12, <2>1
  <2>3. /\ SegmentOK(t, L) /\ Bound(t) = Bound(s) + Len(shape)
        /\ Spot(t, L, Bound(t)) = h + Len(Layout(n, shape))
    BY ONLY <2>2, SidecarGrows, shape \in Shapes, n \in Nat, h \in Nat
  <2> QED BY <2>1, <2>3
<1>14. SealedOK(t, L)
  <2> SUFFICES ASSUME NEW c \in h + size .. SegmentSize - 1 PROVE cells[c] = Zero
    BY <1>2, <1>7, <1>13 DEF SealedOK
  <2>1. c \in 0 .. SegmentSize - 1 BY <1>3
  <2> QED BY <1>4, <1>5, <2>1
<1>15. Bound(t) = Len(shape) + 1 /\ t.base = 1 BY <1>2, <1>7, <1>11, <1>13
<1> QED BY <1>1, <1>6, <1>13, <1>14, <1>15

LEMMA InitWriter ==
    ASSUME Init
    PROVE  WriterInv
<1>1. /\ writer = IdleWriter(HeaderSize, 0) /\ snap = Len(segs) /\ watermark = Len(log)
      /\ lost = FALSE /\ batches = 0 /\ HeaderSize \in Nat
  BY ReadsAssumption DEF Init
<1>2. SUFFICES ASSUME /\ SegmentsOK(segs, log)
                      /\ \E b \in Nat \ {0} :
                          segs[Len(segs)] = NewSegment(b) /\ b = Len(log) + 1
               PROVE  WriterInv
  <2>1. CASE segs = <<NewSegment(1)>> /\ log = <<>>
    <3>1. PICK t \in SegmentType : t = NewSegment(1) /\ t.base = 1 /\ t.offsets = <<>>
      BY NewSegmentType
    <3>2. log \in Seq(Frame) /\ Len(log) = 0 BY <2>1
    <3>3. SegmentOK(t, log)
      <4>1. PICK b \in Nat \ {0} : b = 1 OBVIOUS
      <4>2. b <= Len(log) + 1 /\ t.base = b BY <3>1, <3>2, <4>1
      <4> QED BY <3>1, <3>2, <4>2, FreshOK
    <3>4. segs \in Seq(SegmentType) /\ Len(segs) = 1 /\ segs[1] = t /\ segs # <<>>
      BY <2>1, <3>1
    <3>5. SegmentsOK(segs, log) BY <3>1, <3>2, <3>3, <3>4 DEF SegmentsOK
    <3>6. segs[Len(segs)] = NewSegment(1) /\ 1 = Len(log) + 1 BY <3>1, <3>2, <3>4
    <3> QED BY <1>2, <3>5, <3>6
  <2>2. ASSUME NEW shape \in Shapes, segs = <<Reopened(shape), NewSegment(Len(shape) + 1)>>,
               log = Frames(0, shape)
        PROVE  WriterInv
    <3>1. PICK s : /\ s = Reopened(shape)
                   /\ SegmentOK(s, log) /\ SealedOK(s, log)
                   /\ Bound(s) = Len(shape) + 1 /\ s.base = 1
                   /\ log \in Seq(Frame) /\ Len(log) = Len(shape)
      BY <2>2, ReopenedOK
    <3>2. PICK b \in Nat \ {0} : b = Len(shape) + 1 BY ShapeType
    <3>3. PICK t \in SegmentType : t = NewSegment(b) /\ t.base = b /\ t.offsets = <<>>
      BY NewSegmentType
    <3>4. SegmentOK(t, log)
      <4>1. b <= Len(log) + 1 BY <3>1, <3>2
      <4> QED BY <3>1, <3>3, <4>1, FreshOK
    <3>5. /\ segs \in Seq(SegmentType) /\ Len(segs) = 2 /\ segs[1] = s /\ segs[2] = t
          /\ segs # <<>>
      <4>1. s \in SegmentType BY <3>1 DEF SegmentOK
      <4> QED BY <2>2, <3>1, <3>2, <3>3, <4>1
    <3>6. \A i \in 1 .. Len(segs) : SegmentOK(segs[i], log)
      <4>1. \A i \in 1 .. 2 : i = 1 \/ i = 2 OBVIOUS
      <4> QED BY <3>1, <3>4, <3>5, <4>1
    <3>7. \A i \in 1 .. Len(segs) - 1 : SealedOK(segs[i], log) /\ segs[i + 1].base = Bound(segs[i])
      <4>1. \A i \in 1 .. Len(segs) - 1 : i = 1 /\ i + 1 = 2 BY <3>5
      <4> QED BY <3>1, <3>2, <3>3, <3>5, <4>1
    <3>8. SegmentsOK(segs, log) BY <3>1, <3>5, <3>6, <3>7 DEF SegmentsOK
    <3>9. segs[Len(segs)] = NewSegment(b) /\ b = Len(log) + 1 BY <3>1, <3>2, <3>3, <3>5
    <3> QED BY <1>2, <3>8, <3>9
  <2> QED BY <2>1, <2>2 DEF Init
<1>3. PICK b \in Nat \ {0} : segs[Len(segs)] = NewSegment(b) /\ b = Len(log) + 1 BY <1>2
<1>4. PICK s \in SegmentType : /\ s = NewSegment(b) /\ s.base = b /\ s.offsets = <<>>
                               /\ s.flushed = HeaderSize
  BY NewSegmentType
<1>5. log \in Seq(Frame) /\ Len(log) \in Nat /\ Len(segs) \in Nat \ {0}
  BY <1>2, SegmentsFacts
<1>6. SegmentOK(s, log) /\ Bound(s) = b /\ Spot(s, log, b) = HeaderSize
  <2>1. b <= Len(log) + 1 BY <1>3, <1>5
  <2> QED BY <1>4, <1>5, <2>1, FreshOK
<1>7. WriterOK(IdleWriter(HeaderSize, 0), s, log, 0)
  <2>1. Bound(s) - 1 = Len(log) /\ Spot(s, log, Bound(s)) = HeaderSize /\ 0 \in Nat
    BY <1>3, <1>5, <1>6
  <2> QED BY <1>1, <1>4, <1>5, <1>6, <2>1, IdleOK
<1>8. PublishedOK
  <2>1. LastBound(segs) = Len(log) + 1 BY <1>3, <1>4, <1>6 DEF LastBound
  <2>2. snap \in 1 .. Len(segs) BY <1>1, <1>5
  <2>3. watermark \in 0 .. LastBound(segs) - 1 BY ONLY <1>1, <1>5, <2>1
  <2> QED BY <1>1, <2>2, <2>3 DEF PublishedOK
<1> QED BY <1>1, <1>2, <1>3, <1>4, <1>7, <1>8 DEF WriterInv

LEMMA WriterLeft ==
    ASSUME WriterInv,
           UNCHANGED <<segs, writer, snap, watermark, log, lost, batches>>
    PROVE  WriterInv' /\ Forward
<1>1. WriterInv' BY DEF WriterInv, PublishedOK
<1>2. Grew(segs, log, segs, log) /\ watermark \in Nat BY StateFacts
<1>3. Forward BY <1>2 DEF Forward
<1> QED BY <1>1, <1>3

LEMMA WriterInvStep == WriterInv /\ [Next]_vars /\ ~ astray' => WriterInv' /\ Forward
<1> SUFFICES ASSUME WriterInv, [Next]_vars, ~ astray' PROVE WriterInv' /\ Forward
  OBVIOUS
<1>1. CASE WriterStep BY <1>1, WriterKeeps
<1>2. CASE StartRead BY <1>2, WriterLeft DEF StartRead
<1>3. CASE ReaderStep BY <1>3, WriterLeft DEF ReaderStep
<1>4. CASE UNCHANGED vars BY <1>4, WriterLeft DEF vars
<1> QED BY <1>1, <1>2, <1>3, <1>4 DEF Next

\* What holds astray too: the cursor is never before the flushed offset, and nothing is written
\* before the cursor.
CursorOK ==
    /\ segs \in Seq(SegmentType) /\ segs # <<>> /\ writer \in WriterType /\ batches \in Nat
    /\ writer.offset <= SegmentSize
    /\ writer.pc \in {"idle", "write"} => segs[Len(segs)].flushed <= writer.offset
    /\ writer.pc # "idle" =>
        /\ writer.shape \in Shapes
        /\ writer.offset + Len(Layout(batches, writer.shape)) <= SegmentSize
        /\ writer.put <= Len(Layout(batches, writer.shape))
    /\ writer.pc \in {"sidecar", "publish"} =>
        segs[Len(segs)].flushed = writer.offset + Len(Layout(batches, writer.shape))

Held(s, t) ==
    s.flushed <= t.flushed /\ \A c \in 0 .. s.flushed - 1 : t.cells[c] = s.cells[c]

AllHeld(S, T) == Len(S) <= Len(T) /\ \A i \in 1 .. Len(S) : Held(S[i], T[i])

LEMMA SegmentsHeld ==
    ASSUME NEW S \in Seq(SegmentType), S # <<>>
    PROVE  /\ Len(S) \in Nat \ {0} /\ S[Len(S)] \in SegmentType
           /\ \A i \in 1 .. Len(S) : S[i] \in SegmentType /\ S[i].flushed \in Nat /\ Held(S[i], S[i])
           /\ AllHeld(S, S)
<1>1. Len(S) \in Nat \ {0} BY EmptySeq, LenProperties
<1>2. HeaderSize \in Nat BY ReadsAssumption
<1>3. ASSUME NEW i \in 1 .. Len(S)
      PROVE  S[i] \in SegmentType /\ S[i].flushed \in Nat /\ Held(S[i], S[i])
  <2>1. S[i] \in SegmentType BY <1>3, ElementOfSeq
  <2>2. S[i].flushed \in Nat BY <1>2, <2>1 DEF SegmentType
  <2> QED BY <2>1, <2>2 DEF Held
<1>4. Len(S) \in 1 .. Len(S) /\ Len(S) <= Len(S) BY <1>1
<1> QED BY <1>1, <1>3, <1>4 DEF AllHeld

LEMMA ReplacedHeld ==
    ASSUME NEW S \in Seq(SegmentType), S # <<>>, NEW t \in SegmentType, Held(S[Len(S)], t),
           NEW T, Replaced(S, T, t)
    PROVE  /\ T \in Seq(SegmentType) /\ T # <<>> /\ Len(T) = Len(S) /\ T[Len(T)] = t
           /\ AllHeld(S, T)
<1>1. PICK n \in Nat \ {0} : n = Len(S) BY SegmentsHeld
<1>2. T \in Seq(SegmentType) /\ Len(T) = n /\ T[n] = t /\ \A i \in 1 .. n : i # n => T[i] = S[i]
  BY <1>1 DEF Replaced
<1>3. T # <<>> BY <1>2, EmptySeq
<1>4. \A i \in 1 .. n : Held(S[i], T[i]) BY <1>1, <1>2, SegmentsHeld
<1> QED BY <1>1, <1>2, <1>3, <1>4 DEF AllHeld

LEMMA CursorFacts ==
    ASSUME CursorOK
    PROVE  /\ segs \in Seq(SegmentType) /\ segs # <<>> /\ Len(segs) \in Nat \ {0}
           /\ segs[Len(segs)] \in SegmentType /\ segs[Len(segs)].flushed \in Nat
           /\ HeaderSize \in Nat /\ SegmentSize \in Nat /\ HeaderSize <= SegmentSize
           /\ HeaderSize <= segs[Len(segs)].flushed
           /\ writer \in WriterType /\ batches \in Nat /\ NextPosition \in Nat \ {0}
           /\ writer.offset \in Nat /\ writer.drift \in Nat /\ writer.put \in Nat
           /\ writer.offset <= SegmentSize
           /\ writer.pc # "idle" => Len(Layout(batches, writer.shape)) \in Nat
           /\ AllHeld(segs, segs)
<1>1. /\ segs \in Seq(SegmentType) /\ segs # <<>> /\ writer \in WriterType /\ batches \in Nat
      /\ writer.offset <= SegmentSize
  BY DEF CursorOK
<1>2. /\ Len(segs) \in Nat \ {0} /\ segs[Len(segs)] \in SegmentType /\ AllHeld(segs, segs)
  BY <1>1, SegmentsHeld
<1>3. HeaderSize \in Nat /\ SegmentSize \in Nat /\ HeaderSize <= SegmentSize
  BY ReadsAssumption
<1>4. segs[Len(segs)].flushed \in Nat /\ HeaderSize <= segs[Len(segs)].flushed
  BY <1>2, <1>3 DEF SegmentType
<1>5. NextPosition \in Nat \ {0}
  <2>1. PICK s \in SegmentType : s = segs[Len(segs)] BY <1>2
  <2>2. s.base \in Nat \ {0} /\ Len(s.offsets) \in Nat BY LenProperties DEF SegmentType
  <2>3. NextPosition = s.base + Len(s.offsets) BY <2>1 DEF NextPosition
  <2> QED BY <2>2, <2>3
<1>6. writer.offset \in Nat /\ writer.drift \in Nat /\ writer.put \in Nat
  BY <1>1 DEF WriterType
<1>7. writer.pc # "idle" => Len(Layout(batches, writer.shape)) \in Nat
  BY <1>1, LayoutType DEF CursorOK
<1> QED BY <1>1, <1>2, <1>3, <1>4, <1>5, <1>6, <1>7

\* A batch that begins leaves the segments as they are, or seals the last one where the cursor is.
LEMMA CursorBegins ==
    ASSUME CursorOK, NEW shape \in Shapes, Begin(shape)
    PROVE  CursorOK' /\ AllHeld(segs, segs')
<1>1. /\ writer.pc = "idle" /\ batches' = batches + 1 /\ batches' \in Nat
  BY CursorFacts DEF Begin, Idle
<1>2. /\ Len(Layout(batches', shape)) = Len(Layout(0, shape)) /\ Len(Layout(0, shape)) \in Nat
  BY <1>1, LayoutType
<1>3. CASE writer.offset + Len(Layout(0, shape)) <= SegmentSize
  <2>1. segs' = segs BY <1>3 DEF Begin
  <2>2. writer' = [pc |-> "write", shape |-> shape, put |-> 0, rolled |-> FALSE,
                   offset |-> writer.offset, drift |-> writer.drift]
    BY <1>3 DEF Begin
  <2>3. /\ writer' \in WriterType /\ writer'.pc = "write" /\ writer'.offset = writer.offset
        /\ writer'.shape = shape /\ writer'.put = 0
    BY <2>2, CursorFacts DEF WriterType
  <2>4. segs[Len(segs)].flushed <= writer.offset BY <1>1 DEF CursorOK
  <2>5. 0 <= Len(Layout(batches', shape)) BY <1>2
  <2> QED BY <1>1, <1>2, <1>3, <2>1, <2>3, <2>4, <2>5, CursorFacts DEF CursorOK
<1>4. CASE ~ (writer.offset + Len(Layout(0, shape)) <= SegmentSize)
  <2>0. PICK S : S = segs OBVIOUS
  <2>1. PICK m \in Nat \ {0}, x \in Nat, b \in Nat \ {0} :
          /\ S \in Seq(SegmentType) /\ S # <<>>
          /\ S = segs /\ m = Len(S) /\ x = writer.offset /\ b = NextPosition
          /\ x <= SegmentSize /\ S[m].flushed <= x /\ S[m] \in SegmentType
          /\ HeaderSize <= S[m].flushed /\ S[m].flushed \in Nat
    <3>1. segs[Len(segs)].flushed <= writer.offset BY <1>1 DEF CursorOK
    <3>2. PICK m \in Nat \ {0}, x \in Nat, b \in Nat \ {0} :
            m = Len(segs) /\ x = writer.offset /\ b = NextPosition
      BY CursorFacts
    <3>3. /\ S \in Seq(SegmentType) /\ S # <<>> /\ m = Len(S) /\ x <= SegmentSize
          /\ S[m].flushed <= x /\ S[m] \in SegmentType /\ HeaderSize <= S[m].flushed
          /\ S[m].flushed \in Nat
      BY <2>0, <3>1, <3>2, CursorFacts
    <3> QED BY <2>0, <3>2, <3>3
  <2>2. segs' = Append([S EXCEPT ![m].flushed = x], NewSegment(b))
    BY <1>4, <2>1 DEF Begin, Active
  <2>3. PICK t \in SegmentType : t = [S[m] EXCEPT !.flushed = x] /\ Held(S[m], t)
    <3>1. HeaderSize \in Nat /\ SegmentSize \in Nat BY ReadsAssumption
    <3>2. x \in HeaderSize .. SegmentSize BY <2>1, <3>1
    <3>3. PICK t : t = [S[m] EXCEPT !.flushed = x] OBVIOUS
    <3>4. t \in SegmentType /\ t.flushed = x /\ t.cells = S[m].cells
      BY <2>1, <3>2, <3>3 DEF SegmentType
    <3> QED BY <2>1, <3>3, <3>4 DEF Held
  <2>4. PICK R : R = [S EXCEPT ![m].flushed = x] /\ Replaced(S, R, t)
    BY <2>1, <2>3 DEF Replaced
  <2>5. R \in Seq(SegmentType) /\ R # <<>> /\ Len(R) = m /\ AllHeld(S, R)
    BY <2>1, <2>3, <2>4, ReplacedHeld
  <2>6. PICK u \in SegmentType : u = NewSegment(b) /\ u.flushed = HeaderSize
    BY NewSegmentType
  <2>7. PICK T : T = segs' /\ T = Append(R, u) BY <2>2, <2>4, <2>6
  <2>8. /\ T \in Seq(SegmentType) /\ Len(T) = m + 1 /\ T[m + 1] = u
        /\ \A i \in 1 .. m : T[i] = R[i]
    BY <2>5, <2>7, AppendProperties
  <2>9. T # <<>> /\ m <= m + 1
    <3>1. m + 1 # 0 OBVIOUS
    <3> QED BY <2>8, <3>1, EmptySeq
  <2>10. AllHeld(S, T) BY <2>1, <2>5, <2>8, <2>9 DEF AllHeld
  <2>11. writer' = [pc |-> "write", shape |-> shape, put |-> 0, rolled |-> TRUE,
                    offset |-> HeaderSize, drift |-> 0]
    BY <1>4 DEF Begin
  <2>12. /\ writer' \in WriterType /\ writer'.pc = "write" /\ writer'.offset = HeaderSize
         /\ writer'.shape = shape /\ writer'.put = 0
    BY <2>11, CursorFacts DEF WriterType
  <2>13. /\ HeaderSize + Len(Layout(batches', shape)) <= SegmentSize /\ HeaderSize <= HeaderSize
         /\ 0 <= Len(Layout(batches', shape)) /\ HeaderSize <= SegmentSize
    BY <1>2, FitsAssumption, CursorFacts
  <2>14. segs'[Len(segs')].flushed = HeaderSize BY <2>6, <2>7, <2>8
  <2>15. segs' \in Seq(SegmentType) /\ segs' # <<>> BY <2>7, <2>8, <2>9
  <2> QED BY <1>1, <2>1, <2>7, <2>10, <2>12, <2>13, <2>14, <2>15 DEF CursorOK
<1> QED BY <1>3, <1>4

LEMMA CellWritten ==
    ASSUME NEW s \in SegmentType, NEW x \in CellType, NEW to \in Nat, s.flushed <= to,
           s.flushed \in Nat,
           NEW t, t = [s EXCEPT !.cells = Overwrite(s.cells, to, <<x>>)]
    PROVE  t \in SegmentType /\ Held(s, t) /\ t.flushed = s.flushed
<1>1. SegmentSize \in Nat /\ s.cells \in [0 .. SegmentSize - 1 -> CellType]
      /\ s.flushed \in HeaderSize .. SegmentSize
  BY ReadsAssumption DEF SegmentType
<1>2. PICK cells : cells = Overwrite(s.cells, to, <<x>>) OBVIOUS
<1>3. cells = [i \in 0 .. SegmentSize - 1 |->
                IF i \in to .. to + Len(<<x>>) - 1 THEN <<x>>[i - to + 1] ELSE s.cells[i]]
  BY <1>1, <1>2 DEF Overwrite
<1>4. /\ Len(<<x>>) = 1 /\ <<x>>[1] = x OBVIOUS
<1>5. ASSUME NEW i \in 0 .. SegmentSize - 1
      PROVE  cells[i] = IF i = to THEN x ELSE s.cells[i]
  <2>1. (i \in to .. to + 1 - 1 <=> i = to) /\ (i = to => i - to + 1 = 1)
    BY <1>1
  <2> QED BY <1>3, <1>4, <2>1
<1>6. cells \in [0 .. SegmentSize - 1 -> CellType]
  <2>1. cells = [i \in 0 .. SegmentSize - 1 |-> cells[i]] BY <1>3
  <2>2. \A i \in 0 .. SegmentSize - 1 : cells[i] \in CellType BY <1>1, <1>5
  <2> QED BY <2>1, <2>2
<1>7. t = [s EXCEPT !.cells = cells] BY <1>2
<1>8. t \in SegmentType /\ t.flushed = s.flushed /\ t.cells = cells
  BY <1>6, <1>7 DEF SegmentType
<1>9. \A c \in 0 .. s.flushed - 1 : c \in 0 .. SegmentSize - 1 /\ c # to BY <1>1
<1> QED BY <1>5, <1>8, <1>9 DEF Held

LEMMA CursorWrites ==
    ASSUME CursorOK, WriteThrough
    PROVE  CursorOK' /\ AllHeld(segs, segs')
<1>1. /\ writer.pc = "write" /\ writer.put < Len(Layout(batches, writer.shape))
      /\ writer' = [writer EXCEPT !.put = @ + 1] /\ batches' = batches
  BY DEF WriteThrough, Pending
<1>2. PICK s \in SegmentType, to \in Nat, at \in Nat, put \in Nat, size \in Nat :
        /\ s = segs[Len(segs)] /\ to = writer.offset + writer.drift + writer.put
        /\ at = writer.offset /\ put = writer.put /\ at <= to /\ s.flushed <= at
        /\ size = Len(Layout(batches, writer.shape)) /\ put < size
        /\ s.flushed \in Nat
  <2>1. PICK at \in Nat, drift \in Nat, put \in Nat :
          at = writer.offset /\ drift = writer.drift /\ put = writer.put
    BY CursorFacts
  <2>2. PICK to \in Nat : to = at + drift + put /\ at <= to OBVIOUS
  <2>3. segs[Len(segs)].flushed <= writer.offset BY <1>1 DEF CursorOK
  <2>4. PICK size \in Nat : size = Len(Layout(batches, writer.shape)) BY <1>1, CursorFacts
  <2> QED BY <1>1, <2>1, <2>2, <2>3, <2>4, CursorFacts
<1>3. PICK x \in CellType : x = Layout(batches, writer.shape)[writer.put + 1]
  <2>1. Layout(batches, writer.shape) \in Seq(CellType)
    BY <1>1, CursorFacts, LayoutType DEF CursorOK
  <2>2. writer.put + 1 \in 1 .. Len(Layout(batches, writer.shape)) BY <1>1, <1>2
  <2> QED BY <2>1, <2>2, ElementOfSeq
<1>4. PICK t : t = [s EXCEPT !.cells = Overwrite(s.cells, to, <<x>>)] OBVIOUS
<1>5. t \in SegmentType /\ Held(s, t) /\ t.flushed = s.flushed BY <1>2, <1>4, CellWritten
<1>6. Replaced(segs, segs', t) BY <1>2, <1>3, <1>4 DEF Replaced, WriteThrough, Active, Pending
<1>7. PICK S, T : S = segs /\ T = segs' OBVIOUS
<1>8. S \in Seq(SegmentType) /\ S # <<>> /\ Held(S[Len(S)], t) /\ Replaced(S, T, t)
  BY <1>2, <1>5, <1>6, <1>7, CursorFacts
<1>9. T \in Seq(SegmentType) /\ T # <<>> /\ Len(T) = Len(S) /\ T[Len(T)] = t /\ AllHeld(S, T)
  BY ONLY <1>5, <1>8, ReplacedHeld
<1>10. /\ writer' \in WriterType /\ writer'.pc = "write" /\ writer'.offset = writer.offset
       /\ writer'.shape = writer.shape /\ writer'.put = put + 1
  <2>1. put + 1 \in Nat OBVIOUS
  <2> QED BY <1>1, <1>2, <2>1, CursorFacts DEF WriterType
<1>11. put + 1 <= size BY <1>2
<1>12. segs' \in Seq(SegmentType) /\ segs' # <<>> /\ segs'[Len(segs')].flushed <= writer.offset
  BY <1>2, <1>5, <1>7, <1>9
<1>13. CursorOK' BY <1>1, <1>2, <1>10, <1>11, <1>12 DEF CursorOK
<1> QED BY <1>7, <1>9, <1>13

LEMMA CursorSyncs ==
    ASSUME CursorOK, Sync
    PROVE  CursorOK' /\ AllHeld(segs, segs')
<1>1. /\ writer.pc = "write" /\ writer' = [writer EXCEPT !.pc = "sidecar"] /\ batches' = batches
  BY DEF Sync
<1>2. PICK s \in SegmentType, at \in Nat, size \in Nat :
        /\ s = segs[Len(segs)] /\ at = writer.offset /\ s.flushed <= at
        /\ size = Len(Layout(batches, writer.shape)) /\ at + size <= SegmentSize
        /\ s.flushed \in Nat /\ HeaderSize <= s.flushed
  <2>1. /\ segs[Len(segs)].flushed <= writer.offset
        /\ writer.offset + Len(Layout(batches, writer.shape)) <= SegmentSize
    BY <1>1 DEF CursorOK
  <2>2. PICK size \in Nat : size = Len(Layout(batches, writer.shape)) BY <1>1, CursorFacts
  <2> QED BY <2>1, <2>2, CursorFacts
<1>3. PICK t : t = [s EXCEPT !.flushed = at + size] OBVIOUS
<1>4. t \in SegmentType /\ Held(s, t) /\ t.flushed = at + size
  <2>1. HeaderSize \in Nat /\ SegmentSize \in Nat BY ReadsAssumption
  <2>2. at + size \in HeaderSize .. SegmentSize /\ s.flushed <= at + size BY <1>2, <2>1
  <2>3. t \in SegmentType /\ t.flushed = at + size /\ t.cells = s.cells
    BY <1>3, <2>2 DEF SegmentType
  <2> QED BY <2>2, <2>3 DEF Held
<1>5. Replaced(segs, segs', t) BY <1>2, <1>3 DEF Replaced, Sync, Active, Pending
<1>6. PICK S, T : S = segs /\ T = segs' OBVIOUS
<1>7. S \in Seq(SegmentType) /\ S # <<>> /\ Held(S[Len(S)], t) /\ Replaced(S, T, t)
  BY <1>2, <1>4, <1>5, <1>6, CursorFacts
<1>8. T \in Seq(SegmentType) /\ T # <<>> /\ Len(T) = Len(S) /\ T[Len(T)] = t /\ AllHeld(S, T)
  BY ONLY <1>4, <1>7, ReplacedHeld
<1>9. /\ writer' \in WriterType /\ writer'.pc = "sidecar" /\ writer'.offset = writer.offset
      /\ writer'.shape = writer.shape /\ writer'.put = writer.put
  BY <1>1, CursorFacts DEF WriterType
<1>10. segs' \in Seq(SegmentType) /\ segs' # <<>>
       /\ segs'[Len(segs')].flushed = writer.offset + Len(Layout(batches, writer.shape))
  BY <1>2, <1>4, <1>6, <1>8
<1>11. CursorOK' BY <1>1, <1>9, <1>10, CursorFacts DEF CursorOK
<1> QED BY <1>6, <1>8, <1>11

LEMMA CursorExtends ==
    ASSUME CursorOK, ExtendSidecar
    PROVE  CursorOK' /\ AllHeld(segs, segs')
<1>1. /\ writer.pc = "sidecar" /\ writer' = [writer EXCEPT !.pc = "publish"]
      /\ batches' = batches
  BY DEF ExtendSidecar
<1>2. PICK s \in SegmentType, O \in Seq(Nat) :
        s = segs[Len(segs)] /\ O = Offsets(writer.offset, writer.shape) /\ s.flushed \in Nat
  <2>1. Offsets(writer.offset, writer.shape) \in Seq(Nat)
    BY <1>1, CursorFacts, OffsetsType DEF CursorOK
  <2> QED BY <2>1, CursorFacts
<1>3. PICK t : t = [s EXCEPT !.offsets = s.offsets \o O] OBVIOUS
<1>4. t \in SegmentType /\ Held(s, t) /\ t.flushed = s.flushed
  <2>1. s.offsets \o O \in Seq(Nat) BY ConcatProperties DEF SegmentType
  <2>2. t \in SegmentType /\ t.flushed = s.flushed /\ t.cells = s.cells
    BY <1>3, <2>1 DEF SegmentType
  <2> QED BY <1>2, <2>2 DEF Held
<1>5. Replaced(segs, segs', t) BY <1>2, <1>3 DEF Replaced, ExtendSidecar, Active
<1>6. PICK S, T : S = segs /\ T = segs' OBVIOUS
<1>7. S \in Seq(SegmentType) /\ S # <<>> /\ Held(S[Len(S)], t) /\ Replaced(S, T, t)
  BY <1>2, <1>4, <1>5, <1>6, CursorFacts
<1>8. T \in Seq(SegmentType) /\ T # <<>> /\ Len(T) = Len(S) /\ T[Len(T)] = t /\ AllHeld(S, T)
  BY ONLY <1>4, <1>7, ReplacedHeld
<1>9. /\ writer' \in WriterType /\ writer'.pc = "publish" /\ writer'.offset = writer.offset
      /\ writer'.shape = writer.shape /\ writer'.put = writer.put
  BY <1>1, CursorFacts DEF WriterType
<1>10. segs' \in Seq(SegmentType) /\ segs' # <<>>
       /\ segs'[Len(segs')].flushed = writer.offset + Len(Layout(batches, writer.shape))
  BY <1>1, <1>2, <1>4, <1>6, <1>8 DEF CursorOK
<1>11. CursorOK' BY <1>1, <1>9, <1>10, CursorFacts DEF CursorOK
<1> QED BY <1>6, <1>8, <1>11

\* The writer is idle again, behind the flushed offset.
LEMMA CursorIdles ==
    ASSUME CursorOK, NEW at \in Nat, NEW drift \in Nat, writer' = IdleWriter(at, drift),
           UNCHANGED <<segs, batches>>, segs[Len(segs)].flushed <= at, at <= SegmentSize
    PROVE  CursorOK' /\ AllHeld(segs, segs')
<1>1. writer' \in WriterType /\ writer'.pc = "idle" /\ writer'.offset = at
  BY DEF IdleWriter, WriterType
<1>2. AllHeld(segs, segs') BY CursorFacts
<1> QED BY <1>1, <1>2, CursorFacts DEF CursorOK

LEMMA CursorFails ==
    ASSUME CursorOK, AppendFails \/ FirstWriteFails \/ RewindFails
    PROVE  CursorOK' /\ AllHeld(segs, segs')
<1>1. writer.pc = "write" /\ UNCHANGED <<segs, batches>>
  BY DEF AppendFails, FirstWriteFails, RewindFails, Fail
<1>2. PICK at \in Nat, drift \in Nat, put \in Nat, size \in Nat, f \in Nat :
        /\ at = writer.offset /\ drift = writer.drift /\ put = writer.put
        /\ size = Len(Layout(batches, writer.shape)) /\ put <= size /\ at + size <= SegmentSize
        /\ f = segs[Len(segs)].flushed /\ f <= at
  BY <1>1, CursorFacts DEF CursorOK
<1>3. at <= SegmentSize BY CursorFacts, <1>2
<1>4. CASE AppendFails
  <2>1. 0 \in Nat /\ writer' = IdleWriter(at, 0) BY <1>2, <1>4 DEF AppendFails
  <2> QED BY <1>1, <1>2, <1>3, <2>1, CursorIdles
<1>5. CASE FirstWriteFails
  <2>1. PICK d \in Nat : d = drift + put OBVIOUS
  <2>2. writer' = IdleWriter(at, d) BY <1>2, <1>5, <2>1 DEF FirstWriteFails
  <2> QED BY <1>1, <1>2, <1>3, <2>2, CursorIdles
<1>6. CASE RewindFails
  <2>1. PICK end \in FrameEnds : end <= put /\ writer' = IdleWriter(at + end, drift + put - end)
    BY <1>2, <1>6 DEF RewindFails
  <2>2. end \in Nat
    <3>1. writer.shape \in Shapes BY <1>1 DEF CursorOK
    <3>2. DOMAIN writer.shape = 1 .. Len(writer.shape) /\ Len(writer.shape) \in Nat
      BY <3>1, ShapeType
    <3>3. ASSUME NEW i \in 1 .. Len(writer.shape)
          PROVE  Len(RecordCells(0, SubSeq(writer.shape, 1, i))) \in Nat
      <4>1. i \in 0 .. Len(writer.shape) /\ 0 \in Nat BY <3>2
      <4>2. RecordCells(0, SubSeq(writer.shape, 1, i)) = Pre(0, writer.shape, i)
        BY <3>1, <4>1, PreOfPrefix
      <4> QED BY <3>1, <4>1, <4>2, PreType
    <3>4. Len(Pending) \in Nat BY <1>2 DEF Pending
    <3> QED BY <2>1, <3>2, <3>3, <3>4 DEF FrameEnds
  <2>3. PICK a \in Nat, d \in Nat : a = at + end /\ d = drift + put - end /\ at <= a
                                   /\ a <= at + size
    <3>1. PICK e \in Nat : e = end /\ e <= put /\ put <= size BY <1>2, <2>1, <2>2
    <3>2. at + e \in Nat /\ drift + put - e \in Nat /\ at <= at + e /\ at + e <= at + size
      BY ONLY <3>1, at \in Nat, e \in Nat, drift \in Nat, put \in Nat, size \in Nat
    <3> QED BY <3>1, <3>2
  <2>4. f <= a /\ a <= SegmentSize
    <3>1. SegmentSize \in Nat BY ReadsAssumption
    <3> QED BY ONLY <1>2, <2>3, <3>1, f \in Nat, a \in Nat, at \in Nat, size \in Nat
  <2>5. writer' = IdleWriter(a, d) BY <2>1, <2>3
  <2> QED BY <1>1, <1>2, <2>4, <2>5, CursorIdles
<1> QED BY <1>4, <1>5, <1>6

LEMMA CursorPublishes ==
    ASSUME CursorOK, PublishSegments \/ PublishWatermark
    PROVE  CursorOK' /\ AllHeld(segs, segs')
<1>1. /\ writer.pc = "publish" /\ UNCHANGED <<segs, batches>>
      /\ segs[Len(segs)].flushed = writer.offset + Len(Layout(batches, writer.shape))
      /\ writer.offset + Len(Layout(batches, writer.shape)) <= SegmentSize
  BY DEF PublishSegments, PublishWatermark, CursorOK
<1>2. CASE PublishSegments
  <2>1. writer' = [writer EXCEPT !.rolled = FALSE] BY <1>2 DEF PublishSegments
  <2>2. /\ writer' \in WriterType /\ writer'.pc = writer.pc /\ writer'.offset = writer.offset
        /\ writer'.shape = writer.shape /\ writer'.put = writer.put
    BY <2>1, CursorFacts DEF WriterType
  <2>3. CursorOK' BY <1>1, <2>2 DEF CursorOK
  <2> QED BY <1>1, <2>3, CursorFacts
<1>3. CASE PublishWatermark
  <2>1. PICK at \in Nat, drift \in Nat :
          /\ at = writer.offset + Len(Layout(batches, writer.shape)) /\ drift = writer.drift
    BY <1>1, CursorFacts
  <2>2. writer' = IdleWriter(at, drift) BY <1>3, <2>1 DEF PublishWatermark, Pending
  <2>3. segs[Len(segs)].flushed <= at /\ at <= SegmentSize BY <1>1, <2>1
  <2> QED BY <1>1, <2>2, <2>3, CursorIdles
<1> QED BY <1>2, <1>3

LEMMA CursorStep == CursorOK /\ [Next]_vars => CursorOK' /\ AllHeld(segs, segs')
<1> SUFFICES ASSUME CursorOK, [Next]_vars PROVE CursorOK' /\ AllHeld(segs, segs')
  OBVIOUS
<1>1. ASSUME NEW shape \in Shapes, Begin(shape) PROVE CursorOK' /\ AllHeld(segs, segs')
  BY <1>1, CursorBegins
<1>2. CASE WriterStep
  BY <1>1, <1>2, CursorWrites, CursorSyncs, CursorExtends, CursorFails, CursorPublishes
     DEF WriterStep
<1>3. CASE UNCHANGED <<segs, writer, batches>>
  <2>1. CursorOK' BY <1>3 DEF CursorOK
  <2>2. AllHeld(segs, segs') BY <1>3, CursorFacts
  <2> QED BY <2>1, <2>2
<1>4. StartRead \/ ReaderStep \/ UNCHANGED vars => UNCHANGED <<segs, writer, batches>>
  BY DEF StartRead, ReaderStep, vars
<1> QED BY <1>2, <1>3, <1>4 DEF Next

LEMMA InitCursor == Init => CursorOK
<1> SUFFICES ASSUME Init PROVE CursorOK
  OBVIOUS
<1>1. WriterInv /\ writer = IdleWriter(HeaderSize, 0) BY InitWriter DEF Init
<1>2. PICK s : s = segs[Len(segs)] /\ SegmentOK(s, log) /\ WriterOK(writer, s, log, batches)
  BY <1>1, StateFacts DEF WriterInv
<1>3. /\ log \in Seq(Frame) /\ segs \in Seq(SegmentType) /\ writer \in WriterType /\ batches \in Nat
      /\ segs # <<>>
  BY <1>1, StateFacts DEF WriterInv, SegmentsOK
<1>4. writer.pc = "idle" /\ writer.offset = HeaderSize BY <1>1 DEF IdleWriter
<1>5. s.flushed = HeaderSize BY <1>2, <1>3, <1>4, WriterFacts
<1>6. HeaderSize \in Nat /\ HeaderSize <= SegmentSize /\ HeaderSize <= HeaderSize
  BY ReadsAssumption
<1> QED BY <1>2, <1>3, <1>4, <1>5, <1>6 DEF CursorOK

\* Content below a segment's flushed offset never changes and the offset never moves back
\* (Writer::sync, Writer::rewind_to), for batches, failures and rollovers without bound, also once
\* records have gone astray.
THEOREM FlushedStays == Spec => FlushedIsImmutable
<1>1. Init => CursorOK BY InitCursor
<1>2. CursorOK /\ [Next]_vars => CursorOK' BY CursorStep
<1>3. CursorOK /\ [Next]_vars =>
        [\A i \in DOMAIN segs :
            /\ segs'[i].flushed >= segs[i].flushed
            /\ \A c \in HeaderSize .. segs[i].flushed - 1 :
                segs'[i].cells[c] = segs[i].cells[c]]_vars
  <2> SUFFICES ASSUME CursorOK, [Next]_vars, NEW i \in DOMAIN segs
               PROVE  /\ segs'[i].flushed >= segs[i].flushed
                      /\ \A c \in HeaderSize .. segs[i].flushed - 1 :
                            segs'[i].cells[c] = segs[i].cells[c]
    OBVIOUS
  <2>1. CursorOK' /\ AllHeld(segs, segs') BY CursorStep
  <2>2. PICK S, T : S = segs /\ T = segs' OBVIOUS
  <2>3. /\ S \in Seq(SegmentType) /\ S # <<>> /\ T \in Seq(SegmentType) /\ T # <<>>
        /\ AllHeld(S, T) /\ i \in 1 .. Len(S)
    BY <2>1, <2>2 DEF CursorOK
  <2>4. /\ Len(S) \in Nat /\ Len(T) \in Nat /\ Len(S) <= Len(T)
        /\ S[i].flushed \in Nat /\ Held(S[i], T[i])
    BY <2>3, SegmentsHeld DEF AllHeld
  <2>5. i \in 1 .. Len(T) BY <2>3, <2>4
  <2>6. T[i].flushed \in Nat BY <2>3, <2>5, SegmentsHeld
  <2>7. T[i].flushed >= S[i].flushed BY <2>4, <2>6 DEF Held
  <2>8. \A c \in HeaderSize .. S[i].flushed - 1 : c \in 0 .. S[i].flushed - 1
    BY <2>4, ReadsAssumption
  <2>9. \A c \in HeaderSize .. S[i].flushed - 1 : T[i].cells[c] = S[i].cells[c]
    BY <2>4, <2>8 DEF Held
  <2> QED BY <2>2, <2>7, <2>9
<1> QED BY <1>1, <1>2, <1>3, PTL DEF Spec, FlushedIsImmutable

--------------------
\* A read under way when the writer takes a step. Of the positions it may want, the segments S it
\* knows hold what they held.
SameFor(S, L, T, M, i, p) ==
    /\ Holds(T[i], p) <=> Holds(S[i], p)
    /\ Holds(S[i], p) => Off(T[i], p) = Off(S[i], p) /\ Behind(T[i], M, p) = Behind(S[i], L, p)
    /\ (i < Len(T) /\ p >= T[i + 1].base) <=> (i < Len(S) /\ p >= S[i + 1].base)
    /\ p \in S[i].base .. Bound(S[i]) =>
        p \in T[i].base .. Bound(T[i]) /\ Spot(T[i], M, p) = Spot(S[i], L, p)

SameAt(S, T, i) ==
    /\ i \in 1 .. Len(T)
    /\ T[i].base = S[i].base /\ S[i].flushed <= T[i].flushed
    /\ Len(S[i].offsets) <= Len(T[i].offsets)
    /\ \A c \in 0 .. S[i].flushed - 1 : T[i].cells[c] = S[i].cells[c]
    /\ i < Len(S) => T[i] = S[i]

LEMMA GrewAt ==
    ASSUME NEW S, NEW L, NEW T, NEW M, SegmentsOK(S, L), SegmentsOK(T, M), Grew(S, L, T, M),
           NEW i \in 1 .. Len(S)
    PROVE  SameAt(S, T, i) /\ Bound(S[i]) <= Bound(T[i])
<1>1. PICK n \in Nat \ {0}, m \in Nat \ {0} : n = Len(S) /\ m = Len(T) /\ n <= m
  BY SegmentsFacts DEF Grew
<1>2. i \in 1 .. n /\ i \in 1 .. m BY <1>1
<1>3. SegmentOK(S[i], L) /\ SegmentOK(T[i], M) /\ L \in Seq(Frame) /\ M \in Seq(Frame)
  BY <1>1, <1>2, SegmentsFacts
<1>4. Follows(S[i], T[i]) BY DEF Grew
<1>5. T[i] = S[i] \/ (i = n /\ n = m)
  <2>1. CASE i < n
    <3>1. i \in 1 .. Len(S) - 1 BY <1>1, <1>2, <2>1
    <3> QED BY <3>1 DEF Grew
  <2>2. CASE i = n /\ n < m BY <1>1, <2>2 DEF Grew
  <2> QED BY <1>1, <1>2, <2>1, <2>2
<1>6. Bound(S[i]) <= Bound(T[i])
  <2>1. CASE T[i] = S[i]
    <3>1. Bound(S[i]) \in Nat BY <1>3, SegmentFacts
    <3> QED BY <2>1, <3>1
  <2>2. CASE i = n /\ n = m BY <1>1, <2>2 DEF Grew, LastBound
  <2> QED BY <1>5, <2>1, <2>2
<1>7. Len(S[i].offsets) <= Len(T[i].offsets)
  <2>1. PICK b \in Nat, k \in Nat, l \in Nat :
          /\ b = S[i].base /\ b = T[i].base /\ k = Len(S[i].offsets) /\ l = Len(T[i].offsets)
    <3>1. S[i].base = T[i].base BY <1>4 DEF Follows
    <3>2. S[i].base \in Nat /\ Len(S[i].offsets) \in Nat /\ Len(T[i].offsets) \in Nat
      BY <1>3, SegmentFacts
    <3> QED BY <3>1, <3>2
  <2>2. b + k <= b + l BY <1>6, <2>1 DEF Bound
  <2>3. k <= l BY ONLY <2>2, b \in Nat, k \in Nat, l \in Nat
  <2> QED BY <2>1, <2>3
<1>8. i < Len(S) => T[i] = S[i] BY <1>1, <1>2, <1>5
<1> QED BY <1>1, <1>2, <1>4, <1>6, <1>7, <1>8 DEF SameAt, Follows

LEMMA GrewFor ==
    ASSUME NEW S, NEW L, NEW T, NEW M, SegmentsOK(S, L), SegmentsOK(T, M), Grew(S, L, T, M),
           NEW i \in 1 .. Len(S), NEW p \in 1 .. LastBound(S) - 1
    PROVE  SameFor(S, L, T, M, i, p) /\ p \in 1 .. Len(L) /\ M[p] = L[p]
<1>1. PICK n \in Nat \ {0}, m \in Nat \ {0}, last \in Nat \ {0} :
        n = Len(S) /\ m = Len(T) /\ n <= m /\ last = LastBound(S)
  BY SegmentsFacts DEF Grew
<1>2. i \in 1 .. n /\ i \in 1 .. m /\ p \in Nat /\ p < last BY <1>1
<1>3. SegmentOK(S[i], L) /\ SegmentOK(T[i], M) /\ L \in Seq(Frame) /\ M \in Seq(Frame)
  BY <1>1, <1>2, SegmentsFacts
<1>4. p \in 1 .. Len(L) /\ M[p] = L[p]
  <2>1. Len(L) \in Nat /\ last <= Len(L) + 1 BY <1>1, SegmentsFacts
  <2>2. p \in 1 .. Len(L) BY <1>2, <2>1
  <2> QED BY <2>2 DEF Grew, Longer
<1>5. Follows(S[i], T[i]) BY DEF Grew
<1>6. PICK b \in Nat, e \in Nat, f \in Nat :
        b = S[i].base /\ b = T[i].base /\ e = Bound(S[i]) /\ f = Bound(T[i]) /\ b <= e /\ e <= f
  <2>1. S[i].base = T[i].base BY <1>5 DEF Follows
  <2>2. S[i].base \in Nat /\ Bound(S[i]) \in Nat /\ Bound(T[i]) \in Nat /\ S[i].base <= Bound(S[i])
    BY <1>3, SegmentFacts
  <2>3. Bound(S[i]) <= Bound(T[i]) BY GrewAt
  <2> QED BY <2>1, <2>2, <2>3
<1>7. i < n => T[i] = S[i] BY <1>1, GrewAt DEF SameAt
<1>8. i = n => e = last BY <1>1, <1>6 DEF LastBound
<1>9. Holds(T[i], p) <=> Holds(S[i], p)
  <2>1. CASE i < n BY <1>7, <2>1
  <2>2. CASE i = n
    <3>1. (p \in b .. e - 1) <=> (p \in b .. f - 1) BY <1>2, <1>6, <1>8, <2>2
    <3> QED BY <1>6, <3>1 DEF Holds, Positions
  <2> QED BY <1>2, <2>1, <2>2
<1>10. Holds(S[i], p) => Off(T[i], p) = Off(S[i], p) /\ Behind(T[i], M, p) = Behind(S[i], L, p)
  BY <1>4, <1>5 DEF Follows, Holds, Behind
<1>11. (i < Len(T) /\ p >= T[i + 1].base) <=> (i < Len(S) /\ p >= S[i + 1].base)
  <2>1. CASE i < n
    <3>1. i + 1 \in 1 .. Len(S) BY <1>1, <1>2, <2>1
    <3>2. T[i + 1].base = S[i + 1].base BY <3>1 DEF Grew, Follows
    <3> QED BY <1>1, <1>2, <2>1, <3>2
  <2>2. CASE i = n
    <3>1. CASE n < m
      <4>1. i \in 1 .. Len(T) - 1 BY <1>1, <1>2, <2>2, <3>1
      <4>2. T[i + 1].base = Bound(T[i]) BY <4>1 DEF SegmentsOK
      <4>3. T[i] = S[i] BY <1>1, <2>2, <3>1 DEF Grew
      <4>4. T[i + 1].base = last BY <1>6, <1>8, <2>2, <4>2, <4>3
      <4> QED BY <1>1, <1>2, <2>2, <4>4
    <3>2. CASE n = m BY <1>1, <2>2, <3>2
    <3> QED BY <1>1, <3>1, <3>2
  <2> QED BY <1>2, <2>1, <2>2
<1>12. ASSUME p \in b .. e PROVE p \in b .. f /\ Spot(T[i], M, p) = Spot(S[i], L, p)
  <2>1. p \in b .. f BY <1>2, <1>6, <1>12
  <2>2. CASE p < e
    <3>1. p < f BY <1>2, <1>6, <2>2
    <3>2. Holds(S[i], p)
      <4>1. p \in b .. e - 1 BY <1>6, <1>12, <2>2
      <4> QED BY <1>6, <4>1 DEF Holds, Positions
    <3>3. Spot(S[i], L, p) = Off(S[i], p) /\ Spot(T[i], M, p) = Off(T[i], p)
      BY <1>6, <2>2, <3>1 DEF Spot
    <3> QED BY <1>10, <2>1, <3>2, <3>3
  <2>3. CASE p = e
    <3>1. i < n BY <1>2, <1>8, <2>3
    <3>2. Longer(L, M) /\ S[i] \in SegmentType /\ S[i].flushed \in Nat
      BY <1>3, SegmentFacts DEF Grew, SegmentOK
    <3>3. Keeps(S[i], S[i]) BY <3>2 DEF Keeps
    <3>4. PICK s : s = S[i] OBVIOUS
    <3>5. p \in s.base .. Bound(s) BY <1>6, <1>12, <3>4
    <3>6. SegmentOK(s, L) /\ Keeps(s, s) BY <1>3, <3>3, <3>4
    <3>7. Spot(s, M, p) = Spot(s, L, p) BY ONLY <1>3, <3>2, <3>5, <3>6, SegmentKept
    <3> QED BY <1>7, <2>1, <3>1, <3>4, <3>7
  <2> QED BY <1>2, <1>6, <1>12, <2>2, <2>3
<1>13. p \in S[i].base .. Bound(S[i]) =>
        p \in T[i].base .. Bound(T[i]) /\ Spot(T[i], M, p) = Spot(S[i], L, p)
  BY <1>6, <1>12
<1> QED BY <1>4, <1>9, <1>10, <1>11, <1>13 DEF SameFor

LEMMA ReadTypes ==
    ASSUME NEW r \in ReadType
    PROVE  /\ r.want \in Seq(Nat) /\ Len(r.want) \in Nat
           /\ r.out \in Seq(Frame) /\ Len(r.out) \in Nat
           /\ \A m \in 1 .. Len(r.want) : r.want[m] \in Nat
           /\ r.view \in Nat /\ r.seg \in Nat /\ r.off \in Nat /\ r.ext \in Nat
           /\ r.count \in Nat /\ r.lo \in Nat /\ r.buf.at \in Nat
           /\ r.buf.cells \in Seq(CellType) /\ Len(r.buf.cells) \in Nat
           /\ r.buf \in [at : Nat, cells : Seq(CellType)]
           /\ More(r) => Len(r.out) + 1 \in 1 .. Len(r.want)
<1>1. r.want \in Seq(Nat) /\ r.out \in Seq(Frame) BY DEF ReadType
<1>2. r.buf \in [at : Nat, cells : Seq(CellType)] BY DEF ReadType
<1>3. r.buf.at \in Nat /\ r.buf.cells \in Seq(CellType) BY <1>2
<1>4. Len(r.want) \in Nat /\ Len(r.out) \in Nat /\ Len(r.buf.cells) \in Nat
  BY <1>1, <1>3, LenProperties
<1>5. \A m \in 1 .. Len(r.want) : r.want[m] \in Nat BY <1>1, ElementOfSeq
<1>6. /\ r.view \in Nat /\ r.seg \in Nat /\ r.off \in Nat /\ r.ext \in Nat
      /\ r.count \in Nat /\ r.lo \in Nat
  BY DEF ReadType
<1>7. More(r) => Len(r.out) + 1 \in 1 .. Len(r.want) BY <1>4 DEF More
<1> QED BY <1>1, <1>2, <1>3, <1>4, <1>5, <1>6, <1>7

\* What the writer does between two of its steps leaves a read in order.
Moved(r, S, L, T, M) ==
    /\ \A m \in 1 .. Len(r.want) : r.want[m] \in 1 .. LastBound(S) - 1
    /\ \A m \in 1 .. Len(r.want) :
        r.seg # 0 => SameFor(S, L, T, M, r.seg, r.want[m])
    /\ \A m \in 1 .. Len(r.want) : M[r.want[m]] = L[r.want[m]]
    /\ r.seg # 0 => SameAt(S, T, r.seg) /\ SegmentOK(S[r.seg], L)

LEMMA ReadMoved ==
    ASSUME NEW S, NEW L, NEW T, NEW M, SegmentsOK(S, L), SegmentsOK(T, M), Grew(S, L, T, M),
           NEW r \in ReadType, WantOK(r, S), r.seg <= Len(S)
    PROVE  Moved(r, S, L, T, M)
<1>1. r.seg \in Nat /\ Len(S) \in Nat BY ReadTypes, SegmentsFacts
<1>2. \A m \in 1 .. Len(r.want) : r.want[m] \in 1 .. LastBound(S) - 1 BY DEF WantOK
<1>3. Len(S) \in 1 .. Len(S) BY SegmentsFacts
<1>4. \A m \in 1 .. Len(r.want) : M[r.want[m]] = L[r.want[m]] BY <1>2, <1>3, GrewFor
<1>5. r.seg # 0 => r.seg \in 1 .. Len(S) BY <1>1
<1>6. \A m \in 1 .. Len(r.want) : r.seg # 0 => SameFor(S, L, T, M, r.seg, r.want[m])
  BY <1>2, <1>5, GrewFor
<1>7. r.seg # 0 => SameAt(S, T, r.seg) /\ SegmentOK(S[r.seg], L)
  BY <1>5, GrewAt, SegmentsFacts
<1> QED BY <1>2, <1>4, <1>6, <1>7 DEF Moved

LEMMA SoundMoved ==
    ASSUME NEW S, NEW L, NEW T, NEW M, NEW r, r.seg # 0, Moved(r, S, L, T, M), NEW c
    PROVE  Sound(r, T, M, c) => Sound(r, S, L, c)
<1> SUFFICES ASSUME NEW m \in 1 .. Len(r.want),
                    \/ Holds(T[r.seg], r.want[m]) /\ c < Behind(T[r.seg], M, r.want[m])
                    \/ r.seg < Len(T) /\ r.want[m] >= T[r.seg + 1].base
             PROVE  \/ Holds(S[r.seg], r.want[m]) /\ c < Behind(S[r.seg], L, r.want[m])
                    \/ r.seg < Len(S) /\ r.want[m] >= S[r.seg + 1].base
  BY DEF Sound
<1>1. SameFor(S, L, T, M, r.seg, r.want[m]) BY DEF Moved
<1> QED BY <1>1 DEF SameFor

LEMMA BufMoved ==
    ASSUME NEW S, NEW L \in Seq(Frame), NEW T, NEW M, NEW r \in ReadType, r.seg <= Len(S),
           Len(S) \in Nat,
           Moved(r, S, L, T, M), BufOK(r, S, L)
    PROVE  BufOK(r, T, M)
<1> SUFFICES ASSUME r.seg # 0, NEW i \in 1 .. Len(r.buf.cells),
                    Sound(r, T, M, r.buf.at + i - 1)
             PROVE  r.buf.cells[i] = T[r.seg].cells[r.buf.at + i - 1]
  BY DEF BufOK
<1>1. PICK c \in Nat : c = r.buf.at + i - 1
  <2>1. r.buf.at \in Nat /\ Len(r.buf.cells) \in Nat BY ReadTypes
  <2> QED BY <2>1
<1>2. Sound(r, S, L, c) BY <1>1, SoundMoved
<1>3. r.buf.cells[i] = S[r.seg].cells[c] BY <1>1, <1>2 DEF BufOK
<1>4. SameAt(S, T, r.seg) /\ SegmentOK(S[r.seg], L) BY DEF Moved
<1>5. PICK m \in 1 .. Len(r.want) :
        \/ Holds(S[r.seg], r.want[m]) /\ c < Behind(S[r.seg], L, r.want[m])
        \/ r.seg < Len(S) /\ r.want[m] >= S[r.seg + 1].base
  BY <1>2 DEF Sound
<1>6. CASE Holds(S[r.seg], r.want[m]) /\ c < Behind(S[r.seg], L, r.want[m])
  <2>1. /\ Behind(S[r.seg], L, r.want[m]) \in Nat /\ S[r.seg].flushed \in Nat /\ MarkerLen \in Nat
        /\ Behind(S[r.seg], L, r.want[m]) + MarkerLen <= S[r.seg].flushed
    BY <1>4, <1>6, PositionFacts, SegmentFacts DEF Holds
  <2>2. PICK b \in Nat, f \in Nat, k \in Nat :
          /\ b = Behind(S[r.seg], L, r.want[m]) /\ f = S[r.seg].flushed /\ k = MarkerLen
          /\ b + k <= f /\ c < b
    BY <1>6, <2>1
  <2>3. c \in 0 .. f - 1 BY ONLY <2>2, c \in Nat, b \in Nat, f \in Nat, k \in Nat
  <2> QED BY <1>1, <1>3, <1>4, <2>2, <2>3 DEF SameAt
<1>7. CASE r.seg < Len(S) BY <1>1, <1>3, <1>4, <1>7 DEF SameAt
<1> QED BY <1>5, <1>6, <1>7

LEMMA SpotMoved ==
    ASSUME NEW S, NEW L \in Seq(Frame), NEW T, NEW M, NEW r \in ReadType, r.seg # 0,
           Moved(r, S, L, T, M), More(r), AtSpot(r, S[r.seg], L)
    PROVE  AtSpot(r, T[r.seg], M)
<1>1. PICK m \in 1 .. Len(r.want) : r.want[m] = At(r) BY ReadTypes DEF At
<1>2. SameFor(S, L, T, M, r.seg, At(r)) /\ SameAt(S, T, r.seg) /\ SegmentOK(S[r.seg], L)
  BY <1>1 DEF Moved
<1>3. At(r) \in S[r.seg].base .. Bound(S[r.seg]) BY DEF AtSpot
<1>4. /\ At(r) \in T[r.seg].base .. Bound(T[r.seg])
      /\ Spot(T[r.seg], M, At(r)) = Spot(S[r.seg], L, At(r))
  BY <1>2, <1>3 DEF SameFor
<1>5. CASE r.off = Spot(S[r.seg], L, At(r)) BY <1>4, <1>5 DEF AtSpot
<1>6. CASE r.off + MarkerLen = Spot(S[r.seg], L, At(r)) /\ MarkerAt(S[r.seg], r.off)
  <2>1. /\ r.off \in Nat /\ MarkerLen \in Nat \ {0} /\ S[r.seg].flushed \in Nat
        /\ Spot(S[r.seg], L, At(r)) <= S[r.seg].flushed
    BY <1>2, <1>3, ReadTypes, SegmentFacts, SpotFacts
  <2>2. r.off \in 0 .. S[r.seg].flushed - 1 BY <1>6, <2>1
  <2>3. T[r.seg].cells[r.off] = S[r.seg].cells[r.off] BY <1>2, <2>2 DEF SameAt
  <2> QED BY <1>4, <1>6, <2>3 DEF AtSpot, MarkerAt
<1> QED BY <1>5, <1>6 DEF AtSpot

LEMMA ExtentMoved ==
    ASSUME NEW S, NEW L \in Seq(Frame), NEW T, NEW M, NEW r \in ReadType, r.seg # 0,
           Moved(r, S, L, T, M), SegmentsOK(T, M), ExtentOK(r, S, L)
    PROVE  ExtentOK(r, T, M)
<1>1. SameAt(S, T, r.seg) /\ SegmentOK(S[r.seg], L) BY DEF Moved
<1>2. r.ext <= T[r.seg].flushed
  <2>1. r.ext \in Nat /\ S[r.seg].flushed \in Nat BY <1>1, ReadTypes, SegmentFacts
  <2>2. T[r.seg].flushed \in Nat BY <1>1, SegmentsFacts DEF SameAt
  <2>3. r.ext <= S[r.seg].flushed /\ S[r.seg].flushed <= T[r.seg].flushed
    BY <1>1 DEF ExtentOK, SameAt
  <2> QED BY <2>1, <2>2, <2>3
<1>3. ASSUME NEW m \in 1 .. Len(r.want)
      PROVE  /\ Holds(T[r.seg], r.want[m]) => Behind(T[r.seg], M, r.want[m]) <= r.ext
             /\ r.seg < Len(T) /\ r.want[m] >= T[r.seg + 1].base => r.ext = T[r.seg].flushed
  <2>1. SameFor(S, L, T, M, r.seg, r.want[m]) BY DEF Moved
  <2>2. /\ Holds(S[r.seg], r.want[m]) => Behind(S[r.seg], L, r.want[m]) <= r.ext
        /\ r.seg < Len(S) /\ r.want[m] >= S[r.seg + 1].base => r.ext = S[r.seg].flushed
    BY DEF ExtentOK
  <2>3. r.seg < Len(S) => T[r.seg] = S[r.seg] BY <1>1 DEF SameAt
  <2> QED BY <2>1, <2>2, <2>3 DEF SameFor
<1> QED BY <1>2, <1>3 DEF ExtentOK

LEMMA WindowMoved ==
    ASSUME NEW S, NEW L, NEW T, NEW M, NEW r \in ReadType, r.seg # 0,
           Moved(r, S, L, T, M), WindowOK(r, S[r.seg], L)
    PROVE  WindowOK(r, T[r.seg], M)
<1> SUFFICES ASSUME r.lo # 0, NEW m \in Len(r.out) + 1 .. Len(r.want), r.want[m] >= r.lo
             PROVE  /\ Holds(T[r.seg], r.want[m])
                    /\ r.buf.at <= Off(T[r.seg], r.want[m])
                    /\ Behind(T[r.seg], M, r.want[m]) <= r.buf.at + Len(r.buf.cells)
  BY DEF WindowOK
<1>1. m \in 1 .. Len(r.want) BY ReadTypes
<1>2. SameFor(S, L, T, M, r.seg, r.want[m]) BY <1>1 DEF Moved
<1>3. /\ Holds(S[r.seg], r.want[m])
      /\ r.buf.at <= Off(S[r.seg], r.want[m])
      /\ Behind(S[r.seg], L, r.want[m]) <= r.buf.at + Len(r.buf.cells)
  BY DEF WindowOK
<1> QED BY <1>2, <1>3 DEF SameFor

LEMMA CoversMoved ==
    ASSUME NEW S, NEW L, NEW T, NEW M, SegmentsOK(S, L), SegmentsOK(T, M), Grew(S, L, T, M),
           NEW r \in ReadType, WantOK(r, S), Covers(r, S)
    PROVE  Covers(r, T)
<1>1. PICK n \in Nat \ {0}, m \in Nat \ {0}, v \in Nat, last \in Nat :
        n = Len(S) /\ m = Len(T) /\ n <= m /\ v = r.view /\ last = LastBound(S)
  BY SegmentsFacts, ReadTypes DEF Grew
<1>2. \A k \in 1 .. Len(r.want) : r.want[k] < last /\ r.want[k] \in Nat BY <1>1 DEF WantOK
<1>3. CASE v = n /\ n < m
  <2>1. n \in 1 .. Len(T) - 1 BY <1>1, <1>3
  <2>2. T[n + 1].base = Bound(T[n]) BY <2>1 DEF SegmentsOK
  <2>3. T[n] = S[n] BY <1>1, <1>3 DEF Grew
  <2>4. T[n + 1].base = last BY <1>1, <2>2, <2>3 DEF LastBound
  <2> QED BY <1>1, <1>2, <1>3, <2>4 DEF Covers
<1>4. CASE v < n
  <2>1. v + 1 \in 1 .. Len(S) BY <1>1, <1>4
  <2>2. T[v + 1].base = S[v + 1].base BY <2>1 DEF Grew, Follows
  <2>3. \A k \in 1 .. Len(r.want) : r.want[k] < S[v + 1].base BY <1>1, <1>4 DEF Covers
  <2> QED BY <1>1, <1>4, <2>2, <2>3 DEF Covers
<1>5. CASE v = n /\ n = m BY <1>1, <1>5 DEF Covers
<1>6. v = n \/ v < n BY <1>1 DEF Covers
<1> QED BY <1>1, <1>3, <1>4, <1>5, <1>6

LEMMA ReadKept ==
    ASSUME NEW S, NEW L, NEW T, NEW M, SegmentsOK(S, L), SegmentsOK(T, M), Grew(S, L, T, M),
           NEW r, NEW a \in BOOLEAN, NEW b \in BOOLEAN, b => a, ReadOK(r, S, L, a)
    PROVE  ReadOK(r, T, M, b)
<1>1. r \in ReadType /\ WantOK(r, S) /\ OutOK(r, L) /\ BufOK(r, S, L) /\ r.seg <= Len(S)
  BY DEF ReadOK
<1>2. Moved(r, S, L, T, M) BY <1>1, ReadMoved
<1>3. PICK n \in Nat \ {0}, m \in Nat \ {0}, last \in Nat, end \in Nat :
        /\ n = Len(S) /\ m = Len(T) /\ n <= m
        /\ last = LastBound(S) /\ end = LastBound(T) /\ last <= end
  BY SegmentsFacts DEF Grew
<1>4. L \in Seq(Frame) /\ M \in Seq(Frame) BY SegmentsFacts
<1>5. r.seg \in Nat /\ r.view \in Nat /\ r.seg <= n /\ r.seg <= m
  <2>1. r.seg \in Nat /\ r.view \in Nat /\ r.seg <= n BY <1>1, <1>3, ReadTypes
  <2> QED BY <1>3, <2>1
<1>6. WantOK(r, T)
  <2>1. \A k \in 1 .. last - 1 : k \in 1 .. end - 1 BY <1>3
  <2> QED BY <1>1, <1>3, <2>1 DEF WantOK
<1>7. OutOK(r, M)
  <2>1. Len(r.out) <= Len(r.want) /\ Len(r.out) \in Nat /\ Len(r.want) \in Nat
    BY <1>1, ReadTypes DEF OutOK
  <2>2. \A k \in 1 .. Len(r.out) : k \in 1 .. Len(r.want) BY <2>1
  <2> QED BY <1>1, <1>2, <2>1, <2>2 DEF OutOK, Moved
<1>8. BufOK(r, T, M) BY <1>1, <1>2, <1>3, <1>4, BufMoved
<1>9. More(r) => \E k \in 1 .. Len(r.want) : r.want[k] = At(r) BY <1>1, ReadTypes DEF At
<1>10. ASSUME More(r), r.seg # 0 PROVE SameFor(S, L, T, M, r.seg, At(r)) /\ M[At(r)] = L[At(r)]
  BY <1>2, <1>9, <1>10 DEF Moved
<1>11. InSegment(r, S) => InSegment(r, T) /\ r.seg # 0
  <2>1. ASSUME r.seg \in 1 .. r.view, r.view <= n PROVE r.view <= m /\ r.seg # 0
    BY <1>3, <1>5, <2>1
  <2> QED BY <1>3, <2>1 DEF InSegment
<1>12. r.view <= Len(S) => r.view <= Len(T) BY <1>3, <1>5
<1>13. ForwardOK(r, T, M)
  <2>1. ForwardOK(r, S, L) BY DEF ReadOK
  <2>2. r.pc \in {"next", "peek", "head", "record"} => r.kind = "forward" /\ InSegment(r, T) /\ r.seg # 0
    BY <1>11, <2>1 DEF ForwardOK
  <2>3. r.pc = "next" /\ More(r) => AtSpot(r, T[r.seg], M)
    BY <1>1, <1>2, <1>4, <2>1, <2>2, SpotMoved DEF ForwardOK
  <2>4. r.pc \in {"peek", "head"} => More(r) /\ AtSpot(r, T[r.seg], M)
    BY <1>1, <1>2, <1>4, <2>1, <2>2, SpotMoved DEF ForwardOK
  <2>5. r.pc = "head" => ExtentOK(r, T, M)
    BY <1>1, <1>2, <1>4, <2>1, <2>2, ExtentMoved DEF ForwardOK
  <2>6. ASSUME r.pc = "record" PROVE More(r) /\ AtRecord(r, T[r.seg]) /\ InBuf(r.buf, r.off, 1)
    <3>1. More(r) /\ AtRecord(r, S[r.seg]) /\ InBuf(r.buf, r.off, 1) /\ r.seg # 0
      BY <2>1, <2>2, <2>6 DEF ForwardOK
    <3>2. SameFor(S, L, T, M, r.seg, At(r)) BY <1>10, <3>1
    <3> QED BY <3>1, <3>2 DEF AtRecord, SameFor
  <2> QED BY <2>2, <2>3, <2>4, <2>5, <2>6 DEF ForwardOK
<1>14. BackOK(r, T, M, b)
  <2>1. BackOK(r, S, L, a) BY DEF ReadOK
  <2>2. /\ r.pc \in {"segment", "count", "window", "emit"} => r.kind = "back"
        /\ r.pc = "segment" => r.view <= Len(T) /\ r.seg \in 0 .. r.view
        /\ r.pc \in {"count", "window", "emit"} => InSegment(r, T) /\ More(r) /\ r.seg # 0
        /\ r.pc = "count" => r.lo = 0
        /\ r.pc = "emit" => r.lo # 0 /\ At(r) >= r.lo
    BY <1>11, <1>12, <2>1 DEF BackOK
  <2>3. r.pc \in {"segment", "count", "window", "emit"} /\ r.seg # 0 =>
            ExtentOK(r, T, M) /\ WindowOK(r, T[r.seg], M)
    BY <1>1, <1>2, <1>4, <2>1, ExtentMoved, WindowMoved DEF BackOK
  <2>4. ASSUME r.pc \in {"segment", "window", "emit"}, r.seg # 0
        PROVE  r.count <= Len(T[r.seg].offsets)
    <3>1. r.count <= Len(S[r.seg].offsets) BY <2>1, <2>4 DEF BackOK
    <3>2. Len(S[r.seg].offsets) <= Len(T[r.seg].offsets) /\ r.seg \in 1 .. Len(T)
      BY <1>2, <2>4 DEF Moved, SameAt
    <3>3. r.count \in Nat /\ Len(S[r.seg].offsets) \in Nat /\ Len(T[r.seg].offsets) \in Nat
      <4>1. SegmentOK(S[r.seg], L) /\ SegmentOK(T[r.seg], M)
        BY <1>2, <2>4, <3>2, SegmentsFacts DEF Moved
      <4> QED BY <1>1, <1>4, <4>1, SegmentFacts, ReadTypes
    <3>4. PICK x \in Nat, y \in Nat, z \in Nat :
            /\ x = r.count /\ y = Len(S[r.seg].offsets) /\ z = Len(T[r.seg].offsets)
            /\ x <= y /\ y <= z
      BY <3>1, <3>2, <3>3
    <3>5. x <= z BY ONLY <3>4, x \in Nat, y \in Nat, z \in Nat
    <3> QED BY <3>4, <3>5
  <2>5. ASSUME r.pc = "segment", r.seg # 0, More(r), At(r) >= T[r.seg].base
        PROVE  Holds(T[r.seg], At(r))
    <3>1. T[r.seg].base = S[r.seg].base BY <1>2, <2>5 DEF Moved, SameAt
    <3>2. Holds(S[r.seg], At(r)) BY <2>1, <2>5, <3>1 DEF BackOK
    <3> QED BY <1>10, <2>5, <3>2 DEF SameFor
  <2>6. ASSUME r.pc \in {"count", "window", "emit"}, b PROVE Holds(T[r.seg], At(r))
    <3>1. Holds(S[r.seg], At(r)) BY <2>1, <2>6 DEF BackOK
    <3> QED BY <1>10, <2>2, <2>6, <3>1 DEF SameFor
  <2> QED BY <2>2, <2>3, <2>4, <2>5, <2>6 DEF BackOK
<1>15. PointOK(r, T, M)
  <2>1. PointOK(r, S, L) BY DEF ReadOK
  <2>2. ASSUME r.pc \in {"point", "payload", "check"}
        PROVE  /\ r.kind = "indexed" /\ InSegment(r, T) /\ More(r) /\ AtRecord(r, T[r.seg])
               /\ M[At(r)] = L[At(r)]
    <3>1. /\ r.kind = "indexed" /\ InSegment(r, T) /\ r.seg # 0 /\ More(r)
          /\ AtRecord(r, S[r.seg])
      BY <1>11, <2>1, <2>2 DEF PointOK
    <3>2. SameFor(S, L, T, M, r.seg, At(r)) /\ M[At(r)] = L[At(r)] BY <1>10, <3>1
    <3> QED BY <3>1, <3>2 DEF AtRecord, SameFor
  <2> QED BY <1>12, <2>1, <2>2 DEF PointOK
<1>16. ASSUME b
       PROVE  /\ r.pc \notin {"none", "pin", "done"} => Covers(r, T)
              /\ r.end # "error"
              /\ r.end = "clean" => ~ More(r)
  <2>1. /\ r.pc \notin {"none", "pin", "done"} => Covers(r, S)
        /\ r.end # "error"
        /\ r.end = "clean" => ~ More(r)
    BY <1>16 DEF ReadOK
  <2> QED BY <1>1, <2>1, CoversMoved
<1>17. r.seg <= Len(T) /\ ((r.end = "open") <=> (r.pc # "done")) BY <1>3, <1>5 DEF ReadOK
<1> QED BY <1>1, <1>6, <1>7, <1>8, <1>13, <1>14, <1>15, <1>16, <1>17 DEF ReadOK

--------------------
\* Buffers.
LEMMA MinOfTwo ==
    ASSUME NEW a \in Nat, NEW b \in Nat
    PROVE  /\ Min({a, b}) \in Nat /\ Min({a, b}) <= a /\ Min({a, b}) <= b
           /\ Min({a, b}) = a \/ Min({a, b}) = b
<1>1. {a, b} \subseteq Nat /\ {a, b} # {} OBVIOUS
<1>2. Min({a, b}) \in {a, b} /\ \A m \in {a, b} : Min({a, b}) <= m BY <1>1, MinIsLeast
<1> QED BY <1>2

LEMMA MaxOfTwo ==
    ASSUME NEW a \in Nat, NEW b \in Nat
    PROVE  /\ Max({a, b}) \in Nat /\ a <= Max({a, b}) /\ b <= Max({a, b})
<1>1. {a, b} \subseteq Nat /\ {a, b} # {} /\ a + b \in Nat /\ \A m \in {a, b} : m <= a + b
  OBVIOUS
<1>2. Max({a, b}) \in {a, b} /\ \A m \in {a, b} : m <= Max({a, b}) BY <1>1, MaxIsGreatest
<1> QED BY <1>2

Sliced(out, cells, from, to) ==
    /\ out \in Seq(CellType)
    /\ Len(out) = to - from /\ to - from \in Nat
    /\ \A i \in 1 .. to - from : out[i] = cells[from + i - 1]

LEMMA SliceFacts ==
    ASSUME NEW cells \in [0 .. SegmentSize - 1 -> CellType],
           NEW from \in Nat, NEW to \in Nat, from <= to, to <= SegmentSize
    PROVE  Sliced(Slice(cells, from, to), cells, from, to)
<1>1. PICK n \in Nat : n = to - from OBVIOUS
<1>2. SegmentSize \in Nat BY ReadsAssumption
<1>3. \A i \in 1 .. n : from + i - 1 \in 0 .. SegmentSize - 1
  BY ONLY <1>1, <1>2, from \in Nat, to \in Nat, to <= SegmentSize, n \in Nat
<1>4. \A i \in 1 .. n : cells[from + i - 1] \in CellType BY <1>3
<1>5. Slice(cells, from, to) = [i \in 1 .. n |-> cells[from + i - 1]] BY <1>1 DEF Slice
<1> QED BY <1>1, <1>4, <1>5 DEF Sliced

\* A buffer filled from the file matches it; one asked for cells of the file holds them.
BufType == [at : Nat, cells : Seq(CellType)]

Fresh(buf, s) ==
    /\ buf \in BufType
    /\ \A i \in 1 .. Len(buf.cells) : buf.cells[i] = s.cells[buf.at + i - 1]

LEMMA FillFacts ==
    ASSUME NEW off \in Nat, NEW len \in Nat, off + len <= SegmentSize,
           segs[rd.seg] \in SegmentType
    PROVE  Fresh(Fill(off, len), segs[rd.seg]) /\ InBuf(Fill(off, len), off, len)
<1>1. PICK ra \in Nat \ {0}, z \in Nat : ra = ReadAhead /\ z = SegmentSize
  BY ReadsAssumption
<1>2. off % ra \in Nat /\ off % ra <= off BY ONLY off \in Nat, ra \in Nat \ {0}
<1>3. PICK at \in Nat : at = off - (off % ra) /\ at <= off
  <2>1. PICK x \in Nat : x = off % ra /\ x <= off BY <1>2
  <2>2. off - x \in Nat /\ off - x <= off BY ONLY <2>1, x \in Nat, off \in Nat
  <2> QED BY ONLY <2>1, <2>2
<1>4. PICK need \in Nat : need = off + len - at
  BY ONLY <1>3, off \in Nat, len \in Nat, at \in Nat
<1>5. PICK most \in Nat : most = Max({ra, need}) /\ need <= most BY MaxOfTwo
<1>6. at + most \in Nat OBVIOUS
<1>7. PICK to \in Nat : to = Min({at + most, z}) /\ to <= z /\ (to = at + most \/ to = z)
  BY <1>6, MinOfTwo
<1>8. off + len <= to /\ at <= to
  BY ONLY <1>1, <1>3, <1>4, <1>5, <1>7, off \in Nat, len \in Nat, at \in Nat, need \in Nat,
          most \in Nat, z \in Nat, to \in Nat, off + len <= SegmentSize
<1>9. PICK s : s = segs[rd.seg] /\ s.cells \in [0 .. SegmentSize - 1 -> CellType]
  BY DEF SegmentType
<1>10. PICK cells \in Seq(CellType) :
        /\ cells = Slice(s.cells, at, to) /\ Len(cells) = to - at
        /\ \A i \in 1 .. Len(cells) : cells[i] = s.cells[at + i - 1]
  <2>1. to <= SegmentSize BY <1>1, <1>7
  <2>2. Sliced(Slice(s.cells, at, to), s.cells, at, to)
    BY ONLY <1>8, <1>9, <2>1, SliceFacts, at \in Nat, to \in Nat
  <2> QED BY <2>2 DEF Sliced
<1>11. Fill(off, len) = [at |-> at, cells |-> cells]
  BY <1>1, <1>3, <1>4, <1>5, <1>7, <1>9, <1>10 DEF Fill
<1>12. Fresh(Fill(off, len), s) BY <1>10, <1>11 DEF Fresh, BufType
<1>13. off >= at /\ off + len <= at + Len(cells)
  BY ONLY <1>3, <1>8, <1>10, off \in Nat, len \in Nat, at \in Nat, to \in Nat
<1> QED BY <1>9, <1>11, <1>12, <1>13 DEF InBuf

LEMMA FreshOKBuf ==
    ASSUME NEW r, NEW S, NEW L, Fresh(r.buf, S[r.seg])
    PROVE  BufOK(r, S, L)
BY DEF Fresh, BufOK

LEMMA BufForFacts ==
    ASSUME NEW off \in Nat, NEW len \in Nat, off + len <= SegmentSize, NEW L,
           rd \in ReadType, segs[rd.seg] \in SegmentType, BufOK(rd, segs, L),
           NEW r, r = [rd EXCEPT !.buf = BufFor(off, len)]
    PROVE  /\ BufFor(off, len) \in BufType /\ InBuf(BufFor(off, len), off, len)
           /\ BufOK(r, segs, L)
<1>1. r.buf = BufFor(off, len) /\ r.want = rd.want /\ r.seg = rd.seg BY DEF ReadType
<1>2. CASE InBuf(rd.buf, off, len)
  <2>1. BufFor(off, len) = rd.buf BY <1>2 DEF BufFor
  <2>2. rd.buf \in BufType BY DEF ReadType, BufType
  <2>3. BufOK(r, segs, L) BY <1>1, <2>1 DEF BufOK, Sound
  <2> QED BY <1>2, <2>1, <2>2, <2>3
<1>3. CASE ~ InBuf(rd.buf, off, len)
  <2>1. BufFor(off, len) = Fill(off, len) BY <1>3 DEF BufFor
  <2>2. Fresh(Fill(off, len), segs[rd.seg]) /\ InBuf(Fill(off, len), off, len)
    BY FillFacts
  <2>3. BufOK(r, segs, L) BY <1>1, <2>1, <2>2, FreshOKBuf
  <2> QED BY <2>1, <2>2, <2>3 DEF Fresh
<1> QED BY <1>2, <1>3

\* What a read sees in its buffer of a record it wants.
LEMMA CellSeen ==
    ASSUME NEW r, NEW S, NEW L, r.seg # 0, r.buf \in BufType, BufOK(r, S, L), NEW c \in Nat,
           InBuf(r.buf, c, 1), Sound(r, S, L, c)
    PROVE  CellIn(r.buf, c) = S[r.seg].cells[c]
<1>1. PICK at \in Nat, n \in Nat : at = r.buf.at /\ n = Len(r.buf.cells)
  BY LenProperties DEF BufType
<1>2. c >= at /\ c + 1 <= at + n BY <1>1 DEF InBuf
<1>3. PICK i \in 1 .. n : i = c - at + 1 /\ at + i - 1 = c
  BY ONLY <1>2, c \in Nat, at \in Nat, n \in Nat
<1>4. r.buf.cells[i] = S[r.seg].cells[c] BY <1>1, <1>3 DEF BufOK
<1> QED BY <1>1, <1>3, <1>4 DEF CellIn

LEMMA RecordSeen ==
    ASSUME NEW r, NEW S, NEW L \in Seq(Frame), r.seg # 0, r.buf \in BufType, BufOK(r, S, L),
           SegmentOK(S[r.seg], L), NEW m \in 1 .. Len(r.want), NEW p, p = r.want[m],
           Holds(S[r.seg], p), NEW j \in 1 .. L[p].len,
           InBuf(r.buf, Off(S[r.seg], p) + j - 1, 1)
    PROVE  CellIn(r.buf, Off(S[r.seg], p) + j - 1) = [frame |-> L[p], nth |-> j]
<1>1. PICK o \in Nat, l \in Nat \ {0} :
        o = Off(S[r.seg], p) /\ l = L[p].len /\ Behind(S[r.seg], L, p) = o + l
  BY PositionFacts DEF Holds
<1>2. PICK c \in Nat : c = o + j - 1 /\ c < o + l
  <2>1. j \in 1 .. l BY <1>1
  <2> QED BY ONLY <2>1, o \in Nat, l \in Nat \ {0}
<1>3. Sound(r, S, L, c) BY <1>1, <1>2 DEF Sound
<1>4. CellIn(r.buf, c) = S[r.seg].cells[c] BY <1>1, <1>2, <1>3, CellSeen
<1>5. Stored(S[r.seg], L, p) BY DEF SegmentOK, Holds
<1>6. S[r.seg].cells[c] = [frame |-> L[p], nth |-> j]
  BY <1>1, <1>2, <1>5 DEF Stored, RecordAt
<1> QED BY <1>1, <1>2, <1>4, <1>6

LEMMA HeadOfRecord ==
    ASSUME NEW r, NEW S, NEW L \in Seq(Frame), r.seg # 0, r.buf \in BufType, BufOK(r, S, L),
           SegmentOK(S[r.seg], L), NEW m \in 1 .. Len(r.want), NEW p, p = r.want[m],
           Holds(S[r.seg], p), InBuf(r.buf, Off(S[r.seg], p), 1)
    PROVE  CellIn(r.buf, Off(S[r.seg], p)) = [frame |-> L[p], nth |-> 1]
<1>1. PICK o \in Nat, l \in Nat \ {0} : o = Off(S[r.seg], p) /\ l = L[p].len
  BY PositionFacts DEF Holds
<1>2. PICK j \in 1 .. l : j = 1 /\ o + j - 1 = o BY ONLY o \in Nat, l \in Nat \ {0}
<1>3. j \in 1 .. L[p].len /\ InBuf(r.buf, Off(S[r.seg], p) + j - 1, 1) BY <1>1, <1>2
<1>4. CellIn(r.buf, Off(S[r.seg], p) + j - 1) = [frame |-> L[p], nth |-> j]
  BY <1>3, RecordSeen
<1> QED BY <1>1, <1>2, <1>4

\* A buffer that holds the record holds its payload.
LEMMA PayloadSeen ==
    ASSUME NEW r, NEW S, NEW L \in Seq(Frame), r.seg # 0, r.buf \in BufType, BufOK(r, S, L),
           SegmentOK(S[r.seg], L), NEW m \in 1 .. Len(r.want), NEW p, p = r.want[m],
           Holds(S[r.seg], p), InBuf(r.buf, Off(S[r.seg], p) + 1, L[p].len - 1)
    PROVE  HasPayload(r.buf, Off(S[r.seg], p), L[p])
<1>1. PICK o \in Nat, l \in Nat \ {0} : o = Off(S[r.seg], p) /\ l = L[p].len
  BY PositionFacts DEF Holds
<1>2. PICK at \in Nat, n \in Nat : at = r.buf.at /\ n = Len(r.buf.cells)
  BY LenProperties DEF BufType
<1>3. o + 1 >= at /\ (o + 1) + (l - 1) <= at + n BY <1>1, <1>2 DEF InBuf
<1>4. ASSUME NEW k \in 2 .. l
      PROVE  CellIn(r.buf, o + k - 1) = [frame |-> L[p], nth |-> k]
  <2>1. k \in 1 .. l /\ o + k - 1 >= at /\ (o + k - 1) + 1 <= at + n
    BY ONLY <1>3, o \in Nat, l \in Nat \ {0}, at \in Nat, n \in Nat, k \in 2 .. l
  <2>2. InBuf(r.buf, o + k - 1, 1) BY <1>2, <2>1 DEF InBuf
  <2>3. k \in 1 .. L[p].len /\ InBuf(r.buf, Off(S[r.seg], p) + k - 1, 1)
    BY <1>1, <2>1, <2>2
  <2>4. CellIn(r.buf, Off(S[r.seg], p) + k - 1) = [frame |-> L[p], nth |-> k]
    BY <2>3, RecordSeen
  <2> QED BY <1>1, <2>4
<1> QED BY <1>1, <1>4 DEF HasPayload

--------------------
\* The reader's actions. A read that goes on keeps what it wants, its kind and its view; what else
\* is asked of it depends on its step.
Running == {"start", "next", "peek", "head", "record", "segment", "count", "window", "emit",
            "point", "payload", "check"}

GoesOn(q, r, S, L) ==
    /\ q.pc \in Running /\ r.pc \in Running
    /\ r \in ReadType
    /\ r.want = q.want /\ r.kind = q.kind /\ r.view = q.view /\ r.end = q.end
    /\ r.seg <= Len(S)
    /\ OutOK(r, L) /\ BufOK(r, S, L)

LEMMA ReadGoesOn ==
    ASSUME NEW q, NEW r, NEW S, NEW L, NEW all \in BOOLEAN, ReadOK(q, S, L, all),
           GoesOn(q, r, S, L),
           ForwardOK(r, S, L), BackOK(r, S, L, all), PointOK(r, S, L)
    PROVE  ReadOK(r, S, L, all)
<1>1. q.pc \in Running /\ r.pc \in Running /\ r.want = q.want /\ r.kind = q.kind
      /\ r.view = q.view /\ r.end = q.end
  BY DEF GoesOn
<1>2. WantOK(r, S) BY <1>1 DEF ReadOK, WantOK
<1>3. q.end = "open" BY <1>1 DEF ReadOK, Running
<1>4. all => Covers(r, S) BY <1>1 DEF ReadOK, Covers, Running
<1>5. r.pc # "done" BY <1>1 DEF Running
<1> QED BY <1>1, <1>2, <1>3, <1>4, <1>5 DEF ReadOK, GoesOn

LEMMA ForwardGoesOn ==
    ASSUME NEW q, NEW r, NEW S, NEW L, NEW all \in BOOLEAN, ReadOK(q, S, L, all),
           GoesOn(q, r, S, L), r.pc \in {"next", "peek", "head", "record"},
           ForwardOK(r, S, L)
    PROVE  ReadOK(r, S, L, all)
<1>1. BackOK(r, S, L, all) /\ PointOK(r, S, L) BY DEF BackOK, PointOK
<1> QED BY <1>1, ReadGoesOn

LEMMA BackGoesOn ==
    ASSUME NEW q, NEW r, NEW S, NEW L, NEW all \in BOOLEAN, ReadOK(q, S, L, all),
           GoesOn(q, r, S, L), r.pc \in {"segment", "count", "window", "emit"},
           BackOK(r, S, L, all)
    PROVE  ReadOK(r, S, L, all)
<1>1. ForwardOK(r, S, L) /\ PointOK(r, S, L) BY DEF ForwardOK, PointOK
<1> QED BY <1>1, ReadGoesOn

LEMMA PointGoesOn ==
    ASSUME NEW q, NEW r, NEW S, NEW L, NEW all \in BOOLEAN, ReadOK(q, S, L, all),
           GoesOn(q, r, S, L), r.pc \in {"start", "point", "payload", "check"},
           PointOK(r, S, L)
    PROVE  ReadOK(r, S, L, all)
<1>1. ForwardOK(r, S, L) /\ BackOK(r, S, L, all) BY DEF ForwardOK, BackOK
<1> QED BY <1>1, ReadGoesOn

LEMMA NoReadType == NoRead \in ReadType /\ NoBuf \in BufType
<1>1. <<>> \in Seq(Nat) /\ <<>> \in Seq(Frame) /\ <<>> \in Seq(CellType) OBVIOUS
<1> QED BY <1>1 DEF NoRead, NoBuf, ReadType, BufType, Kinds

LEMMA EndedOK ==
    ASSUME NEW S, NEW L, NEW all \in BOOLEAN, ReadOK(rd, S, L, all), Len(S) \in Nat,
           NEW how \in {"clean", "error"},
           all => how = "clean" /\ ~ More(rd)
    PROVE  ReadOK(Ended(how), S, L, all)
<1>1. rd \in ReadType /\ WantOK(rd, S) /\ OutOK(rd, L) BY DEF ReadOK
<1>2. PICK r : r = Ended(how) OBVIOUS
<1>3. /\ r \in ReadType /\ r.pc = "done" /\ r.kind = rd.kind /\ r.want = rd.want
      /\ r.out = rd.out /\ r.end = how /\ r.seg = 0
  BY <1>1, <1>2, NoReadType DEF Ended, ReadType, NoRead
<1>4. WantOK(r, S) /\ OutOK(r, L) /\ BufOK(r, S, L) /\ r.seg <= Len(S)
  BY <1>1, <1>3 DEF WantOK, OutOK, BufOK
<1>5. ForwardOK(r, S, L) /\ BackOK(r, S, L, all) /\ PointOK(r, S, L)
  BY <1>3 DEF ForwardOK, BackOK, PointOK
<1>6. ~ More(rd) => ~ More(r) BY <1>3 DEF More
<1> QED BY <1>2, <1>3, <1>4, <1>5, <1>6 DEF ReadOK

\* Locating a position: the segment found holds it if the view covers it.
LEMMA LocateFacts ==
    ASSUME NEW L, SegmentsOK(segs, L), rd \in ReadType, rd.view <= Len(segs),
           NEW p \in Nat, Owners(p) # {}
    PROVE  /\ Locate(p) \in 1 .. rd.view /\ Locate(p) \in 1 .. Len(segs)
           /\ segs[Locate(p)].base <= p
           /\ \A i \in 1 .. rd.view : segs[i].base <= p => i <= Locate(p)
<1>1. PICK v \in Nat, n \in Nat : v = rd.view /\ n = Len(segs) /\ v <= n
  BY SegmentsFacts, ReadTypes
<1>2. Owners(p) \subseteq Nat /\ \A i \in Owners(p) : i <= v BY <1>1 DEF Owners
<1>3. Locate(p) \in Owners(p) /\ \A i \in Owners(p) : i <= Locate(p)
  BY <1>2, MaxIsGreatest DEF Locate
<1>4. Locate(p) \in 1 .. v /\ segs[Locate(p)].base <= p BY <1>1, <1>3 DEF Owners
<1>5. Locate(p) \in 1 .. n BY <1>1, <1>4
<1> QED BY <1>1, <1>3, <1>4, <1>5 DEF Owners

LEMMA OffsetFacts ==
    ASSUME NEW L \in Seq(Frame), NEW i, SegmentOK(segs[i], L), NEW p \in Nat
    PROVE  /\ HasOffset(i, p) <=> Holds(segs[i], p)
           /\ DataOffset(i, p) = Off(segs[i], p)
<1>1. PICK b \in Nat, n \in Nat : /\ b = segs[i].base /\ n = Len(segs[i].offsets)
                                  /\ DOMAIN segs[i].offsets = 1 .. n
  BY SegmentFacts, LenProperties
<1>2. (p - b + 1 \in 1 .. n) <=> (p \in b .. (b + n) - 1)
  BY ONLY b \in Nat, n \in Nat, p \in Nat
<1> QED BY <1>1, <1>2 DEF HasOffset, Local, Holds, Positions, Bound, DataOffset, Off

LEMMA LocateCovers ==
    ASSUME NEW L, SegmentsOK(segs, L), rd \in ReadType, rd.view <= Len(segs), WantOK(rd, segs),
           Covers(rd, segs), NEW m \in 1 .. Len(rd.want), NEW p, p = rd.want[m]
    PROVE  Owners(p) # {} /\ Holds(segs[Locate(p)], p)
<1>1. PICK v \in Nat, n \in Nat \ {0} : v = rd.view /\ n = Len(segs) /\ v <= n
  BY SegmentsFacts, ReadTypes
<1>2. p \in 1 .. LastBound(segs) - 1 /\ LastBound(segs) \in Nat
  BY SegmentsFacts DEF WantOK
<1>3. p \in Nat /\ p >= 1 /\ p < LastBound(segs) BY ONLY <1>2
<1>4. v < n => p < segs[v + 1].base BY <1>1 DEF Covers
<1>5. segs[1].base = 1 BY DEF SegmentsOK
<1>6. v # 0
  <2> SUFFICES ASSUME v = 0 PROVE FALSE
    OBVIOUS
  <2>1. p < segs[1].base BY <1>1, <1>4
  <2> QED BY <1>3, <1>5, <2>1
<1>7. 1 \in Owners(p)
  <2>1. 1 \in 1 .. v BY <1>6
  <2> QED BY <1>1, <1>3, <1>5, <2>1 DEF Owners
<1>8. PICK k \in 1 .. v : /\ k = Locate(p) /\ k \in 1 .. n /\ segs[k].base <= p
                          /\ \A i \in 1 .. v : segs[i].base <= p => i <= k
  BY <1>1, <1>3, <1>7, LocateFacts
<1>9. \A i \in 1 .. n : /\ segs[i].base \in Nat
                        /\ i < n => segs[i + 1].base = Bound(segs[i])
  <2>1. \A i \in 1 .. n : segs[i].base \in Nat BY <1>1, SegmentsFacts
  <2>2. \A i \in 1 .. n : i < n => i \in 1 .. Len(segs) - 1 BY <1>1
  <2> QED BY <2>1, <2>2 DEF SegmentsOK
<1>10. p < Bound(segs[k])
  <2>1. CASE k < v
    <3>1. k + 1 \in 1 .. v /\ ~ (k + 1 <= k) /\ k < n /\ k + 1 \in 1 .. n
      BY <1>1, <1>8, <2>1
    <3>2. ~ (segs[k + 1].base <= p) BY <1>8, <3>1
    <3>3. segs[k + 1].base \in Nat /\ segs[k + 1].base = Bound(segs[k])
      BY <1>8, <1>9, <3>1
    <3> QED BY <1>3, <3>2, <3>3
  <2>2. CASE k = v /\ v < n BY <1>4, <1>8, <1>9, <2>2
  <2>3. CASE k = v /\ v = n BY <1>1, <1>3, <2>3 DEF LastBound
  <2> QED BY <1>1, <1>8, <2>1, <2>2, <2>3
<1>11. SegmentOK(segs[k], L) /\ L \in Seq(Frame) BY <1>1, <1>8, SegmentsFacts
<1>12. Bound(segs[k]) \in Nat /\ segs[k].base \in Nat BY <1>11, SegmentFacts
<1>13. p \in segs[k].base .. Bound(segs[k]) - 1 BY <1>3, <1>8, <1>10, <1>12
<1> QED BY <1>7, <1>8, <1>13 DEF Holds, Positions

ReadInv(all) ==
    /\ all \in BOOLEAN
    /\ SegmentsOK(segs, log)
    /\ ReadOK(rd, segs, log, all)

LEMMA ReadFacts ==
    ASSUME NEW all, ReadInv(all)
    PROVE  /\ rd \in ReadType /\ log \in Seq(Frame) /\ Len(segs) \in Nat \ {0} /\ all \in BOOLEAN
           /\ WantOK(rd, segs) /\ OutOK(rd, log) /\ BufOK(rd, segs, log) /\ rd.seg <= Len(segs)
           /\ Cursor = At(rd) /\ (Spent <=> ~ More(rd))
           /\ More(rd) => /\ Len(rd.out) + 1 \in 1 .. Len(rd.want)
                          /\ At(rd) \in Nat
                          /\ At(rd) \in 1 .. LastBound(segs) - 1 /\ LastBound(segs) \in Nat
           /\ rd.seg # 0 => rd.seg \in 1 .. Len(segs) /\ SegmentOK(segs[rd.seg], log)
           /\ rd.pc \in Running => rd.end = "open"
           /\ rd.pc \in Running /\ all => Covers(rd, segs)
<1>1. /\ rd \in ReadType /\ log \in Seq(Frame) /\ Len(segs) \in Nat \ {0} /\ all \in BOOLEAN
      /\ WantOK(rd, segs) /\ OutOK(rd, log) /\ BufOK(rd, segs, log) /\ rd.seg <= Len(segs)
  BY SegmentsFacts DEF ReadInv, ReadOK
<1>2. Len(rd.want) \in Nat /\ Len(rd.out) \in Nat /\ rd.seg \in Nat BY <1>1, ReadTypes
<1>3. Cursor = At(rd) BY DEF Cursor, At
<1>4. Spent <=> ~ More(rd) BY <1>1, <1>2 DEF Spent, More, OutOK
<1>5. ASSUME More(rd)
      PROVE  /\ Len(rd.out) + 1 \in 1 .. Len(rd.want) /\ At(rd) \in Nat
             /\ At(rd) \in 1 .. LastBound(segs) - 1 /\ LastBound(segs) \in Nat
  <2>1. Len(rd.out) + 1 \in 1 .. Len(rd.want) BY <1>1, <1>5, ReadTypes
  <2>2. At(rd) \in 1 .. LastBound(segs) - 1 /\ At(rd) \in Nat
    BY <1>1, <2>1, ReadTypes DEF WantOK, At
  <2>3. LastBound(segs) \in Nat BY SegmentsFacts DEF ReadInv
  <2> QED BY <2>1, <2>2, <2>3
<1>6. rd.seg # 0 => rd.seg \in 1 .. Len(segs) /\ SegmentOK(segs[rd.seg], log)
  <2>1. rd.seg # 0 => rd.seg \in 1 .. Len(segs) BY <1>1, <1>2
  <2> QED BY <2>1, SegmentsFacts DEF ReadInv
<1>7. rd.pc \in Running => rd.end = "open" /\ (all => Covers(rd, segs))
  BY DEF ReadInv, ReadOK, Running
<1> QED BY <1>1, <1>3, <1>4, <1>5, <1>6, <1>7

\* Ending clean once nothing more is wanted; with an error only if not all of what is wanted need
\* be there.
LEMMA SpentEnds ==
    ASSUME NEW all, ReadInv(all), Spent
    PROVE  ReadOK(Ended("clean"), segs, log, all)
<1>1. all \in BOOLEAN /\ Len(segs) \in Nat /\ ~ More(rd) BY ReadFacts
<1> QED BY <1>1, EndedOK DEF ReadInv

LEMMA UncoveredEnds ==
    ASSUME NEW all, ReadInv(all), ~ all, NEW how \in {"clean", "error"}
    PROVE  ReadOK(Ended(how), segs, log, all)
<1>1. all \in BOOLEAN /\ Len(segs) \in Nat BY ReadFacts
<1> QED BY <1>1, EndedOK DEF ReadInv

\* A read that opens a segment, or stays in the one it has.
LEMMA LocatedFacts ==
    ASSUME NEW all, ReadInv(all), rd.pc \in Running, More(rd), rd.view <= Len(segs)
    PROVE  /\ all => Owners(Cursor) # {} /\ HasOffset(Locate(Cursor), Cursor)
           /\ Owners(Cursor) # {} =>
                /\ Locate(Cursor) \in 1 .. rd.view /\ Locate(Cursor) \in 1 .. Len(segs)
                /\ SegmentOK(segs[Locate(Cursor)], log)
                /\ HasOffset(Locate(Cursor), Cursor) <=> Holds(segs[Locate(Cursor)], At(rd))
                /\ DataOffset(Locate(Cursor), Cursor) = Off(segs[Locate(Cursor)], At(rd))
<1>1. PICK p \in Nat : p = Cursor /\ p = At(rd) BY ReadFacts
<1>2. PICK m \in 1 .. Len(rd.want) : p = rd.want[m] BY <1>1, ReadFacts DEF At
<1>3. SegmentsOK(segs, log) /\ rd \in ReadType /\ WantOK(rd, segs) /\ log \in Seq(Frame)
      /\ (all => Covers(rd, segs))
  BY ReadFacts DEF ReadInv
<1>4. ASSUME Owners(p) # {}
      PROVE  /\ Locate(p) \in 1 .. rd.view /\ Locate(p) \in 1 .. Len(segs)
             /\ SegmentOK(segs[Locate(p)], log)
             /\ HasOffset(Locate(p), p) <=> Holds(segs[Locate(p)], p)
             /\ DataOffset(Locate(p), p) = Off(segs[Locate(p)], p)
  <2>1. Locate(p) \in 1 .. rd.view /\ Locate(p) \in 1 .. Len(segs)
    BY <1>3, <1>4, LocateFacts
  <2>2. SegmentOK(segs[Locate(p)], log) BY <1>3, <2>1, SegmentsFacts
  <2>3. /\ HasOffset(Locate(p), p) <=> Holds(segs[Locate(p)], p)
        /\ DataOffset(Locate(p), p) = Off(segs[Locate(p)], p)
    BY <1>3, <2>2, OffsetFacts
  <2> QED BY <2>1, <2>2, <2>3
<1>5. all => Owners(p) # {} /\ Holds(segs[Locate(p)], p) BY <1>2, <1>3, LocateCovers
<1> QED BY <1>1, <1>4, <1>5

LEMMA EmptyBufOK ==
    ASSUME NEW r, NEW S, NEW L, r.buf = NoBuf
    PROVE  BufOK(r, S, L)
BY DEF BufOK, NoBuf

LEMMA OpenedFacts ==
    ASSUME rd \in ReadType, NEW seg \in Nat, NEW r, r = Opened(seg)
    PROVE  /\ r \in ReadType /\ r.seg = seg /\ r.buf = NoBuf
           /\ r.pc = rd.pc /\ r.want = rd.want /\ r.kind = rd.kind /\ r.view = rd.view
           /\ r.end = rd.end /\ r.out = rd.out /\ r.count = rd.count /\ r.live = rd.live
BY NoReadType DEF Opened, ReadType, BufType

LEMMA SameRead ==
    ASSUME NEW r, NEW q, NEW S, NEW L, r.want = q.want, r.out = q.out
    PROVE  /\ OutOK(q, L) => OutOK(r, L)
           /\ At(r) = At(q) /\ (More(r) <=> More(q))
           /\ r.seg = q.seg /\ r.buf = q.buf => (BufOK(q, S, L) => BufOK(r, S, L))
           /\ r.seg = q.seg /\ r.ext = q.ext => (ExtentOK(q, S, L) => ExtentOK(r, S, L))
BY DEF OutOK, At, More, BufOK, Sound, ExtentOK

LEMMA HeldFacts ==
    ASSUME NEW s, NEW L \in Seq(Frame), SegmentOK(s, L), NEW p, Holds(s, p)
    PROVE  /\ p \in Nat \ {0} /\ s.base <= p /\ p < Bound(s)
           /\ p \in s.base .. Bound(s) /\ Spot(s, L, p) = Off(s, p)
           /\ Off(s, p) \in Nat /\ L[p].len \in Nat \ {0} /\ L[p].kind = "data"
           /\ L[p] \in Frame
           /\ Behind(s, L, p) = Off(s, p) + L[p].len
           /\ Behind(s, L, p) + MarkerLen <= s.flushed
           /\ Behind(s, L, p) <= s.flushed /\ Behind(s, L, p) <= SegmentSize
<1>1. p \in Positions(s) BY DEF Holds
<1>2. PICK b \in Nat \ {0}, e \in Nat, f \in Nat, z \in Nat, k \in Nat :
        b = s.base /\ e = Bound(s) /\ f = s.flushed /\ z = SegmentSize /\ f <= z /\ k = MarkerLen
  BY SegmentFacts
<1>3. PICK o \in Nat, l \in Nat \ {0} :
        /\ o = Off(s, p) /\ l = L[p].len /\ L[p].kind = "data" /\ L[p] \in Frame
        /\ Behind(s, L, p) = o + l /\ (o + l) + k <= f /\ p \in Nat /\ b <= p /\ p < e
  <2>1. /\ Off(s, p) \in Nat /\ L[p].len \in Nat \ {0} /\ L[p].kind = "data" /\ L[p] \in Frame
        /\ p \in Nat /\ s.base <= p /\ p < Bound(s)
        /\ Behind(s, L, p) = Off(s, p) + L[p].len /\ Behind(s, L, p) + MarkerLen <= s.flushed
    BY <1>1, PositionFacts
  <2> QED BY <1>2, <2>1
<1>4. p \in b .. e /\ p # 0 /\ o + l <= f /\ o + l <= z
  <2>1. f <= z /\ (o + l) + k <= f /\ p \in Nat /\ b <= p /\ p < e BY <1>2, <1>3
  <2> QED BY ONLY <2>1, b \in Nat \ {0}, e \in Nat, f \in Nat, z \in Nat, k \in Nat,
          o \in Nat, l \in Nat \ {0}
<1>5. Spot(s, L, p) = Off(s, p) BY <1>1, <1>2, <1>4, SpotFacts
<1> QED BY <1>2, <1>3, <1>4, <1>5

LEMMA ScanStartOK ==
    ASSUME NEW all, ReadInv(all), ScanStart
    PROVE  ReadOK(rd', segs, log, all)
<1>1. rd.pc = "start" /\ rd.kind = "forward" /\ rd.pc \in Running
  BY DEF ScanStart, Running
<1>2. rd.view <= Len(segs) /\ rd \in ReadType /\ log \in Seq(Frame) /\ OutOK(rd, log)
      /\ all \in BOOLEAN
  BY <1>1, ReadFacts DEF ReadInv, ReadOK, PointOK
<1>3. CASE Spent BY <1>3, SpentEnds DEF ScanStart
<1>4. CASE ~ Spent /\ (Owners(Cursor) = {} \/ ~ HasOffset(Locate(Cursor), Cursor))
  <2>1. ~ all BY <1>1, <1>2, <1>4, LocatedFacts, ReadFacts
  <2>2. rd' = Ended("error") BY <1>4 DEF ScanStart
  <2> QED BY <2>1, <2>2, UncoveredEnds
<1>5. CASE ~ Spent /\ Owners(Cursor) # {} /\ HasOffset(Locate(Cursor), Cursor)
  <2>1. More(rd) /\ rd.seg \in Nat /\ rd.view \in Nat BY <1>2, <1>5, ReadFacts, ReadTypes
  <2>2. PICK seg \in 1 .. rd.view :
          /\ seg = Locate(Cursor) /\ seg \in 1 .. Len(segs) /\ SegmentOK(segs[seg], log)
          /\ Holds(segs[seg], At(rd)) /\ DataOffset(seg, Cursor) = Off(segs[seg], At(rd))
    BY <1>1, <1>2, <1>5, <2>1, LocatedFacts
  <2>3a. PICK q : q = Opened(seg) OBVIOUS
  <2>3. PICK off \in Nat : q = Opened(seg) /\ off = Off(segs[seg], At(rd))
    <3>1. Off(segs[seg], At(rd)) \in Nat BY <1>2, <2>2, HeldFacts
    <3> QED BY <2>3a, <3>1
  <2>4. PICK r : r = [q EXCEPT !.pc = "next", !.off = off] OBVIOUS
  <2>5. rd' = r BY <1>5, <2>2, <2>3, <2>4 DEF ScanStart
  <2>6. /\ q \in ReadType /\ q.seg = seg /\ q.buf = NoBuf
        /\ q.want = rd.want /\ q.kind = rd.kind /\ q.view = rd.view
        /\ q.end = rd.end /\ q.out = rd.out
    BY <1>2, <2>1, <2>2, <2>3, OpenedFacts
  <2>7. /\ r \in ReadType /\ r.pc = "next" /\ r.off = off /\ r.seg = seg /\ r.buf = NoBuf
        /\ r.want = rd.want /\ r.kind = rd.kind /\ r.view = rd.view
        /\ r.end = rd.end /\ r.out = rd.out
    BY <2>4, <2>6 DEF ReadType
  <2>8. GoesOn(rd, r, segs, log)
    <3>1. seg <= Len(segs) /\ r.pc \in Running BY <1>2, <2>2, <2>7, ReadFacts DEF Running
    <3> QED BY <1>1, <1>2, <2>7, <3>1, SameRead, EmptyBufOK DEF GoesOn
  <2>9. AtSpot(r, segs[seg], log)
    <3>1. At(r) = At(rd) BY <2>7, SameRead
    <3>2. /\ At(rd) \in segs[seg].base .. Bound(segs[seg])
          /\ Spot(segs[seg], log, At(rd)) = Off(segs[seg], At(rd))
      BY <1>2, <2>2, HeldFacts
    <3> QED BY <2>3, <2>7, <3>1, <3>2 DEF AtSpot
  <2>10. InSegment(r, segs) BY <1>2, <2>2, <2>7 DEF InSegment
  <2>11. ForwardOK(r, segs, log) BY <1>1, <2>7, <2>9, <2>10 DEF ForwardOK
  <2> QED BY <1>2, <2>5, <2>7, <2>8, <2>11, ForwardGoesOn DEF ReadInv
<1> QED BY <1>3, <1>4, <1>5

LEMMA ScanNextOK ==
    ASSUME NEW all, ReadInv(all), ScanNext
    PROVE  ReadOK(rd', segs, log, all)
<1>1. rd.pc = "next" /\ rd.pc \in Running BY DEF ScanNext, Running
<1>2. rd \in ReadType /\ OutOK(rd, log) /\ BufOK(rd, segs, log) /\ rd.seg <= Len(segs)
      /\ all \in BOOLEAN /\ ForwardOK(rd, segs, log)
  BY ReadFacts DEF ReadInv, ReadOK
<1>3. CASE Spent BY <1>3, SpentEnds DEF ScanNext
<1>4. CASE ~ Spent
  <2>1. PICK r : r = Go("peek") OBVIOUS
  <2>2. rd' = r BY <1>4, <2>1 DEF ScanNext
  <2>3. /\ r \in ReadType /\ r.pc = "peek" /\ r.off = rd.off /\ r.seg = rd.seg /\ r.buf = rd.buf
        /\ r.want = rd.want /\ r.kind = rd.kind /\ r.view = rd.view
        /\ r.end = rd.end /\ r.out = rd.out
    BY <1>2, <2>1 DEF ReadType, Go
  <2>4. GoesOn(rd, r, segs, log)
    <3>1. r.pc \in Running BY <2>3 DEF Running
    <3> QED BY <1>1, <1>2, <2>3, <3>1, SameRead DEF GoesOn
  <2>5. More(rd) BY <1>4, ReadFacts
  <2>6. ForwardOK(r, segs, log)
    <3>1. rd.kind = "forward" /\ InSegment(rd, segs) /\ AtSpot(rd, segs[rd.seg], log)
      BY <1>1, <1>2, <2>5 DEF ForwardOK
    <3>2. More(r) /\ At(r) = At(rd) BY <2>3, <2>5, SameRead
    <3>3. AtSpot(r, segs[r.seg], log) /\ InSegment(r, segs)
      BY <2>3, <3>1, <3>2 DEF AtSpot, InSegment
    <3> QED BY <2>3, <3>1, <3>2, <3>3 DEF ForwardOK
  <2> QED BY <1>2, <2>2, <2>3, <2>4, <2>6, ForwardGoesOn DEF ReadInv
<1> QED BY <1>3, <1>4

\* The flushed offset covers what a read may want, whenever it is loaded.
LEMMA FlushedCovers ==
    ASSUME NEW S, NEW L \in Seq(Frame), NEW r, SegmentOK(S[r.seg], L), r.ext = S[r.seg].flushed
    PROVE  ExtentOK(r, S, L)
<1>1. r.ext <= S[r.seg].flushed BY SegmentFacts
<1>2. \A p : Holds(S[r.seg], p) => Behind(S[r.seg], L, p) <= S[r.seg].flushed BY HeldFacts
<1> QED BY <1>1, <1>2 DEF ExtentOK

LEMMA PeekLoadOK ==
    ASSUME NEW all, ReadInv(all), PeekLoad
    PROVE  ReadOK(rd', segs, log, all)
<1>1. rd.pc = "peek" /\ rd.pc \in Running BY DEF PeekLoad, Running
<1>2. rd \in ReadType /\ OutOK(rd, log) /\ BufOK(rd, segs, log) /\ rd.seg <= Len(segs)
      /\ all \in BOOLEAN /\ log \in Seq(Frame)
  BY ReadFacts
<1>3. /\ rd.kind = "forward" /\ InSegment(rd, segs) /\ More(rd)
      /\ AtSpot(rd, segs[rd.seg], log)
  BY <1>1 DEF ReadInv, ReadOK, ForwardOK
<1>4. rd.seg # 0 /\ SegmentOK(segs[rd.seg], log)
  BY <1>2, <1>3, ReadFacts, ReadTypes DEF InSegment
<1>5. PICK f \in Nat : f = segs[rd.seg].flushed BY <1>2, <1>4, SegmentFacts
<1>6. PICK r : r = [Go("head") EXCEPT !.ext = f] OBVIOUS
<1>7. rd' = r BY <1>5, <1>6 DEF PeekLoad
<1>8. /\ r \in ReadType /\ r.pc = "head" /\ r.off = rd.off /\ r.seg = rd.seg /\ r.buf = rd.buf
      /\ r.want = rd.want /\ r.kind = rd.kind /\ r.view = rd.view
      /\ r.end = rd.end /\ r.out = rd.out /\ r.ext = f
  BY <1>2, <1>6 DEF ReadType, Go
<1>9. GoesOn(rd, r, segs, log)
  <2>1. r.pc \in Running BY <1>8 DEF Running
  <2> QED BY <1>1, <1>2, <1>8, <2>1, SameRead DEF GoesOn
<1>10. ForwardOK(r, segs, log)
  <2>1. More(r) /\ At(r) = At(rd) BY <1>3, <1>8, SameRead
  <2>2. AtSpot(r, segs[r.seg], log) /\ InSegment(r, segs)
    BY <1>3, <1>8, <2>1 DEF AtSpot, InSegment
  <2>3. ExtentOK(r, segs, log) BY <1>2, <1>4, <1>5, <1>8, FlushedCovers
  <2> QED BY <1>3, <1>8, <2>1, <2>2, <2>3 DEF ForwardOK
<1> QED BY <1>2, <1>7, <1>8, <1>9, <1>10, ForwardGoesOn DEF ReadInv

\* A wanted position at the bound of the read's segment begins the next.
Beyond(r, S) ==
    /\ r.seg < Len(S) /\ At(r) = S[r.seg + 1].base /\ At(r) = Bound(S[r.seg])
    /\ At(r) >= S[r.seg + 1].base

LEMMA HeldOrBeyond ==
    ASSUME NEW all, ReadInv(all), More(rd), rd.seg # 0,
           At(rd) \in segs[rd.seg].base .. Bound(segs[rd.seg])
    PROVE  Holds(segs[rd.seg], At(rd)) \/ Beyond(rd, segs)
<1>1. /\ At(rd) \in 1 .. LastBound(segs) - 1 /\ LastBound(segs) \in Nat
      /\ rd.seg \in 1 .. Len(segs) /\ SegmentOK(segs[rd.seg], log) /\ log \in Seq(Frame)
      /\ Len(segs) \in Nat
  BY ReadFacts
<1>2. PICK p \in Nat, last \in Nat, b \in Nat, e \in Nat, n \in Nat, i \in Nat :
        /\ p = At(rd) /\ last = LastBound(segs) /\ b = segs[rd.seg].base
        /\ e = Bound(segs[rd.seg]) /\ n = Len(segs) /\ i = rd.seg
  <2>1. segs[rd.seg].base \in Nat /\ Bound(segs[rd.seg]) \in Nat BY <1>1, SegmentFacts
  <2>2. rd.seg \in Nat /\ At(rd) \in Nat BY <1>1
  <2> QED BY <1>1, <2>1, <2>2
<1>3. p < last /\ p \in b .. e /\ i \in 1 .. n BY <1>1, <1>2
<1>4. CASE p < e
  <2>1. p \in b .. e - 1 BY <1>3, <1>4
  <2> QED BY <1>2, <2>1 DEF Holds, Positions
<1>5. CASE p = e
  <2>1. i # n BY <1>2, <1>3, <1>5 DEF LastBound
  <2>2. i \in 1 .. n - 1 /\ i < n BY <1>3, <2>1
  <2>3. segs[rd.seg + 1].base = e BY <1>2, <2>2 DEF ReadInv, SegmentsOK
  <2> QED BY <1>2, <1>5, <2>2, <2>3 DEF Beyond
<1> QED BY <1>3, <1>4, <1>5

LEMMA HeadSeen ==
    ASSUME NEW all, ReadInv(all), rd.seg # 0, NEW off \in Nat, off + 1 <= SegmentSize,
           Sound(rd, segs, log, off), NEW r, r = [rd EXCEPT !.buf = BufFor(off, 1)]
    PROVE  /\ r \in ReadType /\ r.buf = BufFor(off, 1) /\ BufFor(off, 1) \in BufType
           /\ BufOK(r, segs, log) /\ InBuf(r.buf, off, 1)
           /\ CellIn(r.buf, off) = segs[rd.seg].cells[off]
<1>1. rd \in ReadType /\ BufOK(rd, segs, log) /\ SegmentOK(segs[rd.seg], log) /\ log \in Seq(Frame)
  BY ReadFacts
<1>2. segs[rd.seg] \in SegmentType BY <1>1 DEF SegmentOK
<1>3. PICK one \in Nat : one = 1 OBVIOUS
<1>4. off + one <= SegmentSize /\ r = [rd EXCEPT !.buf = BufFor(off, one)] BY <1>3
<1>5. /\ BufFor(off, one) \in BufType /\ InBuf(BufFor(off, one), off, one)
      /\ BufOK(r, segs, log)
  BY <1>1, <1>2, <1>4, BufForFacts
<1>6. r \in ReadType /\ r.buf = BufFor(off, 1) /\ r.want = rd.want /\ r.seg = rd.seg
  BY <1>1, <1>3, <1>5 DEF ReadType, BufType
<1>7. Sound(r, segs, log, off) BY <1>6 DEF Sound
<1>8. CellIn(r.buf, off) = segs[r.seg].cells[off]
  <2>1. r.seg # 0 /\ r.buf \in BufType /\ InBuf(r.buf, off, 1) BY <1>3, <1>5, <1>6
  <2> QED BY ONLY <1>5, <1>7, <2>1, off \in Nat, CellSeen
<1> QED BY <1>3, <1>5, <1>6, <1>8

\* peek: behind a record is a marker, the next record or the segment's end.
LEMMA AdvanceOK ==
    ASSUME NEW all, ReadInv(all), rd.pc = "head", Beyond(rd, segs)
    PROVE  ReadOK(AdvanceSegment, segs, log, all)
<1>1. rd.pc \in Running BY DEF Running
<1>2. rd \in ReadType /\ OutOK(rd, log) /\ all \in BOOLEAN /\ log \in Seq(Frame)
      /\ Len(segs) \in Nat /\ (all => Covers(rd, segs))
  BY <1>1, ReadFacts
<1>3. rd.kind = "forward" /\ InSegment(rd, segs) /\ More(rd)
  BY DEF ReadInv, ReadOK, ForwardOK
<1>4. PICK i \in Nat, v \in Nat, n \in Nat :
        i = rd.seg /\ v = rd.view /\ n = Len(segs) /\ i \in 1 .. v /\ v <= n /\ i < n
  BY <1>2, <1>3, ReadTypes DEF InSegment, Beyond
<1>5. i + 1 \in 1 .. n BY <1>4
<1>6. PICK s : s = segs[i + 1] /\ SegmentOK(s, log) /\ At(rd) = s.base
  <2>1. \A k \in 1 .. Len(segs) : SegmentOK(segs[k], log) BY SegmentsFacts DEF ReadInv
  <2> QED BY <1>4, <1>5, <2>1 DEF Beyond
<1>7. CASE i < v
  <2>1. PICK q : q = Opened(i + 1) OBVIOUS
  <2>2. PICK h \in Nat : h = HeaderSize BY ReadsAssumption
  <2>3. PICK r : r = [q EXCEPT !.pc = "peek", !.off = h] OBVIOUS
  <2>4. AdvanceSegment = r BY <1>4, <1>7, <2>1, <2>2, <2>3 DEF AdvanceSegment
  <2>5. /\ q \in ReadType /\ q.seg = i + 1 /\ q.buf = NoBuf
        /\ q.want = rd.want /\ q.kind = rd.kind /\ q.view = rd.view
        /\ q.end = rd.end /\ q.out = rd.out
    BY <1>2, <2>1, OpenedFacts
  <2>6. /\ r \in ReadType /\ r.pc = "peek" /\ r.off = h /\ r.seg = i + 1 /\ r.buf = NoBuf
        /\ r.want = rd.want /\ r.kind = rd.kind /\ r.view = rd.view
        /\ r.end = rd.end /\ r.out = rd.out
    BY <2>3, <2>5 DEF ReadType
  <2>7. GoesOn(rd, r, segs, log)
    <3>1. i + 1 <= Len(segs) /\ r.pc \in Running BY <1>4, <1>5, <2>6 DEF Running
    <3> QED BY <1>1, <1>2, <2>6, <3>1, SameRead, EmptyBufOK DEF GoesOn
  <2>8. More(r) /\ At(r) = At(rd) BY <1>3, <2>6, SameRead
  <2>9. AtSpot(r, segs[r.seg], log)
    <3>1. Spot(s, log, s.base) = HeaderSize BY <1>6 DEF SegmentOK
    <3>2. s.base \in Nat /\ Bound(s) \in Nat /\ s.base <= Bound(s)
      BY <1>2, <1>6, SegmentFacts
    <3>3. s.base \in s.base .. Bound(s) BY <3>2
    <3> QED BY <1>6, <2>2, <2>6, <2>8, <3>1, <3>3 DEF AtSpot
  <2>10. InSegment(r, segs)
    <3>1. i + 1 \in 1 .. v BY <1>4, <1>7
    <3> QED BY <1>4, <2>6, <3>1 DEF InSegment
  <2>11. ForwardOK(r, segs, log) BY <1>3, <2>6, <2>8, <2>9, <2>10 DEF ForwardOK
  <2> QED BY <1>2, <2>4, <2>6, <2>7, <2>11, ForwardGoesOn DEF ReadInv
<1>8. CASE ~ (i < v)
  <2>1. i = v BY <1>4, <1>8
  <2>2. AdvanceSegment = Ended("clean") BY <1>4, <1>8 DEF AdvanceSegment
  <2>3. ~ all
    <3> SUFFICES ASSUME Covers(rd, segs) PROVE FALSE
      BY <1>2
    <3>1. v # n BY <1>4, <2>1
    <3>2. PICK m \in 1 .. Len(rd.want) : rd.want[m] = At(rd)
      BY <1>2, <1>3, ReadTypes DEF At
    <3>3. At(rd) < segs[v + 1].base BY <1>4, <3>1, <3>2 DEF Covers
    <3>4. s.base \in Nat BY <1>2, <1>6, SegmentFacts
    <3> QED BY <1>6, <2>1, <3>3, <3>4
  <2> QED BY <2>2, <2>3, UncoveredEnds
<1> QED BY <1>7, <1>8

LEMMA PeekHeadOK ==
    ASSUME NEW all, ReadInv(all), PeekHead
    PROVE  ReadOK(rd', segs, log, all)
<1>1. rd.pc = "head" /\ rd.pc \in Running BY DEF PeekHead, Running
<1>2. rd \in ReadType /\ OutOK(rd, log) /\ rd.seg <= Len(segs)
      /\ all \in BOOLEAN /\ log \in Seq(Frame)
  BY ReadFacts
<1>3. /\ rd.kind = "forward" /\ InSegment(rd, segs) /\ More(rd)
      /\ AtSpot(rd, segs[rd.seg], log) /\ ExtentOK(rd, segs, log)
  BY <1>1 DEF ReadInv, ReadOK, ForwardOK
<1>4. rd.seg # 0 /\ SegmentOK(segs[rd.seg], log)
  BY <1>2, <1>3, ReadFacts, ReadTypes DEF InSegment
<1>5. PICK s : s = segs[rd.seg] OBVIOUS
<1>6. PICK p : p = At(rd) OBVIOUS
<1>7. PICK m \in 1 .. Len(rd.want) : p = rd.want[m] BY <1>3, <1>6, ReadFacts DEF At
<1>8. p \in s.base .. Bound(s) /\ SegmentOK(s, log) BY <1>3, <1>4, <1>5, <1>6 DEF AtSpot
<1>9. Holds(s, p) \/ Beyond(rd, segs) BY <1>3, <1>4, <1>5, <1>6, <1>8, HeldOrBeyond
<1>10. PICK off \in Nat, ext \in Nat, f \in Nat, z \in Nat, k \in Nat \ {0}, spot \in Nat :
        /\ off = rd.off /\ ext = rd.ext /\ f = s.flushed /\ z = SegmentSize /\ k = MarkerLen
        /\ spot = Spot(s, log, p) /\ spot <= f /\ f <= z
  <2>1. /\ s.flushed \in Nat /\ SegmentSize \in Nat /\ MarkerLen \in Nat \ {0}
        /\ s.flushed <= SegmentSize
    BY <1>2, <1>8, SegmentFacts
  <2>2. Spot(s, log, p) \in Nat /\ Spot(s, log, p) <= s.flushed BY <1>2, <1>8, SpotFacts
  <2>3. rd.off \in Nat /\ rd.ext \in Nat BY <1>2, ReadTypes
  <2> QED BY <2>1, <2>2, <2>3
<1>11. /\ Holds(s, p) => Behind(s, log, p) <= ext
       /\ Beyond(rd, segs) => ext = f
  BY <1>3, <1>5, <1>6, <1>7, <1>10 DEF ExtentOK, Beyond
<1>12. \A c : \/ Holds(s, p) /\ c < Behind(s, log, p)
              \/ Beyond(rd, segs)
              => Sound(rd, segs, log, c)
  BY <1>5, <1>6, <1>7 DEF Sound, Beyond
<1>13. PICK r : r = [rd EXCEPT !.buf = BufFor(off, 1)] OBVIOUS
<1>14. PICK buf : buf = BufFor(off, 1) OBVIOUS
<1>15. ASSUME off + 1 <= z, Sound(rd, segs, log, off)
       PROVE  /\ r \in ReadType /\ r.buf = buf /\ buf \in BufType
              /\ BufOK(r, segs, log) /\ InBuf(buf, off, 1)
              /\ CellIn(buf, off) = s.cells[off]
  BY <1>4, <1>5, <1>10, <1>13, <1>14, <1>15, HeadSeen
<1>16. PICK cell : cell = CellIn(buf, off) OBVIOUS
<1>17. rd' = IF off + 1 > ext \/ cell = Zero THEN AdvanceSegment
             ELSE IF cell.nth # 1 THEN Ended("error")
             ELSE IF off + cell.frame.len > ext THEN AdvanceSegment
             ELSE IF cell.frame.kind = "commit"
                  THEN [Go("peek") EXCEPT !.buf = buf, !.off = off + cell.frame.len]
                  ELSE [Go("record") EXCEPT !.buf = buf]
  BY <1>10, <1>14, <1>16 DEF PeekHead
<1>18. Zero.nth = 0 BY DEF Zero
<1>19. CASE off + k = spot /\ MarkerAt(s, off)
  <2>1. spot <= ext
    <3>1. CASE Holds(s, p)
      <4>1. PICK o \in Nat, l \in Nat : o = spot /\ Behind(s, log, p) = o + l
        BY ZenonT(40), <1>2, <1>8, <1>10, <3>1, HeldFacts
      <4>2. o + l <= ext BY <1>11, <3>1, <4>1
      <4> QED BY <4>1, <4>2
    <3>2. CASE Beyond(rd, segs) BY <1>10, <1>11, <3>2
    <3> QED BY <1>9, <3>1, <3>2
  <2>2. Sound(rd, segs, log, off)
    <3>1. CASE Holds(s, p)
      <4>1. PICK o \in Nat, l \in Nat : o = spot /\ Behind(s, log, p) = o + l
        BY ZenonT(40), <1>2, <1>8, <1>10, <3>1, HeldFacts
      <4>2. off < o + l BY <1>19, <4>1
      <4> QED BY <1>12, <3>1, <4>1, <4>2
    <3>2. CASE Beyond(rd, segs) BY <1>12, <3>2
    <3> QED BY <1>9, <3>1, <3>2
  <2>3. off + 1 <= z /\ ~ (off + 1 > ext) /\ ~ (off + k > ext)
    <3>1. off + k = spot /\ spot <= f /\ f <= z /\ spot <= ext BY <1>10, <1>19, <2>1
    <3> QED BY ONLY <3>1, off \in Nat, ext \in Nat, f \in Nat, z \in Nat,
                    k \in Nat \ {0}, spot \in Nat
  <2>4. /\ r \in ReadType /\ r.buf = buf /\ buf \in BufType
        /\ BufOK(r, segs, log) /\ cell = s.cells[off]
    BY <1>15, <1>16, <2>2, <2>3
  <2>5. cell.nth = 1 /\ cell.frame.kind = "commit" /\ cell.frame.len = k /\ cell # Zero
    BY <1>10, <1>18, <1>19, <2>4 DEF MarkerAt
  <2>6. PICK q : q = [Go("peek") EXCEPT !.buf = buf, !.off = spot] OBVIOUS
  <2>7. rd' = q BY <1>17, <1>19, <2>3, <2>5, <2>6
  <2>8. /\ q \in ReadType /\ q.pc = "peek" /\ q.off = spot /\ q.seg = rd.seg /\ q.buf = buf
        /\ q.want = rd.want /\ q.kind = rd.kind /\ q.view = rd.view
        /\ q.end = rd.end /\ q.out = rd.out
    BY <1>2, <2>4, <2>6 DEF ReadType, BufType, Go
  <2>9. r.want = rd.want /\ r.seg = rd.seg /\ r.out = rd.out BY <1>2, <1>13 DEF ReadType
  <2>10. BufOK(q, segs, log) BY <2>4, <2>8, <2>9, SameRead
  <2>11. GoesOn(rd, q, segs, log)
    <3>1. q.pc \in Running BY <2>8 DEF Running
    <3> QED BY <1>1, <1>2, <2>8, <2>10, <3>1, SameRead DEF GoesOn
  <2>12. More(q) /\ At(q) = At(rd) BY <1>3, <2>8, SameRead
  <2>13. AtSpot(q, segs[q.seg], log) /\ InSegment(q, segs)
    BY <1>3, <1>5, <1>6, <1>8, <1>10, <2>8, <2>12 DEF AtSpot, InSegment
  <2>14. ForwardOK(q, segs, log) BY <1>3, <2>8, <2>12, <2>13 DEF ForwardOK
  <2> QED BY <1>2, <2>7, <2>8, <2>11, <2>14, ForwardGoesOn DEF ReadInv
<1>20. CASE off = spot /\ Holds(s, p)
  <2>1. PICK o \in Nat, l \in Nat \ {0} :
          /\ o = spot /\ o = Off(s, p) /\ l = log[p].len /\ Behind(s, log, p) = o + l
          /\ log[p].kind = "data"
    <3>1. /\ Off(s, p) \in Nat /\ log[p].len \in Nat \ {0} /\ Spot(s, log, p) = Off(s, p)
          /\ Behind(s, log, p) = Off(s, p) + log[p].len /\ log[p].kind = "data"
      BY <1>2, <1>8, <1>20, HeldFacts
    <3> QED BY <1>10, <3>1
  <2>2. o + l <= ext /\ o + l <= z
    <3>1. Behind(s, log, p) <= SegmentSize BY <1>2, <1>8, <1>20, HeldFacts
    <3> QED BY <1>10, <1>11, <1>20, <2>1, <3>1
  <2>3. off < o + l /\ off + 1 <= z /\ ~ (off + 1 > ext) /\ ~ (off + l > ext)
    <3>1. off = o BY <1>20, <2>1
    <3> QED BY ONLY <2>2, <3>1, off \in Nat, ext \in Nat, z \in Nat, o \in Nat, l \in Nat \ {0}
  <2>4. /\ r \in ReadType /\ r.buf = buf /\ buf \in BufType
        /\ BufOK(r, segs, log) /\ cell = s.cells[off] /\ InBuf(buf, off, 1)
    BY <1>12, <1>15, <1>16, <1>20, <2>1, <2>3
  <2>5. cell = [frame |-> log[p], nth |-> 1]
    <3>1. Stored(s, log, p) BY <1>8, <1>20 DEF SegmentOK, Holds
    <3>2. 1 \in 1 .. log[p].len /\ Off(s, p) + 1 - 1 = off BY <1>20, <2>1
    <3> QED BY <2>4, <3>1, <3>2 DEF Stored, RecordAt
  <2>6. cell.nth = 1 /\ cell.frame.kind = "data" /\ cell.frame.len = l /\ cell # Zero
    BY <1>18, <2>1, <2>5
  <2>7. PICK q : q = [Go("record") EXCEPT !.buf = buf] OBVIOUS
  <2>8. rd' = q BY <1>17, <2>3, <2>6, <2>7
  <2>9. /\ q \in ReadType /\ q.pc = "record" /\ q.off = off /\ q.seg = rd.seg /\ q.buf = buf
        /\ q.want = rd.want /\ q.kind = rd.kind /\ q.view = rd.view
        /\ q.end = rd.end /\ q.out = rd.out
    BY <1>2, <1>10, <2>4, <2>7 DEF ReadType, BufType, Go
  <2>10. r.want = rd.want /\ r.seg = rd.seg /\ r.out = rd.out BY <1>2, <1>13 DEF ReadType
  <2>11. BufOK(q, segs, log) BY <2>4, <2>9, <2>10, SameRead
  <2>12. GoesOn(rd, q, segs, log)
    <3>1. q.pc \in Running BY <2>9 DEF Running
    <3> QED BY <1>1, <1>2, <2>9, <2>11, <3>1, SameRead DEF GoesOn
  <2>13. More(q) /\ At(q) = At(rd) BY <1>3, <2>9, SameRead
  <2>14. AtRecord(q, segs[q.seg]) /\ InSegment(q, segs) /\ InBuf(q.buf, q.off, 1)
    BY <1>3, <1>5, <1>6, <1>20, <2>1, <2>4, <2>9, <2>13 DEF AtRecord, InSegment
  <2>15. ForwardOK(q, segs, log) BY <1>3, <2>9, <2>13, <2>14 DEF ForwardOK
  <2> QED BY <1>2, <2>8, <2>9, <2>12, <2>15, ForwardGoesOn DEF ReadInv
<1>21. CASE off = spot /\ Beyond(rd, segs)
  <2>1. rd' = AdvanceSegment
    <3>1. CASE off + 1 > ext BY <1>17, <3>1
    <3>2. CASE ~ (off + 1 > ext)
      <4>1. ext = f BY <1>11, <1>21
      <4>2. off + 1 <= z /\ off \in spot .. f - 1
        BY ONLY <1>10, <1>21, <3>2, <4>1, off \in Nat, ext \in Nat, f \in Nat, z \in Nat, spot \in Nat
      <4>3. cell = s.cells[off] BY <1>12, <1>15, <1>16, <1>21, <4>2
      <4>4. SealedOK(s, log) /\ p = Bound(s)
        <5>1. rd.seg \in 1 .. Len(segs) - 1 BY <1>2, <1>4, <1>21, ReadFacts DEF Beyond
        <5> QED BY <1>5, <1>6, <1>21, <5>1 DEF ReadInv, SegmentsOK, Beyond
      <4>5. s.cells[off] = Zero BY <1>10, <4>2, <4>4 DEF SealedOK
      <4> QED BY <1>17, <4>3, <4>5
    <3> QED BY <3>1, <3>2
  <2> QED BY <1>1, <1>21, <2>1, AdvanceOK
<1>22. off = spot \/ (off + k = spot /\ MarkerAt(s, off))
  BY <1>3, <1>5, <1>6, <1>10 DEF AtSpot
<1> QED BY <1>9, <1>19, <1>20, <1>21, <1>22

\* A record yielded.
LEMMA YieldFacts ==
    ASSUME NEW q \in ReadType, NEW r, NEW L \in Seq(Frame), OutOK(q, L), More(q),
           At(q) \in 1 .. Len(L),
           r.want = q.want, r.out = Append(q.out, L[At(q)])
    PROVE  /\ OutOK(r, L) /\ r.out \in Seq(Frame)
           /\ Len(r.out) = Len(q.out) + 1
           /\ More(r) => /\ Len(q.out) + 2 \in 1 .. Len(q.want)
                         /\ At(r) = q.want[Len(q.out) + 2]
<1>1. PICK n \in Nat, w \in Nat : n = Len(q.out) /\ w = Len(q.want) /\ n < w
  BY ReadTypes DEF More
<1>2. L[At(q)] \in Frame /\ q.out \in Seq(Frame) BY ElementOfSeq, ReadTypes
<1>3. /\ r.out \in Seq(Frame) /\ Len(r.out) = n + 1 /\ r.out[n + 1] = L[At(q)]
      /\ \A m \in 1 .. n : r.out[m] = q.out[m]
  BY <1>1, <1>2, AppendProperties
<1>4. OutOK(r, L)
  <2>1. Len(r.out) <= Len(r.want) BY <1>1, <1>3
  <2>2. ASSUME NEW m \in 1 .. n + 1 PROVE r.out[m] = L[r.want[m]]
    <3>1. CASE m = n + 1 BY <1>1, <1>3, <3>1 DEF At
    <3>2. CASE m # n + 1
      <4>1. m \in 1 .. n BY <2>2, <3>2
      <4>2. q.out[m] = L[q.want[m]] BY <1>1, <4>1 DEF OutOK
      <4> QED BY <1>3, <4>1, <4>2
    <3> QED BY <3>1, <3>2
  <2> QED BY <1>3, <2>1, <2>2 DEF OutOK
<1>5. ASSUME More(r)
      PROVE  Len(q.out) + 2 \in 1 .. Len(q.want) /\ At(r) = q.want[Len(q.out) + 2]
  <2>1. n + 1 < w /\ Len(r.out) + 1 = n + 2 BY <1>1, <1>3, <1>5 DEF More
  <2>2. n + 2 \in 1 .. w BY ONLY <2>1, n \in Nat, w \in Nat
  <2> QED BY <1>1, <2>1, <2>2 DEF At
<1> QED BY <1>1, <1>3, <1>4, <1>5

LEMMA ReadSequentialOK ==
    ASSUME NEW all, ReadInv(all), ReadSequential
    PROVE  ReadOK(rd', segs, log, all)
<1>1. rd.pc = "record" /\ rd.pc \in Running BY DEF ReadSequential, Running
<1>2. rd \in ReadType /\ OutOK(rd, log) /\ rd.seg <= Len(segs) /\ BufOK(rd, segs, log)
      /\ all \in BOOLEAN /\ log \in Seq(Frame) /\ WantOK(rd, segs)
  BY ReadFacts
<1>3. /\ rd.kind = "forward" /\ InSegment(rd, segs) /\ More(rd)
      /\ AtRecord(rd, segs[rd.seg]) /\ InBuf(rd.buf, rd.off, 1)
  BY <1>1 DEF ReadInv, ReadOK, ForwardOK
<1>4. rd.seg # 0 /\ SegmentOK(segs[rd.seg], log) /\ rd.buf \in BufType
  BY <1>2, <1>3, ReadFacts, ReadTypes DEF InSegment, BufType
<1>5. PICK s : s = segs[rd.seg] OBVIOUS
<1>6. PICK p : p = At(rd) OBVIOUS
<1>7. PICK m \in 1 .. Len(rd.want) : p = rd.want[m] /\ m = Len(rd.out) + 1
  BY <1>3, <1>6, ReadFacts DEF At
<1>8. SegmentOK(s, log) /\ Holds(s, p) BY <1>3, <1>4, <1>5, <1>6 DEF AtRecord
<1>9. PICK off \in Nat, l \in Nat \ {0}, f \in Nat, z \in Nat :
        /\ off = rd.off /\ off = Off(s, p) /\ l = log[p].len /\ f = s.flushed /\ z = SegmentSize
        /\ Behind(s, log, p) = off + l /\ off + l <= f /\ off + l <= z
  <2>1. /\ Off(s, p) \in Nat /\ log[p].len \in Nat \ {0}
        /\ Behind(s, log, p) = Off(s, p) + log[p].len
        /\ Behind(s, log, p) <= s.flushed /\ Behind(s, log, p) <= SegmentSize
    BY <1>2, <1>8, HeldFacts
  <2>2. s.flushed \in Nat /\ SegmentSize \in Nat BY <1>2, <1>8, SegmentFacts
  <2>3. rd.off = Off(s, p) BY <1>3, <1>5, <1>6 DEF AtRecord
  <2> QED BY <2>1, <2>2, <2>3
<1>10. CellIn(rd.buf, off).frame = log[p]
  <2>1. InBuf(rd.buf, Off(segs[rd.seg], p), 1) /\ Holds(segs[rd.seg], p) /\ p = rd.want[m]
    BY <1>3, <1>5, <1>7, <1>8, <1>9
  <2>2. CellIn(rd.buf, Off(segs[rd.seg], p)) = [frame |-> log[p], nth |-> 1]
    BY ONLY <1>2, <1>4, <2>1, HeadOfRecord, m \in 1 .. Len(rd.want)
  <2> QED BY <1>5, <1>9, <2>2
<1>11. PICK from \in Nat, len \in Nat : from = off + 1 /\ len = l - 1 /\ from + len = off + l
  BY ONLY off \in Nat, l \in Nat \ {0}
<1>12. PICK buf : buf = BufFor(from, len) OBVIOUS
<1>13. PICK r : r = [rd EXCEPT !.buf = buf] OBVIOUS
<1>14. buf \in BufType /\ InBuf(buf, from, len) /\ BufOK(r, segs, log)
  <2>1. segs[rd.seg] \in SegmentType BY <1>4 DEF SegmentOK
  <2>2. from + len <= SegmentSize BY <1>9, <1>11
  <2> QED BY <1>2, <1>12, <1>13, <2>1, <2>2, BufForFacts
<1>15. r.want = rd.want /\ r.seg = rd.seg /\ r.buf = buf /\ r.out = rd.out
  BY <1>2, <1>13 DEF ReadType
<1>16. HasPayload(buf, off, log[p])
  <2>1. InBuf(r.buf, Off(segs[r.seg], p) + 1, log[p].len - 1)
    BY <1>5, <1>9, <1>11, <1>14, <1>15
  <2>2. /\ r.seg # 0 /\ r.buf \in BufType /\ SegmentOK(segs[r.seg], log)
        /\ m \in 1 .. Len(r.want) /\ p = r.want[m] /\ Holds(segs[r.seg], p)
    BY <1>4, <1>5, <1>7, <1>8, <1>14, <1>15
  <2>3. HasPayload(r.buf, Off(segs[r.seg], p), log[p])
    BY ONLY <1>2, <1>14, <2>1, <2>2, PayloadSeen
  <2> QED BY <1>5, <1>9, <1>15, <2>3
<1>17. PICK end \in Nat : end = off + l OBVIOUS
<1>17a. p \in 1 .. Len(log) /\ log[p] \in Frame BY <1>2, <1>8, PositionFacts DEF Holds
<1>17b. PICK out \in Seq(Frame) : out = Append(rd.out, log[p])
  BY <1>2, <1>17a, ReadTypes, AppendProperties
<1>17c. PICK q : q = [Go("next") EXCEPT !.buf = buf, !.off = end, !.out = out] OBVIOUS
<1>18. rd' = q
  <2>1. PICK frame : frame = log[p] OBVIOUS
  <2>2. CellIn(rd.buf, rd.off).frame = frame /\ frame.len = l BY <1>9, <1>10, <2>1
  <2>3. BufFor(rd.off + 1, frame.len - 1) = buf BY <1>9, <1>11, <1>12, <2>2
  <2>4. rd.off + frame.len <= segs[rd.seg].flushed /\ HasPayload(buf, rd.off, frame)
    BY <1>5, <1>9, <1>16, <2>1, <2>2
  <2>5. Go("next").out = rd.out BY <1>2 DEF Go, ReadType
  <2>6. rd' = [Go("next") EXCEPT !.buf = buf, !.off = rd.off + frame.len, !.out = Append(@, frame)]
    BY <2>2, <2>3, <2>4 DEF ReadSequential
  <2> QED BY <1>9, <1>17, <1>17b, <1>17c, <2>1, <2>2, <2>5, <2>6
<1>21. /\ q \in ReadType /\ q.pc = "next" /\ q.off = off + l /\ q.seg = rd.seg /\ q.buf = buf
       /\ q.want = rd.want /\ q.kind = rd.kind /\ q.view = rd.view
       /\ q.end = rd.end /\ q.out = Append(rd.out, log[p])
  <2>1. /\ q \in ReadType /\ q.pc = "next" /\ q.off = end /\ q.seg = rd.seg /\ q.buf = buf
        /\ q.want = rd.want /\ q.kind = rd.kind /\ q.view = rd.view
        /\ q.end = rd.end /\ q.out = out
    BY <1>2, <1>14, <1>17c DEF ReadType, BufType, Go
  <2> QED BY <1>17, <1>17b, <2>1
<1>22. /\ OutOK(q, log)
       /\ More(q) => /\ Len(rd.out) + 2 \in 1 .. Len(rd.want)
                     /\ At(q) = rd.want[Len(rd.out) + 2]
  BY <1>2, <1>3, <1>6, <1>17a, <1>21, YieldFacts
<1>23. BufOK(q, segs, log) BY <1>14, <1>15, <1>21 DEF BufOK, Sound
<1>24. GoesOn(rd, q, segs, log)
  <2>1. q.pc \in Running BY <1>21 DEF Running
  <2> QED BY <1>1, <1>2, <1>21, <1>22, <1>23, <2>1 DEF GoesOn
<1>25. ASSUME More(q) PROVE AtSpot(q, s, log)
  <2>1. At(q) = p + 1
    <3>1. PICK n \in Nat : n = Len(rd.out) /\ m = n + 1 BY <1>2, <1>7, ReadTypes
    <3>2. n + 2 \in 1 .. Len(rd.want) /\ At(q) = rd.want[n + 2] BY <1>22, <1>25, <3>1
    <3>3. PICK a \in Nat : a = rd.want[1]
      <4>1. 1 \in 1 .. Len(rd.want) BY <1>2, <1>7, ReadTypes
      <4> QED BY <1>2, <4>1, ReadTypes
    <3>4. rd.want[n + 2] = a + (n + 2) - 1 /\ rd.want[m] = a + m - 1
      BY <1>2, <1>3, <1>7, <3>2, <3>3 DEF WantOK
    <3>5. a + (n + 2) - 1 = (a + (n + 1) - 1) + 1 BY ONLY a \in Nat, n \in Nat
    <3> QED BY <1>7, <3>1, <3>2, <3>4, <3>5
  <2>2. Linked(s, log, p) BY <1>8 DEF SegmentOK, Holds, Stored
  <2>3. p + 1 \in s.base .. Bound(s)
    <3>1. s.base \in Nat /\ Bound(s) \in Nat BY <1>2, <1>8, SegmentFacts
    <3>2. p \in Nat /\ s.base <= p /\ p < Bound(s) BY <1>2, <1>8, HeldFacts
    <3> QED BY <3>1, <3>2
  <2> QED BY <1>9, <1>21, <2>1, <2>2, <2>3 DEF Linked, AtSpot
<1>26. ForwardOK(q, segs, log)
  <2>1. InSegment(q, segs) BY <1>3, <1>21 DEF InSegment
  <2> QED BY <1>3, <1>5, <1>21, <1>25, <2>1 DEF ForwardOK
<1> QED BY <1>2, <1>18, <1>21, <1>24, <1>26, ForwardGoesOn DEF ReadInv

LEMMA BackStartOK ==
    ASSUME NEW all, ReadInv(all), BackStart
    PROVE  ReadOK(rd', segs, log, all)
<1>1. rd.pc = "start" /\ rd.kind = "back" /\ rd.pc \in Running BY DEF BackStart, Running
<1>2. rd \in ReadType /\ OutOK(rd, log) /\ BufOK(rd, segs, log) /\ rd.seg <= Len(segs)
      /\ all \in BOOLEAN
  BY ReadFacts
<1>3. rd.view <= Len(segs) /\ rd.seg \in 0 .. rd.view /\ rd.seg = 0
  BY <1>1 DEF ReadInv, ReadOK, PointOK
<1>4. PICK r : r = Go("segment") OBVIOUS
<1>5. rd' = r BY <1>4 DEF BackStart
<1>6. /\ r \in ReadType /\ r.pc = "segment" /\ r.seg = rd.seg /\ r.buf = rd.buf
      /\ r.want = rd.want /\ r.kind = rd.kind /\ r.view = rd.view
      /\ r.end = rd.end /\ r.out = rd.out
  BY <1>2, <1>4 DEF ReadType, Go
<1>7. GoesOn(rd, r, segs, log)
  <2>1. r.pc \in Running BY <1>6 DEF Running
  <2> QED BY <1>1, <1>2, <1>6, <2>1, SameRead DEF GoesOn
<1>8. BackOK(r, segs, log, all) BY <1>1, <1>3, <1>6 DEF BackOK
<1> QED BY <1>2, <1>5, <1>6, <1>7, <1>8, BackGoesOn DEF ReadInv

LEMMA EnsureSegmentOK ==
    ASSUME NEW all, ReadInv(all), EnsureSegment
    PROVE  ReadOK(rd', segs, log, all)
<1>1. rd.pc = "segment" /\ rd.pc \in Running BY DEF EnsureSegment, Running
<1>2. rd \in ReadType /\ OutOK(rd, log) /\ BufOK(rd, segs, log) /\ rd.seg <= Len(segs)
      /\ all \in BOOLEAN /\ log \in Seq(Frame) /\ Cursor = At(rd)
  BY ReadFacts
<1>3. BackOK(rd, segs, log, all) BY DEF ReadInv, ReadOK
<1>4. rd.kind = "back" /\ rd.view <= Len(segs) /\ rd.seg \in 0 .. rd.view
  BY <1>1, <1>3 DEF BackOK
<1>5. CASE Spent BY <1>5, SpentEnds DEF EnsureSegment
<1>6. CASE ~ Spent /\ rd.seg # 0 /\ Cursor >= segs[rd.seg].base
  <2>1. PICK r : r = Go("window") OBVIOUS
  <2>2. rd' = r BY <1>6, <2>1 DEF EnsureSegment
  <2>3. /\ r \in ReadType /\ r.pc = "window" /\ r.seg = rd.seg /\ r.buf = rd.buf
        /\ r.want = rd.want /\ r.kind = rd.kind /\ r.view = rd.view
        /\ r.end = rd.end /\ r.out = rd.out /\ r.lo = rd.lo /\ r.ext = rd.ext
        /\ r.count = rd.count
    BY <1>2, <2>1 DEF ReadType, Go
  <2>4. GoesOn(rd, r, segs, log)
    <3>1. r.pc \in Running BY <2>3 DEF Running
    <3> QED BY <1>1, <1>2, <2>3, <3>1, SameRead DEF GoesOn
  <2>5. More(rd) /\ More(r) /\ At(r) = At(rd) BY <1>6, <2>3, ReadFacts, SameRead
  <2>6. /\ ExtentOK(rd, segs, log) /\ WindowOK(rd, segs[rd.seg], log)
        /\ rd.count <= Len(segs[rd.seg].offsets) /\ Holds(segs[rd.seg], At(rd))
    BY <1>1, <1>2, <1>3, <1>6, <2>5 DEF BackOK
  <2>7. InSegment(r, segs)
    <3>1. rd.seg \in 1 .. rd.view BY <1>2, <1>4, <1>6, ReadTypes
    <3> QED BY <1>4, <2>3, <3>1 DEF InSegment
  <2>8. ExtentOK(r, segs, log) /\ WindowOK(r, segs[r.seg], log)
    BY <2>3, <2>6, SameRead DEF WindowOK
  <2>9. BackOK(r, segs, log, all) BY <1>4, <2>3, <2>5, <2>6, <2>7, <2>8 DEF BackOK
  <2> QED BY <1>2, <2>2, <2>3, <2>4, <2>9, BackGoesOn DEF ReadInv
<1>7. CASE ~ Spent /\ ~ (rd.seg # 0 /\ Cursor >= segs[rd.seg].base) /\ Owners(Cursor) = {}
  <2>1. ~ all BY <1>1, <1>4, <1>7, LocatedFacts, ReadFacts
  <2>2. rd' = Ended("clean") BY <1>7 DEF EnsureSegment
  <2> QED BY <2>1, <2>2, UncoveredEnds
<1>8. CASE ~ Spent /\ ~ (rd.seg # 0 /\ Cursor >= segs[rd.seg].base) /\ Owners(Cursor) # {}
  <2>1. More(rd) /\ rd.view \in Nat BY <1>2, <1>8, ReadFacts, ReadTypes
  <2>2. PICK seg \in 1 .. rd.view :
          /\ seg = Locate(Cursor) /\ seg \in 1 .. Len(segs) /\ SegmentOK(segs[seg], log)
          /\ all => Holds(segs[seg], At(rd))
    BY <1>1, <1>4, <1>8, <2>1, LocatedFacts
  <2>3. PICK f \in Nat : f = segs[seg].flushed BY <1>2, <2>2, SegmentFacts
  <2>4. PICK q : q = Opened(seg) OBVIOUS
  <2>5. PICK r : r = [q EXCEPT !.pc = "count", !.ext = f, !.lo = 0] OBVIOUS
  <2>6. rd' = r BY <1>8, <2>2, <2>3, <2>4, <2>5 DEF EnsureSegment
  <2>7. /\ q \in ReadType /\ q.seg = seg /\ q.buf = NoBuf
        /\ q.want = rd.want /\ q.kind = rd.kind /\ q.view = rd.view
        /\ q.end = rd.end /\ q.out = rd.out
    BY <1>2, <2>1, <2>2, <2>4, OpenedFacts
  <2>8. /\ r \in ReadType /\ r.pc = "count" /\ r.seg = seg /\ r.buf = NoBuf
        /\ r.want = rd.want /\ r.kind = rd.kind /\ r.view = rd.view
        /\ r.end = rd.end /\ r.out = rd.out /\ r.ext = f /\ r.lo = 0
    BY <2>5, <2>7 DEF ReadType
  <2>9. GoesOn(rd, r, segs, log)
    <3>1. seg <= Len(segs) /\ r.pc \in Running BY <2>2, <2>8, ReadFacts DEF Running
    <3> QED BY <1>1, <1>2, <2>8, <3>1, SameRead, EmptyBufOK DEF GoesOn
  <2>10. More(r) /\ At(r) = At(rd) BY <2>1, <2>8, SameRead
  <2>11. ExtentOK(r, segs, log) BY <1>2, <2>2, <2>3, <2>8, FlushedCovers
  <2>12. InSegment(r, segs) /\ WindowOK(r, segs[r.seg], log)
    BY <1>4, <2>2, <2>8 DEF InSegment, WindowOK
  <2>13. BackOK(r, segs, log, all) BY <1>4, <2>2, <2>8, <2>10, <2>11, <2>12 DEF BackOK
  <2> QED BY <1>2, <2>6, <2>8, <2>9, <2>13, BackGoesOn DEF ReadInv
<1> QED BY <1>5, <1>6, <1>7, <1>8

LEMMA CountEventsOK ==
    ASSUME NEW all, ReadInv(all), CountEvents
    PROVE  ReadOK(rd', segs, log, all)
<1>1. rd.pc = "count" /\ rd.pc \in Running BY DEF CountEvents, Running
<1>2. rd \in ReadType /\ OutOK(rd, log) /\ BufOK(rd, segs, log) /\ rd.seg <= Len(segs)
      /\ all \in BOOLEAN /\ log \in Seq(Frame)
  BY ReadFacts
<1>3. BackOK(rd, segs, log, all) BY DEF ReadInv, ReadOK
<1>4. rd.kind = "back" /\ InSegment(rd, segs) /\ More(rd) /\ (all => Holds(segs[rd.seg], At(rd)))
  BY <1>1, <1>3 DEF BackOK
<1>5. rd.seg # 0 /\ SegmentOK(segs[rd.seg], log)
  BY <1>2, <1>4, ReadFacts, ReadTypes DEF InSegment
<1>6. ExtentOK(rd, segs, log) /\ WindowOK(rd, segs[rd.seg], log)
  BY <1>1, <1>3, <1>5 DEF BackOK
<1>7. PICK n \in Nat : n = Len(segs[rd.seg].offsets) BY <1>2, <1>5, SegmentFacts
<1>8. PICK r : r = [Go("window") EXCEPT !.count = n] OBVIOUS
<1>9. rd' = r BY <1>7, <1>8 DEF CountEvents
<1>10. /\ r \in ReadType /\ r.pc = "window" /\ r.seg = rd.seg /\ r.buf = rd.buf
       /\ r.want = rd.want /\ r.kind = rd.kind /\ r.view = rd.view
       /\ r.end = rd.end /\ r.out = rd.out /\ r.lo = rd.lo /\ r.ext = rd.ext
       /\ r.count = n
  BY <1>2, <1>8 DEF ReadType, Go
<1>11. GoesOn(rd, r, segs, log)
  <2>1. r.pc \in Running BY <1>10 DEF Running
  <2> QED BY <1>1, <1>2, <1>10, <2>1, SameRead DEF GoesOn
<1>12. BackOK(r, segs, log, all)
  <2>1. More(r) /\ At(r) = At(rd) /\ ExtentOK(r, segs, log) BY <1>4, <1>6, <1>10, SameRead
  <2>2. WindowOK(r, segs[r.seg], log) /\ InSegment(r, segs)
    BY <1>4, <1>6, <1>10 DEF WindowOK, InSegment
  <2>3. r.count <= Len(segs[r.seg].offsets) BY <1>7, <1>10
  <2> QED BY <1>4, <1>10, <2>1, <2>2, <2>3 DEF BackOK
<1> QED BY <1>2, <1>9, <1>10, <1>11, <1>12, BackGoesOn DEF ReadInv

\* The window that ends with the record at p: at a cell behind it, below the flushed offset.
LEMMA EndOfFacts ==
    ASSUME NEW L \in Seq(Frame), NEW s, s = segs[rd.seg], SegmentOK(s, L), NEW p, Holds(s, p),
           rd \in ReadType, rd.count <= Len(s.offsets), rd.ext <= s.flushed,
           Behind(s, L, p) <= rd.ext
    PROVE  EndOf(p) \in Nat /\ Behind(s, L, p) <= EndOf(p) /\ EndOf(p) <= s.flushed
<1>1. PICK o \in Nat, l \in Nat \ {0}, f \in Nat, ext \in Nat :
        /\ o = Off(s, p) /\ l = L[p].len /\ L[p].kind = "data" /\ f = s.flushed /\ ext = rd.ext
        /\ Behind(s, L, p) = o + l /\ o + l <= f /\ o + l <= ext /\ ext <= f /\ p \in Nat
  <2>1. /\ Off(s, p) \in Nat /\ L[p].len \in Nat \ {0} /\ L[p].kind = "data" /\ p \in Nat
        /\ Behind(s, L, p) = Off(s, p) + L[p].len /\ Behind(s, L, p) <= s.flushed
    BY HeldFacts
  <2>2. s.flushed \in Nat /\ rd.ext \in Nat BY SegmentFacts, ReadTypes
  <2> QED BY <2>1, <2>2
<1>2. DataOffset(rd.seg, p) = o BY <1>1, OffsetFacts
<1>3. CASE Local(rd.seg, p) < rd.count
  <2>1. PICK b \in Nat, n \in Nat, c \in Nat :
          b = s.base /\ n = Len(s.offsets) /\ c = rd.count /\ c <= n /\ Bound(s) = b + n
    BY SegmentFacts, ReadTypes DEF Bound
  <2>2. p - b + 1 < c /\ b <= p BY <1>3, <2>1, HeldFacts DEF Local
  <2>3. p + 1 \in b .. (b + n) - 1 /\ p + 1 \in Nat
    <3>1. c <= n /\ p \in Nat BY <1>1, <2>1
    <3> QED BY ONLY <2>2, <3>1, b \in Nat, n \in Nat, c \in Nat
  <2>4. PICK q \in Nat : q = p + 1 /\ q \in Positions(s) /\ p \in Positions(s) /\ p < q
    BY <1>1, <2>1, <2>3 DEF Positions, Holds
  <2>5. PICK x \in Nat : x = Off(s, q) /\ DataOffset(rd.seg, q) = x /\ o + l <= x
    <3>1. Off(s, q) \in Nat BY <2>4, PositionFacts
    <3>2. DataOffset(rd.seg, q) = Off(s, q) BY <2>4, OffsetFacts
    <3>3. Behind(s, L, p) <= Off(s, q) BY <2>4 DEF SegmentOK
    <3> QED BY <1>1, <3>1, <3>2, <3>3
  <2>6. EndOf(p) = Min({x, ext}) BY <1>1, <1>3, <2>4, <2>5 DEF EndOf
  <2>7. Min({x, ext}) \in Nat /\ Min({x, ext}) <= ext
        /\ (Min({x, ext}) = x \/ Min({x, ext}) = ext)
    BY MinOfTwo
  <2>8. PICK e \in Nat : e = EndOf(p) /\ e <= ext /\ (e = x \/ e = ext) BY <2>6, <2>7
  <2>9. o + l <= e /\ e <= f
    <3>1. o + l <= ext /\ o + l <= x /\ ext <= f BY <1>1, <2>5
    <3> QED BY <2>8, <3>1
  <2> QED BY <1>1, <2>8, <2>9
<1>4. CASE ~ (Local(rd.seg, p) < rd.count)
  <2>1. Stored(s, L, p) BY DEF SegmentOK, Holds
  <2>2. s.cells[o] = [frame |-> L[p], nth |-> 1]
    <3>1. 1 \in 1 .. L[p].len /\ Off(s, p) + 1 - 1 = o BY <1>1
    <3> QED BY <2>1, <3>1 DEF Stored, RecordAt
  <2>3. EndOf(p) = Min({o + l, ext}) BY <1>1, <1>2, <1>4, <2>2 DEF EndOf
  <2>4. PICK y \in Nat : y = o + l /\ y <= ext /\ y <= f
    <3>1. o + l <= ext /\ o + l <= f BY <1>1
    <3>2. o + l \in Nat BY ONLY o \in Nat, l \in Nat \ {0}
    <3> QED BY ONLY <3>1, <3>2
  <2>5. Min({y, ext}) \in Nat /\ Min({y, ext}) <= y /\ (Min({y, ext}) = y \/ Min({y, ext}) = ext)
    BY MinOfTwo
  <2>6. Min({y, ext}) = y
    <3>1. y <= ext BY <2>4
    <3> QED BY ONLY <2>5, <3>1, y \in Nat, ext \in Nat
  <2>7. EndOf(p) = y /\ Behind(s, L, p) = y /\ s.flushed = f BY <1>1, <2>3, <2>4, <2>6
  <2> QED BY <2>4, <2>7
<1> QED BY <1>3, <1>4

LEMMA LowestForFacts ==
    ASSUME NEW L \in Seq(Frame), NEW s, s = segs[rd.seg], SegmentOK(s, L), NEW p, Holds(s, p),
           NEW end, First \in Nat
    PROVE  /\ LowestFor(p, end) \in Nat \ {0} /\ LowestFor(p, end) <= p
           /\ s.base <= LowestFor(p, end)
<1>1. p \in Nat \ {0} /\ s.base <= p /\ s.base \in Nat \ {0} BY HeldFacts, SegmentFacts
<1>2. PICK T : T = {p} \union
        {k \in First .. p :
            /\ k >= segs[rd.seg].base
            /\ \A q \in k .. p - 1 : end - DataOffset(rd.seg, q) <= Window}
  OBVIOUS
<1>3. T \subseteq Nat /\ T # {} /\ \A k \in T : k <= p /\ s.base <= k BY <1>1, <1>2
<1>4. Min(T) \in T BY <1>3, MinIsLeast
<1>5. LowestFor(p, end) = Min(T) BY <1>2 DEF LowestFor
<1>6. PICK k \in Nat : k = Min(T) /\ k <= p /\ s.base <= k BY <1>3, <1>4
<1>7. k # 0 BY <1>1, <1>6
<1> QED BY <1>5, <1>6, <1>7

\* Records lie in the order of their positions.
LEMMA RecordsAscend ==
    ASSUME NEW s, NEW L \in Seq(Frame), SegmentOK(s, L), NEW p, NEW q, Holds(s, p), Holds(s, q),
           p <= q
    PROVE  Off(s, p) <= Off(s, q) /\ Behind(s, L, p) <= Behind(s, L, q)
<1>1. PICK o \in Nat, l \in Nat \ {0}, x \in Nat, y \in Nat \ {0} :
        /\ o = Off(s, p) /\ Behind(s, L, p) = o + l /\ x = Off(s, q) /\ Behind(s, L, q) = x + y
        /\ p \in Nat /\ q \in Nat
  <2>1. /\ Off(s, p) \in Nat /\ L[p].len \in Nat \ {0} /\ Behind(s, L, p) = Off(s, p) + L[p].len
        /\ p \in Nat
    BY HeldFacts
  <2>2. /\ Off(s, q) \in Nat /\ L[q].len \in Nat \ {0} /\ Behind(s, L, q) = Off(s, q) + L[q].len
        /\ q \in Nat
    BY HeldFacts
  <2> QED BY <2>1, <2>2
<1>2. CASE p = q
  <2>1. o + l \in Nat /\ o <= o /\ o + l <= o + l BY ONLY o \in Nat, l \in Nat \ {0}
  <2> QED BY <1>1, <1>2, <2>1
<1>3. CASE p # q
  <2>1. p < q BY <1>1, <1>3
  <2>2. Behind(s, L, p) <= Off(s, q) BY <2>1 DEF SegmentOK, Holds
  <2>3. o + l <= x BY <1>1, <2>2
  <2>4. o <= x /\ o + l <= x + y
    BY ONLY <2>3, o \in Nat, l \in Nat \ {0}, x \in Nat, y \in Nat \ {0}
  <2> QED BY <1>1, <2>4
<1> QED BY <1>2, <1>3

LEMMA EnsureWindowOK ==
    ASSUME NEW all, ReadInv(all), EnsureWindow
    PROVE  ReadOK(rd', segs, log, all)
<1>1. rd.pc = "window" /\ rd.pc \in Running BY DEF EnsureWindow, Running
<1>2. rd \in ReadType /\ OutOK(rd, log) /\ BufOK(rd, segs, log) /\ rd.seg <= Len(segs)
      /\ all \in BOOLEAN /\ log \in Seq(Frame) /\ Cursor = At(rd) /\ WantOK(rd, segs)
  BY ReadFacts
<1>3. BackOK(rd, segs, log, all) BY DEF ReadInv, ReadOK
<1>4. rd.kind = "back" /\ InSegment(rd, segs) /\ More(rd) /\ (all => Holds(segs[rd.seg], At(rd)))
  BY <1>1, <1>3 DEF BackOK
<1>5. rd.seg # 0 /\ SegmentOK(segs[rd.seg], log)
  BY <1>2, <1>4, ReadFacts, ReadTypes DEF InSegment
<1>6. /\ ExtentOK(rd, segs, log) /\ WindowOK(rd, segs[rd.seg], log)
      /\ rd.count <= Len(segs[rd.seg].offsets)
  BY <1>1, <1>3, <1>5 DEF BackOK
<1>7. PICK p \in Nat : p = At(rd) /\ p = Cursor BY <1>2, <1>4, ReadFacts
<1>8. PICK s : s = segs[rd.seg] /\ SegmentOK(s, log) BY <1>5
<1>9. CASE rd.lo # 0 /\ Cursor >= rd.lo
  <2>1. PICK r : r = Go("emit") OBVIOUS
  <2>2. rd' = r BY <1>9, <2>1 DEF EnsureWindow
  <2>3. /\ r \in ReadType /\ r.pc = "emit" /\ r.seg = rd.seg /\ r.buf = rd.buf
        /\ r.want = rd.want /\ r.kind = rd.kind /\ r.view = rd.view
        /\ r.end = rd.end /\ r.out = rd.out /\ r.lo = rd.lo /\ r.ext = rd.ext
        /\ r.count = rd.count
    BY <1>2, <2>1 DEF ReadType, Go
  <2>4. GoesOn(rd, r, segs, log)
    <3>1. r.pc \in Running BY <2>3 DEF Running
    <3> QED BY <1>1, <1>2, <2>3, <3>1, SameRead DEF GoesOn
  <2>5. More(r) /\ At(r) = At(rd) /\ ExtentOK(r, segs, log) BY <1>4, <1>6, <2>3, SameRead
  <2>6. WindowOK(r, segs[r.seg], log) /\ InSegment(r, segs)
    BY <1>4, <1>6, <2>3 DEF WindowOK, InSegment
  <2>7. BackOK(r, segs, log, all) BY <1>2, <1>4, <1>6, <1>9, <2>3, <2>5, <2>6 DEF BackOK
  <2> QED BY <1>2, <2>2, <2>3, <2>4, <2>7, BackGoesOn DEF ReadInv
<1>10. HasOffset(rd.seg, p) <=> Holds(s, p) BY <1>2, <1>8, OffsetFacts
<1>11. CASE ~ (rd.lo # 0 /\ Cursor >= rd.lo) /\ ~ Holds(s, p)
  <2>1. ~ all BY <1>4, <1>7, <1>8, <1>11
  <2>2. rd' = Ended("error") BY <1>7, <1>10, <1>11 DEF EnsureWindow
  <2> QED BY <2>1, <2>2, UncoveredEnds
<1>12. CASE ~ (rd.lo # 0 /\ Cursor >= rd.lo) /\ Holds(s, p)
  <2>1. PICK m \in 1 .. Len(rd.want) : p = rd.want[m] /\ m = Len(rd.out) + 1
    BY <1>4, <1>7, ReadFacts DEF At
  <2>2. rd.ext <= s.flushed /\ Behind(s, log, p) <= rd.ext
    BY <1>6, <1>8, <1>12, <2>1 DEF ExtentOK
  <2>3. PICK end \in Nat : end = EndOf(p) /\ Behind(s, log, p) <= end /\ end <= s.flushed
    BY <1>2, <1>6, <1>8, <1>12, <2>2, EndOfFacts
  <2>4. First \in Nat
    <3>1. Len(rd.want) \in 1 .. Len(rd.want) BY <1>2, <2>1, ReadTypes
    <3> QED BY <1>2, <3>1, ReadTypes DEF First
  <2>5. PICK lo \in Nat \ {0} : lo = LowestFor(p, end) /\ lo <= p /\ s.base <= lo
    BY <1>2, <1>8, <1>12, <2>4, LowestForFacts
  <2>6. \A k \in Nat : lo <= k /\ k <= p => Holds(s, k)
    <3>1. PICK b \in Nat, e \in Nat : b = s.base /\ e = Bound(s)
      BY <1>2, <1>8, SegmentFacts
    <3>2. p < e /\ b <= lo BY <1>2, <1>8, <1>12, <2>5, <3>1, HeldFacts
    <3>3. \A k \in Nat : lo <= k /\ k <= p => k \in b .. e - 1
      BY ONLY <3>2, p \in Nat, lo \in Nat, b \in Nat, e \in Nat
    <3> QED BY <3>1, <3>3 DEF Holds, Positions
  <2>7. Holds(s, lo) BY <2>5, <2>6
  <2>8. PICK at \in Nat : at = Off(s, lo) /\ at = DataOffset(rd.seg, lo)
    <3>1. Off(s, lo) \in Nat BY <1>2, <1>8, <2>7, HeldFacts
    <3>2. DataOffset(rd.seg, lo) = Off(s, lo) BY <1>2, <1>8, OffsetFacts
    <3> QED BY <3>1, <3>2
  <2>9. PICK f \in Nat, z \in Nat, o \in Nat, l \in Nat \ {0} :
          /\ f = s.flushed /\ z = SegmentSize /\ f <= z /\ o = Off(s, p)
          /\ Behind(s, log, p) = o + l
    <3>1. Off(s, p) \in Nat /\ log[p].len \in Nat \ {0} /\ Behind(s, log, p) = Off(s, p) + log[p].len
      BY <1>2, <1>8, <1>12, HeldFacts
    <3> QED BY <1>2, <1>8, <3>1, SegmentFacts
  <2>10. at <= o BY <1>2, <1>8, <1>12, <2>5, <2>7, <2>8, <2>9, RecordsAscend
  <2>11. at <= end /\ end <= z /\ end # 0 /\ ~ (end > f) /\ ~ (end < at)
    <3>1. o + l <= end /\ end <= f /\ f <= z BY <2>3, <2>9
    <3> QED BY ONLY <2>10, <3>1, at \in Nat, end \in Nat, o \in Nat, l \in Nat \ {0}, f \in Nat,
                    z \in Nat
  <2>12. PICK cells \in Seq(CellType) :
          /\ cells = Slice(s.cells, at, end) /\ Len(cells) = end - at
          /\ \A i \in 1 .. Len(cells) : cells[i] = s.cells[at + i - 1]
    <3>1. s.cells \in [0 .. SegmentSize - 1 -> CellType] /\ end <= SegmentSize /\ at <= end
      BY <1>2, <1>8, <2>9, <2>11, SegmentFacts
    <3>2. Sliced(Slice(s.cells, at, end), s.cells, at, end)
      BY ONLY <3>1, SliceFacts, at \in Nat, end \in Nat
    <3> QED BY <3>2 DEF Sliced
  <2>13. PICK buf \in BufType : buf = [at |-> at, cells |-> cells] BY DEF BufType
  <2>14. PICK r : r = [Go("emit") EXCEPT !.lo = lo, !.buf = buf] OBVIOUS
  <2>15. rd' = r
    <3>1. ~ (rd.lo # 0 /\ p >= rd.lo) /\ HasOffset(rd.seg, p) BY <1>7, <1>10, <1>12
    <3>2. ~ (end = 0 \/ end > segs[rd.seg].flushed \/ end < DataOffset(rd.seg, lo))
      BY <1>8, <2>8, <2>9, <2>11
    <3> QED BY <1>7, <1>8, <2>3, <2>5, <2>8, <2>12, <2>13, <2>14, <3>1, <3>2 DEF EnsureWindow
  <2>16. /\ r \in ReadType /\ r.pc = "emit" /\ r.seg = rd.seg /\ r.buf = buf
         /\ r.want = rd.want /\ r.kind = rd.kind /\ r.view = rd.view
         /\ r.end = rd.end /\ r.out = rd.out /\ r.lo = lo /\ r.ext = rd.ext
         /\ r.count = rd.count
    BY <1>2, <2>14 DEF ReadType, BufType, Go
  <2>17. BufOK(r, segs, log)
    <3>1. Fresh(r.buf, segs[r.seg]) BY <1>8, <2>12, <2>13, <2>16 DEF Fresh
    <3> QED BY ONLY <3>1, FreshOKBuf
  <2>18. GoesOn(rd, r, segs, log)
    <3>1. r.pc \in Running BY <2>16 DEF Running
    <3> QED BY <1>1, <1>2, <2>16, <2>17, <3>1, SameRead DEF GoesOn
  <2>19. More(r) /\ At(r) = At(rd) /\ ExtentOK(r, segs, log)
    BY <1>4, <1>6, <2>16, SameRead
  <2>20. WindowOK(r, s, log)
    <3> SUFFICES ASSUME NEW k \in Len(r.out) + 1 .. Len(r.want), r.want[k] >= lo
                 PROVE  /\ Holds(s, r.want[k])
                        /\ r.buf.at <= Off(s, r.want[k])
                        /\ Behind(s, log, r.want[k]) <= r.buf.at + Len(r.buf.cells)
      BY <2>16 DEF WindowOK
    <3>1. PICK n \in Nat, w \in Nat : n = Len(rd.out) /\ w = Len(rd.want) /\ k \in n + 1 .. w
      BY <1>2, <2>16, ReadTypes
    <3>2. k \in 1 .. w /\ 1 \in 1 .. w BY ONLY <3>1, n \in Nat, w \in Nat
    <3>3. PICK x \in Nat, a \in Nat : x = rd.want[k] /\ a = rd.want[1]
      BY <1>2, <3>1, <3>2, ReadTypes
    <3>4. x + k = a + 1 /\ p + m = a + 1 BY <1>2, <1>4, <2>1, <3>1, <3>2, <3>3 DEF WantOK
    <3>5. x <= p
      <4>1. m = n + 1 BY <2>1, <3>1
      <4> QED BY ONLY <3>1, <3>4, <4>1, x \in Nat, a \in Nat, p \in Nat, n \in Nat, w \in Nat
    <3>6. Holds(s, x) BY <2>6, <2>16, <3>3, <3>5
    <3>7. Off(s, lo) <= Off(s, x) /\ Behind(s, log, x) <= Behind(s, log, p)
      BY <1>2, <1>8, <1>12, <2>7, <2>16, <3>3, <3>5, <3>6, RecordsAscend
    <3>8. at + Len(cells) = end BY <2>11, <2>12
    <3>9. Behind(s, log, x) <= end
      <4>1. Behind(s, log, x) \in Nat /\ Behind(s, log, p) \in Nat
        BY <1>2, <1>8, <1>12, <3>6, PositionFacts DEF Holds
      <4> QED BY <2>3, <3>7, <4>1
    <3> QED BY <2>8, <2>13, <2>16, <3>3, <3>6, <3>7, <3>8, <3>9
  <2>21. InSegment(r, segs) /\ At(r) >= lo BY <1>4, <1>7, <2>5, <2>16, <2>19 DEF InSegment
  <2>22. BackOK(r, segs, log, all)
    BY <1>4, <1>6, <1>8, <2>16, <2>19, <2>20, <2>21 DEF BackOK
  <2> QED BY <1>2, <2>15, <2>16, <2>18, <2>22, BackGoesOn DEF ReadInv
<1> QED BY <1>9, <1>11, <1>12

LEMMA EmitBackOK ==
    ASSUME NEW all, ReadInv(all), EmitBack
    PROVE  ReadOK(rd', segs, log, all)
<1>1. rd.pc = "emit" /\ rd.pc \in Running BY DEF EmitBack, Running
<1>2. rd \in ReadType /\ OutOK(rd, log) /\ BufOK(rd, segs, log) /\ rd.seg <= Len(segs)
      /\ all \in BOOLEAN /\ log \in Seq(Frame) /\ Cursor = At(rd) /\ WantOK(rd, segs)
  BY ReadFacts
<1>3. BackOK(rd, segs, log, all) BY DEF ReadInv, ReadOK
<1>4. rd.kind = "back" /\ InSegment(rd, segs) /\ More(rd) /\ rd.lo # 0 /\ At(rd) >= rd.lo
  BY <1>1, <1>3 DEF BackOK
<1>5. rd.seg # 0 /\ SegmentOK(segs[rd.seg], log) /\ rd.buf \in BufType
  BY <1>2, <1>4, ReadFacts, ReadTypes DEF InSegment, BufType
<1>6. /\ ExtentOK(rd, segs, log) /\ WindowOK(rd, segs[rd.seg], log)
      /\ rd.count <= Len(segs[rd.seg].offsets)
  BY <1>1, <1>3, <1>5 DEF BackOK
<1>7. PICK p \in Nat : p = At(rd) /\ p = Cursor BY <1>2, <1>4, ReadFacts
<1>8. PICK s : s = segs[rd.seg] /\ SegmentOK(s, log) BY <1>5
<1>9. PICK m \in 1 .. Len(rd.want) : p = rd.want[m] /\ m = Len(rd.out) + 1
  BY <1>4, <1>7, ReadFacts DEF At
<1>10. /\ Holds(s, p) /\ rd.buf.at <= Off(s, p)
       /\ Behind(s, log, p) <= rd.buf.at + Len(rd.buf.cells)
  <2>1. m \in Len(rd.out) + 1 .. Len(rd.want) BY <1>2, <1>9, ReadTypes
  <2> QED BY <1>4, <1>6, <1>7, <1>8, <1>9, <2>1 DEF WindowOK
<1>11. PICK at \in Nat, n \in Nat, o \in Nat, l \in Nat \ {0} :
        /\ at = rd.buf.at /\ n = Len(rd.buf.cells) /\ o = Off(s, p) /\ l = log[p].len
        /\ at <= o /\ o + l <= at + n /\ log[p].kind = "data"
  <2>1. /\ Off(s, p) \in Nat /\ log[p].len \in Nat \ {0} /\ log[p].kind = "data"
        /\ Behind(s, log, p) = Off(s, p) + log[p].len
    BY <1>2, <1>8, <1>10, HeldFacts
  <2> QED BY SMTT(40), <1>2, <1>10, <2>1, ReadTypes
<1>12. InBuf(rd.buf, o, 1) /\ InBuf(rd.buf, o + 1, l - 1)
  <2>1. o >= at /\ o + 1 <= at + n /\ o + 1 >= at /\ (o + 1) + (l - 1) <= at + n
    <3>1. at <= o /\ o + l <= at + n BY <1>11
    <3> QED BY ONLY <3>1, at \in Nat, n \in Nat, o \in Nat, l \in Nat \ {0}
  <2> QED BY <1>11, <2>1 DEF InBuf
<1>13. /\ Holds(segs[rd.seg], p) /\ p = rd.want[m] /\ InBuf(rd.buf, Off(segs[rd.seg], p), 1)
       /\ InBuf(rd.buf, Off(segs[rd.seg], p) + 1, log[p].len - 1)
  BY <1>8, <1>9, <1>10, <1>11, <1>12
<1>14. CellIn(rd.buf, o) = [frame |-> log[p], nth |-> 1]
  <2>1. CellIn(rd.buf, Off(segs[rd.seg], p)) = [frame |-> log[p], nth |-> 1]
    BY ONLY <1>2, <1>5, <1>13, HeadOfRecord, m \in 1 .. Len(rd.want)
  <2> QED BY <1>8, <1>11, <2>1
<1>15. HasPayload(rd.buf, o, log[p])
  <2>1. HasPayload(rd.buf, Off(segs[rd.seg], p), log[p])
    BY ONLY <1>2, <1>5, <1>13, PayloadSeen, m \in 1 .. Len(rd.want)
  <2> QED BY <1>8, <1>11, <2>1
<1>16. p \in 1 .. Len(log) /\ log[p] \in Frame
  BY <1>2, <1>8, <1>10, PositionFacts DEF Holds
<1>17. PICK out \in Seq(Frame) : out = Append(rd.out, log[p])
  BY <1>2, <1>16, ReadTypes, AppendProperties
<1>18. PICK q : q = [Go("segment") EXCEPT !.out = out] OBVIOUS
<1>19. rd' = q
  <2>1. HasOffset(rd.seg, p) /\ DataOffset(rd.seg, p) = o
    BY <1>2, <1>8, <1>10, <1>11, OffsetFacts
  <2>2. CellIn(rd.buf, o).frame = log[p] /\ CellIn(rd.buf, o).nth = 1 BY <1>14
  <2>3. Whole(rd.buf, o) BY <1>15, <2>2 DEF Whole
  <2>4. Go("segment").out = rd.out BY <1>2 DEF Go, ReadType
  <2>5. rd' = [Go("segment") EXCEPT !.out = Append(@, CellIn(rd.buf, o).frame)]
    BY <1>7, <1>11, <1>12, <2>1, <2>2, <2>3 DEF EmitBack
  <2> QED BY <1>17, <1>18, <2>2, <2>4, <2>5
<1>20. /\ q \in ReadType /\ q.pc = "segment" /\ q.seg = rd.seg /\ q.buf = rd.buf
       /\ q.want = rd.want /\ q.kind = rd.kind /\ q.view = rd.view
       /\ q.end = rd.end /\ q.lo = rd.lo /\ q.ext = rd.ext /\ q.count = rd.count
       /\ q.out = out
  BY <1>2, <1>18 DEF ReadType, Go
<1>21. /\ OutOK(q, log)
       /\ Len(q.out) = Len(rd.out) + 1
       /\ More(q) => /\ Len(rd.out) + 2 \in 1 .. Len(rd.want)
                     /\ At(q) = rd.want[Len(rd.out) + 2]
  BY <1>2, <1>4, <1>7, <1>16, <1>17, <1>20, YieldFacts
<1>22. BufOK(q, segs, log) BY <1>2, <1>20 DEF BufOK, Sound
<1>23. GoesOn(rd, q, segs, log)
  <2>1. q.pc \in Running BY <1>20 DEF Running
  <2> QED BY <1>1, <1>2, <1>20, <1>21, <1>22, <2>1 DEF GoesOn
<1>24. ASSUME More(q), At(q) >= s.base PROVE Holds(s, At(q))
  <2>1. PICK c \in Nat : c = Len(rd.out) /\ m = c + 1 BY <1>2, <1>9, ReadTypes
  <2>2. c + 2 \in 1 .. Len(rd.want) /\ At(q) = rd.want[c + 2] BY <1>21, <1>24, <2>1
  <2>3. PICK a \in Nat, x \in Nat : a = rd.want[1] /\ x = At(q)
    <3>1. 1 \in 1 .. Len(rd.want) BY <1>2, <1>9, ReadTypes
    <3> QED BY <1>2, <2>2, <3>1, ReadTypes
  <2>4. x + (c + 2) = a + 1 /\ p + (c + 1) = a + 1
    BY <1>2, <1>4, <1>9, <2>1, <2>2, <2>3 DEF WantOK
  <2>5. x < p BY ONLY <2>4, x \in Nat, c \in Nat, a \in Nat, p \in Nat
  <2>6. PICK b \in Nat, e \in Nat : b = s.base /\ e = Bound(s) /\ p < e
    BY <1>2, <1>8, <1>10, SegmentFacts, HeldFacts
  <2>7. x \in b .. e - 1
    <3>1. x >= b /\ p < e BY <1>24, <2>3, <2>6
    <3> QED BY ONLY <2>5, <3>1, x \in Nat, p \in Nat, b \in Nat, e \in Nat
  <2> QED BY <2>3, <2>6, <2>7 DEF Holds, Positions
<1>25. BackOK(q, segs, log, all)
  <2>1. ExtentOK(q, segs, log) BY <1>6, <1>20 DEF ExtentOK
  <2>2. WindowOK(q, segs[q.seg], log)
    <3>1. \A k \in Len(q.out) + 1 .. Len(rd.want) : k \in Len(rd.out) + 1 .. Len(rd.want)
      <4>1. Len(rd.out) \in Nat /\ Len(rd.want) \in Nat BY <1>2, ReadTypes
      <4> QED BY <1>21, <4>1
    <3> QED BY <1>6, <1>20, <3>1 DEF WindowOK
  <2>3. q.view <= Len(segs) /\ q.seg \in 0 .. q.view
    <3>1. rd.seg \in 0 .. rd.view BY <1>2, <1>4, ReadTypes DEF InSegment
    <3> QED BY <1>4, <1>20, <3>1 DEF InSegment
  <2> QED BY <1>4, <1>6, <1>8, <1>20, <1>24, <2>1, <2>2, <2>3 DEF BackOK
<1> QED BY <1>2, <1>19, <1>20, <1>23, <1>25, BackGoesOn DEF ReadInv

LEMMA PointStartOK ==
    ASSUME NEW all, ReadInv(all), PointStart
    PROVE  ReadOK(rd', segs, log, all)
<1>1. rd.pc = "start" /\ rd.kind = "indexed" /\ rd.pc \in Running
  BY DEF PointStart, Running
<1>2. rd \in ReadType /\ OutOK(rd, log) /\ BufOK(rd, segs, log) /\ rd.seg <= Len(segs)
      /\ all \in BOOLEAN /\ log \in Seq(Frame)
  BY ReadFacts
<1>3. rd.view <= Len(segs) BY <1>1 DEF ReadInv, ReadOK, PointOK
<1>4. CASE Spent BY <1>4, SpentEnds DEF PointStart
<1>5. CASE ~ Spent /\ (Owners(Cursor) = {} \/ ~ HasOffset(Locate(Cursor), Cursor))
  <2>1. ~ all BY <1>1, <1>3, <1>5, LocatedFacts, ReadFacts
  <2>2. rd' = Ended("error") BY <1>5 DEF PointStart
  <2> QED BY <2>1, <2>2, UncoveredEnds
<1>6. CASE ~ Spent /\ Owners(Cursor) # {} /\ HasOffset(Locate(Cursor), Cursor)
  <2>1. More(rd) /\ rd.seg \in Nat /\ rd.view \in Nat BY <1>2, <1>6, ReadFacts, ReadTypes
  <2>2. PICK seg \in 1 .. rd.view :
          /\ seg = Locate(Cursor) /\ seg \in 1 .. Len(segs) /\ SegmentOK(segs[seg], log)
          /\ Holds(segs[seg], At(rd)) /\ DataOffset(seg, Cursor) = Off(segs[seg], At(rd))
    BY <1>1, <1>3, <1>6, <2>1, LocatedFacts
  <2>3. PICK off \in Nat : off = Off(segs[seg], At(rd))
    <3>1. Off(segs[seg], At(rd)) \in Nat BY <1>2, <2>2, HeldFacts
    <3> QED BY <3>1
  <2>4. PICK q : q = IF seg = rd.seg THEN rd ELSE Opened(seg) OBVIOUS
  <2>5. PICK r : r = [q EXCEPT !.pc = "point", !.off = off] OBVIOUS
  <2>6. rd' = r BY <1>6, <2>2, <2>3, <2>4, <2>5 DEF PointStart
  <2>7. /\ q \in ReadType /\ q.seg = seg /\ (q.buf = NoBuf \/ (q.buf = rd.buf /\ seg = rd.seg))
        /\ q.want = rd.want /\ q.kind = rd.kind /\ q.view = rd.view
        /\ q.end = rd.end /\ q.out = rd.out
    <3>1. CASE seg = rd.seg BY <1>2, <2>4, <3>1
    <3>2. CASE seg # rd.seg BY <1>2, <2>1, <2>2, <2>4, <3>2, OpenedFacts
    <3> QED BY <3>1, <3>2
  <2>8. /\ r \in ReadType /\ r.pc = "point" /\ r.off = off /\ r.seg = seg /\ r.buf = q.buf
        /\ r.want = rd.want /\ r.kind = rd.kind /\ r.view = rd.view
        /\ r.end = rd.end /\ r.out = rd.out
    BY <2>5, <2>7 DEF ReadType
  <2>9. BufOK(r, segs, log)
    <3>1. CASE q.buf = NoBuf BY <2>8, <3>1, EmptyBufOK
    <3>2. CASE q.buf = rd.buf /\ seg = rd.seg BY <1>2, <2>8, <3>2 DEF BufOK, Sound
    <3> QED BY <2>7, <3>1, <3>2
  <2>10. GoesOn(rd, r, segs, log)
    <3>1. seg <= Len(segs) /\ r.pc \in Running BY <2>2, <2>8, ReadFacts DEF Running
    <3> QED BY <1>1, <1>2, <2>8, <2>9, <3>1, SameRead DEF GoesOn
  <2>11. More(r) /\ At(r) = At(rd) BY <2>1, <2>8, SameRead
  <2>12. PointOK(r, segs, log)
    BY <1>1, <1>3, <2>2, <2>3, <2>8, <2>11 DEF PointOK, InSegment, AtRecord
  <2> QED BY <1>2, <2>6, <2>8, <2>10, <2>12, PointGoesOn DEF ReadInv
<1> QED BY <1>4, <1>5, <1>6

\* A read at its record.
LEMMA PointFacts ==
    ASSUME NEW all, ReadInv(all), rd.pc \in {"point", "payload", "check"}
    PROVE  \E m \in 1 .. Len(rd.want), p \in Nat, off \in Nat, l \in Nat \ {0}, f \in Nat, z \in Nat :
             /\ rd.pc \in Running /\ rd.kind = "indexed" /\ InSegment(rd, segs) /\ More(rd)
             /\ rd.seg # 0 /\ SegmentOK(segs[rd.seg], log) /\ rd.buf \in BufType
             /\ p = At(rd) /\ p = rd.want[m] /\ Holds(segs[rd.seg], p)
             /\ off = rd.off /\ off = Off(segs[rd.seg], p) /\ l = log[p].len
             /\ log[p].kind = "data" /\ p \in 1 .. Len(log) /\ log[p] \in Frame
             /\ f = segs[rd.seg].flushed /\ z = SegmentSize
             /\ off + l <= f /\ f <= z
             /\ segs[rd.seg].cells[off] = [frame |-> log[p], nth |-> 1]
<1>1. rd.pc \in Running BY DEF Running
<1>2. rd \in ReadType /\ log \in Seq(Frame) BY ReadFacts
<1>3. rd.kind = "indexed" /\ InSegment(rd, segs) /\ More(rd) /\ AtRecord(rd, segs[rd.seg])
  BY DEF ReadInv, ReadOK, PointOK
<1>4. rd.seg # 0 /\ SegmentOK(segs[rd.seg], log) /\ rd.buf \in BufType
  BY <1>2, <1>3, ReadFacts, ReadTypes DEF InSegment, BufType
<1>5. PICK p \in Nat : p = At(rd) BY <1>3, ReadFacts
<1>6. PICK m \in 1 .. Len(rd.want) : p = rd.want[m] BY <1>3, <1>5, ReadFacts DEF At
<1>7. Holds(segs[rd.seg], p) /\ rd.off = Off(segs[rd.seg], p) BY <1>3, <1>5 DEF AtRecord
<1>8. PICK off \in Nat, l \in Nat \ {0}, f \in Nat, z \in Nat :
        /\ off = rd.off /\ off = Off(segs[rd.seg], p) /\ l = log[p].len
        /\ log[p].kind = "data" /\ f = segs[rd.seg].flushed /\ z = SegmentSize
        /\ off + l <= f /\ f <= z
  <2>1. /\ Off(segs[rd.seg], p) \in Nat /\ log[p].len \in Nat \ {0} /\ log[p].kind = "data"
        /\ Behind(segs[rd.seg], log, p) = Off(segs[rd.seg], p) + log[p].len
        /\ Behind(segs[rd.seg], log, p) <= segs[rd.seg].flushed
    BY <1>2, <1>4, <1>7, HeldFacts
  <2> QED BY <1>2, <1>4, <1>7, <2>1, SegmentFacts
<1>9. p \in 1 .. Len(log) /\ log[p] \in Frame BY <1>2, <1>4, <1>7, PositionFacts DEF Holds
<1>10. segs[rd.seg].cells[off] = [frame |-> log[p], nth |-> 1]
  <2>1. Stored(segs[rd.seg], log, p) BY <1>4, <1>7 DEF SegmentOK, Holds
  <2>2. 1 \in 1 .. log[p].len /\ off + 1 - 1 = off BY <1>8
  <2> QED BY <1>8, <2>1, <2>2 DEF Stored, RecordAt
<1> QED BY <1>1, <1>3, <1>4, <1>5, <1>6, <1>7, <1>8, <1>9, <1>10

LEMMA PointReadOK ==
    ASSUME NEW all, ReadInv(all), PointRead
    PROVE  ReadOK(rd', segs, log, all)
<1>1. rd.pc = "point" BY DEF PointRead
<1>2. rd \in ReadType /\ OutOK(rd, log) /\ rd.seg <= Len(segs)
      /\ all \in BOOLEAN /\ log \in Seq(Frame)
  BY ReadFacts
<1>3. PICK m \in 1 .. Len(rd.want), p \in Nat, off \in Nat, l \in Nat \ {0}, f \in Nat, z \in Nat :
        /\ rd.pc \in Running /\ rd.kind = "indexed" /\ InSegment(rd, segs) /\ More(rd)
        /\ rd.seg # 0 /\ SegmentOK(segs[rd.seg], log) /\ rd.buf \in BufType
        /\ p = At(rd) /\ p = rd.want[m] /\ Holds(segs[rd.seg], p)
        /\ off = rd.off /\ off = Off(segs[rd.seg], p) /\ l = log[p].len
        /\ log[p].kind = "data" /\ p \in 1 .. Len(log) /\ log[p] \in Frame
        /\ f = segs[rd.seg].flushed /\ z = SegmentSize
        /\ off + l <= f /\ f <= z
        /\ segs[rd.seg].cells[off] = [frame |-> log[p], nth |-> 1]
  BY <1>1, PointFacts
<1>4. PICK s : s = segs[rd.seg] /\ s.cells \in [0 .. SegmentSize - 1 -> CellType]
  BY <1>2, <1>3, SegmentFacts
<1>5. PICK most \in Nat : most = off + 1 + Optimistic /\ off + 1 <= most
  <2>1. PICK o \in Nat : o = Optimistic BY ReadsAssumption
  <2> QED BY <2>1
<1>6. PICK to \in Nat : to = Min({most, f}) /\ to <= f /\ (to = most \/ to = f)
  BY MinOfTwo
<1>7. off + 1 <= f /\ ~ (off + 1 > f) /\ ~ (off + l > f) /\ off + 1 <= to /\ off <= to /\ to <= z
      /\ to <= SegmentSize
  <2>1. off + l <= f /\ f <= z /\ z = SegmentSize BY <1>3
  <2> QED BY ONLY <1>5, <1>6, <2>1, off \in Nat, l \in Nat \ {0}, f \in Nat, z \in Nat, to \in Nat,
                  most \in Nat
<1>8. PICK cells \in Seq(CellType), n \in Nat :
        /\ cells = Slice(s.cells, off, to) /\ Len(cells) = n /\ n = to - off
        /\ \A i \in 1 .. n : cells[i] = s.cells[off + i - 1]
  <2>1. Sliced(Slice(s.cells, off, to), s.cells, off, to)
    BY ONLY <1>4, <1>7, SliceFacts, off \in Nat, to \in Nat
  <2> QED BY <2>1 DEF Sliced
<1>9. PICK buf \in BufType : buf = [at |-> off, cells |-> cells] BY DEF BufType
<1>10. InBuf(buf, off, 1) /\ n >= 1
  <2>1. off >= off /\ off + 1 <= off + n /\ n >= 1
    BY ONLY <1>7, <1>8, off \in Nat, to \in Nat, n \in Nat
  <2> QED BY <1>8, <1>9, <2>1 DEF InBuf
<1>11. CellIn(buf, off) = [frame |-> log[p], nth |-> 1]
  <2>1. 1 \in 1 .. n /\ off - off + 1 = 1 /\ off + 1 - 1 = off BY <1>10
  <2>2. CellIn(buf, off) = cells[1] BY <1>9, <1>10, <2>1 DEF CellIn
  <2>3. cells[1] = s.cells[off] BY <1>8, <2>1
  <2> QED BY <1>3, <1>4, <2>2, <2>3
<1>12. PICK pc : pc = IF InBuf(buf, off, l) THEN "check" ELSE "payload" OBVIOUS
<1>13. PICK q : q = [Go(pc) EXCEPT !.buf = buf] OBVIOUS
<1>14. rd' = q
  <2>1. PICK cell : cell = CellIn(buf, off) /\ cell.nth = 1 /\ cell.frame = log[p]
    BY <1>11
  <2>2. buf = [at |-> rd.off, cells |-> Slice(segs[rd.seg].cells, rd.off,
                    Min({rd.off + 1 + Optimistic, segs[rd.seg].flushed}))]
    BY <1>3, <1>4, <1>5, <1>6, <1>8, <1>9
  <2>3. ~ (rd.off + 1 > segs[rd.seg].flushed \/ cell.nth # 1 \/ cell.frame.kind # "data"
            \/ rd.off + cell.frame.len > segs[rd.seg].flushed)
    BY <1>3, <1>7, <2>1
  <2>4. rd' = [Go(IF InBuf(buf, rd.off, cell.frame.len) THEN "check" ELSE "payload")
                EXCEPT !.buf = buf]
    <3>1. cell = CellIn(buf, rd.off) BY <1>3, <2>1
    <3>2. PICK t : t = Min({rd.off + 1 + Optimistic, segs[rd.seg].flushed}) OBVIOUS
    <3>3. PICK b : b = [at |-> rd.off, cells |-> Slice(segs[rd.seg].cells, rd.off, t)]
      OBVIOUS
    <3>4. b = buf BY <2>2, <3>2, <3>3
    <3>5. rd' = IF rd.off + 1 > segs[rd.seg].flushed \/ CellIn(b, rd.off).nth # 1
                    \/ CellIn(b, rd.off).frame.kind # "data"
                    \/ rd.off + CellIn(b, rd.off).frame.len > segs[rd.seg].flushed
                THEN Ended("error")
                ELSE [Go(IF InBuf(b, rd.off, CellIn(b, rd.off).frame.len) THEN "check" ELSE "payload")
                        EXCEPT !.buf = b]
      BY <3>2, <3>3 DEF PointRead
    <3> QED BY <2>3, <3>1, <3>4, <3>5
  <2>5. InBuf(buf, rd.off, cell.frame.len) <=> InBuf(buf, off, l) BY <1>3, <2>1
  <2> QED BY <1>12, <1>13, <2>4, <2>5
<1>15. /\ q \in ReadType /\ q.pc = pc /\ pc \in {"check", "payload"} /\ q.seg = rd.seg /\ q.buf = buf
       /\ q.want = rd.want /\ q.kind = rd.kind /\ q.view = rd.view /\ q.off = off
       /\ q.end = rd.end /\ q.out = rd.out
  BY <1>2, <1>3, <1>12, <1>13 DEF ReadType, BufType, Go
<1>16. BufOK(q, segs, log)
  <2>1. Fresh(q.buf, segs[q.seg]) BY <1>4, <1>8, <1>9, <1>15 DEF Fresh
  <2> QED BY ONLY <2>1, FreshOKBuf
<1>17. GoesOn(rd, q, segs, log)
  <2>1. q.pc \in Running BY <1>15 DEF Running
  <2> QED BY <1>2, <1>3, <1>15, <1>16, <2>1, SameRead DEF GoesOn
<1>18. More(q) /\ At(q) = At(rd) BY <1>3, <1>15, SameRead
<1>19. q.pc = "check" => Len(q.buf.cells) >= log[At(q)].len
  <2>1. log[At(q)].len = l BY <1>3, <1>18
  <2>2. Len(q.buf.cells) = n BY <1>8, <1>9, <1>15
  <2>3. q.pc = "check" => InBuf(buf, off, l) BY <1>12, <1>15
  <2>4. ASSUME InBuf(buf, off, l) PROVE n >= l
    <3>1. off + l <= off + n BY <1>8, <1>9, <2>4 DEF InBuf
    <3> QED BY ONLY <3>1, off \in Nat, l \in Nat \ {0}, n \in Nat
  <2> QED BY <2>1, <2>2, <2>3, <2>4
<1>20. PointOK(q, segs, log)
  <2>1. InSegment(q, segs) /\ AtRecord(q, segs[q.seg])
    BY <1>3, <1>15, <1>18 DEF InSegment, AtRecord
  <2> QED BY <1>3, <1>8, <1>9, <1>10, <1>15, <1>18, <1>19, <2>1 DEF PointOK
<1>21. q.pc \in {"start", "point", "payload", "check"} BY <1>15
<1> QED BY <1>2, <1>14, <1>17, <1>20, <1>21, PointGoesOn DEF ReadInv

LEMMA PointPayloadOK ==
    ASSUME NEW all, ReadInv(all), PointPayload
    PROVE  ReadOK(rd', segs, log, all)
<1>1. rd.pc = "payload" BY DEF PointPayload
<1>2. rd \in ReadType /\ OutOK(rd, log) /\ rd.seg <= Len(segs) /\ BufOK(rd, segs, log)
      /\ all \in BOOLEAN /\ log \in Seq(Frame)
  BY ReadFacts
<1>3. PICK m \in 1 .. Len(rd.want), p \in Nat, off \in Nat, l \in Nat \ {0}, f \in Nat, z \in Nat :
        /\ rd.pc \in Running /\ rd.kind = "indexed" /\ InSegment(rd, segs) /\ More(rd)
        /\ rd.seg # 0 /\ SegmentOK(segs[rd.seg], log) /\ rd.buf \in BufType
        /\ p = At(rd) /\ p = rd.want[m] /\ Holds(segs[rd.seg], p)
        /\ off = rd.off /\ off = Off(segs[rd.seg], p) /\ l = log[p].len
        /\ log[p].kind = "data" /\ p \in 1 .. Len(log) /\ log[p] \in Frame
        /\ f = segs[rd.seg].flushed /\ z = SegmentSize
        /\ off + l <= f /\ f <= z
        /\ segs[rd.seg].cells[off] = [frame |-> log[p], nth |-> 1]
  BY <1>1, PointFacts
<1>4. PICK s : s = segs[rd.seg] /\ s.cells \in [0 .. SegmentSize - 1 -> CellType]
  BY <1>2, <1>3, SegmentFacts
<1>5. rd.buf.at = off /\ Len(rd.buf.cells) >= 1 BY <1>1, <1>3 DEF ReadInv, ReadOK, PointOK
<1>6. PICK old \in Seq(CellType), n \in Nat \ {0} : old = rd.buf.cells /\ n = Len(old)
  <2>1. rd.buf.cells \in Seq(CellType) /\ Len(rd.buf.cells) \in Nat BY <1>2, ReadTypes
  <2>2. Len(rd.buf.cells) \in Nat \ {0} BY <1>5, <2>1
  <2> QED BY <2>1, <2>2
<1>7. InBuf(rd.buf, off, 1)
  <2>1. off >= off /\ off + 1 <= off + n BY ONLY off \in Nat, n \in Nat \ {0}
  <2> QED BY <1>5, <1>6, <2>1 DEF InBuf
<1>8. CellIn(rd.buf, off) = [frame |-> log[p], nth |-> 1]
  <2>1. InBuf(rd.buf, Off(segs[rd.seg], p), 1) /\ Holds(segs[rd.seg], p) /\ p = rd.want[m]
    BY <1>3, <1>7
  <2>2. CellIn(rd.buf, Off(segs[rd.seg], p)) = [frame |-> log[p], nth |-> 1]
    <3>1. rd.seg # 0 /\ SegmentOK(segs[rd.seg], log) /\ rd.buf \in BufType BY <1>3
    <3>2. rd.want \in Seq(Nat) /\ p \in Nat BY <1>2, ReadTypes
    <3> QED BY <1>2, <2>1, <3>1, <3>2, HeadOfRecord
  <2> QED BY <1>3, <2>2
<1>9. old[1] = [frame |-> log[p], nth |-> 1] /\ old[1] \in CellType
  <2>1. off - off + 1 = 1 /\ 1 \in 1 .. n BY <1>6
  <2>2. CellIn(rd.buf, off) = old[1] BY <1>5, <1>6, <1>7, <2>1 DEF CellIn
  <2> QED BY <1>6, <1>8, <2>1, <2>2, ElementOfSeq
<1>10. PICK from \in Nat, to \in Nat, k \in Nat :
        /\ from = off + 1 /\ to = off + l /\ k = l - 1 /\ k = to - from /\ from <= to
        /\ to <= z
  <2>1. off + l <= f /\ f <= z BY <1>3
  <2> QED BY ONLY <2>1, off \in Nat, l \in Nat \ {0}, f \in Nat, z \in Nat
<1>11. PICK rest \in Seq(CellType) :
        /\ rest = Slice(s.cells, from, to) /\ Len(rest) = k
        /\ \A i \in 1 .. k : rest[i] = s.cells[from + i - 1]
  <2>1. from <= to /\ to <= SegmentSize BY <1>3, <1>10
  <2>2. Sliced(Slice(s.cells, from, to), s.cells, from, to)
    BY ONLY <1>4, <2>1, SliceFacts, from \in Nat, to \in Nat
  <2> QED BY <1>10, <2>2 DEF Sliced
<1>12. PICK cells \in Seq(CellType) :
        /\ cells = <<old[1]>> \o rest /\ Len(cells) = l
        /\ cells[1] = old[1] /\ \A i \in 2 .. l : cells[i] = rest[i - 1]
  <2>1. <<old[1]>> \in Seq(CellType) /\ Len(<<old[1]>>) = 1 BY <1>9
  <2>2. /\ <<old[1]>> \o rest \in Seq(CellType)
        /\ Len(<<old[1]>> \o rest) = 1 + k
        /\ \A i \in 1 .. 1 + k : (<<old[1]>> \o rest)[i] = IF i <= 1 THEN <<old[1]>>[i] ELSE rest[i - 1]
    BY <1>11, <2>1, ConcatProperties
  <2>3. 1 + k = l /\ 1 \in 1 .. l /\ \A i \in 2 .. l : i \in 1 .. l /\ ~ (i <= 1)
    BY ONLY <1>10, l \in Nat \ {0}
  <2>4. PICK c : c = <<old[1]>> \o rest OBVIOUS
  <2>5. c \in Seq(CellType) /\ Len(c) = l BY <2>2, <2>3, <2>4
  <2>6. \A i \in 1 .. l : c[i] = IF i <= 1 THEN <<old[1]>>[i] ELSE rest[i - 1]
    BY <2>2, <2>3, <2>4
  <2>7. c[1] = old[1] BY <2>3, <2>6
  <2>8. \A i \in 2 .. l : c[i] = rest[i - 1] BY <2>3, <2>6
  <2> QED BY <2>4, <2>5, <2>7, <2>8
<1>13. PICK buf \in BufType : buf = [at |-> off, cells |-> cells] BY DEF BufType
<1>14. PICK q : q = [Go("check") EXCEPT !.buf = buf] OBVIOUS
<1>15. rd' = q
  <2>1. CellIn(rd.buf, rd.off).frame.len = l BY <1>3, <1>8
  <2>2. rd' = [Go("check") EXCEPT !.buf.cells =
                <<@[1]>> \o Slice(segs[rd.seg].cells, rd.off + 1, rd.off + l)]
    BY <2>1 DEF PointPayload
  <2>3. Go("check").buf = rd.buf BY <1>2 DEF Go, ReadType
  <2>4. <<rd.buf.cells[1]>> \o Slice(segs[rd.seg].cells, rd.off + 1, rd.off + l) = cells
    <3>1. rd.off = off /\ rd.buf.cells = old /\ segs[rd.seg].cells = s.cells
      BY <1>3, <1>4, <1>6
    <3>2. rd.off + 1 = from /\ rd.off + l = to BY <1>10, <3>1
    <3> QED BY ONLY <3>1, <3>2, <1>11, <1>12
  <2>5. [rd.buf EXCEPT !.cells = cells] = buf
    <3>1. rd.buf = [at |-> off, cells |-> old]
      <4>1. rd.buf \in BufType /\ rd.buf.at = off /\ rd.buf.cells = old
        BY <1>3, <1>5, <1>6
      <4> QED BY ONLY <4>1 DEF BufType
    <3> QED BY ONLY <3>1, <1>13
  <2>6. rd' = [Go("check") EXCEPT !.buf = [rd.buf EXCEPT !.cells = cells]]
    BY <2>2, <2>3, <2>4
  <2> QED BY <1>14, <2>5, <2>6
<1>16. /\ q \in ReadType /\ q.pc = "check" /\ q.seg = rd.seg /\ q.buf = buf
       /\ q.want = rd.want /\ q.kind = rd.kind /\ q.view = rd.view /\ q.off = off
       /\ q.end = rd.end /\ q.out = rd.out
  BY <1>2, <1>3, <1>14 DEF ReadType, BufType, Go
<1>17. BufOK(q, segs, log)
  <2>1. ASSUME NEW i \in 1 .. l PROVE cells[i] = s.cells[off + i - 1]
    <3>1. CASE i = 1
      <4>1. off + 1 - 1 = off OBVIOUS
      <4> QED BY <1>3, <1>4, <1>9, <1>12, <3>1, <4>1
    <3>2. CASE i # 1
      <4>1. i \in 2 .. l /\ i - 1 \in 1 .. k /\ from + (i - 1) - 1 = off + i - 1
        BY ONLY <1>10, <2>1, <3>2, off \in Nat, l \in Nat \ {0}, i \in 1 .. l
      <4> QED BY <1>11, <1>12, <4>1
    <3> QED BY <3>1, <3>2
  <2>2. Fresh(q.buf, segs[q.seg]) BY <1>4, <1>12, <1>13, <1>16, <2>1 DEF Fresh
  <2> QED BY ONLY <2>2, FreshOKBuf
<1>18. GoesOn(rd, q, segs, log)
  <2>1. q.pc \in Running BY <1>16 DEF Running
  <2> QED BY <1>2, <1>3, <1>16, <1>17, <2>1, SameRead DEF GoesOn
<1>19. More(q) /\ At(q) = At(rd) BY <1>3, <1>16, SameRead
<1>20. PointOK(q, segs, log)
  <2>1. InSegment(q, segs) /\ AtRecord(q, segs[q.seg])
    BY <1>3, <1>16, <1>19 DEF InSegment, AtRecord
  <2>2. Len(q.buf.cells) >= 1 /\ Len(q.buf.cells) >= log[At(q)].len
    <3>1. Len(q.buf.cells) = l /\ log[At(q)].len = l
      <4>1. q.buf.cells = cells BY <1>13, <1>16
      <4>2. At(q) = p BY <1>3, <1>19
      <4> QED BY <1>3, <1>12, <4>1, <4>2
    <3>2. l >= 1 /\ l >= l BY ONLY l \in Nat \ {0}
    <3> QED BY <3>1, <3>2
  <2> QED BY <1>3, <1>13, <1>16, <1>19, <2>1, <2>2 DEF PointOK
<1> QED BY <1>2, <1>15, <1>16, <1>18, <1>20, PointGoesOn DEF ReadInv

LEMMA PointCheckOK ==
    ASSUME NEW all, ReadInv(all), PointCheck
    PROVE  ReadOK(rd', segs, log, all)
<1>1. rd.pc = "check" BY DEF PointCheck
<1>2. rd \in ReadType /\ OutOK(rd, log) /\ rd.seg <= Len(segs) /\ BufOK(rd, segs, log)
      /\ all \in BOOLEAN /\ log \in Seq(Frame)
  BY ReadFacts
<1>3. PICK m \in 1 .. Len(rd.want), p \in Nat, off \in Nat, l \in Nat \ {0}, f \in Nat, z \in Nat :
        /\ rd.pc \in Running /\ rd.kind = "indexed" /\ InSegment(rd, segs) /\ More(rd)
        /\ rd.seg # 0 /\ SegmentOK(segs[rd.seg], log) /\ rd.buf \in BufType
        /\ p = At(rd) /\ p = rd.want[m] /\ Holds(segs[rd.seg], p)
        /\ off = rd.off /\ off = Off(segs[rd.seg], p) /\ l = log[p].len
        /\ log[p].kind = "data" /\ p \in 1 .. Len(log) /\ log[p] \in Frame
        /\ f = segs[rd.seg].flushed /\ z = SegmentSize
        /\ off + l <= f /\ f <= z
        /\ segs[rd.seg].cells[off] = [frame |-> log[p], nth |-> 1]
  BY <1>1, PointFacts
<1>4. PICK n \in Nat : n = Len(rd.buf.cells) /\ n >= l
  <2>1. rd.buf.cells \in Seq(CellType) BY <1>3 DEF BufType
  <2>2. Len(rd.buf.cells) >= l BY <1>1, <1>3 DEF ReadInv, ReadOK, PointOK
  <2> QED BY <2>1, <2>2, LenProperties
<1>5. rd.buf.at = off BY <1>1, <1>3 DEF ReadInv, ReadOK, PointOK
<1>6. InBuf(rd.buf, off, 1) /\ InBuf(rd.buf, off + 1, l - 1)
  <2>1. /\ off >= off /\ off + 1 <= off + n
        /\ off + 1 >= off /\ (off + 1) + (l - 1) <= off + n
    BY ONLY <1>4, off \in Nat, l \in Nat \ {0}, n \in Nat
  <2> QED BY <1>4, <1>5, <2>1 DEF InBuf
<1>7. rd.seg # 0 /\ SegmentOK(segs[rd.seg], log) /\ rd.buf \in BufType /\ p = rd.want[m]
      /\ Holds(segs[rd.seg], p)
  BY <1>3
<1>8. CellIn(rd.buf, off) = [frame |-> log[p], nth |-> 1]
  <2>1. InBuf(rd.buf, Off(segs[rd.seg], p), 1) BY <1>3, <1>6
  <2>2. CellIn(rd.buf, Off(segs[rd.seg], p)) = [frame |-> log[p], nth |-> 1]
    BY <1>2, <1>7, <2>1, HeadOfRecord
  <2> QED BY <1>3, <2>2
<1>9. HasPayload(rd.buf, off, log[p])
  <2>1. InBuf(rd.buf, Off(segs[rd.seg], p) + 1, log[p].len - 1) BY <1>3, <1>6
  <2>2. HasPayload(rd.buf, Off(segs[rd.seg], p), log[p]) BY <1>2, <1>7, <2>1, PayloadSeen
  <2> QED BY <1>3, <2>2
<1>10. Whole(rd.buf, rd.off)
  <2>1. rd.off = off BY <1>3
  <2>2. CellIn(rd.buf, off).nth = 1 /\ CellIn(rd.buf, off).frame = log[p] BY <1>8
  <2> QED BY <1>9, <2>1, <2>2 DEF Whole
<1>11. PICK q : q = [Go("start") EXCEPT !.out = Append(rd.out, log[p]), !.buf = NoBuf]
  OBVIOUS
<1>12. rd' = q
  <2>1. CellIn(rd.buf, rd.off).frame = log[p] BY <1>3, <1>8
  <2>2. Go("start").out = rd.out BY <1>2 DEF Go, ReadType
  <2> QED BY <1>10, <1>11, <2>1, <2>2 DEF PointCheck
<1>13. Append(rd.out, log[p]) \in Seq(Frame) BY <1>2, <1>3, ReadTypes, AppendProperties
<1>14. /\ q \in ReadType /\ q.pc = "start" /\ q.seg = rd.seg /\ q.buf = NoBuf
       /\ q.want = rd.want /\ q.kind = rd.kind /\ q.view = rd.view
       /\ q.end = rd.end /\ q.out = Append(rd.out, log[p])
  BY <1>2, <1>11, <1>13, NoReadType DEF ReadType, BufType, Go
<1>15. OutOK(q, log)
  <2>1. At(rd) \in 1 .. Len(log) /\ q.out = Append(rd.out, log[At(rd)]) /\ More(rd)
    BY <1>3, <1>14
  <2> QED BY <1>2, <1>14, <2>1, YieldFacts
<1>16. GoesOn(rd, q, segs, log)
  <2>1. q.pc \in Running BY <1>14 DEF Running
  <2> QED BY <1>2, <1>3, <1>14, <1>15, <2>1, EmptyBufOK DEF GoesOn
<1>17. PointOK(q, segs, log)
  <2>1. q.view <= Len(segs) /\ q.seg \in 0 .. q.view
    <3>1. rd.seg \in 0 .. rd.view BY <1>2, <1>3, ReadTypes DEF InSegment
    <3> QED BY <1>3, <1>14, <3>1 DEF InSegment
  <2> QED BY <1>3, <1>14, <2>1 DEF PointOK
<1>18. q.pc \in {"start", "point", "payload", "check"} BY <1>14
<1> QED BY <1>2, <1>12, <1>16, <1>17, <1>18, PointGoesOn DEF ReadInv

--------------------
\* What a read may want of the positions up to n.
WantUpTo(kind, want, n) ==
    /\ want \in Seq(Nat)
    /\ \A m \in 1 .. Len(want) : want[m] \in 1 .. n
    /\ kind = "forward" => \A m \in 1 .. Len(want) : want[m] = want[1] + m - 1
    /\ kind = "back" => \A m \in 1 .. Len(want) : want[m] + m = want[1] + 1

LEMMA UpwardsFacts ==
    ASSUME NEW n \in Nat, NEW a \in 1 .. n + 1
    PROVE  WantUpTo("forward", Upwards(a, n), n)
<1>1. PICK k \in Nat : k = n + 1 - a OBVIOUS
<1>2. PICK w : w = Upwards(a, n) OBVIOUS
<1>3. w = [i \in 1 .. k |-> a + i - 1] BY <1>1, <1>2 DEF Upwards
<1>4. \A i \in 1 .. k : a + i - 1 \in Nat OBVIOUS
<1>5. w \in Seq(Nat) /\ Len(w) = k BY <1>3, <1>4
<1>6. ASSUME NEW m \in 1 .. k PROVE w[m] \in 1 .. n /\ w[m] = w[1] + m - 1
  <2>1. 1 \in 1 .. k /\ a + m - 1 \in 1 .. n /\ a + m - 1 = (a + 1 - 1) + m - 1
    BY ONLY <1>1, n \in Nat, a \in 1 .. n + 1, k \in Nat, m \in 1 .. k
  <2> QED BY <1>3, <2>1
<1>7. WantUpTo("forward", w, n) BY <1>5, <1>6 DEF WantUpTo
<1> QED BY <1>2, <1>7

LEMMA DownwardsFacts ==
    ASSUME NEW n \in Nat, NEW a \in 1 .. n + 1
    PROVE  WantUpTo("back", Downwards(a, n), n)
<1>1. PICK k \in Nat : k = n + 1 - a OBVIOUS
<1>2. PICK w : w = Downwards(a, n) OBVIOUS
<1>3. w = [i \in 1 .. k |-> n + 1 - i] BY <1>1, <1>2 DEF Downwards
<1>4. \A i \in 1 .. k : n + 1 - i \in Nat BY <1>1
<1>5. w \in Seq(Nat) /\ Len(w) = k BY <1>3, <1>4
<1>6. ASSUME NEW m \in 1 .. k PROVE w[m] \in 1 .. n /\ w[m] + m = w[1] + 1
  <2>1. 1 \in 1 .. k /\ n + 1 - m \in 1 .. n /\ (n + 1 - m) + m = (n + 1 - 1) + 1
    BY ONLY <1>1, n \in Nat, a \in 1 .. n + 1, k \in Nat, m \in 1 .. k
  <2> QED BY <1>3, <2>1
<1>7. WantUpTo("back", w, n) BY <1>5, <1>6 DEF WantUpTo
<1> QED BY <1>2, <1>7

LEMMA WantedFacts ==
    ASSUME NEW kind \in Kinds, NEW n \in Nat, NEW want \in Wanted(kind, n)
    PROVE  WantUpTo(kind, want, n)
<1>1. CASE kind = "forward"
  <2>1. PICK a \in 1 .. n + 1 : want = Upwards(a, n) BY <1>1 DEF Wanted
  <2> QED BY <1>1, <2>1, UpwardsFacts
<1>2. CASE kind = "back"
  <2>1. PICK a \in 1 .. n + 1 : want = Downwards(a, n) BY <1>2 DEF Wanted
  <2> QED BY <1>2, <2>1, DownwardsFacts
<1>3. CASE kind = "indexed"
  <2>1. PICK k \in 0 .. MaxPlanned : want \in [1 .. k -> 1 .. n]
    BY <1>3 DEF Wanted, Planned
  <2>2. k \in Nat BY <2>1, ReadsAssumption
  <2>3. want \in Seq(Nat) /\ Len(want) = k BY <2>1, <2>2
  <2>4. \A m \in 1 .. Len(want) : want[m] \in 1 .. n BY <2>1, <2>3
  <2> QED BY <1>3, <2>3, <2>4 DEF WantUpTo
<1> QED BY <1>1, <1>2, <1>3 DEF Kinds

\* A read that begins, pins its snapshot, or takes the writer's own view.
LEMMA BeginsOK ==
    ASSUME NEW S, NEW L, NEW all \in BOOLEAN, SegmentsOK(S, L), NEW r \in ReadType,
           r.pc \in {"pin", "start"}, r.seg = 0, r.buf = NoBuf, r.out = <<>>, r.end = "open",
           WantOK(r, S),
           r.pc = "start" => r.view <= Len(S) /\ (all => Covers(r, S))
    PROVE  ReadOK(r, S, L, all)
<1>1. Len(S) \in Nat /\ Len(r.want) \in Nat /\ Len(r.out) = 0 /\ r.view \in Nat
  BY SegmentsFacts, ReadTypes
<1>2. OutOK(r, L)
  <2>1. 0 <= Len(r.want) /\ 1 .. 0 = {} BY <1>1
  <2> QED BY <1>1, <2>1 DEF OutOK
<1>3. BufOK(r, S, L) /\ r.seg <= Len(S) BY <1>1, EmptyBufOK
<1>4. ForwardOK(r, S, L) /\ BackOK(r, S, L, all) BY DEF ForwardOK, BackOK
<1>5. PointOK(r, S, L)
  <2>1. r.pc = "start" => r.seg \in 0 .. r.view BY <1>1
  <2> QED BY <2>1 DEF PointOK
<1>6. /\ (r.end = "open") <=> (r.pc # "done")
      /\ all => /\ r.pc \notin {"none", "pin", "done"} => Covers(r, S)
                /\ r.end # "error"
                /\ r.end = "clean" => ~ More(r)
  OBVIOUS
<1> QED BY <1>2, <1>3, <1>4, <1>5, <1>6 DEF ReadOK

LEMMA WantOKUpTo ==
    ASSUME NEW S, NEW r, NEW n \in Nat, NEW e \in Nat, e = LastBound(S), n <= e - 1,
           WantUpTo(r.kind, r.want, n)
    PROVE  WantOK(r, S)
<1>1. \A x \in 1 .. n : x \in 1 .. e - 1 OBVIOUS
<1>2. \A m \in 1 .. Len(r.want) : r.want[m] \in 1 .. e - 1 BY <1>1 DEF WantUpTo
<1> QED BY <1>2 DEF WantOK, WantUpTo

LEMMA NoReadOK ==
    ASSUME NEW S, NEW L, NEW all \in BOOLEAN, SegmentsOK(S, L)
    PROVE  ReadOK(NoRead, S, L, all)
<1>1. PICK r : r = NoRead OBVIOUS
<1>2. /\ r \in ReadType /\ r.pc = "none" /\ r.seg = 0 /\ r.buf = NoBuf /\ r.out = <<>>
      /\ r.want = <<>> /\ r.end = "open"
  BY <1>1, NoReadType DEF NoRead
<1>3. Len(S) \in Nat /\ Len(r.want) = 0 /\ Len(r.out) = 0 /\ 1 .. 0 = {} /\ 0 <= 0
  BY <1>2, SegmentsFacts
<1>4. OutOK(r, L) /\ WantOK(r, S) BY <1>3 DEF OutOK, WantOK
<1>5. BufOK(r, S, L) /\ r.seg <= Len(S) BY <1>2, <1>3, EmptyBufOK
<1>6. ForwardOK(r, S, L) /\ BackOK(r, S, L, all) /\ PointOK(r, S, L)
  BY <1>2 DEF ForwardOK, BackOK, PointOK
<1>7. ReadOK(r, S, L, all) BY <1>2, <1>4, <1>5, <1>6 DEF ReadOK
<1> QED BY <1>1, <1>7

LEMMA PinWatermarkOK ==
    ASSUME WriterInv, NEW all \in BOOLEAN, NEW kind \in Kinds, PinWatermark(kind)
    PROVE  /\ ReadOK(rd', segs, log, all)
           /\ \A m \in 1 .. Len(rd'.want) : rd'.want[m] <= watermark
<1>1. SegmentsOK(segs, log) /\ watermark \in 0 .. LastBound(segs) - 1
  BY DEF WriterInv, PublishedOK
<1>2. PICK e \in Nat \ {0}, n \in Nat : e = LastBound(segs) /\ n = watermark /\ n <= e - 1
  BY <1>1, StateFacts
<1>3. PICK want \in Wanted(kind, watermark) :
        rd' = [NoRead EXCEPT !.pc = "pin", !.kind = kind, !.want = want]
  BY Zenon DEF PinWatermark
<1>4. WantUpTo(kind, want, n) BY <1>2, WantedFacts
<1>5. PICK r : r = rd' OBVIOUS
<1>6. /\ r \in ReadType /\ r.pc = "pin" /\ r.kind = kind /\ r.want = want
      /\ r.seg = 0 /\ r.buf = NoBuf /\ r.out = <<>> /\ r.end = "open"
  <2>1. want \in Seq(Nat) BY <1>4 DEF WantUpTo
  <2> QED BY <1>3, <1>5, <2>1, NoReadType DEF NoRead, ReadType
<1>7. WantOK(r, segs) BY <1>2, <1>4, <1>6, WantOKUpTo
<1>8. ReadOK(r, segs, log, all) BY <1>1, <1>6, <1>7, BeginsOK
<1>9. \A m \in 1 .. Len(r.want) : r.want[m] <= watermark
  <2>1. \A x \in 1 .. n : x <= n OBVIOUS
  <2> QED BY <1>2, <1>4, <1>6, <2>1 DEF WantUpTo
<1> QED BY <1>5, <1>8, <1>9

LEMMA ReadLiveOK ==
    ASSUME WriterInv, NEW all \in BOOLEAN, NEW kind \in Kinds, ReadLive(kind)
    PROVE  ReadOK(rd', segs, log, all) /\ rd'.pc # "pin"
<1>1. SegmentsOK(segs, log) /\ NextPosition = LastBound(segs) /\ Len(segs) \in Nat
  BY StateFacts DEF WriterInv
<1>2. PICK e \in Nat \ {0}, n \in Nat : e = LastBound(segs) /\ n = e - 1 /\ n = NextPosition - 1
  BY <1>1, StateFacts
<1>3. PICK want \in Wanted(kind, NextPosition - 1) :
        rd' = [NoRead EXCEPT !.pc = "start", !.kind = kind, !.want = want,
                             !.view = Active, !.live = TRUE]
  BY Zenon DEF ReadLive
<1>4. WantUpTo(kind, want, n) BY <1>2, WantedFacts
<1>5. PICK r : r = rd' OBVIOUS
<1>6. /\ r \in ReadType /\ r.pc = "start" /\ r.kind = kind /\ r.want = want
      /\ r.seg = 0 /\ r.buf = NoBuf /\ r.out = <<>> /\ r.end = "open" /\ r.view = Len(segs)
  <2>1. want \in Seq(Nat) /\ Active \in Nat BY <1>1, <1>4 DEF WantUpTo, Active
  <2> QED BY <1>3, <1>5, <2>1, NoReadType DEF NoRead, ReadType, Active
<1>7. WantOK(r, segs)
  <2>1. n <= e - 1 BY <1>2
  <2> QED BY <1>2, <1>4, <1>6, <2>1, WantOKUpTo
<1>8. r.view <= Len(segs) /\ Covers(r, segs) BY <1>1, <1>6 DEF Covers
<1>9. ReadOK(r, segs, log, all) BY <1>1, <1>6, <1>7, <1>8, BeginsOK
<1> QED BY <1>5, <1>6, <1>9

LEMMA PinSnapshotOK ==
    ASSUME WriterInv, ReadOK(rd, segs, log, ~ lost), PinnedOK, PinSnapshot
    PROVE  ReadOK(rd', segs, log, ~ lost)
<1>1. SegmentsOK(segs, log) /\ PublishedOK BY DEF WriterInv
<1>2. rd \in ReadType /\ WantOK(rd, segs) /\ rd.pc = "pin" /\ rd.seg = 0 /\ rd.end = "open"
      /\ OutOK(rd, log) /\ \A m \in 1 .. Len(rd.want) : rd.want[m] <= watermark
  BY DEF ReadOK, PointOK, PinSnapshot, PinnedOK
<1>3. PICK r : r = rd' /\ r = [rd EXCEPT !.pc = "start", !.view = snap]
  BY DEF PinSnapshot, Go
<1>4. /\ r \in ReadType /\ r.pc = "start" /\ r.seg = 0 /\ r.view = snap
      /\ r.want = rd.want /\ r.kind = rd.kind /\ r.out = rd.out /\ r.end = "open"
      /\ r.buf = rd.buf
  BY <1>1, <1>2, <1>3, StateFacts DEF ReadType
<1>5. WantOK(r, segs) BY <1>2, <1>4 DEF WantOK
<1>6. Len(segs) \in Nat \ {0} /\ watermark \in Nat /\ snap \in 1 .. Len(segs)
  BY <1>1, StateFacts DEF PublishedOK
<1>7. snap <= Len(segs) BY <1>6
<1>8. ASSUME ~ lost PROVE Covers(r, segs)
  <2>1. CASE snap = Len(segs) BY <1>4, <2>1 DEF Covers
  <2>2. CASE snap = Len(segs) - 1 /\ watermark < segs[Len(segs)].base
    <3>1. snap < Len(segs) /\ snap + 1 = Len(segs) BY <1>6, <2>2
    <3>2. segs[Len(segs)].base \in Nat BY <1>1, SegmentsFacts, SegmentFacts
    <3>3. ASSUME NEW m \in 1 .. Len(r.want) PROVE r.want[m] < segs[snap + 1].base
      <4>1. PICK x \in Nat, b \in Nat, w \in Nat :
              x = r.want[m] /\ b = segs[Len(segs)].base /\ w = watermark
        BY <1>4, <1>6, <3>2, ReadTypes
      <4>2. x <= w /\ w < b BY <1>2, <1>4, <2>2, <4>1
      <4>3. x < b BY ONLY <4>2, x \in Nat, b \in Nat, w \in Nat
      <4> QED BY <3>1, <4>1, <4>3
    <3> QED BY <1>4, <3>1, <3>3 DEF Covers
  <2> QED BY <1>1, <1>8, <2>1, <2>2 DEF PublishedOK
<1>9. OutOK(r, log) /\ BufOK(r, segs, log) /\ r.seg <= Len(segs)
  BY <1>2, <1>4, <1>6 DEF OutOK, BufOK
<1>10. PointOK(r, segs, log)
  <2>1. 0 \in 0 .. snap BY <1>6
  <2> QED BY <1>4, <1>7, <2>1 DEF PointOK
<1>11. ForwardOK(r, segs, log) /\ BackOK(r, segs, log, ~ lost)
  BY <1>4 DEF ForwardOK, BackOK
<1>12. ReadOK(r, segs, log, ~ lost) BY <1>4, <1>5, <1>8, <1>9, <1>10, <1>11 DEF ReadOK
<1> QED BY <1>3, <1>12

--------------------
\* The invariant: the writer keeps its part and moves under the read as Grew allows; every step of
\* the read keeps what places it.
ReaderAction ==
    \/ ScanStart \/ ScanNext \/ PeekLoad \/ PeekHead \/ ReadSequential
    \/ BackStart \/ EnsureSegment \/ CountEvents \/ EnsureWindow \/ EmitBack
    \/ PointStart \/ PointRead \/ PointPayload \/ PointCheck

LEMMA ReaderActionOK ==
    ASSUME NEW all, ReadInv(all), ReaderAction
    PROVE  ReadOK(rd', segs, log, all)
BY ScanStartOK, ScanNextOK, PeekLoadOK, PeekHeadOK, ReadSequentialOK,
   BackStartOK, EnsureSegmentOK, CountEventsOK, EnsureWindowOK, EmitBackOK,
   PointStartOK, PointReadOK, PointPayloadOK, PointCheckOK DEF ReaderAction

LEMMA NeverPinsAgain ==
    ASSUME rd \in ReadType, ReaderAction
    PROVE  rd'.pc # "pin"
<1>1. \A how : Ended(how).pc # "pin" BY NoReadType DEF Ended, NoRead
<1>2. CASE ScanStart BY <1>1, <1>2 DEF ScanStart, Opened, ReadType
<1>3. CASE ScanNext BY <1>1, <1>3 DEF ScanNext, Go, ReadType
<1>4. CASE PeekLoad BY <1>4 DEF PeekLoad, Go, ReadType
<1>5. CASE PeekHead BY <1>1, <1>5 DEF PeekHead, AdvanceSegment, Opened, Go, ReadType
<1>6. CASE ReadSequential BY <1>1, <1>6 DEF ReadSequential, Go, ReadType
<1>7. CASE BackStart BY <1>7 DEF BackStart, Go, ReadType
<1>8. CASE EnsureSegment BY <1>1, <1>8 DEF EnsureSegment, Opened, Go, ReadType
<1>9. CASE CountEvents BY <1>9 DEF CountEvents, Go, ReadType
<1>10. CASE EnsureWindow BY <1>1, <1>10 DEF EnsureWindow, Go, ReadType
<1>11. CASE EmitBack BY <1>1, <1>11 DEF EmitBack, Go, ReadType
<1>12. CASE PointStart BY <1>1, <1>12 DEF PointStart, Opened, ReadType
<1>13. CASE PointRead BY <1>1, <1>13 DEF PointRead, Go, ReadType
<1>14. CASE PointPayload BY <1>14 DEF PointPayload, Go, ReadType
<1>15. CASE PointCheck BY <1>1, <1>15 DEF PointCheck, Go, ReadType
<1> QED BY <1>2, <1>3, <1>4, <1>5, <1>6, <1>7, <1>8, <1>9, <1>10, <1>11, <1>12, <1>13, <1>14, <1>15
        DEF ReaderAction

LEMMA InitInv ==
    ASSUME Init
    PROVE  Inv
<1>1. WriterInv /\ rd = NoRead BY InitWriter DEF Init
<1>2. PICK a \in BOOLEAN : a = ~ lost OBVIOUS
<1>3. ReadOK(NoRead, segs, log, a) BY <1>1, NoReadOK DEF WriterInv
<1>4. PinnedOK BY <1>1 DEF PinnedOK, NoRead
<1> QED BY <1>1, <1>2, <1>3, <1>4 DEF Inv, WriterInv

LEMMA InvStep ==
    ASSUME Inv, [Next]_vars, ~ astray'
    PROVE  Inv'
<1>1. WriterInv /\ ReadOK(rd, segs, log, ~ lost) /\ PinnedOK BY DEF Inv, WriterInv
<1>2. WriterInv' /\ Forward BY <1>1, WriterInvStep
<1>3. SUFFICES ReadOK(rd, segs, log, ~ lost)' /\ PinnedOK' BY <1>2 DEF Inv, WriterInv
<1>4. PICK a \in BOOLEAN : a = ~ lost OBVIOUS
<1>5. rd \in ReadType /\ ReadOK(rd, segs, log, a) BY <1>1, <1>4 DEF ReadOK
<1>6. CASE rd' = rd
  <2>1. PICK T : T = segs' OBVIOUS
  <2>2. PICK M : M = log' OBVIOUS
  <2>3. PICK b \in BOOLEAN : b = ~ lost' OBVIOUS
  <2>4. SegmentsOK(segs, log) /\ SegmentsOK(T, M) /\ Grew(segs, log, T, M) /\ (b => a)
    BY <1>1, <1>2, <1>4, <2>1, <2>2, <2>3 DEF WriterInv, Forward
  <2>5. ReadOK(rd, T, M, b) BY <1>5, <2>4, ReadKept
  <2>6. PinnedOK'
    <3>1. PICK w \in Nat, v \in Nat : w = watermark /\ v = watermark' /\ w <= v
      <4>1. watermark \in Nat BY <1>1, StateFacts
      <4>2. watermark' \in Nat
        <5>1. watermark' \in 0 .. LastBound(T) - 1
          BY <1>2, <2>1 DEF WriterInv, PublishedOK
        <5>2. LastBound(T) \in Nat BY <2>4, SegmentsFacts
        <5> QED BY <5>1, <5>2
      <4> QED BY <1>2, <4>1, <4>2 DEF Forward
    <3>2. ASSUME rd.pc = "pin", NEW m \in 1 .. Len(rd.want) PROVE rd.want[m] <= v
      <4>1. rd.want[m] \in Nat /\ rd.want[m] <= w
        BY <1>1, <1>5, <3>1, <3>2, ReadTypes DEF PinnedOK
      <4> QED BY <3>1, <4>1
    <3> QED BY <1>6, <3>1, <3>2 DEF PinnedOK
  <2> QED BY <1>6, <2>1, <2>2, <2>3, <2>5, <2>6
<1>7. CASE StartRead
  <2>1. PICK kind \in Kinds : PinWatermark(kind) \/ ReadLive(kind) BY <1>7 DEF StartRead
  <2>2. UNCHANGED <<segs, log, lost, watermark>> BY <1>7 DEF StartRead
  <2>3. ReadOK(rd', segs, log, a) BY <1>1, <2>1, PinWatermarkOK, ReadLiveOK
  <2>4. PinnedOK'
    <3>1. CASE PinWatermark(kind)
      <4>1. \A m \in 1 .. Len(rd'.want) : rd'.want[m] <= watermark
        BY <1>1, <3>1, PinWatermarkOK
      <4> QED BY <2>2, <4>1 DEF PinnedOK
    <3>2. CASE ReadLive(kind)
      <4>1. rd'.pc # "pin" BY <1>1, <3>2, ReadLiveOK
      <4> QED BY <4>1 DEF PinnedOK
    <3> QED BY <2>1, <3>1, <3>2
  <2> QED BY <1>4, <2>2, <2>3, <2>4
<1>8. CASE ReaderStep
  <2>1. UNCHANGED <<segs, log, lost, watermark>> BY <1>8 DEF ReaderStep
  <2>2. CASE PinSnapshot
    <3>1. ReadOK(rd', segs, log, ~ lost) BY <1>1, <2>2, PinSnapshotOK
    <3>2. rd'.pc # "pin" BY <1>5, <2>2 DEF PinSnapshot, Go, ReadType
    <3> QED BY <2>1, <3>1, <3>2 DEF PinnedOK
  <2>3. CASE ReaderAction
    <3>1. ReadInv(a) BY <1>1, <1>5 DEF ReadInv, WriterInv
    <3>2. ReadOK(rd', segs, log, a) BY <2>3, <3>1, ReaderActionOK
    <3>3. rd'.pc # "pin" BY <1>5, <2>3, NeverPinsAgain
    <3> QED BY <1>4, <2>1, <3>2, <3>3 DEF PinnedOK
  <2> QED BY <1>8, <2>2, <2>3 DEF ReaderStep, ReaderAction
<1>9. WriterStep => rd' = rd
  BY DEF WriterStep, Begin, WriteThrough, Sync, AppendFails, FirstWriteFails, RewindFails, Fail,
         ExtendSidecar, PublishSegments, PublishWatermark
<1>10. UNCHANGED vars => rd' = rd BY DEF vars
<1> QED BY <1>6, <1>7, <1>8, <1>9, <1>10 DEF Next

\* Records that went astray stay there: up to then the invariant holds.
LEMMA AstrayStays ==
    ASSUME [Next]_vars, ~ astray'
    PROVE  ~ astray
BY DEF Next, WriterStep, Begin, WriteThrough, Sync, AppendFails, FirstWriteFails, RewindFails,
       ExtendSidecar, PublishSegments, PublishWatermark, StartRead, ReaderStep, vars

LEMMA InvHolds == Spec => [](~ astray => Inv)
<1>1. Init => (~ astray => Inv) BY InitInv
<1>2. (~ astray => Inv) /\ [Next]_vars => (~ astray => Inv)' BY InvStep, AstrayStays
<1> QED BY <1>1, <1>2, PTL DEF Spec

\* Every read yields the committed records at the positions asked for, in order: Scan::next,
\* ScanBack::next and Segment::read_at_local, reading through buffers filled while append_batch
\* writes, for segments, batches and failures without bound, until records go astray.
THEOREM ReadsYieldCommitted == Spec => []YieldsCommitted
<1>1. (~ astray => Inv) => YieldsCommitted
  <2> SUFFICES ASSUME Inv
               PROVE  /\ Len(rd.out) <= Len(rd.want)
                      /\ \A i \in DOMAIN rd.out : rd.out[i] = log[rd.want[i]]
    BY DEF YieldsCommitted
  <2>1. rd \in ReadType /\ OutOK(rd, log) BY DEF Inv, ReadOK
  <2>2. DOMAIN rd.out = 1 .. Len(rd.out) BY <2>1, ReadTypes, LenProperties
  <2> QED BY <2>1, <2>2 DEF OutOK
<1> QED BY <1>1, InvHolds, PTL

\* While no rollover's batch was lost and no records went astray, no read fails and none ends short
\* of the watermark it pinned: ReadCore::load takes the watermark before the snapshot, and
\* append_batch publishes in the other order.
THEOREM NoReadFallsShort == Spec => []ReadsAreWhole
<1>1. (~ astray => Inv) => ReadsAreWhole
  <2> SUFFICES ASSUME Inv, ~ lost PROVE rd.end # "error" /\ (rd.end = "clean" => Len(rd.out) = Len(rd.want))
    BY DEF ReadsAreWhole
  <2>1. /\ rd \in ReadType /\ OutOK(rd, log) /\ rd.end # "error"
        /\ rd.end = "clean" => ~ More(rd)
    BY DEF Inv, ReadOK
  <2>2. Len(rd.out) <= Len(rd.want) /\ Len(rd.out) \in Nat /\ Len(rd.want) \in Nat
    BY <2>1, ReadTypes DEF OutOK
  <2> QED BY <2>1, <2>2 DEF More
<1> QED BY <1>1, InvHolds, PTL
=============================================================================

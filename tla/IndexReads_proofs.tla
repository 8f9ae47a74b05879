-------------------------- MODULE IndexReads_proofs --------------------------
\* Proofs about IndexReads, for every set of events, queries, limits and cursors, every type limit
\* and chunk size, and any number of batches, rollovers, pages and restarts.
EXTENDS IndexReads, WellFoundedInduction, SequenceTheorems, FiniteSetTheorems, FunctionTheorems,
        TLAPS


--------------------
\* Induction over numbers, as the existence of least elements.

\* A nonempty set of numbers has a least element.
LEMMA NatLeast ==
    ASSUME NEW T, T \subseteq Nat, T # {}
    PROVE  \E n \in T : \A m \in T : n <= m
<1> DEFINE R == OpToRel(<, Nat)
<1>1. IsWellFoundedOn(R, Nat) BY NatLessThanWellFounded
<1>2. PICK n \in T : \A m \in T : ~ (<<m, n>> \in R)
  <2> HIDE DEF R
  <2> QED BY <1>1, WFMin
<1>3. \A a, b \in Nat : <<a, b>> \in R <=> a < b BY DEF OpToRel
<1>4. n \in Nat OBVIOUS
<1>5. ASSUME NEW m \in T PROVE n <= m
  <2> HIDE DEF R
  <2>1. ~ (m < n) BY <1>2, <1>3
  <2> QED BY <2>1, <1>4
<1> QED BY <1>5

\* A set of numbers that holds 0 and every successor up to n holds n.
LEMMA UpTo ==
    ASSUME NEW T, NEW n \in Nat, 0 \in T,
           \A i \in Nat : i < n /\ i \in T => i + 1 \in T
    PROVE  \A i \in 0 .. n : i \in T
<1> DEFINE Bad == {i \in 0 .. n : i \notin T}
<1> SUFFICES ASSUME Bad # {} PROVE FALSE
  OBVIOUS
<1>1. Bad \subseteq Nat OBVIOUS
<1>2. PICK i \in Bad : \A m \in Bad : i <= m
  <2> HIDE DEF Bad
  <2> QED BY <1>1, NatLeast
<1>3. i \in 0 .. n /\ i \notin T /\ i # 0 OBVIOUS
<1>4. i - 1 \in Nat /\ i - 1 < n /\ i - 1 \in 0 .. n /\ (i - 1) + 1 = i /\ ~ (i <= i - 1)
  BY <1>3
<1>5. i - 1 \notin T BY <1>3, <1>4
<1>6. i - 1 \in Bad BY <1>4, <1>5
<1> QED BY <1>2, <1>4, <1>6

\* Min of a set of numbers, and Max of a bounded one.
LEMMA MinIsLeast ==
    ASSUME NEW T, T \subseteq Nat, T # {}
    PROVE  Min(T) \in T /\ \A x \in T : Min(T) <= x
BY NatLeast DEF Min

LEMMA MaxIsGreatest ==
    ASSUME NEW T, T \subseteq Nat, T # {}, NEW n \in Nat, \A x \in T : x <= n
    PROVE  Max(T) \in T /\ \A x \in T : x <= Max(T)
<1> DEFINE Bounds == {m \in Nat : \A x \in T : x <= m}
<1>1. PICK m \in Bounds : \A k \in Bounds : m <= k
  <2>1. Bounds \subseteq Nat /\ n \in Bounds OBVIOUS
  <2> HIDE DEF Bounds
  <2> QED BY <2>1, NatLeast
<1>2. m \in Nat /\ \A x \in T : x <= m OBVIOUS
<1>3. m \in T
  <2> SUFFICES ASSUME m \notin T PROVE FALSE
    OBVIOUS
  <2>1. PICK t \in T : TRUE OBVIOUS
  <2>2. t \in Nat /\ t <= m /\ t # m BY <1>2
  <2>3. m - 1 \in Nat /\ ~ (m <= m - 1) BY <1>2, <2>2
  <2>4. \A x \in T : x <= m - 1
    <3> SUFFICES ASSUME NEW x \in T PROVE x <= m - 1
      OBVIOUS
    <3>1. x \in Nat /\ x <= m /\ x # m BY <1>2
    <3> QED BY <3>1, <1>2
  <2>5. m - 1 \in Bounds BY <2>3, <2>4
  <2> HIDE DEF Bounds
  <2> QED BY <1>1, <2>3, <2>5
<1>4. \A x \in T : m >= x BY <1>2
<1>5. \E x \in T : \A y \in T : x >= y BY <1>3, <1>4
<1>6. Max(T) \in T /\ \A y \in T : Max(T) >= y BY <1>5 DEF Max
<1> QED BY <1>6

--------------------
\* FlattenSeq. Its recursive function, whose existence comes first.
Chain(f, ss, n) == f = [i \in 1 .. n |-> IF i = 1 THEN ss[i] ELSE f[i - 1] \o ss[i]]

LEMMA ChainAt ==
    ASSUME NEW ss, NEW n \in Nat, NEW f, Chain(f, ss, n), NEW i \in 1 .. n
    PROVE  f[i] = IF i = 1 THEN ss[i] ELSE f[i - 1] \o ss[i]
<1> DEFINE g == [k \in 1 .. n |-> IF k = 1 THEN ss[k] ELSE f[k - 1] \o ss[k]]
<1>1. f = g BY DEF Chain
<1>2. g[i] = IF i = 1 THEN ss[i] ELSE f[i - 1] \o ss[i] OBVIOUS
<1> HIDE DEF g
<1> QED BY <1>1, <1>2

LEMMA ChainExists ==
    ASSUME NEW ss, NEW n \in Nat
    PROVE  \E f : Chain(f, ss, n)
<1> DEFINE T == {m \in Nat : \E f : Chain(f, ss, m)}
<1>1. 0 \in T
  <2> DEFINE e == [i \in 1 .. 0 |-> 0]
  <2>1. 1 .. 0 = {} OBVIOUS
  <2>2. e = [i \in 1 .. 0 |-> IF i = 1 THEN ss[i] ELSE e[i - 1] \o ss[i]] BY <2>1
  <2>3. Chain(e, ss, 0) BY <2>2 DEF Chain
  <2> QED BY <2>3
<1>2. ASSUME NEW m \in Nat, m \in T PROVE m + 1 \in T
  <2>1. PICK f : Chain(f, ss, m) BY <1>2
  <2> DEFINE x == IF m + 1 = 1 THEN ss[m + 1] ELSE f[m] \o ss[m + 1]
  <2> DEFINE g == [i \in 1 .. m + 1 |-> IF i = m + 1 THEN x ELSE f[i]]
  <2>2. \A i \in 1 .. m : g[i] = f[i] OBVIOUS
  <2>3. g[m + 1] = x OBVIOUS
  <2>4. ASSUME NEW i \in 1 .. m + 1
        PROVE  (IF i = m + 1 THEN x ELSE f[i]) = IF i = 1 THEN ss[i] ELSE g[i - 1] \o ss[i]
    <3>1. CASE i = m + 1
      <4>1. CASE i = 1 BY <3>1, <4>1
      <4>2. CASE i # 1
        <5>1. i - 1 = m /\ m \in 1 .. m /\ m + 1 # 1 BY <3>1, <4>2
        <5>2. g[i - 1] = f[m] BY <5>1, <2>2
        <5> HIDE DEF g
        <5> QED BY <3>1, <4>2, <5>1, <5>2
      <4> QED BY <4>1, <4>2
    <3>2. CASE i # m + 1
      <4>1. i \in 1 .. m BY <3>2
      <4>2. f[i] = IF i = 1 THEN ss[i] ELSE f[i - 1] \o ss[i] BY <2>1, <4>1, ChainAt
      <4>3. i # 1 => i - 1 \in 1 .. m BY <4>1
      <4>4. i # 1 => g[i - 1] = f[i - 1] BY <4>3, <2>2
      <4> HIDE DEF g
      <4> QED BY <3>2, <4>2, <4>4
    <3> QED BY <3>1, <3>2
  <2> DEFINE h == [i \in 1 .. m + 1 |-> IF i = 1 THEN ss[i] ELSE g[i - 1] \o ss[i]]
  <2>5. g = h
    <3>1. \A i \in 1 .. m + 1 : h[i] = IF i = 1 THEN ss[i] ELSE g[i - 1] \o ss[i] OBVIOUS
    <3>2. \A i \in 1 .. m + 1 : g[i] = IF i = m + 1 THEN x ELSE f[i] OBVIOUS
    <3>3. \A i \in 1 .. m + 1 : g[i] = h[i]
      <4> HIDE DEF g, h, x
      <4> QED BY <2>4, <3>1, <3>2
    <3> QED BY <3>3
  <2>6. Chain(g, ss, m + 1) BY <2>5 DEF Chain
  <2> HIDE DEF g
  <2> QED BY <2>6
<1>3. \A i \in 0 .. n : i \in T
  <2> HIDE DEF T
  <2> QED BY <1>1, <1>2, UpTo
<1> QED BY <1>3

LEMMA FlattenChain ==
    ASSUME NEW ss, Len(ss) \in Nat \ {0}
    PROVE  \E f : Chain(f, ss, Len(ss)) /\ FlattenSeq(ss) = f[Len(ss)]
<1> DEFINE n == Len(ss)
<1> DEFINE C(g) == g = [i \in 1 .. n |-> IF i = 1 THEN ss[i] ELSE g[i - 1] \o ss[i]]
<1> DEFINE g == CHOOSE g : C(g)
<1>1. \E f : C(f) BY ChainExists DEF Chain
<1>2. C(g)
  <2> HIDE DEF C
  <2> QED BY <1>1
<1>3. FlattenSeq(ss) = g[n] BY DEF FlattenSeq
<1>4. Chain(g, ss, n) BY <1>2 DEF Chain
<1> QED BY <1>3, <1>4

\* FlattenSeq of nothing.
LEMMA FlattenEmpty == FlattenSeq(<<>>) = <<>>
BY DEF FlattenSeq

--------------------
\* Sets of positions in the order of a read.
Earlier(dir, p, q) == IF dir = "forward" THEN p < q ELSE q < p

\* The sequence s lists the set P in that order.
Lists(dir, s, P) ==
    /\ s \in Seq(Nat)
    /\ \A i, j \in 1 .. Len(s) : i < j => Earlier(dir, s[i], s[j])
    /\ \A i \in 1 .. Len(s) : s[i] \in P
    /\ \A p \in P : \E i \in 1 .. Len(s) : s[i] = p

LEMMA EarlierIsStrict ==
    ASSUME NEW dir, NEW p \in Nat, NEW q \in Nat
    PROVE  /\ Earlier(dir, p, q) => ~ Earlier(dir, q, p) /\ p # q
           /\ Earlier(dir, p, q) \/ Earlier(dir, q, p) \/ p = q
           /\ \A x \in Nat : Earlier(dir, p, q) /\ Earlier(dir, q, x) => Earlier(dir, p, x)
BY DEF Earlier

\* A set has one such list.
LEMMA ListsAgree ==
    ASSUME NEW dir, NEW P, NEW s, NEW t, Lists(dir, s, P), Lists(dir, t, P),
           NEW i \in Nat, i \in 1 .. Len(s),
           \A j \in 1 .. i - 1 : j \in 1 .. Len(t) /\ s[j] = t[j]
    PROVE  i \in 1 .. Len(t) /\ s[i] = t[i]
<1>1. /\ s \in Seq(Nat) /\ t \in Seq(Nat) /\ Len(s) \in Nat /\ Len(t) \in Nat
      /\ \A k \in 1 .. Len(s) : s[k] \in Nat
      /\ \A k \in 1 .. Len(t) : t[k] \in Nat
  BY SMTT(20) DEF Lists
<1>2. PICK k \in 1 .. Len(t) : t[k] = s[i] BY DEF Lists
<1>3. ASSUME k < i PROVE FALSE
  <2>1. s[k] = t[k] /\ k \in 1 .. Len(s) BY <1>1, <1>3
  <2>2. Earlier(dir, s[k], s[i]) BY <1>1, <1>3, <2>1 DEF Lists
  <2> QED BY <1>1, <1>2, <2>1, <2>2, EarlierIsStrict
<1>4. i \in 1 .. Len(t) BY <1>1, <1>2, <1>3
<1>5. PICK m \in 1 .. Len(s) : s[m] = t[i] BY <1>4 DEF Lists
<1>6. ASSUME m < i PROVE FALSE
  <2>1. s[m] = t[m] /\ m \in 1 .. Len(t) BY <1>1, <1>6
  <2>2. Earlier(dir, t[m], t[i]) BY <1>1, <1>4, <1>6, <2>1 DEF Lists
  <2> QED BY <1>1, <1>4, <1>5, <2>1, <2>2, EarlierIsStrict
<1>7. CASE k = i \/ m = i BY <1>2, <1>4, <1>5, <1>7
<1>8. CASE k > i /\ m > i
  <2>1. Earlier(dir, t[i], s[i]) BY <1>1, <1>2, <1>4, <1>8 DEF Lists
  <2>2. Earlier(dir, s[i], t[i]) BY <1>1, <1>5, <1>8 DEF Lists
  <2> QED BY <1>1, <1>4, <2>1, <2>2, EarlierIsStrict
<1> QED BY <1>1, <1>2, <1>3, <1>5, <1>6, <1>7, <1>8

LEMMA ListsPrefix ==
    ASSUME NEW dir, NEW P, NEW s, NEW t, Lists(dir, s, P), Lists(dir, t, P)
    PROVE  \A i \in 1 .. Len(s) : i \in 1 .. Len(t) /\ s[i] = t[i]
<1> DEFINE T == {n \in Nat : \A i \in 1 .. n : i \in 1 .. Len(s) => i \in 1 .. Len(t) /\ s[i] = t[i]}
<1>1. 0 \in T OBVIOUS
<1>2. ASSUME NEW n \in Nat, n \in T PROVE n + 1 \in T
  <2>1. ASSUME n + 1 \in 1 .. Len(s)
        PROVE  n + 1 \in 1 .. Len(t) /\ s[n + 1] = t[n + 1]
    <3>1. \A j \in 1 .. (n + 1) - 1 : j \in 1 .. Len(s) BY <2>1 DEF Lists
    <3>2. \A j \in 1 .. (n + 1) - 1 : j \in 1 .. Len(t) /\ s[j] = t[j] BY <1>2, <3>1
    <3> QED BY <2>1, <3>2, ListsAgree
  <2>2. \A i \in 1 .. n + 1 : i \in 1 .. n \/ i = n + 1 OBVIOUS
  <2> QED BY <1>2, <2>1, <2>2
<1>3. Len(s) \in Nat BY DEF Lists
<1>4. \A i \in 0 .. Len(s) : i \in T
  <2> HIDE DEF T
  <2> QED BY <1>1, <1>2, <1>3, UpTo
<1>5. Len(s) \in T
  <2> HIDE DEF T
  <2> QED BY <1>3, <1>4
<1> QED BY <1>5

LEMMA ListsUnique ==
    ASSUME NEW dir, NEW P, NEW s, NEW t, Lists(dir, s, P), Lists(dir, t, P)
    PROVE  s = t
<1>1. \A i \in 1 .. Len(s) : i \in 1 .. Len(t) /\ s[i] = t[i] BY ListsPrefix
<1>2. \A i \in 1 .. Len(t) : i \in 1 .. Len(s) BY ListsPrefix
<1>3. s \in Seq(Nat) /\ t \in Seq(Nat) BY DEF Lists
<1>4. Len(s) = Len(t)
  <2>1. Len(s) \in Nat /\ Len(t) \in Nat BY <1>3
  <2>2. Len(s) # 0 => Len(s) \in 1 .. Len(t) BY <1>1, <2>1
  <2>3. Len(t) # 0 => Len(t) \in 1 .. Len(s) BY <1>2, <2>1
  <2> QED BY <2>1, <2>2, <2>3
<1> QED BY <1>1, <1>3, <1>4, SeqEqual

\* Lists of nothing, of one position, of two sets one of which is before the other, and of the
\* beginning of a set.
LEMMA ListsEmpty ==
    ASSUME NEW dir
    PROVE  /\ Lists(dir, <<>>, {})
           /\ \A P : Lists(dir, <<>>, P) => P = {}
           /\ \A s : Lists(dir, s, {}) => s = <<>>
<1>1. Lists(dir, <<>>, {}) BY DEF Lists
<1>2. ASSUME NEW P, Lists(dir, <<>>, P) PROVE P = {} BY <1>2 DEF Lists
<1>3. ASSUME NEW s, Lists(dir, s, {}) PROVE s = <<>> BY <1>1, <1>3, ListsUnique
<1> QED BY <1>1, <1>2, <1>3

LEMMA ListsOne ==
    ASSUME NEW dir, NEW p \in Nat
    PROVE  Lists(dir, <<p>>, {p})
<1>1. <<p>> \in Seq(Nat) /\ Len(<<p>>) = 1 /\ <<p>>[1] = p OBVIOUS
<1> QED BY <1>1 DEF Lists

LEMMA ListsConcat ==
    ASSUME NEW dir, NEW A, NEW B, NEW s, NEW t, Lists(dir, s, A), Lists(dir, t, B),
           \A a \in A : \A b \in B : Earlier(dir, a, b)
    PROVE  Lists(dir, s \o t, A \cup B)
<1>1. PICK m \in Nat, n \in Nat : m = Len(s) /\ n = Len(t) BY DEF Lists
<1>2. PICK u \in Seq(Nat) :
        /\ u = s \o t
        /\ Len(u) = m + n
        /\ \A i \in 1 .. m : u[i] = s[i]
        /\ \A i \in 1 .. n : u[m + i] = t[i]
  <2>1. s \in Seq(Nat) /\ t \in Seq(Nat) BY DEF Lists
  <2>2. /\ s \o t \in Seq(Nat) /\ Len(s \o t) = m + n
        /\ \A i \in 1 .. (m + n) : (s \o t)[i] = IF i <= m THEN s[i] ELSE t[i - m]
    BY <1>1, <2>1, ConcatProperties
  <2>3. \A i \in 1 .. m : (s \o t)[i] = s[i] BY <2>2
  <2>4. ASSUME NEW i \in 1 .. n PROVE (s \o t)[m + i] = t[i]
    <3>1. m + i \in 1 .. (m + n) /\ ~ (m + i <= m) /\ (m + i) - m = i OBVIOUS
    <3> QED BY <2>2, <3>1
  <2> QED BY <2>2, <2>3, <2>4
<1>3. \A i \in 1 .. m + n : i \in 1 .. m \/ (i - m \in 1 .. n /\ i = m + (i - m)) OBVIOUS
<1>4. ASSUME NEW i \in 1 .. m + n, NEW j \in 1 .. m + n, i < j
      PROVE  Earlier(dir, u[i], u[j])
  <2>1. CASE j \in 1 .. m
    <3>1. i \in 1 .. m BY <1>4, <2>1
    <3> QED BY <1>1, <1>2, <1>4, <2>1, <3>1 DEF Lists
  <2>2. CASE i \in 1 .. m /\ j - m \in 1 .. n /\ j = m + (j - m)
    <3>1. u[i] \in A /\ u[j] \in B BY <1>1, <1>2, <2>2 DEF Lists
    <3> QED BY <3>1
  <2>3. CASE i - m \in 1 .. n /\ i = m + (i - m) /\ j - m \in 1 .. n /\ j = m + (j - m)
    <3>1. i - m < j - m BY <1>4
    <3>2. Earlier(dir, t[i - m], t[j - m]) BY <1>1, <2>3, <3>1 DEF Lists
    <3> QED BY <1>2, <2>3, <3>2
  <2> QED BY <1>3, <1>4, <2>1, <2>2, <2>3
<1>5. ASSUME NEW i \in 1 .. m + n PROVE u[i] \in A \cup B
  <2>1. CASE i \in 1 .. m BY <1>1, <1>2, <2>1 DEF Lists
  <2>2. CASE i - m \in 1 .. n /\ i = m + (i - m) BY <1>1, <1>2, <2>2 DEF Lists
  <2> QED BY <1>3, <2>1, <2>2
<1>6. ASSUME NEW p \in A \cup B PROVE \E i \in 1 .. m + n : u[i] = p
  <2>1. CASE p \in A
    <3>1. PICK i \in 1 .. m : s[i] = p BY <1>1, <2>1 DEF Lists
    <3>2. i \in 1 .. m + n /\ u[i] = p BY <1>2, <3>1
    <3> QED BY <3>2
  <2>2. CASE p \in B
    <3>1. PICK i \in 1 .. n : t[i] = p BY <1>1, <2>2 DEF Lists
    <3>2. m + i \in 1 .. m + n OBVIOUS
    <3> QED BY <1>2, <3>1, <3>2
  <2> QED BY <2>1, <2>2
<1> QED BY <1>2, <1>4, <1>5, <1>6 DEF Lists

Among(P, s, n) == {p \in P : \E i \in 1 .. n : s[i] = p}

LEMMA ListsBegin ==
    ASSUME NEW dir, NEW P, NEW s, Lists(dir, s, P), NEW n \in Nat, n <= Len(s)
    PROVE  /\ SubSeq(s, 1, n) \in Seq(Nat) /\ Len(SubSeq(s, 1, n)) = n
           /\ \A i \in 1 .. n : SubSeq(s, 1, n)[i] = s[i]
           /\ Lists(dir, SubSeq(s, 1, n), Among(P, s, n))
<1>1. s \in Seq(Nat) /\ Len(s) \in Nat BY DEF Lists
<1>2. PICK u \in Seq(Nat) :
        u = SubSeq(s, 1, n) /\ Len(u) = n /\ \A i \in 1 .. n : u[i] = s[i]
  <2>1. \A i \in 1 .. n : s[i] \in Nat /\ 1 + i - 1 = i BY <1>1
  <2>2. /\ SubSeq(s, 1, n) \in Seq(Nat)
        /\ Len(SubSeq(s, 1, n)) = IF 1 <= n THEN n - 1 + 1 ELSE 0
        /\ \A i \in 1 .. n - 1 + 1 : SubSeq(s, 1, n)[i] = s[1 + i - 1]
    BY <2>1, SubSeqProperties
  <2>3. (IF 1 <= n THEN n - 1 + 1 ELSE 0) = n /\ n - 1 + 1 = n OBVIOUS
  <2> QED BY <2>1, <2>2, <2>3
<1>3. \A i \in 1 .. n : i \in 1 .. Len(s) BY <1>1
<1>4. Lists(dir, u, {p \in P : \E i \in 1 .. n : s[i] = p}) BY <1>2, <1>3 DEF Lists
<1> QED BY <1>2, <1>4 DEF Among

\* Every bounded set has a list, as long as the set is large, and Ordered is it.
LEMMA ListsExist ==
    ASSUME NEW dir, NEW n \in Nat, NEW P, \A p \in P : p \in Nat /\ p < n
    PROVE  \E s : Lists(dir, s, P)
<1> DEFINE Q(m) == {p \in P : p < m}
<1> DEFINE T == {m \in Nat : \E s : Lists(dir, s, Q(m))}
<1>1. 0 \in T
  <2>1. Q(0) = {} OBVIOUS
  <2>2. Lists(dir, <<>>, Q(0)) BY <2>1, ListsEmpty
  <2> QED BY <2>2
<1>2. ASSUME NEW m \in Nat, m \in T PROVE m + 1 \in T
  <2>1. PICK s : Lists(dir, s, Q(m)) BY <1>2
  <2>2. CASE m \notin P
    <3>1. Q(m + 1) = Q(m) BY <2>2
    <3> QED BY <2>1, <3>1
  <2>3. CASE m \in P
    <3>1. Q(m + 1) = Q(m) \cup {m} /\ Q(m + 1) = {m} \cup Q(m)
      <4>1. \A p \in P : p < m + 1 <=> p < m \/ p = m OBVIOUS
      <4> QED BY <2>3, <4>1
    <3>2. Lists(dir, <<m>>, {m}) BY ListsOne
    <3>3. CASE dir = "forward"
      <4>1. \A a \in Q(m) : \A b \in {m} : Earlier(dir, a, b) BY <3>3 DEF Earlier
      <4>2. Lists(dir, s \o <<m>>, Q(m) \cup {m})
        <5> HIDE DEF Q
        <5> QED BY <2>1, <3>2, <4>1, ListsConcat
      <4> QED BY <3>1, <4>2
    <3>4. CASE dir # "forward"
      <4>1. \A a \in {m} : \A b \in Q(m) : Earlier(dir, a, b) BY <3>4 DEF Earlier
      <4>2. Lists(dir, <<m>> \o s, {m} \cup Q(m))
        <5> HIDE DEF Q
        <5> QED BY <2>1, <3>2, <4>1, ListsConcat
      <4>3. Lists(dir, <<m>> \o s, Q(m + 1)) BY <3>1, <4>2
      <4> QED BY <4>3
    <3> QED BY <3>3, <3>4
  <2> QED BY <2>2, <2>3
<1>3. n \in T
  <2> HIDE DEF T
  <2>1. \A i \in 0 .. n : i \in T BY <1>1, <1>2, UpTo
  <2> QED BY <2>1
<1>4. Q(n) = P OBVIOUS
<1> QED BY <1>3, <1>4

LEMMA ListsCount ==
    ASSUME NEW dir, NEW P, NEW s, Lists(dir, s, P)
    PROVE  IsFiniteSet(P) /\ Cardinality(P) = Len(s) /\ s \in [1 .. Len(s) -> P]
<1>1. s \in Seq(Nat) /\ Len(s) \in Nat /\ DOMAIN s = 1 .. Len(s) BY DEF Lists
<1>2. s \in [1 .. Len(s) -> P]
  <2>1. s = [i \in 1 .. Len(s) |-> s[i]] BY <1>1
  <2>2. \A i \in 1 .. Len(s) : s[i] \in P BY DEF Lists
  <2> QED BY <2>1, <2>2
<1>3. \A i, j \in 1 .. Len(s) : s[i] = s[j] => i = j
  <2> SUFFICES ASSUME NEW i \in 1 .. Len(s), NEW j \in 1 .. Len(s), s[i] = s[j], i # j
               PROVE  FALSE
    OBVIOUS
  <2>1. i < j \/ j < i BY <1>1
  <2>2. Earlier(dir, s[i], s[j]) \/ Earlier(dir, s[j], s[i]) BY <2>1 DEF Lists
  <2>3. s[i] \in Nat /\ s[j] \in Nat BY <1>1
  <2> QED BY <2>2, <2>3, EarlierIsStrict
<1>4. s \in Bijection(1 .. Len(s), P)
  <2>1. \A p \in P : \E i \in 1 .. Len(s) : s[i] = p BY DEF Lists
  <2> QED BY <1>2, <1>3, <2>1 DEF Bijection, Injection, Surjection, IsInjective
<1>5. ExistsBijection(1 .. Len(s), P) BY <1>4 DEF ExistsBijection
<1>6. IsFiniteSet(1 .. Len(s)) /\ Cardinality(1 .. Len(s)) = Len(s)
  <2>1. PICK n \in Nat : n = Len(s) BY <1>1
  <2>2. IsFiniteSet(1 .. n) /\ Cardinality(1 .. n) = IF 1 > n THEN 0 ELSE n - 1 + 1
    BY ONLY n \in Nat, FS_Interval
  <2>3. (IF 1 > n THEN 0 ELSE n - 1 + 1) = n BY ONLY n \in Nat
  <2> QED BY ONLY <2>1, <2>2, <2>3
<1> QED BY <1>2, <1>5, <1>6, FS_Bijection

\* An ordered sequence of positions of P, as many as P has, lists P.
LEMMA ListsWhole ==
    ASSUME NEW dir, NEW P, P \subseteq Nat, IsFiniteSet(P),
           NEW s \in [1 .. Cardinality(P) -> P],
           \A i, j \in 1 .. Cardinality(P) : i < j => Earlier(dir, s[i], s[j])
    PROVE  Lists(dir, s, P)
<1>1. PICK n \in Nat : n = Cardinality(P) BY FS_CardinalityType
<1>2. s \in [1 .. n -> P] /\ s \in [1 .. n -> Nat] BY <1>1
<1>3. s \in Seq(Nat) /\ Len(s) = n BY <1>2
<1>4. \A i, j \in 1 .. n : s[i] = s[j] => i = j
  <2> SUFFICES ASSUME NEW i \in 1 .. n, NEW j \in 1 .. n, s[i] = s[j], i # j
               PROVE  FALSE
    OBVIOUS
  <2>1. i < j \/ j < i BY <1>1
  <2>2. Earlier(dir, s[i], s[j]) \/ Earlier(dir, s[j], s[i]) BY <1>1, <2>1
  <2>3. s[i] \in Nat /\ s[j] \in Nat BY <1>2
  <2> QED BY <2>2, <2>3, EarlierIsStrict
<1>5. s \in Injection(1 .. n, P) BY <1>2, <1>4 DEF Injection, IsInjective
<1>6. Cardinality(1 .. n) = Cardinality(P) BY <1>1, FS_Interval
<1>7. s \in Surjection(1 .. n, P) BY <1>5, <1>6, FS_Injection
<1>8. \A p \in P : \E i \in 1 .. n : s[i] = p BY <1>7 DEF Surjection
<1> QED BY <1>1, <1>2, <1>3, <1>8 DEF Lists

LEMMA OrderedLists ==
    \A n \in Nat : \A P : (\A p \in P : p \in Nat /\ p < n) => Lists(r.dir, Ordered(P), P)
<1> SUFFICES ASSUME NEW n \in Nat, NEW P, \A p \in P : p \in Nat /\ p < n
             PROVE  Lists(r.dir, Ordered(P), P)
  OBVIOUS
<1> DEFINE K == [1 .. Cardinality(P) -> P]
<1> DEFINE C(s) == \A i, j \in DOMAIN s : i < j => Precedes(s[i], s[j])
<1>1. \A p, q : Precedes(p, q) <=> Earlier(r.dir, p, q) BY DEF Precedes, Earlier, Forward
<1>2. PICK t : Lists(r.dir, t, P) BY ListsExist
<1>3. IsFiniteSet(P) /\ Cardinality(P) = Len(t) /\ t \in K BY <1>2, ListsCount
<1>4. DOMAIN t = 1 .. Len(t) BY <1>3
<1>5. C(t) BY <1>1, <1>2, <1>4 DEF Lists
<1>6. Ordered(P) = CHOOSE s \in K : C(s) BY DEF Ordered
<1>7. Ordered(P) \in K /\ C(Ordered(P))
  <2> HIDE DEF K, C
  <2> QED BY <1>3, <1>5, <1>6
<1>8. DOMAIN Ordered(P) = 1 .. Cardinality(P) BY <1>7
<1>9. \A i, j \in 1 .. Cardinality(P) : i < j => Earlier(r.dir, Ordered(P)[i], Ordered(P)[j])
  BY <1>1, <1>7, <1>8
<1>10. P \subseteq Nat OBVIOUS
<1> QED BY <1>3, <1>7, <1>9, <1>10, ListsWhole

\* Lists of consecutive sets, one after the other.
RunsInOrder(dir, n, ss, sets) ==
    /\ \A k \in 1 .. n : Lists(dir, ss[k], sets[k])
    /\ \A j, k \in 1 .. n : j < k => \A a \in sets[j] : \A b \in sets[k] : Earlier(dir, a, b)

Together(n, sets) == UNION {sets[k] : k \in 1 .. n}

LEMMA ListsFlatten ==
    ASSUME NEW dir, NEW n \in Nat, NEW ss \in Seq(Seq(Nat)), Len(ss) = n, NEW sets,
           RunsInOrder(dir, n, ss, sets)
    PROVE  Lists(dir, FlattenSeq(ss), Together(n, sets))
<1> SUFFICES Lists(dir, FlattenSeq(ss), UNION {sets[k] : k \in 1 .. n})
  BY DEF Together
<1> /\ \A k \in 1 .. n : Lists(dir, ss[k], sets[k])
    /\ \A j, k \in 1 .. n : j < k => \A a \in sets[j] : \A b \in sets[k] : Earlier(dir, a, b)
  BY DEF RunsInOrder
<1> DEFINE U(m) == UNION {sets[k] : k \in 1 .. m}
<1>1. CASE n = 0
  <2>1. ss = <<>> /\ U(n) = {} BY <1>1, EmptySeq
  <2> QED BY <2>1, FlattenEmpty, ListsEmpty
<1>2. CASE n # 0
  <2>1. PICK f : Chain(f, ss, n) /\ FlattenSeq(ss) = f[n] BY <1>2, FlattenChain
  <2> DEFINE T == {m \in Nat : m = 0 \/ Lists(dir, f[m], U(m))}
  <2>2. 0 \in T OBVIOUS
  <2>3. ASSUME NEW m \in Nat, m < n, m \in T PROVE m + 1 \in T
    <3>1. m + 1 \in 1 .. n /\ (m + 1) - 1 = m BY ONLY <2>3, m \in Nat, n \in Nat
    <3>2. f[m + 1] = IF m + 1 = 1 THEN ss[m + 1] ELSE f[m] \o ss[m + 1]
      BY <2>1, <3>1, ChainAt
    <3>3. Lists(dir, ss[m + 1], sets[m + 1]) BY <3>1
    <3>4. \A k \in 1 .. m + 1 : k \in 1 .. m \/ k = m + 1 OBVIOUS
    <3>5. U(m + 1) = U(m) \cup sets[m + 1]
      <4>1. ASSUME NEW x \in U(m + 1) PROVE x \in U(m) \cup sets[m + 1]
        <5>1. PICK k \in 1 .. m + 1 : x \in sets[k] BY ONLY <4>1
        <5> QED BY ONLY <3>4, <5>1
      <4>2. \A k \in 1 .. m : k \in 1 .. m + 1 BY ONLY m \in Nat
      <4>3. m + 1 \in 1 .. m + 1 BY ONLY m \in Nat
      <4>4. U(m) \cup sets[m + 1] \subseteq U(m + 1) BY ONLY <4>2, <4>3
      <4> QED BY ONLY <4>1, <4>4
    <3>6. CASE m = 0
      <4>1. U(m) = {} BY <3>6
      <4>2. U(m + 1) = sets[m + 1] BY <3>5, <4>1
      <4>3. f[m + 1] = ss[m + 1] BY <3>2, <3>6
      <4>4. Lists(dir, f[m + 1], U(m + 1)) BY <3>3, <4>2, <4>3
      <4> QED BY <4>4
    <3>7. CASE m # 0
      <4>1. Lists(dir, f[m], U(m)) BY <2>3, <3>7
      <4>2. ASSUME NEW a \in U(m), NEW b \in sets[m + 1] PROVE Earlier(dir, a, b)
        <5>1. PICK k \in 1 .. m : a \in sets[k] OBVIOUS
        <5>2. k \in 1 .. n /\ k < m + 1 BY <3>1
        <5> QED BY <3>1, <5>1, <5>2
      <4>3. f[m + 1] = f[m] \o ss[m + 1]
        <5>1. m + 1 # 1 BY <3>7
        <5> QED BY <3>2, <5>1
      <4>4. Lists(dir, f[m] \o ss[m + 1], U(m) \cup sets[m + 1])
        <5> HIDE DEF U
        <5> QED BY <3>3, <4>1, <4>2, ListsConcat
      <4>5. Lists(dir, f[m + 1], U(m + 1)) BY <3>5, <4>3, <4>4
      <4> QED BY <4>5
    <3> QED BY <3>6, <3>7
  <2>4. n \in T
    <3> HIDE DEF T
    <3>1. \A i \in 0 .. n : i \in T BY <2>2, <2>3, UpTo
    <3> QED BY <3>1
  <2> QED BY <1>2, <2>1, <2>4
<1> QED BY <1>1, <1>2

--------------------
\* The recursive functions of the model: a fold over a finite set, whose function on subsets
\* exists, and the doubling of ensure().
Folded(g, start, step, pick, s) ==
    IF s = {} THEN start ELSE step[<<g[s \ {pick[s]}], pick[s]>>]

Foldable(S, V, start, step, pick) ==
    \E g \in [SUBSET S -> V] : \A s \in SUBSET S : g[s] = Folded(g, start, step, pick, s)

LEMMA SubsetRecursion ==
    ASSUME NEW S, IsFiniteSet(S), NEW V, NEW start \in V, NEW step \in [V \X S -> V], NEW pick,
           \A s \in SUBSET S : s # {} => pick[s] \in s
    PROVE  Foldable(S, V, start, step, pick)
<1> DEFINE Rec(g, s) == IF s = {} THEN start ELSE step[<<g[s \ {pick[s]}], pick[s]>>]
<1> DEFINE Upto(g, n) == \A s \in SUBSET S : Cardinality(s) <= n => g[s] = Rec(g, s)
<1> DEFINE T == {n \in Nat : \E g \in [SUBSET S -> V] : Upto(g, n)}
<1>0. \A s \in SUBSET S : IsFiniteSet(s) /\ Cardinality(s) \in Nat /\ (Cardinality(s) = 0 <=> s = {})
  BY FS_Subset, FS_CardinalityType, FS_EmptySet
<1>1. 0 \in T
  <2> DEFINE g == [s \in SUBSET S |-> start]
  <2>1. g \in [SUBSET S -> V] OBVIOUS
  <2>2. \A s \in SUBSET S : Cardinality(s) <= 0 => s = {} BY <1>0
  <2>3. Upto(g, 0) BY <2>2
  <2> HIDE DEF g
  <2> QED BY <2>1, <2>3
<1>2. ASSUME NEW n \in Nat, n \in T PROVE n + 1 \in T
  <2>1. PICK f \in [SUBSET S -> V] : Upto(f, n) BY <1>2
  <2> DEFINE g == [s \in SUBSET S |-> Rec(f, s)]
  <2>2. \A s \in SUBSET S : s # {} =>
          /\ pick[s] \in S /\ s \ {pick[s]} \in SUBSET S
          /\ Cardinality(s \ {pick[s]}) = Cardinality(s) - 1
    BY <1>0, FS_RemoveElement
  <2>3. g \in [SUBSET S -> V]
    <3>1. ASSUME NEW s \in SUBSET S PROVE Rec(f, s) \in V
      <4>1. CASE s = {} BY <4>1
      <4>2. CASE s # {}
        <5>1. <<f[s \ {pick[s]}], pick[s]>> \in V \X S BY <2>2, <4>2
        <5> QED BY <4>2, <5>1
      <4> QED BY <4>1, <4>2
    <3> HIDE DEF Rec
    <3> QED BY <3>1
  <2>4. ASSUME NEW s \in SUBSET S, Cardinality(s) <= n + 1 PROVE g[s] = Rec(g, s)
    <3>1. CASE s = {} BY <3>1
    <3>2. CASE s # {}
      <4>1. PICK u \in SUBSET S : u = s \ {pick[s]} /\ Cardinality(u) = Cardinality(s) - 1
        BY <2>2, <3>2
      <4>2. Cardinality(u) <= n BY <1>0, <2>4, <4>1
      <4>3. f[u] = Rec(f, u) BY <2>1, <4>2
      <4>4. g[u] = f[u] BY <4>3
      <4>5. g[s] = step[<<f[u], pick[s]>>] BY <3>2, <4>1
      <4>6. Rec(g, s) = step[<<g[u], pick[s]>>]
        <5> HIDE DEF g
        <5> QED BY <3>2, <4>1
      <4> HIDE DEF g, Rec
      <4> QED BY <4>4, <4>5, <4>6
    <3> QED BY <3>1, <3>2
  <2> HIDE DEF g, Rec
  <2> QED BY <2>3, <2>4
<1>3. PICK n \in Nat : n = Cardinality(S) BY FS_CardinalityType
<1>4. n \in T
  <2> HIDE DEF T
  <2>1. \A i \in 0 .. n : i \in T BY <1>1, <1>2, UpTo
  <2> QED BY <2>1
<1>5. PICK g \in [SUBSET S -> V] : Upto(g, n) BY <1>4
<1>6. \A s \in SUBSET S : Cardinality(s) <= n BY <1>3, FS_Subset
<1> QED BY <1>5, <1>6 DEF Foldable, Folded

\* A ChunkedVec covers at least what was pushed.
LEMMA CoveredIsEnough == \A n \in Nat : Covered(n) \in Nat /\ Covered(n) >= n
<1> SUFFICES ASSUME NEW n \in Nat PROVE Covered(n) \in Nat /\ Covered(n) >= n
  OBVIOUS
<1> DEFINE need(i) == (i - 1) \div Chunk + 1
<1> DEFINE Rec(f, i) == IF i = 0 THEN 0
                        ELSE IF f[i - 1] >= need(i) THEN f[i - 1]
                        ELSE Max({need(i), 2 * f[i - 1]})
<1>0. PICK c \in Nat : c = Chunk /\ c > 0 BY IndexReadsAssumption
<1>1. \A i \in Nat \ {0} : need(i) \in Nat /\ Chunk * need(i) >= i
  <2> SUFFICES ASSUME NEW i \in Nat \ {0} PROVE need(i) \in Nat /\ Chunk * need(i) >= i
    OBVIOUS
  <2>1. PICK q \in Nat : q = (i - 1) \div c BY <1>0
  <2>2. PICK m \in Nat : m = (i - 1) % c /\ m < c /\ i - 1 = c * q + m BY <1>0, <2>1
  <2>3. c * (q + 1) = c * q + c OBVIOUS
  <2>4. c * (q + 1) >= i BY <2>2, <2>3
  <2> QED BY <1>0, <2>1, <2>4
<1>2. \A f : \A i \in Nat : (i # 0 => f[i - 1] \in Nat) =>
        /\ Rec(f, i) \in Nat
        /\ i # 0 => Rec(f, i) >= need(i)
  <2> SUFFICES ASSUME NEW f, NEW i \in Nat, i # 0 => f[i - 1] \in Nat
               PROVE  Rec(f, i) \in Nat /\ (i # 0 => Rec(f, i) >= need(i))
    OBVIOUS
  <2>1. \A a, b \in Nat : Max({a, b}) \in Nat /\ Max({a, b}) >= a BY DEF Max
  <2>2. i # 0 => need(i) \in Nat BY <1>1
  <2>3. i # 0 => 2 * f[i - 1] \in Nat OBVIOUS
  <2> HIDE DEF need
  <2> QED BY <2>1, <2>2, <2>3
<1> DEFINE T == {m \in Nat : \E f : /\ f = [i \in 0 .. m |-> Rec(f, i)]
                                    /\ \A i \in 0 .. m : f[i] \in Nat}
<1> HIDE DEF Rec, need
<1>3. 0 \in T
  <2> DEFINE f == [i \in 0 .. 0 |-> 0]
  <2>1. \A i \in 0 .. 0 : Rec(f, i) = 0 BY DEF Rec
  <2>2. f = [i \in 0 .. 0 |-> Rec(f, i)]
    <3> DEFINE h == [i \in 0 .. 0 |-> Rec(f, i)]
    <3>1. \A i \in 0 .. 0 : h[i] = f[i] BY <2>1
    <3> QED BY <3>1
  <2>3. \A i \in 0 .. 0 : f[i] \in Nat OBVIOUS
  <2> HIDE DEF f
  <2> QED BY <2>2, <2>3
<1>4. ASSUME NEW m \in Nat, m \in T PROVE m + 1 \in T
  <2>1. PICK f : f = [i \in 0 .. m |-> Rec(f, i)] /\ \A i \in 0 .. m : f[i] \in Nat
    BY <1>4
  <2> DEFINE g == [i \in 0 .. m + 1 |-> Rec(f, i)]
  <2> DEFINE h == [i \in 0 .. m + 1 |-> Rec(g, i)]
  <2>2. \A i \in 0 .. m : g[i] = f[i]
    <3>1. \A i \in 0 .. m : f[i] = Rec(f, i) BY <2>1
    <3>2. \A i \in 0 .. m : i \in 0 .. m + 1 OBVIOUS
    <3> QED BY <3>1, <3>2
  <2>3. \A i \in 0 .. m + 1 : i # 0 => i - 1 \in 0 .. m OBVIOUS
  <2>4. \A i \in 0 .. m + 1 : Rec(g, i) = Rec(f, i)
    <3> HIDE DEF g
    <3> QED BY <2>2, <2>3 DEF Rec
  <2>5. g = h
    <3>1. \A i \in 0 .. m + 1 : h[i] = g[i]
      <4>1. \A i \in 0 .. m + 1 : g[i] = Rec(f, i) OBVIOUS
      <4> HIDE DEF g
      <4> QED BY <2>4, <4>1
    <3> QED BY <3>1
  <2>6. \A i \in 0 .. m + 1 : Rec(f, i) \in Nat BY <1>2, <2>1, <2>3
  <2>7. \A i \in 0 .. m + 1 : g[i] \in Nat BY <2>6
  <2> HIDE DEF g
  <2> QED BY <2>5, <2>7
<1>5. n \in T
  <2> HIDE DEF T
  <2>1. \A i \in 0 .. n : i \in T BY <1>3, <1>4, UpTo
  <2> QED BY <2>1
<1> DEFINE F(f) == f = [i \in 0 .. n |-> Rec(f, i)]
<1> DEFINE chunks == CHOOSE f : F(f)
<1>6. Covered(n) = Chunk * chunks[n] BY DEF Covered, Rec, need
<1>7. F(chunks)
  <2>1. \E f : F(f) BY <1>5
  <2> HIDE DEF F
  <2> QED BY <2>1
<1>8. \A i \in 0 .. n : chunks[i] = Rec(chunks, i)
  <2> HIDE DEF chunks
  <2> QED BY <1>7
<1>9. \A i \in 0 .. n : chunks[i] \in Nat
  <2> HIDE DEF chunks
  <2> DEFINE N == {i \in Nat : i \in 0 .. n => chunks[i] \in Nat}
  <2>1. 0 \in N BY <1>2, <1>8
  <2>2. ASSUME NEW i \in Nat, i < n, i \in N PROVE i + 1 \in N
    <3>1. i + 1 \in 0 .. n /\ i \in 0 .. n /\ (i + 1) - 1 = i BY <2>2
    <3>2. chunks[i] \in Nat BY <2>2, <3>1
    <3>3. Rec(chunks, i + 1) \in Nat BY <1>2, <3>1, <3>2
    <3> QED BY <1>8, <3>1, <3>3
  <2>3. \A i \in 0 .. n : i \in N
    <3> HIDE DEF N
    <3> QED BY <2>1, <2>2, UpTo
  <2> QED BY <2>3
<1>10. n # 0 => chunks[n] >= need(n) /\ need(n) \in Nat /\ c * need(n) >= n
  <2> HIDE DEF chunks
  <2>1. n # 0 => n - 1 \in 0 .. n /\ n \in 0 .. n OBVIOUS
  <2>2. n # 0 => Rec(chunks, n) >= need(n) BY <1>2, <1>9, <2>1
  <2> QED BY <1>0, <1>1, <1>8, <2>1, <2>2
<1>11. PICK k \in Nat : k = chunks[n]
  <2>1. n \in 0 .. n OBVIOUS
  <2> HIDE DEF chunks
  <2> QED BY <1>9, <2>1
<1>12. c * k \in Nat OBVIOUS
<1>13. n # 0 => c * k >= n
  <2> SUFFICES ASSUME n # 0 PROVE c * k >= n
    OBVIOUS
  <2>1. PICK x \in Nat : x = need(n) /\ k >= x /\ c * x >= n BY <1>10, <1>11
  <2>2. k - x \in Nat /\ k = x + (k - x) BY <2>1
  <2>3. PICK d \in Nat : d = k - x BY <2>2
  <2>4. c * (x + d) = c * x + c * d /\ c * d \in Nat OBVIOUS
  <2> QED BY <2>1, <2>2, <2>3, <2>4
<1> QED BY <1>0, <1>6, <1>11, <1>12, <1>13

--------------------
\* What a tail knows of its segment.
TailState ==
    [base : Nat, types : Seq(EventType), column : Seq(Nat), terms : Seq(Tag),
     postings : [Tag -> SUBSET Nat], unindexable : BOOLEAN, reopened : BOOLEAN]

Unique(seq) == \A i, j \in 1 .. Len(seq) : seq[i] = seq[j] => i = j

Intern(x, seq) == IF Interned(x, seq) THEN seq ELSE Append(seq, x)

LEMMA InternedAt ==
    ASSUME NEW X, NEW seq \in Seq(X), NEW x
    PROVE  Interned(x, seq) <=> \E i \in 1 .. Len(seq) : seq[i] = x
BY DEF Interned, ToSet

LEMMA IdIs ==
    ASSUME NEW X, NEW seq \in Seq(X), Unique(seq), NEW i \in 1 .. Len(seq)
    PROVE  IdOf(seq[i], seq) = i - 1
<1> DEFINE C(k) == seq[k] = seq[i]
<1> DEFINE D == DOMAIN seq
<1>1. D = 1 .. Len(seq) OBVIOUS
<1>2. IdOf(seq[i], seq) = (CHOOSE k \in D : C(k)) - 1 BY DEF IdOf
<1>3. (CHOOSE k \in D : C(k)) \in D /\ C(CHOOSE k \in D : C(k))
  <2>1. i \in D /\ C(i) BY <1>1
  <2> HIDE DEF C, D
  <2> QED BY <2>1
<1>4. (CHOOSE k \in D : C(k)) = i
  <2> DEFINE k == CHOOSE k \in D : C(k)
  <2>1. k \in 1 .. Len(seq) /\ seq[k] = seq[i] BY <1>1, <1>3
  <2> HIDE DEF k
  <2>2. k = i BY <2>1 DEF Unique
  <2> QED BY <2>2 DEF k
<1> QED BY <1>2, <1>4

LEMMA IdOfInterned ==
    ASSUME NEW X, NEW seq \in Seq(X), Unique(seq), NEW x, Interned(x, seq)
    PROVE  IdOf(x, seq) \in Nat /\ IdOf(x, seq) < Len(seq) /\ seq[IdOf(x, seq) + 1] = x
<1>1. PICK i \in 1 .. Len(seq) : seq[i] = x BY InternedAt
<1>2. IdOf(x, seq) = i - 1 BY <1>1, IdIs
<1>3. i - 1 \in Nat /\ i - 1 < Len(seq) /\ (i - 1) + 1 = i OBVIOUS
<1> QED BY <1>1, <1>2, <1>3

\* Interning keeps the ids there are.
LEMMA InternKeeps ==
    ASSUME NEW X, NEW seq \in Seq(X), Unique(seq), NEW x \in X
    PROVE  /\ Intern(x, seq) \in Seq(X) /\ Unique(Intern(x, seq))
           /\ Len(Intern(x, seq)) >= Len(seq)
           /\ \A y : Interned(y, Intern(x, seq)) <=> Interned(y, seq) \/ y = x
           /\ \A y : Interned(y, seq) => IdOf(y, Intern(x, seq)) = IdOf(y, seq)
<1>1. CASE Interned(x, seq)
  <2>1. Intern(x, seq) = seq BY <1>1 DEF Intern
  <2>2. Len(seq) \in Nat OBVIOUS
  <2> QED BY <1>1, <2>1, <2>2
<1>2. CASE ~ Interned(x, seq)
  <2>1. PICK n \in Nat : n = Len(seq) BY LenProperties
  <2>2. PICK t \in Seq(X) : /\ t = Append(seq, x) /\ Len(t) = n + 1 /\ t[n + 1] = x
                            /\ \A i \in 1 .. n : t[i] = seq[i]
    <3>1. /\ Append(seq, x) \in Seq(X) /\ Len(Append(seq, x)) = Len(seq) + 1
          /\ \A i \in 1 .. Len(seq) : Append(seq, x)[i] = seq[i]
          /\ Append(seq, x)[Len(seq) + 1] = x
      BY AppendProperties
    <3> QED BY <2>1, <3>1
  <2>3. Intern(x, seq) = t BY <1>2, <2>2 DEF Intern
  <2>4. \A i \in 1 .. n : seq[i] # x BY <1>2, <2>1, InternedAt
  <2>5. \A i \in 1 .. n + 1 : i \in 1 .. n \/ i = n + 1 OBVIOUS
  <2>6. Unique(t)
    <3> SUFFICES ASSUME NEW i \in 1 .. n + 1, NEW j \in 1 .. n + 1, t[i] = t[j] PROVE i = j
      BY <2>2 DEF Unique
    <3>1. CASE i \in 1 .. n /\ j \in 1 .. n BY <2>1, <2>2, <3>1 DEF Unique
    <3>2. CASE i = n + 1 \/ j = n + 1 BY <2>2, <2>4, <2>5, <3>2
    <3> QED BY <2>5, <3>1, <3>2
  <2>7. ASSUME NEW y PROVE Interned(y, t) <=> Interned(y, seq) \/ y = x
    <3>0. Interned(y, t) <=> \E i \in 1 .. Len(t) : t[i] = y BY InternedAt
    <3>1. Interned(y, t) <=> \E i \in 1 .. n + 1 : t[i] = y BY <2>2, <3>0
    <3>2. Interned(y, seq) <=> \E i \in 1 .. n : seq[i] = y BY <2>1, InternedAt
    <3>3. n + 1 \in 1 .. n + 1 /\ \A i \in 1 .. n : i \in 1 .. n + 1 OBVIOUS
    <3> QED BY <2>2, <2>5, <3>1, <3>2, <3>3
  <2>8. ASSUME NEW y, Interned(y, seq) PROVE IdOf(y, t) = IdOf(y, seq)
    <3>1. PICK i \in 1 .. n : seq[i] = y BY <2>1, <2>8, InternedAt
    <3>2. t[i] = y /\ i \in 1 .. Len(t) BY <2>2, <3>1
    <3>3. IdOf(y, t) = i - 1 BY <2>6, <3>2, IdIs
    <3>4. IdOf(y, seq) = i - 1 BY <2>1, <3>1, IdIs
    <3> QED BY <3>3, <3>4
  <2>9. Len(t) >= Len(seq) BY <2>1, <2>2
  <2> QED BY <2>3, <2>6, <2>7, <2>8, <2>9
<1> QED BY <1>1, <1>2

\* A tail describes the events behind its column: the type of each, and the tags of each; and
\* every tag with a posting is interned.
Described(L, tail, base, l) ==
    /\ Interned(L[base + l].type, tail.types)
    /\ tail.column[l + 1] = IdOf(L[base + l].type, tail.types)
    /\ \A t \in Tag : l \in tail.postings[t] <=> t \in L[base + l].tags

Describes(L, tail, base) ==
    /\ tail.base = base
    /\ Unique(tail.types) /\ Unique(tail.terms)
    /\ \A l \in Nat : l < Len(tail.column) => Described(L, tail, base, l)
    /\ \A t \in Tag : tail.postings[t] # {} => Interned(t, tail.terms)

LEMMA EmptyTailDescribes ==
    ASSUME NEW base \in Nat
    PROVE  /\ EmptyTail(base) \in TailState
           /\ \A L : Describes(L, EmptyTail(base), base)
           /\ Len(EmptyTail(base).column) = 0
           /\ \A t \in Tag : EmptyTail(base).postings[t] = {}
<1>1. EmptyTail(base) \in TailState
  <2>1. [t \in Tag |-> {}] \in [Tag -> SUBSET Nat] /\ <<>> \in Seq(EventType)
        /\ <<>> \in Seq(Tag) /\ <<>> \in Seq(Nat)
    OBVIOUS
  <2> QED BY <2>1 DEF EmptyTail, TailState
<1>2. Len(<<>>) = 0 OBVIOUS
<1>3. Unique(<<>>) BY <1>2 DEF Unique
<1> QED BY <1>1, <1>2, <1>3 DEF EmptyTail, Describes

\* The three parts of a push.
LEMMA InternTypeIs ==
    ASSUME NEW tail \in TailState, NEW type \in EventType
    PROVE  /\ InternType(tail, type) \in TailState
           /\ InternType(tail, type).types = Intern(type, tail.types)
           /\ InternType(tail, type).base = tail.base
           /\ InternType(tail, type).column = tail.column
           /\ InternType(tail, type).terms = tail.terms
           /\ InternType(tail, type).postings = tail.postings
           /\ InternType(tail, type).unindexable = tail.unindexable
           /\ InternType(tail, type).reopened = tail.reopened
<1>1. Intern(type, tail.types) \in Seq(EventType)
  <2>1. tail.types \in Seq(EventType) BY DEF TailState
  <2>2. Append(tail.types, type) \in Seq(EventType) BY <2>1, AppendProperties
  <2> QED BY <2>1, <2>2 DEF Intern
<1>2. InternType(tail, type) = [tail EXCEPT !.types = Intern(type, tail.types)]
  BY DEF InternType, Intern
<1> QED BY <1>1, <1>2 DEF TailState

LEMMA PushTermIs ==
    ASSUME NEW tail \in TailState, NEW tag \in Tag
    PROVE  /\ PushTerm(tail, tag) \in TailState
           /\ PushTerm(tail, tag).terms = Intern(tag, tail.terms)
           /\ \A t \in Tag : \A l : l \in PushTerm(tail, tag).postings[t] <=>
                 l \in tail.postings[t] \/ (t = tag /\ l = Len(tail.column))
           /\ PushTerm(tail, tag).base = tail.base
           /\ PushTerm(tail, tag).types = tail.types
           /\ PushTerm(tail, tag).column = tail.column
           /\ PushTerm(tail, tag).unindexable = tail.unindexable
           /\ PushTerm(tail, tag).reopened = tail.reopened
<1>1. Intern(tag, tail.terms) \in Seq(Tag)
  <2>1. tail.terms \in Seq(Tag) BY DEF TailState
  <2>2. Append(tail.terms, tag) \in Seq(Tag) BY <2>1, AppendProperties
  <2> QED BY <2>1, <2>2 DEF Intern
<1>2. PICK n \in Nat : n = Len(tail.column) BY DEF TailState
<1>3. PICK ps : ps = [tail.postings EXCEPT ![tag] = @ \cup {n}] OBVIOUS
<1>4. ps \in [Tag -> SUBSET Nat] BY <1>2, <1>3 DEF TailState
<1>5. \A t \in Tag : \A l : l \in ps[t] <=> l \in tail.postings[t] \/ (t = tag /\ l = n)
  BY <1>3 DEF TailState
<1>6. PushTerm(tail, tag) = [tail EXCEPT !.terms = Intern(tag, tail.terms), !.postings = ps]
  BY <1>2, <1>3 DEF PushTerm, Intern, TailState
<1> QED BY <1>1, <1>2, <1>4, <1>5, <1>6 DEF TailState

LEMMA PushColumnIs ==
    ASSUME NEW tail \in TailState, NEW type, Interned(type, tail.types), Unique(tail.types)
    PROVE  /\ PushColumn(tail, type) \in TailState
           /\ PushColumn(tail, type).column = Append(tail.column, IdOf(type, tail.types))
           /\ PushColumn(tail, type).base = tail.base
           /\ PushColumn(tail, type).types = tail.types
           /\ PushColumn(tail, type).terms = tail.terms
           /\ PushColumn(tail, type).postings = tail.postings
           /\ PushColumn(tail, type).unindexable = tail.unindexable
           /\ PushColumn(tail, type).reopened = tail.reopened
<1>1. Append(tail.column, IdOf(type, tail.types)) \in Seq(Nat)
  <2>1. tail.types \in Seq(EventType) /\ tail.column \in Seq(Nat) BY DEF TailState
  <2>2. IdOf(type, tail.types) \in Nat BY <2>1, IdOfInterned
  <2> QED BY <2>1, <2>2, AppendProperties
<1> QED BY <1>1 DEF TailState, PushColumn

\* Each part of a push keeps what the tail knows; the column's last entry makes it know one event
\* more.
LEMMA TypeDescribes ==
    ASSUME NEW L, NEW base, NEW tail \in TailState, Describes(L, tail, base), NEW type \in EventType
    PROVE  /\ Describes(L, InternType(tail, type), base)
           /\ Interned(type, InternType(tail, type).types)
<1> DEFINE new == InternType(tail, type)
<1>1. PICK ts \in Seq(EventType) : ts = tail.types /\ Unique(ts)
  BY DEF TailState, Describes
<1>2. /\ Unique(Intern(type, ts)) /\ Interned(type, Intern(type, ts))
      /\ \A y : Interned(y, ts) => Interned(y, Intern(type, ts))
      /\ \A y : Interned(y, ts) => IdOf(y, Intern(type, ts)) = IdOf(y, ts)
  BY <1>1, InternKeeps
<1>3. /\ new.types = Intern(type, ts) /\ new.base = tail.base /\ new.column = tail.column
      /\ new.terms = tail.terms /\ new.postings = tail.postings
  BY <1>1, InternTypeIs
<1> HIDE DEF new
<1>4. ASSUME NEW l \in Nat, l < Len(new.column) PROVE Described(L, new, base, l)
  <2>1. Described(L, tail, base, l) BY <1>3, <1>4 DEF Describes
  <2> QED BY <1>1, <1>2, <1>3, <2>1 DEF Described
<1>5. Describes(L, new, base) BY <1>1, <1>2, <1>3, <1>4 DEF Describes
<1> QED BY <1>2, <1>3, <1>5 DEF new

LEMMA TermDescribes ==
    ASSUME NEW L, NEW base, NEW tail \in TailState, Describes(L, tail, base), NEW tag \in Tag
    PROVE  Describes(L, PushTerm(tail, tag), base)
<1> DEFINE new == PushTerm(tail, tag)
<1>1. PICK ts \in Seq(Tag) : ts = tail.terms /\ Unique(ts) BY DEF TailState, Describes
<1>2. /\ Unique(Intern(tag, ts))
      /\ \A y : Interned(y, Intern(tag, ts)) <=> Interned(y, ts) \/ y = tag
  BY <1>1, InternKeeps
<1>3. PICK n \in Nat : n = Len(tail.column) BY DEF TailState
<1>4. /\ new.terms = Intern(tag, ts) /\ new.base = tail.base /\ new.column = tail.column
      /\ new.types = tail.types
      /\ \A t \in Tag : \A l : l \in new.postings[t] <=> l \in tail.postings[t] \/ (t = tag /\ l = n)
  BY <1>1, <1>3, PushTermIs
<1> HIDE DEF new
<1>5. ASSUME NEW l \in Nat, l < Len(new.column) PROVE Described(L, new, base, l)
  <2>1. Described(L, tail, base, l) BY <1>4, <1>5 DEF Describes
  <2>2. \A t \in Tag : l \in new.postings[t] <=> l \in tail.postings[t]
    BY <1>3, <1>4, <1>5
  <2> QED BY <1>4, <2>1, <2>2 DEF Described
<1>6. \A t \in Tag : new.postings[t] # {} => Interned(t, new.terms)
  BY <1>1, <1>2, <1>4 DEF Describes
<1>7. Describes(L, new, base) BY <1>1, <1>2, <1>4, <1>5, <1>6 DEF Describes
<1> QED BY <1>7 DEF new

LEMMA ColumnDescribes ==
    ASSUME NEW L, NEW base, NEW tail \in TailState, Describes(L, tail, base),
           NEW n \in Nat, n = Len(tail.column), NEW event, event = L[base + n],
           Interned(event.type, tail.types),
           \A t \in Tag : n \in tail.postings[t] <=> t \in event.tags
    PROVE  /\ Describes(L, PushColumn(tail, event.type), base)
           /\ Len(PushColumn(tail, event.type).column) = n + 1
<1> DEFINE new == PushColumn(tail, event.type)
<1>1. Unique(tail.types) BY DEF Describes
<1>2. PICK id \in Nat : id = IdOf(event.type, tail.types)
  <2>1. tail.types \in Seq(EventType) BY DEF TailState
  <2> QED BY <1>1, <2>1, IdOfInterned
<1>3. PICK c \in Seq(Nat) : c = tail.column BY DEF TailState
<1>4. /\ Len(Append(c, id)) = n + 1 /\ Append(c, id)[n + 1] = id
      /\ \A i \in 1 .. n : Append(c, id)[i] = c[i]
  <2>1. /\ Len(Append(c, id)) = Len(c) + 1 /\ Append(c, id)[Len(c) + 1] = id
        /\ \A i \in 1 .. Len(c) : Append(c, id)[i] = c[i]
    BY AppendProperties
  <2> QED BY <1>3, <2>1
<1>5. /\ new.column = Append(c, id) /\ new.base = tail.base /\ new.types = tail.types
      /\ new.terms = tail.terms /\ new.postings = tail.postings
  BY <1>1, <1>2, <1>3, PushColumnIs
<1> HIDE DEF new
<1>6. ASSUME NEW l \in Nat, l < Len(new.column) PROVE Described(L, new, base, l)
  <2>1. CASE l < n
    <3>1. Described(L, tail, base, l) BY <2>1 DEF Describes
    <3>2. l + 1 \in 1 .. n BY <2>1
    <3>3. new.column[l + 1] = tail.column[l + 1] BY <1>3, <1>4, <1>5, <3>2
    <3> QED BY <1>5, <3>1, <3>3 DEF Described
  <2>2. CASE l = n
    <3>1. new.column[l + 1] = id BY <1>4, <1>5, <2>2
    <3> QED BY <1>2, <1>5, <2>2, <3>1 DEF Described
  <2>3. l < n + 1 BY <1>4, <1>5, <1>6
  <2> QED BY <2>1, <2>2, <2>3
<1>7. Describes(L, new, base) BY <1>5, <1>6 DEF Describes
<1> QED BY <1>4, <1>5, <1>7 DEF new

\* The tags of an event, folded in.
Tagged(L, base, tail, v, s) ==
    /\ v \in TailState /\ Describes(L, v, base)
    /\ v.column = tail.column /\ v.types = tail.types
    /\ v.unindexable = tail.unindexable /\ v.reopened = tail.reopened
    /\ \A t \in Tag : \A l : l \in v.postings[t] <=>
          l \in tail.postings[t] \/ (t \in s /\ l = Len(tail.column))

LEMMA TaggedOne ==
    ASSUME NEW L, NEW base, NEW tail, NEW s, NEW x \in Tag, x \in s,
           NEW v, Tagged(L, base, tail, v, s \ {x})
    PROVE  Tagged(L, base, tail, PushTerm(v, x), s)
<1>1. v \in TailState /\ Describes(L, v, base) BY DEF Tagged
<1>2. /\ PushTerm(v, x) \in TailState
      /\ PushTerm(v, x).column = v.column /\ PushTerm(v, x).types = v.types
      /\ PushTerm(v, x).unindexable = v.unindexable
      /\ PushTerm(v, x).reopened = v.reopened
      /\ \A t \in Tag : \A l : l \in PushTerm(v, x).postings[t] <=>
            l \in v.postings[t] \/ (t = x /\ l = Len(v.column))
  BY <1>1, PushTermIs
<1>3. Describes(L, PushTerm(v, x), base) BY <1>1, TermDescribes
<1>4. ASSUME NEW t \in Tag, NEW l
      PROVE  l \in PushTerm(v, x).postings[t] <=>
                l \in tail.postings[t] \/ (t \in s /\ l = Len(tail.column))
  <2>1. l \in v.postings[t] <=> l \in tail.postings[t] \/ (t \in s \ {x} /\ l = Len(tail.column))
    BY DEF Tagged
  <2>2. v.column = tail.column BY DEF Tagged
  <2> QED BY <1>2, <2>1, <2>2
<1> QED BY <1>2, <1>3, <1>4 DEF Tagged

PushedOnto(g, tail, s) ==
    IF s = {} THEN tail
    ELSE PushTerm(g[s \ {CHOOSE x \in s : TRUE}], CHOOSE x \in s : TRUE)

LEMMA TermsExist ==
    ASSUME NEW tail \in TailState, NEW S, S \subseteq Tag, IsFiniteSet(S)
    PROVE  \E g : g = [s \in SUBSET S |-> PushedOnto(g, tail, s)]
<1> DEFINE pick == [s \in SUBSET S |-> CHOOSE x \in s : TRUE]
<1> DEFINE step == [p \in TailState \X S |-> PushTerm(p[1], p[2])]
<1>2. \A s \in SUBSET S : s # {} => pick[s] \in s OBVIOUS
<1>3. step \in [TailState \X S -> TailState] BY PushTermIs
<1>4. \A v \in TailState : \A x \in S : step[<<v, x>>] = PushTerm(v, x) OBVIOUS
<1>5. \E g \in [SUBSET S -> TailState] : \A s \in SUBSET S :
          g[s] = IF s = {} THEN tail ELSE step[<<g[s \ {pick[s]}], pick[s]>>]
  <2>1. PICK V : V = TailState OBVIOUS
  <2>2. PICK pk : pk = pick OBVIOUS
  <2>3. PICK st \in [V \X S -> V] : st = step BY <1>3, <2>1
  <2>4. \A s \in SUBSET S : s # {} => pk[s] \in s BY <1>2, <2>2
  <2>5. tail \in V BY <2>1
  <2>6. Foldable(S, V, tail, st, pk) BY <2>4, <2>5, SubsetRecursion
  <2> HIDE DEF pick, step
  <2> QED BY <2>1, <2>2, <2>3, <2>6 DEF Foldable, Folded
<1>6. ASSUME NEW g \in [SUBSET S -> TailState], NEW s \in SUBSET S
      PROVE  (IF s = {} THEN tail ELSE step[<<g[s \ {pick[s]}], pick[s]>>]) = PushedOnto(g, tail, s)
  <2>1. CASE s # {}
    <3>1. pick[s] \in S /\ pick[s] = CHOOSE x \in s : TRUE BY <1>2, <2>1
    <3>2. s \ {pick[s]} \in SUBSET S /\ g[s \ {pick[s]}] \in TailState OBVIOUS
    <3>3. step[<<g[s \ {pick[s]}], pick[s]>>] = PushTerm(g[s \ {pick[s]}], pick[s])
      <4> HIDE DEF step, pick
      <4> QED BY <1>4, <3>1, <3>2
    <3> HIDE DEF step
    <3> QED BY <2>1, <3>1, <3>3 DEF PushedOnto
  <2> QED BY <2>1 DEF PushedOnto
<1> HIDE DEF pick, step
<1>7. PICK g \in [SUBSET S -> TailState] : \A s \in SUBSET S : g[s] = PushedOnto(g, tail, s)
  BY <1>5, <1>6
<1>8. g = [s \in SUBSET S |-> PushedOnto(g, tail, s)] BY <1>7
<1> QED BY <1>8

LEMMA TermsTagged ==
    ASSUME NEW L, NEW base, NEW tail \in TailState, Describes(L, tail, base),
           NEW S, S \subseteq Tag, IsFiniteSet(S), NEW g,
           \A s \in SUBSET S : g[s] = PushedOnto(g, tail, s)
    PROVE  Tagged(L, base, tail, g[S], S)
<1> DEFINE T == {n \in Nat : \A s \in SUBSET S : Cardinality(s) = n => Tagged(L, base, tail, g[s], s)}
<1>9. \A s \in SUBSET S : IsFiniteSet(s) /\ Cardinality(s) \in Nat /\ (Cardinality(s) = 0 <=> s = {})
  BY FS_Subset, FS_CardinalityType, FS_EmptySet
<1>10. \A s \in SUBSET S : g[s] = PushedOnto(g, tail, s) OBVIOUS
<1>11. 0 \in T
  <2>1. Tagged(L, base, tail, tail, {}) BY DEF Tagged
  <2>2. g[{}] = tail BY <1>10 DEF PushedOnto
  <2> QED BY <1>9, <2>1, <2>2
<1>12. ASSUME NEW n \in Nat, n \in T PROVE n + 1 \in T
  <2> SUFFICES ASSUME NEW s \in SUBSET S, Cardinality(s) = n + 1
               PROVE  Tagged(L, base, tail, g[s], s)
    OBVIOUS
  <2>1. s # {} BY <1>9
  <2>2. PICK x \in S : x \in s /\ x = CHOOSE y \in s : TRUE BY <2>1
  <2>3. PICK u \in SUBSET S : u = s \ {x} OBVIOUS
  <2>4. Cardinality(u) = n
    <3>1. IsFiniteSet(s) BY <1>9
    <3>2. Cardinality(s \ {x}) = Cardinality(s) - 1 BY <2>2, <3>1, FS_RemoveElement
    <3> QED BY <2>3, <3>2
  <2>5. Tagged(L, base, tail, g[u], u) BY <1>12, <2>4
  <2>6. g[s] = PushTerm(g[u], x) BY <1>10, <2>1, <2>2, <2>3 DEF PushedOnto
  <2>7. x \in Tag /\ Tagged(L, base, tail, g[u], s \ {x}) BY <2>3, <2>5
  <2>8. Tagged(L, base, tail, PushTerm(g[u], x), s) BY <2>2, <2>7, TaggedOne
  <2> QED BY <2>6, <2>8
<1>13. PICK n \in Nat : n = Cardinality(S) BY FS_CardinalityType
<1>14. n \in T
  <2> HIDE DEF T
  <2>1. \A i \in 0 .. n : i \in T BY <1>11, <1>12, UpTo
  <2> QED BY <2>1
<1> QED BY <1>13, <1>14

LEMMA TermsDescribe ==
    ASSUME NEW L, NEW base, NEW tail \in TailState, Describes(L, tail, base),
           NEW S, S \subseteq Tag, IsFiniteSet(S)
    PROVE  Tagged(L, base, tail, FoldSet(LAMBDA tag, t : PushTerm(t, tag), tail, S), S)
<1> DEFINE F(g) == g = [s \in SUBSET S |-> PushedOnto(g, tail, s)]
<1>1. FoldSet(LAMBDA tag, t : PushTerm(t, tag), tail, S) = (CHOOSE g : F(g))[S]
  BY DEF FoldSet, MapThenFoldSet, PushedOnto
<1>2. \E g : F(g) BY TermsExist
<1>3. F(CHOOSE g : F(g))
  <2> HIDE DEF F
  <2> QED BY <1>2
<1>4. PICK h : h = CHOOSE g : F(g) OBVIOUS
<1>5. \A s \in SUBSET S : h[s] = PushedOnto(h, tail, s) BY <1>3, <1>4
<1>6. Tagged(L, base, tail, h[S], S) BY <1>5, TermsTagged
<1> HIDE DEF F
<1> QED BY <1>1, <1>4, <1>6

\* A tail that knows the first n events of its segment, and nothing else.
Knows(L, tail, base, n) ==
    /\ tail \in TailState /\ Describes(L, tail, base)
    /\ Len(tail.column) = n
    /\ \A t \in Tag : \A l \in tail.postings[t] : l < n

LEMMA TailPushKnows ==
    ASSUME NEW L, NEW base, NEW n \in Nat, NEW tail, Knows(L, tail, base, n),
           NEW event \in Event, event = L[base + n], IsFiniteSet(event.tags)
    PROVE  /\ Knows(L, TailPush(tail, event), base, n + 1)
           /\ TailPush(tail, event).unindexable = tail.unindexable
           /\ TailPush(tail, event).reopened = tail.reopened
<1>1. tail \in TailState /\ Describes(L, tail, base) /\ Len(tail.column) = n BY DEF Knows
<1>2. event.type \in EventType /\ event.tags \subseteq Tag BY DEF Event
<1>3. PICK typed \in TailState : typed = InternType(tail, event.type)
  BY <1>1, <1>2, InternTypeIs
<1>4. /\ Describes(L, typed, base) /\ Interned(event.type, typed.types)
      /\ typed.column = tail.column /\ typed.postings = tail.postings
      /\ typed.unindexable = tail.unindexable /\ typed.reopened = tail.reopened
  BY <1>1, <1>2, <1>3, InternTypeIs, TypeDescribes
<1>5. PICK tagged : tagged = FoldSet(LAMBDA tag, t : PushTerm(t, tag), typed, event.tags)
  OBVIOUS
<1>6. Tagged(L, base, typed, tagged, event.tags) BY <1>2, <1>4, <1>5, TermsDescribe
<1>7. TailPush(tail, event) = PushColumn(tagged, event.type) BY <1>3, <1>5 DEF TailPush
<1>8. /\ tagged \in TailState /\ Describes(L, tagged, base)
      /\ tagged.column = tail.column /\ Interned(event.type, tagged.types)
      /\ Unique(tagged.types)
      /\ tagged.unindexable = tail.unindexable /\ tagged.reopened = tail.reopened
  BY <1>4, <1>6 DEF Tagged, Describes
<1>9. \A t \in Tag : \A l : l \in tagged.postings[t] <=>
          l \in tail.postings[t] \/ (t \in event.tags /\ l = n)
  BY <1>1, <1>4, <1>6 DEF Tagged
<1>10. \A t \in Tag : n \notin tail.postings[t] BY DEF Knows
<1>11. \A t \in Tag : n \in tagged.postings[t] <=> t \in event.tags BY <1>9, <1>10
<1>12. n = Len(tagged.column) BY <1>1, <1>8
<1>13. /\ Describes(L, PushColumn(tagged, event.type), base)
       /\ Len(PushColumn(tagged, event.type).column) = n + 1
  BY <1>8, <1>11, <1>12, ColumnDescribes
<1>14. /\ PushColumn(tagged, event.type) \in TailState
       /\ PushColumn(tagged, event.type).postings = tagged.postings
       /\ PushColumn(tagged, event.type).unindexable = tail.unindexable
       /\ PushColumn(tagged, event.type).reopened = tail.reopened
  BY <1>8, PushColumnIs
<1>15. \A t \in Tag : \A l \in tagged.postings[t] : l < n + 1
  <2>1. \A t \in Tag : \A l \in tail.postings[t] : l \in Nat /\ l < n
    BY DEF Knows, TailState
  <2> QED BY <1>9, <2>1
<1> QED BY <1>7, <1>13, <1>14, <1>15 DEF Knows

\* What a rebuild has after n events of the segment.
Rebuilt(L, built, base, n) ==
    /\ built \in [index : TailState, unindexable : BOOLEAN]
    /\ ~ built.index.unindexable
    /\ built.index.reopened = built.unindexable
    /\ \E m \in 0 .. n : Knows(L, built.index, base, m) /\ (~ built.unindexable => m = n)

LEMMA FeedRebuilds ==
    ASSUME NEW L, NEW base, NEW n \in Nat, NEW built, Rebuilt(L, built, base, n),
           NEW event \in Event, event = L[base + n], IsFiniteSet(event.tags)
    PROVE  Rebuilt(L, Feed(built, event), base, n + 1)
<1>1. CASE built.unindexable
  <2>1. Feed(built, event) = built BY <1>1 DEF Feed
  <2>2. \A m \in 0 .. n : m \in 0 .. n + 1 OBVIOUS
  <2> QED BY <1>1, <2>1, <2>2 DEF Rebuilt
<1>2. CASE ~ built.unindexable
  <2>1. Knows(L, built.index, base, n) /\ ~ built.index.unindexable /\ ~ built.index.reopened
    BY <1>2 DEF Rebuilt
  <2>2. built \in [index : TailState, unindexable : BOOLEAN] /\ built.unindexable = FALSE
    BY <1>2 DEF Rebuilt
  <2>3. CASE TypeFits(built.index, event.type)
    <3>1. PICK tail : tail = TailPush(built.index, event) OBVIOUS
    <3>2. Knows(L, tail, base, n + 1) /\ ~ tail.unindexable /\ ~ tail.reopened
      BY <2>1, <3>1, TailPushKnows
    <3>3. Feed(built, event) = [index |-> tail, unindexable |-> FALSE]
      <4>1. Feed(built, event) = [built EXCEPT !.index = tail]
        BY <1>2, <2>3, <3>1 DEF Feed
      <4> QED BY <2>2, <4>1
    <3>4. n + 1 \in 0 .. n + 1 OBVIOUS
    <3>5. tail.reopened = FALSE
      <4>1. tail.reopened \in BOOLEAN BY <3>2 DEF Knows, TailState
      <4> QED BY <3>2, <4>1
    <3>6. PICK new : new = Feed(built, event) OBVIOUS
    <3>7. /\ new \in [index : TailState, unindexable : BOOLEAN] /\ new.index = tail
          /\ new.unindexable = FALSE
      BY <3>2, <3>3, <3>6 DEF Knows
    <3>8. Rebuilt(L, new, base, n + 1) BY <3>2, <3>4, <3>5, <3>7 DEF Rebuilt
    <3> QED BY <3>6, <3>8
  <2>4. CASE ~ TypeFits(built.index, event.type)
    <3>1. PICK tail : tail = [built.index EXCEPT !.reopened = TRUE] OBVIOUS
    <3>2. Feed(built, event) = [index |-> tail, unindexable |-> TRUE]
      <4>1. PICK latch : latch = [built EXCEPT !.unindexable = TRUE] OBVIOUS
      <4>2. latch \in [index : TailState, unindexable : BOOLEAN]
            /\ latch.index = built.index /\ latch.unindexable = TRUE
        BY <2>2, <4>1
      <4>3. Feed(built, event) = [latch EXCEPT !.index = [latch.index EXCEPT !.reopened = TRUE]]
        BY <1>2, <2>4, <4>1 DEF Feed
      <4>4. Feed(built, event) = [latch EXCEPT !.index = tail] BY <3>1, <4>2, <4>3
      <4> QED BY <4>2, <4>4
    <3>3. /\ tail \in TailState /\ tail.base = built.index.base /\ tail.types = built.index.types
          /\ tail.terms = built.index.terms /\ tail.column = built.index.column
          /\ tail.postings = built.index.postings
          /\ tail.unindexable = built.index.unindexable /\ tail.reopened = TRUE
      BY <2>1, <3>1 DEF Knows, TailState
    <3>4. Knows(L, tail, base, n) BY <2>1, <3>3 DEF Knows, Describes, Described
    <3>5. n \in 0 .. n + 1 OBVIOUS
    <3>6. PICK new : new = Feed(built, event) OBVIOUS
    <3>7. /\ new \in [index : TailState, unindexable : BOOLEAN] /\ new.index = tail
          /\ new.unindexable = TRUE
      BY <3>2, <3>3, <3>6
    <3>8. Rebuilt(L, new, base, n + 1) BY <2>1, <3>3, <3>4, <3>5, <3>7 DEF Rebuilt
    <3> QED BY <3>6, <3>8
  <2> QED BY <2>3, <2>4
<1> QED BY <1>1, <1>2

FedOnto(g, q, start, s) == IF s = {} THEN start ELSE Feed(g[s \ {Max(s)}], q[Max(s)])

Feeding(g, q, start, m) == g = [s \in SUBSET (1 .. m) |-> FedOnto(g, q, start, s)]

LEMMA FeedExists ==
    ASSUME NEW m \in Nat, NEW q, NEW start
    PROVE  \E g : Feeding(g, q, start, m)
<1> DEFINE S == 1 .. m
<1> DEFINE Upto(g, n) == \A s \in SUBSET S : Cardinality(s) <= n => g[s] = FedOnto(g, q, start, s)
<1> DEFINE T == {n \in Nat : \E g : Upto(g, n)}
<1>0. /\ IsFiniteSet(S)
      /\ \A s \in SUBSET S : IsFiniteSet(s) /\ Cardinality(s) \in Nat /\ (Cardinality(s) = 0 <=> s = {})
  <2>1. IsFiniteSet(S) BY FS_Interval
  <2> HIDE DEF S
  <2> QED BY <2>1, FS_Subset, FS_CardinalityType, FS_EmptySet
<1>00. ASSUME NEW s \in SUBSET S, s # {}
       PROVE  Max(s) \in s /\ s \ {Max(s)} \in SUBSET S
              /\ Cardinality(s \ {Max(s)}) = Cardinality(s) - 1
  <2>1. s \subseteq Nat /\ \A x \in s : x <= m OBVIOUS
  <2>2. Max(s) \in s BY <1>00, <2>1, MaxIsGreatest
  <2>3. IsFiniteSet(s) BY <1>0
  <2>4. Cardinality(s \ {Max(s)}) = Cardinality(s) - 1
    BY ONLY <2>2, <2>3, FS_RemoveElement
  <2> QED BY <2>2, <2>4
<1> HIDE DEF S
<1>1. 0 \in T
  <2> DEFINE g == [s \in SUBSET S |-> start]
  <2>1. \A s \in SUBSET S : Cardinality(s) <= 0 => s = {} BY <1>0
  <2>2. Upto(g, 0) BY <2>1 DEF FedOnto
  <2> HIDE DEF g
  <2> QED BY <2>2
<1>2. ASSUME NEW n \in Nat, n \in T PROVE n + 1 \in T
  <2>1. PICK f : Upto(f, n) BY <1>2
  <2> DEFINE g == [s \in SUBSET S |-> FedOnto(f, q, start, s)]
  <2>4. ASSUME NEW s \in SUBSET S, Cardinality(s) <= n + 1 PROVE g[s] = FedOnto(g, q, start, s)
    <3>1. CASE s = {} BY <3>1 DEF FedOnto
    <3>2. CASE s # {}
      <4>1. PICK u \in SUBSET S : u = s \ {Max(s)} /\ Cardinality(u) = Cardinality(s) - 1
        BY <1>00, <3>2
      <4>2. Cardinality(u) <= n BY <1>0, <2>4, <4>1
      <4>3. f[u] = FedOnto(f, q, start, u) BY <2>1, <4>2
      <4>4. g[u] = f[u] BY <4>3
      <4>5. g[s] = Feed(f[u], q[Max(s)]) BY <3>2, <4>1 DEF FedOnto
      <4>6. FedOnto(g, q, start, s) = Feed(g[u], q[Max(s)])
        <5> HIDE DEF g
        <5> QED BY <3>2, <4>1 DEF FedOnto
      <4> HIDE DEF g
      <4> QED BY <4>4, <4>5, <4>6
    <3> QED BY <3>1, <3>2
  <2> HIDE DEF g
  <2> QED BY <2>4
<1>3. PICK n \in Nat : n = Cardinality(S) BY <1>0, FS_CardinalityType
<1>4. n \in T
  <2> HIDE DEF T
  <2>1. \A i \in 0 .. n : i \in T BY <1>1, <1>2, UpTo
  <2> QED BY <2>1
<1>5. PICK g : Upto(g, n) BY <1>4
<1>6. \A s \in SUBSET S : Cardinality(s) <= n BY <1>0, <1>3, FS_Subset
<1>7. \A s \in SUBSET S : g[s] = FedOnto(g, q, start, s) BY <1>5, <1>6
<1> DEFINE h == [s \in SUBSET S |-> g[s]]
<1>8. \A s \in SUBSET S : FedOnto(h, q, start, s) = g[s]
  <2> SUFFICES ASSUME NEW s \in SUBSET S PROVE FedOnto(h, q, start, s) = g[s]
    OBVIOUS
  <2>1. s # {} => h[s \ {Max(s)}] = g[s \ {Max(s)}] BY <1>00
  <2> HIDE DEF h
  <2> QED BY <1>7, <2>1 DEF FedOnto
<1>9. h = [s \in SUBSET S |-> FedOnto(h, q, start, s)]
  <2>1. [s \in SUBSET S |-> FedOnto(h, q, start, s)] = [s \in SUBSET S |-> g[s]]
    <3> HIDE DEF h
    <3> QED BY <1>8
  <2> QED BY <2>1
<1> HIDE DEF h
<1> QED BY <1>9 DEF S, Feeding

LEMMA FeedsRebuild ==
    ASSUME NEW L, NEW base \in Nat, NEW m \in Nat, NEW q, Len(q) = m, DOMAIN q = 1 .. m,
           \A i \in 1 .. m : q[i] = L[base + (i - 1)] /\ q[i] \in Event /\ IsFiniteSet(q[i].tags)
    PROVE  Rebuilt(L, FoldLeft(Feed, [index |-> EmptyTail(base), unindexable |-> FALSE], q), base, m)
<1> DEFINE start == [index |-> EmptyTail(base), unindexable |-> FALSE]
<1> DEFINE F(g) == g = [s \in SUBSET (1 .. m) |-> FedOnto(g, q, start, s)]
<1>1. FoldLeft(Feed, start, q) = (CHOOSE g : F(g))[1 .. m]
  BY DEF FoldLeft, MapThenFoldSet, FedOnto
<1>2. \E g : F(g)
  <2>1. \E g : Feeding(g, q, start, m)
    <3> HIDE DEF start
    <3> QED BY FeedExists
  <2> QED BY <2>1 DEF Feeding
<1>3. F(CHOOSE g : F(g))
  <2> HIDE DEF F
  <2> QED BY <1>2
<1>4. PICK g : g = CHOOSE h : F(h) OBVIOUS
<1>5. \A s \in SUBSET (1 .. m) : g[s] = FedOnto(g, q, start, s)
  <2> HIDE DEF start
  <2> QED BY <1>3, <1>4
<1>6. Rebuilt(L, start, base, 0)
  <2>1. Knows(L, EmptyTail(base), base, 0) BY EmptyTailDescribes DEF Knows
  <2>2. 0 \in 0 .. 0 OBVIOUS
  <2>3. PICK tail \in TailState : tail = EmptyTail(base) /\ ~ tail.unindexable /\ tail.reopened = FALSE
    BY EmptyTailDescribes DEF EmptyTail
  <2>4. PICK new : new = start OBVIOUS
  <2>5. /\ new \in [index : TailState, unindexable : BOOLEAN] /\ new.index = tail
        /\ new.unindexable = FALSE
    BY <2>3, <2>4
  <2>6. Rebuilt(L, new, base, 0) BY <2>1, <2>2, <2>3, <2>5 DEF Rebuilt
  <2> HIDE DEF start
  <2> QED BY <2>4, <2>6
<1> HIDE DEF F, start
<1> DEFINE T == {i \in Nat : Rebuilt(L, g[1 .. i], base, i)}
<1>7. 0 \in T
  <2>1. 1 .. 0 = {} /\ {} \in SUBSET (1 .. m) OBVIOUS
  <2>2. g[1 .. 0] = start BY <1>5, <2>1 DEF FedOnto
  <2> QED BY <1>6, <2>2
<1>8. ASSUME NEW i \in Nat, i < m, i \in T PROVE i + 1 \in T
  <2>1. /\ 1 .. i + 1 \in SUBSET (1 .. m) /\ 1 .. i + 1 # {}
        /\ i + 1 \in 1 .. m /\ (i + 1) - 1 = i
    BY ONLY <1>8, i \in Nat, m \in Nat
  <2>2. Max(1 .. i + 1) = i + 1
    <3>1. \E x \in 1 .. i + 1 : \A y \in 1 .. i + 1 : x >= y OBVIOUS
    <3>2. Max(1 .. i + 1) \in 1 .. i + 1 /\ \A y \in 1 .. i + 1 : Max(1 .. i + 1) >= y
      BY <3>1 DEF Max
    <3> QED BY <3>2
  <2>3. (1 .. i + 1) \ {i + 1} = 1 .. i OBVIOUS
  <2>4. g[1 .. i + 1] = Feed(g[1 .. i], q[i + 1]) BY <1>5, <2>1, <2>2, <2>3 DEF FedOnto
  <2>5. PICK event \in Event : event = q[i + 1] /\ event = L[base + i] /\ IsFiniteSet(event.tags)
    BY <2>1
  <2>6. Rebuilt(L, g[1 .. i], base, i) BY <1>8
  <2>7. Rebuilt(L, Feed(g[1 .. i], event), base, i + 1) BY <2>5, <2>6, FeedRebuilds
  <2> QED BY <2>4, <2>5, <2>7
<1>9. m \in T
  <2> HIDE DEF T
  <2>1. \A i \in 0 .. m : i \in T BY <1>7, <1>8, UpTo
  <2> QED BY <2>1
<1>10. Rebuilt(L, FoldLeft(Feed, start, q), base, m) BY <1>1, <1>4, <1>9
<1> QED BY <1>10 DEF start

--------------------
\* What a search finds, in the tail itself and through the ids and posting lists a reader probed
\* one by one. An id the reader did not find is one of a type that no event it looks at has.
SeesType(L, index, tail, base, type) ==
    \/ /\ index.ids[type] = NoId
       /\ \A l \in Nat : l < index.len => L[base + l].type # type
    \/ /\ Interned(type, tail.types)
       /\ index.ids[type] = IdOf(type, tail.types)

SeesTag(L, index, base, tag) ==
    \A l \in Nat : l < index.len => (l \in index.posts[tag] <=> tag \in L[base + l].tags)

Sees(L, index, tail, base, item) ==
    /\ \A type \in item.types : SeesType(L, index, tail, base, type)
    /\ \A tag \in item.tags : SeesTag(L, index, base, tag)

LEMMA ItemFound ==
    ASSUME NEW L, NEW base, NEW tail \in TailState, Describes(L, tail, base),
           NEW index, index.len \in Nat, index.len <= Len(tail.column),
           NEW item \in QueryItem, Sees(L, index, tail, base, item)
    PROVE  \A l : l \in ItemLocals(index, tail, item) <=>
                     l \in Nat /\ l < index.len /\ ItemMatches(item, L[base + l])
<1> DEFINE ids == {index.ids[t] : t \in item.types} \ {NoId}
<1>1. \A l : l \in 0 .. (index.len - 1) <=> l \in Nat /\ l < index.len BY SMT
<1>2. ASSUME NEW l \in Nat, l < index.len
      PROVE  ColumnAt(tail, l) \in ids <=> L[base + l].type \in item.types
  <2>1. Described(L, tail, base, l) /\ Len(tail.column) \in Nat /\ l < Len(tail.column)
    <3>1. Len(tail.column) \in Nat BY DEF TailState
    <3>2. l < Len(tail.column) BY <1>2, <3>1
    <3> QED BY <3>1, <3>2 DEF Describes
  <2>2. PICK type : type = L[base + l].type OBVIOUS
  <2>3. tail.types \in Seq(EventType) /\ Unique(tail.types) BY DEF Describes, TailState
  <2>4. /\ ColumnAt(tail, l) = IdOf(type, tail.types) /\ Interned(type, tail.types)
        /\ IdOf(type, tail.types) \in Nat
        /\ tail.types[IdOf(type, tail.types) + 1] = type
    BY <2>1, <2>2, <2>3, IdOfInterned DEF ColumnAt, Described
  <2>5. ASSUME type \in item.types PROVE ColumnAt(tail, l) \in ids
    <3>1. SeesType(L, index, tail, base, type) BY <2>5 DEF Sees
    <3>2. index.ids[type] = IdOf(type, tail.types) BY <1>2, <2>2, <3>1 DEF SeesType
    <3>3. index.ids[type] # NoId BY <2>4, <3>2 DEF NoId
    <3> QED BY <2>4, <2>5, <3>2, <3>3
  <2>6. ASSUME ColumnAt(tail, l) \in ids PROVE type \in item.types
    <3>1. PICK t \in item.types : index.ids[t] = IdOf(type, tail.types) /\ index.ids[t] # NoId
      BY <2>4, <2>6
    <3>2. SeesType(L, index, tail, base, t) BY DEF Sees
    <3>3. Interned(t, tail.types) /\ index.ids[t] = IdOf(t, tail.types)
      BY <3>1, <3>2 DEF SeesType
    <3>4. tail.types[IdOf(t, tail.types) + 1] = t BY <2>3, <3>3, IdOfInterned
    <3> QED BY <2>4, <3>1, <3>3, <3>4
  <2> QED BY <2>2, <2>5, <2>6
<1>3. ASSUME NEW l \in Nat, l < index.len
      PROVE  (\A t \in item.tags : l \in index.posts[t]) <=> item.tags \subseteq L[base + l].tags
  BY <1>3 DEF Sees, SeesTag
<1>4. ASSUME NEW l
      PROVE  l \in ItemLocals(index, tail, item) <=>
                /\ l \in Nat /\ l < index.len
                /\ item.types = {} \/ ColumnAt(tail, l) \in ids
                /\ \A t \in item.tags : l \in index.posts[t]
  BY <1>1 DEF ItemLocals
<1> HIDE DEF ids
<1> QED BY <1>2, <1>3, <1>4 DEF ItemMatches

LEMMA SearchFinds ==
    ASSUME NEW L, NEW base \in Nat, NEW tail \in TailState, Describes(L, tail, base),
           NEW index, index.base = base, index.len \in Nat, index.len <= Len(tail.column),
           NEW query \in Query, \A item \in query.items : Sees(L, index, tail, base, item)
    PROVE  \A p : p \in Search(index, tail, query) <=>
                     p \in Nat /\ base <= p /\ p < base + index.len /\ Matches(query, L[p])
<1>1. \A l : l \in LocalMatches(index, tail, query) <=>
                l \in Nat /\ l < index.len /\ Matches(query, L[base + l])
  <2>1. CASE query.all
    <3>1. \A l : l \in 0 .. (index.len - 1) <=> l \in Nat /\ l < index.len BY SMT
    <3> QED BY <2>1, <3>1 DEF LocalMatches, Matches
  <2>2. CASE ~ query.all
    <3>1. ASSUME NEW item \in query.items, NEW l
          PROVE  l \in ItemLocals(index, tail, item) <=>
                    l \in Nat /\ l < index.len /\ ItemMatches(item, L[base + l])
      <4>1. item \in QueryItem /\ Sees(L, index, tail, base, item) BY DEF Query
      <4> QED BY <4>1, ItemFound
    <3>2. ASSUME NEW l
          PROVE  l \in LocalMatches(index, tail, query) <=>
                    \E item \in query.items : l \in ItemLocals(index, tail, item)
      BY <2>2 DEF LocalMatches
    <3> QED BY <2>2, <3>1, <3>2 DEF Matches
  <2> QED BY <2>1, <2>2
<1>2. ASSUME NEW p
      PROVE  p \in Search(index, tail, query) <=>
                \E l \in LocalMatches(index, tail, query) : p = base + l
  BY DEF Search
<1>3. ASSUME NEW p, p \in Search(index, tail, query)
      PROVE  p \in Nat /\ base <= p /\ p < base + index.len /\ Matches(query, L[p])
  <2>1. PICK l \in LocalMatches(index, tail, query) : p = base + l BY <1>2, <1>3
  <2>2. l \in Nat /\ l < index.len /\ Matches(query, L[base + l]) BY <1>1
  <2> QED BY <2>1, <2>2
<1>4. ASSUME NEW p, p \in Nat, base <= p, p < base + index.len, Matches(query, L[p])
      PROVE  p \in Search(index, tail, query)
  <2>1. PICK l \in Nat : l = p - base /\ l < index.len /\ base + l = p BY <1>4
  <2>2. l \in LocalMatches(index, tail, query) BY <1>1, <1>4, <2>1
  <2> QED BY <1>2, <2>1, <2>2
<1> QED BY <1>3, <1>4

LEMMA TailSees ==
    ASSUME NEW L, NEW base \in Nat, NEW tail \in TailState, Describes(L, tail, base),
           NEW item \in QueryItem
    PROVE  Sees(L, IndexSegment(tail), tail, base, item)
<1> DEFINE index == IndexSegment(tail)
<1>1. /\ index.len = Len(tail.column) /\ index.posts = tail.postings
      /\ \A t \in EventType : index.ids[t] =
            IF Interned(t, tail.types) THEN IdOf(t, tail.types) ELSE NoId
  BY DEF IndexSegment
<1> HIDE DEF index
<1>2. item.types \subseteq EventType /\ item.tags \subseteq Tag BY DEF QueryItem
<1>3. ASSUME NEW type \in item.types PROVE SeesType(L, index, tail, base, type)
  <2>1. CASE Interned(type, tail.types) BY <1>1, <1>2, <2>1 DEF SeesType
  <2>2. CASE ~ Interned(type, tail.types)
    <3>1. \A l \in Nat : l < Len(tail.column) => L[base + l].type # type
      BY <2>2 DEF Describes, Described
    <3> QED BY <1>1, <1>2, <2>2, <3>1 DEF SeesType
  <2> QED BY <2>1, <2>2
<1>4. ASSUME NEW tag \in item.tags PROVE SeesTag(L, index, base, tag)
  BY <1>1, <1>2 DEF SeesTag, Describes, Described
<1> QED BY <1>3, <1>4 DEF Sees, index

LEMMA TailSearch ==
    ASSUME NEW L, NEW base \in Nat, NEW tail \in TailState, Describes(L, tail, base),
           NEW query \in Query
    PROVE  \A p : p \in Search(IndexSegment(tail), tail, query) <=>
                     /\ p \in Nat /\ base <= p /\ p < base + Len(tail.column)
                     /\ Matches(query, L[p])
<1>1. IndexSegment(tail).base = base /\ IndexSegment(tail).len = Len(tail.column)
  BY DEF IndexSegment, Describes
<1>2. Len(tail.column) \in Nat /\ Len(tail.column) <= Len(tail.column) BY DEF TailState
<1>3. \A item \in query.items : Sees(L, IndexSegment(tail), tail, base, item)
  BY TailSees DEF Query
<1>4. PICK index : index = IndexSegment(tail) OBVIOUS
<1>5. /\ index.base = base /\ index.len = Len(tail.column)
      /\ index.len \in Nat /\ index.len <= Len(tail.column)
      /\ \A item \in query.items : Sees(L, index, tail, base, item)
  BY <1>1, <1>2, <1>3, <1>4
<1>6. \A p : p \in Search(index, tail, query) <=>
                 p \in Nat /\ base <= p /\ p < base + index.len /\ Matches(query, L[p])
  BY ONLY <1>5, SearchFinds, base \in Nat, tail \in TailState, query \in Query,
          Describes(L, tail, base)
<1> QED BY <1>4, <1>5, <1>6

--------------------
\* The invariant of the log, the index and the writer thread.
SealedSegment == [base : Nat, count : Nat, indexed : BOOLEAN]

Snapshot == [sealed : Seq(SealedSegment), base : Nat, tail : Nat]

\* The last position of segment k.
SegEnd(k) == IF k = Len(bases) THEN Len(log) ELSE bases[k + 1] - 1

TypeInv ==
    /\ log \in Seq(Appendable) /\ bases \in Seq(Nat) /\ tails \in Seq(TailState)
    /\ sealed \in Seq(SealedSegment) /\ span \in Nat /\ latched \in BOOLEAN
    /\ rolled \in BOOLEAN /\ watermark \in Nat
    /\ pc \in {"idle", "rolled", "seal", "push", "tags", "segments", "watermark"}

BasesInv ==
    /\ Len(bases) >= 1 /\ bases[1] = 1
    /\ \A i \in 1 .. Len(bases) : 1 <= bases[i] /\ bases[i] <= Len(log) + 1
    /\ \A i, j \in 1 .. Len(bases) : i < j => bases[i] < bases[j]

\* Where the writer is: how many segments have a tail, and the event it is feeding.
PhaseInv ==
    /\ Len(tails) >= 1 /\ Len(sealed) + 1 = Len(tails)
    /\ Len(tails) = IF pc \in {"rolled", "seal"} THEN Len(bases) - 1 ELSE Len(bases)
    /\ pc = "idle" => ~ rolled
    /\ pc \in {"rolled", "seal", "segments"} => rolled
    /\ pc = "rolled" => bases[Len(bases)] = Len(log) + 1
    /\ pc = "seal" => feeding = bases[Len(bases)]
    /\ pc \in {"seal", "push", "tags"} =>
          feeding \in Nat /\ bases[Len(bases)] <= feeding /\ feeding <= Len(log)

\* Every tail describes events of its own segment.
TailsInv ==
    \A k \in 1 .. Len(tails) :
        /\ Describes(log, tails[k], bases[k])
        /\ bases[k] + Len(tails[k].column) <= SegEnd(k) + 1

\* A sealed segment counts all of its events; its index knows them all if it is trusted, and it is
\* trusted unless its tail hit the type limit.
SealedInv ==
    \A k \in 1 .. Len(sealed) :
        /\ sealed[k].base = bases[k] /\ sealed[k].count = bases[k + 1] - bases[k]
        /\ sealed[k].indexed => Len(tails[k].column) = sealed[k].count
        /\ ~ tails[k].unindexable /\ ~ tails[k].reopened => sealed[k].indexed

\* The last position fed to the active segment, the one in progress included; and what the tail
\* has of them.
FedTo ==
    IF pc = "push" THEN feeding - 1 ELSE IF pc = "tags" THEN feeding ELSE SegEnd(Active)

HalfFed ==
    /\ untagged \subseteq log[feeding].tags
    /\ Interned(log[feeding].type, ActiveTail.types)
    /\ Len(ActiveTail.column) + 1 = span
    /\ \A t \in Tag : Len(ActiveTail.column) \in ActiveTail.postings[t] <=>
                         t \in log[feeding].tags /\ t \notin untagged

ActiveInv ==
    /\ bases[Active] + span = FedTo + 1
    /\ latched => pc # "tags" /\ (ActiveTail.unindexable \/ ActiveTail.reopened)
    /\ ~ latched => \A t \in Tag : \A l \in ActiveTail.postings[t] : l < span
    /\ ~ latched /\ pc # "tags" => Len(ActiveTail.column) = span
    /\ pc = "tags" => HalfFed

\* A snapshot holds the first sealed segments, and the tail after them; it covers the watermark
\* published with it or before it.
SnapInv(s) ==
    /\ s \in Snapshot
    /\ 1 <= s.tail /\ s.tail <= Len(tails) /\ s.base = bases[s.tail]
    /\ Len(s.sealed) = s.tail - 1
    /\ \A k \in 1 .. Len(s.sealed) : s.sealed[k] = sealed[k]

PublishInv ==
    /\ SnapInv(snap)
    /\ snap.tail = IF rolled /\ pc # "watermark" THEN Len(bases) - 1 ELSE Len(bases)
    /\ watermark <= Len(log)
    /\ rolled => watermark < bases[Len(bases)]
    /\ pc \in {"push", "tags"} => watermark < feeding

IndexInv ==
    /\ TypeInv /\ BasesInv /\ PhaseInv /\ TailsInv /\ SealedInv /\ ActiveInv /\ PublishInv

LEMMA AppendableIs == \A event \in Appendable : event \in Event /\ IsFiniteSet(event.tags)
BY IndexReadsAssumption

LEMMA SegmentEventsAre ==
    ASSUME TypeInv, BasesInv, NEW k \in 1 .. Len(bases)
    PROVE  /\ SegEnd(k) - bases[k] + 1 \in Nat /\ SegEnd(k) \in Nat /\ SegEnd(k) <= Len(log)
           /\ bases[k] \in Nat /\ 1 <= bases[k]
           /\ Len(SegmentEvents(k)) = SegEnd(k) - bases[k] + 1
           /\ DOMAIN SegmentEvents(k) = 1 .. (SegEnd(k) - bases[k] + 1)
           /\ \A i \in 1 .. (SegEnd(k) - bases[k] + 1) :
                 SegmentEvents(k)[i] = log[bases[k] + (i - 1)] /\ SegmentEvents(k)[i] \in Appendable
<1>0. PICK m \in Nat : m = Len(bases) BY DEF TypeInv
<1>a. PICK n \in Nat : n = Len(log) BY DEF TypeInv
<1>b. PICK b \in Nat : b = bases[k] /\ 1 <= b /\ b <= n + 1
  BY <1>0, <1>a DEF TypeInv, BasesInv
<1>1. PICK e \in Nat : e = SegEnd(k) /\ b <= e + 1 /\ e <= n
  <2>1. CASE k = m BY <1>0, <1>a, <1>b, <2>1 DEF SegEnd
  <2>2. CASE k # m
    <3>1. k \in 1 .. m /\ k + 1 \in 1 .. m /\ k < k + 1 BY <1>0, <2>2
    <3>2. PICK c \in Nat : c = bases[k + 1] /\ b < c /\ c <= n + 1
      BY <1>0, <1>a, <1>b, <3>1 DEF TypeInv, BasesInv
    <3>3. SegEnd(k) = c - 1 BY <1>0, <2>2, <3>2 DEF SegEnd
    <3>4. c - 1 \in Nat /\ b <= (c - 1) + 1 /\ c - 1 <= n BY <1>b, <3>2
    <3> QED BY <3>3, <3>4
  <2> QED BY <2>1, <2>2
<1>2. SegmentEvents(k) = SubSeq(log, b, e) BY <1>b, <1>1 DEF SegmentEvents, SegEnd
<1>3. \A i \in b .. e : i \in 1 .. n /\ log[i] \in Appendable
  BY <1>a, <1>b, <1>1, SMTT(20) DEF TypeInv
<1>4. log \in Seq(Appendable) BY DEF TypeInv
<1>5. /\ Len(SubSeq(log, b, e)) = e - b + 1
      /\ DOMAIN SubSeq(log, b, e) = 1 .. (e - b + 1)
      /\ \A i \in 1 .. (e - b + 1) : SubSeq(log, b, e)[i] = log[b + (i - 1)]
  BY <1>1, <1>3, <1>4
<1>6. \A i \in 1 .. (e - b + 1) : b + (i - 1) \in b .. e BY <1>1
<1> QED BY <1>a, <1>b, <1>1, <1>2, <1>3, <1>5, <1>6, SMTT(20)

LEMMA DescribesGrown ==
    ASSUME NEW L, NEW M, NEW base, NEW tail, Describes(L, tail, base),
           \A l \in Nat : l < Len(tail.column) => M[base + l] = L[base + l]
    PROVE  Describes(M, tail, base)
<1>1. \A l \in Nat : l < Len(tail.column) => Described(M, tail, base, l)
  BY DEF Describes, Described
<1> QED BY <1>1 DEF Describes

\* Numbers behind the invariant.
LEMMA Here ==
    ASSUME IndexInv
    PROVE  /\ Len(log) \in Nat /\ Len(bases) \in Nat /\ Len(tails) \in Nat /\ Len(sealed) \in Nat
           /\ Len(bases) >= 1 /\ Len(tails) >= 1 /\ Len(tails) <= Len(bases)
           /\ Len(sealed) + 1 = Len(tails) /\ Len(bases) <= Len(tails) + 1
           /\ Active = Len(tails) /\ Active \in 1 .. Len(bases)
           /\ ActiveTail = tails[Active] /\ ActiveTail \in TailState
           /\ bases[Active] \in Nat /\ bases[Len(bases)] \in Nat
           /\ bases[Len(bases)] <= Len(log) + 1
           /\ SegEnd(Len(bases)) = Len(log)
<1>1. /\ Len(log) \in Nat /\ Len(bases) \in Nat /\ Len(tails) \in Nat /\ Len(sealed) \in Nat
  BY DEF IndexInv, TypeInv
<1>2. Len(bases) >= 1 /\ Len(tails) >= 1 /\ Len(sealed) + 1 = Len(tails)
  BY DEF IndexInv, BasesInv, PhaseInv
<1>3. Len(tails) = Len(bases) \/ Len(tails) = Len(bases) - 1 BY DEF IndexInv, PhaseInv
<1>4. Active = Len(tails) /\ ActiveTail = tails[Active] BY DEF Active, ActiveTail
<1>5. Active \in 1 .. Len(bases) /\ Active \in 1 .. Len(tails) /\ Len(bases) \in 1 .. Len(bases)
  BY <1>1, <1>2, <1>3, <1>4
<1>6. ActiveTail \in TailState /\ bases[Active] \in Nat /\ bases[Len(bases)] \in Nat
  BY <1>4, <1>5 DEF IndexInv, TypeInv
<1>7. bases[Len(bases)] <= Len(log) + 1 BY <1>5 DEF IndexInv, BasesInv
<1> QED BY <1>1, <1>2, <1>3, <1>4, <1>5, <1>6, <1>7 DEF SegEnd

LEMMA TailHere ==
    ASSUME IndexInv, NEW k \in 1 .. Len(tails)
    PROVE  /\ k \in 1 .. Len(bases) /\ tails[k] \in TailState
           /\ Len(tails[k].column) \in Nat
           /\ bases[k] \in Nat /\ 1 <= bases[k] /\ SegEnd(k) \in Nat /\ SegEnd(k) <= Len(log)
           /\ bases[k] <= SegEnd(k) + 1
           /\ Describes(log, tails[k], bases[k])
           /\ bases[k] + Len(tails[k].column) <= SegEnd(k) + 1
           /\ k < Len(bases) => SegEnd(k) = bases[k + 1] - 1 /\ bases[k + 1] \in Nat
<1>1. k \in 1 .. Len(bases) BY Here
<1>2. tails[k] \in TailState BY DEF IndexInv, TypeInv
<1>3. /\ bases[k] \in Nat /\ 1 <= bases[k] /\ SegEnd(k) \in Nat /\ SegEnd(k) <= Len(log)
      /\ SegEnd(k) - bases[k] + 1 \in Nat
  BY <1>1, SegmentEventsAre DEF IndexInv
<1>4. Describes(log, tails[k], bases[k]) /\ bases[k] + Len(tails[k].column) <= SegEnd(k) + 1
  BY DEF IndexInv, TailsInv
<1>5. ASSUME k < Len(bases) PROVE SegEnd(k) = bases[k + 1] - 1 /\ bases[k + 1] \in Nat
  <2>1. k + 1 \in 1 .. Len(bases) /\ k # Len(bases) BY <1>1, <1>5, Here
  <2> QED BY <2>1 DEF SegEnd, IndexInv, TypeInv
<1>6. Len(tails[k].column) \in Nat BY <1>2 DEF TailState
<1>7. bases[k] <= SegEnd(k) + 1 BY <1>3
<1> QED BY <1>1, <1>2, <1>3, <1>4, <1>5, <1>6, <1>7

LEMMA IndexInit == Init => IndexInv
<1> SUFFICES ASSUME Init PROVE IndexInv
  OBVIOUS
<1>1. PICK tail \in TailState : tail = EmptyTail(1) /\ Len(tail.column) = 0 /\ tail.base = 1
                                /\ (\A L : Describes(L, tail, 1)) /\ \A t \in Tag : tail.postings[t] = {}
  BY EmptyTailDescribes DEF EmptyTail
<1>2. /\ Len(log) = 0 /\ Len(bases) = 1 /\ Len(tails) = 1 /\ Len(sealed) = 0
      /\ bases[1] = 1 /\ tails[1] = tail /\ log \in Seq(Appendable) /\ bases \in Seq(Nat)
      /\ tails \in Seq(TailState) /\ sealed \in Seq(SealedSegment)
  BY <1>1 DEF Init
<1>3. TypeInv BY <1>2 DEF Init, TypeInv
<1>4. BasesInv BY <1>2 DEF BasesInv
<1>5. PhaseInv BY <1>2 DEF PhaseInv, Init
<1>6. SegEnd(1) = 0 BY <1>2 DEF SegEnd
<1>7. TailsInv BY <1>1, <1>2, <1>6 DEF TailsInv
<1>8. SealedInv BY <1>2 DEF SealedInv
<1>9. ActiveInv BY <1>1, <1>2, <1>6 DEF ActiveInv, FedTo, Init, Active, ActiveTail
<1>10. PublishInv
  <2>1. snap = [sealed |-> sealed, base |-> 1, tail |-> 1] BY <1>2 DEF Init, Capture, Last
  <2>2. SnapInv(snap) BY <1>2, <2>1 DEF SnapInv, Snapshot
  <2> QED BY <1>2, <2>1, <2>2 DEF PublishInv, Init
<1> QED BY <1>3, <1>4, <1>5, <1>7, <1>8, <1>9, <1>10 DEF IndexInv

LEMMA IndexIdle ==
    ASSUME IndexInv, UNCHANGED <<logVars, indexVars, writerVars, coreVars>>
    PROVE  IndexInv'
<1>1. /\ log' = log /\ bases' = bases /\ tails' = tails /\ sealed' = sealed /\ span' = span
      /\ latched' = latched /\ pc' = pc /\ rolled' = rolled /\ feeding' = feeding
      /\ untagged' = untagged /\ watermark' = watermark /\ snap' = snap
  BY DEF logVars, indexVars, writerVars, coreVars
<1>2. TypeInv' /\ BasesInv' /\ PhaseInv' BY <1>1 DEF IndexInv, TypeInv, BasesInv, PhaseInv
<1>3. TailsInv' /\ SealedInv' BY <1>1 DEF IndexInv, TailsInv, SealedInv, SegEnd
<1>4. ActiveInv'
  BY <1>1 DEF IndexInv, ActiveInv, FedTo, HalfFed, Active, ActiveTail, SegEnd
<1>5. PublishInv' BY <1>1 DEF IndexInv, PublishInv, SnapInv
<1> QED BY <1>2, <1>3, <1>4, <1>5 DEF IndexInv

\* A tail replaced in place.
LEMMA SeqExcept ==
    ASSUME NEW X, NEW s \in Seq(X), NEW i \in 1 .. Len(s), NEW x \in X
    PROVE  /\ [s EXCEPT ![i] = x] \in Seq(X) /\ Len([s EXCEPT ![i] = x]) = Len(s)
           /\ [s EXCEPT ![i] = x][i] = x
           /\ \A j \in 1 .. Len(s) : j # i => [s EXCEPT ![i] = x][j] = s[j]
OBVIOUS

LEMMA SeqAppend ==
    ASSUME NEW X, NEW s \in Seq(X), NEW x \in X
    PROVE  /\ Append(s, x) \in Seq(X) /\ Len(Append(s, x)) = Len(s) + 1
           /\ Append(s, x)[Len(s) + 1] = x
           /\ \A j \in 1 .. Len(s) : Append(s, x)[j] = s[j]
OBVIOUS

LEMMA RolloverKeeps ==
    ASSUME IndexInv, Rollover
    PROVE  IndexInv'
<1>1. /\ pc = "idle" /\ pc' = "rolled" /\ rolled' = TRUE /\ bases' = Append(bases, Len(log) + 1)
      /\ bases[Len(bases)] <= Len(log)
      /\ log' = log /\ tails' = tails /\ sealed' = sealed /\ span' = span
      /\ latched' = latched /\ feeding' = feeding /\ untagged' = untagged
      /\ watermark' = watermark /\ snap' = snap
  BY DEF Rollover, indexVars, coreVars, Last
<1>2. PICK m \in Nat, n \in Nat : m = Len(bases) /\ n = Len(log) /\ m >= 1 /\ Len(tails) = m
                                  /\ Len(sealed) + 1 = m /\ ~ rolled
  BY <1>1, Here DEF IndexInv, PhaseInv
<1>3. /\ bases' \in Seq(Nat) /\ Len(bases') = m + 1 /\ bases'[m + 1] = n + 1
      /\ \A j \in 1 .. m : bases'[j] = bases[j]
  BY <1>1, <1>2, SeqAppend DEF IndexInv, TypeInv
<1>4. TypeInv' BY <1>1, <1>3 DEF IndexInv, TypeInv
<1>5. \A i \in 1 .. m : bases[i] \in Nat /\ 1 <= bases[i] /\ bases[i] <= n
  <2>1. ASSUME NEW i \in 1 .. m PROVE bases[i] <= bases[m]
    BY <1>2 DEF IndexInv, BasesInv, TypeInv
  <2>2. ASSUME NEW i \in 1 .. m PROVE bases[i] \in Nat /\ 1 <= bases[i]
    BY <1>2 DEF IndexInv, BasesInv, TypeInv
  <2>3. bases[m] <= n BY <1>1, <1>2
  <2> QED BY <1>2, <2>1, <2>2, <2>3
<1>6. BasesInv'
  <2>1. \A i \in 1 .. m + 1 : 1 <= bases'[i] /\ bases'[i] <= n + 1
    BY <1>2, <1>3, <1>5, SMTT(20)
  <2>2. \A i, j \in 1 .. m + 1 : i < j => bases'[i] < bases'[j]
    <3>1. \A i, j \in 1 .. m : i < j => bases[i] < bases[j] BY <1>2 DEF IndexInv, BasesInv
    <3>2. ASSUME NEW i \in 1 .. m + 1, NEW j \in 1 .. m + 1, i < j
          PROVE  bases'[i] < bases'[j]
      <4>1. i \in 1 .. m /\ bases[i] \in Nat /\ bases[i] <= n BY <1>5, <3>2
      <4>2. CASE j \in 1 .. m BY <1>3, <3>1, <3>2, <4>1, <4>2
      <4>3. CASE j \notin 1 .. m
        <5>1. j = m + 1 BY <4>3
        <5> QED BY <1>3, <4>1, <5>1
      <4> QED BY <4>2, <4>3
    <3> QED BY <3>2
  <2>3. bases'[1] = 1 /\ m + 1 >= 1 BY <1>2, <1>3 DEF IndexInv, BasesInv
  <2> QED BY <1>1, <1>2, <1>3, <2>1, <2>2, <2>3 DEF BasesInv
<1>7. PhaseInv' BY <1>1, <1>2, <1>3, SMTT(20) DEF PhaseInv
<1>8. \A k \in 1 .. m : SegEnd(k)' = SegEnd(k) BY <1>1, <1>2, <1>3 DEF SegEnd
<1>9. TailsInv' BY <1>1, <1>2, <1>3, <1>8 DEF IndexInv, TailsInv
<1>10. SealedInv'
  <2>1. \A k \in 1 .. Len(sealed) : k \in 1 .. m /\ k + 1 \in 1 .. m BY <1>2, Here
  <2> QED BY <1>1, <1>2, <1>3, <2>1 DEF IndexInv, SealedInv
<1>11. ActiveInv'
  <2>1. Active = m /\ Active' = m /\ ActiveTail' = ActiveTail
    BY <1>1, <1>2 DEF Active, ActiveTail
  <2>2. FedTo = SegEnd(m) /\ FedTo' = SegEnd(m) BY <1>1, <1>2, <1>8, <2>1 DEF FedTo
  <2>3. bases'[m] = bases[m] BY <1>2, <1>3
  <2>4. ActiveInv BY DEF IndexInv
  <2> QED BY <1>1, <2>1, <2>2, <2>3, <2>4 DEF ActiveInv
<1>12. PublishInv'
  <2>1. SnapInv(snap) /\ snap.tail = m /\ watermark \in Nat /\ watermark <= n
    BY <1>1, <1>2 DEF IndexInv, PublishInv, TypeInv
  <2>2. SnapInv(snap)' BY <1>1, <1>2, <1>3, <2>1 DEF SnapInv, Snapshot
  <2> QED BY <1>1, <1>2, <1>3, <2>1, <2>2 DEF PublishInv
<1> QED BY <1>4, <1>6, <1>7, <1>9, <1>10, <1>11, <1>12 DEF IndexInv

\* What a tail describes stays described while the log grows.
LEMMA CommitKeeps ==
    ASSUME IndexInv, CommitBatch
    PROVE  IndexInv'
<1>1. /\ pc \in {"idle", "rolled"} /\ pc' = IF rolled THEN "seal" ELSE "push"
      /\ feeding' = Len(log) + 1
      /\ bases' = bases /\ tails' = tails /\ sealed' = sealed /\ span' = span
      /\ latched' = latched /\ rolled' = rolled /\ untagged' = untagged
      /\ watermark' = watermark /\ snap' = snap
  BY DEF CommitBatch, indexVars, coreVars
<1>2. PICK m \in Nat, n \in Nat : m = Len(bases) /\ n = Len(log) /\ m >= 1 BY Here
<1>3. PICK d \in Nat \ {0} : \E batch \in [1 .. d -> Appendable] : log' = log \o batch
  BY DEF CommitBatch
<1>4. PICK batch \in [1 .. d -> Appendable] : log' = log \o batch BY <1>3
<1>5. /\ log' \in Seq(Appendable) /\ Len(log') = n + d
      /\ \A p \in 1 .. n : log'[p] = log[p]
  <2>1. batch \in Seq(Appendable) /\ Len(batch) = d OBVIOUS
  <2>2. log \in Seq(Appendable) BY DEF IndexInv, TypeInv
  <2>3. log \o batch \in Seq(Appendable) BY <2>1, <2>2
  <2>4. Len(log \o batch) = n + d BY <1>2, <2>1, <2>2
  <2>5. \A p \in 1 .. n : (log \o batch)[p] = log[p] BY <1>2, <2>1, <2>2
  <2> QED BY <1>4, <2>3, <2>4, <2>5
<1>6. TypeInv' BY <1>1, <1>5 DEF IndexInv, TypeInv
<1>7. BasesInv'
  <2>1. \A i \in 1 .. m : bases[i] \in Nat /\ bases[i] <= n + 1
    BY <1>2 DEF IndexInv, BasesInv, TypeInv
  <2>2. \A i \in 1 .. m : bases[i] <= (n + d) + 1 BY <2>1
  <2> QED BY <1>1, <1>2, <1>5, <2>2 DEF IndexInv, BasesInv
<1>8. bases[m] \in Nat /\ bases[m] <= n + 1 /\ (rolled => bases[m] = n + 1)
  BY <1>1, <1>2, Here DEF IndexInv, PhaseInv
<1>9. PhaseInv'
  <2>1. Len(tails) = IF rolled THEN m - 1 ELSE m BY <1>1, <1>2 DEF IndexInv, PhaseInv
  <2>2. n + 1 \in Nat /\ n + 1 <= n + d OBVIOUS
  <2> QED BY <1>1, <1>2, <1>5, <1>8, <2>1, <2>2, Here DEF PhaseInv
<1>10. \A k \in 1 .. m : SegEnd(k)' = IF k = m THEN n + d ELSE SegEnd(k)
  BY <1>1, <1>2, <1>5 DEF SegEnd
<1>11. TailsInv'
  <2>1. ASSUME NEW k \in 1 .. Len(tails)
        PROVE  /\ Describes(log', tails[k], bases[k])
               /\ bases[k] + Len(tails[k].column) <= SegEnd(k)' + 1
    <3>1. /\ k \in 1 .. m /\ Len(tails[k].column) \in Nat /\ SegEnd(k) \in Nat /\ SegEnd(k) <= n
          /\ bases[k] \in Nat /\ 1 <= bases[k]
          /\ Describes(log, tails[k], bases[k])
          /\ bases[k] + Len(tails[k].column) <= SegEnd(k) + 1
      BY <1>2, TailHere
    <3>2. \A l \in Nat : l < Len(tails[k].column) => bases[k] + l \in 1 .. n
      BY <3>1, SMTT(20)
    <3>3. Describes(log', tails[k], bases[k]) BY <1>5, <3>1, <3>2, DescribesGrown
    <3> QED BY <1>10, <3>1, <3>3, SMTT(20)
  <2> QED BY <1>1, <2>1 DEF TailsInv
<1>12. SealedInv' BY <1>1 DEF IndexInv, SealedInv
<1>13. ActiveInv'
  <2>1. Active' = Active /\ ActiveTail' = ActiveTail /\ Active \in 1 .. m
    BY <1>1, <1>2, Here DEF Active, ActiveTail
  <2>2. FedTo = SegEnd(Active) BY <1>1 DEF FedTo
  <2>3. FedTo' = SegEnd(Active)
    <3>1. CASE rolled
      <4>1. pc' = "seal" /\ Active # m BY <1>1, <1>2, <3>1 DEF IndexInv, PhaseInv, Active
      <4> QED BY <1>10, <2>1, <4>1 DEF FedTo
    <3>2. CASE ~ rolled
      <4>1. pc' = "push" /\ Active = m BY <1>1, <1>2, <3>2 DEF IndexInv, PhaseInv, Active
      <4>2. SegEnd(Active) = n BY <1>2, <4>1 DEF SegEnd
      <4>3. FedTo' = (n + 1) - 1 BY <1>1, <1>2, <4>1 DEF FedTo
      <4> QED BY <4>2, <4>3
    <3> QED BY <3>1, <3>2
  <2>4. ActiveInv /\ pc' # "tags" /\ pc # "tags" BY <1>1 DEF IndexInv
  <2> QED BY <1>1, <2>1, <2>2, <2>3, <2>4 DEF ActiveInv
<1>14. PublishInv'
  <2>1. PublishInv /\ watermark \in Nat BY DEF IndexInv, TypeInv
  <2>2. SnapInv(snap)' BY <1>1, <2>1 DEF PublishInv, SnapInv
  <2>3. watermark <= n BY <1>2, <2>1 DEF PublishInv
  <2>4. watermark <= n + d /\ watermark < n + 1 BY <2>1, <2>3
  <2> QED BY <1>1, <1>2, <1>5, <2>1, <2>2, <2>4 DEF PublishInv
<1> QED BY <1>6, <1>7, <1>9, <1>11, <1>12, <1>13, <1>14 DEF IndexInv

LEMMA SealKeeps ==
    ASSUME IndexInv, SealActive
    PROVE  IndexInv'
<1>1. /\ pc = "seal" /\ pc' = "push" /\ rolled' = rolled /\ rolled = TRUE /\ feeding' = feeding
      /\ sealed' = Append(sealed, [base |-> ActiveTail.base, count |-> span, indexed |-> ~ latched])
      /\ tails' = Append(tails, EmptyTail(feeding))
      /\ span' = 0 /\ latched' = FALSE
      /\ log' = log /\ bases' = bases /\ untagged' = untagged /\ watermark' = watermark
      /\ snap' = snap
  BY DEF SealActive, logVars, coreVars, IndexInv, PhaseInv, TypeInv
<1>2. PICK m \in Nat, n \in Nat : m = Len(tails) /\ n = Len(log) /\ m >= 1 /\ Len(bases) = m + 1
                                  /\ Len(sealed) + 1 = m /\ Len(sealed) \in Nat
  BY <1>1, Here DEF IndexInv, PhaseInv
<1>3. /\ feeding \in Nat /\ feeding = bases[m + 1] /\ 1 <= feeding /\ feeding <= n
  BY <1>1, <1>2 DEF IndexInv, PhaseInv, BasesInv
<1>4. PICK tail \in TailState : tail = EmptyTail(feeding) /\ Len(tail.column) = 0
                                /\ (\A L : Describes(L, tail, feeding))
                                /\ \A t \in Tag : tail.postings[t] = {}
  BY <1>3, EmptyTailDescribes
<1>5. /\ tails' \in Seq(TailState) /\ Len(tails') = m + 1 /\ tails'[m + 1] = tail
      /\ \A j \in 1 .. m : tails'[j] = tails[j]
  BY <1>1, <1>2, <1>4, SeqAppend DEF IndexInv, TypeInv
<1>6. PICK seg \in SealedSegment :
          /\ seg = [base |-> ActiveTail.base, count |-> span, indexed |-> ~ latched]
          /\ seg.base = ActiveTail.base /\ seg.count = span /\ (seg.indexed <=> ~ latched)
  <2>1. PICK b \in Nat, c \in Nat : b = ActiveTail.base /\ c = span
    BY Here DEF TailState, IndexInv, TypeInv
  <2>2. PICK trusted \in BOOLEAN : trusted = ~ latched OBVIOUS
  <2>3. PICK seg : seg = [base |-> b, count |-> c, indexed |-> trusted] OBVIOUS
  <2>4. seg \in SealedSegment /\ seg.base = b /\ seg.count = c /\ seg.indexed = trusted
    BY <2>3 DEF SealedSegment
  <2> QED BY <2>1, <2>2, <2>3, <2>4
<1>7. /\ sealed' \in Seq(SealedSegment) /\ Len(sealed') = m /\ sealed'[m] = seg
      /\ \A j \in 1 .. m - 1 : sealed'[j] = sealed[j]
  <2>1. sealed \in Seq(SealedSegment) /\ sealed' = Append(sealed, seg) /\ Len(sealed) = m - 1
    BY <1>1, <1>2, <1>6 DEF IndexInv, TypeInv
  <2>2. /\ Append(sealed, seg) \in Seq(SealedSegment)
        /\ Len(Append(sealed, seg)) = Len(sealed) + 1
        /\ Append(sealed, seg)[Len(sealed) + 1] = seg
        /\ \A j \in 1 .. Len(sealed) : Append(sealed, seg)[j] = sealed[j]
    BY <2>1, SeqAppend
  <2>3. Len(sealed) + 1 = m BY <1>2
  <2> QED BY <2>1, <2>2, <2>3
<1>8. TypeInv' BY <1>1, <1>5, <1>7 DEF IndexInv, TypeInv
<1>9. BasesInv' BY <1>1 DEF IndexInv, BasesInv
<1>10. PhaseInv' BY <1>1, <1>2, <1>3, <1>5, <1>7 DEF PhaseInv
<1>11. \A k : SegEnd(k)' = SegEnd(k) BY <1>1 DEF SegEnd
<1>12. SegEnd(m + 1) = n /\ SegEnd(m) = bases[m + 1] - 1 /\ m \in 1 .. m /\ m \in 1 .. Len(tails)
  BY <1>2 DEF SegEnd
<1>13. TailsInv'
  <2>1. ASSUME NEW k \in 1 .. m
        PROVE  /\ Describes(log', tails'[k], bases'[k])
               /\ bases'[k] + Len(tails'[k].column) <= SegEnd(k)' + 1
    <3>1. k \in 1 .. Len(tails) /\ tails'[k] = tails[k] BY <1>2, <1>5
    <3> QED BY <1>1, <1>11, <3>1, TailHere
  <2>2. /\ Describes(log', tails'[m + 1], bases'[m + 1])
        /\ bases'[m + 1] + Len(tails'[m + 1].column) <= SegEnd(m + 1)' + 1
    <3>1. bases'[m + 1] = feeding /\ tails'[m + 1] = tail /\ log' = log
      BY <1>1, <1>3, <1>5
    <3>2. SegEnd(m + 1)' = n BY <1>11, <1>12
    <3>3. feeding + Len(tail.column) <= n + 1 BY <1>3, <1>4
    <3> QED BY <1>4, <3>1, <3>2, <3>3
  <2> QED BY <1>2, <1>5, <2>1, <2>2 DEF TailsInv
<1>14. /\ Active = m /\ bases[m] + span = bases[m + 1] /\ ActiveTail = tails[m]
       /\ bases[m] \in Nat /\ span \in Nat /\ bases[m + 1] \in Nat
  <2>1. Active = m /\ ActiveTail = tails[m] BY <1>2 DEF Active, ActiveTail
  <2>2. FedTo = bases[m + 1] - 1 BY <1>1, <1>12, <2>1 DEF FedTo
  <2>3. bases[m] + span = FedTo + 1 BY <2>1 DEF IndexInv, ActiveInv
  <2>4. bases[m] \in Nat /\ bases[m + 1] \in Nat /\ span \in Nat
    BY <1>2, <1>3, <1>12, TailHere DEF IndexInv, TypeInv
  <2> QED BY <2>1, <2>2, <2>3, <2>4
<1>15. SealedInv'
  <2>1. ASSUME NEW k \in 1 .. m - 1
        PROVE  /\ sealed[k].base = bases[k] /\ sealed[k].count = bases[k + 1] - bases[k]
               /\ sealed[k].indexed => Len(tails[k].column) = sealed[k].count
               /\ ~ tails[k].unindexable /\ ~ tails[k].reopened => sealed[k].indexed
    BY <1>2 DEF IndexInv, SealedInv
  <2>2. /\ seg.base = bases[m] /\ seg.count = bases[m + 1] - bases[m]
        /\ seg.indexed => Len(tails[m].column) = seg.count
        /\ ~ tails[m].unindexable /\ ~ tails[m].reopened => seg.indexed
    <3>1. tails[m].base = bases[m] BY <1>12, TailHere DEF Describes
    <3>2. ActiveInv /\ pc # "tags" BY <1>1 DEF IndexInv
    <3> QED BY <1>6, <1>14, <3>1, <3>2 DEF ActiveInv
  <2> QED BY <1>1, <1>2, <1>5, <1>7, <2>1, <2>2 DEF SealedInv
<1>16. ActiveInv'
  <2>1. Active' = m + 1 /\ ActiveTail' = tail BY <1>5 DEF Active, ActiveTail
  <2>2. FedTo' = feeding - 1 BY <1>1 DEF FedTo
  <2>3. bases'[m + 1] = feeding /\ span' = 0 /\ feeding + 0 = (feeding - 1) + 1
    BY <1>1, <1>3
  <2>4. bases'[Active'] + span' = FedTo' + 1 BY <2>1, <2>2, <2>3
  <2>5. pc' = "push" /\ latched' = FALSE /\ Len(ActiveTail'.column) = span'
        /\ \A t \in Tag : \A l \in ActiveTail'.postings[t] : l < span'
    BY <1>1, <1>4, <2>1
  <2> QED BY <2>4, <2>5 DEF ActiveInv
<1>17. PublishInv'
  <2>1. /\ SnapInv(snap) /\ snap.tail = m /\ watermark \in Nat /\ watermark <= n
        /\ watermark < bases[m + 1]
    BY <1>1, <1>2 DEF IndexInv, PublishInv, TypeInv
  <2>2. SnapInv(snap)' BY <1>1, <1>2, <1>5, <1>7, <2>1, SMTT(20) DEF SnapInv
  <2> QED BY <1>1, <1>2, <1>3, <2>1, <2>2 DEF PublishInv
<1> QED BY <1>8, <1>9, <1>10, <1>13, <1>15, <1>16, <1>17 DEF IndexInv

LEMMA PublishSegmentsKeeps ==
    ASSUME IndexInv, PublishSegments
    PROVE  IndexInv'
<1>1. /\ pc = "segments" /\ pc' = "watermark" /\ snap' = Capture(bases, sealed, Active)
      /\ log' = log /\ bases' = bases /\ tails' = tails /\ sealed' = sealed /\ span' = span
      /\ latched' = latched /\ rolled' = rolled /\ feeding' = feeding /\ untagged' = untagged
      /\ watermark' = watermark
  BY DEF PublishSegments, logVars, indexVars
<1>2. TypeInv' /\ BasesInv' /\ PhaseInv' BY <1>1 DEF IndexInv, TypeInv, BasesInv, PhaseInv
<1>3. TailsInv' /\ SealedInv' BY <1>1 DEF IndexInv, TailsInv, SealedInv, SegEnd
<1>4. ActiveInv'
  BY <1>1 DEF IndexInv, ActiveInv, FedTo, HalfFed, Active, ActiveTail, SegEnd
<1>5. PublishInv'
  <2>1. PICK m \in Nat : m = Len(bases) /\ m = Len(tails) /\ Active = m /\ m >= 1
                         /\ Len(sealed) = m - 1 /\ bases[m] \in Nat /\ sealed \in Seq(SealedSegment)
    BY <1>1, Here DEF IndexInv, PhaseInv, TypeInv
  <2>2. snap' = [sealed |-> sealed, base |-> bases[m], tail |-> m]
    BY <1>1, <2>1 DEF Capture, Last
  <2>3. SnapInv(snap)' BY <1>1, <2>1, <2>2 DEF SnapInv, Snapshot
  <2>4. snap'.tail = Len(bases) BY <2>1, <2>2
  <2> QED BY <1>1, <2>3, <2>4 DEF IndexInv, PublishInv
<1> QED BY <1>2, <1>3, <1>4, <1>5 DEF IndexInv

LEMMA PublishWatermarkKeeps ==
    ASSUME IndexInv, PublishWatermark
    PROVE  IndexInv'
<1>1. /\ pc = "watermark" /\ pc' = "idle" /\ watermark' = Len(log) /\ rolled' = FALSE
      /\ log' = log /\ bases' = bases /\ tails' = tails /\ sealed' = sealed /\ span' = span
      /\ latched' = latched /\ snap' = snap /\ feeding' = feeding /\ untagged' = untagged
  BY DEF PublishWatermark, logVars, indexVars
<1>2. TypeInv' /\ BasesInv' /\ PhaseInv'
  BY <1>1, Here DEF IndexInv, TypeInv, BasesInv, PhaseInv
<1>3. TailsInv' /\ SealedInv' BY <1>1 DEF IndexInv, TailsInv, SealedInv, SegEnd
<1>4. ActiveInv'
  BY <1>1 DEF IndexInv, ActiveInv, FedTo, HalfFed, Active, ActiveTail, SegEnd
<1>5. PublishInv' BY <1>1, Here, SMTT(20) DEF IndexInv, PublishInv, SnapInv
<1> QED BY <1>2, <1>3, <1>4, <1>5 DEF IndexInv

\* While the writer feeds an event, every segment has its tail.
LEMMA FeedingHere ==
    ASSUME IndexInv, pc \in {"push", "tags"}
    PROVE  /\ Active = Len(bases) /\ Active \in 1 .. Len(tails) /\ Active \in 1 .. Len(bases)
           /\ Len(tails) = Len(bases)
           /\ feeding \in Nat /\ bases[Active] <= feeding /\ feeding <= Len(log) /\ 1 <= feeding
           /\ log[feeding] \in Appendable /\ log[feeding] \in Event
           /\ log[feeding].type \in EventType /\ log[feeding].tags \subseteq Tag
           /\ span \in Nat /\ bases[Active] \in Nat
           /\ Len(ActiveTail.column) \in Nat
           /\ bases[Active] + span = FedTo + 1
           /\ SegEnd(Active) = Len(log)
<1>1. Active = Len(bases) /\ Len(tails) = Len(bases) BY Here DEF IndexInv, PhaseInv
<1>2. Active \in 1 .. Len(tails) /\ Active \in 1 .. Len(bases) BY <1>1, Here
<1>3. feeding \in Nat /\ bases[Active] <= feeding /\ feeding <= Len(log)
  BY <1>1 DEF IndexInv, PhaseInv
<1>4. bases[Active] \in Nat /\ 1 <= bases[Active] /\ Len(ActiveTail.column) \in Nat
  BY <1>2, Here, TailHere
<1>5. 1 <= feeding BY <1>3, <1>4
<1>6. feeding \in 1 .. Len(log) BY <1>3, <1>5, Here
<1>7. log[feeding] \in Appendable BY <1>6 DEF IndexInv, TypeInv
<1>8. log[feeding] \in Event BY <1>7, AppendableIs
<1>9. log[feeding].type \in EventType /\ log[feeding].tags \subseteq Tag BY <1>8 DEF Event
<1>10. span \in Nat /\ bases[Active] + span = FedTo + 1
  BY DEF IndexInv, TypeInv, ActiveInv
<1> QED BY <1>1, <1>2, <1>3, <1>4, <1>5, <1>7, <1>8, <1>9, <1>10 DEF SegEnd

\* The end of an event's feeding.
LEMMA FedMoves ==
    ASSUME IndexInv, pc \in {"push", "tags"}, EventFed, log' = log, bases' = bases,
           sealed' = sealed, rolled' = rolled, snap' = snap, watermark' = watermark,
           Len(tails') = Len(tails)
    PROVE  /\ PhaseInv' /\ PublishInv' /\ FedTo' = feeding
           /\ pc' \in {"push", "segments", "watermark"}
<1>1. pc' \in {"push", "segments", "watermark"} BY DEF EventFed
<1>2. Active' = Len(bases) /\ SegEnd(Active)' = Len(log) BY FeedingHere DEF Active, SegEnd
<1>3. FedTo' = feeding
  <2>1. CASE feeding < Len(log)
    <3>1. pc' = "push" /\ feeding' = feeding + 1 /\ feeding \in Nat
      BY <2>1, FeedingHere DEF EventFed
    <3>2. FedTo' = (feeding + 1) - 1 BY <3>1 DEF FedTo
    <3> QED BY <3>1, <3>2
  <2>2. CASE ~ (feeding < Len(log))
    <3>1. pc' # "push" /\ pc' # "tags" BY <2>2 DEF EventFed
    <3>2. feeding = Len(log) BY <2>2, FeedingHere, Here
    <3> QED BY <1>2, <3>1, <3>2 DEF FedTo
  <2> QED BY <2>1, <2>2
<1>4. PhaseInv'
  <2>1. Len(tails) = Len(bases) /\ feeding \in Nat /\ bases[Len(bases)] <= feeding
        /\ bases[Len(bases)] \in Nat /\ Len(log) \in Nat
    BY FeedingHere, Here
  <2>2. pc' = "segments" => rolled BY DEF EventFed
  <2>3. pc' = "push" => feeding' = feeding + 1 /\ feeding < Len(log) BY DEF EventFed
  <2> QED BY <1>1, <2>1, <2>2, <2>3, Here DEF PhaseInv
<1>5. PublishInv'
  <2>1. PublishInv /\ watermark \in Nat BY DEF IndexInv, TypeInv
  <2>2. SnapInv(snap)' BY <2>1 DEF PublishInv, SnapInv
  <2>3. pc' = "watermark" => ~ rolled BY DEF EventFed
  <2>4. pc' = "push" => feeding' = feeding + 1 BY DEF EventFed
  <2>5. feeding \in Nat /\ watermark < feeding BY <2>1, FeedingHere DEF PublishInv
  <2> QED BY <1>1, <2>1, <2>2, <2>3, <2>4, <2>5 DEF PublishInv
<1> QED BY <1>1, <1>3, <1>4, <1>5

\* The active tail is replaced by one that describes the same events or more.
LEMMA TailMoves ==
    ASSUME IndexInv, pc \in {"push", "tags"}, log' = log, bases' = bases, sealed' = sealed,
           NEW tail \in TailState, tails' = [tails EXCEPT ![Active] = tail],
           Describes(log, tail, bases[Active]),
           bases[Active] + Len(tail.column) <= Len(log) + 1
    PROVE  /\ tails' \in Seq(TailState) /\ Len(tails') = Len(tails)
           /\ TailsInv' /\ SealedInv' /\ BasesInv'
           /\ Active' = Active /\ ActiveTail' = tail
           /\ \A k \in 1 .. Len(tails) : k # Active => tails'[k] = tails[k]
<1>1. /\ tails' \in Seq(TailState) /\ Len(tails') = Len(tails) /\ tails'[Active] = tail
      /\ \A j \in 1 .. Len(tails) : j # Active => tails'[j] = tails[j]
  <2>1. tails \in Seq(TailState) /\ Active \in 1 .. Len(tails)
    BY FeedingHere DEF IndexInv, TypeInv
  <2> QED BY <2>1, SeqExcept
<1>2. Active' = Active /\ ActiveTail' = tail BY <1>1 DEF Active, ActiveTail
<1>3. \A k : SegEnd(k)' = SegEnd(k) BY DEF SegEnd
<1>4. TailsInv'
  <2>1. ASSUME NEW k \in 1 .. Len(tails)
        PROVE  /\ Describes(log', tails'[k], bases'[k])
               /\ bases'[k] + Len(tails'[k].column) <= SegEnd(k)' + 1
    <3>1. CASE k = Active BY <1>1, <1>3, <3>1, FeedingHere
    <3>2. CASE k # Active BY <1>1, <1>3, <3>2, TailHere
    <3> QED BY <3>1, <3>2
  <2> QED BY <1>1, <2>1 DEF TailsInv
<1>5. SealedInv'
  <2>1. \A k \in 1 .. Len(sealed) : k \in 1 .. Len(tails) /\ k # Active BY Here
  <2> QED BY <1>1, <2>1 DEF IndexInv, SealedInv
<1>6. BasesInv' BY DEF IndexInv, BasesInv
<1> QED BY <1>1, <1>2, <1>4, <1>5, <1>6

LEMMA PushSkippedKeeps ==
    ASSUME IndexInv, PushSkipped
    PROVE  IndexInv'
<1>1. /\ pc = "push" /\ latched = TRUE /\ span' = span + 1 /\ EventFed
      /\ log' = log /\ bases' = bases /\ tails' = tails /\ sealed' = sealed
      /\ latched' = latched /\ rolled' = rolled /\ untagged' = untagged
      /\ watermark' = watermark /\ snap' = snap
  BY DEF PushSkipped, logVars, coreVars, IndexInv, TypeInv
<1>2. PhaseInv' /\ PublishInv' /\ FedTo' = feeding /\ pc' \in {"push", "segments", "watermark"}
  BY <1>1, FedMoves
<1>3. TypeInv' /\ BasesInv' BY <1>1, <1>2 DEF IndexInv, TypeInv, BasesInv
<1>4. TailsInv' /\ SealedInv' BY <1>1 DEF IndexInv, TailsInv, SealedInv, SegEnd
<1>5. ActiveInv'
  <2>1. Active' = Active /\ ActiveTail' = ActiveTail BY <1>1 DEF Active, ActiveTail
  <2>2. bases[Active] + span = (feeding - 1) + 1 /\ span \in Nat /\ feeding \in Nat
        /\ bases[Active] \in Nat
    BY <1>1, FeedingHere DEF FedTo
  <2>3. bases[Active] + (span + 1) = feeding + 1 BY <2>2
  <2> QED BY <1>1, <1>2, <2>1, <2>3 DEF IndexInv, ActiveInv
<1> QED BY <1>2, <1>3, <1>4, <1>5 DEF IndexInv

LEMMA PushRejectedKeeps ==
    ASSUME IndexInv, PushRejected
    PROVE  IndexInv'
<1>1. /\ pc = "push" /\ latched = FALSE /\ span' = span + 1 /\ EventFed
      /\ tails' = [tails EXCEPT ![Active].unindexable = TRUE]
      /\ log' = log /\ bases' = bases /\ sealed' = sealed
      /\ latched' = TRUE /\ rolled' = rolled /\ untagged' = untagged
      /\ watermark' = watermark /\ snap' = snap
  BY DEF PushRejected, logVars, coreVars, IndexInv, TypeInv
<1>2. PICK tail \in TailState :
          /\ tail = [ActiveTail EXCEPT !.unindexable = TRUE]
          /\ tail.unindexable = TRUE /\ tail.reopened = ActiveTail.reopened
          /\ tail.base = ActiveTail.base /\ tail.types = ActiveTail.types
          /\ tail.column = ActiveTail.column /\ tail.terms = ActiveTail.terms
          /\ tail.postings = ActiveTail.postings
  <2>1. PICK old \in TailState : old = ActiveTail BY Here
  <2>2. PICK new : new = [old EXCEPT !.unindexable = TRUE] OBVIOUS
  <2>3. /\ new \in TailState /\ new.unindexable = TRUE /\ new.reopened = old.reopened
        /\ new.base = old.base /\ new.types = old.types /\ new.column = old.column
        /\ new.terms = old.terms /\ new.postings = old.postings
    BY <2>2 DEF TailState
  <2> QED BY <2>1, <2>2, <2>3
<1>3. tails' = [tails EXCEPT ![Active] = tail]
  BY <1>1, <1>2, FeedingHere DEF ActiveTail, IndexInv, TypeInv
<1>4. /\ Describes(log, ActiveTail, bases[Active])
      /\ bases[Active] + Len(ActiveTail.column) <= Len(log) + 1
  <2>1. Active \in 1 .. Len(tails) /\ SegEnd(Active) = Len(log) BY <1>1, FeedingHere
  <2> QED BY <2>1, Here, TailHere
<1>5. Describes(log, tail, bases[Active]) BY <1>2, <1>4 DEF Describes, Described
<1>6. /\ tails' \in Seq(TailState) /\ Len(tails') = Len(tails)
      /\ TailsInv' /\ SealedInv' /\ BasesInv'
      /\ Active' = Active /\ ActiveTail' = tail
  BY <1>1, <1>2, <1>3, <1>4, <1>5, TailMoves
<1>7. PhaseInv' /\ PublishInv' /\ FedTo' = feeding /\ pc' \in {"push", "segments", "watermark"}
  BY <1>1, <1>6, FedMoves
<1>8. TypeInv' BY <1>1, <1>6, <1>7 DEF IndexInv, TypeInv
<1>9. ActiveInv'
  <2>2. bases[Active] + span = (feeding - 1) + 1 /\ span \in Nat /\ feeding \in Nat
        /\ bases[Active] \in Nat
    BY <1>1, FeedingHere DEF FedTo
  <2>3. bases[Active] + (span + 1) = feeding + 1 BY <2>2
  <2> QED BY <1>1, <1>2, <1>6, <1>7, <2>3 DEF ActiveInv
<1> QED BY <1>6, <1>7, <1>8, <1>9 DEF IndexInv

LEMMA PushTypeKeeps ==
    ASSUME IndexInv, PushType
    PROVE  IndexInv'
<1>1. /\ pc = "push" /\ latched = FALSE /\ span' = span + 1 /\ pc' = "tags"
      /\ untagged' = log[feeding].tags /\ feeding' = feeding
      /\ log' = log /\ bases' = bases /\ sealed' = sealed
      /\ latched' = FALSE /\ rolled' = rolled
      /\ watermark' = watermark /\ snap' = snap
  BY DEF PushType, logVars, coreVars, IndexInv, TypeInv
<1>0. tails' = [tails EXCEPT ![Active] = InternType(@, log[feeding].type)] BY DEF PushType
<1>2. PICK type \in EventType : type = log[feeding].type BY <1>1, FeedingHere
<1>3. /\ Describes(log, ActiveTail, bases[Active]) /\ ActiveTail \in TailState
      /\ bases[Active] + Len(ActiveTail.column) <= Len(log) + 1
  <2>1. Active \in 1 .. Len(tails) /\ SegEnd(Active) = Len(log) BY <1>1, FeedingHere
  <2> QED BY <2>1, Here, TailHere
<1>4. PICK tail \in TailState :
          /\ tail = InternType(ActiveTail, type) /\ Describes(log, tail, bases[Active])
          /\ Interned(type, tail.types) /\ tail.column = ActiveTail.column
          /\ tail.postings = ActiveTail.postings
  BY <1>2, <1>3, InternTypeIs, TypeDescribes
<1>5. tails' = [tails EXCEPT ![Active] = tail] BY <1>0, <1>2, <1>4 DEF ActiveTail
<1>6. /\ tails' \in Seq(TailState) /\ Len(tails') = Len(tails)
      /\ TailsInv' /\ SealedInv' /\ BasesInv'
      /\ Active' = Active /\ ActiveTail' = tail
  BY <1>1, <1>3, <1>4, <1>5, TailMoves
<1>7. TypeInv'
  <2>0. span \in Nat BY DEF IndexInv, TypeInv
  <2>1. span' \in Nat BY <1>1, <2>0
  <2>3. latched' \in BOOLEAN BY <1>1
  <2>4. pc' \in {"idle", "rolled", "seal", "push", "tags", "segments", "watermark"}
    BY <1>1
  <2>2. log' = log /\ bases' = bases /\ sealed' = sealed /\ rolled' = rolled
        /\ watermark' = watermark /\ TypeInv
    BY <1>1 DEF IndexInv
  <2> QED BY <1>6, <2>1, <2>2, <2>3, <2>4 DEF TypeInv
<1>8. PhaseInv' BY <1>1, <1>6 DEF IndexInv, PhaseInv
<1>9. PublishInv' BY <1>1, <1>6 DEF IndexInv, PublishInv, SnapInv
<1>10. ActiveInv'
  <2>1. FedTo' = feeding /\ FedTo = feeding - 1 BY <1>1 DEF FedTo
  <2>2. bases[Active] + span = (feeding - 1) + 1 /\ span \in Nat /\ feeding \in Nat
        /\ bases[Active] \in Nat
    BY <1>1, <2>1, FeedingHere
  <2>3. bases[Active] + (span + 1) = feeding + 1 BY <2>2
  <2>4. Len(tail.column) = span /\ \A t \in Tag : \A l \in tail.postings[t] : l < span
    BY <1>1, <1>4 DEF IndexInv, ActiveInv
  <2>5. \A t \in Tag : \A l \in tail.postings[t] : l \in Nat BY DEF TailState
  <2>6. \A t \in Tag : \A l \in tail.postings[t] : l < span + 1 /\ l # span
    BY <2>2, <2>4, <2>5
  <2>7. HalfFed' BY <1>1, <1>2, <1>4, <1>6, <2>2, <2>4, <2>6 DEF HalfFed
  <2> QED BY <1>1, <1>6, <2>1, <2>3, <2>6, <2>7 DEF ActiveInv
<1> QED BY <1>6, <1>7, <1>8, <1>9, <1>10 DEF IndexInv

LEMMA PushTagKeeps ==
    ASSUME IndexInv, PushTag
    PROVE  IndexInv'
<1>1. /\ pc = "tags" /\ pc' = "tags" /\ span' = span /\ feeding' = feeding
      /\ log' = log /\ bases' = bases /\ sealed' = sealed
      /\ latched' = latched /\ rolled' = rolled
      /\ watermark' = watermark /\ snap' = snap /\ untagged # {}
  BY DEF PushTag, logVars, coreVars
<1>2. ActiveInv /\ HalfFed /\ latched = FALSE BY <1>1 DEF IndexInv, ActiveInv, TypeInv
<1>3. PICK tag \in untagged :
          /\ tails' = [tails EXCEPT ![Active] = PushTerm(@, tag)]
          /\ untagged' = untagged \ {tag}
  BY <1>1 DEF PushTag
<1>4. tag \in Tag /\ tag \in log[feeding].tags BY <1>1, <1>2, FeedingHere DEF HalfFed
<1>5. /\ Describes(log, ActiveTail, bases[Active]) /\ ActiveTail \in TailState
      /\ bases[Active] + Len(ActiveTail.column) <= Len(log) + 1
  <2>1. Active \in 1 .. Len(tails) /\ SegEnd(Active) = Len(log) BY <1>1, FeedingHere
  <2> QED BY <2>1, Here, TailHere
<1>6. PICK tail \in TailState :
          /\ tail = PushTerm(ActiveTail, tag) /\ Describes(log, tail, bases[Active])
          /\ tail.types = ActiveTail.types /\ tail.column = ActiveTail.column
          /\ \A t \in Tag : \A l : l \in tail.postings[t] <=>
                l \in ActiveTail.postings[t] \/ (t = tag /\ l = Len(ActiveTail.column))
  BY <1>4, <1>5, PushTermIs, TermDescribes
<1>7. tails' = [tails EXCEPT ![Active] = tail] BY <1>3, <1>6 DEF ActiveTail
<1>8. /\ tails' \in Seq(TailState) /\ Len(tails') = Len(tails)
      /\ TailsInv' /\ SealedInv' /\ BasesInv'
      /\ Active' = Active /\ ActiveTail' = tail
  BY <1>1, <1>5, <1>6, <1>7, TailMoves
<1>9. TypeInv' BY <1>1, <1>8 DEF IndexInv, TypeInv
<1>10. PhaseInv' BY <1>1, <1>8 DEF IndexInv, PhaseInv
<1>11. PublishInv' BY <1>1, <1>8 DEF IndexInv, PublishInv, SnapInv
<1>12. ActiveInv'
  <2>1. FedTo' = feeding /\ FedTo = feeding BY <1>1 DEF FedTo
  <2>2. Len(ActiveTail.column) \in Nat /\ span \in Nat /\ Len(ActiveTail.column) + 1 = span
    BY <1>1, <1>2, FeedingHere DEF HalfFed
  <2>3. \A t \in Tag : \A l \in ActiveTail.postings[t] : l < span BY <1>2 DEF ActiveInv
  <2>4. \A t \in Tag : \A l \in tail.postings[t] : l < span BY <1>6, <2>2, <2>3
  <2>5. \A t \in Tag : Len(tail.column) \in tail.postings[t] <=>
              t \in log[feeding].tags /\ t \notin untagged'
    <3>1. \A t \in Tag : Len(ActiveTail.column) \in tail.postings[t] <=>
            (t \in log[feeding].tags /\ t \notin untagged) \/ t = tag
      BY <1>2, <1>6 DEF HalfFed
    <3> QED BY <1>3, <1>4, <1>6, <3>1
  <2>6. HalfFed' BY <1>1, <1>2, <1>3, <1>6, <1>8, <2>5 DEF HalfFed
  <2> QED BY <1>1, <1>2, <1>8, <2>1, <2>4, <2>6 DEF ActiveInv
<1> QED BY <1>8, <1>9, <1>10, <1>11, <1>12 DEF IndexInv

LEMMA PushLocalKeeps ==
    ASSUME IndexInv, PushLocal
    PROVE  IndexInv'
<1>1. /\ pc = "tags" /\ span' = span /\ EventFed
      /\ log' = log /\ bases' = bases /\ sealed' = sealed
      /\ latched' = latched /\ rolled' = rolled
      /\ watermark' = watermark /\ snap' = snap /\ untagged = {}
  BY DEF PushLocal, logVars, coreVars
<1>2. ActiveInv /\ HalfFed /\ latched = FALSE BY <1>1 DEF IndexInv, ActiveInv, TypeInv
<1>3. tails' = [tails EXCEPT ![Active] = PushColumn(@, log[feeding].type)]
  BY DEF PushLocal
<1>4. PICK event \in Event : event = log[feeding] BY <1>1, FeedingHere
<1>5. /\ Describes(log, ActiveTail, bases[Active]) /\ ActiveTail \in TailState
      /\ bases[Active] + Len(ActiveTail.column) <= Len(log) + 1
      /\ bases[Active] \in Nat /\ feeding \in Nat /\ feeding <= Len(log)
      /\ bases[Active] + span = feeding + 1 /\ span \in Nat
  <2>1. Active \in 1 .. Len(tails) /\ SegEnd(Active) = Len(log) /\ FedTo = feeding
    BY <1>1, FeedingHere DEF FedTo
  <2> QED BY <1>1, <2>1, Here, TailHere, FeedingHere
<1>6. PICK n \in Nat : n = Len(ActiveTail.column) /\ n + 1 = span /\ bases[Active] + n = feeding
  <2>1. Len(ActiveTail.column) \in Nat /\ Len(ActiveTail.column) + 1 = span
    BY <1>1, <1>2, FeedingHere DEF HalfFed
  <2> QED BY <1>5, <2>1, SMTT(20)
<1>7. /\ event = log[bases[Active] + n] /\ Interned(event.type, ActiveTail.types)
      /\ \A t \in Tag : n \in ActiveTail.postings[t] <=> t \in event.tags
  BY <1>1, <1>2, <1>4, <1>6 DEF HalfFed
<1>8. Unique(ActiveTail.types) BY <1>5 DEF Describes
<1>9. PICK tail \in TailState :
          /\ tail = PushColumn(ActiveTail, event.type) /\ Describes(log, tail, bases[Active])
          /\ Len(tail.column) = n + 1
          /\ tail.postings = ActiveTail.postings
  <2>1. PICK old \in TailState : old = ActiveTail BY <1>5
  <2>2. PICK base \in Nat : base = bases[Active] BY <1>5
  <2>3. PICK new : new = PushColumn(old, event.type) OBVIOUS
  <2>4. /\ Describes(log, old, base) /\ n = Len(old.column) /\ event = log[base + n]
        /\ Interned(event.type, old.types) /\ Unique(old.types)
        /\ \A t \in Tag : n \in old.postings[t] <=> t \in event.tags
    BY <1>5, <1>6, <1>7, <1>8, <2>1, <2>2
  <2>5. Describes(log, new, base) /\ Len(new.column) = n + 1
    BY <2>3, <2>4, ColumnDescribes, SMTT(20)
  <2>6. new \in TailState /\ new.postings = old.postings BY <2>3, <2>4, PushColumnIs
  <2> QED BY <2>1, <2>2, <2>3, <2>5, <2>6
<1>10. tails' = [tails EXCEPT ![Active] = tail] BY <1>3, <1>4, <1>9 DEF ActiveTail
<1>11. bases[Active] + Len(tail.column) <= Len(log) + 1
  <2>1. bases[Active] + (n + 1) = feeding + 1 /\ feeding + 1 <= Len(log) + 1 /\ Len(log) \in Nat
    BY <1>5, <1>6, Here
  <2> QED BY <1>9, <2>1
<1>12. /\ tails' \in Seq(TailState) /\ Len(tails') = Len(tails)
       /\ TailsInv' /\ SealedInv' /\ BasesInv'
       /\ Active' = Active /\ ActiveTail' = tail
  BY <1>1, <1>9, <1>10, <1>11, TailMoves
<1>13. PhaseInv' /\ PublishInv' /\ FedTo' = feeding /\ pc' \in {"push", "segments", "watermark"}
  BY <1>1, <1>12, FedMoves
<1>14. TypeInv' BY <1>1, <1>12, <1>13 DEF IndexInv, TypeInv
<1>15. ActiveInv' BY <1>1, <1>2, <1>5, <1>6, <1>9, <1>12, <1>13 DEF ActiveInv
<1> QED BY <1>12, <1>13, <1>14, <1>15 DEF IndexInv

\* What IndexSet::open rebuilds for a segment.
LEMMA RebuildIs ==
    ASSUME TypeInv, BasesInv, NEW k \in 1 .. Len(bases)
    PROVE  /\ RebuildRange(k) \in [index : TailState, unindexable : BOOLEAN]
           /\ RebuildRange(k).index.reopened = RebuildRange(k).unindexable
           /\ Describes(log, RebuildRange(k).index, bases[k])
           /\ bases[k] + Len(RebuildRange(k).index.column) <= SegEnd(k) + 1
           /\ RebuildRange(k).unindexable = FALSE =>
                 /\ bases[k] + Len(RebuildRange(k).index.column) = SegEnd(k) + 1
                 /\ \A t \in Tag : \A l \in RebuildRange(k).index.postings[t] :
                       l < Len(RebuildRange(k).index.column)
<1>1. PICK b \in Nat, e \in Nat : b = bases[k] /\ e = SegEnd(k) BY SegmentEventsAre
<1>2. PICK m \in Nat : m = e - b + 1 BY <1>1, SegmentEventsAre
<1>3. PICK q : q = SegmentEvents(k) OBVIOUS
<1>4. /\ Len(q) = m /\ DOMAIN q = 1 .. m
      /\ \A i \in 1 .. m : q[i] = log[b + (i - 1)] /\ q[i] \in Appendable
  BY <1>1, <1>2, <1>3, SegmentEventsAre
<1>5. \A i \in 1 .. m : q[i] \in Event /\ IsFiniteSet(q[i].tags) BY <1>4, AppendableIs
<1>6. Rebuilt(log, FoldLeft(Feed, [index |-> EmptyTail(b), unindexable |-> FALSE], q), b, m)
  BY <1>4, <1>5, FeedsRebuild
<1>7. RebuildRange(k) = FoldLeft(Feed, [index |-> EmptyTail(b), unindexable |-> FALSE], q)
  BY <1>1, <1>3 DEF RebuildRange
<1>8. Rebuilt(log, RebuildRange(k), b, m) BY <1>6, <1>7
<1>9. PICK built : built = RebuildRange(k) OBVIOUS
<1>10. /\ built \in [index : TailState, unindexable : BOOLEAN]
       /\ built.index.reopened = built.unindexable
       /\ \E j \in 0 .. m : Knows(log, built.index, b, j) /\ (~ built.unindexable => j = m)
  BY <1>8, <1>9 DEF Rebuilt
<1>11. PICK j \in 0 .. m : Knows(log, built.index, b, j) /\ (~ built.unindexable => j = m)
  BY <1>10
<1>12. /\ Describes(log, built.index, b) /\ Len(built.index.column) = j
       /\ \A t \in Tag : \A l \in built.index.postings[t] : l < j
  BY <1>11 DEF Knows
<1>13. b + j <= e + 1 /\ (j = m => b + j = e + 1) BY <1>2
<1> QED BY <1>1, <1>9, <1>10, <1>11, <1>12, <1>13

\* IndexSet::open restores the invariant from any state of the writer.
LEMMA ReopenKeeps ==
    ASSUME IndexInv, Reopen
    PROVE  IndexInv'
<1>1. PICK kept \in SUBSET {k \in DOMAIN sealed : sealed[k].indexed} :
          /\ tails' = [k \in DOMAIN bases |-> IF k \in kept THEN tails[k]
                                              ELSE RebuildRange(k).index]
          /\ sealed' = [k \in 1 .. (Len(bases) - 1) |-> OpenSealed(k, kept)]
  BY DEF Reopen
<1>2. PICK m \in Nat, n \in Nat : m = Len(bases) /\ n = Len(log) /\ m >= 1 BY Here
<1>3. /\ log' = log /\ bases' = bases /\ pc' = "idle" /\ rolled' = FALSE /\ watermark' = n
      /\ span' = Len(SegmentEvents(m)) /\ latched' = RebuildRange(m).unindexable
      /\ snap' = Capture(bases, sealed', m)
  BY <1>2 DEF Reopen, logVars
<1>4. TypeInv /\ BasesInv /\ DOMAIN bases = 1 .. m BY <1>2 DEF IndexInv, TypeInv
<1>5. \A k \in 1 .. m :
         /\ bases[k] \in Nat /\ SegEnd(k) \in Nat /\ SegEnd(k) - bases[k] + 1 \in Nat
         /\ Len(SegmentEvents(k)) = SegEnd(k) - bases[k] + 1
  BY <1>2, <1>4, SegmentEventsAre
<1>6. \A k \in kept :
         /\ k \in 1 .. Len(sealed) /\ k \in 1 .. Len(tails) /\ k \in 1 .. m /\ k < m
         /\ sealed[k].indexed /\ tails[k] \in TailState
         /\ bases[k] + Len(tails[k].column) = bases[k + 1]
         /\ Describes(log, tails[k], bases[k])
  <2>1. \A k \in kept : k \in 1 .. Len(sealed) /\ sealed[k].indexed
    BY DEF IndexInv, TypeInv
  <2>2. \A k \in kept : k \in 1 .. Len(tails) /\ k < m /\ k \in 1 .. m BY <1>2, <2>1, Here
  <2>3. ASSUME NEW k \in kept PROVE bases[k] + Len(tails[k].column) = bases[k + 1]
    <3>1. Len(tails[k].column) = bases[k + 1] - bases[k] BY <2>1 DEF IndexInv, SealedInv
    <3>2. bases[k] \in Nat /\ bases[k + 1] \in Nat BY <1>2, <2>2, TailHere
    <3> QED BY <3>1, <3>2
  <2> QED BY <2>1, <2>2, <2>3, TailHere
<1>7. \A k \in 1 .. m :
         /\ RebuildRange(k) \in [index : TailState, unindexable : BOOLEAN]
         /\ RebuildRange(k).index.reopened = RebuildRange(k).unindexable
         /\ Describes(log, RebuildRange(k).index, bases[k])
         /\ bases[k] + Len(RebuildRange(k).index.column) <= SegEnd(k) + 1
         /\ RebuildRange(k).unindexable = FALSE =>
               /\ bases[k] + Len(RebuildRange(k).index.column) = SegEnd(k) + 1
               /\ \A t \in Tag : \A l \in RebuildRange(k).index.postings[t] :
                     l < Len(RebuildRange(k).index.column)
  BY <1>2, <1>4, RebuildIs
<1>8. \A k \in 1 .. m : k \in kept => tails'[k] = tails[k] BY <1>1, <1>4
<1>9. \A k \in 1 .. m : k \notin kept => tails'[k] = RebuildRange(k).index BY <1>1, <1>4
<1>10. \A k \in 1 .. m : tails'[k] \in TailState BY <1>6, <1>7, <1>8, <1>9
<1>11. tails' \in Seq(TailState) /\ Len(tails') = m
  <2>1. PICK t : t = tails' OBVIOUS
  <2>2. t = [k \in 1 .. m |-> t[k]] BY <1>1, <1>4, <2>1
  <2>3. \A k \in 1 .. m : t[k] \in TailState BY <1>10, <2>1
  <2>4. t \in Seq(TailState) /\ Len(t) = m BY <2>2, <2>3
  <2> QED BY <2>1, <2>4
<1>12. \A k \in 1 .. m - 1 :
          /\ sealed'[k] \in SealedSegment
          /\ sealed'[k].base = bases[k] /\ sealed'[k].count = Len(SegmentEvents(k))
          /\ sealed'[k].indexed <=> k \in kept \/ ~ RebuildRange(k).unindexable
  <2>1. ASSUME NEW k \in 1 .. m - 1
        PROVE  /\ OpenSealed(k, kept) \in SealedSegment
               /\ OpenSealed(k, kept).base = bases[k]
               /\ OpenSealed(k, kept).count = Len(SegmentEvents(k))
               /\ OpenSealed(k, kept).indexed <=> k \in kept \/ ~ RebuildRange(k).unindexable
    <3>1. PICK b \in Nat, c \in Nat : b = bases[k] /\ c = Len(SegmentEvents(k)) BY <1>5
    <3>2. PICK trusted \in BOOLEAN : trusted = (k \in kept \/ ~ RebuildRange(k).unindexable)
      OBVIOUS
    <3>3. PICK seg : seg = [base |-> b, count |-> c, indexed |-> trusted] OBVIOUS
    <3>4. seg \in SealedSegment /\ seg.base = b /\ seg.count = c /\ seg.indexed = trusted
      BY <3>3 DEF SealedSegment
    <3>5. OpenSealed(k, kept) = seg BY <3>1, <3>2, <3>3 DEF OpenSealed
    <3> QED BY <3>1, <3>2, <3>4, <3>5
  <2>2. \A k \in 1 .. m - 1 : sealed'[k] = OpenSealed(k, kept) BY <1>1, <1>2
  <2> QED BY <2>1, <2>2
<1>13. sealed' \in Seq(SealedSegment) /\ Len(sealed') = m - 1
  <2>1. PICK s : s = sealed' OBVIOUS
  <2>2. PICK j \in Nat : j = m - 1 BY <1>2
  <2>3. s = [k \in 1 .. j |-> s[k]] BY <1>1, <1>2, <2>1, <2>2
  <2>4. \A k \in 1 .. j : s[k] \in SealedSegment BY <1>12, <2>1, <2>2
  <2>5. s \in Seq(SealedSegment) /\ Len(s) = j BY <2>3, <2>4
  <2> QED BY <2>1, <2>2, <2>5
<1>14. m \in 1 .. m /\ m \notin kept /\ SegEnd(m) = n BY <1>2, <1>6 DEF SegEnd
<1>15. RebuildRange(m).unindexable \in BOOLEAN BY <1>7, <1>14
<1>16. TypeInv'
  <2>1. span' \in Nat BY <1>3, <1>5, <1>14
  <2>2. log' \in Seq(Appendable) /\ bases' \in Seq(Nat) BY <1>3, <1>4 DEF TypeInv
  <2> QED BY <1>3, <1>11, <1>13, <1>15, <2>1, <2>2 DEF TypeInv
<1>17. BasesInv' BY <1>3, <1>4 DEF BasesInv
<1>18. PhaseInv' BY <1>2, <1>3, <1>11, <1>13 DEF PhaseInv
<1>19. \A k : SegEnd(k)' = SegEnd(k) BY <1>3 DEF SegEnd
<1>20. \A k \in 1 .. m : k < m => SegEnd(k) = bases[k + 1] - 1 BY <1>2 DEF SegEnd
<1>21. TailsInv'
  <2>1. ASSUME NEW k \in 1 .. m
        PROVE  Describes(log, tails'[k], bases[k]) /\ bases[k] + Len(tails'[k].column) <= SegEnd(k) + 1
    <3>1. CASE k \in kept
      <4>1. /\ tails'[k] = tails[k] /\ SegEnd(k) = bases[k + 1] - 1 /\ k + 1 \in 1 .. m
            /\ bases[k] + Len(tails[k].column) = bases[k + 1]
            /\ Describes(log, tails[k], bases[k])
        BY <1>2, <1>6, <1>8, <1>20, <3>1
      <4>2. bases[k + 1] \in Nat /\ (bases[k + 1] - 1) + 1 = bases[k + 1] BY <1>5, <4>1
      <4> QED BY <4>1, <4>2
    <3>2. CASE k \notin kept BY <1>7, <1>9, <3>2
    <3> QED BY <3>1, <3>2
  <2> QED BY <1>3, <1>11, <1>19, <2>1 DEF TailsInv
<1>22. SealedInv'
  <2>1. ASSUME NEW k \in 1 .. m - 1
        PROVE  /\ sealed'[k].base = bases[k] /\ sealed'[k].count = bases[k + 1] - bases[k]
               /\ sealed'[k].indexed => Len(tails'[k].column) = sealed'[k].count
               /\ ~ tails'[k].unindexable /\ ~ tails'[k].reopened => sealed'[k].indexed
    <3>1. /\ k \in 1 .. m /\ k + 1 \in 1 .. m /\ bases[k] \in Nat /\ bases[k + 1] \in Nat
          /\ SegEnd(k) = bases[k + 1] - 1 /\ Len(SegmentEvents(k)) = SegEnd(k) - bases[k] + 1
      BY <1>2, <1>5, <1>20
    <3>2. sealed'[k].base = bases[k] /\ sealed'[k].count = bases[k + 1] - bases[k]
      BY <1>12, <3>1
    <3>3. tails'[k] \in TailState /\ Len(tails'[k].column) \in Nat
      BY <1>10, <3>1 DEF TailState
    <3>4. CASE k \in kept
      <4>1. sealed'[k].indexed /\ bases[k] + Len(tails'[k].column) = bases[k + 1]
        BY <1>6, <1>8, <1>12, <3>1, <3>4
      <4> QED BY <3>1, <3>2, <3>3, <4>1
    <3>5. CASE k \notin kept
      <4>1. PICK built \in [index : TailState, unindexable : BOOLEAN] : built = RebuildRange(k)
        BY <1>7, <3>1
      <4>2. /\ tails'[k] = built.index /\ built.index.reopened = built.unindexable
            /\ built.unindexable = FALSE => bases[k] + Len(built.index.column) = SegEnd(k) + 1
        BY <1>7, <1>9, <3>1, <3>5, <4>1
      <4>3. sealed'[k].indexed <=> ~ built.unindexable BY <1>12, <3>5, <4>1
      <4> QED BY <3>1, <3>2, <3>3, <4>1, <4>2, <4>3
    <3> QED BY <3>4, <3>5
  <2> QED BY <1>3, <1>13, <2>1 DEF SealedInv
<1>23. ActiveInv'
  <2>1. Active' = m /\ ActiveTail' = RebuildRange(m).index
    BY <1>9, <1>11, <1>14 DEF Active, ActiveTail
  <2>2. FedTo' = n BY <1>3, <1>14, <1>19, <2>1 DEF FedTo
  <2>3. bases[m] + span' = n + 1 /\ bases[m] \in Nat /\ span' \in Nat BY <1>3, <1>5, <1>14
  <2>4. PICK built \in [index : TailState, unindexable : BOOLEAN] : built = RebuildRange(m)
    BY <1>7, <1>14
  <2>5. /\ built.index.reopened = built.unindexable
        /\ built.unindexable = FALSE =>
              /\ bases[m] + Len(built.index.column) = n + 1
              /\ \A t \in Tag : \A l \in built.index.postings[t] : l < Len(built.index.column)
    BY <1>7, <1>14, <2>4
  <2>6. Len(built.index.column) \in Nat BY DEF TailState
  <2>7. ASSUME built.unindexable = FALSE
        PROVE  /\ Len(built.index.column) = span'
               /\ \A t \in Tag : \A l \in built.index.postings[t] : l < span'
    <3>1. Len(built.index.column) = span' BY <2>3, <2>5, <2>6, <2>7
    <3> QED BY <2>5, <2>7, <3>1
  <2> QED BY <1>3, <2>1, <2>2, <2>3, <2>4, <2>5, <2>7 DEF ActiveInv
<1>24. PublishInv'
  <2>1. snap' = [sealed |-> sealed', base |-> bases[m], tail |-> m]
    BY <1>2, <1>3 DEF Capture, Last
  <2>2. PICK s : s = snap' OBVIOUS
  <2>3. s \in Snapshot /\ s.sealed = sealed' /\ s.base = bases[m] /\ s.tail = m
    BY <1>2, <1>5, <1>13, <1>14, <2>1, <2>2 DEF Snapshot
  <2>4. SnapInv(snap)' BY <1>2, <1>3, <1>11, <1>13, <2>2, <2>3 DEF SnapInv
  <2> QED BY <1>2, <1>3, <2>2, <2>3, <2>4 DEF PublishInv
<1> QED BY <1>16, <1>17, <1>18, <1>21, <1>22, <1>23, <1>24 DEF IndexInv

\* The readers leave all of it alone.
LEMMA ReaderLeaves ==
    ASSUME Reader
    PROVE  UNCHANGED <<logVars, indexVars, writerVars, coreVars, reopens>>
BY DEF Reader, StartRead, NextPage, LoadSnapshot, ChooseScan, ChooseIndex, PlanSealed,
       PlanSealedBack, ScanLatched, TrustTail, ViewTail, ProbeType, ProbeTag, EvaluateTail,
       NextCapped, NextDone, NextScanned, NextScannedBack, NextIndexed, Reading

LEMMA IndexNext == IndexInv /\ [Next]_vars => IndexInv'
<1> SUFFICES ASSUME IndexInv, [Next]_vars PROVE IndexInv'
  OBVIOUS
<1>1. CASE Writer
  <2>1. CASE Rollover BY <2>1, RolloverKeeps
  <2>2. CASE CommitBatch BY <2>2, CommitKeeps
  <2>3. CASE SealActive BY <2>3, SealKeeps
  <2>4. CASE PushSkipped BY <2>4, PushSkippedKeeps
  <2>5. CASE PushRejected BY <2>5, PushRejectedKeeps
  <2>6. CASE PushType BY <2>6, PushTypeKeeps
  <2>7. CASE PushTag BY <2>7, PushTagKeeps
  <2>8. CASE PushLocal BY <2>8, PushLocalKeeps
  <2>9. CASE PublishSegments BY <2>9, PublishSegmentsKeeps
  <2>10. CASE PublishWatermark BY <2>10, PublishWatermarkKeeps
  <2> QED BY <1>1, <2>1, <2>2, <2>3, <2>4, <2>5, <2>6, <2>7, <2>8, <2>9, <2>10 DEF Writer
<1>2. CASE Reader BY <1>2, ReaderLeaves, IndexIdle
<1>3. CASE Reopen BY <1>3, ReopenKeeps
<1>4. CASE UNCHANGED vars BY <1>4, IndexIdle DEF vars
<1> QED BY <1>1, <1>2, <1>3, <1>4 DEF Next

\* The tails describe the segments the writer fed them with, whatever it rolled over, rejected,
\* sealed and published, and through restarts.
THEOREM IndexKnowsTheLog == Spec => []IndexInv
<1>1. Init => IndexInv BY IndexInit
<1>2. IndexInv /\ [Next]_vars => IndexInv' BY IndexNext
<1> QED BY <1>1, <1>2, PTL DEF Spec

--------------------
\* The segments cut the log into consecutive runs.
LEMMA SegmentOf ==
    ASSUME TypeInv, BasesInv, NEW p \in Nat, 1 <= p, p <= Len(log)
    PROVE  \E k \in 1 .. Len(bases) : bases[k] <= p /\ p <= SegEnd(k)
<1>1. PICK m \in Nat : m = Len(bases) /\ m >= 1 BY DEF TypeInv, BasesInv
<1> DEFINE K == {k \in 1 .. m : bases[k] <= p}
<1>2. K \subseteq Nat /\ K # {} /\ \A k \in K : k <= m
  <2>1. 1 \in K BY <1>1 DEF BasesInv
  <2> QED BY <2>1
<1>3. PICK k \in K : \A j \in K : j <= k
  <2> HIDE DEF K
  <2>1. Max(K) \in K /\ \A j \in K : j <= Max(K) BY <1>2, MaxIsGreatest
  <2> QED BY <2>1
<1>4. k \in 1 .. m /\ bases[k] <= p OBVIOUS
<1>5. CASE k = m BY <1>1, <1>4, <1>5 DEF SegEnd
<1>6. CASE k # m
  <2>1. k + 1 \in 1 .. m /\ k + 1 \in Nat /\ ~ (k + 1 <= k) BY <1>4, <1>6
  <2>2. ~ (bases[k + 1] <= p) BY <1>3, <2>1
  <2>3. bases[k + 1] \in Nat BY <1>1, <2>1 DEF TypeInv
  <2>4. p <= bases[k + 1] - 1 BY <2>2, <2>3
  <2>5. SegEnd(k) = bases[k + 1] - 1 BY <1>1, <1>6 DEF SegEnd
  <2> QED BY <1>1, <1>4, <2>4, <2>5
<1> QED BY <1>5, <1>6

LEMMA SegmentsApart ==
    ASSUME TypeInv, BasesInv, NEW j \in 1 .. Len(bases), NEW k \in 1 .. Len(bases), j < k
    PROVE  SegEnd(j) < bases[k]
<1>1. PICK m \in Nat : m = Len(bases) /\ m >= 1 BY DEF TypeInv, BasesInv
<1>2. j \in 1 .. m /\ k \in 1 .. m /\ j + 1 \in 1 .. m /\ j # m /\ j + 1 \in Nat BY <1>1
<1>3. bases[j + 1] \in Nat /\ bases[k] \in Nat BY <1>1, <1>2 DEF TypeInv
<1>4. bases[j + 1] <= bases[k]
  <2>1. CASE j + 1 = k BY <1>3, <2>1
  <2>2. CASE j + 1 # k
    <3>1. j + 1 < k BY <1>2, <2>2
    <3> QED BY <1>1, <1>2, <1>3, <3>1 DEF BasesInv
  <2> QED BY <2>1, <2>2
<1>5. SegEnd(j) = bases[j + 1] - 1 BY <1>1, <1>2 DEF SegEnd
<1> QED BY <1>3, <1>4, <1>5

\* A whole column answers for its segment as the log would.
LEMMA WholeSearch ==
    ASSUME IndexInv, NEW k \in 1 .. Len(tails), NEW query \in Query,
           bases[k] + Len(tails[k].column) = SegEnd(k) + 1
    PROVE  \A p : p \in Search(IndexSegment(tails[k]), tails[k], query) <=>
                     p \in Nat /\ bases[k] <= p /\ p <= SegEnd(k) /\ Matches(query, log[p])
<1>1. PICK tail \in TailState, base \in Nat, e \in Nat :
          tail = tails[k] /\ base = bases[k] /\ e = SegEnd(k)
  BY TailHere
<1>2. Describes(log, tail, base) /\ base + Len(tail.column) = e + 1 BY <1>1, TailHere
<1>3. \A p : p \in Search(IndexSegment(tail), tail, query) <=>
                 p \in Nat /\ base <= p /\ p < base + Len(tail.column) /\ Matches(query, log[p])
  BY <1>2, TailSearch
<1>4. \A p \in Nat : p < base + Len(tail.column) <=> p <= e BY <1>2
<1> QED BY <1>1, <1>3, <1>4

LEMMA ScanHas ==
    ASSUME TypeInv, NEW query, NEW first \in Nat, NEW last \in Nat, 1 <= first
    PROVE  \A p : p \in ScanMatches(query, first, last) <=>
                     /\ p \in Nat /\ first <= p /\ p <= last /\ p <= Len(log)
                     /\ Matches(query, log[p])
<1>1. DOMAIN log = 1 .. Len(log) /\ Len(log) \in Nat BY DEF TypeInv
<1> QED BY <1>1 DEF ScanMatches

\* Between batches the lowest match is in the first segment that has one.
LEMMA FindMatchHolds == IndexInv => FindMatchExact
<1> SUFFICES ASSUME IndexInv, pc = "idle", NEW query \in Queries, NEW after \in 0 .. Len(log)
             PROVE  FindMatch(query, after) = Lowest(ScanMatches(query, after + 1, Len(log)))
  BY DEF FindMatchExact
<1> DEFINE hits(k) == {p \in Search(IndexSegment(tails[k]), tails[k], query) : p > after}
<1> DEFINE hit == {k \in Touched(after) : hits(k) # {}}
<1> DEFINE scan == ScanMatches(query, after + 1, Len(log))
<1>1. FindMatch(query, after) =
          IF \E k \in Touched(after) : ~ Indexable(k) THEN Lowest(scan)
          ELSE IF hit = {} THEN {} ELSE Lowest(hits(Min(hit)))
  BY DEF FindMatch
<1>2. CASE \E k \in Touched(after) : ~ Indexable(k) BY <1>1, <1>2
<1>3. CASE \A k \in Touched(after) : Indexable(k)
  <2>1. PICK m \in Nat, n \in Nat : m = Len(bases) /\ n = Len(log) /\ m >= 1 /\ Active = m
                                    /\ Len(tails) = m /\ Len(sealed) = m - 1
    BY Here DEF IndexInv, PhaseInv
  <2>2. after \in Nat /\ query \in Query /\ after <= n BY <2>1, IndexReadsAssumption
  <2>3. \A k \in 1 .. m :
           /\ bases[k] \in Nat /\ 1 <= bases[k] /\ SegEnd(k) \in Nat /\ SegEnd(k) <= n
    BY <2>1, TailHere
  <2>4. /\ \A k \in 1 .. m : k < m => sealed[k].base + sealed[k].count - 1 = SegEnd(k)
        /\ ActiveTail.base + span - 1 = SegEnd(m) /\ (span > 0 <=> bases[m] <= SegEnd(m))
    <3>1. ASSUME NEW k \in 1 .. m, k < m
          PROVE  sealed[k].base + sealed[k].count - 1 = SegEnd(k)
      <4>1. k \in 1 .. Len(sealed) /\ k \in 1 .. Len(tails) /\ k < Len(bases)
        BY <2>1, <3>1
      <4>2. sealed[k].base = bases[k] /\ sealed[k].count = bases[k + 1] - bases[k]
        BY <4>1 DEF IndexInv, SealedInv
      <4>3. bases[k] \in Nat /\ bases[k + 1] \in Nat /\ SegEnd(k) = bases[k + 1] - 1
        BY <4>1, TailHere
      <4> QED BY <4>2, <4>3
    <3>2. ActiveTail.base = bases[m] BY <2>1, TailHere DEF ActiveTail, Describes
    <3>3. bases[m] + span = SegEnd(m) + 1 /\ span \in Nat
      BY <2>1 DEF IndexInv, ActiveInv, FedTo, TypeInv
    <3>4. bases[m] \in Nat /\ SegEnd(m) \in Nat BY <2>1, <2>3
    <3> QED BY <3>1, <3>2, <3>3, <3>4
  <2>5. \A k : k \in Touched(after) <=>
                  k \in 1 .. m /\ SegEnd(k) > after /\ (k = m => bases[k] <= SegEnd(k))
    BY <2>1, <2>4 DEF Touched
  <2>6. ASSUME NEW k \in Touched(after)
        PROVE  bases[k] + Len(tails[k].column) = SegEnd(k) + 1
    <3>1. k \in 1 .. m /\ Indexable(k) BY <1>3, <2>5
    <3>2. CASE k < m
      <4>1. k \in 1 .. Len(sealed) /\ k \in 1 .. Len(tails) /\ k < Len(bases) /\ sealed[k].indexed
        BY <2>1, <3>1, <3>2 DEF Indexable
      <4>2. Len(tails[k].column) = bases[k + 1] - bases[k] BY <4>1 DEF IndexInv, SealedInv
      <4>3. bases[k] \in Nat /\ bases[k + 1] \in Nat /\ SegEnd(k) = bases[k + 1] - 1
        BY <4>1, TailHere
      <4> QED BY <4>2, <4>3
    <3>3. CASE ~ (k < m)
      <4>1. k = m /\ ~ latched BY <2>1, <3>1, <3>3 DEF Indexable
      <4>2. Len(tails[m].column) = span /\ bases[m] + span = SegEnd(m) + 1
        BY <2>1, <4>1 DEF IndexInv, ActiveInv, FedTo, ActiveTail
      <4> QED BY <4>1, <4>2
    <3> QED BY <3>2, <3>3
  <2>7. \A k \in Touched(after) : \A p :
           p \in hits(k) <=> /\ p \in Nat /\ bases[k] <= p /\ p <= SegEnd(k) /\ after < p
                             /\ Matches(query, log[p])
    <3>1. ASSUME NEW k \in Touched(after)
          PROVE  \A p : p \in Search(IndexSegment(tails[k]), tails[k], query) <=>
                     p \in Nat /\ bases[k] <= p /\ p <= SegEnd(k) /\ Matches(query, log[p])
      BY <2>1, <2>2, <2>5, <2>6, WholeSearch
    <3> QED BY <2>2, <3>1
  <2>8. \A p : p \in scan <=> p \in Nat /\ after < p /\ p <= n /\ Matches(query, log[p])
    <3>1. TypeInv /\ after + 1 \in Nat /\ 1 <= after + 1 BY <2>2 DEF IndexInv
    <3>2. \A p : p \in scan <=>
                 /\ p \in Nat /\ after + 1 <= p /\ p <= n /\ p <= n
                 /\ Matches(query, log[p])
      BY <2>1, <3>1, ScanHas
    <3> QED BY <2>2, <3>2
  <2>9. ASSUME NEW p \in scan PROVE \E k \in Touched(after) : p \in hits(k)
    <3>1. p \in Nat /\ 1 <= p /\ p <= Len(log) /\ after < p /\ Matches(query, log[p])
      BY <2>1, <2>2, <2>8
    <3>2. PICK k \in 1 .. m : bases[k] <= p /\ p <= SegEnd(k)
      BY <2>1, <3>1, SegmentOf DEF IndexInv
    <3>3. SegEnd(k) > after /\ bases[k] <= SegEnd(k) BY <2>2, <2>3, <3>1, <3>2
    <3>4. k \in Touched(after) BY <2>5, <3>3
    <3> QED BY <2>7, <3>1, <3>2, <3>4
  <2>10. ASSUME NEW k \in Touched(after), NEW p \in hits(k) PROVE p \in scan
    <3>1. p \in Nat /\ p <= SegEnd(k) /\ after < p /\ Matches(query, log[p]) BY <2>7
    <3>2. SegEnd(k) \in Nat /\ SegEnd(k) <= n BY <2>3, <2>5
    <3> QED BY <2>8, <3>1, <3>2
  <2>11. CASE hit = {}
    <3>1. scan = {} BY <2>9, <2>11
    <3>2. Lowest({}) = {} BY DEF Lowest
    <3> QED BY <1>1, <1>3, <2>11, <3>1, <3>2
  <2>12. CASE hit # {}
    <3>1. hit \subseteq Nat BY <2>5
    <3>2. PICK k : k = Min(hit) /\ k \in hit /\ \A j \in hit : k <= j
      <4> HIDE DEF hit
      <4> QED BY <2>12, <3>1, MinIsLeast
    <3>3. k \in Touched(after) /\ hits(k) # {} /\ k \in 1 .. m BY <2>5, <3>2
    <3>4. PICK x \in hits(k) : x \in Nat /\ x <= SegEnd(k) BY <2>7, <3>3
    <3>5. ASSUME NEW p \in scan
          PROVE  p \in hits(k) \/ \A y \in hits(k) : y < p
      <4>1. PICK j \in Touched(after) : p \in hits(j) BY <2>9
      <4>2. j \in hit /\ k <= j /\ j \in 1 .. m BY <2>5, <3>2, <4>1
      <4>3. CASE j = k BY <4>1, <4>3
      <4>4. CASE j # k
        <5>1. k < j BY <3>3, <4>2, <4>4
        <5>2. SegEnd(k) < bases[j] BY <2>1, <3>3, <4>2, <5>1, SegmentsApart DEF IndexInv
        <5>3. bases[j] <= p /\ p \in Nat /\ SegEnd(k) \in Nat /\ bases[j] \in Nat
          BY <2>3, <2>7, <3>3, <4>1, <4>2
        <5>4. \A y \in hits(k) : y \in Nat /\ y <= SegEnd(k) BY <2>7, <3>3
        <5> QED BY <5>2, <5>3, <5>4
      <4> QED BY <4>3, <4>4
    <3>6. \A p \in scan : p \in Nat BY <2>8
    <3>7. \A p \in hits(k) : p \in scan /\ p \in Nat BY <2>10, <3>3, <3>6
    <3> HIDE DEF hits, hit, scan
    <3>8. \A p : p \in Lowest(hits(k)) <=> p \in Lowest(scan)
      <4>1. ASSUME NEW p \in Lowest(hits(k)) PROVE p \in Lowest(scan)
        <5>1. p \in hits(k) /\ \A y \in hits(k) : p <= y BY DEF Lowest
        <5>2. ASSUME NEW y \in scan PROVE p <= y BY <3>5, <3>6, <3>7, <5>1
        <5> QED BY <3>7, <5>1, <5>2 DEF Lowest
      <4>2. ASSUME NEW p \in Lowest(scan) PROVE p \in Lowest(hits(k))
        <5>1. p \in scan /\ \A y \in scan : p <= y BY DEF Lowest
        <5>2. p <= x /\ x \in Nat /\ p \in Nat BY <3>4, <3>6, <3>7, <5>1
        <5>3. p \in hits(k) BY <3>4, <3>5, <5>1, <5>2
        <5> QED BY <3>7, <5>1, <5>3 DEF Lowest
      <4> QED BY <4>1, <4>2
    <3>9. Lowest(hits(k)) = Lowest(scan) BY <3>8
    <3> QED BY <1>1, <1>3, <2>12, <3>2, <3>9 DEF scan
  <2> QED BY <2>11, <2>12
<1> QED BY <1>2, <1>3

\* find_match agrees with the scan oracle between any two batches.
THEOREM FindMatchAgrees == Spec => []FindMatchExact
<1>1. IndexInv => FindMatchExact BY FindMatchHolds
<1> QED BY <1>1, IndexKnowsTheLog, PTL

--------------------
\* The invariant of a read, stated of a read in progress.
SegmentIndexes ==
    [base : Nat, len : Nat, ids : [EventType -> Int], posts : [Tag -> SUBSET Nat]]

Planning == {"choose", "sealed", "latch", "view", "probe"}

Open == Planning \cup {"stream"}

ReadState ==
    [at : {"idle", "load", "end"} \cup Open, query : Query, dir : {"forward", "backward"},
     limit : Nat \cup {NoLimit}, cursor : Nat, watermark : Nat, snap : Snapshot,
     after : Nat, upto : Nat, access : {"done", "scan", "index"},
     index : SegmentIndexes, terms : Nat, types : SUBSET EventType, tags : SUBSET Tag,
     out : Seq(Nat), pos : Nat, left : Nat \cup {NoLimit}, hitLimit : BOOLEAN,
     err : BOOLEAN, page : Seq(Nat), joined : Seq(Nat), start : Nat, top : Nat, pages : Nat]

CapAt(limit, seq) ==
    IF limit = NoLimit THEN seq ELSE SubSeq(seq, 1, Lesser(limit, Len(seq)))

FullAt(limit, seq) == limit # NoLimit /\ Len(seq) >= limit

Found(s, first, last) == ScanMatches(s.query, first, last)

\* The pages so far: where this one begins, and what the earlier ones yielded.
PagingOK(s) ==
    s.at # "idle" =>
        /\ 1 <= s.pages /\ s.watermark <= watermark
        /\ s.pages = 1 => s.cursor = s.start
        /\ s.pages # 1 => 1 <= s.cursor /\ s.cursor <= s.watermark /\ s.top <= s.watermark
        /\ s.dir = "forward" => s.start <= s.cursor
        /\ s.dir # "forward" /\ s.pages # 1 => s.cursor <= s.top

BoundsOK(s) ==
    s.at \in Open \cup {"end"} =>
        /\ s.upto <= s.watermark
        /\ s.pages = 1 => s.top = s.upto
        /\ s.dir = "forward" => s.after = s.cursor
        /\ s.dir # "forward" => s.after = 0 /\ (s.pages # 1 => s.upto = s.cursor - 1)

Before(s) ==
    IF s.dir = "forward" THEN Found(s, s.start + 1, s.cursor)
    ELSE IF s.pages = 1 THEN {} ELSE Found(s, s.cursor, s.top)

JoinOK(s) ==
    /\ s.at = "idle" => s.joined = <<>>
    /\ s.at = "load" => Lists(s.dir, s.joined, Before(s))
    /\ s.at \in Open \cup {"end"} =>
          \E earlier : Lists(s.dir, earlier, Before(s)) /\ s.joined = earlier \o s.page

\* The pinned snapshot covers the pinned range.
PinnedOK(s) ==
    s.at \in Open => SnapInv(s.snap) /\ s.upto <= SegEnd(s.snap.tail)

\* What has been planned: the segments already searched, in the read's order.
PlanOK(s) ==
    s.at \in Planning =>
        /\ s.after < s.upto /\ s.limit # 0 /\ s.left = s.limit
        /\ s.page = <<>> /\ ~ s.hitLimit
        /\ s.at = "choose" => s.out = <<>>
        /\ s.at # "choose" => s.access = "index"
        /\ s.at = "sealed" =>
              IF s.dir = "forward" THEN s.out = <<>>
              ELSE /\ Lists(s.dir, s.out, Found(s, s.snap.base, s.upto))
                   /\ ~ FullAt(s.limit, s.out)
        /\ s.at \in {"latch", "view", "probe"} =>
              /\ s.snap.base <= s.upto
              /\ IF s.dir = "forward"
                 THEN /\ Lists(s.dir, s.out, Found(s, s.after + 1, s.snap.base - 1))
                      /\ ~ FullAt(s.limit, s.out)
                 ELSE s.out = <<>>

\* The view reaches to the pinned end, and every probe so far saw the tail as of that end or
\* later.
TailOf(s) == tails[s.snap.tail]

ProbeOK(s) ==
    /\ s.at \in {"view", "probe"} => s.upto < s.snap.base + Len(TailOf(s).column)
    /\ s.at = "probe" =>
          /\ s.index.base = s.snap.base
          /\ s.index.len = s.upto - s.snap.base + 1
          /\ \A item \in s.query.items :
                /\ \A type \in item.types :
                      type \notin s.types => SeesType(log, s.index, TailOf(s), s.snap.base, type)
                /\ \A tag \in item.tags :
                      tag \notin s.tags => SeesTag(log, s.index, s.snap.base, tag)
          /\ \A l \in Nat : l < s.index.len => \A t \in log[s.snap.base + l].tags :
                Interned(t, TailOf(s).terms) /\ IdOf(t, TailOf(s).terms) < s.terms

\* What has been yielded, and what is still planned or to be scanned.
StreamOK(s) ==
    s.at = "stream" =>
        /\ ~ s.hitLimit
        /\ s.limit = NoLimit => s.left = NoLimit
        /\ s.limit # NoLimit => s.left \in Nat /\ s.left + Len(s.page) = s.limit
        /\ s.access = "done" => s.page = <<>> /\ (s.limit = 0 \/ s.upto <= s.after)
        /\ s.access = "scan" =>
              IF s.dir = "forward"
              THEN /\ s.after < s.pos /\ s.pos <= s.upto + 1
                   /\ Lists(s.dir, s.page, Found(s, s.after + 1, s.pos - 1))
              ELSE /\ s.after <= s.pos /\ s.pos <= s.upto
                   /\ Lists(s.dir, s.page, Found(s, s.pos + 1, s.upto))
        /\ s.access = "index" =>
              \E all : /\ Lists(s.dir, all, Found(s, s.after + 1, s.upto))
                       /\ s.page \o s.out = CapAt(s.limit, all)

EndOK(s) ==
    /\ ~ s.err
    /\ s.at = "end" =>
          \E all : /\ Lists(s.dir, all, Found(s, s.after + 1, s.upto))
                   /\ s.page = CapAt(s.limit, all)
                   /\ ~ s.hitLimit => s.page = all

ReadOK(s) ==
    /\ s \in ReadState /\ PagingOK(s) /\ BoundsOK(s) /\ JoinOK(s) /\ PinnedOK(s)
    /\ PlanOK(s) /\ ProbeOK(s) /\ StreamOK(s) /\ EndOK(s)

ReadInv == IndexInv /\ (~ LatchLost => ReadOK(r))

LEMMA LesserIs == \A x, y \in Int : Lesser(x, y) = IF x <= y THEN x ELSE y
<1> SUFFICES ASSUME NEW x \in Int, NEW y \in Int
             PROVE  Lesser(x, y) = IF x <= y THEN x ELSE y
  OBVIOUS
<1>1. \E m \in {x, y} : \A z \in {x, y} : m <= z OBVIOUS
<1>2. Min({x, y}) \in {x, y} /\ \A z \in {x, y} : Min({x, y}) <= z BY <1>1 DEF Min
<1> QED BY <1>2 DEF Lesser

LEMMA GreaterIs == \A x, y \in Int : Max({x, y}) = IF x <= y THEN y ELSE x
<1> SUFFICES ASSUME NEW x \in Int, NEW y \in Int
             PROVE  Max({x, y}) = IF x <= y THEN y ELSE x
  OBVIOUS
<1>1. \E m \in {x, y} : \A z \in {x, y} : m >= z OBVIOUS
<1>2. Max({x, y}) \in {x, y} /\ \A z \in {x, y} : Max({x, y}) >= z BY <1>1 DEF Max
<1> QED BY <1>2

\* The ends of a range of positions lie within the log.
LEMMA JustBelow ==
    \A b, u, n \in Nat : 1 <= b /\ b <= u + 1 /\ u <= n => b - 1 \in Nat /\ b - 1 <= n
OBVIOUS

LEMMA InReach ==
    \A b, u, n \in Nat : 1 <= b /\ u <= n => \A l \in Nat : l < u - b + 1 => b + l \in 1 .. n
OBVIOUS

\* The cap on what a read plans.
LEMMA CapIs ==
    ASSUME NEW limit \in Nat \cup {NoLimit}, NEW w \in Seq(Nat)
    PROVE  /\ limit = NoLimit => CapAt(limit, w) = w
           /\ limit # NoLimit /\ limit <= Len(w) =>
                 /\ limit \in Nat /\ CapAt(limit, w) = SubSeq(w, 1, limit)
                 /\ Len(CapAt(limit, w)) = limit
           /\ limit # NoLimit /\ Len(w) <= limit => CapAt(limit, w) = w
           /\ CapAt(limit, w) \in Seq(Nat)
           /\ Len(CapAt(limit, w)) <= Len(w)
           /\ \A i \in 1 .. Len(CapAt(limit, w)) : CapAt(limit, w)[i] = w[i]
<1>1. Len(w) \in Nat /\ SubSeq(w, 1, Len(w)) = w OBVIOUS
<1>2. CASE limit = NoLimit BY <1>1, <1>2 DEF CapAt
<1>3. CASE limit # NoLimit
  <2>1. PICK n \in Nat : n = limit BY <1>3
  <2>2. PICK m \in Nat : m = Len(w) BY <1>1
  <2>3. Lesser(n, m) = IF n <= m THEN n ELSE m BY LesserIs
  <2>4. CASE n <= m
    <3>1. Lesser(limit, Len(w)) = n BY <2>1, <2>2, <2>3, <2>4
    <3>2. CapAt(limit, w) = SubSeq(w, 1, n) BY <1>3, <3>1 DEF CapAt
    <3>3. \A i \in 1 .. n : i \in 1 .. m /\ w[i] \in Nat BY <2>2, <2>4
    <3>4. /\ SubSeq(w, 1, n) \in Seq(Nat) /\ Len(SubSeq(w, 1, n)) = n
          /\ \A i \in 1 .. n : SubSeq(w, 1, n)[i] = w[i]
      BY <2>2, <2>4, <3>3
    <3>5. m <= n => SubSeq(w, 1, n) = w
      <4>1. m <= n => m = n BY <2>4
      <4> QED BY <1>1, <2>2, <4>1
    <3> QED BY <1>3, <2>1, <2>2, <2>4, <3>2, <3>4, <3>5
  <2>5. CASE ~ (n <= m)
    <3>1. Lesser(limit, Len(w)) = Len(w) BY <2>1, <2>2, <2>3, <2>5
    <3>2. CapAt(limit, w) = w BY <1>1, <1>3, <3>1 DEF CapAt
    <3>3. ~ (limit <= Len(w)) /\ Len(w) <= Len(w) BY <2>1, <2>2, <2>5
    <3> QED BY <1>3, <3>2, <3>3
  <2> QED BY <2>4, <2>5
<1> QED BY <1>2, <1>3

LEMMA CapFull ==
    ASSUME NEW limit \in Nat \cup {NoLimit}, NEW w \in Seq(Nat), NEW t \in Seq(Nat)
    PROVE  /\ FullAt(limit, CapAt(limit, w)) => CapAt(limit, w \o t) = CapAt(limit, w)
           /\ ~ FullAt(limit, CapAt(limit, w)) => CapAt(limit, w) = w
<1>1. w \o t \in Seq(Nat) /\ Len(w \o t) = Len(w) + Len(t) /\ Len(w) \in Nat /\ Len(t) \in Nat
      /\ \A i \in 1 .. Len(w) : (w \o t)[i] = w[i]
  OBVIOUS
<1>2. ASSUME FullAt(limit, CapAt(limit, w)) PROVE CapAt(limit, w \o t) = CapAt(limit, w)
  <2>1. limit # NoLimit /\ limit \in Nat /\ Len(CapAt(limit, w)) >= limit
    BY <1>2 DEF FullAt
  <2>2. Len(CapAt(limit, w)) <= Len(w) /\ Len(CapAt(limit, w)) \in Nat BY CapIs
  <2>3. limit <= Len(w) /\ limit <= Len(w \o t) BY <1>1, <2>1, <2>2
  <2>4. CapAt(limit, w) = SubSeq(w, 1, limit) BY <2>1, <2>3, CapIs
  <2>5. CapAt(limit, w \o t) = SubSeq(w \o t, 1, limit) BY <1>1, <2>1, <2>3, CapIs
  <2>6. SubSeq(w \o t, 1, limit) = SubSeq(w, 1, limit) BY <1>1, <2>1, <2>3
  <2> QED BY <2>4, <2>5, <2>6
<1>3. ASSUME ~ FullAt(limit, CapAt(limit, w)) PROVE CapAt(limit, w) = w
  <2>1. CASE limit = NoLimit BY <2>1, CapIs
  <2>2. CASE limit # NoLimit
    <3>1. limit \in Nat /\ ~ (Len(CapAt(limit, w)) >= limit) BY <1>3, <2>2 DEF FullAt
    <3>2. ~ (limit <= Len(w)) BY <2>2, <3>1, CapIs
    <3>3. Len(w) <= limit BY <1>1, <3>1, <3>2
    <3> QED BY <2>2, <3>3, CapIs
  <2> QED BY <2>1, <2>2
<1> QED BY <1>2, <1>3

LEMMA CapsAre ==
    \A w : (Capped(w) = CapAt(r.limit, w)) /\ (Full(w) <=> FullAt(r.limit, w))
BY DEF Capped, CapAt, Full, FullAt

\* The matches of a range, in the read's order.
LEMMA OrderedFound ==
    ASSUME TypeInv, NEW query, NEW first \in Nat, NEW last \in Nat, 1 <= first
    PROVE  Lists(r.dir, Ordered(ScanMatches(query, first, last)), ScanMatches(query, first, last))
<1>1. \A p \in ScanMatches(query, first, last) : p \in Nat /\ p < last + 1 BY ScanHas
<1>2. last + 1 \in Nat OBVIOUS
<1> QED BY <1>1, <1>2, OrderedLists

\* Every position of the pinned range is in a segment the snapshot names.
LEMMA HeldAll ==
    ASSUME IndexInv, SnapInv(r.snap), NEW p \in Nat, 1 <= p, p <= SegEnd(r.snap.tail)
    PROVE  Held(p)
<1>1. PICK s \in Snapshot : s = r.snap BY DEF SnapInv
<1>2. PICK m \in Nat, j \in Nat : m = Len(bases) /\ j = s.tail /\ 1 <= j /\ j <= m /\ j <= Len(tails)
  BY <1>1, Here, SMTT(20) DEF SnapInv, Snapshot
<1>3. /\ s.base = bases[j] /\ Len(s.sealed) = j - 1
      /\ \A k \in 1 .. j - 1 : s.sealed[k].base = bases[k]
      /\ DOMAIN s.sealed = 1 .. j - 1
  <2>1. \A k \in 1 .. j - 1 : s.sealed[k] = sealed[k] /\ k \in 1 .. Len(sealed)
    <3>1. PICK n \in Nat : n = Len(sealed) /\ n + 1 = Len(tails) BY Here
    <3>2. Len(s.sealed) = j - 1 /\ \A k \in 1 .. Len(s.sealed) : s.sealed[k] = sealed[k]
      BY <1>1, <1>2 DEF SnapInv
    <3>3. \A k \in 1 .. j - 1 : k \in 1 .. n
      BY ONLY n \in Nat, m \in Nat, j \in Nat, <1>2, <3>1
    <3> QED BY <3>1, <3>2, <3>3
  <2>2. \A k \in 1 .. j - 1 : sealed[k].base = bases[k] BY <2>1 DEF IndexInv, SealedInv
  <2>3. s.sealed \in Seq(SealedSegment) /\ Len(s.sealed) = j - 1 /\ s.base = bases[j]
    BY <1>1, <1>2 DEF SnapInv, Snapshot
  <2> QED BY <2>1, <2>2, <2>3
<1>4. \A k \in 1 .. m :
         /\ bases[k] \in Nat /\ SegEnd(k) \in Nat /\ SegEnd(k) <= Len(log)
         /\ Len(SegmentEvents(k)) = SegEnd(k) - bases[k] + 1
  BY <1>2, SegmentEventsAre DEF IndexInv
<1>5. \A i, k \in 1 .. m : i < k => bases[i] < bases[k] BY <1>2 DEF IndexInv, BasesInv
<1>6. j \in 1 .. m /\ p <= SegEnd(j) /\ p <= Len(log) /\ Len(log) \in Nat
  <2>1. j \in 1 .. m /\ p <= SegEnd(j) /\ Len(log) \in Nat BY <1>1, <1>2, Here
  <2> QED BY <1>4, <2>1
<1>7. PICK k \in 1 .. m : bases[k] <= p /\ p <= SegEnd(k)
  BY <1>2, <1>6, SegmentOf DEF IndexInv
<1>8. k <= j
  <2>1. CASE j < k
    <3>1. SegEnd(j) < bases[k] BY <1>2, <1>6, <2>1, SegmentsApart DEF IndexInv
    <3> QED BY <1>4, <1>6, <1>7, <3>1
  <2> QED BY <2>1, <1>2
<1>9. Locate(r.snap, p) = bases[k]
  <2>1. CASE k = j BY <1>1, <1>3, <1>7, <2>1 DEF Locate
  <2>2. CASE k # j
    <3>1. k < j /\ k \in 1 .. j - 1 BY <1>2, <1>8, <2>2
    <3>2. SegEnd(k) < bases[j] BY <1>2, <1>6, <3>1, SegmentsApart DEF IndexInv
    <3>3. ~ (p >= s.base) BY <1>3, <1>4, <1>6, <1>7, <3>2
    <3> DEFINE T == {0} \cup {s.sealed[i].base : i \in {h \in DOMAIN s.sealed : s.sealed[h].base <= p}}
    <3>4. \A x : x \in T <=> x = 0 \/ \E i \in 1 .. j - 1 : bases[i] <= p /\ x = bases[i]
      BY <1>3
    <3>5. Locate(r.snap, p) = Max(T) BY <1>1, <3>3 DEF Locate
    <3> HIDE DEF T
    <3>6. \A x \in T : x \in Nat /\ x <= p
      <4>1. \A i \in 1 .. j - 1 : bases[i] \in Nat BY <1>2, <1>4
      <4> QED BY <3>4, <4>1
    <3>7. T # {} /\ T \subseteq Nat BY <3>4, <3>6
    <3>8. Max(T) \in T /\ \A x \in T : x <= Max(T) BY <3>6, <3>7, MaxIsGreatest
    <3>9. bases[k] \in T BY <1>7, <3>1, <3>4
    <3>10. \A x \in T : x <= bases[k]
      <4>1. ASSUME NEW i \in 1 .. j - 1, bases[i] <= p PROVE bases[i] <= bases[k]
        <5>1. i \in 1 .. m /\ i \in Nat /\ k \in Nat BY <1>2
        <5>2. ~ (k < i)
          <6>1. SUFFICES ASSUME k < i PROVE FALSE OBVIOUS
          <6>2. SegEnd(k) < bases[i] BY <1>2, <5>1, <6>1, SegmentsApart DEF IndexInv
          <6> QED BY <1>4, <1>7, <4>1, <5>1, <6>2
        <5>3. i = k \/ i < k BY <5>1, <5>2
        <5> QED BY <1>4, <1>5, <5>1, <5>3
      <4> QED BY <1>4, <3>4, <4>1
    <3>11. Max(T) = bases[k]
      <4>1. Max(T) \in Nat /\ bases[k] \in Nat /\ Max(T) <= bases[k] /\ bases[k] <= Max(T)
        BY <1>4, <3>6, <3>8, <3>9, <3>10
      <4> QED BY <4>1
    <3> QED BY <3>5, <3>11
  <2> QED BY <2>1, <2>2
<1>10. p - bases[k] < Len(SegmentEvents(k)) BY <1>4, <1>7
<1>11. k \in DOMAIN bases BY <1>2 DEF IndexInv, TypeInv
<1> QED BY <1>9, <1>10, <1>11 DEF Held

--------------------
\* What the writer does to what a reader has pinned: the log, the columns, the interners and the
\* list of sealed segments only grow.
TailGrew(t, u) ==
    /\ Len(t.column) <= Len(u.column)
    /\ \A y : Interned(y, t.types) => Interned(y, u.types) /\ IdOf(y, u.types) = IdOf(y, t.types)
    /\ \A y : Interned(y, t.terms) => Interned(y, u.terms) /\ IdOf(y, u.terms) = IdOf(y, t.terms)

SegmentGrew(k) ==
    /\ k <= Len(tails') /\ bases'[k] = bases[k] /\ SegEnd(k) <= SegEnd(k)'
    /\ TailGrew(tails[k], tails'[k])
    /\ tails[k].reopened => tails'[k].reopened

Grew ==
    /\ Len(log) <= Len(log') /\ \A p \in 1 .. Len(log) : log'[p] = log[p]
    /\ \A k \in 1 .. Len(tails) : SegmentGrew(k)
    /\ \A k \in 1 .. Len(sealed) : k <= Len(sealed') /\ sealed'[k] = sealed[k]
    /\ watermark <= watermark'
    /\ r' = r

LEMMA TailGrewSame ==
    ASSUME NEW t \in TailState, NEW u, u = t
    PROVE  TailGrew(t, u)
<1>1. Len(t.column) \in Nat BY DEF TailState
<1> QED BY <1>1 DEF TailGrew

LEMMA SameGrew ==
    ASSUME IndexInv, log' = log, bases' = bases, tails' = tails, sealed' = sealed,
           watermark' \in Nat, watermark <= watermark', r' = r
    PROVE  Grew
<1>1. ASSUME NEW k \in 1 .. Len(tails) PROVE SegmentGrew(k)
  <2>1. SegEnd(k) \in Nat /\ SegEnd(k)' = SegEnd(k) /\ tails[k] \in TailState
    BY TailHere DEF SegEnd
  <2>2. TailGrew(tails[k], tails'[k]) BY <2>1, TailGrewSame
  <2>3. k <= Len(tails') BY Here
  <2> QED BY <2>1, <2>2, <2>3 DEF SegmentGrew
<1>2. Len(log) <= Len(log') /\ \A k \in 1 .. Len(sealed) : k <= Len(sealed') BY Here
<1> QED BY <1>1, <1>2 DEF Grew

LEMMA ActiveGrew ==
    ASSUME IndexInv, pc \in {"push", "tags"}, log' = log, bases' = bases, sealed' = sealed,
           watermark' = watermark, r' = r, NEW tail \in TailState,
           tails' = [tails EXCEPT ![Active] = tail],
           TailGrew(ActiveTail, tail), tail.reopened = ActiveTail.reopened
    PROVE  Grew
<1>1. /\ Len(tails') = Len(tails) /\ tails'[Active] = tail
      /\ \A j \in 1 .. Len(tails) : j # Active => tails'[j] = tails[j]
  <2>1. tails \in Seq(TailState) /\ Active \in 1 .. Len(tails)
    BY FeedingHere DEF IndexInv, TypeInv
  <2> QED BY <2>1, SeqExcept
<1>2. ASSUME NEW k \in 1 .. Len(tails) PROVE SegmentGrew(k)
  <2>1. SegEnd(k) \in Nat /\ SegEnd(k)' = SegEnd(k) /\ tails[k] \in TailState
    BY TailHere DEF SegEnd
  <2>2. k <= Len(tails') BY <1>1, Here
  <2>3. CASE k = Active
    <3>1. ActiveTail = tails[k] BY <2>3 DEF ActiveTail
    <3> QED BY <1>1, <2>1, <2>2, <2>3, <3>1 DEF SegmentGrew
  <2>4. CASE k # Active
    <3>1. tails'[k] = tails[k] BY <1>1, <2>4
    <3>2. TailGrew(tails[k], tails'[k]) BY <2>1, <3>1, TailGrewSame
    <3> QED BY <2>1, <2>2, <3>1, <3>2 DEF SegmentGrew
  <2> QED BY <2>3, <2>4
<1>3. Len(log) <= Len(log') /\ \A k \in 1 .. Len(sealed) : k <= Len(sealed') BY Here
<1>4. watermark <= watermark' BY DEF IndexInv, TypeInv
<1> QED BY <1>2, <1>3, <1>4 DEF Grew

LEMMA RolloverGrew ==
    ASSUME IndexInv, Rollover
    PROVE  Grew
<1>1. /\ bases' = Append(bases, Len(log) + 1) /\ log' = log /\ tails' = tails /\ sealed' = sealed
      /\ watermark' = watermark /\ r' = r
  BY DEF Rollover, indexVars, coreVars
<1>2. PICK m \in Nat, n \in Nat : m = Len(bases) /\ n = Len(log) /\ m >= 1 /\ Len(tails) <= m
  BY Here
<1>3. /\ Len(bases') = m + 1 /\ bases'[m + 1] = n + 1
      /\ \A j \in 1 .. m : bases'[j] = bases[j]
  BY <1>1, <1>2, SeqAppend DEF IndexInv, TypeInv
<1>4. ASSUME NEW k \in 1 .. Len(tails) PROVE SegmentGrew(k)
  <2>1. SegEnd(k) \in Nat /\ tails[k] \in TailState /\ k \in 1 .. m BY <1>2, TailHere
  <2>2. SegEnd(k)' = SegEnd(k) BY <1>1, <1>2, <1>3, <2>1 DEF SegEnd
  <2>3. TailGrew(tails[k], tails'[k]) BY <1>1, <2>1, TailGrewSame
  <2>4. k <= Len(tails') BY <1>1, Here
  <2> QED BY <1>1, <1>3, <2>1, <2>2, <2>3, <2>4 DEF SegmentGrew
<1>5. Len(log) <= Len(log') /\ \A k \in 1 .. Len(sealed) : k <= Len(sealed') BY <1>1, Here
<1>6. watermark <= watermark' BY <1>1 DEF IndexInv, TypeInv
<1> QED BY <1>1, <1>4, <1>5, <1>6 DEF Grew

LEMMA CommitGrew ==
    ASSUME IndexInv, CommitBatch
    PROVE  Grew
<1>1. /\ bases' = bases /\ tails' = tails /\ sealed' = sealed /\ watermark' = watermark /\ r' = r
  BY DEF CommitBatch, indexVars, coreVars
<1>2. PICK m \in Nat, n \in Nat : m = Len(bases) /\ n = Len(log) /\ m >= 1 BY Here
<1>3. PICK d \in Nat \ {0} : \E batch \in [1 .. d -> Appendable] : log' = log \o batch
  BY DEF CommitBatch
<1>4. PICK batch \in [1 .. d -> Appendable] : log' = log \o batch BY <1>3
<1>5. Len(log') = n + d /\ \A p \in 1 .. n : log'[p] = log[p]
  <2>1. batch \in Seq(Appendable) /\ Len(batch) = d OBVIOUS
  <2>2. log \in Seq(Appendable) BY DEF IndexInv, TypeInv
  <2>4. Len(log \o batch) = n + d BY <1>2, <2>1, <2>2
  <2>5. \A p \in 1 .. n : (log \o batch)[p] = log[p] BY <1>2, <2>1, <2>2
  <2> QED BY <1>4, <2>4, <2>5
<1>6. ASSUME NEW k \in 1 .. Len(tails) PROVE SegmentGrew(k)
  <2>1. SegEnd(k) \in Nat /\ SegEnd(k) <= n /\ tails[k] \in TailState BY <1>2, TailHere
  <2>2. SegEnd(k)' = IF k = m THEN n + d ELSE SegEnd(k) BY <1>1, <1>2, <1>5 DEF SegEnd
  <2>3. SegEnd(k) <= SegEnd(k)' BY <2>1, <2>2
  <2>4. TailGrew(tails[k], tails'[k]) BY <1>1, <2>1, TailGrewSame
  <2>5. k <= Len(tails') BY <1>1, Here
  <2> QED BY <1>1, <2>3, <2>4, <2>5 DEF SegmentGrew
<1>7. Len(log) <= Len(log') /\ \A k \in 1 .. Len(sealed) : k <= Len(sealed')
  BY <1>1, <1>2, <1>5, Here
<1>8. watermark <= watermark' BY <1>1 DEF IndexInv, TypeInv
<1> QED BY <1>1, <1>2, <1>5, <1>6, <1>7, <1>8 DEF Grew

LEMMA SealGrew ==
    ASSUME IndexInv, SealActive
    PROVE  Grew
<1>1. /\ sealed' = Append(sealed, [base |-> ActiveTail.base, count |-> span, indexed |-> ~ latched])
      /\ tails' = Append(tails, EmptyTail(feeding)) /\ pc = "seal"
      /\ log' = log /\ bases' = bases /\ watermark' = watermark /\ r' = r
  BY DEF SealActive, logVars, coreVars
<1>2. PICK seg : seg = [base |-> ActiveTail.base, count |-> span, indexed |-> ~ latched]
  OBVIOUS
<1>3. PICK tail : tail = EmptyTail(feeding) OBVIOUS
<1>4. PICK m \in Nat, j \in Nat : m = Len(tails) /\ j = Len(sealed) BY Here
<1>5. Len(tails') = m + 1 /\ \A k \in 1 .. m : tails'[k] = tails[k]
  <2>1. feeding \in Nat BY <1>1 DEF IndexInv, PhaseInv
  <2>2. tail \in TailState BY <1>3, <2>1, EmptyTailDescribes
  <2>3. tails \in Seq(TailState) /\ tails' = Append(tails, tail)
    BY <1>1, <1>3 DEF IndexInv, TypeInv
  <2> QED BY <1>4, <2>2, <2>3, SeqAppend
<1>6. Len(sealed') = j + 1 /\ \A k \in 1 .. j : sealed'[k] = sealed[k]
  <2>1. sealed \in Seq(SealedSegment \cup {seg}) /\ sealed' = Append(sealed, seg)
    BY <1>1, <1>2 DEF IndexInv, TypeInv
  <2> QED BY <1>4, <2>1, SeqAppend
<1>7. ASSUME NEW k \in 1 .. Len(tails) PROVE SegmentGrew(k)
  <2>1. SegEnd(k) \in Nat /\ SegEnd(k)' = SegEnd(k) /\ tails[k] \in TailState
    BY <1>1, TailHere DEF SegEnd
  <2>2. tails'[k] = tails[k] /\ k <= Len(tails') BY <1>4, <1>5
  <2>3. TailGrew(tails[k], tails'[k]) BY <2>1, <2>2, TailGrewSame
  <2> QED BY <1>1, <2>1, <2>2, <2>3 DEF SegmentGrew
<1>8. \A k \in 1 .. Len(sealed) : k <= Len(sealed') /\ sealed'[k] = sealed[k]
  BY <1>4, <1>6
<1>9. watermark <= watermark' /\ Len(log) <= Len(log') BY <1>1, Here DEF IndexInv, TypeInv
<1> QED BY <1>1, <1>7, <1>8, <1>9 DEF Grew

LEMMA WriterGrows ==
    ASSUME IndexInv, Writer
    PROVE  Grew
<1>1. CASE Rollover BY <1>1, RolloverGrew
<1>2. CASE CommitBatch BY <1>2, CommitGrew
<1>3. CASE SealActive BY <1>3, SealGrew
<1>4. CASE PushSkipped
  <2>1. log' = log /\ bases' = bases /\ tails' = tails /\ sealed' = sealed
        /\ watermark' = watermark /\ r' = r /\ watermark \in Nat
    BY <1>4 DEF PushSkipped, logVars, coreVars, IndexInv, TypeInv
  <2> QED BY <2>1, SameGrew
<1>5. CASE PushRejected
  <2>1. /\ pc = "push" /\ log' = log /\ bases' = bases /\ sealed' = sealed
        /\ watermark' = watermark /\ r' = r
    BY <1>5 DEF PushRejected, logVars, coreVars
  <2>2. tails' = [tails EXCEPT ![Active].unindexable = TRUE] BY <1>5 DEF PushRejected
  <2>3. PICK old \in TailState : old = ActiveTail BY Here
  <2>4. PICK new : new = [old EXCEPT !.unindexable = TRUE] OBVIOUS
  <2>5. /\ new \in TailState /\ new.reopened = old.reopened
        /\ new.types = old.types /\ new.column = old.column /\ new.terms = old.terms
    BY <2>4 DEF TailState
  <2>6. tails' = [tails EXCEPT ![Active] = new]
    BY <2>1, <2>2, <2>3, <2>4, FeedingHere DEF ActiveTail, IndexInv, TypeInv
  <2>7. TailGrew(old, old) BY TailGrewSame
  <2>8. TailGrew(old, new) BY <2>5, <2>7 DEF TailGrew
  <2> QED BY <2>1, <2>3, <2>5, <2>6, <2>8, ActiveGrew
<1>6. CASE PushType
  <2>1. /\ pc = "push" /\ log' = log /\ bases' = bases /\ sealed' = sealed
        /\ watermark' = watermark /\ r' = r
    BY <1>6 DEF PushType, logVars, coreVars
  <2>2. PICK type \in EventType : type = log[feeding].type BY <2>1, FeedingHere
  <2>3. PICK old \in TailState : old = ActiveTail /\ Unique(old.types)
    BY <2>1, Here, TailHere, FeedingHere DEF Describes
  <2>4. PICK new : new = InternType(old, type) OBVIOUS
  <2>5. /\ new \in TailState /\ new.reopened = old.reopened
        /\ new.types = Intern(type, old.types) /\ new.column = old.column /\ new.terms = old.terms
    BY <2>4, InternTypeIs
  <2>6. tails' = [tails EXCEPT ![Active] = new]
    BY <1>6, <2>2, <2>3, <2>4 DEF PushType, ActiveTail
  <2>7. TailGrew(old, old) BY TailGrewSame
  <2>8. PICK ts \in Seq(EventType) : ts = old.types BY DEF TailState
  <2>9. \A y : Interned(y, ts) => Interned(y, Intern(type, ts)) /\ IdOf(y, Intern(type, ts)) = IdOf(y, ts)
    BY <2>3, <2>8, InternKeeps
  <2>10. TailGrew(old, new) BY <2>5, <2>7, <2>8, <2>9 DEF TailGrew
  <2> QED BY <2>1, <2>3, <2>5, <2>6, <2>10, ActiveGrew
<1>7. CASE PushTag
  <2>1. /\ pc = "tags" /\ log' = log /\ bases' = bases /\ sealed' = sealed
        /\ watermark' = watermark /\ r' = r /\ untagged # {}
    BY <1>7 DEF PushTag, logVars, coreVars
  <2>2. PICK tag \in untagged : tails' = [tails EXCEPT ![Active] = PushTerm(@, tag)]
    BY <1>7, <2>1 DEF PushTag
  <2>3. tag \in Tag BY <2>1, FeedingHere DEF IndexInv, ActiveInv, HalfFed
  <2>4. PICK old \in TailState : old = ActiveTail /\ Unique(old.terms)
    BY <2>1, Here, TailHere, FeedingHere DEF Describes
  <2>5. PICK new : new = PushTerm(old, tag) OBVIOUS
  <2>6. /\ new \in TailState /\ new.reopened = old.reopened
        /\ new.terms = Intern(tag, old.terms) /\ new.column = old.column /\ new.types = old.types
    BY <2>3, <2>5, PushTermIs
  <2>7. tails' = [tails EXCEPT ![Active] = new] BY <2>2, <2>4, <2>5 DEF ActiveTail
  <2>8. TailGrew(old, old) BY TailGrewSame
  <2>9. PICK ts \in Seq(Tag) : ts = old.terms BY DEF TailState
  <2>10. \A y : Interned(y, ts) => Interned(y, Intern(tag, ts)) /\ IdOf(y, Intern(tag, ts)) = IdOf(y, ts)
    BY <2>3, <2>4, <2>9, InternKeeps
  <2>11. TailGrew(old, new) BY <2>6, <2>8, <2>9, <2>10 DEF TailGrew
  <2> QED BY <2>1, <2>4, <2>6, <2>7, <2>11, ActiveGrew
<1>8. CASE PushLocal
  <2>1. /\ pc = "tags" /\ log' = log /\ bases' = bases /\ sealed' = sealed
        /\ watermark' = watermark /\ r' = r
    BY <1>8 DEF PushLocal, logVars, coreVars
  <2>2. PICK type : type = log[feeding].type OBVIOUS
  <2>3. PICK old \in TailState : old = ActiveTail /\ Unique(old.types) /\ Interned(type, old.types)
    BY <2>1, <2>2, Here, TailHere, FeedingHere DEF Describes, IndexInv, ActiveInv, HalfFed
  <2>4. PICK new : new = PushColumn(old, type) OBVIOUS
  <2>5. /\ new \in TailState /\ new.reopened = old.reopened
        /\ new.column = Append(old.column, IdOf(type, old.types))
        /\ new.types = old.types /\ new.terms = old.terms
    BY <2>3, <2>4, PushColumnIs
  <2>6. tails' = [tails EXCEPT ![Active] = new]
    BY <1>8, <2>2, <2>3, <2>4 DEF PushLocal, ActiveTail
  <2>7. TailGrew(old, old) BY TailGrewSame
  <2>8. Len(old.column) \in Nat /\ Len(new.column) = Len(old.column) + 1
    BY <2>5 DEF TailState
  <2>9. TailGrew(old, new) BY <2>5, <2>7, <2>8 DEF TailGrew
  <2> QED BY <2>1, <2>3, <2>5, <2>6, <2>9, ActiveGrew
<1>9. CASE PublishSegments
  <2>1. log' = log /\ bases' = bases /\ tails' = tails /\ sealed' = sealed
        /\ watermark' = watermark /\ r' = r /\ watermark \in Nat
    BY <1>9 DEF PublishSegments, logVars, indexVars, IndexInv, TypeInv
  <2> QED BY <2>1, SameGrew
<1>10. CASE PublishWatermark
  <2>1. log' = log /\ bases' = bases /\ tails' = tails /\ sealed' = sealed /\ r' = r
        /\ watermark' = Len(log) /\ watermark \in Nat /\ watermark <= Len(log) /\ Len(log) \in Nat
    BY <1>10, Here DEF PublishWatermark, logVars, indexVars, IndexInv, TypeInv, PublishInv
  <2> QED BY <2>1, SameGrew
<1> QED BY <1>1, <1>2, <1>3, <1>4, <1>5, <1>6, <1>7, <1>8, <1>9, <1>10 DEF Writer

LEMMA FoundStable ==
    ASSUME IndexInv, IndexInv', Grew, NEW query, NEW first \in Nat, NEW last \in Nat,
           1 <= first, last <= Len(log)
    PROVE  ScanMatches(query, first, last)' = ScanMatches(query, first, last)
<1>a. log \in Seq(Appendable) /\ log' \in Seq(Appendable) BY DEF IndexInv, TypeInv
<1>b. Len(log) <= Len(log') /\ \A p \in 1 .. Len(log) : log'[p] = log[p] BY DEF Grew
<1>1. PICK n \in Nat, m \in Nat : n = Len(log) /\ m = Len(log') /\ n <= m
                                  /\ \A p \in 1 .. n : log'[p] = log[p]
  <2>1. Len(log) \in Nat /\ Len(log') \in Nat BY ONLY <1>a
  <2> QED BY ONLY <1>b, <2>1
<1>2. DOMAIN log = 1 .. n /\ DOMAIN log' = 1 .. m BY ONLY <1>a, <1>1
<1>3. \A p \in first .. last : p \in 1 .. n /\ p \in 1 .. m /\ log'[p] = log[p] BY <1>1
<1> QED BY <1>2, <1>3 DEF ScanMatches

LEMMA SnapStable ==
    ASSUME IndexInv, IndexInv', Grew, NEW s, SnapInv(s)
    PROVE  /\ SnapInv(s)' /\ s.tail \in 1 .. Len(tails) /\ s.base \in Nat /\ 1 <= s.base
           /\ SegEnd(s.tail) \in Nat /\ SegEnd(s.tail) <= Len(log)
           /\ SegEnd(s.tail)' \in Nat /\ SegEnd(s.tail) <= SegEnd(s.tail)'
           /\ TailGrew(tails[s.tail], tails'[s.tail])
           /\ tails[s.tail] \in TailState /\ Describes(log, tails[s.tail], s.base)
<1>1. PICK j \in Nat : j = s.tail /\ 1 <= j /\ j <= Len(tails) /\ Len(s.sealed) = j - 1 /\ s.base = bases[j]
  BY DEF SnapInv, Snapshot
<1>2. PICK m \in Nat, n \in Nat : m = Len(tails) /\ n = Len(tails')
  BY DEF IndexInv, TypeInv
<1>3. j \in 1 .. Len(tails) /\ Len(sealed) + 1 = m /\ Len(sealed) \in Nat
  BY <1>1, <1>2, Here
<1>4. SegmentGrew(j) BY <1>3 DEF Grew
<1>5. j <= n /\ bases'[j] = bases[j] /\ SegEnd(j) <= SegEnd(j)' /\ TailGrew(tails[j], tails'[j])
  BY <1>2, <1>4 DEF SegmentGrew
<1>6. \A k \in 1 .. j - 1 : s.sealed[k] = sealed[k] /\ k \in 1 .. Len(sealed)
  BY <1>1, <1>2, <1>3 DEF SnapInv
<1>7. \A k \in 1 .. j - 1 : s.sealed[k] = sealed'[k] BY <1>6 DEF Grew
<1>8. SnapInv(s)' BY <1>1, <1>2, <1>5, <1>7 DEF SnapInv
<1>9. SegEnd(j)' \in Nat
  <2>1. j \in 1 .. Len(tails') /\ n <= Len(bases') /\ j \in 1 .. Len(bases')
        /\ Len(bases') \in Nat
    <3>1. Len(tails') \in Nat /\ Len(bases') \in Nat
          /\ (Len(tails') = Len(bases') \/ Len(tails') = Len(bases') - 1)
      <4>1. TypeInv' /\ PhaseInv' BY DEF IndexInv
      <4>2. Len(tails') \in Nat /\ Len(bases') \in Nat BY <4>1 DEF TypeInv
      <4>3. Len(tails') = Len(bases') \/ Len(tails') = Len(bases') - 1
        BY <4>1 DEF PhaseInv
      <4> QED BY <4>2, <4>3
    <3> QED BY <1>1, <1>2, <1>5, <3>1
  <2>2. CASE j = Len(bases') BY <2>2 DEF SegEnd, IndexInv, TypeInv
  <2>3. CASE j # Len(bases')
    <3>1. j + 1 \in 1 .. Len(bases') BY <2>1, <2>3
    <3>2. TypeInv' /\ BasesInv' BY DEF IndexInv
    <3>3. bases'[j + 1] \in Nat BY <3>1, <3>2 DEF TypeInv
    <3>4. 1 <= bases'[j + 1] BY <3>1, <3>2 DEF BasesInv
    <3> QED BY <2>3, <3>3, <3>4 DEF SegEnd
  <2> QED BY <2>2, <2>3
<1> QED BY <1>1, <1>3, <1>5, <1>8, <1>9, TailHere

\* A read in progress stays right whatever the writer does.
LEMMA ReadStable ==
    ASSUME IndexInv, IndexInv', Grew, NEW s, ReadOK(s)
    PROVE  ReadOK(s)'
<1>1. /\ s \in ReadState /\ PagingOK(s) /\ BoundsOK(s) /\ JoinOK(s) /\ PinnedOK(s)
      /\ PlanOK(s) /\ ProbeOK(s) /\ StreamOK(s) /\ EndOK(s)
  BY DEF ReadOK
<1>2. /\ s.at \in {"idle", "load", "end"} \cup Open /\ s.dir \in {"forward", "backward"}
      /\ s.cursor \in Nat /\ s.watermark \in Nat /\ s.after \in Nat /\ s.upto \in Nat
      /\ s.pos \in Nat /\ s.start \in Nat /\ s.top \in Nat /\ s.pages \in Nat
      /\ s.query \in Query /\ s.index \in SegmentIndexes /\ s.terms \in Nat
  BY <1>1 DEF ReadState
<1>3. watermark \in Nat /\ watermark' \in Nat /\ watermark <= watermark'
      /\ watermark <= Len(log) /\ Len(log) \in Nat
  BY Here DEF IndexInv, TypeInv, Grew, PublishInv
<1>4. \A first, last \in Nat : 1 <= first /\ last <= Len(log) =>
          Found(s, first, last)' = Found(s, first, last)
  <2>1. ASSUME NEW first \in Nat, NEW last \in Nat, 1 <= first, last <= Len(log)
        PROVE  ScanMatches(s.query, first, last)' = ScanMatches(s.query, first, last)
    BY <2>1, FoundStable
  <2> QED BY <2>1 DEF Found
<1>5. s.at # "idle" => s.watermark <= Len(log) BY <1>1, <1>2, <1>3 DEF PagingOK
<1>6. s.at \in Open \cup {"end"} => s.upto <= Len(log) /\ s.at # "idle"
  <2>1. s.at \in Open \cup {"end"} => s.upto <= s.watermark /\ s.at # "idle"
    BY <1>1 DEF BoundsOK, Open, Planning
  <2> QED BY <1>2, <1>3, <1>5, <2>1
<1>7. s.at \in Open => /\ SnapInv(s.snap)' /\ s.snap.base \in Nat /\ 1 <= s.snap.base
                       /\ s.upto <= SegEnd(s.snap.tail)'
  <2>1. ASSUME s.at \in Open PROVE SnapInv(s.snap) /\ s.upto <= SegEnd(s.snap.tail)
    BY <1>1, <2>1 DEF PinnedOK
  <2>2. ASSUME s.at \in Open
        PROVE  /\ SnapInv(s.snap)' /\ s.snap.base \in Nat /\ 1 <= s.snap.base
               /\ SegEnd(s.snap.tail) \in Nat /\ SegEnd(s.snap.tail)' \in Nat
               /\ SegEnd(s.snap.tail) <= SegEnd(s.snap.tail)'
    BY <2>1, <2>2, SnapStable
  <2> QED BY <1>2, <2>1, <2>2
<1>8. PagingOK(s)' BY <1>1, <1>2, <1>3 DEF PagingOK
<1>9. BoundsOK(s)' BY <1>1 DEF BoundsOK
<1>10. s.at # "idle" => Before(s)' = Before(s)
  <2> SUFFICES ASSUME s.at # "idle" PROVE Before(s)' = Before(s)
    OBVIOUS
  <2>1. /\ s.pages = 1 => s.cursor = s.start
        /\ s.pages # 1 => 1 <= s.cursor /\ s.cursor <= Len(log) /\ s.top <= Len(log)
    BY <1>1, <1>2, <1>3, <1>5 DEF PagingOK
  <2>2. CASE s.dir = "forward" /\ s.pages = 1
    <3>1. Found(s, s.start + 1, s.start) = {} /\ Found(s, s.start + 1, s.start)' = {}
      BY <1>2 DEF Found, ScanMatches
    <3> QED BY <2>1, <2>2, <3>1 DEF Before
  <2>3. CASE s.dir = "forward" /\ s.pages # 1
    <3>1. Found(s, s.start + 1, s.cursor)' = Found(s, s.start + 1, s.cursor)
      BY <1>2, <1>4, <2>1, <2>3
    <3> QED BY <2>3, <3>1 DEF Before
  <2>4. CASE s.dir # "forward" /\ s.pages = 1 BY <2>4 DEF Before
  <2>5. CASE s.dir # "forward" /\ s.pages # 1
    <3>1. Found(s, s.cursor, s.top)' = Found(s, s.cursor, s.top) BY <1>2, <1>4, <2>1, <2>5
    <3> QED BY <2>5, <3>1 DEF Before
  <2> QED BY <2>2, <2>3, <2>4, <2>5
<1>11. JoinOK(s)'
  <2>1. s.at = "load" => Lists(s.dir, s.joined, Before(s)') BY <1>1, <1>10 DEF JoinOK
  <2>2. s.at \in Open \cup {"end"} =>
            \E earlier : Lists(s.dir, earlier, Before(s)') /\ s.joined = earlier \o s.page
    BY <1>1, <1>6, <1>10 DEF JoinOK
  <2> QED BY <1>1, <2>1, <2>2 DEF JoinOK
<1>12. PinnedOK(s)' BY <1>7 DEF PinnedOK
<1>13. PlanOK(s)'
  <2> SUFFICES ASSUME s.at \in Planning PROVE PlanOK(s)'
    BY DEF PlanOK
  <2>1. s.at \in Open BY DEF Open
  <2>2. Found(s, s.snap.base, s.upto)' = Found(s, s.snap.base, s.upto)
    BY <1>2, <1>4, <1>6, <1>7, <2>1
  <2>3. s.snap.base <= s.upto =>
          Found(s, s.after + 1, s.snap.base - 1)' = Found(s, s.after + 1, s.snap.base - 1)
    <3>1. ASSUME s.snap.base <= s.upto
          PROVE  /\ s.snap.base - 1 \in Nat /\ s.snap.base - 1 <= Len(log)
                 /\ s.after + 1 \in Nat /\ 1 <= s.after + 1
      <4>1. s.snap.base \in Nat /\ 1 <= s.snap.base /\ s.upto <= Len(log)
        BY <1>6, <1>7, <2>1
      <4>2. s.snap.base <= s.upto + 1 BY ONLY <1>2, <3>1, <4>1
      <4>3. s.snap.base - 1 \in Nat /\ s.snap.base - 1 <= Len(log)
        BY <1>2, <1>3, <4>1, <4>2, JustBelow
      <4> QED BY <1>2, <4>3
    <3> QED BY <1>4, <3>1
  <2> QED BY <1>1, <2>2, <2>3 DEF PlanOK
<1>14. ProbeOK(s)'
  <2>1. CASE s.at \in {"view", "probe"}
    <3>1. s.at \in Open BY <2>1 DEF Open, Planning
    <3>2. SnapInv(s.snap) BY <1>1, <3>1 DEF PinnedOK
    <3>3a. TailOf(s) \in TailState /\ TailGrew(TailOf(s), TailOf(s)')
      BY <3>2, SnapStable DEF TailOf
    <3>3b. PICK tail \in TailState : tail = TailOf(s) BY <3>3a
    <3>3. PICK next : tail = TailOf(s) /\ next = TailOf(s)' /\ TailGrew(tail, next)
      BY <3>3a, <3>3b
    <3>4. s.upto < s.snap.base + Len(next.column)
      <4>1. s.upto < s.snap.base + Len(tail.column) BY <1>1, <2>1, <3>3 DEF ProbeOK
      <4>2. next \in TailState
        <5>1. s.snap.tail \in Nat /\ 1 <= s.snap.tail /\ s.snap.tail <= Len(tails')
          BY <1>7, <3>1 DEF SnapInv, Snapshot
        <5>2. s.snap.tail \in 1 .. Len(tails') /\ tails' \in Seq(TailState)
          BY <5>1 DEF IndexInv, TypeInv
        <5> QED BY <3>3, <5>2 DEF TailOf
      <4>3. Len(tail.column) <= Len(next.column) /\ Len(tail.column) \in Nat
            /\ Len(next.column) \in Nat
        BY <3>3, <4>2 DEF TailGrew, TailState
      <4> QED BY <1>2, <1>7, <3>1, <4>1, <4>3
    <3>5. CASE s.at = "view" BY <3>3, <3>4, <3>5 DEF ProbeOK
    <3>6. CASE s.at = "probe"
      <4>1. /\ s.index.base = s.snap.base
            /\ s.index.len = s.upto - s.snap.base + 1
            /\ \A item \in s.query.items :
                  /\ \A type \in item.types :
                        type \notin s.types => SeesType(log, s.index, tail, s.snap.base, type)
                  /\ \A tag \in item.tags :
                        tag \notin s.tags => SeesTag(log, s.index, s.snap.base, tag)
            /\ \A l \in Nat : l < s.index.len => \A t \in log[s.snap.base + l].tags :
                  Interned(t, tail.terms) /\ IdOf(t, tail.terms) < s.terms
        BY <1>1, <3>3, <3>6 DEF ProbeOK
      <4>2. \A l \in Nat : l < s.index.len => log'[s.snap.base + l] = log[s.snap.base + l]
        <5>1. \A l \in Nat : l < s.index.len => s.snap.base + l \in 1 .. Len(log)
          <6>1. s.snap.base \in Nat /\ 1 <= s.snap.base /\ s.upto <= Len(log)
            BY <1>6, <1>7, <3>1
          <6>2. s.index.len = s.upto - s.snap.base + 1 BY <4>1
          <6> QED BY <1>2, <1>3, <6>1, <6>2, InReach, SMTT(20)
        <5> QED BY <5>1 DEF Grew
      <4>3. ASSUME NEW type, SeesType(log, s.index, tail, s.snap.base, type)
            PROVE  SeesType(log', s.index, next, s.snap.base, type)
        BY <3>3, <4>2, <4>3 DEF SeesType, TailGrew
      <4>4. ASSUME NEW tag, SeesTag(log, s.index, s.snap.base, tag)
            PROVE  SeesTag(log', s.index, s.snap.base, tag)
        BY <4>2, <4>4 DEF SeesTag
      <4>5. \A l \in Nat : l < s.index.len => \A t \in log'[s.snap.base + l].tags :
                  Interned(t, next.terms) /\ IdOf(t, next.terms) < s.terms
        BY <3>3, <4>1, <4>2 DEF TailGrew
      <4> QED BY <3>3, <3>4, <3>6, <4>1, <4>3, <4>4, <4>5 DEF ProbeOK
    <3> QED BY <2>1, <3>5, <3>6
  <2>2. CASE s.at \notin {"view", "probe"} BY <2>2 DEF ProbeOK
  <2> QED BY <2>1, <2>2
<1>15. s.at \in {"stream", "end"} =>
          Found(s, s.after + 1, s.upto)' = Found(s, s.after + 1, s.upto)
  BY <1>2, <1>4, <1>6 DEF Open
<1>16. StreamOK(s)'
  <2> SUFFICES ASSUME s.at = "stream" PROVE StreamOK(s)'
    BY DEF StreamOK
  <2>0. s.at \in Open \cup {"end"} BY DEF Open
  <2>1. s.after < s.pos /\ s.pos <= s.upto + 1 =>
          Found(s, s.after + 1, s.pos - 1)' = Found(s, s.after + 1, s.pos - 1)
    <3>1. ASSUME s.after < s.pos, s.pos <= s.upto + 1
          PROVE  /\ s.pos - 1 \in Nat /\ s.pos - 1 <= Len(log)
                 /\ s.after + 1 \in Nat /\ 1 <= s.after + 1
      <4>1. s.upto <= Len(log) BY <1>6, <2>0
      <4>2. 1 <= s.pos /\ 1 <= s.after + 1 /\ s.after + 1 \in Nat BY <1>2, <3>1
      <4>3. s.pos - 1 \in Nat /\ s.pos - 1 <= Len(log)
        BY <1>2, <1>3, <3>1, <4>1, <4>2, JustBelow
      <4> QED BY <4>2, <4>3
    <3> QED BY <1>4, <3>1
  <2>2. Found(s, s.pos + 1, s.upto)' = Found(s, s.pos + 1, s.upto)
    BY <1>2, <1>4, <1>6, <2>0
  <2> QED BY <1>1, <1>15, <2>1, <2>2 DEF StreamOK
<1>17. EndOK(s)' BY <1>1, <1>15 DEF EndOK
<1> QED BY <1>1, <1>8, <1>9, <1>11, <1>12, <1>13, <1>14, <1>16, <1>17 DEF ReadOK

--------------------
\* The reader's steps.

\* A reader's step moves nothing but the read.
LEMMA ReadUnmoved ==
    ASSUME UNCHANGED <<log, bases, tails, sealed, watermark>>, ReadOK(r')
    PROVE  ReadOK(r)'
<1>1. /\ r' \in ReadState /\ PagingOK(r') /\ BoundsOK(r') /\ JoinOK(r') /\ PinnedOK(r')
      /\ PlanOK(r') /\ ProbeOK(r') /\ StreamOK(r') /\ EndOK(r')
  BY DEF ReadOK
<1>2. \A first, last : Found(r, first, last)' = Found(r', first, last)
  BY DEF Found, ScanMatches
<1>3. Before(r)' = Before(r') /\ TailOf(r)' = TailOf(r') BY <1>2 DEF Before, TailOf
<1>4. PagingOK(r)' /\ BoundsOK(r)' /\ PinnedOK(r)'
  BY <1>1 DEF PagingOK, BoundsOK, PinnedOK, SnapInv, SegEnd
<1>5. JoinOK(r)' BY <1>1, <1>3 DEF JoinOK
<1>6. PlanOK(r)' BY <1>1, <1>2 DEF PlanOK
<1>7. ProbeOK(r)' BY <1>1, <1>3 DEF ProbeOK
<1>8. StreamOK(r)' /\ EndOK(r)' BY <1>1, <1>2 DEF StreamOK, EndOK
<1> QED BY <1>1, <1>4, <1>5, <1>6, <1>7, <1>8 DEF ReadOK

LEMMA AppendJoins ==
    ASSUME NEW t \in Seq(Nat), NEW u \in Seq(Nat), NEW p \in Nat
    PROVE  Append(t \o u, p) = t \o Append(u, p) /\ t \o u \in Seq(Nat)
<1>1. t \o u \in Seq(Nat) /\ Append(u, p) = u \o <<p>> /\ <<p>> \in Seq(Nat)
  BY AppendIsConcat
<1>2. Append(t \o u, p) = (t \o u) \o <<p>> BY <1>1, AppendIsConcat
<1> QED BY <1>1, <1>2, ConcatAssociative

LEMMA HeadJoins ==
    ASSUME NEW t \in Seq(Nat), NEW u \in Seq(Nat), u # <<>>
    PROVE  /\ Head(u) \in Nat /\ Tail(u) \in Seq(Nat)
           /\ Append(t, Head(u)) \o Tail(u) = t \o u
<1>1. Head(u) \in Nat /\ Tail(u) \in Seq(Nat) /\ <<Head(u)>> \in Seq(Nat) OBVIOUS
<1>2. u = <<Head(u)>> \o Tail(u) BY <1>1
<1>3. Append(t, Head(u)) = t \o <<Head(u)>> BY <1>1, AppendIsConcat
<1>4. (t \o <<Head(u)>>) \o Tail(u) = t \o (<<Head(u)>> \o Tail(u))
  BY <1>1, ConcatAssociative
<1> QED BY <1>1, <1>2, <1>3, <1>4

\* What a page keeps from the moment its range is pinned.
RangeKept(s) ==
    /\ s.query = r.query /\ s.dir = r.dir /\ s.limit = r.limit /\ s.cursor = r.cursor
    /\ s.watermark = r.watermark /\ s.after = r.after /\ s.upto = r.upto
    /\ s.start = r.start /\ s.top = r.top /\ s.pages = r.pages

LEMMA ReadMoves ==
    ASSUME ReadOK(r), r.at \in Open, NEW s, s \in ReadState, RangeKept(s),
           s.at \in Open \cup {"end"}, s.at \in Open => s.snap = r.snap,
           \/ s.page = r.page /\ s.joined = r.joined
           \/ \E p \in Nat : s.page = Append(r.page, p) /\ s.joined = Append(r.joined, p),
           PlanOK(s), ProbeOK(s), StreamOK(s), EndOK(s)
    PROVE  ReadOK(s)
<1>1. /\ r \in ReadState /\ PagingOK(r) /\ BoundsOK(r) /\ JoinOK(r) /\ PinnedOK(r)
  BY DEF ReadOK
<1>2. \A x \in Open \cup {"end"} : x # "idle" /\ x # "load" BY DEF Open, Planning
<1>3. PagingOK(s) /\ BoundsOK(s) BY <1>1, <1>2 DEF PagingOK, BoundsOK, RangeKept
<1>4. PinnedOK(s) BY <1>1 DEF PinnedOK, RangeKept
<1>5. Before(s) = Before(r) BY DEF Before, Found, RangeKept
<1>6. JoinOK(s)
  <2>1. PICK earlier : Lists(r.dir, earlier, Before(r)) /\ r.joined = earlier \o r.page
    BY <1>1 DEF JoinOK
  <2>2. s.joined = earlier \o s.page
    <3>1. CASE s.page = r.page /\ s.joined = r.joined BY <2>1, <3>1
    <3>2. ASSUME NEW p \in Nat, s.page = Append(r.page, p), s.joined = Append(r.joined, p)
          PROVE  s.joined = earlier \o s.page
      <4>1. earlier \in Seq(Nat) /\ r.page \in Seq(Nat) BY <1>1, <2>1 DEF Lists, ReadState
      <4>2. Append(earlier \o r.page, p) = earlier \o Append(r.page, p)
        BY <4>1, <3>2, AppendJoins
      <4> QED BY <2>1, <3>2, <4>2
    <3> QED BY <3>1, <3>2
  <2>3. Lists(s.dir, earlier, Before(s)) BY <1>5, <2>1 DEF RangeKept
  <2> QED BY <1>2, <2>2, <2>3 DEF JoinOK
<1> QED BY <1>3, <1>4, <1>6 DEF ReadOK

LEMMA StartReadKeeps ==
    ASSUME IndexInv, ReadOK(r), StartRead
    PROVE  ReadOK(r')
<1>1. r \in ReadState /\ r.at = "idle" /\ r.joined = <<>> /\ ~ r.err
  BY DEF ReadOK, JoinOK, EndOK, StartRead, Reading
<1>2. PICK query \in Queries, limit \in Limits, cursor \in Cursors, dir \in {"forward", "backward"} :
          r' = [r EXCEPT !.at = "load", !.query = query, !.limit = limit, !.dir = dir,
                         !.cursor = cursor, !.start = cursor, !.watermark = watermark,
                         !.pages = 1]
  BY DEF StartRead
<1>3. query \in Query /\ limit \in Nat \cup {NoLimit} /\ cursor \in Nat /\ watermark \in Nat
  BY IndexReadsAssumption DEF IndexInv, TypeInv
<1>4. PICK s : s = r' OBVIOUS
<1>5. s \in ReadState BY <1>1, <1>2, <1>3, <1>4 DEF ReadState
<1>6. /\ s.at = "load" /\ s.query = query /\ s.limit = limit /\ s.dir = dir /\ s.cursor = cursor
      /\ s.start = cursor /\ s.watermark = watermark /\ s.pages = 1
      /\ s.joined = <<>> /\ ~ s.err
  BY <1>1, <1>2, <1>4 DEF ReadState
<1>7. PagingOK(s) BY <1>3, <1>6 DEF PagingOK
<1>8. Before(s) = {}
  <2>1. Found(s, cursor + 1, cursor) = {} BY <1>3 DEF Found, ScanMatches
  <2> QED BY <1>6, <2>1 DEF Before
<1>9. JoinOK(s) BY <1>6, <1>8, ListsEmpty DEF JoinOK, Open, Planning
<1>10. BoundsOK(s) /\ PinnedOK(s) /\ PlanOK(s) /\ ProbeOK(s) /\ StreamOK(s) /\ EndOK(s)
  BY <1>6 DEF BoundsOK, PinnedOK, PlanOK, ProbeOK, StreamOK, EndOK, Open, Planning
<1> QED BY <1>4, <1>5, <1>7, <1>9, <1>10 DEF ReadOK

\* The beginning of a list lists the positions up to its last one.
LEMMA PrefixLists ==
    ASSUME NEW dir, NEW P, NEW all, Lists(dir, all, P), NEW n \in Nat, 1 <= n, n <= Len(all)
    PROVE  /\ SubSeq(all, 1, n) \in Seq(Nat) /\ Len(SubSeq(all, 1, n)) = n
           /\ all[n] \in Nat /\ all[n] \in P /\ SubSeq(all, 1, n)[n] = all[n]
           /\ Lists(dir, SubSeq(all, 1, n), {p \in P : p = all[n] \/ Earlier(dir, p, all[n])})
<1>1. all \in Seq(Nat) /\ Len(all) \in Nat /\ n \in 1 .. Len(all) BY DEF Lists
<1>2. all[n] \in Nat /\ all[n] \in P BY <1>1 DEF Lists
<1>3. /\ SubSeq(all, 1, n) \in Seq(Nat) /\ Len(SubSeq(all, 1, n)) = n
      /\ \A i \in 1 .. n : SubSeq(all, 1, n)[i] = all[i]
      /\ Lists(dir, SubSeq(all, 1, n), Among(P, all, n))
  <2>1. Lists(dir, all, P) /\ n \in Nat /\ n <= Len(all) OBVIOUS
  <2> QED BY ONLY <2>1, ListsBegin
<1>4. Among(P, all, n) = {p \in P : p = all[n] \/ Earlier(dir, p, all[n])}
  <2>1. ASSUME NEW i \in 1 .. n PROVE all[i] = all[n] \/ Earlier(dir, all[i], all[n])
    BY <1>1 DEF Lists
  <2>2. ASSUME NEW p \in P, p = all[n] \/ Earlier(dir, p, all[n])
        PROVE  \E i \in 1 .. n : all[i] = p
    <3>1. PICK i \in 1 .. Len(all) : all[i] = p BY DEF Lists
    <3>2. CASE i <= n BY <3>1, <3>2
    <3>3. CASE n < i
      <4>1. Earlier(dir, all[n], p) BY <1>1, <3>1, <3>3 DEF Lists
      <4>2. p \in Nat BY <1>1, <3>1
      <4> QED BY <1>2, <2>2, <4>1, <4>2, EarlierIsStrict
    <3> QED BY <1>1, <3>2, <3>3
  <2> QED BY <2>1, <2>2 DEF Among
<1>5. Lists(dir, SubSeq(all, 1, n), {p \in P : p = all[n] \/ Earlier(dir, p, all[n])})
  BY <1>3, <1>4
<1>6. SubSeq(all, 1, n)[n] = all[n] BY <1>3
<1> QED BY <1>2, <1>3, <1>5, <1>6

LEMMA CapPrefix ==
    ASSUME NEW limit \in Nat \cup {NoLimit}, NEW w \in Seq(Nat)
    PROVE  \E n \in Nat : n = Len(CapAt(limit, w)) /\ n <= Len(w) /\ CapAt(limit, w) = SubSeq(w, 1, n)
<1>1. Len(w) \in Nat /\ Len(w) <= Len(w) /\ SubSeq(w, 1, Len(w)) = w OBVIOUS
<1>2. CASE CapAt(limit, w) = w BY <1>1, <1>2
<1>3. CASE CapAt(limit, w) # w
  <2>1. limit \in Nat /\ limit # NoLimit BY <1>3, CapIs
  <2>2. ~ (Len(w) <= limit) BY <1>3, <2>1, CapIs
  <2>3. limit <= Len(w) BY <1>1, <2>1, <2>2
  <2>4. CapAt(limit, w) = SubSeq(w, 1, limit) /\ Len(CapAt(limit, w)) = limit
    BY <2>1, <2>3, CapIs
  <2> QED BY <2>1, <2>3, <2>4
<1> QED BY <1>2, <1>3

\* When a page ends, the pages together list every match up to the last position yielded.
LEMMA EndJoins ==
    ASSUME IndexInv, ReadOK(r), r.at = "end", r.joined # <<>>
    PROVE  /\ Last(r.joined) \in Nat /\ 1 <= Last(r.joined) /\ Last(r.joined) <= r.watermark
           /\ r.page # <<>> => Last(r.page) = Last(r.joined)
           /\ r.dir = "forward" => /\ r.start < Last(r.joined)
                                   /\ Lists(r.dir, r.joined, Found(r, r.start + 1, Last(r.joined)))
           /\ r.dir # "forward" => /\ Last(r.joined) <= r.top /\ r.top <= r.watermark
                                   /\ Lists(r.dir, r.joined, Found(r, Last(r.joined), r.top))
<1>1. /\ r \in ReadState /\ PagingOK(r) /\ BoundsOK(r) /\ JoinOK(r) /\ EndOK(r)
  BY DEF ReadOK
<1>2. /\ r.dir \in {"forward", "backward"} /\ r.limit \in Nat \cup {NoLimit}
      /\ r.cursor \in Nat /\ r.watermark \in Nat /\ r.after \in Nat /\ r.upto \in Nat
      /\ r.start \in Nat /\ r.top \in Nat /\ r.pages \in Nat
      /\ r.joined \in Seq(Nat) /\ r.page \in Seq(Nat)
  BY <1>1 DEF ReadState
<1>3. /\ r.pages = 1 => r.cursor = r.start /\ r.top = r.upto
      /\ r.pages # 1 => 1 <= r.cursor /\ r.cursor <= r.watermark /\ r.top <= r.watermark
      /\ r.dir = "forward" => r.start <= r.cursor /\ r.after = r.cursor
      /\ r.dir # "forward" => /\ r.after = 0
                              /\ r.pages # 1 => r.cursor <= r.top /\ r.upto = r.cursor - 1
      /\ r.upto <= r.watermark
  BY <1>1 DEF PagingOK, BoundsOK
<1>4. \A first, last \in Nat : 1 <= first => \A p : p \in Found(r, first, last) <=>
          p \in Nat /\ first <= p /\ p <= last /\ p <= Len(log) /\ Matches(r.query, log[p])
  <2>1. ASSUME NEW first \in Nat, NEW last \in Nat, 1 <= first
        PROVE  \A p : p \in ScanMatches(r.query, first, last) <=>
                  p \in Nat /\ first <= p /\ p <= last /\ p <= Len(log) /\ Matches(r.query, log[p])
    BY <2>1, ScanHas DEF IndexInv
  <2> QED BY <2>1 DEF Found
<1>5. PICK earlier : Lists(r.dir, earlier, Before(r)) /\ r.joined = earlier \o r.page
  BY <1>1 DEF JoinOK
<1>6. PICK all : Lists(r.dir, all, Found(r, r.after + 1, r.upto)) /\ r.page = CapAt(r.limit, all)
  BY <1>1 DEF EndOK
<1>7. earlier \in Seq(Nat) /\ all \in Seq(Nat) BY <1>5, <1>6 DEF Lists
<1>8. PICK n \in Nat : n = Len(r.page) /\ n <= Len(all) /\ r.page = SubSeq(all, 1, n)
  BY <1>2, <1>6, <1>7, CapPrefix
<1>9. CASE n = 0
  <2>1. r.page = <<>> BY <1>2, <1>8, <1>9
  <2>2. r.joined = earlier BY <1>5, <1>7, <2>1
  <2>3. PICK m \in Nat : m = Len(earlier) /\ 1 <= m /\ m <= Len(earlier) BY <1>7, <2>2
  <2>4. SubSeq(earlier, 1, m) = earlier BY <1>7, <2>3
  <2>5. PICK last \in Nat : last = earlier[m] /\ last \in Before(r)
    <3>1. earlier[m] \in Nat /\ earlier[m] \in Before(r) BY <1>5, <2>3, PrefixLists
    <3> QED BY <3>1
  <2>6. Lists(r.dir, earlier, {p \in Before(r) : p = last \/ Earlier(r.dir, p, last)})
    <3>1. Lists(r.dir, SubSeq(earlier, 1, m),
                {p \in Before(r) : p = earlier[m] \/ Earlier(r.dir, p, earlier[m])})
      BY <1>5, <2>3, PrefixLists
    <3> QED BY <2>4, <2>5, <3>1
  <2>7. Last(r.joined) = last BY <2>2, <2>3, <2>5 DEF Last
  <2>8. CASE r.dir = "forward"
    <3>1. Before(r) = Found(r, r.start + 1, r.cursor) BY <2>8 DEF Before
    <3>2. r.start + 1 \in Nat /\ 1 <= r.start + 1 BY <1>2, SMTT(20)
    <3>3. /\ r.start + 1 <= last /\ last <= r.cursor
          /\ \A p : p \in Before(r) <=> p \in Nat /\ r.start + 1 <= p /\ p <= r.cursor
                                        /\ p <= Len(log) /\ Matches(r.query, log[p])
      BY <1>2, <1>4, <2>5, <3>1, <3>2, SMTT(20)
    <3>4. \A p : p \in Found(r, r.start + 1, last) <=> p \in Nat /\ r.start + 1 <= p /\ p <= last
                                        /\ p <= Len(log) /\ Matches(r.query, log[p])
      BY <1>4, <3>2
    <3>5. {p \in Before(r) : p = last \/ Earlier(r.dir, p, last)} = Found(r, r.start + 1, last)
      BY <1>2, <2>8, <3>3, <3>4 DEF Earlier
    <3>6. r.pages # 1 BY <1>2, <1>3, <2>5, <3>3
    <3>7. 1 <= last /\ last <= r.watermark /\ r.start < last BY <1>2, <1>3, <3>3, <3>6
    <3> QED BY <2>1, <2>2, <2>6, <2>7, <2>8, <3>5, <3>7
  <2>9. CASE r.dir # "forward"
    <3>1. r.pages # 1 /\ Before(r) = Found(r, r.cursor, r.top) /\ 1 <= r.cursor
      BY <1>3, <2>5, <2>9 DEF Before
    <3>2. /\ r.cursor <= last /\ last <= r.top
          /\ \A p : p \in Before(r) <=> p \in Nat /\ r.cursor <= p /\ p <= r.top
                                        /\ p <= Len(log) /\ Matches(r.query, log[p])
      BY <1>2, <1>4, <2>5, <3>1, SMTT(20)
    <3>3. 1 <= last /\ last <= r.watermark /\ r.top <= r.watermark
      BY <1>2, <1>3, <3>1, <3>2
    <3>4. \A p : p \in Found(r, last, r.top) <=> p \in Nat /\ last <= p /\ p <= r.top
                                        /\ p <= Len(log) /\ Matches(r.query, log[p])
      BY <1>2, <1>4, <3>3
    <3>5. {p \in Before(r) : p = last \/ Earlier(r.dir, p, last)} = Found(r, last, r.top)
      BY <1>2, <2>9, <3>2, <3>4 DEF Earlier
    <3> QED BY <2>1, <2>2, <2>6, <2>7, <2>9, <3>2, <3>3, <3>5
  <2> QED BY <2>8, <2>9
<1>10. CASE n # 0
  <2>1. 1 <= n /\ r.page # <<>> BY <1>2, <1>8, <1>10, SMTT(20)
  <2>2. PICK last \in Nat : last = all[n] /\ last \in Found(r, r.after + 1, r.upto)
    BY <1>6, <1>8, <2>1, PrefixLists
  <2>3. /\ Lists(r.dir, r.page, {p \in Found(r, r.after + 1, r.upto) :
                                    p = last \/ Earlier(r.dir, p, last)})
        /\ r.page[n] = last
    BY <1>6, <1>8, <2>1, <2>2, PrefixLists
  <2>4. Last(r.page) = last BY <1>8, <2>3 DEF Last
  <2>5. Last(r.joined) = last
    <3>1. PICK m \in Nat : m = Len(earlier) BY <1>7
    <3>2. Len(earlier \o r.page) = m + n /\ m + n \in 1 .. Len(earlier \o r.page)
          /\ (earlier \o r.page)[m + n] = r.page[n]
      <4>1. PICK page \in Seq(Nat) : page = r.page BY <1>2
      <4>2. Len(page) = n /\ n \in Nat /\ 1 <= n BY <1>8, <2>1, <4>1
      <4>3. earlier \in Seq(Nat) /\ m = Len(earlier) /\ m \in Nat BY <1>7, <3>1
      <4>4. Len(earlier \o page) = m + n /\ (earlier \o page)[m + n] = page[n]
        BY ONLY page \in Seq(Nat), <4>2, <4>3, SMTT(20)
      <4>5. m + n \in 1 .. m + n BY ONLY <4>2, <4>3
      <4> QED BY <4>1, <4>4, <4>5
    <3> QED BY <1>5, <2>3, <3>2 DEF Last
  <2>6. r.after + 1 \in Nat /\ 1 <= r.after + 1 BY <1>2
  <2>7. /\ r.after + 1 <= last /\ last <= r.upto
        /\ \A p : p \in Found(r, r.after + 1, r.upto) <=>
              p \in Nat /\ r.after + 1 <= p /\ p <= r.upto
              /\ p <= Len(log) /\ Matches(r.query, log[p])
    BY <1>2, <1>4, <2>2, <2>6
  <2>8. 1 <= last /\ last <= r.watermark BY <1>2, <1>3, <2>7
  <2>9. CASE r.dir = "forward"
    <3>1. Before(r) = Found(r, r.start + 1, r.cursor) BY <2>9 DEF Before
    <3>2. r.start + 1 \in Nat /\ 1 <= r.start + 1 /\ r.after = r.cursor /\ r.start <= r.cursor
      BY <1>2, <1>3, <2>9
    <3>3. /\ \A p : p \in Before(r) <=> p \in Nat /\ r.start + 1 <= p /\ p <= r.cursor
                                        /\ p <= Len(log) /\ Matches(r.query, log[p])
          /\ \A p : p \in Found(r, r.start + 1, last) <=> p \in Nat /\ r.start + 1 <= p
                                        /\ p <= last /\ p <= Len(log) /\ Matches(r.query, log[p])
      BY <1>2, <1>4, <3>1, <3>2
    <3> DEFINE Q == {p \in Found(r, r.after + 1, r.upto) : p = last \/ Earlier(r.dir, p, last)}
    <3>4. \A p : p \in Q <=> p \in Nat /\ r.cursor + 1 <= p /\ p <= last
                              /\ p <= Len(log) /\ Matches(r.query, log[p])
      BY <1>2, <2>7, <2>9, <3>2, SMTT(20) DEF Earlier
    <3>5. Lists(r.dir, r.page, Q) BY <2>3
    <3> HIDE DEF Q
    <3>6. \A a \in Before(r) : \A b \in Q : Earlier(r.dir, a, b)
      BY <1>2, <2>9, <3>3, <3>4, SMTT(20) DEF Earlier
    <3>7. Before(r) \cup Q = Found(r, r.start + 1, last)
      <4>1. ASSUME NEW p PROVE p \in Before(r) \cup Q <=> p \in Found(r, r.start + 1, last)
        BY <1>2, <2>7, <3>2, <3>3, <3>4, SMTT(20)
      <4> QED BY <4>1
    <3>8. Lists(r.dir, earlier \o r.page, Before(r) \cup Q)
      BY <1>5, <3>5, <3>6, ListsConcat
    <3>9. r.start < last BY <1>2, <2>7, <3>2
    <3> QED BY <1>5, <2>4, <2>5, <2>8, <2>9, <3>7, <3>8, <3>9
  <2>10. CASE r.dir # "forward"
    <3>1. r.after = 0 /\ r.dir = "backward" /\ (r.pages = 1 => Before(r) = {} /\ r.top = r.upto)
          /\ (r.pages # 1 => Before(r) = Found(r, r.cursor, r.top) /\ 1 <= r.cursor
                             /\ r.cursor <= r.top /\ r.upto = r.cursor - 1 /\ r.top <= r.watermark)
      BY <1>2, <1>3, <2>10 DEF Before
    <3> DEFINE Q == {p \in Found(r, r.after + 1, r.upto) : p = last \/ Earlier(r.dir, p, last)}
    <3>4. \A p : p \in Q <=> p \in Nat /\ last <= p /\ p <= r.upto
                              /\ p <= Len(log) /\ Matches(r.query, log[p])
      BY <1>2, <2>7, <2>8, <3>1 DEF Earlier
    <3>5. Lists(r.dir, r.page, Q) BY <2>3
    <3> HIDE DEF Q
    <3>6. \A p : p \in Found(r, last, r.top) <=> p \in Nat /\ last <= p /\ p <= r.top
                                        /\ p <= Len(log) /\ Matches(r.query, log[p])
      BY <1>2, <1>4, <2>8
    <3>7. CASE r.pages = 1
      <4>1. Q = Found(r, last, r.top) BY <3>1, <3>4, <3>6, <3>7
      <4>2. earlier = <<>> BY <1>5, <3>1, <3>7, ListsEmpty
      <4>3. r.joined = r.page BY <1>2, <1>5, <4>2
      <4>4. last <= r.top /\ r.top <= r.watermark BY <1>3, <2>7, <3>1, <3>7
      <4> QED BY <2>4, <2>5, <2>8, <2>10, <3>5, <4>1, <4>3, <4>4
    <3>8. CASE r.pages # 1
      <4>1. \A p : p \in Before(r) <=> p \in Nat /\ r.cursor <= p /\ p <= r.top
                                      /\ p <= Len(log) /\ Matches(r.query, log[p])
        BY <1>2, <1>4, <3>1, <3>8, SMTT(20)
      <4>2. \A a \in Before(r) : \A b \in Q : Earlier(r.dir, a, b)
        BY <1>2, <2>10, <3>1, <3>4, <3>8, <4>1 DEF Earlier
      <4>3. Before(r) \cup Q = Found(r, last, r.top)
        <5>1. last <= r.cursor - 1 /\ r.cursor <= r.top BY <1>2, <2>7, <3>1, <3>8
        <5>2. ASSUME NEW p PROVE p \in Before(r) \cup Q <=> p \in Found(r, last, r.top)
          BY <1>2, <3>1, <3>4, <3>6, <3>8, <4>1, <5>1, SMTT(20)
        <5> QED BY <5>2
      <4>4. Lists(r.dir, earlier \o r.page, Before(r) \cup Q)
        BY <1>5, <3>5, <4>2, ListsConcat
      <4>5. last <= r.top /\ r.top <= r.watermark BY <1>2, <2>7, <3>1, <3>8
      <4> QED BY <1>5, <2>4, <2>5, <2>8, <2>10, <4>3, <4>4, <4>5
    <3> QED BY <3>7, <3>8
  <2> QED BY <2>9, <2>10
<1> QED BY <1>9, <1>10

LEMMA NextPageKeeps ==
    ASSUME IndexInv, ReadOK(r), NextPage
    PROVE  ReadOK(r')
<1>1. r \in ReadState /\ PagingOK(r) /\ BoundsOK(r) /\ EndOK(r) BY DEF ReadOK
<1>2. r.at = "end" /\ r.page # <<>> BY DEF NextPage, Reading
<1>3. r' = [r EXCEPT !.at = "load", !.cursor = Last(r.page), !.watermark = watermark,
                     !.pages = r.pages + 1]
  BY DEF NextPage
<1>4. /\ r.pages \in Nat /\ r.start \in Nat /\ r.top \in Nat /\ r.watermark \in Nat
      /\ r.page \in Seq(Nat) /\ r.joined \in Seq(Nat) /\ r.dir \in {"forward", "backward"}
      /\ r.cursor \in Nat /\ r.after \in Nat /\ r.upto \in Nat
  BY <1>1 DEF ReadState
<1>5. r.joined # <<>>
  <2>1. PICK earlier : Lists(r.dir, earlier, Before(r)) /\ r.joined = earlier \o r.page
    BY <1>2 DEF ReadOK, JoinOK
  <2>2. earlier \in Seq(Nat) BY <2>1 DEF Lists
  <2> QED BY <1>2, <1>4, <2>1, <2>2, ConcatEqualIffEmpty
<1>6. PICK last \in Nat : last = Last(r.page) /\ last = Last(r.joined)
  BY <1>2, <1>5, EndJoins
<1>7. /\ 1 <= last /\ last <= r.watermark
      /\ r.dir = "forward" => /\ r.start < last
                              /\ Lists(r.dir, r.joined, Found(r, r.start + 1, last))
      /\ r.dir # "forward" => /\ last <= r.top /\ r.top <= r.watermark
                              /\ Lists(r.dir, r.joined, Found(r, last, r.top))
  BY <1>2, <1>5, <1>6, EndJoins
<1>8. watermark \in Nat /\ r.watermark <= watermark
  BY <1>1, <1>2 DEF PagingOK, IndexInv, TypeInv
<1>9. PICK s : s = r' OBVIOUS
<1>10. s \in ReadState
  <2>1. PICK pages \in Nat : pages = r.pages + 1 BY <1>4
  <2>2. s = [r EXCEPT !.at = "load", !.cursor = last, !.watermark = watermark, !.pages = pages]
    BY <1>3, <1>6, <1>9, <2>1
  <2> QED BY <1>1, <1>8, <2>2 DEF ReadState
<1>11. /\ s.at = "load" /\ s.query = r.query /\ s.limit = r.limit /\ s.dir = r.dir
       /\ s.cursor = last /\ s.start = r.start /\ s.top = r.top /\ s.watermark = watermark
       /\ s.pages = r.pages + 1 /\ s.joined = r.joined /\ s.err = r.err
  BY <1>1, <1>3, <1>6, <1>9 DEF ReadState
<1>12. 1 <= r.pages /\ r.pages + 1 # 1 /\ 1 <= r.pages + 1 /\ r.top <= r.watermark
  <2>1. 1 <= r.pages /\ (r.pages # 1 => r.top <= r.watermark) BY <1>1, <1>2 DEF PagingOK
  <2>2. r.pages = 1 => r.top <= r.watermark BY <1>1, <1>2 DEF BoundsOK
  <2> QED BY <1>4, <2>1, <2>2
<1>13. PagingOK(s) BY <1>4, <1>7, <1>8, <1>11, <1>12 DEF PagingOK
<1>14. JoinOK(s)
  <2>1. CASE r.dir = "forward"
    BY <1>7, <1>11, <1>12, <2>1 DEF JoinOK, Before, Found, Open, Planning
  <2>2. CASE r.dir # "forward"
    BY <1>7, <1>11, <1>12, <2>2 DEF JoinOK, Before, Found, Open, Planning
  <2> QED BY <2>1, <2>2
<1>15. BoundsOK(s) /\ PinnedOK(s) /\ PlanOK(s) /\ ProbeOK(s) /\ StreamOK(s) /\ EndOK(s)
  BY <1>1, <1>11 DEF BoundsOK, PinnedOK, PlanOK, ProbeOK, StreamOK, EndOK, Open, Planning
<1> QED BY <1>9, <1>10, <1>13, <1>14, <1>15 DEF ReadOK

LEMMA LoadSnapshotKeeps ==
    ASSUME IndexInv, ReadOK(r), LoadSnapshot
    PROVE  ReadOK(r')
<1>1. r \in ReadState /\ PagingOK(r) /\ JoinOK(r) /\ EndOK(r) /\ r.at = "load"
  BY DEF ReadOK, LoadSnapshot, Reading
<1>2. /\ r.cursor \in Nat /\ r.watermark \in Nat /\ r.limit \in Nat \cup {NoLimit}
      /\ r.dir \in {"forward", "backward"} /\ r.start \in Nat /\ r.top \in Nat /\ r.pages \in Nat
      /\ r.joined \in Seq(Nat)
  BY <1>1 DEF ReadState
<1>3. PICK after \in Nat : after = IF Forward THEN r.cursor ELSE 0 BY <1>2
<1>4. PICK upto \in Nat : /\ upto = (IF Forward THEN r.watermark
                                     ELSE Lesser(Max({r.cursor - 1, 0}), r.watermark))
                          /\ upto <= r.watermark
                          /\ ~ Forward /\ 1 <= r.cursor /\ r.cursor <= r.watermark =>
                                upto = r.cursor - 1
  <2>1. PICK c \in Nat : c = Max({r.cursor - 1, 0}) /\ (1 <= r.cursor => c = r.cursor - 1)
    <3>1. Max({r.cursor - 1, 0}) = IF r.cursor - 1 <= 0 THEN 0 ELSE r.cursor - 1
      BY <1>2, GreaterIs, SMTT(20)
    <3> QED BY <1>2, <3>1
  <2>2. Lesser(c, r.watermark) = IF c <= r.watermark THEN c ELSE r.watermark
    BY <1>2, LesserIs
  <2>3. /\ Lesser(c, r.watermark) \in Nat /\ Lesser(c, r.watermark) <= r.watermark
        /\ 1 <= r.cursor /\ r.cursor <= r.watermark => Lesser(c, r.watermark) = r.cursor - 1
    BY <1>2, <2>1, <2>2
  <2> QED BY <1>2, <2>1, <2>3
<1>5. PICK place \in {"stream", "choose"} :
          /\ place = (IF after >= upto \/ r.limit = 0 THEN "stream" ELSE "choose")
          /\ place = "stream" => upto <= after \/ r.limit = 0
          /\ place = "choose" => after < upto /\ r.limit # 0
  OBVIOUS
<1>6. r' = [r EXCEPT !.snap = snap, !.after = after, !.upto = upto,
                     !.left = r.limit, !.hitLimit = FALSE, !.out = <<>>, !.page = <<>>,
                     !.top = IF r.pages = 1 THEN upto ELSE r.top,
                     !.access = "done", !.at = place]
  BY <1>3, <1>4, <1>5 DEF LoadSnapshot
<1>7. PICK s : s = r' OBVIOUS
<1>8. SnapInv(snap) /\ snap \in Snapshot BY DEF IndexInv, PublishInv, SnapInv
<1>9. s \in ReadState
  <2>1. PICK top \in Nat : top = IF r.pages = 1 THEN upto ELSE r.top BY <1>2
  <2>2. s = [r EXCEPT !.snap = snap, !.after = after, !.upto = upto,
                      !.left = r.limit, !.hitLimit = FALSE, !.out = <<>>, !.page = <<>>,
                      !.top = top, !.access = "done", !.at = place]
    BY <1>6, <1>7, <2>1
  <2>3. <<>> \in Seq(Nat) /\ place \in {"idle", "load", "end"} \cup Open
    BY DEF Open, Planning
  <2> QED BY <1>1, <1>2, <1>8, <2>2, <2>3 DEF ReadState
<1>10. /\ s.query = r.query /\ s.limit = r.limit /\ s.dir = r.dir /\ s.cursor = r.cursor
       /\ s.start = r.start /\ s.watermark = r.watermark /\ s.pages = r.pages
       /\ s.joined = r.joined /\ s.err = r.err
  BY <1>1, <1>6, <1>7 DEF ReadState
<1>11. /\ s.snap = snap /\ s.after = after /\ s.upto = upto /\ s.left = r.limit
       /\ ~ s.hitLimit /\ s.out = <<>> /\ s.page = <<>>
       /\ s.top = (IF r.pages = 1 THEN upto ELSE r.top)
       /\ s.access = "done" /\ s.at = place
  BY <1>1, <1>6, <1>7 DEF ReadState
<1>12. /\ 1 <= r.pages /\ r.watermark <= watermark
       /\ r.pages = 1 => r.cursor = r.start
       /\ r.pages # 1 => 1 <= r.cursor /\ r.cursor <= r.watermark /\ r.top <= r.watermark
       /\ r.dir = "forward" => r.start <= r.cursor
       /\ r.dir # "forward" /\ r.pages # 1 => r.cursor <= r.top
  BY <1>1 DEF PagingOK
<1>13. PagingOK(s) BY <1>10, <1>11, <1>12 DEF PagingOK
<1>14. BoundsOK(s) BY <1>3, <1>4, <1>10, <1>11, <1>12 DEF BoundsOK, Forward
<1>15. JoinOK(s)
  <2>1. Lists(r.dir, r.joined, Before(r)) BY <1>1 DEF JoinOK
  <2>2. Before(s) = Before(r) BY <1>10, <1>11 DEF Before, Found
  <2>3. r.joined = r.joined \o s.page BY <1>2, <1>11
  <2>4. s.at # "idle" /\ s.at # "load" BY <1>11
  <2> QED BY <1>10, <2>1, <2>2, <2>3, <2>4 DEF JoinOK
<1>16. PinnedOK(s)
  <2>1. upto <= SegEnd(snap.tail)
    <3>1. watermark \in Nat /\ watermark <= SegEnd(snap.tail) /\ SegEnd(snap.tail) \in Nat
      <4>1. /\ snap.tail = (IF rolled /\ pc # "watermark" THEN Len(bases) - 1 ELSE Len(bases))
            /\ watermark <= Len(log) /\ (rolled => watermark < bases[Len(bases)])
        BY DEF IndexInv, PublishInv
      <4>2. PICK j \in Nat : j = snap.tail /\ 1 <= j /\ j <= Len(tails)
        BY <1>8 DEF SnapInv, Snapshot
      <4>3. j \in 1 .. Len(tails) /\ SegEnd(j) \in Nat
        <5>1. j \in 1 .. Len(tails) BY <4>2, Here
        <5> QED BY <5>1, TailHere
      <4>4. Len(bases) \in Nat /\ Len(log) \in Nat /\ watermark \in Nat
            /\ bases[Len(bases)] \in Nat /\ SegEnd(Len(bases)) = Len(log)
        BY Here DEF IndexInv, TypeInv
      <4>5. CASE rolled /\ pc # "watermark"
        <5>1. j = Len(bases) - 1 /\ j # Len(bases) /\ j + 1 = Len(bases)
          BY <4>1, <4>2, <4>4, <4>5
        <5>2. SegEnd(j) = bases[Len(bases)] - 1 BY <5>1 DEF SegEnd
        <5> QED BY <4>1, <4>2, <4>3, <4>4, <4>5, <5>2
      <4>6. CASE ~ (rolled /\ pc # "watermark")
        <5>1. j = Len(bases) BY <4>1, <4>2, <4>6
        <5> QED BY <4>1, <4>2, <4>3, <4>4, <5>1
      <4> QED BY <4>5, <4>6
    <3> QED BY <1>2, <1>4, <1>12, <3>1
  <2> QED BY <1>8, <1>11, <2>1 DEF PinnedOK
<1>17. PlanOK(s)
  <2>1. s.at \in Planning => place = "choose" BY <1>5, <1>11 DEF Planning
  <2> QED BY <1>5, <1>10, <1>11, <2>1 DEF PlanOK
<1>18. ProbeOK(s) BY <1>11 DEF ProbeOK
<1>19. StreamOK(s)
  <2>1. s.at = "stream" => upto <= after \/ r.limit = 0 BY <1>5, <1>11
  <2>2. Len(s.page) = 0 BY <1>11
  <2>3. r.limit # NoLimit => r.limit \in Nat /\ r.limit + 0 = r.limit BY <1>2
  <2>4. s.access # "scan" /\ s.access # "index" BY <1>11
  <2> QED BY <1>10, <1>11, <2>1, <2>2, <2>3, <2>4 DEF StreamOK
<1>20. EndOK(s) BY <1>1, <1>10, <1>11 DEF EndOK
<1> QED BY <1>7, <1>9, <1>13, <1>14, <1>15, <1>16, <1>17, <1>18, <1>19, <1>20 DEF ReadOK

\* What holds while a read is open: its pinned range is in the log, and in the segments of its
\* snapshot.
LEMMA OpenHere ==
    ASSUME IndexInv, ReadOK(r), r.at \in Open
    PROVE  /\ r \in ReadState /\ r.query \in Query /\ r.dir \in {"forward", "backward"}
           /\ r.limit \in Nat \cup {NoLimit} /\ r.after \in Nat /\ r.upto \in Nat /\ r.pos \in Nat
           /\ r.out \in Seq(Nat) /\ r.page \in Seq(Nat) /\ r.joined \in Seq(Nat)
           /\ SnapInv(r.snap) /\ r.snap.tail \in 1 .. Len(tails)
           /\ r.snap.base = bases[r.snap.tail] /\ r.snap.base \in Nat /\ 1 <= r.snap.base
           /\ ReaderTail = tails[r.snap.tail] /\ ReaderTail \in TailState
           /\ Len(ReaderTail.column) \in Nat
           /\ SegEnd(r.snap.tail) \in Nat /\ r.upto <= SegEnd(r.snap.tail)
           /\ Len(log) \in Nat /\ r.upto <= Len(log) /\ r.upto <= watermark /\ watermark \in Nat
           /\ Describes(log, ReaderTail, r.snap.base)
           /\ (Forward <=> r.dir = "forward") /\ (~ Forward => r.after = 0) /\ ~ r.err
<1>1. /\ r \in ReadState /\ PagingOK(r) /\ BoundsOK(r) /\ PinnedOK(r) /\ EndOK(r)
  BY DEF ReadOK
<1>2. /\ r.query \in Query /\ r.dir \in {"forward", "backward"} /\ r.watermark \in Nat
      /\ r.limit \in Nat \cup {NoLimit} /\ r.after \in Nat /\ r.upto \in Nat /\ r.pos \in Nat
      /\ r.out \in Seq(Nat) /\ r.page \in Seq(Nat) /\ r.joined \in Seq(Nat)
  BY <1>1 DEF ReadState
<1>3. SnapInv(r.snap) /\ r.upto <= SegEnd(r.snap.tail) BY <1>1 DEF PinnedOK
<1>4. PICK k \in Nat : k = r.snap.tail /\ 1 <= k /\ k <= Len(tails) /\ r.snap.base = bases[k]
  BY <1>3 DEF SnapInv, Snapshot
<1>5. k \in 1 .. Len(tails) /\ Len(log) \in Nat BY <1>4, Here
<1>6. /\ tails[k] \in TailState /\ Len(tails[k].column) \in Nat /\ bases[k] \in Nat /\ 1 <= bases[k]
      /\ SegEnd(k) \in Nat /\ SegEnd(k) <= Len(log) /\ Describes(log, tails[k], bases[k])
  BY <1>5, TailHere
<1>7. r.at # "idle" /\ watermark \in Nat BY DEF Open, Planning, IndexInv, TypeInv
<1>8. r.upto <= r.watermark /\ r.watermark <= watermark /\ (r.dir # "forward" => r.after = 0)
  BY <1>1, <1>7 DEF BoundsOK, PagingOK
<1>9. r.upto <= Len(log) /\ r.upto <= watermark
  <2>1. r.upto <= SegEnd(k) BY <1>3, <1>4
  <2> QED BY <1>2, <1>5, <1>6, <1>7, <1>8, <2>1, SMTT(20)
<1>10. Forward <=> r.dir = "forward" BY DEF Forward
<1>11. ~ r.err BY <1>1 DEF EndOK
<1> QED BY <1>1, <1>2, <1>3, <1>4, <1>5, <1>6, <1>7, <1>8, <1>9, <1>10, <1>11 DEF ReaderTail

\* Every position of an open read's range can be found.
LEMMA RangeHeld ==
    ASSUME IndexInv, ReadOK(r), r.at \in Open
    PROVE  \A p \in Nat : 1 <= p /\ p <= r.upto => Held(p)
<1> SUFFICES ASSUME NEW p \in Nat, 1 <= p, p <= r.upto PROVE Held(p)
  OBVIOUS
<1>1. SnapInv(r.snap) /\ r.upto \in Nat /\ SegEnd(r.snap.tail) \in Nat
      /\ r.upto <= SegEnd(r.snap.tail)
  BY OpenHere
<1>2. p <= SegEnd(r.snap.tail) BY <1>1
<1> QED BY <1>1, <1>2, HeldAll

LEMMA FoundHas ==
    ASSUME IndexInv
    PROVE  \A s : \A first, last \in Nat : 1 <= first => \A p : p \in Found(s, first, last) <=>
              p \in Nat /\ first <= p /\ p <= last /\ p <= Len(log) /\ Matches(s.query, log[p])
<1>1. ASSUME NEW s, NEW first \in Nat, NEW last \in Nat, 1 <= first
      PROVE  \A p : p \in ScanMatches(s.query, first, last) <=>
                 p \in Nat /\ first <= p /\ p <= last /\ p <= Len(log) /\ Matches(s.query, log[p])
  BY <1>1, ScanHas DEF IndexInv
<1> QED BY <1>1 DEF Found

LEMMA FoundNothing ==
    ASSUME NEW s, NEW first \in Nat, NEW last \in Nat, last < first
    PROVE  Found(s, first, last) = {}
BY DEF Found, ScanMatches

LEMMA ChooseScanKeeps ==
    ASSUME IndexInv, ReadOK(r), ChooseScan
    PROVE  ReadOK(r')
<1>1. r.at = "choose" /\ r.at \in Open BY DEF ChooseScan, Reading, Open, Planning
<1>2. /\ r \in ReadState /\ r.after \in Nat /\ r.upto \in Nat /\ r.limit \in Nat \cup {NoLimit}
      /\ (Forward <=> r.dir = "forward") /\ ~ r.err /\ r.page \in Seq(Nat)
  BY <1>1, OpenHere
<1>3. PlanOK(r) /\ StreamOK(r) BY DEF ReadOK
<1>4. /\ r.after < r.upto /\ r.limit # 0 /\ r.left = r.limit /\ r.page = <<>> /\ ~ r.hitLimit
  BY <1>1, <1>3 DEF PlanOK, Planning
<1>5. PICK first \in Nat : /\ first = IF Forward THEN r.after + 1 ELSE r.upto
                           /\ Forward => first = r.after + 1
                           /\ ~ Forward => first = r.upto
  BY <1>2
<1>6. Held(first)
  <2>1. 1 <= first /\ first <= r.upto BY <1>2, <1>4, <1>5
  <2> QED BY <1>1, <2>1, RangeHeld
<1>7. r' = [r EXCEPT !.access = "scan", !.pos = first, !.at = "stream"]
  BY <1>5, <1>6 DEF ChooseScan
<1>8. PICK s : s = r' OBVIOUS
<1>9. s \in ReadState /\ RangeKept(s) BY <1>2, <1>7, <1>8 DEF ReadState, RangeKept, Open
<1>10. /\ s.at = "stream" /\ s.access = "scan" /\ s.pos = first /\ s.snap = r.snap
       /\ s.page = r.page /\ s.joined = r.joined /\ s.left = r.left /\ s.limit = r.limit
       /\ s.err = r.err /\ s.hitLimit = r.hitLimit /\ s.dir = r.dir /\ s.after = r.after
       /\ s.upto = r.upto
  BY <1>2, <1>7, <1>8 DEF ReadState
<1>11. StreamOK(s)
  <2>1. s.limit # NoLimit => s.left \in Nat /\ s.left + Len(s.page) = s.limit
    <3>1. Len(s.page) = 0 BY <1>4, <1>10
    <3> QED BY <1>2, <1>4, <1>10, <3>1
  <2>2. s.dir = "forward" => /\ s.after < s.pos /\ s.pos <= s.upto + 1
                             /\ Lists(s.dir, s.page, Found(s, s.after + 1, s.pos - 1))
    <3>1. s.dir = "forward" => s.pos = s.after + 1 BY <1>2, <1>5, <1>10
    <3>2. s.dir = "forward" => Found(s, s.after + 1, s.pos - 1) = {}
      <4>1. s.dir = "forward" => s.pos - 1 = s.after BY <1>2, <1>10, <3>1
      <4>2. Found(s, s.after + 1, s.after) = {} BY <1>2, <1>10, FoundNothing
      <4> QED BY <4>1, <4>2
    <3>3. s.dir = "forward" => Lists(s.dir, s.page, Found(s, s.after + 1, s.pos - 1))
      BY <1>4, <1>10, <3>2, ListsEmpty
    <3>4. s.after \in Nat /\ s.upto \in Nat /\ s.after < s.upto BY <1>2, <1>4, <1>10
    <3> QED BY <3>1, <3>3, <3>4
  <2>3. s.dir # "forward" => /\ s.after <= s.pos /\ s.pos <= s.upto
                             /\ Lists(s.dir, s.page, Found(s, s.pos + 1, s.upto))
    <3>1. s.dir # "forward" => s.pos = s.upto BY <1>2, <1>5, <1>10
    <3>2. Found(s, s.upto + 1, s.upto) = {} BY <1>2, <1>10, FoundNothing
    <3>3. s.dir # "forward" => Lists(s.dir, s.page, Found(s, s.pos + 1, s.upto))
      BY <1>4, <1>10, <3>1, <3>2, ListsEmpty
    <3>4. s.after \in Nat /\ s.upto \in Nat /\ s.after < s.upto BY <1>2, <1>4, <1>10
    <3> QED BY <3>1, <3>3, <3>4
  <2> QED BY <1>4, <1>10, <2>1, <2>2, <2>3 DEF StreamOK
<1>12. PlanOK(s) /\ ProbeOK(s) /\ EndOK(s)
  BY <1>2, <1>10 DEF PlanOK, ProbeOK, EndOK, Planning
<1>13. s.at \in Open \cup {"end"} BY <1>10 DEF Open
<1>14. ReadOK(s) BY <1>1, <1>9, <1>10, <1>11, <1>12, <1>13, ReadMoves
<1> QED BY <1>8, <1>14

LEMMA ChooseIndexKeeps ==
    ASSUME IndexInv, ReadOK(r), ChooseIndex
    PROVE  ReadOK(r')
<1>1. r.at = "choose" /\ r.at \in Open BY DEF ChooseIndex, Reading, Open, Planning
<1>2. /\ r \in ReadState /\ r.after \in Nat /\ r.upto \in Nat /\ r.limit \in Nat \cup {NoLimit}
      /\ (Forward <=> r.dir = "forward") /\ ~ r.err /\ r.snap.base \in Nat
  BY <1>1, OpenHere
<1>3. PlanOK(r) BY DEF ReadOK
<1>4. /\ r.after < r.upto /\ r.limit # 0 /\ r.left = r.limit /\ r.page = <<>> /\ ~ r.hitLimit
      /\ r.out = <<>>
  BY <1>1, <1>3 DEF PlanOK, Planning
<1>5. PICK place \in {"latch", "sealed"} :
          /\ place = IF ~ Forward /\ r.upto >= r.snap.base THEN "latch" ELSE "sealed"
          /\ place = "latch" => r.dir # "forward" /\ r.snap.base <= r.upto
          /\ place = "sealed" => r.dir = "forward" \/ r.upto < r.snap.base
  BY <1>2
<1>6. r' = [r EXCEPT !.access = "index", !.at = place] BY <1>5 DEF ChooseIndex
<1>7. PICK s : s = r' OBVIOUS
<1>8. s \in ReadState /\ RangeKept(s)
  BY <1>2, <1>6, <1>7 DEF ReadState, RangeKept, Open, Planning
<1>9. /\ s.at = place /\ s.access = "index" /\ s.snap = r.snap
      /\ s.page = r.page /\ s.joined = r.joined /\ s.left = r.left /\ s.limit = r.limit
      /\ s.err = r.err /\ s.hitLimit = r.hitLimit /\ s.dir = r.dir /\ s.after = r.after
      /\ s.upto = r.upto /\ s.out = r.out
  BY <1>2, <1>6, <1>7 DEF ReadState
<1>10. PlanOK(s)
  <2>1. ~ FullAt(s.limit, <<>>)
    <3>1. s.limit # NoLimit => s.limit \in Nat /\ s.limit # 0 /\ ~ (0 >= s.limit)
      BY <1>2, <1>4, <1>9
    <3> QED BY <3>1 DEF FullAt
  <2>2. place = "sealed" /\ s.dir # "forward" => Lists(s.dir, s.out, Found(s, s.snap.base, s.upto))
    <3>1. place = "sealed" /\ s.dir # "forward" => Found(s, s.snap.base, s.upto) = {}
      BY <1>2, <1>5, <1>9, FoundNothing
    <3> QED BY <1>4, <1>9, <3>1, ListsEmpty
  <2> QED BY <1>4, <1>5, <1>9, <2>1, <2>2 DEF PlanOK
<1>11. ProbeOK(s) /\ StreamOK(s) /\ EndOK(s) /\ s.at \in Open \cup {"end"}
  BY <1>2, <1>5, <1>9 DEF ProbeOK, StreamOK, EndOK, Open, Planning
<1>12. ReadOK(s) BY <1>1, <1>8, <1>9, <1>10, <1>11, ReadMoves
<1> QED BY <1>7, <1>12

\* A tail that is not latched has every event of the pinned range.
LEMMA TrustedTail ==
    ASSUME IndexInv, ~ LatchLost, ReadOK(r), r.at \in Open, ~ ReaderTail.unindexable
    PROVE  r.upto < r.snap.base + Len(ReaderTail.column)
<1>1. PICK k \in 1 .. Len(tails) : k = r.snap.tail BY OpenHere
<1>2. /\ r.upto \in Nat /\ r.snap.base = bases[k] /\ bases[k] \in Nat /\ ReaderTail = tails[k]
      /\ SegEnd(k) \in Nat /\ r.upto <= SegEnd(k) /\ r.upto <= watermark /\ watermark \in Nat
      /\ Len(tails[k].column) \in Nat
  BY <1>1, OpenHere
<1>3. ~ tails[k].reopened /\ ~ tails[k].unindexable BY <1>2 DEF LatchLost
<1>4. /\ Len(tails) \in Nat /\ Len(sealed) + 1 = Len(tails) /\ Len(sealed) \in Nat
      /\ Active = Len(tails) /\ ActiveTail = tails[Active]
  BY Here
<1>5. CASE k # Len(tails)
  <2>1. k \in 1 .. Len(sealed) BY <1>4, <1>5
  <2>2. Len(tails[k].column) = bases[k + 1] - bases[k]
    BY <1>3, <2>1 DEF IndexInv, SealedInv
  <2>3. k # Len(bases) /\ k < Len(bases)
    <3>1. Len(bases) \in Nat /\ Len(tails) <= Len(bases) BY Here
    <3> QED BY <1>4, <2>1, <3>1
  <2>4. SegEnd(k) = bases[k + 1] - 1 /\ bases[k + 1] \in Nat BY <2>3, TailHere
  <2> QED BY <1>2, <2>2, <2>4, SMTT(20)
<1>6. CASE k = Len(tails)
  <2>1. k = Active /\ tails[k] = ActiveTail BY <1>4, <1>6
  <2>2. ~ latched BY <1>3, <2>1 DEF IndexInv, ActiveInv
  <2>3. bases[k] + span = FedTo + 1 /\ span \in Nat
    BY <2>1 DEF IndexInv, ActiveInv, TypeInv
  <2>4. CASE pc = "tags"
    <3>1. Len(tails[k].column) + 1 = span BY <2>1, <2>4 DEF IndexInv, ActiveInv, HalfFed
    <3>2. FedTo = feeding /\ feeding \in Nat /\ watermark < feeding
      BY <2>4, FeedingHere DEF FedTo, IndexInv, PublishInv
    <3> QED BY <1>2, <2>3, <3>1, <3>2, SMTT(20)
  <2>5. CASE pc = "push"
    <3>1. Len(tails[k].column) = span BY <2>1, <2>2, <2>5 DEF IndexInv, ActiveInv
    <3>2. FedTo = feeding - 1 /\ feeding \in Nat /\ watermark < feeding
      BY <2>5, FeedingHere DEF FedTo, IndexInv, PublishInv
    <3> QED BY <1>2, <2>3, <3>1, <3>2
  <2>6. CASE pc # "tags" /\ pc # "push"
    <3>1. Len(tails[k].column) = span BY <2>1, <2>2, <2>6 DEF IndexInv, ActiveInv
    <3>2. FedTo = SegEnd(k) BY <2>1, <2>6 DEF FedTo
    <3> QED BY <1>2, <2>3, <3>1, <3>2
  <2> QED BY <2>4, <2>5, <2>6
<1> QED BY <1>5, <1>6

LEMMA TrustTailKeeps ==
    ASSUME IndexInv, ~ LatchLost, ReadOK(r), TrustTail
    PROVE  ReadOK(r')
<1>1. r.at = "latch" /\ r.at \in Open /\ ~ ReaderTail.unindexable
  BY DEF TrustTail, Reading, Open, Planning
<1>2. r \in ReadState /\ ~ r.err BY <1>1, OpenHere
<1>3. r' = [r EXCEPT !.at = "view"] BY DEF TrustTail
<1>4. PICK s : s = r' OBVIOUS
<1>5. s \in ReadState /\ RangeKept(s)
  BY <1>2, <1>3, <1>4 DEF ReadState, RangeKept, Open, Planning
<1>6. /\ s.at = "view" /\ s.access = r.access /\ s.snap = r.snap
      /\ s.page = r.page /\ s.joined = r.joined /\ s.left = r.left /\ s.limit = r.limit
      /\ s.err = r.err /\ s.hitLimit = r.hitLimit /\ s.dir = r.dir /\ s.after = r.after
      /\ s.upto = r.upto /\ s.out = r.out /\ s.query = r.query
  BY <1>2, <1>3, <1>4 DEF ReadState
<1>7. PlanOK(s)
  <2>1. PlanOK(r) BY DEF ReadOK
  <2> QED BY <1>1, <1>6, <2>1 DEF PlanOK, Planning, Found
<1>8. ProbeOK(s)
  <2>1. r.upto < r.snap.base + Len(ReaderTail.column) BY <1>1, TrustedTail
  <2> QED BY <1>6, <2>1 DEF ProbeOK, ReaderTail, TailOf
<1>9. StreamOK(s) /\ EndOK(s) /\ s.at \in Open \cup {"end"}
  BY <1>2, <1>6 DEF StreamOK, EndOK, Open, Planning
<1>10. ReadOK(s) BY <1>1, <1>5, <1>6, <1>7, <1>8, <1>9, ReadMoves
<1> QED BY <1>4, <1>10

\* Everything a view's locals carry was interned before the view.
LEMMA TermsInterned ==
    ASSUME IndexInv, ReadOK(r), r.at \in Open, NEW n \in Nat, n <= Len(ReaderTail.column)
    PROVE  \A l \in Nat : l < n =>
               \A t \in log[r.snap.base + l].tags :
                  Interned(t, ReaderTail.terms) /\ IdOf(t, ReaderTail.terms) < Len(ReaderTail.terms)
<1>1. /\ Describes(log, ReaderTail, r.snap.base) /\ ReaderTail \in TailState
      /\ Len(ReaderTail.column) \in Nat /\ r.snap.base \in Nat /\ 1 <= r.snap.base
      /\ r.snap.tail \in 1 .. Len(tails) /\ r.snap.base = bases[r.snap.tail]
      /\ ReaderTail = tails[r.snap.tail]
  BY OpenHere
<1>2. PICK k \in 1 .. Len(tails) : k = r.snap.tail BY <1>1
<1>3. bases[k] + Len(tails[k].column) <= SegEnd(k) + 1 /\ SegEnd(k) <= Len(log) /\ SegEnd(k) \in Nat
      /\ Len(log) \in Nat /\ bases[k] \in Nat
  BY TailHere, Here
<1> SUFFICES ASSUME NEW l \in Nat, l < n, NEW t \in log[r.snap.base + l].tags
             PROVE  /\ Interned(t, ReaderTail.terms)
                    /\ IdOf(t, ReaderTail.terms) < Len(ReaderTail.terms)
  OBVIOUS
<1>4. l < Len(ReaderTail.column) BY <1>1
<1>5. r.snap.base + l \in 1 .. Len(log)
  <2>1. PICK b \in Nat : b = r.snap.base /\ 1 <= b BY <1>1
  <2>2. PICK w \in Nat : w = Len(ReaderTail.column) BY <1>1
  <2>3. PICK e \in Nat, m \in Nat : e = SegEnd(k) /\ m = Len(log) BY <1>3
  <2>4. bases[k] = b /\ tails[k] = ReaderTail BY <1>1, <1>2, <2>1
  <2>5. b + w <= e + 1 /\ e <= m BY <1>3, <2>2, <2>3, <2>4
  <2>6. l < w /\ l \in Nat BY <1>4, <2>2
  <2>7. b + l \in 1 .. m BY ONLY <2>1, <2>2, <2>3, <2>5, <2>6, SMTT(20)
  <2> QED BY <2>1, <2>3, <2>7
<1>6. log[r.snap.base + l] \in Event BY <1>5, AppendableIs DEF IndexInv, TypeInv
<1>7. t \in Tag BY <1>6 DEF Event
<1>8. ReaderTail.postings[t] # {} BY <1>1, <1>4, <1>7 DEF Describes, Described
<1>9. Interned(t, ReaderTail.terms) /\ Unique(ReaderTail.terms) /\ ReaderTail.terms \in Seq(Tag)
  BY <1>1, <1>7, <1>8 DEF Describes, TailState
<1> QED BY <1>9, IdOfInterned

LEMMA ViewTailKeeps ==
    ASSUME IndexInv, ReadOK(r), ViewTail
    PROVE  ReadOK(r')
<1>1. r.at = "view" /\ r.at \in Open BY DEF ViewTail, Reading, Open, Planning
<1>2. /\ r \in ReadState /\ ~ r.err /\ r.snap.base \in Nat /\ ReaderTail \in TailState
      /\ Describes(log, ReaderTail, r.snap.base) /\ r.upto \in Nat /\ r.query \in Query
      /\ Len(ReaderTail.column) \in Nat
  BY <1>1, OpenHere
<1>3. PlanOK(r) /\ ProbeOK(r) BY DEF ReadOK
<1>4. r.snap.base <= r.upto /\ r.upto < r.snap.base + Len(ReaderTail.column)
  BY <1>1, <1>3 DEF PlanOK, ProbeOK, Planning, ReaderTail, TailOf
<1>5. PICK n \in Nat : n = r.upto - r.snap.base + 1 /\ n <= Len(ReaderTail.column)
  BY <1>2, <1>4
<1>6. VisibleLen = n
  <2>1. ReaderTail.base = r.snap.base BY <1>2 DEF Describes
  <2>2. PICK c \in Nat : c = Covered(Len(ReaderTail.column)) /\ n <= c
    <3>1. PICK w \in Nat : w = Len(ReaderTail.column) BY <1>2
    <3>2. Covered(w) \in Nat /\ w <= Covered(w) BY CoveredIsEnough
    <3>3. n <= w BY <1>5, <3>1
    <3>4. n <= Covered(w) BY ONLY n \in Nat, <3>1, <3>2, <3>3
    <3> QED BY <3>1, <3>2, <3>4
  <2>3. Lesser(n, c) = n BY <2>2, LesserIs
  <2> QED BY <1>5, <2>1, <2>2, <2>3 DEF VisibleLen
<1>7. PICK terms \in Nat : terms = Covered(Len(ReaderTail.terms)) /\ Len(ReaderTail.terms) <= terms
  <2>1. Len(ReaderTail.terms) \in Nat BY <1>2 DEF TailState
  <2> QED BY <2>1, CoveredIsEnough
<1>8. PICK index : index = [IndexSegment(EmptyTail(ReaderTail.base)) EXCEPT !.len = VisibleLen]
  OBVIOUS
<1>9. index \in SegmentIndexes /\ index.base = r.snap.base /\ index.len = n
  <2>1. ReaderTail.base = r.snap.base BY <1>2 DEF Describes
  <2>2. IndexSegment(EmptyTail(r.snap.base)) =
            [base |-> r.snap.base, len |-> 0, ids |-> [t \in EventType |-> NoId],
             posts |-> [t \in Tag |-> {}]]
    <3>1. /\ EmptyTail(r.snap.base).base = r.snap.base /\ Len(EmptyTail(r.snap.base).column) = 0
          /\ EmptyTail(r.snap.base).postings = [t \in Tag |-> {}]
          /\ EmptyTail(r.snap.base).types = <<>>
      BY DEF EmptyTail
    <3>2. \A t : ~ Interned(t, <<>>)
      <4>0. <<>> \in Seq(EventType) /\ Len(<<>>) = 0 OBVIOUS
      <4>1. PICK none \in Seq(EventType) : none = <<>> /\ Len(none) = 0 BY <4>0
      <4>2. \A t : Interned(t, none) <=> \E i \in 1 .. Len(none) : none[i] = t
        BY InternedAt
      <4>3. 1 .. Len(none) = {} BY <4>1
      <4> QED BY <4>1, <4>2, <4>3
    <3> QED BY <3>1, <3>2 DEF IndexSegment
  <2>3. NoId \in Int BY DEF NoId
  <2> QED BY <1>2, <1>6, <1>8, <2>1, <2>2, <2>3 DEF SegmentIndexes
<1>10. PICK types \in SUBSET EventType : types = UNION {item.types : item \in r.query.items}
  <2>1. \A item \in r.query.items : item.types \subseteq EventType
    BY <1>2 DEF Query, QueryItem
  <2>2. UNION {item.types : item \in r.query.items} \subseteq EventType BY <2>1
  <2> QED BY <2>2
<1>11. PICK tags \in SUBSET Tag : tags = UNION {item.tags : item \in r.query.items}
  <2>1. \A item \in r.query.items : item.tags \subseteq Tag BY <1>2 DEF Query, QueryItem
  <2>2. UNION {item.tags : item \in r.query.items} \subseteq Tag BY <2>1
  <2> QED BY <2>2
<1>12. r' = [r EXCEPT !.index = index, !.terms = terms, !.types = types, !.tags = tags,
                      !.at = "probe"]
  BY <1>7, <1>8, <1>10, <1>11 DEF ViewTail
<1>13. PICK s : s = r' OBVIOUS
<1>14. s \in ReadState /\ RangeKept(s)
  BY <1>2, <1>9, <1>12, <1>13 DEF ReadState, RangeKept, Open, Planning
<1>15. /\ s.at = "probe" /\ s.access = r.access /\ s.snap = r.snap
       /\ s.page = r.page /\ s.joined = r.joined /\ s.left = r.left /\ s.limit = r.limit
       /\ s.err = r.err /\ s.hitLimit = r.hitLimit /\ s.dir = r.dir /\ s.after = r.after
       /\ s.upto = r.upto /\ s.out = r.out /\ s.query = r.query
  BY <1>2, <1>12, <1>13 DEF ReadState
<1>16. s.index = index /\ s.terms = terms /\ s.types = types /\ s.tags = tags
  BY <1>2, <1>12, <1>13 DEF ReadState
<1>17. PlanOK(s) BY <1>1, <1>3, <1>15 DEF PlanOK, Planning, Found
<1>18. ProbeOK(s)
  <2>1. TailOf(s) = ReaderTail BY <1>15 DEF TailOf, ReaderTail
  <2>2. \A item \in s.query.items :
            (\A type \in item.types : type \in s.types) /\ (\A tag \in item.tags : tag \in s.tags)
    BY <1>10, <1>11, <1>15, <1>16
  <2>3. \A l \in Nat : l < s.index.len => \A t \in log[s.snap.base + l].tags :
            Interned(t, TailOf(s).terms) /\ IdOf(t, TailOf(s).terms) < s.terms
    <3> SUFFICES ASSUME NEW l \in Nat, l < n, NEW t \in log[r.snap.base + l].tags
                 PROVE  Interned(t, ReaderTail.terms) /\ IdOf(t, ReaderTail.terms) < terms
      BY <1>9, <1>15, <1>16, <2>1
    <3>1. Interned(t, ReaderTail.terms) /\ IdOf(t, ReaderTail.terms) < Len(ReaderTail.terms)
      BY <1>1, <1>5, TermsInterned
    <3>2. IdOf(t, ReaderTail.terms) \in Nat /\ Len(ReaderTail.terms) \in Nat
      <4>1. Unique(ReaderTail.terms) /\ ReaderTail.terms \in Seq(Tag)
        BY <1>2 DEF Describes, TailState
      <4> QED BY <3>1, <4>1, IdOfInterned
    <3> QED BY <1>7, <3>1, <3>2
  <2> QED BY <1>4, <1>5, <1>9, <1>15, <1>16, <2>1, <2>2, <2>3 DEF ProbeOK
<1>19. StreamOK(s) /\ EndOK(s) /\ s.at \in Open \cup {"end"}
  BY <1>2, <1>15 DEF StreamOK, EndOK, Open, Planning
<1>20. ReadOK(s) BY <1>1, <1>14, <1>15, <1>17, <1>18, <1>19, ReadMoves
<1> QED BY <1>13, <1>20

LEMMA ProbeTypeKeeps ==
    ASSUME IndexInv, ReadOK(r), ProbeType
    PROVE  ReadOK(r')
<1>1. r.at = "probe" /\ r.at \in Open /\ r.types # {}
  BY DEF ProbeType, Reading, Open, Planning
<1>2. /\ r \in ReadState /\ ~ r.err /\ r.snap.base \in Nat /\ ReaderTail \in TailState
      /\ Describes(log, ReaderTail, r.snap.base) /\ r.upto \in Nat
      /\ Len(ReaderTail.column) \in Nat
  BY <1>1, OpenHere
<1>3. PlanOK(r) /\ ProbeOK(r) BY DEF ReadOK
<1>4. PICK type : type = (CHOOSE t \in r.types : TRUE) /\ type \in r.types BY <1>1
<1>5. type \in EventType /\ r.index \in SegmentIndexes BY <1>2, <1>4 DEF ReadState
<1>6. PICK id \in Int : id = IndexSegment(ReaderTail).ids[type] /\
          id = IF Interned(type, ReaderTail.types) THEN IdOf(type, ReaderTail.types) ELSE NoId
  <2>1. IndexSegment(ReaderTail).ids[type] =
            IF Interned(type, ReaderTail.types) THEN IdOf(type, ReaderTail.types) ELSE NoId
    BY <1>5 DEF IndexSegment
  <2>2. Unique(ReaderTail.types) /\ ReaderTail.types \in Seq(EventType)
    BY <1>2 DEF Describes, TailState
  <2>3. Interned(type, ReaderTail.types) => IdOf(type, ReaderTail.types) \in Nat
    BY <2>2, IdOfInterned
  <2>4. NoId \in Int BY DEF NoId
  <2> QED BY <2>1, <2>3, <2>4
<1>7. PICK index : index = [r.index EXCEPT !.ids[type] = id] OBVIOUS
<1>8. /\ index \in SegmentIndexes /\ index.base = r.index.base /\ index.len = r.index.len
      /\ index.posts = r.index.posts /\ index.ids[type] = id
      /\ \A t \in EventType : t # type => index.ids[t] = r.index.ids[t]
  BY <1>5, <1>6, <1>7 DEF SegmentIndexes
<1>9. r' = [r EXCEPT !.types = r.types \ {type}, !.index = index]
  <2>1. r' = [r EXCEPT !.types = r.types \ {type}, !.index.ids[type] = id]
    BY <1>4, <1>6 DEF ProbeType
  <2> QED BY <1>2, <1>7, <2>1 DEF ReadState
<1>10. PICK types \in SUBSET EventType : types = r.types \ {type} BY <1>2 DEF ReadState
<1>11. PICK s : s = r' OBVIOUS
<1>12. s \in ReadState /\ RangeKept(s)
  BY <1>2, <1>8, <1>9, <1>10, <1>11 DEF ReadState, RangeKept
<1>13. /\ s.at = "probe" /\ s.access = r.access /\ s.snap = r.snap
       /\ s.page = r.page /\ s.joined = r.joined /\ s.left = r.left /\ s.limit = r.limit
       /\ s.err = r.err /\ s.hitLimit = r.hitLimit /\ s.dir = r.dir /\ s.after = r.after
       /\ s.upto = r.upto /\ s.out = r.out /\ s.query = r.query
  BY <1>1, <1>2, <1>9, <1>11 DEF ReadState
<1>14. s.index = index /\ s.terms = r.terms /\ s.types = r.types \ {type} /\ s.tags = r.tags
  BY <1>2, <1>9, <1>11 DEF ReadState
<1>15. PlanOK(s) BY <1>1, <1>3, <1>13 DEF PlanOK, Planning, Found
<1>16. ProbeOK(s)
  <2>1. TailOf(s) = ReaderTail /\ TailOf(r) = ReaderTail BY <1>13 DEF TailOf, ReaderTail
  <2>2. /\ r.upto < r.snap.base + Len(ReaderTail.column)
        /\ r.index.base = r.snap.base
        /\ r.index.len = r.upto - r.snap.base + 1
        /\ \A item \in r.query.items :
              /\ \A t \in item.types :
                    t \notin r.types => SeesType(log, r.index, ReaderTail, r.snap.base, t)
              /\ \A tag \in item.tags :
                    tag \notin r.tags => SeesTag(log, r.index, r.snap.base, tag)
        /\ \A l \in Nat : l < r.index.len => \A t \in log[r.snap.base + l].tags :
              Interned(t, ReaderTail.terms) /\ IdOf(t, ReaderTail.terms) < r.terms
    BY <1>1, <1>3, <2>1 DEF ProbeOK
  <2>3. SeesType(log, index, ReaderTail, r.snap.base, type)
    <3>1. CASE Interned(type, ReaderTail.types) BY <1>6, <1>8, <3>1 DEF SeesType
    <3>2. CASE ~ Interned(type, ReaderTail.types)
      <4>1. \A l \in Nat : l < Len(ReaderTail.column) => log[r.snap.base + l].type # type
        BY <1>2, <3>2 DEF Describes, Described
      <4>2. index.len <= Len(ReaderTail.column) /\ index.len \in Int BY <1>2, <1>8, <2>2
      <4>3. \A l \in Nat : l < index.len => log[r.snap.base + l].type # type
        BY <1>2, <4>1, <4>2
      <4> QED BY <1>6, <1>8, <3>2, <4>3 DEF SeesType
    <3> QED BY <3>1, <3>2
  <2>4. ASSUME NEW t, t \in EventType, t # type, SeesType(log, r.index, ReaderTail, r.snap.base, t)
        PROVE  SeesType(log, index, ReaderTail, r.snap.base, t)
    BY <1>8, <2>4 DEF SeesType
  <2>5. ASSUME NEW tag, SeesTag(log, r.index, r.snap.base, tag)
        PROVE  SeesTag(log, index, r.snap.base, tag)
    BY <1>8, <2>5 DEF SeesTag
  <2>6. \A item \in s.query.items : item.types \subseteq EventType
    BY <1>12 DEF ReadState, Query, QueryItem
  <2>7. ASSUME NEW item \in s.query.items
        PROVE  /\ \A t \in item.types :
                    t \notin s.types => SeesType(log, s.index, TailOf(s), s.snap.base, t)
               /\ \A tag \in item.tags :
                    tag \notin s.tags => SeesTag(log, s.index, s.snap.base, tag)
    BY <1>13, <1>14, <2>1, <2>2, <2>3, <2>4, <2>5, <2>6
  <2> QED BY <1>8, <1>13, <1>14, <2>1, <2>2, <2>7 DEF ProbeOK
<1>17. StreamOK(s) /\ EndOK(s) /\ s.at \in Open \cup {"end"}
  BY <1>2, <1>13 DEF StreamOK, EndOK, Open, Planning
<1>18. ReadOK(s) BY <1>1, <1>12, <1>13, <1>15, <1>16, <1>17, ReadMoves
<1> QED BY <1>11, <1>18

LEMMA ProbeTagKeeps ==
    ASSUME IndexInv, ReadOK(r), ProbeTag
    PROVE  ReadOK(r')
<1>1. r.at = "probe" /\ r.at \in Open /\ r.tags # {}
  BY DEF ProbeTag, Reading, Open, Planning
<1>2. /\ r \in ReadState /\ ~ r.err /\ r.snap.base \in Nat /\ ReaderTail \in TailState
      /\ Describes(log, ReaderTail, r.snap.base) /\ r.upto \in Nat
      /\ Len(ReaderTail.column) \in Nat
  BY <1>1, OpenHere
<1>3. PlanOK(r) /\ ProbeOK(r) BY DEF ReadOK
<1>4. PICK tag : tag = (CHOOSE t \in r.tags : TRUE) /\ tag \in r.tags BY <1>1
<1>5. tag \in Tag /\ r.index \in SegmentIndexes BY <1>2, <1>4 DEF ReadState
<1>6. PICK locals \in SUBSET Nat :
          locals = IF Interned(tag, ReaderTail.terms) /\ IdOf(tag, ReaderTail.terms) < r.terms
                   THEN {l \in ReaderTail.postings[tag] : l < r.index.len} ELSE {}
  BY <1>2, <1>5 DEF TailState
<1>7. PICK index : index = [r.index EXCEPT !.posts[tag] = locals] OBVIOUS
<1>8. /\ index \in SegmentIndexes /\ index.base = r.index.base /\ index.len = r.index.len
      /\ index.ids = r.index.ids /\ index.posts[tag] = locals
      /\ \A t \in Tag : t # tag => index.posts[t] = r.index.posts[t]
  BY <1>5, <1>6, <1>7 DEF SegmentIndexes
<1>9. r' = [r EXCEPT !.tags = r.tags \ {tag}, !.index = index]
  <2>1. r' = [r EXCEPT !.tags = r.tags \ {tag}, !.index.posts[tag] = locals]
    BY <1>4, <1>6 DEF ProbeTag
  <2> QED BY <1>2, <1>7, <2>1 DEF ReadState
<1>10. PICK tags \in SUBSET Tag : tags = r.tags \ {tag} BY <1>2 DEF ReadState
<1>11. PICK s : s = r' OBVIOUS
<1>12. s \in ReadState /\ RangeKept(s)
  BY <1>2, <1>8, <1>9, <1>10, <1>11 DEF ReadState, RangeKept
<1>13. /\ s.at = "probe" /\ s.access = r.access /\ s.snap = r.snap
       /\ s.page = r.page /\ s.joined = r.joined /\ s.left = r.left /\ s.limit = r.limit
       /\ s.err = r.err /\ s.hitLimit = r.hitLimit /\ s.dir = r.dir /\ s.after = r.after
       /\ s.upto = r.upto /\ s.out = r.out /\ s.query = r.query
  BY <1>1, <1>2, <1>9, <1>11 DEF ReadState
<1>14. s.index = index /\ s.terms = r.terms /\ s.types = r.types /\ s.tags = r.tags \ {tag}
  BY <1>2, <1>9, <1>11 DEF ReadState
<1>15. PlanOK(s) BY <1>1, <1>3, <1>13 DEF PlanOK, Planning, Found
<1>16. ProbeOK(s)
  <2>1. TailOf(s) = ReaderTail /\ TailOf(r) = ReaderTail BY <1>13 DEF TailOf, ReaderTail
  <2>2. /\ r.upto < r.snap.base + Len(ReaderTail.column)
        /\ r.index.base = r.snap.base
        /\ r.index.len = r.upto - r.snap.base + 1
        /\ \A item \in r.query.items :
              /\ \A type \in item.types :
                    type \notin r.types => SeesType(log, r.index, ReaderTail, r.snap.base, type)
              /\ \A t \in item.tags :
                    t \notin r.tags => SeesTag(log, r.index, r.snap.base, t)
        /\ \A l \in Nat : l < r.index.len => \A t \in log[r.snap.base + l].tags :
              Interned(t, ReaderTail.terms) /\ IdOf(t, ReaderTail.terms) < r.terms
    BY <1>1, <1>3, <2>1 DEF ProbeOK
  <2>3. SeesTag(log, index, r.snap.base, tag)
    <3> SUFFICES ASSUME NEW l \in Nat, l < index.len
                 PROVE  l \in index.posts[tag] <=> tag \in log[r.snap.base + l].tags
      BY DEF SeesTag
    <3>1. l < r.index.len /\ l < Len(ReaderTail.column) BY <1>2, <1>8, <2>2
    <3>2. l \in ReaderTail.postings[tag] <=> tag \in log[r.snap.base + l].tags
      BY <1>2, <1>5, <3>1 DEF Describes, Described
    <3>3. tag \in log[r.snap.base + l].tags =>
              Interned(tag, ReaderTail.terms) /\ IdOf(tag, ReaderTail.terms) < r.terms
      BY <2>2, <3>1
    <3> QED BY <1>6, <1>8, <3>1, <3>2, <3>3
  <2>4. ASSUME NEW t, t \in Tag, t # tag, SeesTag(log, r.index, r.snap.base, t)
        PROVE  SeesTag(log, index, r.snap.base, t)
    BY <1>8, <2>4 DEF SeesTag
  <2>5. ASSUME NEW type, SeesType(log, r.index, ReaderTail, r.snap.base, type)
        PROVE  SeesType(log, index, ReaderTail, r.snap.base, type)
    BY <1>8, <2>5 DEF SeesType
  <2>6. \A item \in s.query.items : item.tags \subseteq Tag
    BY <1>12 DEF ReadState, Query, QueryItem
  <2>7. ASSUME NEW item \in s.query.items
        PROVE  /\ \A type \in item.types :
                    type \notin s.types => SeesType(log, s.index, TailOf(s), s.snap.base, type)
               /\ \A t \in item.tags :
                    t \notin s.tags => SeesTag(log, s.index, s.snap.base, t)
    BY <1>13, <1>14, <2>1, <2>2, <2>3, <2>4, <2>5, <2>6
  <2> QED BY <1>8, <1>13, <1>14, <2>1, <2>2, <2>7 DEF ProbeOK
<1>17. StreamOK(s) /\ EndOK(s) /\ s.at \in Open \cup {"end"}
  BY <1>2, <1>13 DEF StreamOK, EndOK, Open, Planning
<1>18. ReadOK(s) BY <1>1, <1>12, <1>13, <1>15, <1>16, <1>17, ReadMoves
<1> QED BY <1>11, <1>18

\* What was planned so far, with what the active segment holds.
LEMMA TailPlannedKeeps ==
    ASSUME IndexInv, ReadOK(r), r.at \in {"latch", "probe"}, NEW found, TailPlanned(found),
           \A p : p \in found <=>
               /\ p \in Nat /\ r.snap.base <= p /\ r.after < p /\ p <= r.upto /\ p <= Len(log)
               /\ Matches(r.query, log[p])
    PROVE  ReadOK(r')
<1>1. r.at \in Open BY DEF Open, Planning
<1>2. /\ r \in ReadState /\ ~ r.err /\ r.snap.base \in Nat /\ 1 <= r.snap.base
      /\ r.upto \in Nat /\ r.after \in Nat /\ r.limit \in Nat \cup {NoLimit}
      /\ r.dir \in {"forward", "backward"} /\ r.out \in Seq(Nat)
      /\ (Forward <=> r.dir = "forward") /\ (~ Forward => r.after = 0)
  BY <1>1, OpenHere
<1>3. PlanOK(r) BY DEF ReadOK
<1>4. /\ r.after < r.upto /\ r.limit # 0 /\ r.left = r.limit /\ r.page = <<>> /\ ~ r.hitLimit
      /\ r.access = "index" /\ r.snap.base <= r.upto
      /\ Forward => /\ Lists(r.dir, r.out, Found(r, r.after + 1, r.snap.base - 1))
                    /\ ~ FullAt(r.limit, r.out)
      /\ ~ Forward => r.out = <<>>
  BY <1>2, <1>3 DEF PlanOK, Planning
<1>5. PICK run \in Seq(Nat) : run = Ordered(found) /\ Lists(r.dir, run, found)
  <2>1. r.upto + 1 \in Nat /\ \A p \in found : p \in Nat /\ p < r.upto + 1 BY <1>2
  <2>2. Lists(r.dir, Ordered(found), found) BY <2>1, OrderedLists
  <2> QED BY <2>2 DEF Lists
<1>6. PICK w \in Seq(Nat) : w = r.out \o run
  <2>1. r.out \o run \in Seq(Nat) BY <1>2, ConcatProperties
  <2> QED BY <2>1
<1>7. PICK out \in Seq(Nat) : out = CapAt(r.limit, w) BY <1>2, <1>6, CapIs
<1>8. PICK place \in {"stream", "sealed"} :
          /\ place = IF Forward \/ FullAt(r.limit, out) THEN "stream" ELSE "sealed"
          /\ place = "stream" => Forward \/ FullAt(r.limit, out)
          /\ place = "sealed" => ~ Forward /\ ~ FullAt(r.limit, out)
  OBVIOUS
<1>9. r' = [r EXCEPT !.out = out, !.at = place]
  <2>1. out = Capped(r.out \o Ordered(found)) BY <1>5, <1>6, <1>7, CapsAre
  <2>2. Full(out) <=> FullAt(r.limit, out) BY CapsAre
  <2> QED BY <1>8, <2>1, <2>2 DEF TailPlanned
<1>10. PICK s : s = r' OBVIOUS
<1>11. s \in ReadState /\ RangeKept(s)
  BY <1>2, <1>9, <1>10 DEF ReadState, RangeKept, Open, Planning
<1>12. /\ s.at = place /\ s.access = "index" /\ s.snap = r.snap
       /\ s.page = r.page /\ s.joined = r.joined /\ s.left = r.left /\ s.limit = r.limit
       /\ s.err = r.err /\ s.hitLimit = r.hitLimit /\ s.dir = r.dir /\ s.after = r.after
       /\ s.upto = r.upto /\ s.out = out /\ s.query = r.query
  BY <1>2, <1>4, <1>9, <1>10 DEF ReadState
<1>13. \A first, last : Found(s, first, last) = Found(r, first, last) BY <1>12 DEF Found
<1>14. \A first, last \in Nat : 1 <= first => \A p : p \in Found(r, first, last) <=>
           p \in Nat /\ first <= p /\ p <= last /\ p <= Len(log) /\ Matches(r.query, log[p])
  BY FoundHas
<1>15. CASE Forward
  <2>1. place = "stream" /\ s.at = "stream" BY <1>8, <1>12, <1>15
  <2>2. Lists(r.dir, w, Found(r, r.after + 1, r.upto))
    <3>1. r.snap.base - 1 \in Nat /\ r.after + 1 \in Nat /\ 1 <= r.after + 1 BY <1>2
    <3>2. \A p : p \in Found(r, r.after + 1, r.snap.base - 1) <=>
              p \in Nat /\ r.after + 1 <= p /\ p <= r.snap.base - 1
              /\ p <= Len(log) /\ Matches(r.query, log[p])
      BY <1>14, <3>1
    <3>3. \A p : p \in Found(r, r.after + 1, r.upto) <=>
              p \in Nat /\ r.after + 1 <= p /\ p <= r.upto
              /\ p <= Len(log) /\ Matches(r.query, log[p])
      BY <1>2, <1>14, <3>1
    <3>4. ASSUME NEW p
          PROVE  p \in Found(r, r.after + 1, r.snap.base - 1) \cup found
                     <=> p \in Found(r, r.after + 1, r.upto)
      <4>1. p \in Nat => (p <= r.snap.base - 1 <=> ~ (r.snap.base <= p))
                         /\ (r.after + 1 <= p <=> r.after < p)
        BY <1>2
      <4>2. p \in Nat /\ p <= r.snap.base - 1 => p <= r.upto BY <1>2, <1>4
      <4> QED BY <3>2, <3>3, <4>1, <4>2
    <3>5. Found(r, r.after + 1, r.snap.base - 1) \cup found = Found(r, r.after + 1, r.upto)
      BY <3>4
    <3>6. \A a \in Found(r, r.after + 1, r.snap.base - 1) : \A b \in found :
              Earlier(r.dir, a, b)
      BY <1>2, <1>15, <3>2 DEF Earlier
    <3>7. Lists(r.dir, r.out \o run, Found(r, r.after + 1, r.snap.base - 1) \cup found)
      BY <1>4, <1>5, <1>15, <3>6, ListsConcat
    <3> QED BY <1>6, <3>5, <3>7
  <2>3. StreamOK(s)
    <3>1. Len(s.page) = 0 /\ s.page \o s.out = out BY <1>4, <1>12
    <3>2. s.limit # NoLimit => s.left \in Nat /\ s.left + Len(s.page) = s.limit
      BY <1>2, <1>4, <1>12, <3>1
    <3>3. \E all : Lists(s.dir, all, Found(s, s.after + 1, s.upto))
                   /\ s.page \o s.out = CapAt(s.limit, all)
      BY <1>7, <1>12, <1>13, <2>2, <3>1
    <3> QED BY <1>4, <1>12, <3>2, <3>3 DEF StreamOK
  <2>4. PlanOK(s) /\ ProbeOK(s) /\ EndOK(s) /\ s.at \in Open \cup {"end"}
    BY <1>2, <1>12, <2>1 DEF PlanOK, ProbeOK, EndOK, Open, Planning
  <2>5. ReadOK(s) BY <1>1, <1>11, <1>12, <2>3, <2>4, ReadMoves
  <2> QED BY <1>10, <2>5
<1>16. CASE ~ Forward
  <2>1. r.after = 0 /\ r.out = <<>> /\ w = run /\ r.dir = "backward"
    <3>1. r.after = 0 /\ r.out = <<>> /\ r.dir = "backward" BY <1>2, <1>4, <1>16
    <3>2. <<>> \o run = run BY ConcatEmptySeq
    <3> QED BY <1>6, <3>1, <3>2
  <2>2. \A p : p \in Found(r, r.snap.base, r.upto) <=>
            p \in Nat /\ r.snap.base <= p /\ p <= r.upto
            /\ p <= Len(log) /\ Matches(r.query, log[p])
    BY <1>2, <1>14
  <2>3. found = Found(r, r.snap.base, r.upto)
    <3>1. \A p \in Nat : r.snap.base <= p => r.after < p BY <1>2, <2>1
    <3>2. ASSUME NEW p PROVE p \in found <=> p \in Found(r, r.snap.base, r.upto)
      BY <2>2, <3>1
    <3> QED BY <3>2
  <2>4. CASE place = "sealed"
    <3>1. ~ FullAt(r.limit, out) BY <1>8, <2>4
    <3>2. out = run BY <1>2, <1>7, <2>1, <3>1, CapFull
    <3>3. Lists(s.dir, s.out, Found(s, s.snap.base, s.upto)) /\ ~ FullAt(s.limit, s.out)
      BY <1>5, <1>12, <1>13, <2>3, <3>1, <3>2
    <3>4. PlanOK(s) BY <1>4, <1>12, <1>16, <1>2, <2>4, <3>3 DEF PlanOK
    <3>5. ProbeOK(s) /\ StreamOK(s) /\ EndOK(s) /\ s.at \in Open \cup {"end"}
      BY <1>2, <1>12, <2>4 DEF ProbeOK, StreamOK, EndOK, Open, Planning
    <3>6. ReadOK(s) BY <1>1, <1>11, <1>12, <3>4, <3>5, ReadMoves
    <3> QED BY <1>10, <3>6
  <2>5. CASE place = "stream"
    <3>1. FullAt(r.limit, out) BY <1>8, <1>16, <2>5
    <3>2. PICK rest \in Seq(Nat) : Lists(r.dir, rest, Found(r, 1, r.snap.base - 1))
      <4>1. r.snap.base - 1 \in Nat BY <1>2
      <4>2. Lists(r.dir, Ordered(Found(r, 1, r.snap.base - 1)), Found(r, 1, r.snap.base - 1))
        BY <4>1, OrderedFound DEF Found, IndexInv
      <4> QED BY <4>2 DEF Lists
    <3>3. Lists(r.dir, run \o rest, Found(r, r.after + 1, r.upto))
      <4>1. r.snap.base - 1 \in Nat /\ r.after + 1 = 1 BY <1>2, <2>1
      <4>2. \A p : p \in Found(r, 1, r.snap.base - 1) <=>
                p \in Nat /\ 1 <= p /\ p <= r.snap.base - 1
                /\ p <= Len(log) /\ Matches(r.query, log[p])
        <5>1. PICK b \in Nat : b = r.snap.base - 1 BY <4>1
        <5>2. \A p : p \in Found(r, 1, b) <=>
                  p \in Nat /\ 1 <= p /\ p <= b /\ p <= Len(log) /\ Matches(r.query, log[p])
          <6>1. PICK one \in Nat : one = 1 /\ 1 <= one OBVIOUS
          <6>2. \A p : p \in Found(r, one, b) <=> p \in Nat /\ one <= p /\ p <= b
                          /\ p <= Len(log) /\ Matches(r.query, log[p])
            BY ONLY <1>14, <6>1, b \in Nat
          <6> QED BY <6>1, <6>2
        <5> QED BY <5>1, <5>2
      <4>3. \A p : p \in Found(r, 1, r.upto) <=>
                p \in Nat /\ 1 <= p /\ p <= r.upto
                /\ p <= Len(log) /\ Matches(r.query, log[p])
        BY <1>2, <1>14
      <4>4. \A a \in found : \A b \in Found(r, 1, r.snap.base - 1) : Earlier(r.dir, a, b)
        BY <1>2, <2>1, <4>2 DEF Earlier
      <4>5. found \cup Found(r, 1, r.snap.base - 1) = Found(r, 1, r.upto)
        <5>1. \A p \in Nat : /\ p <= r.snap.base - 1 <=> ~ (r.snap.base <= p)
                             /\ p <= r.snap.base - 1 => p <= r.upto
                             /\ r.snap.base <= p => 1 <= p
          BY <1>2, <1>4, SMTT(20)
        <5>2. ASSUME NEW p
              PROVE  p \in found \cup Found(r, 1, r.snap.base - 1) <=> p \in Found(r, 1, r.upto)
          BY <2>2, <2>3, <4>2, <4>3, <5>1
        <5> QED BY <5>2
      <4>6. Lists(r.dir, run \o rest, found \cup Found(r, 1, r.snap.base - 1))
        BY <1>5, <3>2, <4>4, ListsConcat
      <4> QED BY <4>1, <4>5, <4>6
    <3>4. CapAt(r.limit, run \o rest) = out BY <1>2, <1>7, <2>1, <3>1, <3>2, CapFull
    <3>5. StreamOK(s)
      <4>1. Len(s.page) = 0 /\ s.page \o s.out = out BY <1>4, <1>12
      <4>2. s.limit # NoLimit => s.left \in Nat /\ s.left + Len(s.page) = s.limit
        BY <1>2, <1>4, <1>12, <4>1
      <4>3. \E all : Lists(s.dir, all, Found(s, s.after + 1, s.upto))
                     /\ s.page \o s.out = CapAt(s.limit, all)
        BY <1>12, <1>13, <3>3, <3>4, <4>1
      <4> QED BY <1>4, <1>12, <4>2, <4>3 DEF StreamOK
    <3>6. PlanOK(s) /\ ProbeOK(s) /\ EndOK(s) /\ s.at \in Open \cup {"end"}
      BY <1>2, <1>12, <2>5 DEF PlanOK, ProbeOK, EndOK, Open, Planning
    <3>7. ReadOK(s) BY <1>1, <1>11, <1>12, <3>5, <3>6, ReadMoves
    <3> QED BY <1>10, <3>7
  <2> QED BY <1>8, <2>4, <2>5
<1> QED BY <1>15, <1>16

LEMMA ScanLatchedKeeps ==
    ASSUME IndexInv, ReadOK(r), ScanLatched
    PROVE  ReadOK(r')
<1>1. r.at = "latch" /\ r.at \in Open BY DEF ScanLatched, Reading, Open, Planning
<1>2. PICK found : found = ScanMatches(r.query, FirstAfter(r.after, r.snap.base), r.upto)
  OBVIOUS
<1>3. TailPlanned(found) BY <1>2 DEF ScanLatched
<1>4. /\ r.snap.base \in Nat /\ 1 <= r.snap.base /\ r.upto \in Nat /\ r.after \in Nat
  BY <1>1, OpenHere
<1>5. PICK first \in Nat : first = FirstAfter(r.after, r.snap.base) /\ 1 <= first
                           /\ \A p \in Nat : first <= p <=> r.after < p /\ r.snap.base <= p
  <2>1. PICK b \in Nat : b = r.snap.base - 1 BY <1>4
  <2>2. Max({r.after, b}) = IF r.after <= b THEN b ELSE r.after BY <1>4, GreaterIs
  <2>3. FirstAfter(r.after, r.snap.base) = Max({r.after, b}) + 1 BY <2>1 DEF FirstAfter
  <2> QED BY <1>4, <2>1, <2>2, <2>3
<1>6. \A p : p \in found <=> /\ p \in Nat /\ first <= p /\ p <= r.upto /\ p <= Len(log)
                             /\ Matches(r.query, log[p])
  BY <1>2, <1>4, <1>5, ScanHas DEF IndexInv
<1>7. \A p : p \in found <=> /\ p \in Nat /\ r.snap.base <= p /\ r.after < p /\ p <= r.upto
                             /\ p <= Len(log) /\ Matches(r.query, log[p])
  BY <1>5, <1>6
<1> QED BY <1>1, <1>3, <1>7, TailPlannedKeeps

LEMMA EvaluateTailKeeps ==
    ASSUME IndexInv, ReadOK(r), EvaluateTail
    PROVE  ReadOK(r')
<1>1. r.at = "probe" /\ r.at \in Open /\ r.types = {} /\ r.tags = {}
  BY DEF EvaluateTail, Reading, Open, Planning
<1>2. PICK found : found = {p \in Search(r.index, ReaderTail, r.query) : p > r.after /\ p <= r.upto}
  OBVIOUS
<1>3. TailPlanned(found) BY <1>2 DEF EvaluateTail
<1>4. /\ r.snap.base \in Nat /\ 1 <= r.snap.base /\ r.upto \in Nat /\ r.after \in Nat
      /\ Describes(log, ReaderTail, r.snap.base) /\ ReaderTail \in TailState
      /\ Len(ReaderTail.column) \in Nat /\ r.query \in Query /\ Len(log) \in Nat /\ r.upto <= Len(log)
  BY <1>1, OpenHere
<1>5. PICK base \in Nat : base = r.snap.base BY <1>4
<1>6. PICK tail \in TailState : tail = ReaderTail BY <1>4
<1>7. PICK index : index = r.index OBVIOUS
<1>8. /\ r.upto < base + Len(tail.column) /\ index.base = base
      /\ index.len = r.upto - base + 1
      /\ \A item \in r.query.items : Sees(log, index, tail, base, item)
  <2>1. TailOf(r) = tail BY <1>6 DEF TailOf, ReaderTail
  <2> QED BY <1>1, <1>5, <1>7, <2>1 DEF ReadOK, ProbeOK, Sees
<1>9. base <= r.upto BY <1>1, <1>5 DEF ReadOK, PlanOK, Planning
<1>10. index.len \in Nat /\ index.len <= Len(tail.column) /\ base + index.len = r.upto + 1
  BY <1>4, <1>6, <1>8, <1>9
<1>11. PICK query \in Query : query = r.query BY <1>4
<1>12. Describes(log, tail, base) /\ \A item \in query.items : Sees(log, index, tail, base, item)
  BY <1>4, <1>5, <1>6, <1>8, <1>11
<1>13. \A p : p \in Search(index, tail, query) <=>
                 p \in Nat /\ base <= p /\ p < base + index.len /\ Matches(query, log[p])
  BY ONLY <1>8, <1>10, <1>12, SearchFinds, base \in Nat, tail \in TailState, query \in Query
<1>14. \A p : p \in found <=> /\ p \in Nat /\ r.snap.base <= p /\ r.after < p /\ p <= r.upto
                              /\ p <= Len(log) /\ Matches(r.query, log[p])
  <2>1. \A p \in Nat : (p < base + index.len <=> p <= r.upto) /\ (p <= r.upto => p <= Len(log))
                       /\ (p > r.after <=> r.after < p)
    BY <1>4, <1>10
  <2> QED BY <1>2, <1>5, <1>6, <1>7, <1>11, <1>13, <2>1
<1> QED BY <1>1, <1>3, <1>14, TailPlannedKeeps

\* A range in two parts, in either order.
LEMMA FoundSplits ==
    ASSUME IndexInv, r.dir = "forward", NEW first \in Nat, NEW middle \in Nat, NEW last \in Nat,
           1 <= first, first <= middle, middle <= last + 1
    PROVE  /\ \A a \in Found(r, first, middle - 1) : \A b \in Found(r, middle, last) :
                 Earlier(r.dir, a, b)
           /\ Found(r, first, middle - 1) \cup Found(r, middle, last) = Found(r, first, last)
<1>1. PICK m \in Nat : m = middle - 1 /\ 1 <= middle OBVIOUS
<1>2. \A p : p \in Found(r, first, m) <=>
          p \in Nat /\ first <= p /\ p <= m /\ p <= Len(log) /\ Matches(r.query, log[p])
  BY FoundHas
<1>3. \A p : p \in Found(r, middle, last) <=>
          p \in Nat /\ middle <= p /\ p <= last /\ p <= Len(log) /\ Matches(r.query, log[p])
  BY <1>1, FoundHas
<1>4. \A p : p \in Found(r, first, last) <=>
          p \in Nat /\ first <= p /\ p <= last /\ p <= Len(log) /\ Matches(r.query, log[p])
  BY FoundHas
<1>5. \A a \in Found(r, first, m) : \A b \in Found(r, middle, last) : Earlier(r.dir, a, b)
  BY <1>1, <1>2, <1>3 DEF Earlier
<1>6. \A p \in Nat : /\ p <= m \/ middle <= p
                     /\ p <= m => p <= last
                     /\ middle <= p => first <= p
  BY <1>1
<1>7. ASSUME NEW p
      PROVE  p \in Found(r, first, m) \cup Found(r, middle, last) <=> p \in Found(r, first, last)
  BY <1>2, <1>3, <1>4, <1>6
<1> QED BY <1>1, <1>5, <1>7

LEMMA FoundSplitsBack ==
    ASSUME IndexInv, r.dir # "forward", NEW first \in Nat, NEW middle \in Nat, NEW last \in Nat,
           1 <= first, first <= middle + 1, middle <= last
    PROVE  /\ \A a \in Found(r, middle + 1, last) : \A b \in Found(r, first, middle) :
                 Earlier(r.dir, a, b)
           /\ Found(r, middle + 1, last) \cup Found(r, first, middle) = Found(r, first, last)
<1>1. PICK m \in Nat : m = middle + 1 /\ 1 <= m OBVIOUS
<1>2. \A p : p \in Found(r, first, middle) <=>
          p \in Nat /\ first <= p /\ p <= middle /\ p <= Len(log) /\ Matches(r.query, log[p])
  BY FoundHas
<1>3. \A p : p \in Found(r, m, last) <=>
          p \in Nat /\ m <= p /\ p <= last /\ p <= Len(log) /\ Matches(r.query, log[p])
  BY <1>1, FoundHas
<1>4. \A p : p \in Found(r, first, last) <=>
          p \in Nat /\ first <= p /\ p <= last /\ p <= Len(log) /\ Matches(r.query, log[p])
  BY FoundHas
<1>5. \A a \in Found(r, m, last) : \A b \in Found(r, first, middle) : Earlier(r.dir, a, b)
  BY <1>1, <1>2, <1>3 DEF Earlier
<1>6. \A p \in Nat : /\ p <= middle \/ m <= p
                     /\ p <= middle => p <= last
                     /\ m <= p => first <= p
  BY <1>1
<1>7. ASSUME NEW p
      PROVE  p \in Found(r, m, last) \cup Found(r, first, middle) <=> p \in Found(r, first, last)
  BY <1>2, <1>3, <1>4, <1>6
<1> QED BY <1>1, <1>5, <1>7

LEMMA IdleIs ==
    /\ IdleRead.snap \in Snapshot
    /\ IdleRead.index \in SegmentIndexes
<1>1. IdleRead.snap \in Snapshot
  <2>1. IdleRead.snap = Capture(<<1>>, <<>>, 1) BY DEF IdleRead
  <2>2. Capture(<<1>>, <<>>, 1) = [sealed |-> <<>>, base |-> 1, tail |-> 1]
    BY DEF Capture, Last
  <2>3. <<>> \in Seq(SealedSegment) OBVIOUS
  <2>4. Capture(<<1>>, <<>>, 1) \in Snapshot
    <3>1. PICK none \in Seq(SealedSegment) : none = <<>> BY <2>3
    <3>2. PICK one \in Nat : one = 1 OBVIOUS
    <3>3. [sealed |-> none, base |-> one, tail |-> one] \in Snapshot BY DEF Snapshot
    <3> QED BY <2>2, <3>1, <3>2, <3>3
  <2> QED BY <2>1, <2>4
<1>2. IdleRead.index \in SegmentIndexes
  <2>1. IdleRead.index = IndexSegment(EmptyTail(1)) BY DEF IdleRead
  <2>2. EmptyTail(1) \in TailState /\ Len(EmptyTail(1).column) = 0
        /\ EmptyTail(1).base = 1 /\ EmptyTail(1).types = <<>>
        /\ EmptyTail(1).postings = [t \in Tag |-> {}]
    BY EmptyTailDescribes DEF EmptyTail
  <2>3. \A t : ~ Interned(t, <<>>)
    <3>0. <<>> \in Seq(EventType) /\ Len(<<>>) = 0 OBVIOUS
    <3>1. PICK none \in Seq(EventType) : none = <<>> /\ Len(none) = 0 BY <3>0
    <3>2. \A t : Interned(t, none) <=> \E i \in 1 .. Len(none) : none[i] = t BY InternedAt
    <3>3. 1 .. Len(none) = {} BY <3>1
    <3> QED BY <3>1, <3>2, <3>3
  <2>4. IndexSegment(EmptyTail(1)) = [base |-> 1, len |-> 0, ids |-> [t \in EventType |-> NoId],
                                      posts |-> [t \in Tag |-> {}]]
    BY <2>2, <2>3 DEF IndexSegment
  <2>5. NoId \in Int BY DEF NoId
  <2> QED BY <2>1, <2>4, <2>5 DEF SegmentIndexes
<1> QED BY <1>1, <1>2

\* A dropped read keeps its range and what it yielded.
LEMMA EndedIs ==
    ASSUME NEW read \in ReadState
    PROVE  /\ Ended(read) \in ReadState /\ Ended(read).at = "end"
           /\ Ended(read).query = read.query /\ Ended(read).dir = read.dir
           /\ Ended(read).limit = read.limit /\ Ended(read).cursor = read.cursor
           /\ Ended(read).watermark = read.watermark /\ Ended(read).after = read.after
           /\ Ended(read).upto = read.upto /\ Ended(read).start = read.start
           /\ Ended(read).top = read.top /\ Ended(read).pages = read.pages
           /\ Ended(read).page = read.page /\ Ended(read).joined = read.joined
           /\ Ended(read).hitLimit = read.hitLimit /\ Ended(read).err = read.err
<1>1. PICK snapshot \in Snapshot : snapshot = IdleRead.snap BY IdleIs
<1>2. PICK index \in SegmentIndexes : index = IdleRead.index BY IdleIs
<1>3. PICK s : s = Ended(read) OBVIOUS
<1>4. s = [read EXCEPT !.at = "end", !.snap = snapshot, !.index = index,
                       !.terms = 0, !.access = "done", !.out = <<>>, !.pos = 0, !.left = 0]
  BY <1>1, <1>2, <1>3 DEF Ended
<1>5. s \in ReadState
  <2>1. <<>> \in Seq(Nat) /\ 0 \in Nat \cup {NoLimit} /\ 0 \in Nat OBVIOUS
  <2> QED BY <1>4, <2>1 DEF ReadState
<1>6. /\ s.at = "end" /\ s.query = read.query /\ s.dir = read.dir /\ s.limit = read.limit
      /\ s.cursor = read.cursor /\ s.watermark = read.watermark /\ s.after = read.after
      /\ s.upto = read.upto /\ s.start = read.start /\ s.top = read.top /\ s.pages = read.pages
      /\ s.page = read.page /\ s.joined = read.joined
      /\ s.hitLimit = read.hitLimit /\ s.err = read.err
  BY <1>4 DEF ReadState
<1> QED BY <1>3, <1>5, <1>6

\* A read ends with all it wanted, up to its limit.
LEMMA EndKeeps ==
    ASSUME ReadOK(r), r.at = "stream", NEW read \in ReadState, RangeKept(read),
           read.page = r.page, read.joined = r.joined, ~ read.err,
           NEW all, Lists(r.dir, all, Found(r, r.after + 1, r.upto)),
           r.page = CapAt(r.limit, all), ~ read.hitLimit => r.page = all
    PROVE  ReadOK(Ended(read))
<1>1. r.at \in Open BY DEF Open
<1>2. PICK s : s = Ended(read) OBVIOUS
<1>3. s \in ReadState /\ s.at = "end" /\ RangeKept(s) BY <1>2, EndedIs DEF RangeKept
<1>4. s.page = r.page /\ s.joined = r.joined /\ s.hitLimit = read.hitLimit /\ s.err = read.err
  BY <1>2, EndedIs
<1>5. EndOK(s) BY <1>3, <1>4 DEF EndOK, RangeKept, Found
<1>6. PlanOK(s) /\ ProbeOK(s) /\ StreamOK(s) /\ s.at \in Open \cup {"end"} /\ s.at \notin Open
  BY <1>3 DEF PlanOK, ProbeOK, StreamOK, Open, Planning
<1>7. ReadOK(s) BY <1>1, <1>3, <1>4, <1>5, <1>6, ReadMoves
<1> QED BY <1>2, <1>7

\* A read yields one more position.
LEMMA YieldKeeps ==
    ASSUME ReadOK(r), r.at = "stream", r.left # 0, NEW p \in Nat,
           NEW s \in ReadState, RangeKept(s), s.at = "stream", s.snap = r.snap,
           s.access = r.access, s.access # "done", s.left = Spent, s.hitLimit = r.hitLimit,
           s.err = r.err, s.page = Append(r.page, p), s.joined = Append(r.joined, p),
           s.access = "scan" =>
              IF s.dir = "forward"
              THEN /\ s.after < s.pos /\ s.pos <= s.upto + 1
                   /\ Lists(s.dir, s.page, Found(s, s.after + 1, s.pos - 1))
              ELSE /\ s.after <= s.pos /\ s.pos <= s.upto
                   /\ Lists(s.dir, s.page, Found(s, s.pos + 1, s.upto)),
           s.access = "index" =>
              \E all : /\ Lists(s.dir, all, Found(s, s.after + 1, s.upto))
                       /\ s.page \o s.out = CapAt(s.limit, all)
    PROVE  ReadOK(s)
<1>1. r.at \in Open /\ s.at \in Open \cup {"end"} BY DEF Open
<1>2. r \in ReadState /\ StreamOK(r) /\ EndOK(r) BY DEF ReadOK
<1>3. /\ r.left \in Nat \cup {NoLimit} /\ r.limit \in Nat \cup {NoLimit} /\ r.page \in Seq(Nat)
  BY <1>2 DEF ReadState
<1>4. /\ ~ r.hitLimit /\ (r.limit = NoLimit => r.left = NoLimit)
      /\ r.limit # NoLimit => r.left \in Nat /\ r.left + Len(r.page) = r.limit
  BY <1>2 DEF StreamOK
<1>5. s.limit = r.limit BY DEF RangeKept
<1>6. s.limit = NoLimit => s.left = NoLimit BY <1>4, <1>5 DEF Spent
<1>7. s.limit # NoLimit => s.left \in Nat /\ s.left + Len(s.page) = s.limit
  <2> SUFFICES ASSUME s.limit # NoLimit PROVE s.left \in Nat /\ s.left + Len(s.page) = s.limit
    OBVIOUS
  <2>1. r.left \in Nat /\ r.left + Len(r.page) = r.limit /\ Len(r.page) \in Nat
    BY <1>3, <1>4, <1>5
  <2>2. r.left # NoLimit BY <2>1 DEF NoLimit
  <2>3. s.left = r.left - 1 BY <2>2 DEF Spent
  <2>4. Len(s.page) = Len(r.page) + 1 BY <1>3
  <2>5. PICK left \in Nat : left = r.left /\ left # 0 BY <2>1
  <2>6. PICK n \in Nat : n = Len(r.page) BY <2>1
  <2>7. s.left = left - 1 /\ Len(s.page) = n + 1 /\ s.limit = left + n
    BY <1>5, <2>1, <2>3, <2>4, <2>5, <2>6
  <2> QED BY ONLY left \in Nat, n \in Nat, <2>5, <2>6, <2>7
<1>8. StreamOK(s) BY <1>4, <1>6, <1>7 DEF StreamOK
<1>9. PlanOK(s) /\ ProbeOK(s) /\ EndOK(s) BY <1>2 DEF PlanOK, ProbeOK, EndOK, Planning
<1> QED BY <1>1, <1>8, <1>9, ReadMoves

LEMMA NextCappedKeeps ==
    ASSUME IndexInv, ReadOK(r), NextCapped
    PROVE  ReadOK(r')
<1>1. r.at = "stream" /\ r.at \in Open /\ r.left = 0 BY DEF NextCapped, Reading, Open
<1>2. /\ r \in ReadState /\ r.after \in Nat /\ r.upto \in Nat /\ r.limit \in Nat \cup {NoLimit}
      /\ r.dir \in {"forward", "backward"} /\ r.page \in Seq(Nat) /\ r.out \in Seq(Nat)
      /\ r.pos \in Nat /\ ~ r.err
  BY <1>1, OpenHere
<1>3. StreamOK(r) BY DEF ReadOK
<1>4. r.limit # NoLimit /\ r.limit \in Nat /\ Len(r.page) = r.limit
  <2>1. r.limit # NoLimit BY <1>1, <1>3 DEF StreamOK, NoLimit
  <2>2. 0 + Len(r.page) = r.limit /\ Len(r.page) \in Nat
    BY <1>1, <1>2, <1>3, <2>1 DEF StreamOK
  <2> QED BY <2>1, <2>2
<1>5. PICK read : read = [r EXCEPT !.hitLimit = TRUE] OBVIOUS
<1>6. /\ read \in ReadState /\ RangeKept(read) /\ read.page = r.page /\ read.joined = r.joined
      /\ read.hitLimit /\ read.err = r.err
  BY <1>2, <1>5 DEF ReadState, RangeKept
<1>7. ASSUME NEW rest, Lists(r.dir, r.page \o rest, Found(r, r.after + 1, r.upto)), rest \in Seq(Nat)
      PROVE  \E all : Lists(r.dir, all, Found(r, r.after + 1, r.upto)) /\ r.page = CapAt(r.limit, all)
  <2>1. CapAt(r.limit, r.page) = r.page BY <1>2, <1>4, CapIs
  <2>2. FullAt(r.limit, CapAt(r.limit, r.page)) BY <1>4, <2>1 DEF FullAt
  <2>3. CapAt(r.limit, r.page \o rest) = CapAt(r.limit, r.page)
    BY <1>2, <1>7, <2>2, CapFull
  <2> QED BY <1>7, <2>1, <2>3
<1>8. \E all : Lists(r.dir, all, Found(r, r.after + 1, r.upto)) /\ r.page = CapAt(r.limit, all)
  <2>1. r.access \in {"done", "scan", "index"} BY <1>2 DEF ReadState
  <2>2. CASE r.access = "done"
    <3>1. r.page = <<>> BY <1>1, <1>3, <2>2 DEF StreamOK
    <3>2. Lists(r.dir, Ordered(Found(r, r.after + 1, r.upto)), Found(r, r.after + 1, r.upto))
      BY <1>2, OrderedFound DEF Found, IndexInv
    <3>3. PICK rest \in Seq(Nat) : Lists(r.dir, rest, Found(r, r.after + 1, r.upto))
      BY <3>2 DEF Lists
    <3>4. r.page \o rest = rest BY <3>1, ConcatEmptySeq
    <3> QED BY <1>7, <3>3, <3>4
  <2>3. CASE r.access = "scan" /\ r.dir = "forward"
    <3>1. /\ r.after < r.pos /\ r.pos <= r.upto + 1
          /\ Lists(r.dir, r.page, Found(r, r.after + 1, r.pos - 1))
      BY <1>1, <1>3, <2>3 DEF StreamOK
    <3>2. r.after + 1 \in Nat /\ 1 <= r.after + 1 /\ 1 <= r.pos /\ r.pos - 1 \in Nat
      BY <1>2, <3>1
    <3>3. Lists(r.dir, Ordered(Found(r, r.pos, r.upto)), Found(r, r.pos, r.upto))
      BY <1>2, <3>2, OrderedFound DEF Found, IndexInv
    <3>4. PICK rest \in Seq(Nat) : Lists(r.dir, rest, Found(r, r.pos, r.upto))
      BY <3>3 DEF Lists
    <3>5. /\ \A a \in Found(r, r.after + 1, r.pos - 1) : \A b \in Found(r, r.pos, r.upto) :
                 Earlier(r.dir, a, b)
          /\ Found(r, r.after + 1, r.pos - 1) \cup Found(r, r.pos, r.upto)
                 = Found(r, r.after + 1, r.upto)
      BY <1>2, <2>3, <3>1, <3>2, FoundSplits, SMTT(20)
    <3> QED BY <1>7, <3>1, <3>4, <3>5, ListsConcat
  <2>4. CASE r.access = "scan" /\ r.dir # "forward"
    <3>1. /\ r.after <= r.pos /\ r.pos <= r.upto
          /\ Lists(r.dir, r.page, Found(r, r.pos + 1, r.upto))
      BY <1>1, <1>3, <2>4 DEF StreamOK
    <3>2. r.after + 1 \in Nat /\ 1 <= r.after + 1 BY <1>2
    <3>3. Lists(r.dir, Ordered(Found(r, r.after + 1, r.pos)), Found(r, r.after + 1, r.pos))
      BY <1>2, <3>2, OrderedFound DEF Found, IndexInv
    <3>4. PICK rest \in Seq(Nat) : Lists(r.dir, rest, Found(r, r.after + 1, r.pos))
      BY <3>3 DEF Lists
    <3>5. /\ \A a \in Found(r, r.pos + 1, r.upto) : \A b \in Found(r, r.after + 1, r.pos) :
                 Earlier(r.dir, a, b)
          /\ Found(r, r.pos + 1, r.upto) \cup Found(r, r.after + 1, r.pos)
                 = Found(r, r.after + 1, r.upto)
      BY <1>2, <2>4, <3>1, <3>2, FoundSplitsBack
    <3> QED BY <1>7, <3>1, <3>4, <3>5, ListsConcat
  <2>5. CASE r.access = "index"
    <3>1. PICK all : /\ Lists(r.dir, all, Found(r, r.after + 1, r.upto))
                     /\ r.page \o r.out = CapAt(r.limit, all)
      BY <1>1, <1>3, <2>5 DEF StreamOK
    <3>2. all \in Seq(Nat) BY <3>1 DEF Lists
    <3>3. Len(r.page \o r.out) <= r.limit
      <4>1. CASE r.limit <= Len(all) BY <1>2, <1>4, <3>1, <3>2, <4>1, CapIs
      <4>2. CASE ~ (r.limit <= Len(all))
        <5>1. Len(all) \in Nat BY <3>2
        <5>2. Len(all) <= r.limit BY <1>4, <4>2, <5>1
        <5>3. CapAt(r.limit, all) = all BY <1>2, <1>4, <3>2, <5>2, CapIs
        <5> QED BY <3>1, <5>2, <5>3
      <4> QED BY <4>1, <4>2
    <3>4. Len(r.page \o r.out) = Len(r.page) + Len(r.out) /\ Len(r.out) \in Nat
          /\ Len(r.page) \in Nat
      BY <1>2
    <3>5. Len(r.out) = 0 BY <1>4, <3>3, <3>4
    <3>6. r.out = <<>> BY <1>2, <3>5
    <3>7. r.page \o r.out = r.page BY <1>2, <3>6, ConcatEmptySeq
    <3> QED BY <3>1, <3>7
  <2> QED BY <2>1, <2>2, <2>3, <2>4, <2>5
<1>9. PICK all : Lists(r.dir, all, Found(r, r.after + 1, r.upto)) /\ r.page = CapAt(r.limit, all)
  BY <1>8
<1>10. ReadOK(Ended(read)) BY <1>1, <1>2, <1>6, <1>9, EndKeeps
<1> QED BY <1>5, <1>10 DEF NextCapped

LEMMA SpentIs ==
    ASSUME IndexInv, ReadOK(r), r.at = "stream", r.left # 0
    PROVE  Spent \in Nat \cup {NoLimit}
<1>1. r.left \in Nat \cup {NoLimit} BY DEF ReadOK, ReadState
<1>2. CASE r.left = NoLimit BY <1>2 DEF Spent
<1>3. CASE r.left # NoLimit
  <2>1. PICK n \in Nat : n = r.left /\ n # 0 BY <1>1, <1>3
  <2>2. Spent = n - 1 /\ n - 1 \in Nat BY <1>3, <2>1 DEF Spent
  <2> QED BY <2>2
<1> QED BY <1>2, <1>3

\* While budget is left, the cap has not cut anything off what was yielded.
LEMMA BudgetLeft ==
    ASSUME IndexInv, ReadOK(r), r.at = "stream", r.left # 0
    PROVE  /\ CapAt(r.limit, r.page) = r.page
           /\ ~ FullAt(r.limit, r.page)
<1>1. r.at \in Open BY DEF Open
<1>2. r.limit \in Nat \cup {NoLimit} /\ r.page \in Seq(Nat) BY <1>1, OpenHere
<1>3. StreamOK(r) BY DEF ReadOK
<1>4. CASE r.limit = NoLimit
  <2>1. CapAt(r.limit, r.page) = r.page BY <1>4 DEF CapAt
  <2>2. ~ FullAt(r.limit, r.page) BY <1>4 DEF FullAt
  <2> QED BY <2>1, <2>2
<1>5. CASE r.limit # NoLimit
  <2>1. r.left \in Nat /\ r.left + Len(r.page) = r.limit BY <1>3, <1>5 DEF StreamOK
  <2>2. PICK left \in Nat : left = r.left /\ left # 0 BY <2>1
  <2>3. PICK n \in Nat : n = Len(r.page) BY <1>2
  <2>4. r.limit = left + n /\ n <= left + n /\ ~ (n >= left + n) BY <2>1, <2>2, <2>3
  <2>5. Len(r.page) <= r.limit /\ ~ (Len(r.page) >= r.limit) BY <2>3, <2>4
  <2> QED BY <1>2, <1>5, <2>5, CapIs DEF FullAt
<1> QED BY <1>4, <1>5

LEMMA NextDoneKeeps ==
    ASSUME IndexInv, ReadOK(r), NextDone
    PROVE  ReadOK(r')
<1>1. r.at = "stream" /\ r.at \in Open /\ r.left # 0 /\ r.access = "done" /\ r' = Ended(r)
  BY DEF NextDone, Reading, Open
<1>2. /\ r \in ReadState /\ r.after \in Nat /\ r.upto \in Nat /\ r.limit \in Nat \cup {NoLimit}
      /\ ~ r.err
  BY <1>1, OpenHere
<1>3. StreamOK(r) BY DEF ReadOK
<1>4. r.page = <<>> /\ (r.limit = 0 \/ r.upto <= r.after) BY <1>1, <1>3 DEF StreamOK
<1>5. r.limit # 0
  <2>1. ~ FullAt(r.limit, r.page) /\ Len(r.page) = 0 BY <1>1, <1>4, BudgetLeft
  <2> QED BY <2>1 DEF FullAt, NoLimit
<1>6. Found(r, r.after + 1, r.upto) = {} BY <1>2, <1>4, <1>5, FoundNothing
<1>7. Lists(r.dir, r.page, Found(r, r.after + 1, r.upto)) BY <1>4, <1>6, ListsEmpty
<1>8. r.page = CapAt(r.limit, r.page) BY <1>1, BudgetLeft
<1>9. RangeKept(r) BY DEF RangeKept
<1> QED BY <1>1, <1>2, <1>7, <1>8, <1>9, EndKeeps

LEMMA NextScannedKeeps ==
    ASSUME IndexInv, ReadOK(r), NextScanned
    PROVE  ReadOK(r')
<1>1. r.at = "stream" /\ r.at \in Open /\ r.left # 0 /\ r.access = "scan" /\ Forward
  BY DEF NextScanned, Reading, Open
<1>2. /\ r \in ReadState /\ r.after \in Nat /\ r.upto \in Nat /\ r.limit \in Nat \cup {NoLimit}
      /\ r.dir = "forward" /\ r.pos \in Nat /\ r.page \in Seq(Nat) /\ r.joined \in Seq(Nat)
      /\ ~ r.err
  BY <1>1, OpenHere
<1>3. StreamOK(r) BY DEF ReadOK
<1>4. /\ r.after < r.pos /\ r.pos <= r.upto + 1
      /\ Lists(r.dir, r.page, Found(r, r.after + 1, r.pos - 1))
  BY <1>1, <1>2, <1>3 DEF StreamOK
<1>5. 1 <= r.pos /\ 1 <= r.after + 1 /\ r.after + 1 \in Nat BY <1>2, <1>4
<1>6. PICK hits : hits = {p \in ScanMatches(r.query, r.pos, r.upto) : \A x \in r.pos .. p : Held(x)}
  OBVIOUS
<1>7. hits = Found(r, r.pos, r.upto)
  <2>1. \A p \in Found(r, r.pos, r.upto) : p \in Nat /\ p <= r.upto
    BY <1>2, <1>5, FoundHas
  <2>2. ASSUME NEW p \in Found(r, r.pos, r.upto), NEW x \in r.pos .. p PROVE Held(x)
    <3>1. x \in Nat /\ 1 <= x /\ x <= r.upto BY <1>2, <1>5, <2>1
    <3> QED BY <1>1, <3>1, RangeHeld
  <2> QED BY <1>6, <2>2 DEF Found
<1>8. /\ \A a \in Found(r, r.after + 1, r.pos - 1) : \A b \in Found(r, r.pos, r.upto) :
             Earlier(r.dir, a, b)
      /\ Found(r, r.after + 1, r.pos - 1) \cup Found(r, r.pos, r.upto)
             = Found(r, r.after + 1, r.upto)
  <2>1. r.after + 1 <= r.pos BY <1>2, <1>4
  <2> QED BY <1>2, <1>4, <1>5, <2>1, FoundSplits, SMTT(20)
<1>9. CASE hits = {}
  <2>1. r' = Ended(r) BY <1>6, <1>9 DEF NextScanned
  <2>2. Lists(r.dir, r.page, Found(r, r.after + 1, r.upto)) BY <1>4, <1>7, <1>8, <1>9
  <2>3. r.page = CapAt(r.limit, r.page) BY <1>1, BudgetLeft
  <2>4. RangeKept(r) BY DEF RangeKept
  <2> QED BY <1>1, <1>2, <2>1, <2>2, <2>3, <2>4, EndKeeps
<1>10. CASE hits # {}
  <2>1. \A p : p \in hits <=> /\ p \in Nat /\ r.pos <= p /\ p <= r.upto /\ p <= Len(log)
                              /\ Matches(r.query, log[p])
    BY <1>2, <1>5, <1>7, FoundHas
  <2>2. hits \subseteq Nat BY <2>1
  <2>3. PICK p \in Nat : p = Min(hits) /\ p \in hits /\ \A x \in hits : p <= x
    BY <1>10, <2>2, MinIsLeast
  <2>4. r.pos <= p /\ p <= r.upto BY <2>1, <2>3
  <2>5. PICK next \in Nat : next = p + 1 BY <2>3
  <2>6. PICK left \in Nat \cup {NoLimit} : left = Spent BY <1>1, SpentIs
  <2>7. r' = [[r EXCEPT !.left = left, !.page = Append(r.page, p), !.joined = Append(r.joined, p)]
                 EXCEPT !.pos = next]
    BY <1>6, <1>10, <2>3, <2>5, <2>6 DEF NextScanned, Yield
  <2>8. PICK s : s = r' OBVIOUS
  <2>9. Append(r.page, p) \in Seq(Nat) /\ Append(r.joined, p) \in Seq(Nat) BY <1>2, <2>3
  <2>10. s \in ReadState /\ RangeKept(s)
    <3>1. PICK page \in Seq(Nat) : page = Append(r.page, p) BY <2>9
    <3>2. PICK joined \in Seq(Nat) : joined = Append(r.joined, p) BY <2>9
    <3> QED BY <1>2, <2>5, <2>6, <2>7, <2>8, <3>1, <3>2, ZenonT(40) DEF ReadState, RangeKept
  <2>11. /\ s.at = "stream" /\ s.snap = r.snap /\ s.access = "scan" /\ s.left = Spent
         /\ s.hitLimit = r.hitLimit /\ s.err = r.err /\ s.page = Append(r.page, p)
         /\ s.joined = Append(r.joined, p) /\ s.pos = p + 1
         /\ s.after = r.after /\ s.upto = r.upto /\ s.dir = r.dir /\ s.query = r.query
    BY <1>1, <1>2, <2>5, <2>6, <2>7, <2>8 DEF ReadState
  <2>12. Lists(r.dir, Append(r.page, p), Found(r, r.after + 1, p))
    <3>1. \A x : x \in Found(r, r.after + 1, r.pos - 1) <=>
              /\ x \in Nat /\ r.after + 1 <= x /\ x <= r.pos - 1 /\ x <= Len(log)
              /\ Matches(r.query, log[x])
      <4>1. r.pos - 1 \in Nat BY <1>2, <1>5
      <4> QED BY <1>5, <4>1, FoundHas
    <3>2. \A x : x \in Found(r, r.after + 1, p) <=>
              /\ x \in Nat /\ r.after + 1 <= x /\ x <= p /\ x <= Len(log)
              /\ Matches(r.query, log[x])
      BY <1>5, FoundHas
    <3>3. Found(r, r.after + 1, r.pos - 1) \cup {p} = Found(r, r.after + 1, p)
      <4>1. \A x \in Nat : /\ x <= r.pos - 1 \/ r.pos <= x
                           /\ x <= r.pos - 1 => x <= p
                           /\ x <= p => x <= r.upto
                           /\ x <= p /\ p <= x => x = p
        BY <1>2, <2>4
      <4>2. r.after + 1 <= p BY <1>2, <1>4, <2>4
      <4>3. ASSUME NEW x
            PROVE  x \in Found(r, r.after + 1, r.pos - 1) \cup {p} <=> x \in Found(r, r.after + 1, p)
        BY <2>1, <2>3, <3>1, <3>2, <4>1, <4>2
      <4> QED BY <4>3
    <3>4. \A a \in Found(r, r.after + 1, r.pos - 1) : \A b \in {p} : Earlier(r.dir, a, b)
      BY <1>7, <1>8, <2>3
    <3>5. Lists(r.dir, <<p>>, {p}) BY ListsOne
    <3>6. Lists(r.dir, r.page \o <<p>>, Found(r, r.after + 1, p))
      BY <1>4, <3>3, <3>4, <3>5, ListsConcat
    <3>7. Append(r.page, p) = r.page \o <<p>> BY <1>2, AppendIsConcat
    <3> QED BY <3>6, <3>7
  <2>13. /\ s.after < s.pos /\ s.pos <= s.upto + 1
         /\ Lists(s.dir, s.page, Found(s, s.after + 1, s.pos - 1))
    <3>1. s.pos - 1 = p /\ s.after < s.pos /\ s.pos <= s.upto + 1
      <4>1. PICK after \in Nat : after = r.after BY <1>2
      <4>2. PICK upto \in Nat : upto = r.upto BY <1>2
      <4>3. PICK pos \in Nat : pos = r.pos BY <1>2
      <4>4. after < pos /\ pos <= p /\ p <= upto BY <1>4, <2>4, <4>1, <4>2, <4>3
      <4>5. (p + 1) - 1 = p /\ after < p + 1 /\ p + 1 <= upto + 1
        BY ONLY <4>4, p \in Nat, after \in Nat, upto \in Nat, pos \in Nat
      <4> QED BY <2>11, <4>1, <4>2, <4>5
    <3>2. Found(s, r.after + 1, p) = Found(r, r.after + 1, p) BY <2>11 DEF Found
    <3> QED BY <2>11, <2>12, <3>1, <3>2
  <2>14. ReadOK(s)
    <3>1. s.access = r.access /\ s.access # "done" /\ s.access # "index" /\ s.dir = "forward"
      BY <1>1, <1>2, <2>11
    <3> QED BY <1>1, <2>3, <2>10, <2>11, <2>13, <3>1, YieldKeeps
  <2> QED BY <2>8, <2>14
<1> QED BY <1>9, <1>10

LEMMA NextScannedBackKeeps ==
    ASSUME IndexInv, ReadOK(r), NextScannedBack
    PROVE  ReadOK(r')
<1>1. r.at = "stream" /\ r.at \in Open /\ r.left # 0 /\ r.access = "scan" /\ ~ Forward
  BY DEF NextScannedBack, Reading, Open
<1>2. /\ r \in ReadState /\ r.after \in Nat /\ r.upto \in Nat /\ r.limit \in Nat \cup {NoLimit}
      /\ r.dir # "forward" /\ r.pos \in Nat /\ r.page \in Seq(Nat) /\ r.joined \in Seq(Nat)
      /\ ~ r.err /\ r.err \in BOOLEAN
  BY <1>1, OpenHere DEF ReadState
<1>3. StreamOK(r) BY DEF ReadOK
<1>4. /\ r.after <= r.pos /\ r.pos <= r.upto
      /\ Lists(r.dir, r.page, Found(r, r.pos + 1, r.upto))
  BY <1>1, <1>2, <1>3 DEF StreamOK
<1>5. PICK first \in Nat : first = r.after + 1 /\ 1 <= first /\ first <= r.pos + 1
  BY <1>2, <1>4
<1>6. PICK hits : hits = {p \in ScanMatches(r.query, first, r.pos) : \A x \in p .. r.pos : Held(x)}
  OBVIOUS
<1>7. hits = Found(r, first, r.pos)
  <2>1. \A p \in Found(r, first, r.pos) : p \in Nat /\ first <= p BY <1>2, <1>5, FoundHas
  <2>2. ASSUME NEW p \in Found(r, first, r.pos), NEW x \in p .. r.pos PROVE Held(x)
    <3>1. x \in Nat /\ 1 <= x /\ x <= r.upto BY <1>2, <1>4, <1>5, <2>1
    <3> QED BY <1>1, <3>1, RangeHeld
  <2> QED BY <1>6, <2>2 DEF Found
<1>8. /\ \A a \in Found(r, r.pos + 1, r.upto) : \A b \in Found(r, first, r.pos) :
             Earlier(r.dir, a, b)
      /\ Found(r, r.pos + 1, r.upto) \cup Found(r, first, r.pos) = Found(r, first, r.upto)
  BY <1>2, <1>4, <1>5, FoundSplitsBack
<1>9. CASE hits = {}
  <2>1. PICK failed \in BOOLEAN : failed = \E x \in first .. r.pos : ~ Held(x) OBVIOUS
  <2>2. ~ failed
    <3>1. ASSUME NEW x \in first .. r.pos PROVE Held(x)
      <4>1. x \in Nat /\ 1 <= x /\ x <= r.upto BY <1>2, <1>4, <1>5
      <4> QED BY <1>1, <4>1, RangeHeld
    <3> QED BY <2>1, <3>1
  <2>3. PICK read : read = [r EXCEPT !.err = failed] OBVIOUS
  <2>4. r' = Ended(read) BY <1>5, <1>6, <1>9, <2>1, <2>3 DEF NextScannedBack
  <2>5. /\ read \in ReadState /\ RangeKept(read) /\ read.page = r.page
        /\ read.joined = r.joined /\ ~ read.err
    BY <1>2, <2>1, <2>2, <2>3, ZenonT(40) DEF ReadState, RangeKept
  <2>6. Lists(r.dir, r.page, Found(r, r.after + 1, r.upto))
    BY <1>4, <1>5, <1>7, <1>8, <1>9
  <2>7. r.page = CapAt(r.limit, r.page) BY <1>1, BudgetLeft
  <2>8. ReadOK(Ended(read)) BY <1>1, <2>5, <2>6, <2>7, EndKeeps
  <2> QED BY <2>4, <2>8
<1>10. CASE hits # {}
  <2>1. \A p : p \in hits <=> /\ p \in Nat /\ first <= p /\ p <= r.pos /\ p <= Len(log)
                              /\ Matches(r.query, log[p])
    BY <1>2, <1>5, <1>7, FoundHas
  <2>2. hits \subseteq Nat /\ \A p \in hits : p <= r.pos BY <2>1
  <2>3. PICK p \in Nat : p = Max(hits) /\ p \in hits /\ \A x \in hits : x <= p
    BY <1>2, <1>10, <2>2, MaxIsGreatest
  <2>4. first <= p /\ p <= r.pos BY <2>1, <2>3
  <2>5. PICK next \in Nat : next = p - 1 /\ next + 1 = p BY <1>5, <2>3, <2>4
  <2>6. PICK left \in Nat \cup {NoLimit} : left = Spent BY <1>1, SpentIs
  <2>7. r' = [[r EXCEPT !.left = left, !.page = Append(r.page, p), !.joined = Append(r.joined, p)]
                 EXCEPT !.pos = next]
    BY <1>5, <1>6, <1>10, <2>3, <2>5, <2>6 DEF NextScannedBack, Yield
  <2>8. PICK s : s = r' OBVIOUS
  <2>9. Append(r.page, p) \in Seq(Nat) /\ Append(r.joined, p) \in Seq(Nat) BY <1>2, <2>3
  <2>10. s \in ReadState /\ RangeKept(s)
    <3>1. PICK page \in Seq(Nat) : page = Append(r.page, p) BY <2>9
    <3>2. PICK joined \in Seq(Nat) : joined = Append(r.joined, p) BY <2>9
    <3> QED BY <1>2, <2>5, <2>6, <2>7, <2>8, <3>1, <3>2, ZenonT(40) DEF ReadState, RangeKept
  <2>11. /\ s.at = "stream" /\ s.snap = r.snap /\ s.access = "scan" /\ s.left = Spent
         /\ s.hitLimit = r.hitLimit /\ s.err = r.err /\ s.page = Append(r.page, p)
         /\ s.joined = Append(r.joined, p) /\ s.pos = next
         /\ s.after = r.after /\ s.upto = r.upto /\ s.dir = r.dir /\ s.query = r.query
    BY <1>1, <1>2, <2>5, <2>6, <2>7, <2>8 DEF ReadState
  <2>12. Lists(r.dir, Append(r.page, p), Found(r, p, r.upto))
    <3>1. \A x : x \in Found(r, r.pos + 1, r.upto) <=>
              /\ x \in Nat /\ r.pos + 1 <= x /\ x <= r.upto /\ x <= Len(log)
              /\ Matches(r.query, log[x])
      <4>1. r.pos + 1 \in Nat /\ 1 <= r.pos + 1 BY <1>2
      <4> QED BY <1>2, <4>1, FoundHas
    <3>2. \A x : x \in Found(r, p, r.upto) <=>
              /\ x \in Nat /\ p <= x /\ x <= r.upto /\ x <= Len(log)
              /\ Matches(r.query, log[x])
      <4>1. 1 <= p BY <1>5, <2>3, <2>4
      <4> QED BY <1>2, <4>1, FoundHas
    <3>3. Found(r, r.pos + 1, r.upto) \cup {p} = Found(r, p, r.upto)
      <4>1. \A x \in Nat : /\ r.pos + 1 <= x \/ x <= r.pos
                           /\ r.pos + 1 <= x => p <= x
                           /\ p <= x => first <= x
                           /\ x <= p /\ p <= x => x = p
        BY <1>2, <2>4
      <4>2. p <= r.upto /\ p <= p BY <1>2, <1>4, <2>4
      <4>3. ASSUME NEW x
            PROVE  x \in Found(r, r.pos + 1, r.upto) \cup {p} <=> x \in Found(r, p, r.upto)
        BY <2>1, <2>3, <3>1, <3>2, <4>1, <4>2
      <4> QED BY <4>3
    <3>4. \A a \in Found(r, r.pos + 1, r.upto) : \A b \in {p} : Earlier(r.dir, a, b)
      BY <1>7, <1>8, <2>3
    <3>5. Lists(r.dir, <<p>>, {p}) BY ListsOne
    <3>6. Lists(r.dir, r.page \o <<p>>, Found(r, p, r.upto))
      BY <1>4, <3>3, <3>4, <3>5, ListsConcat
    <3>7. Append(r.page, p) = r.page \o <<p>> BY <1>2, AppendIsConcat
    <3> QED BY <3>6, <3>7
  <2>13. /\ s.after <= s.pos /\ s.pos <= s.upto
         /\ Lists(s.dir, s.page, Found(s, s.pos + 1, s.upto))
    <3>1. s.pos + 1 = p /\ s.after <= s.pos /\ s.pos <= s.upto
      BY <1>2, <1>4, <1>5, <2>3, <2>4, <2>5, <2>11, SMTT(20)
    <3>2. Found(s, p, r.upto) = Found(r, p, r.upto) BY <2>11 DEF Found
    <3> QED BY <2>11, <2>12, <3>1, <3>2
  <2>14. ReadOK(s)
    <3>1. s.access = r.access /\ s.access # "done" /\ s.access # "index" /\ s.dir # "forward"
      BY <1>1, <1>2, <2>11
    <3> QED BY <1>1, <2>3, <2>10, <2>11, <2>13, <3>1, YieldKeeps
  <2> QED BY <2>8, <2>14
<1> QED BY <1>9, <1>10

LEMMA NextIndexedKeeps ==
    ASSUME IndexInv, ReadOK(r), NextIndexed
    PROVE  ReadOK(r')
<1>1. r.at = "stream" /\ r.at \in Open /\ r.left # 0 /\ r.access = "index"
  BY DEF NextIndexed, Reading, Open
<1>2. /\ r \in ReadState /\ r.after \in Nat /\ r.upto \in Nat /\ r.limit \in Nat \cup {NoLimit}
      /\ r.page \in Seq(Nat) /\ r.joined \in Seq(Nat) /\ r.out \in Seq(Nat) /\ ~ r.err
  BY <1>1, OpenHere
<1>3. StreamOK(r) BY DEF ReadOK
<1>4. ~ r.hitLimit
      /\ \E all : Lists(r.dir, all, Found(r, r.after + 1, r.upto))
                  /\ r.page \o r.out = CapAt(r.limit, all)
  BY <1>1, <1>3 DEF StreamOK
<1>5. PICK all : Lists(r.dir, all, Found(r, r.after + 1, r.upto))
                 /\ r.page \o r.out = CapAt(r.limit, all)
  BY <1>4
<1>6. all \in Seq(Nat) /\ \A i \in 1 .. Len(all) : all[i] \in Found(r, r.after + 1, r.upto)
  BY <1>5 DEF Lists
<1>7. /\ CapAt(r.limit, r.page) = r.page
      /\ ~ FullAt(r.limit, r.page)
  BY <1>1, BudgetLeft
<1>8. CASE r.out = <<>>
  <2>1. r' = Ended(r) BY <1>8 DEF NextIndexed
  <2>2. r.page = CapAt(r.limit, all)
    <3>1. r.page \o <<>> = r.page BY <1>2, ConcatEmptySeq
    <3> QED BY <1>5, <1>8, <3>1
  <2>3. r.page = all
    <3>1. PICK none \in Seq(Nat) : none = <<>>
      <4>1. <<>> \in Seq(Nat) OBVIOUS
      <4> QED BY <4>1
    <3>2. CapAt(r.limit, all) = all BY <1>2, <1>6, <1>7, <2>2, <3>1, CapFull
    <3> QED BY <2>2, <3>2
  <2>4. RangeKept(r) BY DEF RangeKept
  <2> QED BY <1>1, <1>2, <1>5, <2>1, <2>2, <2>3, <2>4, EndKeeps
<1>9. CASE r.out # <<>>
  <2>1. PICK p \in Nat : p = Head(r.out) BY <1>2, <1>9, HeadJoins
  <2>2. PICK rest \in Seq(Nat) : rest = Tail(r.out) BY <1>2, <1>9, HeadJoins
  <2>3. Append(r.page, p) \o rest = r.page \o r.out BY <1>2, <1>9, <2>1, <2>2, HeadJoins
  <2>4. p \in Found(r, r.after + 1, r.upto)
    <3>1. PICK n \in Nat : n = Len(r.page) + 1 BY <1>2
    <3>2. Append(r.page, p) \in Seq(Nat) /\ Len(Append(r.page, p)) = n
          /\ Append(r.page, p)[n] = p /\ 1 <= n
      BY <1>2, <2>1, <3>1
    <3>3. PICK front \in Seq(Nat) : front = Append(r.page, p) BY <3>2
    <3>4. (front \o rest)[n] = front[n] /\ n <= Len(front \o rest)
      <4>1. Len(front \o rest) = Len(front) + Len(rest) /\ Len(rest) \in Nat BY <2>2
      <4>2. Len(front) = n /\ n \in 1 .. Len(front) BY <3>1, <3>2, <3>3
      <4> QED BY <2>2, <4>1, <4>2
    <3>5. CapAt(r.limit, all)[n] = p /\ n \in 1 .. Len(CapAt(r.limit, all))
      <4>1. CapAt(r.limit, all) = front \o rest BY <1>5, <2>3, <3>3
      <4>2. front \o rest \in Seq(Nat) /\ Len(front \o rest) \in Nat BY <2>2
      <4> QED BY <3>1, <3>2, <3>3, <3>4, <4>1, <4>2
    <3>6. all[n] = p /\ n \in 1 .. Len(all)
      <4>1. /\ CapAt(r.limit, all) \in Seq(Nat)
            /\ Len(CapAt(r.limit, all)) <= Len(all)
            /\ \A i \in 1 .. Len(CapAt(r.limit, all)) : CapAt(r.limit, all)[i] = all[i]
        BY <1>2, <1>6, CapIs
      <4>2. Len(CapAt(r.limit, all)) \in Nat /\ Len(all) \in Nat BY <1>6, <4>1
      <4> QED BY <3>5, <4>1, <4>2
    <3> QED BY <1>6, <3>6
  <2>5. Held(p)
    <3>1. PICK first \in Nat : first = r.after + 1 /\ 1 <= first BY <1>2
    <3>2. first <= p /\ p <= r.upto BY <1>2, <2>4, <3>1, FoundHas
    <3>3. 1 <= p BY <3>1, <3>2
    <3> QED BY <1>1, <3>2, <3>3, RangeHeld
  <2>6. PICK left \in Nat \cup {NoLimit} : left = Spent BY <1>1, SpentIs
  <2>7. r' = [[r EXCEPT !.left = left, !.page = Append(r.page, p), !.joined = Append(r.joined, p)]
                 EXCEPT !.out = rest]
    <3>1. r' = [Yield(p) EXCEPT !.out = Tail(@)] BY <1>9, <2>1, <2>5 DEF NextIndexed
    <3> QED BY <1>2, <2>2, <2>6, <3>1 DEF Yield, ReadState
  <2>8. PICK s : s = r' OBVIOUS
  <2>9. Append(r.page, p) \in Seq(Nat) /\ Append(r.joined, p) \in Seq(Nat) BY <1>2, <2>1
  <2>10. s \in ReadState /\ RangeKept(s)
    <3>1. PICK page \in Seq(Nat) : page = Append(r.page, p) BY <2>9
    <3>2. PICK joined \in Seq(Nat) : joined = Append(r.joined, p) BY <2>9
    <3> QED BY <1>2, <2>2, <2>6, <2>7, <2>8, <3>1, <3>2, ZenonT(40) DEF ReadState, RangeKept
  <2>11. /\ s.at = "stream" /\ s.snap = r.snap /\ s.access = r.access /\ s.left = Spent
         /\ s.hitLimit = r.hitLimit /\ s.err = r.err /\ s.page = Append(r.page, p)
         /\ s.joined = Append(r.joined, p) /\ s.out = rest /\ s.limit = r.limit
         /\ s.after = r.after /\ s.upto = r.upto /\ s.dir = r.dir /\ s.query = r.query
    BY <1>1, <1>2, <2>6, <2>7, <2>8 DEF ReadState
  <2>12. \E run : Lists(s.dir, run, Found(s, s.after + 1, s.upto))
                  /\ s.page \o s.out = CapAt(s.limit, run)
    <3>1. Found(s, s.after + 1, s.upto) = Found(r, r.after + 1, r.upto) BY <2>11 DEF Found
    <3>2. s.page \o s.out = CapAt(s.limit, all) BY <1>5, <2>3, <2>11
    <3> QED BY <1>5, <2>11, <3>1, <3>2
  <2>13. ReadOK(s)
    <3>1. s.access # "done" /\ s.access # "scan" BY <1>1, <2>11
    <3> QED BY <1>1, <2>1, <2>10, <2>11, <2>12, <3>1, YieldKeeps
  <2> QED BY <2>8, <2>13
<1> QED BY <1>8, <1>9

\* The sealed segments of the pinned snapshot, as the planner meets them.
LEMMA SealedHere ==
    ASSUME IndexInv, ReadOK(r), r.at \in Open, NEW k \in 1 .. Len(r.snap.sealed)
    PROVE  /\ k \in 1 .. Len(tails) /\ k \in 1 .. Len(bases)
           /\ bases[k] \in Nat /\ 1 <= bases[k] /\ SegEnd(k) \in Nat
           /\ bases[k] <= SegEnd(k) /\ SegEnd(k) <= Len(log) /\ SegEnd(k) < r.snap.base
           /\ r.snap.sealed[k] \in SealedSegment
           /\ r.snap.sealed[k].base = bases[k] /\ r.snap.sealed[k].count # 0
           /\ SealedLast(r.snap.sealed[k]) = IF SegEnd(k) <= r.upto THEN SegEnd(k) ELSE r.upto
           /\ r.snap.sealed[k].indexed =>
                 \A p : p \in Search(IndexSegment(tails[k]), tails[k], r.query) <=>
                     p \in Nat /\ bases[k] <= p /\ p <= SegEnd(k) /\ Matches(r.query, log[p])
<1>1. /\ SnapInv(r.snap) /\ r.query \in Query /\ r.upto \in Nat
      /\ r.snap.tail \in 1 .. Len(tails) /\ r.snap.base = bases[r.snap.tail]
  BY OpenHere
<1>2. PICK s \in Snapshot : s = r.snap BY <1>1 DEF SnapInv
<1>3. PICK j \in Nat : j = s.tail /\ 1 <= j /\ j <= Len(tails)
  BY <1>1, <1>2 DEF SnapInv, Snapshot
<1>4. Len(s.sealed) = j - 1 /\ k \in 1 .. j - 1 /\ s.sealed[k] = sealed[k]
  BY <1>1, <1>2, <1>3 DEF SnapInv
<1>5. PICK m \in Nat : m = Len(tails) /\ Len(sealed) + 1 = m /\ m <= Len(bases) BY Here
<1>6. PICK n \in Nat : n = Len(bases) /\ m <= n BY <1>5, Here
<1>7. /\ k \in Nat /\ 1 <= k /\ k < j /\ j <= m /\ k \in 1 .. m /\ k \in 1 .. n /\ j \in 1 .. n
      /\ k + 1 \in 1 .. n /\ k < n /\ k < k + 1 /\ k \in 1 .. Len(sealed)
  <2>1. Len(sealed) = m - 1 BY <1>5, Here
  <2> QED BY <1>3, <1>4, <1>5, <1>6, <2>1
<1>8. /\ bases[k] \in Nat /\ 1 <= bases[k] /\ SegEnd(k) \in Nat /\ SegEnd(k) <= Len(log)
      /\ SegEnd(k) = bases[k + 1] - 1 /\ bases[k + 1] \in Nat
  BY <1>5, <1>6, <1>7, TailHere
<1>9. bases[k] < bases[k + 1] BY <1>6, <1>7 DEF IndexInv, BasesInv
<1>10. SegEnd(k) < r.snap.base
  <2>1. SegEnd(k) < bases[j] BY <1>6, <1>7, SegmentsApart DEF IndexInv
  <2> QED BY <1>1, <1>2, <1>3, <2>1
<1>11. s.sealed[k] \in SealedSegment BY <1>4, <1>7 DEF IndexInv, TypeInv
<1>12. /\ sealed[k].base = bases[k] /\ sealed[k].count = bases[k + 1] - bases[k]
       /\ sealed[k].indexed => Len(tails[k].column) = sealed[k].count
  BY <1>7 DEF IndexInv, SealedInv
<1>13. PICK b \in Nat, e \in Nat : b = bases[k] /\ e = SegEnd(k) /\ bases[k + 1] = e + 1 /\ b <= e
  BY <1>8, <1>9
<1>14. sealed[k].base = b /\ sealed[k].count = (e + 1) - b BY <1>12, <1>13
<1>15. sealed[k].count # 0 /\ sealed[k].base + sealed[k].count - 1 = e BY <1>13, <1>14
<1>16. SealedLast(r.snap.sealed[k]) = IF e <= r.upto THEN e ELSE r.upto
  <2>1. SealedLast(r.snap.sealed[k]) = Lesser(e, r.upto)
    BY <1>2, <1>4, <1>15 DEF SealedLast
  <2> QED BY <1>1, <2>1, LesserIs
<1>17. ASSUME sealed[k].indexed
       PROVE  \A p : p \in Search(IndexSegment(tails[k]), tails[k], r.query) <=>
                  p \in Nat /\ bases[k] <= p /\ p <= SegEnd(k) /\ Matches(r.query, log[p])
  <2>1. Len(tails[k].column) = (e + 1) - b BY <1>12, <1>14, <1>17
  <2>2. bases[k] + Len(tails[k].column) = SegEnd(k) + 1 BY <1>13, <2>1
  <2> QED BY <1>1, <1>5, <1>7, <2>2, WholeSearch
<1>18. bases[k] <= SegEnd(k) BY <1>13
<1>19. r.snap.sealed[k] = sealed[k] BY <1>2, <1>4
<1>20. k \in 1 .. Len(tails) /\ k \in 1 .. Len(bases) BY <1>5, <1>6, <1>7
<1>21. SealedLast(r.snap.sealed[k]) = IF SegEnd(k) <= r.upto THEN SegEnd(k) ELSE r.upto
  BY <1>13, <1>16
<1> QED BY <1>2, <1>4, <1>8, <1>10, <1>11, <1>12, <1>15, <1>17, <1>18, <1>19, <1>20, <1>21

LEMMA SealedRunIs ==
    ASSUME IndexInv, ReadOK(r), r.at \in Open, NEW k \in 1 .. Len(r.snap.sealed)
    PROVE  \A p : p \in SealedRun(k) <=>
               /\ p \in Nat /\ bases[k] <= p /\ p <= SegEnd(k) /\ r.after < p /\ p <= r.upto
               /\ Matches(r.query, log[p])
<1>1. r.after \in Nat /\ r.upto \in Nat BY OpenHere
<1>2. PICK seg \in SealedSegment : seg = r.snap.sealed[k] BY SealedHere
<1>3. PICK b \in Nat : b = bases[k] /\ 1 <= b /\ seg.base = b /\ seg.count # 0
  BY <1>2, SealedHere
<1>4. PICK e \in Nat : e = SegEnd(k) /\ e <= Len(log) BY SealedHere
<1>5. PICK last \in Nat : last = SealedLast(seg) /\ last = IF e <= r.upto THEN e ELSE r.upto
  BY <1>1, <1>2, <1>4, SealedHere
<1>6. \A p \in Nat : p <= last <=> p <= e /\ p <= r.upto BY <1>1, <1>5
<1>7. Pruned(seg) <=> last <= r.after BY <1>3, <1>5 DEF Pruned
<1>8. CASE Pruned(seg)
  <2>1. SealedRun(k) = {} BY <1>2, <1>8 DEF SealedRun
  <2>2. \A p \in Nat : ~ (p <= e /\ p <= r.upto /\ r.after < p) BY <1>1, <1>6, <1>7, <1>8
  <2> QED BY <1>4, <2>1, <2>2
<1>9. CASE ~ Pruned(seg) /\ seg.indexed
  <2>1. SealedRun(k) = {p \in Search(IndexSegment(tails[k]), tails[k], r.query) :
                            p > r.after /\ p <= r.upto}
    BY <1>2, <1>9 DEF SealedRun
  <2>2. \A p : p \in Search(IndexSegment(tails[k]), tails[k], r.query) <=>
            p \in Nat /\ b <= p /\ p <= e /\ Matches(r.query, log[p])
    BY <1>2, <1>3, <1>4, <1>9, SealedHere
  <2>3. \A p \in Nat : p > r.after <=> r.after < p BY <1>1
  <2> QED BY <1>3, <1>4, <2>1, <2>2, <2>3
<1>10. CASE ~ Pruned(seg) /\ ~ seg.indexed
  <2>1. PICK first \in Nat : first = FirstAfter(r.after, b) /\ 1 <= first
                             /\ \A p \in Nat : first <= p <=> r.after < p /\ b <= p
    <3>1. PICK c \in Nat : c = b - 1 BY <1>3
    <3>2. Max({r.after, c}) = IF r.after <= c THEN c ELSE r.after BY <1>1, GreaterIs
    <3>3. FirstAfter(r.after, b) = Max({r.after, c}) + 1 BY <3>1 DEF FirstAfter
    <3> QED BY <1>1, <1>3, <3>1, <3>2, <3>3, SMTT(20)
  <2>2. SealedRun(k) = ScanMatches(r.query, first, last)
    BY <1>2, <1>3, <1>5, <1>10, <2>1 DEF SealedRun
  <2>3. \A p : p \in SealedRun(k) <=> /\ p \in Nat /\ first <= p /\ p <= last /\ p <= Len(log)
                                      /\ Matches(r.query, log[p])
    BY <2>1, <2>2, ScanHas DEF IndexInv
  <2>4. \A p \in Nat : p <= last => p <= Len(log)
    <3>1. Len(log) \in Nat BY OpenHere
    <3> QED BY <1>4, <1>6, <3>1
  <2> QED BY <1>3, <1>4, <1>6, <2>1, <2>3, <2>4
<1> QED BY <1>8, <1>9, <1>10

LEMMA SealedRunBackIs ==
    ASSUME IndexInv, ReadOK(r), r.at \in Open, r.after = 0, NEW k \in 1 .. Len(r.snap.sealed)
    PROVE  \A p : p \in SealedRunBack(k) <=>
               /\ p \in Nat /\ bases[k] <= p /\ p <= SegEnd(k) /\ r.after < p /\ p <= r.upto
               /\ Matches(r.query, log[p])
<1>1. r.upto \in Nat BY OpenHere
<1>2. PICK seg \in SealedSegment : seg = r.snap.sealed[k] BY SealedHere
<1>3. PICK b \in Nat : b = bases[k] /\ 1 <= b /\ seg.base = b /\ seg.count # 0
  BY <1>2, SealedHere
<1>4. PICK e \in Nat : e = SegEnd(k) /\ e <= Len(log) BY SealedHere
<1>5. PICK last \in Nat : last = SealedLast(seg) /\ last = IF e <= r.upto THEN e ELSE r.upto
  BY <1>1, <1>2, <1>4, SealedHere
<1>6. \A p \in Nat : p <= last <=> p <= e /\ p <= r.upto BY <1>1, <1>5
<1>7. \A p \in Nat : b <= p => r.after < p BY <1>3
<1>8. CASE b > r.upto
  <2>1. SealedRunBack(k) = {} BY <1>2, <1>3, <1>8 DEF SealedRunBack
  <2>2. \A p \in Nat : ~ (b <= p /\ p <= r.upto) BY <1>1, <1>8
  <2> QED BY <1>3, <2>1, <2>2
<1>9. CASE ~ (b > r.upto) /\ seg.indexed
  <2>1. SealedRunBack(k) = {p \in Search(IndexSegment(tails[k]), tails[k], r.query) : p <= last}
    BY <1>2, <1>3, <1>5, <1>9 DEF SealedRunBack
  <2>2. \A p : p \in Search(IndexSegment(tails[k]), tails[k], r.query) <=>
            p \in Nat /\ b <= p /\ p <= e /\ Matches(r.query, log[p])
    BY <1>2, <1>3, <1>4, <1>9, SealedHere
  <2> QED BY <1>3, <1>4, <1>6, <1>7, <2>1, <2>2
<1>10. CASE ~ (b > r.upto) /\ ~ seg.indexed
  <2>1. SealedRunBack(k) = ScanMatches(r.query, b, last)
    BY <1>2, <1>3, <1>5, <1>10 DEF SealedRunBack
  <2>2. \A p : p \in SealedRunBack(k) <=> /\ p \in Nat /\ b <= p /\ p <= last /\ p <= Len(log)
                                          /\ Matches(r.query, log[p])
    BY <1>3, <2>1, ScanHas DEF IndexInv
  <2>3. \A p \in Nat : p <= last => p <= Len(log)
    <3>1. Len(log) \in Nat BY OpenHere
    <3> QED BY <1>4, <1>6, <3>1
  <2> QED BY <1>3, <1>4, <1>6, <1>7, <2>2, <2>3
<1> QED BY <1>8, <1>9, <1>10

\* Together they hold the matches below the snapshot's active segment.
LEMMA RunsCover ==
    ASSUME IndexInv, ReadOK(r), r.at \in Open, NEW n \in Nat, n = Len(r.snap.sealed), NEW runs,
           \A k \in 1 .. n : \A p : p \in runs[k] <=>
               /\ p \in Nat /\ bases[k] <= p /\ p <= SegEnd(k) /\ r.after < p /\ p <= r.upto
               /\ Matches(r.query, log[p])
    PROVE  /\ \A p : p \in UNION {runs[k] : k \in 1 .. n} <=>
               /\ p \in Nat /\ r.after < p /\ p <= r.upto /\ p < r.snap.base /\ p <= Len(log)
               /\ Matches(r.query, log[p])
           /\ \A j, k \in 1 .. n : j < k => \A a \in runs[j] : \A b \in runs[k] : a < b
<1>1. /\ r.after \in Nat /\ r.upto \in Nat /\ r.upto <= Len(log) /\ Len(log) \in Nat
      /\ SnapInv(r.snap) /\ r.snap.tail \in 1 .. Len(tails) /\ r.snap.base = bases[r.snap.tail]
      /\ r.snap.base \in Nat
  BY OpenHere
<1>2. \A k \in 1 .. n : /\ k \in 1 .. Len(bases) /\ bases[k] \in Nat /\ 1 <= bases[k]
                        /\ SegEnd(k) \in Nat /\ SegEnd(k) <= Len(log) /\ SegEnd(k) < r.snap.base
  BY SealedHere
<1>3. PICK j \in Nat : j = r.snap.tail /\ n = j - 1 /\ 1 <= j
  BY <1>1 DEF SnapInv, Snapshot
<1>4. PICK m \in Nat : m = Len(bases) /\ j <= m BY <1>1, <1>3, Here
<1>5. ASSUME NEW p \in Nat, NEW k \in 1 .. n, bases[k] <= p, p <= SegEnd(k)
      PROVE  p < r.snap.base /\ p <= Len(log)
  BY <1>1, <1>2, <1>5, SMTT(20)
<1>6. ASSUME NEW p \in Nat, r.after < p, p <= r.upto, p < r.snap.base
      PROVE  \E k \in 1 .. n : bases[k] <= p /\ p <= SegEnd(k)
  <2>1. 1 <= p /\ p <= Len(log) BY <1>1, <1>6
  <2>2. PICK k \in 1 .. Len(bases) : bases[k] <= p /\ p <= SegEnd(k)
    BY <2>1, SegmentOf DEF IndexInv
  <2>3. k \in 1 .. m /\ k \in Nat /\ j \in 1 .. m BY <1>3, <1>4, <2>2
  <2>4. bases[k] \in Nat /\ bases[j] \in Nat /\ p < bases[j]
    <3>1. bases \in Seq(Nat) BY DEF IndexInv, TypeInv
    <3> QED BY <1>1, <1>3, <1>4, <1>6, <2>3, <3>1
  <2>5. k # j BY <2>2, <2>4
  <2>6. ~ (j < k)
    <3>1. j < k => bases[j] < bases[k] BY <1>4, <2>3 DEF IndexInv, BasesInv
    <3> QED BY <2>2, <2>4, <3>1
  <2>7. k \in 1 .. n BY <1>3, <2>3, <2>5, <2>6
  <2> QED BY <2>2, <2>7
<1>7. ASSUME NEW p
      PROVE  p \in UNION {runs[k] : k \in 1 .. n} <=>
                 /\ p \in Nat /\ r.after < p /\ p <= r.upto /\ p < r.snap.base /\ p <= Len(log)
                 /\ Matches(r.query, log[p])
  <2>1. p \in UNION {runs[k] : k \in 1 .. n} <=> \E k \in 1 .. n : p \in runs[k] OBVIOUS
  <2>2. ASSUME NEW k \in 1 .. n, p \in runs[k]
        PROVE  /\ p \in Nat /\ r.after < p /\ p <= r.upto /\ p < r.snap.base /\ p <= Len(log)
               /\ Matches(r.query, log[p])
    <3>1. /\ p \in Nat /\ bases[k] <= p /\ p <= SegEnd(k) /\ r.after < p /\ p <= r.upto
          /\ Matches(r.query, log[p])
      BY <2>2
    <3>2. p < r.snap.base /\ p <= Len(log) BY <1>5, <3>1
    <3> QED BY <3>1, <3>2
  <2>3. ASSUME p \in Nat, r.after < p, p <= r.upto, p < r.snap.base, Matches(r.query, log[p])
        PROVE  \E k \in 1 .. n : p \in runs[k]
    <3>1. PICK k \in 1 .. n : bases[k] <= p /\ p <= SegEnd(k) BY <1>6, <2>3
    <3>2. p \in runs[k] BY <2>3, <3>1
    <3> QED BY <3>2
  <2> QED BY <2>1, <2>2, <2>3
<1>8. ASSUME NEW i \in 1 .. n, NEW k \in 1 .. n, i < k, NEW a \in runs[i], NEW b \in runs[k]
      PROVE  a < b
  <2>1. SegEnd(i) < bases[k] BY <1>2, <1>8, SegmentsApart DEF IndexInv
  <2>2. a \in Nat /\ a <= SegEnd(i) /\ b \in Nat /\ bases[k] <= b OBVIOUS
  <2>3. SegEnd(i) \in Nat /\ bases[k] \in Nat BY <1>2
  <2> QED BY <2>1, <2>2, <2>3
<1> QED BY <1>7, <1>8

\* Planning the sealed segments of a forward read.
LEMMA SealedListed ==
    ASSUME IndexInv, ReadOK(r), r.at \in Open, r.dir = "forward"
    PROVE  \E flat \in Seq(Nat) :
              /\ flat = FlattenSeq([k \in DOMAIN r.snap.sealed |-> Ordered(SealedRun(k))])
              /\ r.upto < r.snap.base => Lists(r.dir, flat, Found(r, r.after + 1, r.upto))
              /\ r.snap.base <= r.upto => Lists(r.dir, flat, Found(r, r.after + 1, r.snap.base - 1))
<1>1. /\ r.after \in Nat /\ r.upto \in Nat /\ r.upto <= Len(log) /\ Len(log) \in Nat
      /\ SnapInv(r.snap) /\ r.snap.base \in Nat /\ 1 <= r.snap.base
  BY OpenHere
<1>2. PICK n \in Nat : n = Len(r.snap.sealed) /\ DOMAIN r.snap.sealed = 1 .. n
  BY <1>1 DEF SnapInv, Snapshot
<1>3. PICK runs : runs = [k \in 1 .. n |-> SealedRun(k)] OBVIOUS
<1>4. \A k \in 1 .. n : \A p : p \in runs[k] <=>
          /\ p \in Nat /\ bases[k] <= p /\ p <= SegEnd(k) /\ r.after < p /\ p <= r.upto
          /\ Matches(r.query, log[p])
  BY <1>2, <1>3, SealedRunIs
<1>5. PICK ss : ss = [k \in DOMAIN r.snap.sealed |-> Ordered(SealedRun(k))] OBVIOUS
<1>6. \A k \in 1 .. n : Lists(r.dir, ss[k], runs[k])
  <2>1. \A k \in 1 .. n : ss[k] = Ordered(runs[k]) BY <1>2, <1>3, <1>5
  <2>2. r.upto + 1 \in Nat /\ \A k \in 1 .. n : \A p \in runs[k] : p \in Nat /\ p < r.upto + 1
    BY <1>1, <1>4
  <2> QED BY <2>1, <2>2, OrderedLists
<1>7. ss \in Seq(Seq(Nat)) /\ Len(ss) = n
  <2>1. ss \in [1 .. n -> Seq(Nat)]
    <3>1. \A k \in 1 .. n : ss[k] \in Seq(Nat) BY <1>6 DEF Lists
    <3>2. ss = [k \in 1 .. n |-> Ordered(SealedRun(k))] BY <1>2, <1>5
    <3>3. DOMAIN ss = 1 .. n /\ ss = [k \in 1 .. n |-> ss[k]] BY <3>2
    <3> QED BY <3>1, <3>3
  <2> QED BY <2>1
<1>8. /\ \A p : p \in UNION {runs[k] : k \in 1 .. n} <=>
          /\ p \in Nat /\ r.after < p /\ p <= r.upto /\ p < r.snap.base /\ p <= Len(log)
          /\ Matches(r.query, log[p])
      /\ \A j, k \in 1 .. n : j < k => \A a \in runs[j] : \A b \in runs[k] : a < b
  BY <1>2, <1>4, RunsCover
<1>9. Lists(r.dir, FlattenSeq(ss), UNION {runs[k] : k \in 1 .. n})
  <2>1. PICK dir : dir = r.dir OBVIOUS
  <2>2. \A j, k \in 1 .. n : j < k => \A a \in runs[j] : \A b \in runs[k] : Earlier(dir, a, b)
    BY <1>8, <2>1 DEF Earlier
  <2>3. \A k \in 1 .. n : Lists(dir, ss[k], runs[k]) BY <1>6, <2>1
  <2>4. RunsInOrder(dir, n, ss, runs) BY <2>2, <2>3 DEF RunsInOrder
  <2>5. Lists(dir, FlattenSeq(ss), Together(n, runs))
    BY ONLY <1>7, <2>4, ListsFlatten, n \in Nat
  <2> QED BY <2>1, <2>5 DEF Together
<1>10. PICK flat \in Seq(Nat) : flat = FlattenSeq(ss) BY <1>9 DEF Lists
<1>11. PICK after1 \in Nat : after1 = r.after + 1 /\ 1 <= after1 BY <1>1
<1>12. ASSUME NEW last \in Nat, \A p \in Nat : p <= last <=> p <= r.upto /\ p < r.snap.base
       PROVE  UNION {runs[k] : k \in 1 .. n} = Found(r, after1, last)
  <2>1. \A p : p \in Found(r, after1, last) <=>
            p \in Nat /\ after1 <= p /\ p <= last /\ p <= Len(log) /\ Matches(r.query, log[p])
    BY <1>11, FoundHas
  <2>2. \A p \in Nat : after1 <= p <=> r.after < p BY <1>1, <1>11
  <2> QED BY <1>8, <1>12, <2>1, <2>2
<1>13. ASSUME r.upto < r.snap.base
       PROVE  Lists(r.dir, flat, Found(r, r.after + 1, r.upto))
  <2>1. \A p \in Nat : p <= r.upto <=> p <= r.upto /\ p < r.snap.base BY <1>1, <1>13
  <2> QED BY <1>1, <1>9, <1>10, <1>11, <1>12, <2>1
<1>14. ASSUME r.snap.base <= r.upto
       PROVE  Lists(r.dir, flat, Found(r, r.after + 1, r.snap.base - 1))
  <2>1. PICK last \in Nat : last = r.snap.base - 1 BY <1>1
  <2>2. \A p \in Nat : p <= last <=> p <= r.upto /\ p < r.snap.base BY <1>1, <1>14, <2>1
  <2> QED BY <1>9, <1>10, <1>11, <1>12, <2>1, <2>2
<1> QED BY <1>5, <1>10, <1>13, <1>14

LEMMA PlanSealedKeeps ==
    ASSUME IndexInv, ReadOK(r), PlanSealed
    PROVE  ReadOK(r')
<1>1. r.at = "sealed" /\ r.at \in Open /\ Forward
  BY DEF PlanSealed, Reading, Open, Planning
<1>2. /\ r \in ReadState /\ ~ r.err /\ r.snap.base \in Nat /\ 1 <= r.snap.base
      /\ r.upto \in Nat /\ r.after \in Nat /\ r.limit \in Nat \cup {NoLimit}
      /\ r.dir = "forward"
  BY <1>1, OpenHere
<1>3. PlanOK(r) BY DEF ReadOK
<1>4. /\ r.after < r.upto /\ r.limit # 0 /\ r.left = r.limit /\ r.page = <<>> /\ ~ r.hitLimit
      /\ r.access = "index"
  BY <1>1, <1>3 DEF PlanOK, Planning
<1>5. PICK flat \in Seq(Nat) :
          /\ flat = FlattenSeq([k \in DOMAIN r.snap.sealed |-> Ordered(SealedRun(k))])
          /\ r.upto < r.snap.base => Lists(r.dir, flat, Found(r, r.after + 1, r.upto))
          /\ r.snap.base <= r.upto => Lists(r.dir, flat, Found(r, r.after + 1, r.snap.base - 1))
  BY <1>1, <1>2, SealedListed
<1>6. PICK out \in Seq(Nat) : out = CapAt(r.limit, flat) BY <1>2, CapIs
<1>7. PICK place \in {"stream", "latch"} :
          /\ place = IF FullAt(r.limit, out) \/ r.upto < r.snap.base THEN "stream" ELSE "latch"
          /\ place = "stream" => FullAt(r.limit, out) \/ r.upto < r.snap.base
          /\ place = "latch" => ~ FullAt(r.limit, out) /\ ~ (r.upto < r.snap.base)
  OBVIOUS
<1>8. r' = [r EXCEPT !.out = out, !.at = place]
  <2>1. out = Capped(FlattenSeq([k \in DOMAIN r.snap.sealed |-> Ordered(SealedRun(k))]))
    BY <1>5, <1>6, CapsAre
  <2>2. Full(out) <=> FullAt(r.limit, out) BY CapsAre
  <2> QED BY <1>7, <2>1, <2>2 DEF PlanSealed
<1>9. PICK s : s = r' OBVIOUS
<1>10. s \in ReadState /\ RangeKept(s)
  BY <1>2, <1>8, <1>9, ZenonT(40) DEF ReadState, RangeKept, Open, Planning
<1>11. /\ s.at = place /\ s.access = "index" /\ s.snap = r.snap
       /\ s.page = r.page /\ s.joined = r.joined /\ s.left = r.left /\ s.limit = r.limit
       /\ s.err = r.err /\ s.hitLimit = r.hitLimit /\ s.dir = r.dir /\ s.after = r.after
       /\ s.upto = r.upto /\ s.out = out /\ s.query = r.query
  BY <1>2, <1>4, <1>8, <1>9 DEF ReadState
<1>12. \A first, last : Found(s, first, last) = Found(r, first, last) BY <1>11 DEF Found
<1>13. CASE place = "latch"
  <2>1. ~ FullAt(r.limit, out) /\ r.snap.base <= r.upto BY <1>2, <1>7, <1>13
  <2>2. out = flat
    <3>1. <<>> \in Seq(Nat) OBVIOUS
    <3> QED BY <1>2, <1>6, <2>1, <3>1, CapFull
  <2>3. Lists(s.dir, s.out, Found(s, s.after + 1, s.snap.base - 1)) /\ ~ FullAt(s.limit, s.out)
    BY <1>5, <1>11, <1>12, <2>1, <2>2
  <2>4. PlanOK(s) BY <1>2, <1>4, <1>11, <1>13, <2>1, <2>3 DEF PlanOK
  <2>5. ProbeOK(s) /\ StreamOK(s) /\ EndOK(s) /\ s.at \in Open \cup {"end"}
    BY <1>2, <1>11, <1>13 DEF ProbeOK, StreamOK, EndOK, Open, Planning
  <2>6. ReadOK(s) BY <1>1, <1>10, <1>11, <2>4, <2>5, ReadMoves
  <2> QED BY <1>9, <2>6
<1>14. CASE place = "stream"
  <2>1. PICK all : Lists(r.dir, all, Found(r, r.after + 1, r.upto)) /\ out = CapAt(r.limit, all)
    <3>1. CASE r.upto < r.snap.base BY <1>5, <1>6, <3>1
    <3>2. CASE ~ (r.upto < r.snap.base)
      <4>1. FullAt(r.limit, out) /\ r.snap.base <= r.upto BY <1>2, <1>7, <1>14, <3>2
      <4>2. PICK rest \in Seq(Nat) : Lists(r.dir, rest, Found(r, r.snap.base, r.upto))
        <5>1. Lists(r.dir, Ordered(Found(r, r.snap.base, r.upto)), Found(r, r.snap.base, r.upto))
          BY <1>2, OrderedFound DEF Found, IndexInv
        <5> QED BY <5>1 DEF Lists
      <4>3. CapAt(r.limit, flat \o rest) = out BY <1>2, <1>6, <4>1, <4>2, CapFull
      <4>4. CASE r.after + 1 <= r.snap.base
        <5>1. PICK first \in Nat : first = r.after + 1 /\ 1 <= first BY <1>2
        <5>2. r.snap.base <= r.upto + 1 BY <1>2, <4>1
        <5>3. /\ \A a \in Found(r, first, r.snap.base - 1) :
                     \A b \in Found(r, r.snap.base, r.upto) : Earlier(r.dir, a, b)
              /\ Found(r, first, r.snap.base - 1) \cup Found(r, r.snap.base, r.upto)
                     = Found(r, first, r.upto)
          <6>1. PICK base \in Nat : base = r.snap.base BY <1>2
          <6>2. PICK upto \in Nat : upto = r.upto BY <1>2
          <6>3. first <= base /\ base <= upto + 1 BY <4>4, <5>1, <5>2, <6>1, <6>2
          <6>4. /\ \A a \in Found(r, first, base - 1) :
                       \A b \in Found(r, base, upto) : Earlier(r.dir, a, b)
                /\ Found(r, first, base - 1) \cup Found(r, base, upto)
                       = Found(r, first, upto)
            BY <1>2, <5>1, <6>3, FoundSplits
          <6> QED BY <6>1, <6>2, <6>4
        <5>4. Lists(r.dir, flat, Found(r, first, r.snap.base - 1)) BY <1>5, <4>1, <5>1
        <5>5. Lists(r.dir, flat \o rest,
                    Found(r, first, r.snap.base - 1) \cup Found(r, r.snap.base, r.upto))
          BY ONLY <4>2, <5>3, <5>4, ListsConcat
        <5>6. Lists(r.dir, flat \o rest, Found(r, first, r.upto)) BY <5>3, <5>5
        <5> QED BY <4>3, <5>1, <5>6
      <4>5. CASE ~ (r.after + 1 <= r.snap.base)
        <5>1. PICK b \in Nat : b = r.snap.base - 1 BY <1>2
        <5>2. b < r.after + 1 /\ r.after + 1 \in Nat BY <1>2, <4>5, <5>1
        <5>3. Found(r, r.after + 1, b) = {} BY <5>2, FoundNothing
        <5>4. Lists(r.dir, flat, {}) BY <1>5, <4>1, <5>1, <5>3
        <5>5. flat = <<>> BY <5>4, ListsEmpty
        <5>6. out = <<>> /\ Len(out) = 0
          <6>1. Len(flat) = 0 /\ Len(out) <= Len(flat) /\ Len(out) \in Nat
            <7>1. Len(CapAt(r.limit, flat)) <= Len(flat) BY <1>2, CapIs
            <7>2. Len(flat) = 0 /\ Len(out) \in Nat BY <5>5
            <7> QED BY <1>6, <7>1, <7>2
          <6> QED BY <6>1
        <5>7. r.limit \in Nat /\ ~ (0 >= r.limit) BY <1>2, <1>4, <4>1 DEF FullAt
        <5> QED BY <4>1, <5>6, <5>7 DEF FullAt
      <4> QED BY <4>4, <4>5
    <3> QED BY <3>1, <3>2
  <2>2. StreamOK(s)
    <3>1. Len(s.page) = 0 /\ s.page \o s.out = out BY <1>4, <1>11
    <3>2. s.limit # NoLimit => s.left \in Nat /\ s.left + Len(s.page) = s.limit
      BY <1>2, <1>4, <1>11, <3>1
    <3>3. \E run : Lists(s.dir, run, Found(s, s.after + 1, s.upto))
                   /\ s.page \o s.out = CapAt(s.limit, run)
      BY <1>11, <1>12, <2>1, <3>1
    <3> QED BY <1>4, <1>11, <3>2, <3>3 DEF StreamOK
  <2>3. PlanOK(s) /\ ProbeOK(s) /\ EndOK(s) /\ s.at \in Open \cup {"end"}
    BY <1>2, <1>11, <1>14 DEF PlanOK, ProbeOK, EndOK, Open, Planning
  <2>4. ReadOK(s) BY <1>1, <1>10, <1>11, <2>2, <2>3, ReadMoves
  <2> QED BY <1>9, <2>4
<1> QED BY <1>7, <1>13, <1>14

\* Planning the sealed segments of a backward read, the last one first.
LEMMA SealedListedBack ==
    ASSUME IndexInv, ReadOK(r), r.at \in Open, r.dir # "forward"
    PROVE  \E flat \in Seq(Nat) :
              /\ flat = FlattenSeq(Reverse([k \in DOMAIN r.snap.sealed |-> Ordered(SealedRunBack(k))]))
              /\ \E below \in Nat : /\ Lists(r.dir, flat, Found(r, 1, below))
                                    /\ r.upto < r.snap.base => below = r.upto
                                    /\ r.snap.base <= r.upto => below + 1 = r.snap.base
<1>1. /\ r.after = 0 /\ r.upto \in Nat /\ r.upto <= Len(log) /\ Len(log) \in Nat
      /\ SnapInv(r.snap) /\ r.snap.base \in Nat /\ 1 <= r.snap.base
  BY OpenHere
<1>2. PICK n \in Nat : n = Len(r.snap.sealed) /\ DOMAIN r.snap.sealed = 1 .. n
  BY <1>1 DEF SnapInv, Snapshot
<1>3. PICK runs : runs = [k \in 1 .. n |-> SealedRunBack(k)] OBVIOUS
<1>4. \A k \in 1 .. n : \A p : p \in runs[k] <=>
          /\ p \in Nat /\ bases[k] <= p /\ p <= SegEnd(k) /\ r.after < p /\ p <= r.upto
          /\ Matches(r.query, log[p])
  BY <1>1, <1>2, <1>3, SealedRunBackIs
<1>5. PICK tt : tt = [k \in DOMAIN r.snap.sealed |-> Ordered(SealedRunBack(k))] OBVIOUS
<1>6. \A k \in 1 .. n : Lists(r.dir, tt[k], runs[k])
  <2>1. \A k \in 1 .. n : tt[k] = Ordered(runs[k]) BY <1>2, <1>3, <1>5
  <2>2. r.upto + 1 \in Nat /\ \A k \in 1 .. n : \A p \in runs[k] : p \in Nat /\ p < r.upto + 1
    BY <1>1, <1>4
  <2> QED BY <2>1, <2>2, OrderedLists
<1>7. tt \in Seq(Seq(Nat)) /\ Len(tt) = n
  <2>1. tt \in [1 .. n -> Seq(Nat)]
    <3>1. \A k \in 1 .. n : tt[k] \in Seq(Nat) BY <1>6 DEF Lists
    <3>2. tt = [k \in 1 .. n |-> Ordered(SealedRunBack(k))] BY <1>2, <1>5
    <3>3. DOMAIN tt = 1 .. n /\ tt = [k \in 1 .. n |-> tt[k]] BY <3>2
    <3> QED BY <3>1, <3>3
  <2> QED BY <2>1
<1>8. \A k \in 1 .. n : (n - k) + 1 \in 1 .. n /\ (n - ((n - k) + 1)) + 1 = k OBVIOUS
<1>9. PICK ss : ss = [k \in 1 .. n |-> tt[(n - k) + 1]] OBVIOUS
<1>10. ss = Reverse(tt) BY <1>7, <1>9 DEF Reverse
<1>11. ss \in Seq(Seq(Nat)) /\ Len(ss) = n
  <2>1. \A k \in 1 .. n : tt[k] \in Seq(Nat) BY <1>7
  <2>2. \A k \in 1 .. n : tt[(n - k) + 1] \in Seq(Nat) BY <1>8, <2>1
  <2>3. ss \in [1 .. n -> Seq(Nat)] BY <1>9, <2>2
  <2> QED BY <2>3
<1>12. PICK sets : sets = [k \in 1 .. n |-> runs[(n - k) + 1]] OBVIOUS
<1>13. /\ \A p : p \in UNION {runs[k] : k \in 1 .. n} <=>
          /\ p \in Nat /\ r.after < p /\ p <= r.upto /\ p < r.snap.base /\ p <= Len(log)
          /\ Matches(r.query, log[p])
      /\ \A j, k \in 1 .. n : j < k => \A a \in runs[j] : \A b \in runs[k] : a < b
  BY <1>2, <1>4, RunsCover
<1>14. Lists(r.dir, FlattenSeq(ss), Together(n, sets))
  <2>1. PICK dir : dir = r.dir OBVIOUS
  <2>2. ASSUME NEW j \in 1 .. n, NEW k \in 1 .. n, j < k, NEW a \in sets[j], NEW b \in sets[k]
        PROVE  Earlier(dir, a, b)
    <3>1. PICK x \in 1 .. n : x = (n - j) + 1 BY <1>8
    <3>2. PICK y \in 1 .. n : y = (n - k) + 1 BY <1>8
    <3>3. y < x BY <2>2, <3>1, <3>2
    <3>4. a \in runs[x] /\ b \in runs[y] BY <1>12, <3>1, <3>2
    <3>5. b < a BY <1>13, <3>3, <3>4
    <3> QED BY <2>1, <3>5 DEF Earlier
  <2>3. \A k \in 1 .. n : Lists(dir, ss[k], sets[k])
    <3>1. ASSUME NEW k \in 1 .. n PROVE Lists(dir, ss[k], sets[k])
      <4>1. PICK x \in 1 .. n : x = (n - k) + 1 BY <1>8
      <4>2. ss[k] = tt[x] /\ sets[k] = runs[x] BY <1>9, <1>12, <4>1
      <4> QED BY <1>6, <2>1, <4>2
    <3> QED BY <3>1
  <2>4. RunsInOrder(dir, n, ss, sets) BY <2>2, <2>3 DEF RunsInOrder
  <2>5. Lists(dir, FlattenSeq(ss), Together(n, sets))
    BY ONLY <1>11, <2>4, ListsFlatten, n \in Nat
  <2> QED BY <2>1, <2>5
<1>15. Together(n, sets) = UNION {runs[k] : k \in 1 .. n}
  <2>1. ASSUME NEW p, NEW k \in 1 .. n, p \in sets[k]
        PROVE  \E j \in 1 .. n : p \in runs[j]
    <3>1. PICK x \in 1 .. n : x = (n - k) + 1 BY <1>8
    <3>2. p \in runs[x] BY <1>12, <2>1, <3>1
    <3> QED BY <3>2
  <2>2. ASSUME NEW p, NEW k \in 1 .. n, p \in runs[k]
        PROVE  \E j \in 1 .. n : p \in sets[j]
    <3>1. PICK x \in 1 .. n : x = (n - k) + 1 /\ (n - x) + 1 = k BY <1>8
    <3>2. sets[x] = runs[(n - x) + 1] BY <1>12
    <3>3. p \in sets[x] BY <2>2, <3>1, <3>2
    <3> QED BY <3>3
  <2>3. \A p : p \in Together(n, sets) <=> \E k \in 1 .. n : p \in sets[k] BY DEF Together
  <2>4. \A p : p \in UNION {runs[k] : k \in 1 .. n} <=> \E k \in 1 .. n : p \in runs[k]
    OBVIOUS
  <2>5. ASSUME NEW p PROVE p \in Together(n, sets) <=> p \in UNION {runs[k] : k \in 1 .. n}
    BY <2>1, <2>2, <2>3, <2>4
  <2> QED BY <2>5
<1>16. PICK flat \in Seq(Nat) : flat = FlattenSeq(ss) BY <1>14 DEF Lists
<1>17. PICK below \in Nat :
           /\ r.upto < r.snap.base => below = r.upto
           /\ r.snap.base <= r.upto => below + 1 = r.snap.base
  <2>1. CASE r.upto < r.snap.base
    <3>1. ~ (r.snap.base <= r.upto) BY <1>1, <2>1
    <3> QED BY <1>1, <2>1, <3>1
  <2>2. CASE ~ (r.upto < r.snap.base)
    <3>1. PICK b \in Nat : b = r.snap.base - 1 /\ b + 1 = r.snap.base BY <1>1
    <3> QED BY <2>2, <3>1
  <2> QED BY <2>1, <2>2
<1>18. \A p \in Nat : p <= below <=> p <= r.upto /\ p < r.snap.base
  <2>1. CASE r.upto < r.snap.base BY <1>1, <1>17, <2>1
  <2>2. CASE r.snap.base <= r.upto BY <1>1, <1>17, <2>2
  <2> QED BY <1>1, <2>1, <2>2, SMTT(20)
<1>19. UNION {runs[k] : k \in 1 .. n} = Found(r, 1, below)
  <2>1. PICK one \in Nat : one = 1 /\ 1 <= one OBVIOUS
  <2>2. \A p : p \in Found(r, one, below) <=>
            p \in Nat /\ one <= p /\ p <= below /\ p <= Len(log) /\ Matches(r.query, log[p])
    BY <2>1, FoundHas
  <2>3. \A p \in Nat : one <= p <=> r.after < p BY <1>1, <2>1
  <2>4. UNION {runs[k] : k \in 1 .. n} = Found(r, one, below) BY <1>13, <1>18, <2>2, <2>3
  <2> QED BY <2>1, <2>4
<1>20. Lists(r.dir, flat, Found(r, 1, below)) BY <1>14, <1>15, <1>16, <1>19
<1> QED BY <1>5, <1>10, <1>16, <1>17, <1>20

LEMMA PlanSealedBackKeeps ==
    ASSUME IndexInv, ReadOK(r), PlanSealedBack
    PROVE  ReadOK(r')
<1>1. r.at = "sealed" /\ r.at \in Open /\ ~ Forward
  BY DEF PlanSealedBack, Reading, Open, Planning
<1>2. /\ r \in ReadState /\ ~ r.err /\ r.snap.base \in Nat /\ 1 <= r.snap.base
      /\ r.upto \in Nat /\ r.limit \in Nat \cup {NoLimit}
      /\ r.dir # "forward" /\ r.after = 0 /\ r.out \in Seq(Nat)
  BY <1>1, OpenHere
<1>3. PlanOK(r) BY DEF ReadOK
<1>4. /\ r.after < r.upto /\ r.limit # 0 /\ r.left = r.limit /\ r.page = <<>> /\ ~ r.hitLimit
      /\ r.access = "index" /\ Lists(r.dir, r.out, Found(r, r.snap.base, r.upto))
  BY <1>1, <1>2, <1>3 DEF PlanOK, Planning
<1>5. PICK flat \in Seq(Nat) :
          /\ flat = FlattenSeq(Reverse([k \in DOMAIN r.snap.sealed |-> Ordered(SealedRunBack(k))]))
          /\ \E below \in Nat : /\ Lists(r.dir, flat, Found(r, 1, below))
                                /\ r.upto < r.snap.base => below = r.upto
                                /\ r.snap.base <= r.upto => below + 1 = r.snap.base
  BY <1>1, <1>2, SealedListedBack
<1>6. PICK below \in Nat : /\ Lists(r.dir, flat, Found(r, 1, below))
                           /\ r.upto < r.snap.base => below = r.upto
                           /\ r.snap.base <= r.upto => below + 1 = r.snap.base
  BY <1>5
<1>7. PICK all \in Seq(Nat) : all = r.out \o flat
  <2>1. r.out \o flat \in Seq(Nat) BY <1>2, ConcatProperties
  <2> QED BY <2>1
<1>8. PICK out \in Seq(Nat) : out = CapAt(r.limit, all) BY <1>2, CapIs
<1>9. r' = [r EXCEPT !.out = out, !.at = "stream"]
  <2>1. out = Capped(r.out \o FlattenSeq(Reverse([k \in DOMAIN r.snap.sealed |-> Ordered(SealedRunBack(k))])))
    BY <1>5, <1>7, <1>8, CapsAre
  <2> QED BY <1>2, <2>1 DEF PlanSealedBack, ReadState
<1>10. PICK s : s = r' OBVIOUS
<1>11. s \in ReadState /\ RangeKept(s)
  BY <1>2, <1>9, <1>10 DEF ReadState, RangeKept, Open, Planning
<1>12. /\ s.at = "stream" /\ s.access = "index" /\ s.snap = r.snap
       /\ s.page = r.page /\ s.joined = r.joined /\ s.left = r.left /\ s.limit = r.limit
       /\ s.err = r.err /\ s.hitLimit = r.hitLimit /\ s.dir = r.dir /\ s.after = r.after
       /\ s.upto = r.upto /\ s.out = out /\ s.query = r.query
  BY <1>2, <1>4, <1>9, <1>10 DEF ReadState
<1>13. \A first, last : Found(s, first, last) = Found(r, first, last) BY <1>12 DEF Found
<1>14. Lists(r.dir, all, Found(r, r.after + 1, r.upto))
  <2>1. PICK one \in Nat : one = r.after + 1 /\ one = 1 /\ 1 <= one BY <1>2
  <2>2. CASE r.upto < r.snap.base
    <3>1. Found(r, r.snap.base, r.upto) = {} BY <1>2, <2>2, FoundNothing
    <3>2. r.out = <<>> BY <1>4, <3>1, ListsEmpty
    <3>3. <<>> \o flat = flat BY ConcatEmptySeq
    <3> QED BY <1>6, <1>7, <2>1, <2>2, <3>2, <3>3
  <2>3. CASE r.snap.base <= r.upto
    <3>1. PICK upto \in Nat : upto = r.upto BY <1>2
    <3>2. r.snap.base = below + 1 BY <1>6, <2>3
    <3>3. one <= below + 1 /\ below <= upto BY <1>2, <2>1, <2>3, <3>1, <3>2
    <3>4. /\ \A a \in Found(r, below + 1, upto) : \A b \in Found(r, one, below) :
                Earlier(r.dir, a, b)
          /\ Found(r, below + 1, upto) \cup Found(r, one, below) = Found(r, one, upto)
      BY <1>2, <2>1, <3>3, FoundSplitsBack
    <3>5. Lists(r.dir, r.out, Found(r, below + 1, upto)) /\ Lists(r.dir, flat, Found(r, one, below))
      BY <1>4, <1>6, <2>1, <3>1, <3>2
    <3>6. Lists(r.dir, r.out \o flat, Found(r, below + 1, upto) \cup Found(r, one, below))
      BY <3>4, <3>5, ListsConcat
    <3>7. Lists(r.dir, all, Found(r, one, upto)) BY <1>7, <3>4, <3>6
    <3> QED BY <2>1, <3>1, <3>7
  <2> QED BY <1>2, <2>2, <2>3
<1>15. StreamOK(s)
  <2>1. Len(s.page) = 0 /\ s.page \o s.out = out BY <1>4, <1>12
  <2>2. s.limit # NoLimit => s.left \in Nat /\ s.left + Len(s.page) = s.limit
    BY <1>2, <1>4, <1>12, <2>1
  <2>3. \E run : Lists(s.dir, run, Found(s, s.after + 1, s.upto))
                 /\ s.page \o s.out = CapAt(s.limit, run)
    BY <1>8, <1>12, <1>13, <1>14, <2>1
  <2> QED BY <1>4, <1>12, <2>2, <2>3 DEF StreamOK
<1>16. PlanOK(s) /\ ProbeOK(s) /\ EndOK(s) /\ s.at \in Open \cup {"end"}
  BY <1>2, <1>12 DEF PlanOK, ProbeOK, EndOK, Open, Planning
<1>17. ReadOK(s) BY <1>1, <1>11, <1>12, <1>15, <1>16, ReadMoves
<1> QED BY <1>10, <1>17

--------------------
\* The whole read.
LEMMA ReaderKeeps ==
    ASSUME IndexInv, ~ LatchLost, ReadOK(r), Reader
    PROVE  ReadOK(r)'
<1>1. UNCHANGED <<log, bases, tails, sealed, watermark>>
  BY ReaderLeaves DEF logVars, indexVars, coreVars
<1>2. ReadOK(r')
  <2>1. CASE StartRead \/ NextPage \/ LoadSnapshot
    BY <2>1, StartReadKeeps, NextPageKeeps, LoadSnapshotKeeps
  <2>2. CASE ChooseScan \/ ChooseIndex BY <2>2, ChooseScanKeeps, ChooseIndexKeeps
  <2>3. CASE PlanSealed \/ PlanSealedBack BY <2>3, PlanSealedKeeps, PlanSealedBackKeeps
  <2>4. CASE ScanLatched \/ TrustTail \/ ViewTail
    BY <2>4, ScanLatchedKeeps, TrustTailKeeps, ViewTailKeeps
  <2>5. CASE ProbeType \/ ProbeTag \/ EvaluateTail
    BY <2>5, ProbeTypeKeeps, ProbeTagKeeps, EvaluateTailKeeps
  <2>6. CASE NextCapped \/ NextDone \/ NextIndexed
    BY <2>6, NextCappedKeeps, NextDoneKeeps, NextIndexedKeeps
  <2>7. CASE NextScanned \/ NextScannedBack
    BY <2>7, NextScannedKeeps, NextScannedBackKeeps
  <2> QED BY <2>1, <2>2, <2>3, <2>4, <2>5, <2>6, <2>7 DEF Reader
<1> QED BY <1>1, <1>2, ReadUnmoved

LEMMA IdleHolds ==
    /\ IdleRead \in ReadState /\ IdleRead.at = "idle" /\ ~ IdleRead.err
    /\ IdleRead.joined = <<>>
<1>1. PICK snapshot \in Snapshot : snapshot = IdleRead.snap BY IdleIs
<1>2. PICK index \in SegmentIndexes : index = IdleRead.index BY IdleIs
<1>3. PICK query \in Query : query = Nothing BY DEF Nothing, Items, Query
<1>4. PICK none \in Seq(Nat) : none = <<>>
  <2>1. <<>> \in Seq(Nat) OBVIOUS
  <2> QED BY <2>1
<1>5. IdleRead =
          [at |-> "idle", query |-> query, dir |-> "forward", limit |-> NoLimit, cursor |-> 0,
           watermark |-> 0, snap |-> snapshot, after |-> 0, upto |-> 0,
           access |-> "done", index |-> index, terms |-> 0,
           types |-> {}, tags |-> {}, out |-> none, pos |-> 0, left |-> 0, hitLimit |-> FALSE,
           err |-> FALSE, page |-> none, joined |-> none, start |-> 0, top |-> 0, pages |-> 0]
  BY <1>1, <1>2, <1>3, <1>4 DEF IdleRead
<1>6. IdleRead \in ReadState BY <1>5 DEF ReadState, NoLimit
<1> QED BY <1>4, <1>5, <1>6

LEMMA IdleStarts == r = IdleRead => ReadOK(r)
<1> SUFFICES ASSUME r = IdleRead PROVE ReadOK(r)
  OBVIOUS
<1>1. r \in ReadState /\ r.at = "idle" /\ ~ r.err /\ r.joined = <<>> BY IdleHolds
<1>2. PagingOK(r) /\ BoundsOK(r) /\ JoinOK(r) /\ PinnedOK(r)
  BY <1>1 DEF PagingOK, BoundsOK, JoinOK, PinnedOK, Open, Planning
<1>3. PlanOK(r) /\ ProbeOK(r) /\ StreamOK(r) /\ EndOK(r)
  BY <1>1 DEF PlanOK, ProbeOK, StreamOK, EndOK, Open, Planning
<1> QED BY <1>1, <1>2, <1>3 DEF ReadOK

LEMMA ReopenIdles ==
    ASSUME Reopen
    PROVE  ReadOK(r)'
<1>1. r' = IdleRead BY DEF Reopen
<1>2. r' \in ReadState /\ r'.at = "idle" /\ ~ r'.err /\ r'.joined = <<>>
  BY <1>1, IdleHolds
<1>3. PagingOK(r)' /\ BoundsOK(r)' /\ JoinOK(r)' /\ PinnedOK(r)'
  BY <1>2 DEF PagingOK, BoundsOK, JoinOK, PinnedOK, Open, Planning
<1>4. PlanOK(r)' /\ ProbeOK(r)' /\ StreamOK(r)' /\ EndOK(r)'
  BY <1>2 DEF PlanOK, ProbeOK, StreamOK, EndOK, Open, Planning
<1> QED BY <1>2, <1>3, <1>4 DEF ReadOK

LEMMA WriterKeepsReads ==
    ASSUME IndexInv, IndexInv', Writer, ~ LatchLost', ~ LatchLost => ReadOK(r)
    PROVE  ReadOK(r)'
<1>1. Grew BY WriterGrows
<1>2. ~ LatchLost
  <2>1. SUFFICES ASSUME NEW k \in DOMAIN tails, tails[k].reopened PROVE FALSE
    BY DEF LatchLost
  <2>2. k \in 1 .. Len(tails) /\ DOMAIN tails = 1 .. Len(tails) /\ Len(tails) \in Nat
    BY DEF IndexInv, TypeInv
  <2>3. k <= Len(tails') /\ tails'[k].reopened BY <1>1, <2>1, <2>2 DEF Grew, SegmentGrew
  <2>4. DOMAIN tails' = 1 .. Len(tails') /\ Len(tails') \in Nat BY DEF IndexInv, TypeInv
  <2>5. k \in DOMAIN tails' BY <2>2, <2>3, <2>4
  <2> QED BY <2>3, <2>5 DEF LatchLost
<1>3. PICK s : s = r /\ ReadOK(s) BY <1>2
<1>4. ReadOK(s)' BY <1>1, <1>3, ReadStable
<1>5. r' = s BY <1>1, <1>3 DEF Grew
<1>6. /\ s \in ReadState /\ PagingOK(s)' /\ BoundsOK(s)' /\ JoinOK(s)' /\ PinnedOK(s)'
      /\ PlanOK(s)' /\ ProbeOK(s)' /\ StreamOK(s)' /\ EndOK(s)'
  BY <1>3, <1>4 DEF ReadOK
<1>7. \A first, last : Found(r, first, last)' = Found(s, first, last)'
  BY <1>5 DEF Found, ScanMatches
<1>8. Before(r)' = Before(s)' /\ TailOf(r)' = TailOf(s)' BY <1>5, <1>7 DEF Before, TailOf
<1>9. PagingOK(r)' /\ BoundsOK(r)' /\ PinnedOK(r)'
  BY <1>5, <1>6 DEF PagingOK, BoundsOK, PinnedOK, SnapInv, SegEnd
<1>10. JoinOK(r)' BY <1>5, <1>6, <1>8 DEF JoinOK
<1>11. PlanOK(r)' BY <1>5, <1>6, <1>7 DEF PlanOK
<1>12. ProbeOK(r)' BY <1>5, <1>6, <1>8 DEF ProbeOK
<1>13. StreamOK(r)' /\ EndOK(r)' BY <1>5, <1>6, <1>7 DEF StreamOK, EndOK
<1> QED BY <1>5, <1>6, <1>9, <1>10, <1>11, <1>12, <1>13 DEF ReadOK

LEMMA ReadNext == ReadInv /\ [Next]_vars => ReadInv'
<1> SUFFICES ASSUME ReadInv, [Next]_vars PROVE ReadInv'
  OBVIOUS
<1>1. IndexInv /\ (~ LatchLost => ReadOK(r)) BY DEF ReadInv
<1>2. IndexInv' BY <1>1, IndexNext
<1>3. CASE Writer
  <2>1. ASSUME ~ LatchLost' PROVE ReadOK(r)' BY <1>1, <1>2, <1>3, <2>1, WriterKeepsReads
  <2> QED BY <1>2, <2>1 DEF ReadInv
<1>4. CASE Reader
  <2>1. LatchLost' <=> LatchLost BY <1>4, ReaderLeaves DEF LatchLost, indexVars
  <2>2. ~ LatchLost => ReadOK(r)' BY <1>1, <1>4, ReaderKeeps
  <2> QED BY <1>2, <2>1, <2>2 DEF ReadInv
<1>5. CASE Reopen BY <1>2, <1>5, ReopenIdles DEF ReadInv
<1>6. CASE UNCHANGED vars
  <2>1. UNCHANGED <<log, bases, tails, sealed, watermark>> /\ r' = r
    BY <1>6 DEF vars, logVars, indexVars, coreVars
  <2>2. LatchLost' <=> LatchLost BY <2>1 DEF LatchLost
  <2>3. ~ LatchLost => ReadOK(r)'
    <3>1. ~ LatchLost => ReadOK(r') BY <1>1, <2>1
    <3> QED BY <2>1, <3>1, ReadUnmoved
  <2> QED BY <1>2, <2>2, <2>3 DEF ReadInv
<1> QED BY <1>3, <1>4, <1>5, <1>6 DEF Next

\* A read knows its range: the snapshot it pinned describes every event it may still have to
\* return, the part of the plan already made and the pages already handed out list exactly the
\* matching positions up to the cursor, and a probe sees a tail that is at least as long as the
\* pinned one. This holds while no latch was lost.
THEOREM ReadsKnowTheirRange == Spec => []ReadInv
<1>1. Init => ReadInv BY IndexInit, IdleStarts DEF Init, ReadInv
<1> QED BY <1>1, ReadNext, PTL DEF Spec

LEMMA ExactAtEnd == ReadInv => ReadExact
<1> SUFFICES ASSUME ReadInv, r.at = "end", ~ LatchLost PROVE PageIsExact
  BY DEF ReadExact
<1>1. IndexInv /\ ReadOK(r) BY DEF ReadInv
<1>2. r \in ReadState /\ EndOK(r) BY <1>1 DEF ReadOK
<1>3. ~ r.err BY <1>2 DEF EndOK
<1>4. PICK all : /\ Lists(r.dir, all, Found(r, r.after + 1, r.upto))
                 /\ r.page = CapAt(r.limit, all)
                 /\ ~ r.hitLimit => r.page = all
  BY <1>2 DEF EndOK
<1>5. r.after \in Nat /\ r.upto \in Nat BY <1>2 DEF ReadState
<1>6. PICK first \in Nat : first = r.after + 1 /\ 1 <= first BY <1>5
<1>7. Lists(r.dir, Ordered(ScanMatches(r.query, first, r.upto)), ScanMatches(r.query, first, r.upto))
  BY <1>1, <1>5, <1>6, OrderedFound DEF IndexInv
<1>8. Lists(r.dir, Wanted, Found(r, r.after + 1, r.upto)) BY <1>6, <1>7 DEF Wanted, Found
<1>9. all = Wanted BY <1>4, <1>8, ListsUnique
<1>10. Capped(Wanted) = CapAt(r.limit, Wanted) BY CapsAre
<1> QED BY <1>3, <1>4, <1>9, <1>10 DEF PageIsExact

\* A page that has ended did so without an error and holds exactly the positions after its cursor
\* and up to the pinned watermark that match the query, in the order asked for and cut at the
\* limit, whichever of the two ways the planner chose and whatever the writer fed, latched, sealed
\* and published meanwhile (as long as no tail was reopened unmarked, LatchLost).
THEOREM ReadsAreExact == Spec => []ReadExact
<1>1. ReadInv => ReadExact BY ExactAtEnd
<1> QED BY <1>1, ReadsKnowTheirRange, PTL

LEMMA JoinAtEnd == ReadInv => PagesJoin
<1> SUFFICES ASSUME ReadInv, r.at = "end", ~ LatchLost, r.joined # <<>>, NEW last, last = Last(r.joined)
             PROVE  r.joined = Ordered(IF Forward THEN ScanMatches(r.query, r.start + 1, last)
                                       ELSE ScanMatches(r.query, last, r.top))
  BY DEF PagesJoin
<1>1. IndexInv /\ ReadOK(r) BY DEF ReadInv
<1>2. r \in ReadState BY <1>1 DEF ReadOK
<1>3. r.start \in Nat /\ r.top \in Nat BY <1>2 DEF ReadState
<1>4. /\ last \in Nat /\ 1 <= last
      /\ r.dir = "forward" => Lists(r.dir, r.joined, Found(r, r.start + 1, last))
      /\ r.dir # "forward" => Lists(r.dir, r.joined, Found(r, last, r.top))
  BY <1>1, EndJoins
<1>5. CASE Forward
  <2>1. PICK first \in Nat : first = r.start + 1 /\ 1 <= first BY <1>3
  <2>2. Lists(r.dir, Ordered(ScanMatches(r.query, first, last)), ScanMatches(r.query, first, last))
    BY <1>1, <1>4, <2>1, OrderedFound DEF IndexInv
  <2>3. Lists(r.dir, r.joined, ScanMatches(r.query, first, last))
    BY <1>4, <1>5, <2>1 DEF Forward, Found
  <2>4. r.joined = Ordered(ScanMatches(r.query, first, last)) BY <2>2, <2>3, ListsUnique
  <2> QED BY <1>5, <2>1, <2>4
<1>6. CASE ~ Forward
  <2>1. Lists(r.dir, Ordered(ScanMatches(r.query, last, r.top)), ScanMatches(r.query, last, r.top))
    BY <1>1, <1>3, <1>4, OrderedFound DEF IndexInv
  <2>2. Lists(r.dir, r.joined, ScanMatches(r.query, last, r.top))
    BY <1>4, <1>6 DEF Forward, Found
  <2>3. r.joined = Ordered(ScanMatches(r.query, last, r.top)) BY <2>1, <2>2, ListsUnique
  <2> QED BY <1>6, <2>3
<1> QED BY <1>5, <1>6

\* Pages read one after the other, each from where the last one stopped, put together, are exactly
\* the matching positions of the range: none is skipped and none is repeated between two pages, in
\* either direction.
THEOREM PagesMeet == Spec => []PagesJoin
<1>1. ReadInv => PagesJoin BY JoinAtEnd
<1> QED BY <1>1, ReadsKnowTheirRange, PTL
=============================================================================

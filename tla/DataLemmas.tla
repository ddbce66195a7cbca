----------------------------- MODULE DataLemmas -----------------------------
(***************************************************************************)
(* What the proofs need to know of naturals, sets and sequences, and the   *)
(* operators of the community modules the models are built from.           *)
(***************************************************************************)
EXTENDS Naturals, Sequences, FiniteSets, SequencesExt, FiniteSetsExt, Ordered, FiniteSetTheorems, TLAPS

\* Every set of naturals that is not empty has a least element: the strict subset
\* ordering of finite sets is well founded, and n < m iff 0..n is strictly in 0..m.
LEMMA LeastNatural ==
  ASSUME NEW S, S \subseteq Nat, S # {}
  PROVE  \E n \in S : \A m \in S : n <= m
<1> DEFINE T == {0..n : n \in S}
<1>1. \A n \in Nat : 0..n \in FiniteSubsetsOf(Nat)
  BY FS_Interval DEF FiniteSubsetsOf
<1>2. T \subseteq FiniteSubsetsOf(Nat) /\ T # {} BY <1>1
<1>3. PICK x \in T : \A y \in T : ~(<<y, x>> \in StrictSubsetOrdering(Nat))
  <2> HIDE DEF T
  <2> QED BY <1>2, FS_StrictSubsetOrderingWellFounded, WFMin
<1>4. PICK n \in S : x = 0..n OBVIOUS
<1>5. ASSUME NEW m \in S, ~(n <= m) PROVE FALSE
  <2>1. 0..m \subseteq 0..n /\ 0..m # 0..n 
    <3>1. n \in 0..n /\ n \notin 0..m BY <1>5
    <3> QED BY <1>5, <3>1
  <2>2. <<0..m, 0..n>> \in StrictSubsetOrdering(Nat)
    BY <2>1 DEF StrictSubsetOrdering
  <2> QED BY <2>2, <1>3, <1>4
<1> QED BY <1>5

\* Min of the community modules is that element.
LEMMA MinOfNaturals ==
  ASSUME NEW S, S \subseteq Nat, S # {}
  PROVE  Min(S) \in S /\ \A m \in S : Min(S) <= m
BY LeastNatural DEF Min

\* What is left of a sequence longer than one is not empty.
LEMMA TailOfSeq ==
  ASSUME NEW S, NEW s \in Seq(S), Len(s) > 1
  PROVE  Tail(s) \in Seq(S) \ {<<>>}
<1>1. Tail(s) \in Seq(S) /\ Len(Tail(s)) > 0 OBVIOUS
<1>2. \A t \in Seq(S) : Len(t) > 0 => t # <<>> OBVIOUS
<1> QED BY <1>1, <1>2

\* Its head, and its tail, which names the others when none is named twice.
LEMMA HeadAndTail ==
  ASSUME NEW S, NEW s \in Seq(S), s # <<>>
  PROVE  /\ Head(s) \in S /\ Head(s) \in ToSet(s) /\ Tail(s) \in Seq(S) /\ ToSet(s) = {Head(s)} \cup ToSet(Tail(s))
         /\ IsInjective(s) => IsInjective(Tail(s)) /\ ToSet(Tail(s)) = ToSet(s) \ {Head(s)}
<1>1. /\ Len(s) \in Nat \ {0} /\ DOMAIN s = 1..Len(s) /\ Head(s) = s[1]
      /\ Tail(s) \in Seq(S) /\ DOMAIN Tail(s) = 1..(Len(s) - 1)
      /\ \A i \in 1..(Len(s) - 1) : Tail(s)[i] = s[i + 1]
  OBVIOUS
<1>2. ToSet(s) = {Head(s)} \cup ToSet(Tail(s))
  <2>1. ASSUME NEW i \in 1..Len(s) PROVE s[i] = Head(s) \/ s[i] \in ToSet(Tail(s))
    <3>1. CASE i # 1
      <4>1. i - 1 \in 1..(Len(s) - 1) /\ (i - 1) + 1 = i BY <1>1, <3>1
      <4>2. Tail(s)[i - 1] = s[i] BY <1>1, <4>1
      <4> QED BY <1>1, <4>1, <4>2 DEF ToSet
    <3> QED BY <1>1, <3>1
  <2>2. ASSUME NEW i \in 1..(Len(s) - 1) PROVE Tail(s)[i] \in ToSet(s)
    <3>1. i + 1 \in 1..Len(s) BY <1>1
    <3> QED BY <1>1, <3>1 DEF ToSet
  <2>3. 1 \in 1..Len(s) BY <1>1
  <2> QED BY <1>1, <2>1, <2>2, <2>3 DEF ToSet
<1>3. ASSUME IsInjective(s) PROVE IsInjective(Tail(s)) /\ Head(s) \notin ToSet(Tail(s))
  <2>1. \A i \in 1..(Len(s) - 1) : i + 1 \in 1..Len(s) /\ i + 1 # 1 BY <1>1
  <2> QED BY <1>1, <1>3, <2>1 DEF IsInjective, ToSet
<1>4. Head(s) \in S /\ Head(s) \in ToSet(s) BY <1>1, <1>2
<1> QED BY <1>1, <1>2, <1>3, <1>4

\* SetToSeq lists a finite set: every element, and each of them once.
LEMMA SetToSeqLists ==
  ASSUME NEW S, IsFiniteSet(S)
  PROVE  /\ SetToSeq(S) \in Seq(S) /\ IsInjective(SetToSeq(S))
         /\ \A x \in S : \E i \in DOMAIN SetToSeq(S) : SetToSeq(S)[i] = x
<1>1. PICK f \in [1..Cardinality(S) -> S] : IsInjective(f)
  BY FS_CardinalityType DEF ExistsBijection, Bijection, Injection, IsInjective
<1>2. SetToSeq(S) \in [1..Cardinality(S) -> S] /\ IsInjective(SetToSeq(S))
  BY <1>1 DEF SetToSeq
<1>3. Cardinality(S) \in Nat BY FS_CardinalityType
<1>4. SetToSeq(S) \in Seq(S) BY <1>2, <1>3
<1>5. SetToSeq(S) \in Injection(1..Cardinality(S), S) BY <1>2 DEF Injection, IsInjective
<1>6. IsFiniteSet(1..Cardinality(S)) /\ Cardinality(1..Cardinality(S)) = Cardinality(S)
  BY <1>3, FS_Interval
<1>7. SetToSeq(S) \in Surjection(1..Cardinality(S), S)
  BY <1>5, <1>6, FS_Injection
<1> QED BY <1>2, <1>4, <1>7 DEF Surjection

\* A sequence of elements of A is one of elements of every larger set.
LEMMA SeqOfSubset ==
  ASSUME NEW A, NEW B, A \subseteq B, NEW s \in Seq(A)
  PROVE  s \in Seq(B)
<1>1. Len(s) \in Nat /\ s = [i \in 1..Len(s) |-> s[i]] /\ \A i \in 1..Len(s) : s[i] \in B OBVIOUS
<1> QED BY <1>1

\* A sequence of one element.
LEMMA SeqOfOne ==
  ASSUME NEW A, NEW x \in A
  PROVE  <<x>> \in Seq(A) /\ ToSet(<<x>>) = {x} /\ Len(<<x>>) = 1
BY DEF ToSet

\* A concatenation has the elements of both sequences.
LEMMA ToSetConcat ==
  ASSUME NEW S, NEW a \in Seq(S), NEW b \in Seq(S)
  PROVE  a \o b \in Seq(S) /\ ToSet(a \o b) = ToSet(a) \cup ToSet(b)
<1> DEFINE c == a \o b
<1>1. /\ c \in Seq(S) /\ Len(a) \in Nat /\ Len(b) \in Nat
      /\ DOMAIN a = 1..Len(a) /\ DOMAIN b = 1..Len(b) /\ DOMAIN c = 1..(Len(a) + Len(b))
      /\ \A i \in 1..Len(a) : c[i] = a[i]
      /\ \A i \in (Len(a) + 1)..(Len(a) + Len(b)) : c[i] = b[i - Len(a)]
  OBVIOUS
<1> HIDE DEF c
<1>2. ASSUME NEW i \in DOMAIN c PROVE c[i] \in ToSet(a) \cup ToSet(b)
  <2>1. CASE i <= Len(a) BY <1>1, <1>2, <2>1 DEF ToSet
  <2>2. CASE ~(i <= Len(a))
    <3>1. i - Len(a) \in DOMAIN b /\ c[i] = b[i - Len(a)] BY <1>1, <1>2, <2>2
    <3> QED BY <3>1 DEF ToSet
  <2> QED BY <2>1, <2>2
<1>3. ASSUME NEW i \in DOMAIN a PROVE a[i] \in ToSet(c) BY <1>1, <1>3 DEF ToSet
<1>4. ASSUME NEW i \in DOMAIN b PROVE b[i] \in ToSet(c)
  <2> DEFINE k == Len(a) + i
  <2>1. k \in (Len(a) + 1)..(Len(a) + Len(b)) /\ k - Len(a) = i /\ k \in 1..(Len(a) + Len(b)) BY <1>1, <1>4
  <2> HIDE DEF k
  <2>2. c[k] = b[i] /\ k \in DOMAIN c BY <1>1, <2>1
  <2> QED BY <2>2 DEF ToSet
<1>5. ToSet(c) = ToSet(a) \cup ToSet(b) BY <1>2, <1>3, <1>4 DEF ToSet
<1> QED BY <1>1, <1>5 DEF c

\* The elements of the first n sequences.
Together(seqs, n) == UNION {ToSet(seqs[i]) : i \in 1..n}

\* f[n] is the concatenation of the first n sequences.
Flattens(seqs, f) == f = [i \in 1..Len(seqs) |-> IF i = 1 THEN seqs[i] ELSE f[i - 1] \o seqs[i]]

\* There is such a function: by the least n up to which there is none.
LEMMA FlattensExists ==
  ASSUME NEW S, NEW seqs \in Seq(Seq(S))
  PROVE  \E f : Flattens(seqs, f)
<1> DEFINE P(n, f) == \A i \in 1..n : f[i] = IF i = 1 THEN seqs[i] ELSE f[i - 1] \o seqs[i]
           Bad == {n \in 0..Len(seqs) : ~\E f \in [1..n -> Seq(S)] : P(n, f)}
<1>0. Len(seqs) \in Nat /\ \A i \in 1..Len(seqs) : seqs[i] \in Seq(S) OBVIOUS
<1>1. Bad = {}
  <2> SUFFICES ASSUME Bad # {} PROVE FALSE OBVIOUS
  <2>1. PICK n \in Bad : \A m \in Bad : n <= m
    <3>1. Bad \subseteq Nat BY <1>0
    <3> HIDE DEF Bad
    <3> QED BY <3>1, LeastNatural
  <2>2. n # 0
    <3>1. [i \in 1..0 |-> <<>>] \in [1..0 -> Seq(S)] OBVIOUS
    <3>2. P(0, [i \in 1..0 |-> <<>>]) OBVIOUS
    <3> QED BY <3>1, <3>2
  <2>3. n - 1 \in 0..Len(seqs) /\ n - 1 \notin Bad /\ n \in 1..Len(seqs)
    <3>1. n \in 0..Len(seqs) OBVIOUS
    <3>2. ~(n <= n - 1) BY <3>1
    <3> HIDE DEF Bad
    <3> QED BY <1>0, <2>1, <2>2, <3>1, <3>2
  <2>4. PICK f \in [1..(n - 1) -> Seq(S)] : P(n - 1, f) BY <2>3
  <2> DEFINE g == [i \in 1..n |-> IF i = n THEN (IF n = 1 THEN seqs[n] ELSE f[n - 1] \o seqs[n]) ELSE f[i]]
  <2>5. g \in [1..n -> Seq(S)]
    <3> SUFFICES ASSUME NEW i \in 1..n PROVE g[i] \in Seq(S) OBVIOUS
    <3>1. CASE i = n /\ n = 1 BY <3>1, <1>0, <2>3
    <3>2. CASE i = n /\ n # 1
      <4>1. n - 1 \in 1..(n - 1) BY <3>2, <2>3
      <4> QED BY <3>2, <4>1, <1>0, <2>3
    <3>3. CASE i # n
      <4>1. i \in 1..(n - 1) BY <3>3, <2>3
      <4> QED BY <3>3, <4>1
    <3> QED BY <3>1, <3>2, <3>3
  <2>6. P(n, g)
    <3> SUFFICES ASSUME NEW i \in 1..n PROVE g[i] = IF i = 1 THEN seqs[i] ELSE g[i - 1] \o seqs[i] OBVIOUS
    <3>1. CASE i = n
      <4>1. n = 1 \/ (n - 1 \in 1..n /\ n - 1 # n) BY <2>3
      <4> QED BY <3>1, <4>1
    <3>2. CASE i # n
      <4>1. i \in 1..(n - 1) /\ (i = 1 \/ (i - 1 \in 1..n /\ i - 1 # n)) BY <3>2, <2>3
      <4>2. g[i] = f[i] /\ (i # 1 => g[i - 1] = f[i - 1]) BY <3>2, <4>1
      <4> HIDE DEF g
      <4> QED BY <2>4, <4>1, <4>2
    <3> QED BY <3>1, <3>2
  <2>7. n \notin Bad
    <3> HIDE DEF g, P
    <3> QED BY <2>5, <2>6
  <2> HIDE DEF Bad
  <2> QED BY <2>1, <2>7
<1>2. Len(seqs) \notin Bad BY <1>1
<1>3. PICK f \in [1..Len(seqs) -> Seq(S)] : P(Len(seqs), f) BY <1>0, <1>2
<1>4. Flattens(seqs, f) BY <1>3 DEF Flattens
<1> QED BY <1>4

\* It gathers their elements, by the least n for which it does not.
LEMMA FlattensElements ==
  ASSUME NEW S, NEW seqs \in Seq(Seq(S)), NEW f, Flattens(seqs, f), NEW n \in 1..Len(seqs)
  PROVE  f[n] \in Seq(S) /\ ToSet(f[n]) = Together(seqs, n)
<1> DEFINE Q(k) == f[k] \in Seq(S) /\ ToSet(f[k]) = UNION {ToSet(seqs[i]) : i \in 1..k}
           Bad == {k \in 1..Len(seqs) : ~Q(k)}
<1>0. Len(seqs) \in Nat /\ \A i \in 1..Len(seqs) : seqs[i] \in Seq(S) OBVIOUS
<1>a. \A i \in 1..Len(seqs) : f[i] = IF i = 1 THEN seqs[i] ELSE f[i - 1] \o seqs[i] BY DEF Flattens
<1>1. Bad = {}
  <2> SUFFICES ASSUME Bad # {} PROVE FALSE OBVIOUS
  <2>1. PICK k \in Bad : \A m \in Bad : k <= m
    <3>1. Bad \subseteq Nat BY <1>0
    <3> HIDE DEF Bad
    <3> QED BY <3>1, LeastNatural
  <2>2. k \in 1..Len(seqs) OBVIOUS
  <2>3. CASE k = 1
    <3>1. f[k] = seqs[1] BY <1>a, <2>2, <2>3
    <3>2. 1..k = {1} BY <2>3
    <3>3. Q(k) BY <1>0, <2>2, <2>3, <3>1, <3>2
    <3> QED BY <3>3
  <2>4. CASE k # 1
    <3>1. k - 1 \in 1..Len(seqs) /\ ~(k <= k - 1) BY <2>2, <2>4
    <3>2. Q(k - 1)
      <4> HIDE DEF Q
      <4>1. k - 1 \notin Bad 
        <5> HIDE DEF Bad
        <5> QED BY <3>1, <2>1
      <4> QED BY <3>1, <4>1
    <3>3. f[k] = f[k - 1] \o seqs[k] BY <1>a, <2>2, <2>4
    <3>4. f[k] \in Seq(S) /\ ToSet(f[k]) = ToSet(f[k - 1]) \cup ToSet(seqs[k])
      <4>1. f[k - 1] \in Seq(S) /\ seqs[k] \in Seq(S) BY <1>0, <2>2, <3>2
      <4> QED BY <3>3, <4>1, ToSetConcat
    <3>5. 1..k = 1..(k - 1) \cup {k} BY <2>2
    <3>6. Q(k) BY <3>2, <3>4, <3>5
    <3> QED BY <3>6
  <2> QED BY <2>3, <2>4
<1>2. n \notin Bad BY <1>1
<1> QED BY <1>2 DEF Together

\* FlattenSeq has the elements of its sequences.
LEMMA FlattenSeqElements ==
  ASSUME NEW S, NEW seqs \in Seq(Seq(S))
  PROVE  /\ FlattenSeq(seqs) \in Seq(S)
         /\ ToSet(FlattenSeq(seqs)) = UNION {ToSet(seqs[i]) : i \in DOMAIN seqs}
<1>0. Len(seqs) \in Nat /\ DOMAIN seqs = 1..Len(seqs) OBVIOUS
<1>1. CASE Len(seqs) = 0
  <2>1. seqs = <<>> BY <1>1
  <2>2. FlattenSeq(seqs) = <<>> BY <1>1, <2>1 DEF FlattenSeq
  <2>3. <<>> \in Seq(S) /\ ToSet(<<>>) = {} /\ DOMAIN seqs = {} BY <1>0, <1>1 DEF ToSet
  <2> QED BY <2>2, <2>3
<1>2. CASE Len(seqs) # 0
  <2> DEFINE h == CHOOSE f : Flattens(seqs, f)
  <2>1. Flattens(seqs, h) BY FlattensExists
  <2>2. FlattenSeq(seqs) = h[Len(seqs)] BY <1>2 DEF FlattenSeq, Flattens
  <2> HIDE DEF h
  <2>3. Len(seqs) \in 1..Len(seqs) BY <1>0, <1>2
  <2>4. h[Len(seqs)] \in Seq(S) /\ ToSet(h[Len(seqs)]) = Together(seqs, Len(seqs))
    BY <2>1, <2>3, FlattensElements
  <2> QED BY <1>0, <2>2, <2>4 DEF Together
<1> QED BY <1>1, <1>2

\* It is in every set of sequences that concatenation does not leave.
LEMMA FlattenSeqClosed ==
  ASSUME NEW S, NEW B \in SUBSET Seq(S), <<>> \in B, \A s, t \in B : s \o t \in B, NEW seqs \in Seq(B)
  PROVE  FlattenSeq(seqs) \in B
<1>0. Len(seqs) \in Nat /\ \A i \in 1..Len(seqs) : seqs[i] \in B OBVIOUS
<1>1. seqs \in Seq(Seq(S)) BY SeqOfSubset
<1> DEFINE f == CHOOSE g : Flattens(seqs, g)
<1>2. Flattens(seqs, f) BY <1>1, FlattensExists
<1>a. Len(seqs) # 0 => FlattenSeq(seqs) = f[Len(seqs)] BY DEF FlattenSeq, Flattens
<1> HIDE DEF f
<1> DEFINE Bad == {k \in 1..Len(seqs) : f[k] \notin B}
<1>3. \A i \in 1..Len(seqs) : f[i] = IF i = 1 THEN seqs[i] ELSE f[i - 1] \o seqs[i] BY <1>2 DEF Flattens
<1>4. Bad = {}
  <2> SUFFICES ASSUME Bad # {} PROVE FALSE OBVIOUS
  <2>1. PICK k \in Bad : \A m \in Bad : k <= m
    <3>1. Bad \subseteq Nat BY <1>0
    <3> HIDE DEF Bad
    <3> QED BY <3>1, LeastNatural
  <2>2. k \in 1..Len(seqs) /\ f[k] \notin B OBVIOUS
  <2>3. k # 1 BY <1>0, <1>3, <2>2
  <2>4. k - 1 \in 1..Len(seqs) /\ ~(k <= k - 1) BY <2>2, <2>3
  <2>5. k - 1 \notin Bad
    <3> HIDE DEF Bad
    <3> QED BY <2>1, <2>4
  <2>6. f[k - 1] \in B BY <2>4, <2>5
  <2> QED BY <1>0, <1>3, <2>2, <2>3, <2>6
<1>5. CASE Len(seqs) = 0
  <2>1. FlattenSeq(seqs) = seqs /\ seqs = <<>> BY <1>5 DEF FlattenSeq
  <2> QED BY <2>1
<1>6. CASE Len(seqs) # 0
  <2>1. Len(seqs) \in 1..Len(seqs) /\ Len(seqs) \notin Bad BY <1>0, <1>4, <1>6
  <2> QED BY <1>a, <1>6, <2>1
<1> QED BY <1>5, <1>6
\* Max of the community modules, of a set of naturals with an upper bound.
LEMMA MaxOfBounded ==
  ASSUME NEW n \in Nat, NEW S, S \subseteq 0..n, S # {}
  PROVE  Max(S) \in S /\ \A m \in S : m <= Max(S)
<1> DEFINE T == {n - x : x \in S}
<1>1. T \subseteq Nat /\ T # {}
  <2>1. \A x \in S : x \in 0..n /\ n - x \in Nat OBVIOUS
  <2> QED BY <2>1
<1>2. PICK t \in T : \A u \in T : t <= u
  <2> HIDE DEF T
  <2> QED BY <1>1, LeastNatural
<1>3. PICK x \in S : t = n - x OBVIOUS
<1>4. \A m \in S : x >= m
  <2> SUFFICES ASSUME NEW m \in S PROVE x >= m OBVIOUS
  <2>1. n - x <= n - m BY <1>2, <1>3
  <2>2. x \in 0..n /\ m \in 0..n OBVIOUS
  <2> QED BY <2>1, <2>2
<1>5. Max(S) \in S /\ \A m \in S : Max(S) >= m BY <1>4 DEF Max
<1> QED BY <1>5

\* Ascending lists a finite set of naturals, each once, from the least on: the number of
\* elements below is different for each of them, so it takes every value up to their number.
LEMMA AscendingLists ==
  ASSUME NEW S, S \subseteq Nat, IsFiniteSet(S)
  PROVE  /\ Ascending(S) \in Seq(S) /\ Len(Ascending(S)) = Cardinality(S) /\ ToSet(Ascending(S)) = S
         /\ \A i, j \in 1..Len(Ascending(S)) : i < j => Ascending(S)[i] < Ascending(S)[j]
<1> DEFINE n == Cardinality(S)
           Below(x) == {y \in S : y < x}
           rank == [x \in S |-> Cardinality(Below(x)) + 1]
<1>0. n \in Nat BY FS_CardinalityType
<1>1. \A x \in S : IsFiniteSet(Below(x)) /\ Cardinality(Below(x)) \in Nat
  <2> SUFFICES ASSUME NEW x \in S PROVE IsFiniteSet(Below(x)) /\ Cardinality(Below(x)) \in Nat OBVIOUS
  <2>1. Below(x) \in SUBSET S OBVIOUS
  <2> HIDE DEF Below
  <2> QED BY <2>1, FS_Subset, FS_CardinalityType
<1>2. ASSUME NEW x \in S PROVE Cardinality(Below(x)) + 1 <= n
  <2>1. Below(x) \in SUBSET (S \ {x}) /\ IsFiniteSet(S \ {x}) /\ Cardinality(S \ {x}) = n - 1
    <3>1. Below(x) \in SUBSET (S \ {x}) OBVIOUS
    <3> HIDE DEF Below
    <3> QED BY <3>1, FS_RemoveElement
  <2>2. Cardinality(Below(x)) <= Cardinality(S \ {x})
    <3> HIDE DEF Below
    <3> QED BY <2>1, FS_Subset
  <2> HIDE DEF Below, n
  <2> QED BY <1>0, <1>1, <2>1, <2>2
<1>3. ASSUME NEW x \in S, NEW z \in S, x < z PROVE Cardinality(Below(x)) < Cardinality(Below(z))
  <2>0. x \in Nat /\ z \in Nat /\ \A y \in S : y \in Nat OBVIOUS
  <2>a. \A y \in S : y < x => y < z BY <1>3, <2>0
  <2>b. x \in Below(z) BY <1>3
  <2>c. Below(x) \subseteq Below(z) BY <2>a
  <2>d. x \notin Below(x) BY <2>0
  <2>1. Below(x) \cup {x} \in SUBSET Below(z) /\ x \notin Below(x)
    <3> HIDE DEF Below
    <3> QED BY <2>b, <2>c, <2>d
  <2> HIDE DEF Below
  <2>2. Cardinality(Below(x) \cup {x}) = Cardinality(Below(x)) + 1 BY <1>1, <2>1, FS_AddElement
  <2>3. Cardinality(Below(x) \cup {x}) <= Cardinality(Below(z)) BY <1>1, <2>1, FS_Subset
  <2> QED BY <1>1, <2>2, <2>3
<1>4. \A x, z \in S : rank[x] = rank[z] => x = z
  <2> SUFFICES ASSUME NEW x \in S, NEW z \in S, rank[x] = rank[z] PROVE x = z OBVIOUS
  <2> HIDE DEF Below
  <2>1. Cardinality(Below(x)) = Cardinality(Below(z)) BY <1>1
  <2>2. x \in Nat /\ z \in Nat OBVIOUS
  <2>3. ~(x < z) /\ ~(z < x) BY <1>1, <1>3, <2>1
  <2> QED BY <2>2, <2>3
<1>5. rank \in [S -> 1..n]
  <2> HIDE DEF Below, n
  <2> QED BY <1>0, <1>1, <1>2
<1>6. \A i \in 1..n : \E x \in S : rank[x] = i
  <2>1. IsFiniteSet(1..n) /\ Cardinality(1..n) = n
    <3> HIDE DEF n
    <3> QED BY <1>0, FS_Interval
  <2>2. rank \in Injection(S, 1..n)
    <3> HIDE DEF rank
    <3> QED BY <1>4, <1>5 DEF Injection, IsInjective
  <2>3. rank \in Surjection(S, 1..n)
    <3> HIDE DEF rank
    <3> QED BY <2>1, <2>2, FS_Injection
  <2> HIDE DEF rank
  <2> QED BY <2>3 DEF Surjection
<1> DEFINE a == Ascending(S)
<1>7. a = [i \in 1..n |-> CHOOSE x \in S : Cardinality(Below(x)) = i - 1] BY DEF Ascending
<1>8. ASSUME NEW i \in 1..n PROVE a[i] \in S /\ rank[a[i]] = i
  <2>1. PICK x \in S : rank[x] = i BY <1>6
  <2>2. Cardinality(Below(x)) = i - 1
    <3>1. Cardinality(Below(x)) \in Nat BY <1>1
    <3>2. rank[x] = Cardinality(Below(x)) + 1 OBVIOUS
    <3> HIDE DEF rank, Below
    <3> QED BY <1>0, <2>1, <3>1, <3>2
  <2> HIDE DEF Below, a, n
  <2>3. a[i] \in S /\ Cardinality(Below(a[i])) = i - 1 BY <1>7, <2>2
  <2> QED BY <1>0, <2>3
<1>9. a \in Seq(S) /\ Len(a) = n /\ DOMAIN a = 1..n
  <2> HIDE DEF a, rank, n, Below
  <2>1. a = [i \in 1..n |-> a[i]] BY <1>7
  <2> QED BY <1>0, <1>8, <2>1
<1>10. ToSet(a) = S
  <2>1. ASSUME NEW x \in S PROVE \E i \in 1..n : a[i] = x
    <3>1. rank[x] \in 1..n BY <1>5
    <3> HIDE DEF rank, a, n
    <3>2. a[rank[x]] \in S /\ rank[a[rank[x]]] = rank[x] BY <1>8, <3>1
    <3> QED BY <1>4, <3>1, <3>2
  <2> HIDE DEF a, n, rank
  <2>2. ToSet(a) = {a[i] : i \in 1..n} BY <1>9 DEF ToSet
  <2>3. \A i \in 1..n : a[i] \in S BY <1>8
  <2> QED BY <2>1, <2>2, <2>3
<1>11. ASSUME NEW i \in 1..n, NEW j \in 1..n, i < j PROVE a[i] < a[j]
  <2>1. a[i] \in S /\ a[j] \in S /\ rank[a[i]] = i /\ rank[a[j]] = j BY <1>8
  <2>2. Cardinality(Below(a[i])) \in Nat /\ Cardinality(Below(a[j])) \in Nat /\ rank[a[i]] = Cardinality(Below(a[i])) + 1
        /\ rank[a[j]] = Cardinality(Below(a[j])) + 1
    BY <1>1, <2>1
  <2>3. a[i] \in Nat /\ a[j] \in Nat BY <2>1
  <2> HIDE DEF rank, Below, a, n
  <2>a. a[j] < a[i] => Cardinality(Below(a[j])) < Cardinality(Below(a[i])) BY <1>3, <2>1
  <2>4. ~(a[j] < a[i]) BY <1>0, <1>11, <2>1, <2>2, <2>a
  <2>5. a[i] # a[j] BY <1>0, <1>11, <2>1
  <2> QED BY <2>3, <2>4, <2>5
<1> HIDE DEF a, n, rank, Below
<1>12. /\ a \in Seq(S) /\ Len(a) = n /\ ToSet(a) = S
       /\ \A i, j \in 1..Len(a) : i < j => a[i] < a[j]
  BY <1>9, <1>10, <1>11
<1> QED BY <1>12 DEF a, n
\* Having picks the elements of s that are in S.
LEMMA HavingElements ==
  ASSUME NEW X, NEW s \in Seq(X), NEW S
  PROVE  /\ Having(s, S) \in Seq(X \cap S)
         /\ ToSet(Having(s, S)) = ToSet(s) \cap S
<1> DEFINE parts == [i \in 1..Len(s) |-> IF s[i] \in S THEN <<s[i]>> ELSE <<>>]
<1>1. parts \in Seq(Seq(X \cap S))
  <2>1. Len(s) \in Nat /\ \A i \in 1..Len(s) : s[i] \in X OBVIOUS
  <2>2. ASSUME NEW i \in 1..Len(s) PROVE parts[i] \in Seq(X \cap S)
    <3>1. CASE s[i] \in S
      <4>1. s[i] \in X \cap S BY <2>1, <3>1
      <4> QED BY <3>1, <4>1, SeqOfOne
    <3>2. CASE s[i] \notin S BY <3>2
    <3> QED BY <3>1, <3>2
  <2> QED BY <2>1, <2>2
<1>2. DOMAIN parts = 1..Len(s) /\ DOMAIN s = 1..Len(s) OBVIOUS
<1>3. \A i \in 1..Len(s) : ToSet(parts[i]) = {s[i]} \cap S
  <2> SUFFICES ASSUME NEW i \in 1..Len(s) PROVE ToSet(parts[i]) = {s[i]} \cap S OBVIOUS
  <2>1. CASE s[i] \in S
    <3>1. parts[i] = <<s[i]>> BY <2>1
    <3> QED BY <2>1, <3>1 DEF ToSet
  <2>2. CASE s[i] \notin S
    <3>1. parts[i] = <<>> BY <2>2
    <3> QED BY <2>2, <3>1 DEF ToSet
  <2> QED BY <2>1, <2>2
<1>4. Having(s, S) = FlattenSeq(parts) BY DEF Having
<1> HIDE DEF parts
<1>5. Having(s, S) \in Seq(X \cap S) /\ ToSet(Having(s, S)) = UNION {ToSet(parts[i]) : i \in DOMAIN parts}
  BY <1>1, <1>4, FlattenSeqElements
<1>6. UNION {ToSet(parts[i]) : i \in DOMAIN parts} = ToSet(s) \cap S BY <1>2, <1>3 DEF ToSet
<1> QED BY <1>5, <1>6

\* So what is picked from elements of X are elements of X.
LEMMA HavingAre ==
  ASSUME NEW X, NEW s \in Seq(X), NEW S
  PROVE  Having(s, S) \in Seq(X)
<1>1. Having(s, S) \in Seq(X \cap S) BY HavingElements
<1> QED BY <1>1, SeqOfSubset

\* An element added at the end ...
LEMMA OneMore ==
  ASSUME NEW S, NEW s \in Seq(S), NEW x \in S
  PROVE  /\ Append(s, x) \in Seq(S) /\ Len(s) + 1 = Len(Append(s, x)) /\ Len(s) + 1 \in DOMAIN Append(s, x)
         /\ Append(s, x)[Len(s) + 1] = x /\ Len(s) + 1 \in Nat
         /\ \A i \in DOMAIN s : i \in DOMAIN Append(s, x) /\ Append(s, x)[i] = s[i]
OBVIOUS

\* ... and one replaced.
LEMMA OneChanged ==
  ASSUME NEW S, NEW s \in Seq(S), NEW i \in DOMAIN s, NEW x \in S
  PROVE  /\ [s EXCEPT ![i] = x] \in Seq(S) /\ DOMAIN [s EXCEPT ![i] = x] = DOMAIN s
         /\ \A j \in DOMAIN s : [s EXCEPT ![i] = x][j] = IF j = i THEN x ELSE s[j]
OBVIOUS

\* A sequence is the function of its places.
LEMMA SeqIsItself == ASSUME NEW S, NEW s \in Seq(S) PROVE s = [i \in 1..Len(s) |-> s[i]]
OBVIOUS

\* Where the elements of a concatenation are.
LEMMA ConcatIs ==
  ASSUME NEW S, NEW a \in Seq(S), NEW b \in Seq(S)
  PROVE  LET c == a \o b
         IN /\ c \in Seq(S) /\ Len(c) = Len(a) + Len(b) /\ DOMAIN c = 1..(Len(a) + Len(b))
            /\ \A i \in 1..(Len(a) + Len(b)) : c[i] = IF i <= Len(a) THEN a[i] ELSE b[i - Len(a)]
OBVIOUS
=============================================================================

---------------------------- MODULE DeltaLog_proof ----------------------------
(***************************************************************************)
(* Theorems about DeltaLog, for every log, window, page size and number of *)
(* versions.                                                               *)
(***************************************************************************)
EXTENDS DeltaLog, WellFoundedInduction, FiniteSetTheorems, SequenceTheorems, TLAPS

-----------------------------------------------------------------------------
(* Least and greatest elements: how the lemmas below do induction.         *)

(* A non-empty set of natural numbers has a least element. *)
LEMMA LeastNat ==
    ASSUME NEW T, T \subseteq Nat, T # {}
    PROVE  \E n \in T : \A m \in T : n <= m
<1>1. IsWellFoundedOn(OpToRel(<, Nat), Nat)
  BY Zenon, NatLessThanWellFounded
<1>2. PICK n \in T : \A m \in T : ~(<<m, n>> \in OpToRel(<, Nat))
  BY Zenon, <1>1, WFMin
<1>3. \A m, k \in Nat : m < k => <<m, k>> \in OpToRel(<, Nat)
  BY Zenon DEF OpToRel
<1>4. \A m \in T : ~(m < n)
  BY Zenon, <1>2, <1>3
<1>5. n \in Nat
  OBVIOUS
<1> QED
  BY <1>4, <1>5

(* A bounded one has a greatest. *)
LEMMA GreatestNat ==
    ASSUME NEW T, T \subseteq Nat, T # {}, NEW b \in Nat, \A m \in T : m <= b
    PROVE  \E n \in T : \A m \in T : m <= n
<1> DEFINE D == {k \in Nat : \E m \in T : k = b - m}
<1>1. D # {}
  <2>1. PICK m : m \in T
    OBVIOUS
  <2>2. b - m \in Nat
    BY <2>1
  <2> QED
    BY <2>1, <2>2
<1>2. PICK k \in D : \A d \in D : k <= d
  <2>1. D \subseteq Nat
    OBVIOUS
  <2> HIDE DEF D
  <2> QED
    BY <1>1, <2>1, LeastNat
<1>3. PICK n \in T : k = b - n
  BY <1>2
<1>4. ASSUME NEW m \in T PROVE m <= n
  <2>1. b - m \in Nat
    OBVIOUS
  <2>2. b - m \in D
    BY <2>1
  <2>3. k <= b - m
    BY <1>2, <2>2
  <2> QED
    BY <1>3, <2>3, <2>1
<1> QED
  BY <1>4

(* What Min and Max choose. *)
LEMMA MinOfPair ==
    ASSUME NEW a \in Nat, NEW b \in Nat
    PROVE  Min({a, b}) = IF a <= b THEN a ELSE b
<1> DEFINE m == IF a <= b THEN a ELSE b
<1>1. m \in {a, b} /\ \A y \in {a, b} : m <= y
  OBVIOUS
<1>2. \A x \in {a, b} : (\A y \in {a, b} : x <= y) => x = m
  OBVIOUS
<1> QED
  BY <1>1, <1>2 DEF Min

LEMMA MaxOfBounded ==
    ASSUME NEW T, T \subseteq Nat, T # {}, NEW b \in Nat, \A m \in T : m <= b
    PROVE  /\ Max(T) \in T
           /\ \A m \in T : m <= Max(T)
<1>1. PICK n \in T : \A m \in T : m <= n
  BY GreatestNat
<1>2. \A m \in T : n >= m
  BY <1>1
<1>3. Max(T) \in T /\ \A m \in T : Max(T) >= m
  BY <1>2 DEF Max
<1> QED
  BY <1>3

(* A set without a gap is an interval. *)
LEMMA NoGapIsStretch ==
    ASSUME NEW vs, vs \subseteq Versions, ~HasGap(vs),
           NEW u \in vs, NEW w \in vs, NEW x \in Versions, u < x, x < w
    PROVE  x \in vs
<1> SUFFICES ASSUME x \notin vs PROVE FALSE
  OBVIOUS
<1>0. vs \subseteq Nat /\ x \in Nat
  BY DeltaLogAssumption DEF Versions
<1>1. PICK below \in {v \in vs : v < x} : \A v \in {y \in vs : y < x} : v <= below
  <2>1. {v \in vs : v < x} \subseteq Nat /\ {v \in vs : v < x} # {}
    BY <1>0
  <2>2. \A v \in {y \in vs : y < x} : v <= x
    BY <1>0
  <2> QED
    BY <1>0, <2>1, <2>2, GreatestNat
<1>2. PICK above \in {v \in vs : x < v} : \A v \in {y \in vs : x < y} : above <= v
  <2>1. {v \in vs : x < v} \subseteq Nat /\ {v \in vs : x < v} # {}
    BY <1>0
  <2> QED
    BY <2>1, LeastNat
<1>3. below + 1 < above
  BY <1>0, <1>1, <1>2
<1>4. \A y \in vs : y <= below \/ y >= above
  BY <1>0, <1>1, <1>2
<1> QED
  BY <1>3, <1>4 DEF HasGap

-----------------------------------------------------------------------------
(* The versions in walk order.                                             *)

VersionsAreFinite == \A vs \in SUBSET Versions : IsFiniteSet(vs) /\ Cardinality(vs) \in Nat

LEMMA FiniteVersions == VersionsAreFinite
<1>1. IsFiniteSet(Versions)
  BY FS_Interval, DeltaLogAssumption DEF Versions
<1> QED
  BY <1>1, FS_Subset, FS_CardinalityType DEF VersionsAreFinite

Ascends(s) == \A i, j \in DOMAIN s : i < j => s[i] < s[j]

(* Any set of versions can be put in ascending order: by induction on its   *)
(* size, the newest one last.                                              *)
LEMMA AscendingExists ==
    \A vs \in SUBSET Versions : \E s \in [1..Cardinality(vs) -> vs] : Ascends(s)
<1> DEFINE Sortable(vs) == \E s \in [1..Cardinality(vs) -> vs] : Ascends(s)
           Bad == {n \in Nat : \E vs \in SUBSET Versions : Cardinality(vs) = n /\ ~Sortable(vs)}
<1> SUFFICES ASSUME Bad # {} PROVE FALSE
  BY FiniteVersions DEF VersionsAreFinite
<1>1. PICK n \in Bad : \A m \in Bad : n <= m
  <2>1. Bad \subseteq Nat
    OBVIOUS
  <2> HIDE DEF Bad
  <2> QED
    BY <2>1, LeastNat
<1>2. PICK vs \in SUBSET Versions : Cardinality(vs) = n /\ ~Sortable(vs)
  BY <1>1
<1>3. n \in Nat /\ Versions \subseteq Nat /\ MaxVersion \in Nat
  BY DeltaLogAssumption DEF Versions
<1>4. vs # {}
  <2> SUFFICES ASSUME vs = {} PROVE FALSE
    OBVIOUS
  <2>1. Cardinality(vs) = 0
    BY FS_EmptySet
  <2>2. [i \in 1..0 |-> i] \in [1..Cardinality(vs) -> vs]
    BY <2>1
  <2>3. Ascends([i \in 1..0 |-> i])
    BY DEF Ascends
  <2> QED
    BY <1>2, <2>2, <2>3
<1>5. PICK top \in vs : \A v \in vs : v <= top
  <2>1. vs \subseteq Nat /\ \A v \in vs : v <= MaxVersion
    BY <1>3 DEF Versions
  <2> QED
    BY <1>3, <1>4, <2>1, GreatestNat
<1> DEFINE rest == vs \ {top}
<1>6. Cardinality(rest) = n - 1 /\ n - 1 \in Nat
  <2>1. Cardinality(rest) = n - 1
    BY <1>2, FiniteVersions, FS_RemoveElement DEF VersionsAreFinite
  <2>2. Cardinality(rest) \in Nat
    BY FiniteVersions DEF VersionsAreFinite
  <2> QED
    BY <2>1, <2>2
<1>7. PICK s \in [1..n - 1 -> rest] : \A i, j \in 1..n - 1 : i < j => s[i] < s[j]
  <2>1. n - 1 \notin Bad
    BY <1>1, <1>3
  <2>2. Sortable(rest)
    BY <1>6, <2>1
  <2> QED
    BY <1>6, <2>2 DEF Ascends
<1> DEFINE t == [i \in 1..n |-> IF i = n THEN top ELSE s[i]]
<1>8. t \in [1..Cardinality(vs) -> vs]
  <2>1. ASSUME NEW i \in 1..n PROVE t[i] \in vs
    <3>1. i # n => i \in 1..n - 1
      BY <1>3
    <3> QED
      BY <1>7, <3>1
  <2>2. t \in [1..n -> vs]
    BY <2>1
  <2> QED
    BY <1>2, <2>2
<1>9. Ascends(t)
  <2> SUFFICES ASSUME NEW i \in 1..n, NEW j \in 1..n, i < j PROVE t[i] < t[j]
    BY DEF Ascends
  <2>0. i \in 1..n - 1
    BY <1>3
  <2>1. t[i] = s[i] /\ s[i] \in rest
    BY <1>3, <1>7, <2>0
  <2>2. CASE j = n
    <3>1. s[i] <= top /\ s[i] # top
      BY <1>5, <2>1
    <3>2. s[i] \in Nat /\ top \in Nat
      BY <1>3, <2>1
    <3> QED
      BY <2>1, <2>2, <3>1, <3>2
  <2>3. CASE j # n
    <3>1. j \in 1..n - 1
      BY <1>3, <2>3
    <3>2. t[j] = s[j] /\ s[i] < s[j]
      BY <1>7, <2>0, <2>3, <3>1
    <3> QED
      BY <2>1, <3>2
  <2> QED
    BY <2>2, <2>3
<1> QED
  BY <1>2, <1>8, <1>9

(* As many different elements as a finite set has are all it has. *)
LEMMA InjectiveIsOnto ==
    ASSUME NEW n \in Nat, NEW vs, IsFiniteSet(vs), Cardinality(vs) = n,
           NEW s \in [1..n -> vs], \A i, j \in 1..n : i # j => s[i] # s[j]
    PROVE  \A v \in vs : \E i \in 1..n : s[i] = v
<1>1. IsFiniteSet(1..n) /\ Cardinality(1..n) = n
  BY FS_Interval
<1>2. s \in Injection(1..n, vs)
  BY DEF Injection, IsInjective
<1>3. s \in Surjection(1..n, vs)
  BY <1>1, <1>2, FS_Injection
<1> QED
  BY <1>3 DEF Surjection

(* What OldestFirst chooses names each of the versions, once, in order. *)
LEMMA OldestFirstFacts ==
    ASSUME NEW vs \in SUBSET Versions
    PROVE  /\ OldestFirst(vs) \in Seq(Versions)
           /\ Len(OldestFirst(vs)) = Cardinality(vs)
           /\ \A i, j \in 1..Len(OldestFirst(vs)) : i < j => OldestFirst(vs)[i] < OldestFirst(vs)[j]
           /\ {OldestFirst(vs)[i] : i \in 1..Len(OldestFirst(vs))} = vs
<1> DEFINE s == OldestFirst(vs)
           n == Cardinality(vs)
<1>1. n \in Nat /\ IsFiniteSet(vs) /\ Versions \subseteq Nat
  BY FiniteVersions, DeltaLogAssumption DEF VersionsAreFinite, Versions
<1>2. s \in [1..n -> vs] /\ \A i, j \in DOMAIN s : i < j => s[i] < s[j]
  BY AscendingExists DEF OldestFirst, Ascends
<1> HIDE DEF s
<1>3. s \in Seq(Versions) /\ Len(s) = n
  <2>1. s \in [1..n -> Versions]
    BY <1>2
  <2> QED
    BY <1>1, <2>1
<1>4. \A i, j \in 1..n : i # j => s[i] # s[j]
  <2> SUFFICES ASSUME NEW i \in 1..n, NEW j \in 1..n, i # j PROVE s[i] # s[j]
    OBVIOUS
  <2>1. s[i] \in Nat /\ s[j] \in Nat
    BY <1>1, <1>2
  <2>2. i < j \/ j < i
    OBVIOUS
  <2>3. i \in DOMAIN s /\ j \in DOMAIN s
    BY <1>2
  <2> QED
    BY <1>2, <2>1, <2>2, <2>3
<1>5. \A v \in vs : \E i \in 1..n : s[i] = v
  <2> HIDE DEF n
  <2> QED
    BY <1>1, <1>2, <1>4, InjectiveIsOnto DEF n
<1> QED
  BY <1>2, <1>3, <1>5 DEF s

-----------------------------------------------------------------------------
(* FlattenSeq: the answers of a batch, one after the other.                *)

(* The recursive function of FlattenSeq has the values its definition says: *)
(* by induction on the number of sequences.                                *)
LEMMA FlattenIsConcat ==
    ASSUME NEW S, NEW seqs \in Seq(Seq(S)), Len(seqs) # 0
    PROVE  \E f \in [1..Len(seqs) -> Seq(S)] :
              /\ f[1] = seqs[1]
              /\ \A i \in 2..Len(seqs) : f[i] = f[i - 1] \o seqs[i]
              /\ FlattenSeq(seqs) = f[Len(seqs)]
<1> DEFINE n == Len(seqs)
           Step(g, i) == IF i = 1 THEN seqs[i] ELSE g[i - 1] \o seqs[i]
           Defined(k) == \E g \in [1..k -> Seq(S)] : \A i \in 1..k : g[i] = Step(g, i)
           Bad == {k \in Nat : k \in 1..n /\ ~Defined(k)}
<1>1. n \in Nat \ {0} /\ \A i \in 1..n : seqs[i] \in Seq(S)
  OBVIOUS
<1>2. Bad = {}
  <2> SUFFICES ASSUME Bad # {} PROVE FALSE
    OBVIOUS
  <2>1. PICK k \in Bad : \A m \in Bad : k <= m
    <3>1. Bad \subseteq Nat
      OBVIOUS
    <3> HIDE DEF Bad
    <3> QED
      BY <3>1, LeastNat
  <2>2. k \in 1..n /\ k \in Nat /\ ~Defined(k)
    BY <2>1
  <2>3. k # 1
    <3> SUFFICES ASSUME k = 1 PROVE FALSE
      OBVIOUS
    <3>1. [i \in 1..1 |-> seqs[1]] \in [1..1 -> Seq(S)]
      BY <1>1
    <3>2. \A i \in 1..1 : [j \in 1..1 |-> seqs[1]][i] = Step([j \in 1..1 |-> seqs[1]], i)
      OBVIOUS
    <3> QED
      BY <2>2, <3>1, <3>2
  <2>4. PICK g \in [1..k - 1 -> Seq(S)] : \A i \in 1..k - 1 : g[i] = Step(g, i)
    <3>1. k - 1 \in Nat /\ k - 1 \in 1..n /\ ~(k <= k - 1)
      BY <1>1, <2>2, <2>3
    <3>2. k - 1 \notin Bad
      BY <2>1, <3>1
    <3> QED
      BY <3>1, <3>2
  <2> DEFINE h == [i \in 1..k |-> IF i = k THEN g[k - 1] \o seqs[k] ELSE g[i]]
  <2>5. h \in [1..k -> Seq(S)]
    <3>1. g[k - 1] \in Seq(S) /\ seqs[k] \in Seq(S)
      BY <1>1, <2>2, <2>3, <2>4
    <3>2. g[k - 1] \o seqs[k] \in Seq(S)
      BY <3>1
    <3>3. ASSUME NEW i \in 1..k PROVE h[i] \in Seq(S)
      <4>1. i # k => i \in 1..k - 1
        BY <2>2
      <4> QED
        BY <2>4, <3>2, <4>1
    <3> QED
      BY <3>3
  <2>6. ASSUME NEW i \in 1..k PROVE h[i] = Step(h, i)
    <3>1. CASE i = k
      <4>1. k - 1 \in 1..k /\ k - 1 # k
        BY <2>2, <2>3
      <4>2. h[k - 1] = g[k - 1]
        BY <4>1
      <4> QED
        BY <2>2, <2>3, <3>1, <4>2
    <3>2. CASE i # k
      <4>1. i \in 1..k - 1 /\ h[i] = g[i]
        BY <2>2, <3>2
      <4>2. i # 1 => i - 1 \in 1..k /\ i - 1 # k
        BY <2>2
      <4>3. i # 1 => h[i - 1] = g[i - 1]
        BY <4>2
      <4> QED
        BY <2>4, <4>1, <4>3
    <3> QED
      BY <3>1, <3>2
  <2> QED
    BY <2>2, <2>5, <2>6
<1>3. PICK f \in [1..n -> Seq(S)] : \A i \in 1..n : f[i] = Step(f, i)
  <2>1. n \in Nat /\ n \in 1..n
    BY <1>1
  <2>2. ~(n \in Nat /\ n \in 1..n /\ ~Defined(n))
    <3> HIDE DEF Defined, n
    <3> QED
      BY <1>2
  <2> QED
    BY <2>1, <2>2
<1> DEFINE flatten == CHOOSE g : g = [i \in 1..n |-> IF i = 1 THEN seqs[i] ELSE g[i - 1] \o seqs[i]]
<1>4. f = [i \in 1..n |-> IF i = 1 THEN seqs[i] ELSE f[i - 1] \o seqs[i]]
  BY <1>3
<1>5. flatten = [i \in 1..n |-> IF i = 1 THEN seqs[i] ELSE flatten[i - 1] \o seqs[i]]
  BY Zenon, <1>4
<1>6. FlattenSeq(seqs) = flatten[n]
  BY Zenon DEF FlattenSeq
<1> HIDE DEF flatten
<1>7. \A i \in 1..n : flatten[i] \in Seq(S)
  <2> DEFINE Odd == {k \in Nat : k \in 1..n /\ flatten[k] \notin Seq(S)}
  <2>0. (\A i \in 1..n : i \in Nat) /\ (Odd = {} => \A i \in 1..n : flatten[i] \in Seq(S))
    <3>1. \A i \in 1..n : i \in Nat
      BY <1>1
    <3> QED
      BY Zenon, <3>1
  <2> SUFFICES ASSUME Odd # {} PROVE FALSE
    BY <2>0
  <2>1. PICK k \in Odd : \A m \in Odd : k <= m
    <3>1. Odd \subseteq Nat
      OBVIOUS
    <3> HIDE DEF Odd
    <3> QED
      BY <3>1, LeastNat
  <2>2. k \in Nat /\ k \in 1..n /\ flatten[k] \notin Seq(S)
    BY <2>1
  <2>3. flatten[k] = IF k = 1 THEN seqs[k] ELSE flatten[k - 1] \o seqs[k]
    BY <1>5, <2>2
  <2>4. k # 1
    BY <1>1, <2>2, <2>3
  <2>5. k - 1 \in Nat /\ k - 1 \in 1..n /\ ~(k <= k - 1)
    BY <1>1, <2>2, <2>4
  <2>6. flatten[k - 1] \in Seq(S)
    BY <2>1, <2>5
  <2> QED
    BY <1>1, <2>2, <2>3, <2>4, <2>6
<1>8. flatten \in [1..n -> Seq(S)]
  BY <1>5, <1>7
<1>9. flatten[1] = seqs[1]
  BY <1>1, <1>5
<1>10. ASSUME NEW i \in 2..n PROVE flatten[i] = flatten[i - 1] \o seqs[i]
  <2>1. i \in 1..n /\ i # 1
    BY <1>1
  <2> QED
    BY <1>5, <2>1
<1> QED
  BY <1>6, <1>8, <1>9, <1>10
(* Any two elements, the one before the other, are related by R. *)
RelatedInOrder(seqs, R) ==
    /\ \A j \in 1..Len(seqs) : \A a, b \in 1..Len(seqs[j]) :
          a < b => <<seqs[j][a], seqs[j][b]>> \in R
    /\ \A j, l \in 1..Len(seqs) : \A a \in 1..Len(seqs[j]), b \in 1..Len(seqs[l]) :
          j < l => <<seqs[j][a], seqs[l][b]>> \in R

(* s has the elements of seqs and no others, and they are related by R.     *)
IsFlat(s, seqs, R) ==
    /\ \A i, k \in 1..Len(s) : i < k => <<s[i], s[k]>> \in R
    /\ \A i \in 1..Len(s) : \E j \in 1..Len(seqs) : \E a \in 1..Len(seqs[j]) : s[i] = seqs[j][a]
    /\ \A j \in 1..Len(seqs) : \A a \in 1..Len(seqs[j]) : \E i \in 1..Len(s) : s[i] = seqs[j][a]

(* What relates the elements of the sequences relates those of their        *)
(* concatenation, by induction on the number of sequences.                 *)
LEMMA Flattened ==
    ASSUME NEW S, NEW R, NEW seqs \in Seq(Seq(S)), RelatedInOrder(seqs, R)
    PROVE  FlattenSeq(seqs) \in Seq(S) /\ IsFlat(FlattenSeq(seqs), seqs, R)
<1> USE DEF RelatedInOrder
<1> DEFINE n == Len(seqs)
<1>1. CASE n = 0
  <2>1. FlattenSeq(seqs) = seqs /\ seqs = << >>
    BY <1>1 DEF FlattenSeq
  <2> QED
    BY <1>1, <2>1 DEF IsFlat
<1>2. CASE n # 0
  <2>1. PICK f \in [1..n -> Seq(S)] :
           /\ f[1] = seqs[1]
           /\ \A i \in 2..n : f[i] = f[i - 1] \o seqs[i]
           /\ FlattenSeq(seqs) = f[n]
    BY <1>2, FlattenIsConcat
  <2> DEFINE Follow(k) == \A i, m \in 1..Len(f[k]) : i < m => <<f[k][i], f[k][m]>> \in R
             From(k) == \A i \in 1..Len(f[k]) : \E j \in 1..k : \E a \in 1..Len(seqs[j]) : f[k][i] = seqs[j][a]
             All(k) == \A j \in 1..k : \A a \in 1..Len(seqs[j]) : \E i \in 1..Len(f[k]) : f[k][i] = seqs[j][a]
             Good(k) == Follow(k) /\ From(k) /\ All(k)
             Bad == {k \in Nat : k \in 1..n /\ ~Good(k)}
  <2>2. n \in Nat /\ \A i \in 1..n : seqs[i] \in Seq(S) /\ Len(seqs[i]) \in Nat
    OBVIOUS
  <2>3. Bad = {}
    <3> SUFFICES ASSUME Bad # {} PROVE FALSE
      OBVIOUS
    <3>1. PICK k \in Bad : \A m \in Bad : k <= m
      <4>1. Bad \subseteq Nat
        OBVIOUS
      <4> HIDE DEF Bad
      <4> QED
        BY <4>1, LeastNat
    <3>2. k \in Nat /\ k \in 1..n /\ ~Good(k)
      BY <3>1
    <3>3. k # 1
      <4>1. 1 \in 1..n /\ f[1] = seqs[1]
        BY <2>1, <3>2
      <4>2. Follow(1)
        BY <4>1
      <4>3. From(1)
        BY <4>1
      <4>4. All(1)
        BY <4>1
      <4> HIDE DEF Follow, From, All
      <4> QED
        BY <3>2, <4>2, <4>3, <4>4
    <3> DEFINE g == f[k - 1]
               t == seqs[k]
    <3>4. k - 1 \in Nat /\ k - 1 \in 1..n /\ ~(k <= k - 1)
      BY <2>2, <3>2, <3>3
    <3>5. Good(k - 1)
      <4>1. k - 1 \notin Bad
        BY <3>1, <3>4
      <4> HIDE DEF Good
      <4> QED
        BY <3>4, <4>1
    <3>6. g \in Seq(S) /\ t \in Seq(S) /\ Len(g) \in Nat /\ Len(t) \in Nat
      <4>1. f[k - 1] \in Seq(S) /\ seqs[k] \in Seq(S)
        BY <2>1, <2>2, <3>4, <3>2
      <4> HIDE DEF g, t
      <4>2. g \in Seq(S) /\ t \in Seq(S)
        BY <4>1 DEF g, t
      <4> QED
        BY <4>2, LenProperties
    <3>7. f[k] = g \o t
      <4>1. k \in 2..n
        BY <3>2, <3>3
      <4> QED
        BY <2>1, <4>1
    <3>8. /\ Len(f[k]) = Len(g) + Len(t)
          /\ \A i \in 1..Len(g) : f[k][i] = g[i]
          /\ \A i \in 1..Len(t) : f[k][Len(g) + i] = t[i]
      <4> HIDE DEF g, t
      <4> QED
        BY <3>6, <3>7
    <3> HIDE DEF g, t
    <3>9. \A i \in 1..Len(f[k]) : i \in 1..Len(g) \/ (i - Len(g) \in 1..Len(t) /\ f[k][i] = t[i - Len(g)])
      <4> SUFFICES ASSUME NEW i \in 1..Len(f[k]), i \notin 1..Len(g)
                   PROVE  i - Len(g) \in 1..Len(t) /\ f[k][i] = t[i - Len(g)]
        OBVIOUS
      <4>1. i - Len(g) \in 1..Len(t) /\ i = Len(g) + (i - Len(g))
        BY <3>6, <3>8
      <4> QED
        BY <3>8, <4>1
    <3>10. Follow(k)
      <4> SUFFICES ASSUME NEW i \in 1..Len(f[k]), NEW m \in 1..Len(f[k]), i < m
                   PROVE  <<f[k][i], f[k][m]>> \in R
        OBVIOUS
      <4>1. CASE m \in 1..Len(g)
        <5>1. i \in 1..Len(g)
          BY <3>6, <3>8, <4>1
        <5> QED
          BY <3>5, <3>8, <4>1, <5>1 DEF g
      <4>2. CASE i \in 1..Len(g) /\ m \notin 1..Len(g)
        <5>1. PICK j \in 1..k - 1 : \E a \in 1..Len(seqs[j]) : g[i] = seqs[j][a]
          BY <3>5, <4>2 DEF g
        <5>2. PICK a \in 1..Len(seqs[j]) : g[i] = seqs[j][a]
          BY <5>1
        <5>3. j \in 1..n /\ j < k
          BY <2>2, <3>2, <3>4
        <5>4. m - Len(g) \in 1..Len(seqs[k]) /\ f[k][m] = seqs[k][m - Len(g)]
          BY <3>9, <4>2 DEF t
        <5>5. f[k][i] = seqs[j][a]
          BY <3>8, <4>2, <5>2
        <5> QED
          BY <3>2, <5>3, <5>4, <5>5
      <4>3. CASE i \notin 1..Len(g) /\ m \notin 1..Len(g)
        <5>1. /\ i - Len(g) \in 1..Len(seqs[k]) /\ f[k][i] = seqs[k][i - Len(g)]
              /\ m - Len(g) \in 1..Len(seqs[k]) /\ f[k][m] = seqs[k][m - Len(g)]
          BY <3>9, <4>3 DEF t
        <5>2. i - Len(g) < m - Len(g)
          BY <3>6, <3>8
        <5> QED
          BY <3>2, <5>1, <5>2
      <4> QED
        BY <4>1, <4>2, <4>3
    <3>11. From(k)
      <4> SUFFICES ASSUME NEW i \in 1..Len(f[k])
                   PROVE  \E j \in 1..k : \E a \in 1..Len(seqs[j]) : f[k][i] = seqs[j][a]
        OBVIOUS
      <4>1. CASE i \in 1..Len(g)
        <5>1. PICK j \in 1..k - 1 : \E a \in 1..Len(seqs[j]) : g[i] = seqs[j][a]
          BY <3>5, <4>1 DEF g
        <5>2. j \in 1..k
          BY <3>4
        <5> QED
          BY <3>8, <4>1, <5>1, <5>2
      <4>2. CASE i \notin 1..Len(g)
        <5>1. k \in 1..k
          BY <3>2
        <5> QED
          BY <3>9, <4>2, <5>1 DEF t
      <4> QED
        BY <4>1, <4>2
    <3>12. All(k)
      <4> SUFFICES ASSUME NEW j \in 1..k, NEW a \in 1..Len(seqs[j])
                   PROVE  \E i \in 1..Len(f[k]) : f[k][i] = seqs[j][a]
        OBVIOUS
      <4>1. CASE j = k
        <5>0. a \in 1..Len(t)
          BY <4>1 DEF t
        <5>1. a \in Nat /\ Len(g) + a \in 1..Len(f[k]) /\ a \in 1..Len(t)
          BY <3>6, <3>8, <5>0
        <5>2. f[k][Len(g) + a] = seqs[j][a]
          BY <3>8, <4>1, <5>1 DEF t
        <5> QED
          BY <5>1, <5>2
      <4>2. CASE j # k
        <5>1. j \in 1..k - 1
          BY <3>2, <4>2
        <5>2. PICK i \in 1..Len(g) : g[i] = seqs[j][a]
          BY <3>5, <5>1 DEF g
        <5>3. i \in 1..Len(f[k])
          BY <3>6, <3>8
        <5> QED
          BY <3>8, <5>2, <5>3
      <4> QED
        BY <4>1, <4>2
    <3> QED
      BY <3>2, <3>10, <3>11, <3>12
  <2>4. Good(n)
    <3>1. n \in Nat /\ n \in 1..n
      BY <1>2, <2>2
    <3> HIDE DEF Good, n
    <3> QED
      BY <2>3, <3>1
  <2>5. f[n] \in Seq(S)
    BY <1>2, <2>1, <2>2
  <2> QED
    BY <2>1, <2>4, <2>5 DEF IsFlat
<1> QED
  BY <1>1, <1>2
-----------------------------------------------------------------------------
(* The inductive invariant.                                                *)

Stream == out \o ready
Planned == {order[i] : i \in 1..Len(order)}
Precedes(v, w) == IF request.walk = "commits" THEN v > w ELSE v < w

(* A lost commit is gone for good: writers append behind the log. *)
LostInv == log \cap lost = {} /\ lost \subseteq 0..next - 1

(* The listing shows what is there, and has shown all that it passed. *)
ListInv ==
    /\ listed \cap lost = {}
    /\ phase = "list" =>
          /\ request.all /\ order = << >> /\ pos = 0 /\ out = << >> /\ ready = << >>
          /\ \A v \in before \cap log : v < cursor => v \in listed

(* The plan: each version once, in walk order, all that are owed, and one   *)
(* stretch of the log.                                                     *)
PlanInv ==
    /\ \A i, j \in 1..Len(order) : i < j => Precedes(order[i], order[j])
    /\ \/ phase = "list"
       \/ phase = "failed" /\ out = << >> /\ ready = << >>
       \/ Owed \subseteq Planned
    /\ request.all =>
          /\ Planned \subseteq Retained(Versions) \ lost
          /\ \A u, w \in Planned, v \in Versions : u < v /\ v < w => v \in Planned

(* The batch: a read is in flight for a version of the chunk only; an       *)
(* answer is all a commit gives or nothing, and nothing only of one that   *)
(* has gone, or came after the walk began.                                 *)
BatchInv ==
    /\ phase # "batch" => stage = NoRead /\ answer = NoAnswer
    /\ phase = "batch" => ready = << >> /\ pos < Len(order)
    /\ request.walk = "log" /\ phase # "ended" => out = << >> /\ ready = << >> /\ pos = 0
    /\ \A v \in Versions :
          /\ stage[v] \in 1..Len(Stages) => request.walk = "commits"
          /\ stage[v] # 0 => v \in Chunk
          /\ answer[v] # << >> => answer[v] = Items(v)
          /\ phase = "batch" /\ v \in Chunk \cap before \cap log /\ stage[v] = 0 => answer[v] = Items(v)

(* Two places of the plan that one batch reads. *)
Mates(k, l) == \E b \in Nat : /\ b * Width < k /\ k <= b * Width + Width
                               /\ b * Width < l /\ l <= b * Width + Width

(* s tells of a read that failed in the batch of the k-th version. *)
ToldIn(s, k) == \E l \in 1..pos : Mates(k, l) /\ <<order[l], 0>> \in ToSet(s)

(* What was given and what is ready: in walk order, of the versions read,   *)
(* and of each of those all, unless it has gone, or its batch gave an Err  *)
(* and nothing else.                                                       *)
StreamInv ==
    /\ \A i, j \in 1..Len(Stream) : i < j => Later(Stream[i], Stream[j])
    /\ \A i \in 1..Len(Stream) : \E k \in 1..pos : Stream[i][1] = order[k]
    /\ \A k \in 1..pos : order[k] \in before \cap log =>
          ToSet(Items(order[k])) \subseteq ToSet(Stream) \/ ToldIn(Stream, k)
    /\ \A i, j \in 1..Len(Stream), k, l \in 1..pos :
          Mates(k, l) /\ Stream[i] = <<order[k], 0>> /\ Stream[j][1] = order[l] => i = j
    /\ request.walk # "log" /\ pos # Len(order) => \E b \in Nat : pos = b * Width
    /\ phase = "ended" => pos = Len(order) /\ ready = << >>

(* None of these is inductive alone: the stream is in order because the    *)
(* batch is of the plan, and the plan whole because the listing was.       *)
IInv == TypeOK /\ LostInv /\ ListInv /\ PlanInv /\ BatchInv /\ StreamInv

-----------------------------------------------------------------------------
(* The parts of the model.                                                 *)

LEMMA LogVersions ==
    ASSUME TypeOK
    PROVE  /\ Versions \subseteq Nat /\ MaxVersion \in Nat
           /\ next \in Nat /\ log \subseteq Versions /\ before \subseteq Versions
           /\ \A v \in log \cup before : v < next
<1>1. Versions \subseteq Nat /\ MaxVersion \in Nat
  BY DeltaLogAssumption DEF Versions
<1>2. next \in Nat /\ next <= MaxVersion + 1
  BY <1>1 DEF TypeOK
<1>3. \A v \in 0..next - 1 : v \in Versions /\ v < next
  BY <1>1, <1>2 DEF Versions
<1>4. log \subseteq 0..next - 1 /\ before \subseteq 0..next - 1
  BY DEF TypeOK
<1> QED
  BY <1>1, <1>2, <1>3, <1>4

(* A page is a non-empty beginning of what the listing has yet to show. *)
LEMMA PageFacts ==
    ASSUME TypeOK, Page # Shown
    PROVE  /\ Page # {} /\ Page \subseteq Versions
           /\ Max(Page) \in Page
           /\ \A v \in Shown : v <= Max(Page) => v \in Page
<1>1. Versions \subseteq Nat /\ MaxVersion \in Nat
  BY LogVersions
<1>2. Shown \subseteq Versions /\ Page \subseteq Shown /\ Shown # {}
  BY LogVersions DEF Shown, Page
<1>3. PICK first \in Shown : \A v \in Shown : first <= v
  BY <1>1, <1>2, LeastNat
<1>4. first \in Page
  <2>1. {w \in Shown : w < first} = {}
    <3> SUFFICES ASSUME NEW w \in Shown, w < first PROVE FALSE
      OBVIOUS
    <3>1. w \in Nat /\ first \in Nat /\ first <= w
      BY <1>1, <1>2, <1>3
    <3> QED
      BY <3>1
  <2>2. Cardinality({w \in Shown : w < first}) = 0
    BY <2>1, FS_EmptySet
  <2> QED
    BY <1>3, <2>2, DeltaLogAssumption DEF Page
<1>5. Max(Page) \in Page
  <2>1. Page \subseteq Nat /\ Page # {} /\ \A v \in Page : v <= MaxVersion
    BY <1>1, <1>2, <1>4 DEF Versions
  <2> HIDE DEF Page
  <2> QED
    BY <1>1, <2>1, MaxOfBounded
<1>6. ASSUME NEW v \in Shown, v <= Max(Page) PROVE v \in Page
  <2> DEFINE mine == {w \in Shown : w < v}
             last == {w \in Shown : w < Max(Page)}
  <2>0. v \in Nat /\ Max(Page) \in Nat /\ Shown \subseteq Nat
    BY <1>1, <1>2, <1>5
  <2>1. mine \subseteq last /\ last \subseteq Versions
    <3> HIDE DEF Shown
    <3>1. ASSUME NEW w \in Shown, w < v PROVE w < Max(Page)
      BY <1>6, <2>0, <3>1
    <3> QED
      BY <1>2, <3>1
  <2>2. IsFiniteSet(last) /\ Cardinality(last) \in Nat /\ Cardinality(mine) \in Nat
    BY <2>1, FiniteVersions DEF VersionsAreFinite
  <2>3. Cardinality(mine) <= Cardinality(last)
    BY <2>1, <2>2, FS_Subset
  <2>4. Cardinality(last) < PageSize
    BY <1>5 DEF Page
  <2>5. Cardinality(mine) < PageSize
    BY <2>2, <2>3, <2>4, DeltaLogAssumption
  <2> QED
    BY <2>5 DEF Page
<1> QED
  BY <1>2, <1>4, <1>5, <1>6

(* What a commit gives is of that commit. *)
LEMMA ItemsFacts ==
    ASSUME TypeOK, NEW v \in Versions
    PROVE  /\ Items(v) \in Seq(Item)
           /\ \A i \in 1..Len(Items(v)) : Items(v)[i][1] = v /\ Items(v)[i][2] # 0
           /\ \A i, j \in 1..Len(Items(v)) : i < j => Later(Items(v)[i], Items(v)[j])
           /\ ToSet(Items(v)) = {Items(v)[i] : i \in 1..Len(Items(v))}
<1>1. history[v].adds \in Nat /\ v \in Nat
  <2>1. history \in [Versions -> Commit]
    BY DeltaLogAssumption DEF TypeOK
  <2>2. history[v] \in Commit
    BY <2>1
  <2> QED
    BY <2>2, LogVersions DEF Commit
<1>2. request.walk \in {"commits", "files", "log"}
  BY DeltaLogAssumption DEF TypeOK, Request
<1>3. ASSUME Items(v) = << <<v, 1>> >>
      PROVE  /\ Items(v) \in Seq(Item) /\ Len(Items(v)) = 1 /\ Items(v)[1] = <<v, 1>>
             /\ ToSet(Items(v)) = {Items(v)[i] : i \in 1..Len(Items(v))}
  BY <1>3 DEF Item, ToSet
<1>4. CASE request.walk = "commits"
  <2>1. Items(v) = << <<v, 1>> >> \/ Items(v) = << >>
    BY <1>4 DEF Items
  <2>2. CASE Items(v) = << >>
    BY <2>2 DEF ToSet
  <2>3. CASE Items(v) = << <<v, 1>> >>
    BY <1>3, <2>3
  <2> QED
    BY <2>1, <2>2, <2>3
<1>5. CASE request.walk = "files"
  <2>1. Items(v) = [i \in 1..history[v].adds |-> <<v, i>>]
    BY <1>5 DEF Items
  <2>2. Items(v) \in Seq(Item) /\ Len(Items(v)) = history[v].adds
    <3>1. \A i \in 1..history[v].adds : <<v, i>> \in Item
      BY DEF Item
    <3>2. Items(v) \in [1..history[v].adds -> Item]
      BY <2>1, <3>1
    <3> QED
      BY <1>1, <3>2
  <2>3. \A i \in 1..history[v].adds : Items(v)[i] = <<v, i>>
    BY <1>1, <2>1
  <2>4. \A i, j \in 1..history[v].adds : i < j => Later(<<v, i>>, <<v, j>>)
    BY <1>1, <1>5 DEF Later
  <2>5. ToSet(Items(v)) = {Items(v)[i] : i \in 1..Len(Items(v))}
    BY <2>2 DEF ToSet
  <2>6. \A i \in 1..Len(Items(v)) : Items(v)[i][1] = v /\ Items(v)[i][2] # 0
    BY <2>2, <2>3
  <2>7. \A i, j \in 1..Len(Items(v)) : i < j => Later(Items(v)[i], Items(v)[j])
    BY <2>2, <2>3, <2>4
  <2> QED
    BY <2>2, <2>5, <2>6, <2>7
<1>6. CASE request.walk = "log"
  <2>1. Items(v) = << <<v, 1>> >>
    BY <1>6 DEF Items
  <2> QED
    BY <1>3, <2>1
<1> QED
  BY <1>2, <1>4, <1>5, <1>6

(* Where a batch ends. *)
LEMMA ChunkEndFacts ==
    ASSUME TypeOK
    PROVE  /\ Len(order) \in Nat /\ pos \in Nat /\ pos <= Len(order)
           /\ ChunkEnd \in Nat /\ pos <= ChunkEnd /\ ChunkEnd <= Len(order)
           /\ pos < Len(order) => pos < ChunkEnd
           /\ request.walk = "log" => ChunkEnd = Len(order)
<1>1. Len(order) \in Nat /\ pos \in Nat /\ pos <= Len(order)
  BY DEF TypeOK
<1>2. Width \in Nat /\ Width > 0
  BY DeltaLogAssumption
<1>3. Min({pos + Width, Len(order)}) = IF pos + Width <= Len(order) THEN pos + Width ELSE Len(order)
  BY <1>1, <1>2, MinOfPair
<1> QED
  BY <1>1, <1>2, <1>3 DEF ChunkEnd
-----------------------------------------------------------------------------
(* Type correctness.                                                       *)

LEMMA ArrangedFacts ==
    ASSUME TypeOK, NEW vs \in SUBSET Versions
    PROVE  /\ Arranged(vs) \in Seq(Versions)
           /\ {Arranged(vs)[i] : i \in 1..Len(Arranged(vs))} = vs
           /\ \A i, j \in 1..Len(Arranged(vs)) : i < j =>
                 IF request.walk = "commits" THEN Arranged(vs)[i] > Arranged(vs)[j]
                 ELSE Arranged(vs)[i] < Arranged(vs)[j]
<1> DEFINE s == OldestFirst(vs)
           n == Len(s)
<1>1. /\ s \in Seq(Versions)
      /\ \A i, j \in 1..n : i < j => s[i] < s[j]
      /\ {s[i] : i \in 1..n} = vs
  BY OldestFirstFacts
<1> HIDE DEF s
<1>2. n \in Nat
  BY <1>1
<1>3. CASE request.walk # "commits"
  <2>1. Arranged(vs) = s
    BY <1>3 DEF Arranged, s
  <2> QED
    BY <1>1, <1>3, <2>1
<1>4. CASE request.walk = "commits"
  <2>1. Arranged(vs) = [i \in 1..n |-> s[(n - i) + 1]]
    BY <1>4 DEF Arranged, s, Reverse
  <2>2. \A i \in 1..n : (n - i) + 1 \in 1..n /\ (n - ((n - i) + 1)) + 1 = i
    BY <1>2
  <2>3. \A i \in 1..n : s[(n - i) + 1] \in Versions
    BY <1>1, <2>2
  <2>4. Arranged(vs) \in Seq(Versions) /\ Len(Arranged(vs)) = n
    BY <1>2, <2>1, <2>3
  <2>5. \A i \in 1..n : Arranged(vs)[i] = s[(n - i) + 1]
    BY <2>1
  <2>6. \A i \in 1..n : Arranged(vs)[(n - i) + 1] = s[i]
    BY <2>2, <2>5
  <2>7. {Arranged(vs)[i] : i \in 1..n} = {s[i] : i \in 1..n}
    BY <2>2, <2>5, <2>6
  <2>8. ASSUME NEW i \in 1..n, NEW j \in 1..n, i < j PROVE Arranged(vs)[i] > Arranged(vs)[j]
    <3>1. (n - j) + 1 < (n - i) + 1
      BY <1>2, <2>8
    <3>2. s[(n - j) + 1] < s[(n - i) + 1]
      BY <1>1, <2>2, <3>1
    <3>3. s[(n - j) + 1] \in Nat /\ s[(n - i) + 1] \in Nat
      BY <2>3, LogVersions
    <3> QED
      BY <2>5, <3>2, <3>3
  <2> QED
    BY <1>1, <1>4, <2>4, <2>7, <2>8
<1> QED
  BY <1>3, <1>4

Answers == [i \in 1..ChunkEnd - pos |-> answer[order[pos + i]]]

LEMMA BatchType ==
    ASSUME TypeOK
    PROVE  /\ Answers \in Seq(Seq(Item)) /\ Len(Answers) = ChunkEnd - pos
           /\ \A i \in 1..Len(Answers) : /\ pos + i \in pos + 1..ChunkEnd
                                       /\ order[pos + i] \in Versions
                                       /\ Answers[i] = answer[order[pos + i]]
           /\ Joined = FlattenSeq(Answers)
<1>1. /\ ChunkEnd - pos \in Nat
      /\ \A i \in 1..ChunkEnd - pos : pos + i \in 1..Len(order) /\ pos + i \in pos + 1..ChunkEnd
  BY ChunkEndFacts
<1>2. order \in Seq(Versions) /\ answer \in [Versions -> Seq(Item)]
  BY DEF TypeOK
<1>3. \A i \in 1..ChunkEnd - pos : order[pos + i] \in Versions
  BY <1>1, <1>2
<1>4. \A i \in 1..ChunkEnd - pos : answer[order[pos + i]] \in Seq(Item)
  BY <1>2, <1>3
<1>5. Answers \in Seq(Seq(Item)) /\ Len(Answers) = ChunkEnd - pos
  BY <1>1, <1>4 DEF Answers
<1>6. \A i \in 1..ChunkEnd - pos : Answers[i] = answer[order[pos + i]]
  BY DEF Answers
<1>7. Joined = FlattenSeq(Answers)
  BY DEF Joined, Answers
<1> QED
  BY <1>1, <1>3, <1>5, <1>6, <1>7

LEMMA JoinedType ==
    ASSUME TypeOK
    PROVE  Joined \in Seq(Item)
<1> DEFINE R == {<<Answers[j][a], Answers[l][b]>> : j \in 1..Len(Answers), l \in 1..Len(Answers), a \in Int, b \in Int}
<1>1. Answers \in Seq(Seq(Item)) /\ Joined = FlattenSeq(Answers)
  BY BatchType
<1>2. RelatedInOrder(Answers, R)
  <2>1. \A j, l \in 1..Len(Answers) : \A a \in 1..Len(Answers[j]), b \in 1..Len(Answers[l]) :
           <<Answers[j][a], Answers[l][b]>> \in R
    <3> SUFFICES ASSUME NEW j \in 1..Len(Answers), NEW l \in 1..Len(Answers),
                        NEW a \in 1..Len(Answers[j]), NEW b \in 1..Len(Answers[l])
                 PROVE  <<Answers[j][a], Answers[l][b]>> \in R
      OBVIOUS
    <3>1. a \in Int /\ b \in Int
      OBVIOUS
    <3> QED
      BY <3>1
  <2> HIDE DEF R
  <2> QED
    BY <2>1 DEF RelatedInOrder
<1> HIDE DEF R
<1>3. FlattenSeq(Answers) \in Seq(Item)
  BY <1>1, <1>2, Flattened
<1> QED
  BY <1>1, <1>3
LEMMA WholeType == Len(Stages) \in Nat /\ Whole \in Nat /\ Whole > Len(Stages)
  BY DeltaLogAssumption DEF Whole

LEMMA NoneInFlight == NoRead \in [Versions -> 0..Whole] /\ NoAnswer \in [Versions -> Seq(Item)]
<1>1. 0 \in 0..Whole /\ << >> \in Seq(Item)
  BY WholeType
<1> QED
  BY <1>1 DEF NoRead, NoAnswer

LEMMA TypeInit == Init => TypeOK
<1> SUFFICES ASSUME Init PROVE TypeOK
  OBVIOUS
<1>1. MaxVersion \in Nat /\ MaxFaults \in Nat /\ Versions = 0..MaxVersion
  BY DeltaLogAssumption DEF Versions
<1>2. next \in 0..MaxVersion + 1 /\ lost \in Losses /\ log \subseteq 0..next - 1 /\ before = log
  <2>1. PICK expired \in 0..next : log = (expired..next - 1) \ lost
    BY DEF Init
  <2> QED
    BY <1>1, <2>1 DEF Init
<1>3. request \in Requests /\ request.named \subseteq Versions
  BY DeltaLogAssumption DEF Init, Request
<1>4. order \in Seq(Versions) /\ pos \in 0..Len(order)
  <2>1. OldestFirst(request.named) \in Seq(Versions)
    BY <1>3, OldestFirstFacts
  <2>2. Reverse(OldestFirst(request.named)) \in Seq(Versions)
    <3> DEFINE s == OldestFirst(request.named)
    <3>1. s \in Seq(Versions) /\ Len(s) \in Nat /\ Reverse(s) = [i \in 1..Len(s) |-> s[(Len(s) - i) + 1]]
      BY <2>1, LenProperties DEF Reverse
    <3>2. \A i \in 1..Len(s) : (Len(s) - i) + 1 \in 1..Len(s)
      BY <3>1
    <3> HIDE DEF s
    <3>3. \A i \in 1..Len(s) : s[(Len(s) - i) + 1] \in Versions
      BY <3>1, <3>2
    <3> QED
      BY <3>1, <3>3 DEF s
  <2>3. order \in Seq(Versions)
    BY <2>1, <2>2 DEF Init, Arranged
  <2>4. pos = 0 /\ Len(order) \in Nat
    BY <2>3, LenProperties DEF Init
  <2> QED
    BY <2>3, <2>4
<1>5. cursor \in 0..MaxVersion + 1 /\ faults \in 0..MaxFaults
  BY <1>1 DEF Init
<1>6. ready \in Seq(Item) /\ out \in Seq(Item)
  BY EmptySeq DEF Init
<1> QED
  BY <1>2, <1>3, <1>4, <1>5, <1>6, NoneInFlight DEF Init, TypeOK

(* What a failure leaves. *)
LEMMA FailType ==
    ASSUME TypeOK, NEW why \in {"nolog", "gap", "storage", "parse"}, Fail(why),
           faults' \in 0..MaxFaults
    PROVE  TypeOK'
  BY NoneInFlight DEF Fail, TypeOK, env, listing

(* What a batch that is given up leaves. *)
LEMMA GiveUpType ==
    ASSUME TypeOK, NEW v \in Versions, GiveUp(v), faults' \in 0..MaxFaults
    PROVE  TypeOK'
<1>1. ChunkEnd \in 0..Len(order)
  BY ChunkEndFacts
<1>2. << <<v, 0>> >> \in Seq(Item)
  BY DEF Item
<1> QED
  BY <1>1, <1>2, NoneInFlight DEF GiveUp, TypeOK, env, listing

LEMMA TypeLog == TypeOK /\ (CommitNext \/ Expire) => TypeOK'
<1> SUFFICES ASSUME TypeOK, CommitNext \/ Expire PROVE TypeOK'
  OBVIOUS
<1>1. next \in Nat /\ MaxVersion \in Nat /\ log \subseteq 0..next - 1 /\ before \subseteq 0..next - 1
  BY LogVersions DEF TypeOK
<1>2. next' \in 0..MaxVersion + 1 /\ log' \subseteq 0..next' - 1 /\ before' \subseteq 0..next' - 1
  <2>1. CASE CommitNext
    <3>1. next' = next + 1 /\ log' = log \cup {next} /\ before' = before /\ next <= MaxVersion
      BY <2>1 DEF CommitNext
    <3>2. 0..next - 1 \subseteq 0..next' - 1 /\ next \in 0..next' - 1 /\ next' \in 0..MaxVersion + 1
      BY <1>1, <3>1
    <3> QED
      BY <1>1, <3>1, <3>2
  <2>2. CASE Expire
    BY <1>1, <2>2 DEF Expire, TypeOK
  <2> QED
    BY <2>1, <2>2
<1> QED
  BY <1>2 DEF CommitNext, Expire, TypeOK, listing, reads

LEMMA TypeListing ==
    ASSUME TypeOK, ListInv, Listing \/ ListFails
    PROVE  TypeOK'
<1>1. CASE ListPage
  <2>1. Page \subseteq Versions /\ Max(Page) \in Versions
    BY <1>1, PageFacts DEF ListPage
  <2>2. Max(Page) + 1 \in 0..MaxVersion + 1
    BY <2>1, LogVersions DEF Versions
  <2> HIDE DEF Page
  <2> QED
    BY <1>1, <2>1, <2>2 DEF ListPage, TypeOK, env, reads
<1>2. CASE ListNothing \/ ListGap
  <2>1. faults' \in 0..MaxFaults
    BY <1>2 DEF ListNothing, ListGap, TypeOK
  <2> QED
    BY <1>2, <2>1, FailType DEF ListNothing, ListGap
<1>3. CASE ListLast
  <2>1. Page \subseteq Versions
    BY LogVersions DEF Page, Shown
  <2>2. listed \cup Page \in SUBSET Versions /\ Retained(listed \cup Page) \in SUBSET Versions
    BY <2>1 DEF TypeOK, Retained
  <2>3. Arranged(Retained(listed \cup Page)) \in Seq(Versions)
    BY <2>2, ArrangedFacts
  <2>4. order' \in Seq(Versions) /\ Len(order') \in Nat
    BY <1>3, <2>3, LenProperties DEF ListLast
  <2>5. pos' \in 0..Len(order')
    <3>1. pos = 0
      BY <1>3 DEF ListInv, ListLast
    <3> QED
      BY <1>3, <2>4, <3>1 DEF ListLast
  <2> HIDE DEF Page
  <2> QED
    BY <1>3, <2>2, <2>4, <2>5 DEF ListLast, TypeOK, env
<1>4. CASE ListFails
  <2>1. faults' \in 0..MaxFaults
    BY <1>4, DeltaLogAssumption DEF ListFails, TypeOK
  <2> QED
    BY <1>4, <2>1, FailType DEF ListFails
<1> QED
  BY <1>1, <1>2, <1>3, <1>4 DEF Listing
LEMMA TypeRead ==
    ASSUME TypeOK, NEW v \in Versions, Read(v) \/ PrefixFails(v) \/ WholeFails(v)
    PROVE  TypeOK'
<1>1. Items(v) \in Seq(Item) /\ << >> \in Seq(Item)
  BY ItemsFacts
<1>2. ASSUME NEW items \in Seq(Item), Answered(v, items) PROVE TypeOK'
  <2>1. 0 \in 0..Whole
    BY WholeType
  <2> QED
    BY <1>2, <2>1 DEF Answered, TypeOK, env, listing
<1>3. ASSUME NEW s \in 0..Whole, ReadOn(v, s), faults' \in 0..MaxFaults PROVE TypeOK'
  BY <1>3 DEF ReadOn, TypeOK, env, listing
<1>4. faults' = faults => faults' \in 0..MaxFaults
  BY DEF TypeOK
<1>5. faults < MaxFaults => faults + 1 \in 0..MaxFaults
  BY DeltaLogAssumption DEF TypeOK
<1>6. CASE ReadMissing(v) \/ PrefixTells(v) \/ WholeTells(v)
  <2>1. \E items \in Seq(Item) : Answered(v, items)
    BY <1>1, <1>6 DEF ReadMissing, PrefixTells, WholeTells
  <2> QED
    BY <1>2, <2>1
<1>7. CASE PrefixSilent(v)
  <2>1. stage[v] + 1 \in 0..Whole
    BY <1>7, WholeType DEF PrefixSilent, Prefix, Whole
  <2> QED
    BY <1>3, <1>4, <1>7, <2>1 DEF PrefixSilent
<1>8. CASE PrefixFails(v)
  <2>1. Whole \in 0..Whole
    BY WholeType
  <2> QED
    BY <1>3, <1>5, <1>8, <2>1 DEF PrefixFails
<1>9. CASE WholeGarbled(v)
  <2>1. faults' \in 0..MaxFaults /\ (GiveUp(v) \/ Fail("parse"))
    BY <1>4, <1>9 DEF WholeGarbled, GaveUp
  <2> QED
    BY <2>1, FailType, GiveUpType
<1>10. CASE WholeFails(v)
  <2>1. faults' \in 0..MaxFaults /\ (GiveUp(v) \/ Fail("storage"))
    BY <1>5, <1>10 DEF WholeFails, GaveUp
  <2> QED
    BY <2>1, FailType, GiveUpType
<1> QED
  BY <1>6, <1>7, <1>8, <1>9, <1>10 DEF Read

LEMMA TypeWalk ==
    ASSUME TypeOK, Walk
    PROVE  TypeOK'
<1>1. CASE Ask \/ End
  BY <1>1 DEF Ask, End, TypeOK, env, listing, reads
<1>2. CASE StartBatch
  <2>1. 0 \in 0..Whole /\ 1 \in 0..Whole /\ Whole \in 0..Whole
    BY WholeType DEF Whole
  <2>2. stage' \in [Versions -> 0..Whole]
    BY <1>2, <2>1 DEF StartBatch
  <2> QED
    BY <1>2, <2>2 DEF StartBatch, TypeOK, env, listing
<1>3. CASE Deliver
  <2>1. ready \in Seq(Item) /\ out \in Seq(Item) /\ ready # << >>
    BY <1>3 DEF Deliver, TypeOK
  <2>2. Tail(ready) \in Seq(Item) /\ Append(out, Head(ready)) \in Seq(Item)
    BY <2>1
  <2> QED
    BY <1>3, <2>2 DEF Deliver, TypeOK, env, listing, reads
<1>4. CASE LandBatch \/ LandLog
  <2>1. ChunkEnd \in 0..Len(order)
    BY ChunkEndFacts
  <2>2. Joined \in Seq(Item)
    BY JoinedType
  <2> QED
    BY <1>4, <2>1, <2>2, NoneInFlight DEF LandBatch, LandLog, TypeOK, env, listing
<1> QED
  BY <1>1, <1>2, <1>3, <1>4 DEF Walk

LEMMA TypeStep == IInv /\ [Next]_vars => TypeOK'
<1> SUFFICES ASSUME IInv, [Next]_vars PROVE TypeOK'
  OBVIOUS
<1>1. TypeOK /\ ListInv
  BY DEF IInv
<1>2. CASE UNCHANGED vars
  BY <1>1, <1>2 DEF vars, env, listing, reads, TypeOK
<1>3. CASE Next
  BY <1>1, <1>3, TypeLog, TypeListing, TypeRead, TypeWalk DEF Next, Progress, Fault
<1> QED
  BY <1>2, <1>3
-----------------------------------------------------------------------------
(* What each step keeps.                                                   *)

(* Only writers and retention touch the table. *)
LEMMA WalkKeepsTable ==
    ASSUME Progress \/ Fault
    PROVE  UNCHANGED env
<1>1. ASSUME NEW v \in Versions, Read(v) \/ PrefixFails(v) \/ WholeFails(v) PROVE UNCHANGED env
  BY <1>1 DEF Read, ReadMissing, PrefixTells, PrefixSilent, WholeTells, WholeGarbled, PrefixFails,
              WholeFails, Answered, ReadOn, GaveUp, GiveUp, Fail
<1>2. CASE Listing \/ ListFails
  BY <1>2 DEF Listing, ListPage, ListNothing, ListGap, ListLast, ListFails, Fail
<1>3. CASE Walk
  BY <1>3 DEF Walk, Ask, StartBatch, Deliver, End, LandBatch, LandLog
<1> QED
  BY <1>1, <1>2, <1>3 DEF Progress, Fault

(* What was in the log when the walk began can leave it and not return. *)
LEMMA LogShrinks ==
    ASSUME TypeOK, CommitNext \/ Expire
    PROVE  /\ before' = before /\ request' = request /\ history' = history /\ lost' = lost
           /\ before \cap log' \subseteq before \cap log
<1>1. before \cap log' \subseteq before \cap log
  <2>1. next \notin before
    BY LogVersions
  <2> QED
    BY <2>1 DEF CommitNext, Expire
<1> QED
  BY <1>1 DEF CommitNext, Expire

LEMMA LostStep == IInv /\ [Next]_vars => LostInv'
<1> SUFFICES ASSUME IInv, [Next]_vars PROVE LostInv'
  OBVIOUS
<1>1. LostInv /\ next \in Nat
  BY LogVersions DEF IInv
<1>2. CASE CommitNext
  <2>1. next \notin lost /\ 0..next - 1 \subseteq 0..next
    BY <1>1 DEF LostInv
  <2> QED
    BY <1>1, <1>2, <2>1 DEF CommitNext, LostInv
<1>3. CASE Expire
  BY <1>1, <1>3 DEF Expire, LostInv
<1>4. CASE UNCHANGED env
  BY <1>1, <1>4 DEF env, LostInv
<1> QED
  BY <1>2, <1>3, <1>4, WalkKeepsTable DEF Next, vars

LEMMA ListStep == IInv /\ [Next]_vars => ListInv'
<1> SUFFICES ASSUME IInv, [Next]_vars PROVE ListInv'
  OBVIOUS
<1>1. ListInv /\ TypeOK /\ LostInv
  BY DEF IInv
<1>2. CASE CommitNext \/ Expire
  <2>1. UNCHANGED <<phase, cursor, listed, order, pos, out, ready>>
    BY <1>2 DEF CommitNext, Expire, listing, reads
  <2> QED
    BY <1>1, <1>2, <2>1, LogShrinks DEF ListInv
<1>3. CASE ListPage
  <2>1. UNCHANGED <<env, phase, order, pos, out, ready>>
    BY <1>3 DEF ListPage, reads
  <2>2. listed' = listed \cup Page /\ cursor' = Max(Page) + 1
    BY <1>3 DEF ListPage
  <2>3. Page \subseteq log
    BY DEF Page, Shown
  <2>4. Page # Shown
    BY <1>3 DEF ListPage
  <2>5. ASSUME NEW v \in before \cap log, v < cursor', phase = "list" PROVE v \in listed'
    <3>1. Max(Page) \in Nat /\ v \in Nat
      BY <1>1, <2>4, PageFacts, LogVersions
    <3>2. v <= Max(Page)
      BY <2>2, <2>5, <3>1
    <3>3. v < cursor => v \in listed
      BY <1>1, <2>5 DEF ListInv
    <3>4. cursor \in Nat
      BY <1>1, LogVersions DEF TypeOK
    <3>5. ~(v < cursor) => v \in Shown
      BY <3>1, <3>4 DEF Shown
    <3> QED
      BY <1>1, <2>2, <2>4, <3>2, <3>3, <3>5, PageFacts
  <2> HIDE DEF Page, Shown
  <2> QED
    BY <1>1, <2>1, <2>2, <2>3, <2>5 DEF ListInv, LostInv, env
<1>4. CASE ListLast
  <2>1. listed' = listed \cup Page /\ phase' = "walk" /\ UNCHANGED env
    BY <1>4 DEF ListLast
  <2>2. Page \subseteq log
    BY DEF Page, Shown
  <2> QED
    BY <1>1, <2>1, <2>2 DEF ListInv, LostInv, env
<1>5. CASE ListNothing \/ ListGap \/ ListFails
  BY <1>1, <1>5 DEF ListNothing, ListGap, ListFails, Fail, ListInv, env, listing
<1>6. CASE Walk
  BY <1>1, <1>6 DEF Walk, Ask, StartBatch, Deliver, End, LandBatch, LandLog, Landed, ListInv,
                    env, listing
<1>7. ASSUME NEW v \in Versions, Read(v) \/ PrefixFails(v) \/ WholeFails(v) PROVE ListInv'
  <2>1. phase = "batch" /\ phase' \in {"batch", "walk", "failed"} /\ UNCHANGED <<env, listing>>
    BY <1>7 DEF Read, ReadMissing, PrefixTells, PrefixSilent, WholeTells, WholeGarbled,
                PrefixFails, WholeFails, Prefix, WholeFile, Answered, ReadOn, GaveUp, GiveUp, Fail
  <2> QED
    BY <1>1, <2>1 DEF ListInv, env, listing
<1>8. CASE UNCHANGED vars
  BY <1>1, <1>8 DEF ListInv, vars, env, listing, reads
<1> QED
  BY <1>2, <1>3, <1>4, <1>5, <1>6, <1>7, <1>8 DEF Next, Progress, Fault, Listing

LEMMA PlanStep == IInv /\ [Next]_vars => PlanInv'
<1> SUFFICES ASSUME IInv, [Next]_vars PROVE PlanInv'
  OBVIOUS
<1>1. ListInv /\ TypeOK /\ LostInv /\ PlanInv
  BY DEF IInv
<1>2. CASE CommitNext \/ Expire
  <2>1. UNCHANGED <<phase, order, out, ready>>
    BY <1>2 DEF CommitNext, Expire, listing, reads
  <2>2. Owed' \subseteq Owed /\ Planned' = Planned
    BY <1>1, <1>2, <2>1, LogShrinks DEF Owed, Planned, Retained
  <2>3. request' = request /\ lost' = lost
    BY <1>1, <1>2, LogShrinks
  <2> QED
    BY <1>1, <2>1, <2>2, <2>3 DEF PlanInv, Precedes, Retained
<1>3. CASE ListLast
  <2> DEFINE vs == Retained(listed \cup Page)
  <2>1. order' = Arranged(vs) /\ UNCHANGED env /\ phase = "list" /\ Page = Shown /\ ~HasGap(vs)
    BY <1>3 DEF ListLast
  <2>2. Page \subseteq log
    BY DEF Page, Shown
  <2>3. vs \in SUBSET Versions /\ vs \subseteq Retained(Versions) \ lost
    BY <1>1, <2>2, LogVersions DEF TypeOK, ListInv, LostInv, Retained
  <2>4. before \cap log \subseteq listed \cup Page
    <3> SUFFICES ASSUME NEW v \in before \cap log PROVE v \in listed \cup Page
      OBVIOUS
    <3>1. v \in Nat /\ cursor \in Nat
      BY <1>1, LogVersions DEF TypeOK
    <3>2. v < cursor => v \in listed
      BY <1>1, <2>1 DEF ListInv
    <3>3. ~(v < cursor) => v \in Shown
      BY <3>1 DEF Shown
    <3> QED
      BY <2>1, <3>2, <3>3
  <2>5. request.all
    BY <1>1, <2>1 DEF ListInv
  <2>6. Owed \subseteq vs
    BY <2>4, <2>5 DEF Owed, Retained
  <2> HIDE DEF vs
  <2>7. Planned' = vs
    BY <1>1, <2>1, <2>3, ArrangedFacts DEF Planned
  <2>8. \A i, j \in 1..Len(order') : i < j => Precedes(order'[i], order'[j])
    BY <1>1, <2>1, <2>3, ArrangedFacts DEF Precedes
  <2>9. \A u, w \in vs, v \in Versions : u < v /\ v < w => v \in vs
    BY <2>1, <2>3, NoGapIsStretch
  <2>10. UNCHANGED <<request, before, log, lost>>
    BY <2>1 DEF env
  <2>11. Owed' = Owed
    BY <2>10 DEF Owed, Retained
  <2> QED
    BY <2>3, <2>6, <2>7, <2>8, <2>9, <2>10, <2>11 DEF PlanInv, Precedes, Retained
<1>4. ASSUME UNCHANGED <<env, order>>,
             \/ phase' = phase /\ phase # "failed"
             \/ UNCHANGED <<phase, out, ready>>
             \/ phase = "list" /\ phase' = "failed" /\ UNCHANGED <<out, ready>>
             \/ phase \in {"walk", "batch"}
      PROVE  PlanInv'
  <2>1. UNCHANGED <<request, before, log, lost>>
    BY <1>4 DEF env
  <2>2. Owed' = Owed /\ Planned' = Planned
    BY <1>4, <2>1 DEF Owed, Planned, Retained
  <2>3. \/ phase' = "list"
        \/ phase' = "failed" /\ out' = << >> /\ ready' = << >>
        \/ Owed \subseteq Planned
    BY <1>1, <1>4 DEF ListInv, PlanInv
  <2> QED
    BY <1>1, <1>4, <2>1, <2>2, <2>3 DEF PlanInv, Precedes, Retained
<1>5. CASE ListPage \/ ListNothing \/ ListGap \/ ListFails
  BY <1>4, <1>5 DEF ListPage, ListNothing, ListGap, ListFails, Fail, reads
<1>6. CASE Walk
  BY <1>4, <1>6 DEF Walk, Ask, StartBatch, Deliver, End, LandBatch, LandLog, Landed, reads
<1>7. ASSUME NEW v \in Versions, Read(v) \/ PrefixFails(v) \/ WholeFails(v) PROVE PlanInv'
  BY <1>4, <1>7 DEF Read, ReadMissing, PrefixTells, PrefixSilent, WholeTells, WholeGarbled,
                PrefixFails, WholeFails, Prefix, WholeFile, Answered, ReadOn, GaveUp, GiveUp, Fail
<1>8. CASE UNCHANGED vars
  BY <1>4, <1>8 DEF vars, reads
<1> QED
  BY <1>2, <1>3, <1>5, <1>6, <1>7, <1>8 DEF Next, Progress, Fault, Listing
-----------------------------------------------------------------------------
(* The batch.                                                              *)

VersionInv(v) ==
    /\ stage[v] \in 1..Len(Stages) => request.walk = "commits"
    /\ stage[v] # 0 => v \in Chunk
    /\ answer[v] # << >> => answer[v] = Items(v)
    /\ phase = "batch" /\ v \in Chunk \cap before \cap log /\ stage[v] = 0 => answer[v] = Items(v)

LEMMA BatchInvParts ==
    BatchInv <=>
        /\ phase # "batch" => stage = NoRead /\ answer = NoAnswer
        /\ phase = "batch" => ready = << >> /\ pos < Len(order)
        /\ request.walk = "log" /\ phase # "ended" => out = << >> /\ ready = << >> /\ pos = 0
        /\ \A v \in Versions : VersionInv(v)
  BY DEF BatchInv, VersionInv

(* Between batches there is nothing to say. *)
LEMMA BetweenBatches ==
    ASSUME stage' = NoRead, answer' = NoAnswer, phase' # "batch",
           request'.walk = "log" /\ phase' # "ended" => out' = << >> /\ ready' = << >> /\ pos' = 0
    PROVE  BatchInv'
<1>1. ASSUME NEW v \in Versions PROVE stage'[v] = 0 /\ answer'[v] = << >>
  BY DEF NoRead, NoAnswer
<1>2. ASSUME NEW v \in Versions PROVE VersionInv(v)'
  <2>1. 0 \notin 1..Len(Stages)
    OBVIOUS
  <2> QED
    BY <1>1, <2>1 DEF VersionInv
<1> QED
  BY <1>2, BatchInvParts DEF BatchInv, VersionInv

(* A step of the read of one version leaves the other versions alone. *)
LEMMA OneRead ==
    ASSUME TypeOK, BatchInv, NEW v \in Versions, phase = "batch", phase' = "batch",
           UNCHANGED <<env, order, pos, ready, out>>,
           stage' = [stage EXCEPT ![v] = stage'[v]], answer' = [answer EXCEPT ![v] = answer'[v]],
           VersionInv(v)'
    PROVE  BatchInv'
<1>1. stage \in [Versions -> 0..Whole] /\ answer \in [Versions -> Seq(Item)]
  BY DEF TypeOK
<1>2. UNCHANGED <<history, request, before, log>>
  BY DEF env
<1>3. ASSUME NEW w \in Versions, w # v PROVE VersionInv(w)'
  <2>1. stage'[w] = stage[w] /\ answer'[w] = answer[w]
    BY <1>1, <1>3
  <2>2. Items(w)' = Items(w) /\ Chunk' = Chunk
    BY <1>2 DEF Items, Chunk, ChunkEnd
  <2>3. VersionInv(w)
    BY BatchInvParts
  <2> QED
    BY <1>2, <2>1, <2>2, <2>3 DEF VersionInv
<1>4. \A w \in Versions : VersionInv(w)'
  BY <1>3
<1>5. /\ phase' # "batch" => stage' = NoRead /\ answer' = NoAnswer
      /\ phase' = "batch" => ready' = << >> /\ pos' < Len(order')
      /\ request'.walk = "log" /\ phase' # "ended" => out' = << >> /\ ready' = << >> /\ pos' = 0
  BY <1>2 DEF BatchInv
<1> QED
  BY <1>4, <1>5, BatchInvParts DEF BatchInv, VersionInv

(* A prefix that neither holds the header nor is cut short has none to      *)
(* hold.                                                                   *)
LEMMA PrefixDecides ==
    ASSUME TypeOK, NEW v \in Versions, stage[v] \in 1..Len(Stages), request.walk = "commits",
           IsWhole(v), ~InPrefix(v)
    PROVE  Items(v) = << >>
<1>1. /\ history \in [Versions -> Commit] /\ history[v] \in Commit
      /\ history[v].info <= history[v].size
  BY DeltaLogAssumption DEF TypeOK
<1>2. history[v].info \in Nat /\ history[v].size \in Nat /\ history[v].info <= history[v].size
  BY <1>1 DEF Commit
<1>3. Stages[stage[v]] \in Nat
  <2>1. Stages \in Seq(Nat \ {0})
    BY DeltaLogAssumption
  <2>2. Stages[stage[v]] \in Nat \ {0}
    BY <2>1, ElementOfSeq
  <2> QED
    BY <2>2
<1>4. history[v].info = 0
  BY <1>2, <1>3 DEF IsWhole, InPrefix
<1> QED
  BY <1>4 DEF Items

LEMMA BatchRead ==
    ASSUME TypeOK, BatchInv, NEW v \in Versions, Read(v) \/ PrefixFails(v) \/ WholeFails(v)
    PROVE  BatchInv'
<1>1. stage \in [Versions -> 0..Whole] /\ answer \in [Versions -> Seq(Item)]
  BY DEF TypeOK
<1>2. VersionInv(v)
  BY BatchInvParts
<1>3. ASSUME NEW items, Answered(v, items), phase = "batch",
             items # << >> => items = Items(v), v \in before \cap log => items = Items(v)
      PROVE  BatchInv'
  <2>1. UNCHANGED <<env, phase, order, pos, ready, out>>
    BY <1>3 DEF Answered
  <2>2. stage' = [stage EXCEPT ![v] = 0] /\ answer' = [answer EXCEPT ![v] = items]
    BY <1>3 DEF Answered
  <2>3. stage'[v] = 0 /\ answer'[v] = items
    BY <1>1, <2>2
  <2>4. Items(v)' = Items(v) /\ UNCHANGED <<before, log>>
    BY <2>1 DEF Items, env
  <2>5. VersionInv(v)'
    BY <1>3, <2>3, <2>4 DEF VersionInv
  <2> QED
    BY <1>3, <2>1, <2>2, <2>3, <2>5, OneRead
<1>4. ASSUME NEW s \in 1..Whole, ReadOn(v, s), phase = "batch", stage[v] # 0,
             s \in 1..Len(Stages) => stage[v] \in 1..Len(Stages)
      PROVE  BatchInv'
  <2>1. UNCHANGED <<env, phase, order, pos, ready, out>> /\ answer' = answer
    BY <1>4 DEF ReadOn
  <2>2. stage' = [stage EXCEPT ![v] = s] /\ answer' = [answer EXCEPT ![v] = answer[v]]
    BY <1>1, <2>1, <1>4 DEF ReadOn
  <2>3. stage'[v] = s /\ answer'[v] = answer[v] /\ s # 0
    BY <1>1, <2>2
  <2>4. Items(v)' = Items(v) /\ Chunk' = Chunk /\ UNCHANGED request
    BY <2>1 DEF Items, Chunk, ChunkEnd, env
  <2>5. VersionInv(v)'
    BY <1>2, <1>4, <2>3, <2>4 DEF VersionInv
  <2> QED
    BY <1>4, <2>1, <2>2, <2>3, <2>5, OneRead
<1>5. CASE ReadMissing(v)
  BY <1>3, <1>5 DEF ReadMissing
<1>6. CASE PrefixTells(v)
  <2>1. stage[v] \in 1..Len(Stages) /\ request.walk = "commits" /\ phase = "batch"
    BY <1>2, <1>6 DEF PrefixTells, Prefix, VersionInv
  <2>2. CASE InPrefix(v)
    BY <1>3, <1>6, <2>1, <2>2 DEF PrefixTells
  <2>3. CASE ~InPrefix(v)
    <3>1. Items(v) = << >> /\ Answered(v, << >>)
      BY <1>6, <2>1, <2>3, PrefixDecides DEF PrefixTells
    <3> QED
      BY <1>3, <2>1, <3>1
  <2> QED
    BY <2>2, <2>3
<1>7. CASE PrefixSilent(v)
  <2>1. stage[v] \in 1..Len(Stages) /\ stage[v] + 1 \in 1..Whole /\ stage[v] # 0
    BY <1>7, WholeType DEF PrefixSilent, Prefix, Whole
  <2> QED
    BY <1>4, <1>7, <2>1 DEF PrefixSilent, Prefix
<1>8. CASE PrefixFails(v)
  <2>1. Whole \in 1..Whole /\ Whole \notin 1..Len(Stages) /\ stage[v] # 0
    BY <1>8, WholeType DEF PrefixFails, Prefix
  <2> QED
    BY <1>4, <1>8, <2>1 DEF PrefixFails, Prefix
<1>9. CASE WholeTells(v)
  BY <1>3, <1>9 DEF WholeTells, WholeFile
<1>10. CASE WholeGarbled(v) \/ WholeFails(v)
  <2>1. phase = "batch" /\ (GiveUp(v) \/ \E why \in {"parse", "storage"} : Fail(why))
    BY <1>10 DEF WholeGarbled, WholeFails, WholeFile, GaveUp
  <2>2. CASE GiveUp(v)
    <3>1. stage' = NoRead /\ answer' = NoAnswer /\ phase' = "walk" /\ request'.walk # "log"
      BY <2>2 DEF GiveUp, env
    <3> QED
      BY <3>1, BetweenBatches
  <2>3. CASE \E why \in {"parse", "storage"} : Fail(why)
    <3>1. /\ stage' = NoRead /\ answer' = NoAnswer /\ phase' = "failed"
          /\ UNCHANGED <<request, out, ready, pos>>
      BY <2>3 DEF Fail, env
    <3> QED
      BY <2>1, <3>1, BetweenBatches DEF BatchInv
  <2> QED
    BY <2>1, <2>2, <2>3
<1> QED
  BY <1>5, <1>6, <1>7, <1>8, <1>9, <1>10 DEF Read

LEMMA BatchStart ==
    ASSUME TypeOK, BatchInv, StartBatch
    PROVE  BatchInv'
<1>1. /\ phase' = "batch" /\ answer = NoAnswer
      /\ UNCHANGED <<env, order, pos, answer, ready, out>>
      /\ ready = << >> /\ pos < Len(order) /\ phase = "walk"
  BY DEF StartBatch, MayStart, BatchInv
<1> DEFINE first == IF request.walk = "commits" THEN 1 ELSE Whole
<1>2. stage' = [v \in Versions |-> IF v \in Chunk THEN first ELSE 0]
  BY DEF StartBatch
<1>3. first # 0 /\ (first \in 1..Len(Stages) => request.walk = "commits")
  BY WholeType
<1> HIDE DEF first
<1>4. Chunk' = Chunk /\ request' = request
  BY <1>1 DEF Chunk, ChunkEnd, env
<1>5. ASSUME NEW v \in Versions PROVE VersionInv(v)'
  <2>1. stage'[v] = IF v \in Chunk THEN first ELSE 0
    BY <1>2
  <2>2. answer'[v] = << >>
    BY <1>1 DEF NoAnswer
  <2>3. 0 \notin 1..Len(Stages)
    OBVIOUS
  <2> QED
    BY <1>3, <1>4, <2>1, <2>2, <2>3 DEF VersionInv
<1>6. /\ phase' # "batch" => stage' = NoRead /\ answer' = NoAnswer
      /\ phase' = "batch" => ready' = << >> /\ pos' < Len(order')
      /\ request'.walk = "log" /\ phase' # "ended" => out' = << >> /\ ready' = << >> /\ pos' = 0
  BY <1>1, <1>4 DEF BatchInv
<1> QED
  BY <1>5, <1>6, BatchInvParts DEF BatchInv, VersionInv

LEMMA BatchStep == IInv /\ [Next]_vars => BatchInv'
<1> SUFFICES ASSUME IInv, [Next]_vars PROVE BatchInv'
  OBVIOUS
<1>1. ListInv /\ TypeOK /\ BatchInv
  BY DEF IInv
<1>2. CASE CommitNext \/ Expire \/ UNCHANGED vars
  <2>1. UNCHANGED <<phase, order, out, ready, pos, stage, answer>>
    BY <1>2 DEF CommitNext, Expire, reads, vars
  <2>2. UNCHANGED <<request, history>> /\ before' \cap log' \subseteq before \cap log
    BY <1>1, <1>2, LogShrinks DEF vars, env
  <2>3. Chunk' = Chunk /\ \A v \in Versions : Items(v)' = Items(v)
    BY <2>1, <2>2 DEF Items, Chunk, ChunkEnd
  <2>4. ASSUME NEW v \in Versions PROVE VersionInv(v)'
    <3>1. VersionInv(v)
      BY <1>1, BatchInvParts
    <3> QED
      BY <2>1, <2>2, <2>3, <3>1 DEF VersionInv
  <2>5. /\ phase' # "batch" => stage' = NoRead /\ answer' = NoAnswer
        /\ phase' = "batch" => ready' = << >> /\ pos' < Len(order')
        /\ request'.walk = "log" /\ phase' # "ended" => out' = << >> /\ ready' = << >> /\ pos' = 0
    BY <1>1, <2>1, <2>2 DEF BatchInv
  <2> QED
    BY <2>4, <2>5, BatchInvParts DEF BatchInv, VersionInv
<1>3. CASE Listing \/ ListFails
  <2>1. /\ phase = "list" /\ phase' \in {"list", "walk", "failed"}
        /\ UNCHANGED <<env, out, ready, pos>>
        /\ UNCHANGED <<stage, answer>> \/ (stage' = NoRead /\ answer' = NoAnswer)
    BY <1>3 DEF Listing, ListPage, ListNothing, ListGap, ListLast, ListFails, Fail, reads
  <2>2. stage' = NoRead /\ answer' = NoAnswer /\ request' = request
    BY <1>1, <2>1 DEF BatchInv, env
  <2> QED
    BY <1>1, <2>1, <2>2, BetweenBatches DEF BatchInv
<1>4. CASE Ask \/ Deliver \/ End
  <2>1. /\ phase = "walk" /\ phase' \in {"walk", "ended"} /\ UNCHANGED <<env, stage, answer, pos>>
        /\ UNCHANGED <<out, ready>> \/ ready # << >>
    BY <1>4 DEF Ask, Deliver, End, reads
  <2>2. stage' = NoRead /\ answer' = NoAnswer /\ request' = request
    BY <1>1, <2>1 DEF BatchInv, env
  <2> QED
    BY <1>1, <2>1, <2>2, BetweenBatches DEF BatchInv
<1>5. CASE StartBatch
  BY <1>1, <1>5, BatchStart
<1>6. CASE LandBatch \/ LandLog
  <2>1. stage = NoRead
    <3>1. stage \in [Versions -> 0..Whole] /\ \A v \in Versions : stage[v] = 0
      BY <1>1, <1>6 DEF LandBatch, LandLog, Landed, InFlight, TypeOK
    <3> QED
      BY <3>1 DEF NoRead
  <2>2. /\ stage' = stage /\ answer' = NoAnswer /\ request' = request
        /\ phase' \in {"walk", "ended"} /\ (phase' = "walk" => request.walk # "log")
    BY <1>6 DEF LandBatch, LandLog, env
  <2> QED
    BY <2>1, <2>2, BetweenBatches
<1>7. ASSUME NEW v \in Versions, Read(v) \/ PrefixFails(v) \/ WholeFails(v) PROVE BatchInv'
  BY <1>1, <1>7, BatchRead
<1> QED
  BY <1>2, <1>3, <1>4, <1>5, <1>6, <1>7 DEF Next, Progress, Fault, Walk
-----------------------------------------------------------------------------
(* The items that were given and those that are ready.                     *)

(* A batch that lands gives, in walk order, what its commits have. *)
LEMMA JoinedFacts ==
    ASSUME TypeOK, PlanInv, BatchInv, phase = "batch"
    PROVE  /\ Joined \in Seq(Item)
           /\ \A i, k \in 1..Len(Joined) : i < k => Later(Joined[i], Joined[k])
           /\ \A i \in 1..Len(Joined) : \E m \in pos + 1..ChunkEnd : Joined[i][1] = order[m]
           /\ \A i \in 1..Len(Joined) : Joined[i][2] # 0
           /\ \A m \in pos + 1..ChunkEnd : ToSet(answer[order[m]]) \subseteq ToSet(Joined)
<1> DEFINE R == {p \in Item \X Item : Later(p[1], p[2])}
<1>1. /\ Answers \in Seq(Seq(Item)) /\ Len(Answers) = ChunkEnd - pos
      /\ \A i \in 1..Len(Answers) : /\ pos + i \in pos + 1..ChunkEnd
                                  /\ order[pos + i] \in Versions
                                  /\ Answers[i] = answer[order[pos + i]]
      /\ Joined = FlattenSeq(Answers)
  BY BatchType
<1>2. pos \in Nat /\ ChunkEnd \in Nat /\ Len(order) \in Nat /\ ChunkEnd <= Len(order) /\ pos <= ChunkEnd
  BY ChunkEndFacts
<1>3. ASSUME NEW j \in 1..Len(Answers), NEW a \in 1..Len(Answers[j])
      PROVE  /\ Answers[j] = Items(order[pos + j]) /\ Answers[j][a][1] = order[pos + j]
             /\ Answers[j][a] \in Item /\ Answers[j][a][2] # 0
  <2>1. order[pos + j] \in Versions /\ Answers[j] = answer[order[pos + j]]
    BY <1>1
  <2>2. Answers[j] # << >>
    BY <1>3
  <2>3. Answers[j] = Items(order[pos + j])
    BY <2>1, <2>2 DEF BatchInv
  <2> QED
    BY <2>1, <2>3, ItemsFacts
<1>4. \A j \in 1..Len(Answers) : \A a, b \in 1..Len(Answers[j]) :
         a < b => <<Answers[j][a], Answers[j][b]>> \in R
  <2> SUFFICES ASSUME NEW j \in 1..Len(Answers), NEW a \in 1..Len(Answers[j]), NEW b \in 1..Len(Answers[j]),
                      a < b
               PROVE  <<Answers[j][a], Answers[j][b]>> \in R
    OBVIOUS
  <2>1. order[pos + j] \in Versions /\ Answers[j] = Items(order[pos + j])
    BY <1>1, <1>3
  <2>2. Later(Answers[j][a], Answers[j][b])
    BY <2>1, ItemsFacts
  <2>3. Answers[j][a] \in Item /\ Answers[j][b] \in Item
    BY <1>3
  <2> QED
    BY <2>2, <2>3
<1>5. \A j, l \in 1..Len(Answers) : \A a \in 1..Len(Answers[j]), b \in 1..Len(Answers[l]) :
         j < l => <<Answers[j][a], Answers[l][b]>> \in R
  <2> SUFFICES ASSUME NEW j \in 1..Len(Answers), NEW l \in 1..Len(Answers), NEW a \in 1..Len(Answers[j]),
                      NEW b \in 1..Len(Answers[l]), j < l
               PROVE  <<Answers[j][a], Answers[l][b]>> \in R
    OBVIOUS
  <2>1. pos + j \in 1..Len(order) /\ pos + l \in 1..Len(order) /\ pos + j < pos + l
    <3>1. j \in Nat /\ l \in Nat /\ 1 <= j /\ l <= ChunkEnd - pos
      BY <1>1, <1>2
    <3> QED
      BY <1>2, <3>1
  <2>2. Precedes(order[pos + j], order[pos + l])
    <3>1. \A i, k \in 1..Len(order) : i < k => Precedes(order[i], order[k])
      BY DEF PlanInv
    <3> QED
      BY <2>1, <3>1
  <2>3. Later(Answers[j][a], Answers[l][b])
    BY <1>3, <2>2 DEF Precedes, Later
  <2>4. Answers[j][a] \in Item /\ Answers[l][b] \in Item
    BY <1>3
  <2> QED
    BY <2>3, <2>4
<1> HIDE DEF R
<1>6. Joined \in Seq(Item) /\ IsFlat(Joined, Answers, R)
  <2>1. RelatedInOrder(Answers, R)
    BY <1>4, <1>5 DEF RelatedInOrder
  <2> QED
    BY <1>1, <2>1, Flattened
<1>7. /\ Joined \in Seq(Item)
      /\ \A i, k \in 1..Len(Joined) : i < k => <<Joined[i], Joined[k]>> \in R
      /\ \A i \in 1..Len(Joined) :
            \E j \in 1..Len(Answers) : \E a \in 1..Len(Answers[j]) : Joined[i] = Answers[j][a]
      /\ \A j \in 1..Len(Answers) : \A a \in 1..Len(Answers[j]) :
            \E i \in 1..Len(Joined) : Joined[i] = Answers[j][a]
  BY <1>6 DEF IsFlat
<1>8. \A i, k \in 1..Len(Joined) : i < k => Later(Joined[i], Joined[k])
  BY <1>7 DEF R
<1>9. ASSUME NEW i \in 1..Len(Joined)
      PROVE  (\E m \in pos + 1..ChunkEnd : Joined[i][1] = order[m]) /\ Joined[i][2] # 0
  <2>1. PICK j \in 1..Len(Answers) : \E a \in 1..Len(Answers[j]) : Joined[i] = Answers[j][a]
    BY <1>7
  <2>2. Joined[i][1] = order[pos + j] /\ Joined[i][2] # 0
    BY <1>3, <2>1
  <2> QED
    BY <1>1, <2>2
<1>10. ASSUME NEW m \in pos + 1..ChunkEnd PROVE ToSet(answer[order[m]]) \subseteq ToSet(Joined)
  <2>1. m - pos \in 1..Len(Answers) /\ pos + (m - pos) = m
    BY <1>1, <1>2
  <2>2. Answers[m - pos] = answer[order[m]] /\ Answers[m - pos] \in Seq(Item)
    BY <1>1, <2>1
  <2>3. \A a \in 1..Len(Answers[m - pos]) : \E i \in 1..Len(Joined) : Joined[i] = Answers[m - pos][a]
    BY <1>7, <2>1
  <2>4. DOMAIN Joined = 1..Len(Joined) /\ DOMAIN Answers[m - pos] = 1..Len(Answers[m - pos])
    BY <1>7, <2>2, LenProperties
  <2> QED
    BY <2>2, <2>3, <2>4 DEF ToSet
<1> QED
  BY <1>7, <1>8, <1>9, <1>10
LEMMA StreamType ==
    ASSUME TypeOK
    PROVE  /\ Stream \in Seq(Item) /\ Len(Stream) \in Nat /\ Len(Stream) = Len(out) + Len(ready)
           /\ \A i \in 1..Len(out) : Stream[i] = out[i]
           /\ \A i \in 1..Len(ready) : Stream[Len(out) + i] = ready[i]
           /\ ToSet(Stream) = ToSet(out) \cup ToSet(ready)
<1>1. out \in Seq(Item) /\ ready \in Seq(Item)
  BY DEF TypeOK
<1>2. Len(out) \in Nat /\ Len(ready) \in Nat /\ DOMAIN out = 1..Len(out) /\ DOMAIN ready = 1..Len(ready)
  BY <1>1, LenProperties
<1>3. /\ Stream \in Seq(Item) /\ Len(Stream) = Len(out) + Len(ready)
      /\ \A i \in 1..Len(out) : Stream[i] = out[i]
      /\ \A i \in 1..Len(ready) : Stream[Len(out) + i] = ready[i]
  BY <1>1 DEF Stream
<1>4. DOMAIN Stream = 1..Len(out) + Len(ready)
  BY <1>3, LenProperties
<1>5. ToSet(Stream) \subseteq ToSet(out) \cup ToSet(ready)
  <2> SUFFICES ASSUME NEW i \in 1..Len(out) + Len(ready)
               PROVE  Stream[i] \in ToSet(out) \cup ToSet(ready)
    BY <1>4 DEF ToSet
  <2>1. CASE i \in 1..Len(out)
    BY <1>2, <1>3, <2>1 DEF ToSet
  <2>2. CASE i \notin 1..Len(out)
    <3>1. i - Len(out) \in 1..Len(ready) /\ Len(out) + (i - Len(out)) = i
      BY <1>2, <2>2
    <3>2. Stream[i] = ready[i - Len(out)]
      BY <1>3, <3>1
    <3> QED
      BY <1>2, <3>1, <3>2 DEF ToSet
  <2> QED
    BY <2>1, <2>2
<1>6. ToSet(out) \cup ToSet(ready) \subseteq ToSet(Stream)
  <2>1. \A i \in 1..Len(out) : i \in DOMAIN Stream
    BY <1>2, <1>4
  <2>2. \A i \in 1..Len(ready) : Len(out) + i \in DOMAIN Stream
    BY <1>2, <1>4
  <2> QED
    BY <1>2, <1>3, <2>1, <2>2 DEF ToSet
<1> QED
  BY <1>2, <1>3, <1>5, <1>6

(* Handing over an item changes nothing of what was given or is ready. *)
LEMMA DeliverKeepsStream ==
    ASSUME TypeOK, Deliver
    PROVE  Stream' = Stream
<1>1. ready \in Seq(Item) /\ out \in Seq(Item) /\ ready # << >>
  BY DEF Deliver, TypeOK
<1>2. out' = Append(out, Head(ready)) /\ ready' = Tail(ready)
  BY DEF Deliver
<1>3. Head(ready) \in Item /\ Tail(ready) \in Seq(Item) /\ ready = << Head(ready) >> \o Tail(ready)
  BY <1>1
<1>4. Append(out, Head(ready)) = out \o << Head(ready) >>
  BY <1>1, <1>3, AppendIsConcat
<1>5. << Head(ready) >> \in Seq(Item)
  BY <1>3
<1>6. (out \o << Head(ready) >>) \o Tail(ready) = out \o (<< Head(ready) >> \o Tail(ready))
  BY <1>1, <1>3, <1>5, ConcatAssociative
<1> QED
  BY <1>2, <1>3, <1>4, <1>6 DEF Stream

(* No two versions of the plan are the same. *)
LEMMA PlanOnce ==
    ASSUME TypeOK, PlanInv, NEW k \in 1..Len(order), NEW l \in 1..Len(order), order[k] = order[l]
    PROVE  k = l
<1>1. order[k] \in Nat
  <2>1. order[k] \in Versions
    BY DEF TypeOK
  <2> QED
    BY <2>1, LogVersions
<1>2. k \in Nat /\ l \in Nat
  OBVIOUS
<1>3. ASSUME k < l \/ l < k PROVE FALSE
  <2>1. Precedes(order[k], order[l]) \/ Precedes(order[l], order[k])
    BY <1>3 DEF PlanInv
  <2> QED
    BY <1>1, <2>1 DEF Precedes
<1> QED
  BY <1>2, <1>3

(* A batch begins where one ended: what is before it is of other batches,  *)
(* what it reads of its own.                                               *)
LEMMA BatchesApart ==
    ASSUME NEW b \in Nat, NEW i \in Nat, NEW m \in Nat, i <= b * Width, b * Width < m
    PROVE  ~Mates(i, m)
<1> SUFFICES ASSUME NEW c \in Nat, c * Width < i, m <= c * Width + Width PROVE FALSE
  BY DEF Mates
<1>0. Width \in Nat /\ b * Width \in Nat /\ c * Width \in Nat
  BY DeltaLogAssumption
<1>1. CASE b <= c
  <2>1. PICK d \in Nat : c = b + d
    <3>1. c - b \in Nat /\ c = b + (c - b)
      BY <1>1
    <3> QED
      BY <3>1
  <2>2. c * Width = b * Width + d * Width /\ d * Width \in Nat
    BY <1>0, <2>1
  <2> QED
    BY <1>0, <2>2
<1>2. CASE c < b
  <2>1. PICK d \in Nat : b = (c + 1) + d
    <3>1. b - (c + 1) \in Nat /\ b = (c + 1) + (b - (c + 1))
      BY <1>2
    <3> QED
      BY <3>1
  <2>2. b * Width = (c * Width + Width) + d * Width /\ d * Width \in Nat
    BY <1>0, <2>1
  <2> QED
    BY <1>0, <2>2
<1> QED
  BY <1>1, <1>2

LEMMA BatchBetween ==
    ASSUME NEW k \in Nat, NEW m \in Nat, NEW l \in Nat, k <= m, m <= l, Mates(k, l)
    PROVE  Mates(l, m)
<1>1. PICK b \in Nat : /\ b * Width < k /\ k <= b * Width + Width
                       /\ b * Width < l /\ l <= b * Width + Width
  BY DEF Mates
<1>2. b * Width \in Nat /\ Width \in Nat
  BY DeltaLogAssumption
<1>3. b * Width < m /\ m <= b * Width + Width
  BY <1>1, <1>2
<1> QED
  BY <1>1, <1>3 DEF Mates

LEMMA BatchTogether ==
    ASSUME TypeOK, request.walk # "log", pos # Len(order), NEW b \in Nat, pos = b * Width
    PROVE  /\ \A k, l \in pos + 1..ChunkEnd : Mates(k, l)
           /\ ChunkEnd # Len(order) => ChunkEnd = (b + 1) * Width
<1>1. Width \in Nat /\ b * Width \in Nat /\ Len(order) \in Nat /\ pos \in Nat
  BY ChunkEndFacts, DeltaLogAssumption
<1>2. ChunkEnd = IF pos + Width <= Len(order) THEN pos + Width ELSE Len(order)
  BY <1>1, MinOfPair DEF ChunkEnd
<1>3. ASSUME NEW k \in pos + 1..ChunkEnd, NEW l \in pos + 1..ChunkEnd PROVE Mates(k, l)
  <2>1. ChunkEnd \in Nat /\ ChunkEnd <= pos + Width
    BY <1>1, <1>2
  <2>2. /\ b * Width < k /\ k <= b * Width + Width
        /\ b * Width < l /\ l <= b * Width + Width
    <3> HIDE DEF ChunkEnd
    <3> QED
      BY <1>1, <2>1
  <2> QED
    BY <2>2 DEF Mates
<1>4. (b + 1) * Width = b * Width + Width
  BY <1>1
<1> QED
  BY <1>1, <1>2, <1>3, <1>4

(* What the end of a batch adds to the stream: items of its versions, in    *)
(* order; all that these have, or one Err.                                 *)
Gives(given) ==
    /\ given \in Seq(Item)
    /\ \A i, k \in 1..Len(given) : i < k => Later(given[i], given[k])
    /\ \A i \in 1..Len(given) : \E m \in pos + 1..ChunkEnd : given[i][1] = order[m]
    /\ \/ /\ \A i \in 1..Len(given) : given[i][2] # 0
          /\ \A m \in pos + 1..ChunkEnd : order[m] \in before \cap log =>
                ToSet(Items(order[m])) \subseteq ToSet(given)
       \/ /\ request.walk # "log"
          /\ \E m \in pos + 1..ChunkEnd : given = << <<order[m], 0>> >>

BatchEnds(given) ==
    /\ pos' = ChunkEnd /\ phase = "batch" /\ Stream' = Stream \o given
    /\ UNCHANGED <<env, order>> /\ phase' \in {"walk", "ended"}
    /\ phase' = "ended" => request.walk = "log" /\ ready' = ready

(* The stream after it. *)
LEMMA StreamGrows ==
    ASSUME TypeOK, NEW given, given \in Seq(Item), Stream' = Stream \o given
    PROVE  /\ Stream' \in Seq(Item) /\ Len(Stream') = Len(Stream) + Len(given)
           /\ Len(Stream) \in Nat /\ Len(given) \in Nat
           /\ \A i \in 1..Len(Stream) : i \in 1..Len(Stream') /\ Stream'[i] = Stream[i]
           /\ \A i \in 1..Len(Stream') : i \notin 1..Len(Stream) =>
                 i - Len(Stream) \in 1..Len(given) /\ Stream'[i] = given[i - Len(Stream)]
           /\ ToSet(Stream) \subseteq ToSet(Stream') /\ ToSet(given) \subseteq ToSet(Stream')
<1>1. Stream \in Seq(Item) /\ Len(Stream) \in Nat /\ Len(given) \in Nat
  BY StreamType, LenProperties
<1>2. /\ Stream' \in Seq(Item) /\ Len(Stream') = Len(Stream) + Len(given)
      /\ \A i \in 1..Len(Stream) : Stream'[i] = Stream[i]
      /\ \A i \in 1..Len(given) : Stream'[Len(Stream) + i] = given[i]
  BY <1>1
<1>3. \A i \in 1..Len(Stream) : i \in 1..Len(Stream')
  BY <1>1, <1>2
<1>4. ASSUME NEW i \in 1..Len(Stream'), i \notin 1..Len(Stream)
      PROVE  i - Len(Stream) \in 1..Len(given) /\ Stream'[i] = given[i - Len(Stream)]
  <2>1. i - Len(Stream) \in 1..Len(given) /\ Len(Stream) + (i - Len(Stream)) = i
    BY <1>1, <1>2, <1>4
  <2> QED
    BY <1>2, <2>1
<1>5. ToSet(Stream) \subseteq ToSet(Stream') /\ ToSet(given) \subseteq ToSet(Stream')
  <2>1. /\ DOMAIN Stream = 1..Len(Stream) /\ DOMAIN given = 1..Len(given)
        /\ DOMAIN Stream' = 1..Len(Stream')
    BY <1>1, <1>2, LenProperties
  <2>2. \A i \in 1..Len(given) : Len(Stream) + i \in 1..Len(Stream')
    BY <1>1, <1>2
  <2> QED
    BY <1>2, <1>3, <2>1, <2>2 DEF ToSet
<1> QED
  BY <1>1, <1>2, <1>3, <1>4, <1>5

(* Of which versions it is, and in which order. *)
LEMMA StreamEndOrder ==
    ASSUME TypeOK, PlanInv, StreamInv, NEW given, Gives(given), BatchEnds(given)
    PROVE  /\ \A i, k \in 1..Len(Stream') : i < k => Later(Stream'[i], Stream'[k])
           /\ \A i \in 1..Len(Stream') : \E k \in 1..pos' : Stream'[i][1] = order[k]
<1>1. /\ Len(Stream') = Len(Stream) + Len(given) /\ Len(Stream) \in Nat /\ Len(given) \in Nat
      /\ \A i \in 1..Len(Stream) : Stream'[i] = Stream[i]
      /\ \A i \in 1..Len(Stream') : i \notin 1..Len(Stream) =>
            i - Len(Stream) \in 1..Len(given) /\ Stream'[i] = given[i - Len(Stream)]
  BY StreamGrows DEF Gives, BatchEnds
<1>2. pos \in Nat /\ ChunkEnd \in Nat /\ Len(order) \in Nat /\ ChunkEnd <= Len(order) /\ pos <= ChunkEnd
  BY ChunkEndFacts
<1>3. pos' = ChunkEnd
  BY DEF BatchEnds
<1>4. ASSUME NEW i \in 1..Len(Stream'), NEW k \in 1..Len(Stream'), i < k
      PROVE  Later(Stream'[i], Stream'[k])
  <2>1. CASE k \in 1..Len(Stream)
    <3>1. i \in 1..Len(Stream)
      BY <1>1, <1>4, <2>1
    <3> QED
      BY <1>1, <1>4, <2>1, <3>1 DEF StreamInv
  <2>2. CASE i \in 1..Len(Stream) /\ k \notin 1..Len(Stream)
    <3>1. PICK m \in 1..pos : Stream[i][1] = order[m]
      BY <2>2 DEF StreamInv
    <3>2. PICK l \in pos + 1..ChunkEnd : Stream'[k][1] = order[l]
      BY <1>1, <2>2 DEF Gives
    <3>3. m \in 1..Len(order) /\ l \in 1..Len(order) /\ m < l
      BY <1>2
    <3>4. Precedes(order[m], order[l])
      BY <3>3 DEF PlanInv
    <3>5. Stream'[i] = Stream[i]
      BY <1>1, <2>2
    <3> QED
      BY <3>1, <3>2, <3>4, <3>5 DEF Precedes, Later
  <2>3. CASE i \notin 1..Len(Stream)
    <3>1. k \notin 1..Len(Stream)
      BY <1>1, <1>4, <2>3
    <3>2. /\ i - Len(Stream) \in 1..Len(given) /\ Stream'[i] = given[i - Len(Stream)]
          /\ k - Len(Stream) \in 1..Len(given) /\ Stream'[k] = given[k - Len(Stream)]
      BY <1>1, <2>3, <3>1
    <3>3. i - Len(Stream) < k - Len(Stream)
      BY <1>1, <1>4
    <3> QED
      BY <3>2, <3>3 DEF Gives
  <2> QED
    BY <2>1, <2>2, <2>3
<1>5. ASSUME NEW i \in 1..Len(Stream') PROVE \E k \in 1..pos' : Stream'[i][1] = order[k]
  <2>1. CASE i \in 1..Len(Stream)
    <3>1. PICK k \in 1..pos : Stream[i][1] = order[k]
      BY <2>1 DEF StreamInv
    <3>2. k \in 1..pos'
      BY <1>2, <1>3
    <3> QED
      BY <1>1, <2>1, <3>1, <3>2
  <2>2. CASE i \notin 1..Len(Stream)
    <3>1. PICK k \in pos + 1..ChunkEnd : Stream'[i][1] = order[k]
      BY <1>1, <2>2 DEF Gives
    <3>2. k \in 1..pos'
      BY <1>2, <1>3
    <3> QED
      BY <3>1, <3>2
  <2> QED
    BY <2>1, <2>2
<1> QED
  BY <1>4, <1>5

(* Each version read has given all, or its batch has told. *)
LEMMA StreamEndAll ==
    ASSUME TypeOK, BatchInv, StreamInv, NEW given, Gives(given), BatchEnds(given),
           NEW k \in 1..pos', order[k] \in before \cap log
    PROVE  \/ ToSet(Items(order[k])) \subseteq ToSet(Stream')
           \/ \E l \in 1..pos' : Mates(k, l) /\ <<order[l], 0>> \in ToSet(Stream')
<1>1. ToSet(Stream) \subseteq ToSet(Stream') /\ ToSet(given) \subseteq ToSet(Stream')
  BY StreamGrows DEF Gives, BatchEnds
<1>2. /\ pos \in Nat /\ ChunkEnd \in Nat /\ Len(order) \in Nat /\ ChunkEnd <= Len(order)
      /\ pos <= ChunkEnd /\ pos' = ChunkEnd /\ pos < Len(order)
  BY ChunkEndFacts DEF BatchEnds, BatchInv
<1>3. CASE k \in 1..pos
  <2>1. CASE ToSet(Items(order[k])) \subseteq ToSet(Stream)
    BY <1>1, <2>1
  <2>2. CASE ToldIn(Stream, k)
    <3>1. PICK l \in 1..pos : Mates(k, l) /\ <<order[l], 0>> \in ToSet(Stream)
      BY <2>2 DEF ToldIn
    <3>2. l \in 1..pos'
      BY <1>2
    <3> QED
      BY <1>1, <3>1, <3>2
  <2> QED
    BY <1>3, <2>1, <2>2 DEF StreamInv
<1>4. CASE k \notin 1..pos
  <2>1. k \in pos + 1..ChunkEnd
    BY <1>2, <1>4
  <2>2. CASE \A m \in pos + 1..ChunkEnd : order[m] \in before \cap log =>
                ToSet(Items(order[m])) \subseteq ToSet(given)
    BY <1>1, <2>1, <2>2
  <2>3. CASE request.walk # "log" /\ \E m \in pos + 1..ChunkEnd : given = << <<order[m], 0>> >>
    <3>1. PICK m \in pos + 1..ChunkEnd : given = << <<order[m], 0>> >>
      BY <2>3
    <3>2. <<order[m], 0>> \in ToSet(given)
      <4>1. 1 \in DOMAIN given /\ given[1] = <<order[m], 0>>
        BY <3>1
      <4> QED
        BY <4>1 DEF ToSet
    <3>3. PICK b \in Nat : pos = b * Width
      BY <1>2, <2>3 DEF StreamInv
    <3>4. Mates(k, m)
      BY <1>2, <2>1, <2>3, <3>3, BatchTogether
    <3>5. m \in 1..pos'
      BY <1>2
    <3> QED
      BY <1>1, <3>2, <3>4, <3>5
  <2> QED
    BY <2>2, <2>3 DEF Gives
<1> QED
  BY <1>3, <1>4

(* An Err is all its batch gives. *)
LEMMA StreamEndAlone ==
    ASSUME TypeOK, PlanInv, BatchInv, StreamInv, NEW given, Gives(given), BatchEnds(given),
           NEW i \in 1..Len(Stream'), NEW j \in 1..Len(Stream'), NEW k \in 1..pos', NEW l \in 1..pos',
           Mates(k, l), Stream'[i] = <<order[k], 0>>, Stream'[j][1] = order[l]
    PROVE  i = j
<1>1. /\ Len(Stream') = Len(Stream) + Len(given) /\ Len(Stream) \in Nat /\ Len(given) \in Nat
      /\ \A n \in 1..Len(Stream) : Stream'[n] = Stream[n]
      /\ \A n \in 1..Len(Stream') : n \notin 1..Len(Stream) =>
            n - Len(Stream) \in 1..Len(given) /\ Stream'[n] = given[n - Len(Stream)]
  BY StreamGrows DEF Gives, BatchEnds
<1>2. /\ pos \in Nat /\ ChunkEnd \in Nat /\ Len(order) \in Nat /\ ChunkEnd <= Len(order)
      /\ pos <= ChunkEnd /\ pos' = ChunkEnd /\ pos < Len(order)
  BY ChunkEndFacts DEF BatchEnds, BatchInv
<1>3. k \in 1..Len(order) /\ l \in 1..Len(order) /\ k \in Nat /\ l \in Nat
  BY <1>2
<1>4. \A o \in pos + 1..ChunkEnd : o \in 1..Len(order)
  BY <1>2, SMTT(30)
<1>5. ASSUME NEW n \in 1..Len(Stream), NEW m \in 1..Len(order), Stream[n][1] = order[m]
      PROVE  m \in 1..pos
  <2>1. PICK o \in 1..pos : Stream[n][1] = order[o]
    BY DEF StreamInv
  <2>2. o \in 1..Len(order)
    BY <1>2
  <2> QED
    BY <1>5, <2>1, <2>2, PlanOnce
<1>6. ASSUME NEW n \in 1..Len(Stream'), n \notin 1..Len(Stream),
             NEW m \in 1..Len(order), Stream'[n][1] = order[m]
      PROVE  m \in pos + 1..ChunkEnd
  <2>1. PICK o \in pos + 1..ChunkEnd : given[n - Len(Stream)][1] = order[o]
    BY <1>1, <1>6 DEF Gives
  <2>2. order[o] = order[m]
    BY <1>1, <1>6, <2>1
  <2>3. o \in 1..Len(order)
    BY <1>4
  <2>4. o = m
    BY <2>2, <2>3, PlanOnce
  <2> QED
    BY <2>4
<1>7. Mates(l, k)
  BY DEF Mates
<1>8. ASSUME NEW m \in 1..pos, NEW o \in pos + 1..ChunkEnd, Mates(m, o) PROVE FALSE
  <2>1. request.walk # "log"
    BY <1>2 DEF BatchInv, BatchEnds
  <2>2. PICK b \in Nat : pos = b * Width
    BY <1>2, <2>1 DEF StreamInv
  <2>3. m \in Nat /\ o \in Nat /\ m <= b * Width /\ b * Width < o
    BY <1>2, <2>2
  <2> QED
    BY <1>8, <2>3, BatchesApart
<1>9. Stream'[i][1] = order[k]
  OBVIOUS
<1>10. CASE i \in 1..Len(Stream) /\ j \in 1..Len(Stream)
  <2>1. Stream[i] = <<order[k], 0>> /\ Stream[j][1] = order[l] /\ Stream[i][1] = order[k]
    BY <1>1, <1>10
  <2>2. k \in 1..pos /\ l \in 1..pos
    BY <1>3, <1>5, <1>10, <2>1
  <2> QED
    BY <1>10, <2>1, <2>2 DEF StreamInv
<1>11. CASE i \in 1..Len(Stream) /\ j \notin 1..Len(Stream)
  <2>1. k \in 1..pos /\ l \in pos + 1..ChunkEnd
    BY <1>1, <1>3, <1>5, <1>6, <1>9, <1>11
  <2> QED
    BY <1>8, <2>1
<1>12. CASE i \notin 1..Len(Stream) /\ j \in 1..Len(Stream)
  <2>1. l \in 1..pos /\ k \in pos + 1..ChunkEnd
    BY <1>1, <1>3, <1>5, <1>6, <1>9, <1>12
  <2> QED
    BY <1>7, <1>8, <2>1
<1>13. CASE i \notin 1..Len(Stream) /\ j \notin 1..Len(Stream)
  <2>1. given[i - Len(Stream)][2] = 0 /\ i - Len(Stream) \in 1..Len(given)
    BY <1>1, <1>13
  <2>2. Len(given) = 1
    BY <2>1 DEF Gives
  <2>3. i - Len(Stream) \in 1..1 /\ j - Len(Stream) \in 1..1
    BY <1>1, <1>13, <2>2
  <2> QED
    BY <1>1, <2>3
<1> QED
  BY <1>10, <1>11, <1>12, <1>13

LEMMA StreamEnd ==
    ASSUME TypeOK, PlanInv, BatchInv, StreamInv, NEW given, Gives(given), BatchEnds(given)
    PROVE  StreamInv'
<1>1. /\ pos \in Nat /\ ChunkEnd \in Nat /\ Len(order) \in Nat /\ ChunkEnd <= Len(order)
      /\ pos < Len(order) /\ (request.walk = "log" => ChunkEnd = Len(order))
  BY ChunkEndFacts DEF BatchEnds, BatchInv
<1>2. /\ pos' = ChunkEnd /\ order' = order /\ UNCHANGED <<history, request, before, log>>
      /\ phase' = "ended" => request.walk = "log" /\ ready' = << >>
  BY DEF BatchEnds, BatchInv, env
<1>3. \A i, j \in 1..Len(Stream') : i < j => Later(Stream[i], Stream[j])'
  BY <1>2, StreamEndOrder DEF Later
<1>4. \A i \in 1..Len(Stream') : \E k \in 1..pos' : Stream'[i][1] = order'[k]
  BY <1>2, StreamEndOrder
<1>5. ASSUME NEW k \in 1..pos', order'[k] \in before' \cap log'
      PROVE  ToSet(Items(order[k]))' \subseteq ToSet(Stream)' \/ ToldIn(Stream, k)'
  <2>1. order[k] \in before \cap log
    BY <1>2, <1>5
  <2>2. Items(order[k])' = Items(order[k])
    BY <1>2 DEF Items
  <2>3. ToSet(Items(order[k]))' = ToSet(Items(order[k]))
    BY <2>2 DEF ToSet
  <2>4. (\E l \in 1..pos' : Mates(k, l) /\ <<order[l], 0>> \in ToSet(Stream')) => ToldIn(Stream, k)'
    BY <1>2 DEF ToldIn, Mates, ToSet
  <2> QED
    BY <1>2, <2>1, <2>3, <2>4, StreamEndAll
<1>6. \A i, j \in 1..Len(Stream'), k, l \in 1..pos' :
         Mates(k, l) /\ Stream'[i] = <<order[k], 0>> /\ Stream'[j][1] = order[l] => i = j
  BY StreamEndAlone
<1>7. request.walk # "log" /\ pos' # Len(order) => \E b \in Nat : pos' = b * Width
  <2> SUFFICES ASSUME request.walk # "log", pos' # Len(order) PROVE \E b \in Nat : pos' = b * Width
    OBVIOUS
  <2>1. PICK b \in Nat : pos = b * Width
    BY <1>1 DEF StreamInv
  <2>2. pos' = (b + 1) * Width /\ b + 1 \in Nat
    BY <1>1, <1>2, <2>1, BatchTogether
  <2> QED
    BY <2>2
<1>8. (/\ request.walk # "log" /\ pos # Len(order) => \E b \in Nat : pos = b * Width
       /\ phase = "ended" => pos = Len(order) /\ ready = << >>)'
  BY <1>1, <1>2, <1>7
<1>9. (\A i, j \in 1..Len(Stream), k, l \in 1..pos :
          Mates(k, l) /\ Stream[i] = <<order[k], 0>> /\ Stream[j][1] = order[l] => i = j)'
  BY <1>2, <1>6 DEF Mates
<1>10. (\A k \in 1..pos : order[k] \in before \cap log =>
           ToSet(Items(order[k])) \subseteq ToSet(Stream) \/ ToldIn(Stream, k))'
  BY <1>5
<1> QED
  BY <1>3, <1>4, <1>8, <1>9, <1>10 DEF StreamInv

(* A batch all of whose reads were answered. *)
LEMMA StreamLand ==
    ASSUME TypeOK, PlanInv, BatchInv, StreamInv, LandBatch \/ LandLog
    PROVE  StreamInv'
<1>1. phase = "batch" /\ InFlight = {} /\ ready = << >> /\ out \in Seq(Item)
  BY DEF LandBatch, LandLog, Landed, BatchInv, TypeOK
<1>2. /\ Joined \in Seq(Item)
      /\ \A i, k \in 1..Len(Joined) : i < k => Later(Joined[i], Joined[k])
      /\ \A i \in 1..Len(Joined) : \E m \in pos + 1..ChunkEnd : Joined[i][1] = order[m]
      /\ \A m \in pos + 1..ChunkEnd : ToSet(answer[order[m]]) \subseteq ToSet(Joined)
      /\ \A i \in 1..Len(Joined) : Joined[i][2] # 0
  BY <1>1, JoinedFacts
<1>3. ASSUME NEW m \in pos + 1..ChunkEnd, order[m] \in before \cap log
      PROVE  ToSet(Items(order[m])) \subseteq ToSet(Joined)
  <2>1. order[m] \in Versions
    BY <1>3, LogVersions
  <2>2. stage[order[m]] = 0
    BY <1>1, <2>1 DEF InFlight
  <2>3. order[m] \in Chunk
    BY DEF Chunk
  <2>4. answer[order[m]] = Items(order[m])
    BY <1>1, <1>3, <2>1, <2>2, <2>3 DEF BatchInv
  <2> QED
    BY <1>2, <2>4
<1>4. Gives(Joined)
  BY <1>2, <1>3 DEF Gives
<1>5. Stream' = Stream \o Joined
  <2>1. Stream = out
    BY <1>1 DEF Stream
  <2>2. CASE LandBatch
    BY <2>1, <2>2 DEF LandBatch, Stream
  <2>3. CASE LandLog
    <3>1. out = << >> /\ out' = Joined /\ ready' = << >>
      BY <1>1, <2>3 DEF LandLog, BatchInv
    <3> QED
      BY <1>2, <2>1, <3>1 DEF Stream
  <2> QED
    BY <2>2, <2>3
<1>6. BatchEnds(Joined)
  BY <1>1, <1>5 DEF BatchEnds, LandBatch, LandLog
<1> HIDE DEF Joined
<1> QED
  BY <1>4, <1>6, StreamEnd

(* A batch of which a read failed. *)
LEMMA StreamGiveUp ==
    ASSUME TypeOK, PlanInv, BatchInv, StreamInv, NEW v \in Versions,
           phase = "batch", stage[v] # 0, GiveUp(v)
    PROVE  StreamInv'
<1> DEFINE given == << <<v, 0>> >>
<1>1. PICK m \in pos + 1..ChunkEnd : v = order[m]
  BY DEF BatchInv, Chunk
<1>2. given \in Seq(Item) /\ Len(given) = 1 /\ given[1] = <<v, 0>>
  BY DEF Item
<1>3. Gives(given)
  <2>1. \A i, k \in 1..Len(given) : ~(i < k)
    BY <1>2
  <2>2. \A i \in 1..Len(given) : given[i][1] = order[m]
    BY <1>1, <1>2
  <2>3. request.walk # "log" /\ given = << <<order[m], 0>> >>
    BY <1>1 DEF GiveUp
  <2> HIDE DEF given
  <2> QED
    BY <1>2, <2>1, <2>2, <2>3 DEF Gives
<1>4. Stream' = Stream \o given
  <2>1. ready = << >> /\ out \in Seq(Item) /\ out' = out /\ ready' = given
    BY DEF GiveUp, BatchInv, TypeOK
  <2>2. Stream = out
    BY <2>1 DEF Stream
  <2> HIDE DEF given
  <2> QED
    BY <2>1, <2>2 DEF Stream
<1>5. BatchEnds(given)
  BY <1>4 DEF BatchEnds, GiveUp
<1> HIDE DEF given
<1> QED
  BY <1>3, <1>5, StreamEnd

LEMMA StreamStep == IInv /\ [Next]_vars => StreamInv'
<1> SUFFICES ASSUME IInv, [Next]_vars PROVE StreamInv'
  OBVIOUS
<1>1. TypeOK /\ ListInv /\ PlanInv /\ BatchInv /\ StreamInv
  BY DEF IInv
<1>2. ASSUME UNCHANGED <<history, request, order, pos>>, Stream' = Stream,
             before' \cap log' \subseteq before \cap log,
             phase' = "ended" => pos = Len(order) /\ ready' = << >>
      PROVE  StreamInv'
  <2>1. \A i, j \in 1..Len(Stream) : Later(Stream[i], Stream[j])' <=> Later(Stream[i], Stream[j])
    BY <1>2 DEF Later
  <2>2. \A k \in 1..pos : ToSet(Items(order[k]))' = ToSet(Items(order[k]))
    BY <1>2 DEF Items, ToSet
  <2>3. \A k \in 1..pos : ToldIn(Stream, k)' <=> ToldIn(Stream, k)
    BY <1>2 DEF ToldIn, Mates, ToSet
  <2>4. \A k, l \in 1..pos : Mates(k, l)' <=> Mates(k, l)
    BY DEF Mates
  <2>5. ToSet(Stream)' = ToSet(Stream)
    BY <1>2 DEF ToSet
  <2> QED
    BY <1>1, <1>2, <2>1, <2>2, <2>3, <2>4, <2>5 DEF StreamInv
<1>3. CASE CommitNext \/ Expire
  <2>1. UNCHANGED <<phase, order, out, ready, pos>>
    BY <1>3 DEF CommitNext, Expire, reads
  <2> QED
    BY <1>1, <1>2, <1>3, <2>1, LogShrinks DEF Stream, StreamInv
<1>4. CASE Listing \/ ListFails
  <2>1. /\ phase = "list" /\ phase' \in {"list", "walk", "failed"}
        /\ UNCHANGED <<env, out, ready, pos>>
    BY <1>4 DEF Listing, ListPage, ListNothing, ListGap, ListLast, ListFails, Fail, reads
  <2>2. out' = << >> /\ ready' = << >> /\ pos' = 0
    BY <1>1, <2>1 DEF ListInv
  <2>3. Stream' = << >> /\ Len(Stream') = 0
    BY <2>2 DEF Stream
  <2>4. pos' = 0 * Width
    BY <2>2, DeltaLogAssumption
  <2> QED
    BY <2>1, <2>2, <2>3, <2>4 DEF StreamInv
<1>5. CASE Ask \/ StartBatch \/ End \/ Deliver
  <2>1. /\ UNCHANGED <<env, order, pos>> /\ phase' \in {"walk", "batch", "ended"}
        /\ phase' = "ended" => pos = Len(order) /\ ready' = << >>
    BY <1>5 DEF Ask, StartBatch, End, Deliver, Exhausted, reads
  <2>2. Stream' = Stream
    BY <1>1, <1>5, DeliverKeepsStream DEF Ask, StartBatch, End, Stream
  <2> QED
    BY <1>2, <2>1, <2>2 DEF env
<1>6. CASE LandBatch \/ LandLog
  BY <1>1, <1>6, StreamLand
<1>7. ASSUME NEW v \in Versions, Read(v) \/ PrefixFails(v) \/ WholeFails(v) PROVE StreamInv'
  <2>1. phase = "batch" /\ stage[v] # 0
    BY <1>7, WholeType DEF Read, ReadMissing, PrefixTells, PrefixSilent, WholeTells, WholeGarbled,
                PrefixFails, WholeFails, Prefix, WholeFile
  <2>2. \/ GiveUp(v)
        \/ UNCHANGED <<env, order, pos, out, ready>> /\ phase' \in {"batch", "failed"}
    BY <1>7, <2>1 DEF Read, ReadMissing, PrefixTells, PrefixSilent, WholeTells, WholeGarbled,
                PrefixFails, WholeFails, Prefix, WholeFile, Answered, ReadOn, GaveUp, Fail
  <2>3. CASE GiveUp(v)
    BY <1>1, <2>1, <2>3, StreamGiveUp
  <2> QED
    BY <1>2, <2>2, <2>3 DEF env, Stream
<1>8. CASE UNCHANGED vars
  <2>1. UNCHANGED <<env, order, pos, out, ready, phase>>
    BY <1>8 DEF vars, reads
  <2> QED
    BY <1>1, <1>2, <2>1 DEF env, Stream, StreamInv
<1> QED
  BY <1>3, <1>4, <1>5, <1>6, <1>7, <1>8 DEF Next, Progress, Fault, Walk
-----------------------------------------------------------------------------
(* The invariant and what it implies.                                      *)

LEMMA InvInit == Init => IInv
<1> SUFFICES ASSUME Init PROVE IInv
  OBVIOUS
<1>1. TypeOK
  BY TypeInit
<1>2. LostInv
  <2>1. PICK expired \in 0..next : log = (expired..next - 1) \ lost
    BY DEF Init
  <2>2. lost \subseteq 0..next - 1
    BY DEF Init
  <2> QED
    BY <2>1, <2>2 DEF LostInv
<1>3. ListInv
  <2>1. \A v \in before \cap log : ~(v < cursor)
    BY <1>1, LogVersions DEF Init
  <2> QED
    BY <2>1 DEF ListInv, Init
<1>4. PlanInv
  <2>1. CASE request.all
    <3>1. phase = "list" /\ order = << >>
      BY <2>1 DEF Init
    <3>2. Planned = {}
      BY <3>1 DEF Planned
    <3> QED
      BY <3>1, <3>2 DEF PlanInv
  <2>2. CASE ~request.all
    <3>1. order = Arranged(request.named) /\ request.named \in SUBSET Versions
      BY <2>2, DeltaLogAssumption DEF Init, Request
    <3>2. Planned = request.named
      BY <1>1, <3>1, ArrangedFacts DEF Planned
    <3>3. \A i, j \in 1..Len(order) : i < j => Precedes(order[i], order[j])
      BY <1>1, <3>1, ArrangedFacts DEF Precedes
    <3>4. Owed \subseteq Planned
      BY <2>2, <3>2 DEF Owed
    <3> QED
      BY <2>2, <3>3, <3>4 DEF PlanInv
  <2> QED
    BY <2>1, <2>2
<1>5. BatchInv
  <2>1. /\ stage = NoRead /\ answer = NoAnswer /\ out = << >> /\ ready = << >> /\ pos = 0
        /\ phase # "batch"
    BY DEF Init
  <2>2. \A v \in Versions : stage[v] = 0 /\ answer[v] = << >> /\ 0 \notin 1..Len(Stages)
    BY <2>1 DEF NoRead, NoAnswer
  <2> QED
    BY <2>1, <2>2 DEF BatchInv
<1>6. StreamInv
  <2>1. Stream = << >> /\ pos = 0 /\ phase # "ended"
    BY DEF Init, Stream
  <2>2. pos = 0 * Width
    BY <2>1, DeltaLogAssumption
  <2> QED
    BY <2>1, <2>2 DEF StreamInv
<1> QED
  BY <1>1, <1>2, <1>3, <1>4, <1>5, <1>6 DEF IInv

(* The walk keeps its plan, its batch and its stream whatever is appended,  *)
(* lost or expired meanwhile, and in whatever order the reads are answered. *)
THEOREM Invariant == Spec => []IInv
<1>1. IInv /\ [Next]_vars => IInv'
  BY TypeStep, LostStep, ListStep, PlanStep, BatchStep, StreamStep DEF IInv
<1> QED
  BY InvInit, <1>1, PTL DEF Spec

(* Every state is of the declared types. *)
THEOREM TypeCorrect == Spec => []TypeOK
<1>1. IInv => TypeOK
  BY DEF IInv
<1> QED
  BY Invariant, <1>1, PTL

(* Commits leave stream_commits newest first and files leave in log order,  *)
(* none twice, whatever order the reads of a batch are answered in and     *)
(* whatever the window, the stages and the pages.                          *)
THEOREM InLogOrderHolds == Spec => []InLogOrder
<1>1. IInv => InLogOrder
  <2> SUFFICES ASSUME IInv, NEW i \in 1..Len(out), NEW j \in 1..Len(out), i < j
               PROVE  Later(out[i], out[j])
    BY DEF InLogOrder
  <2>1. TypeOK /\ StreamInv
    BY DEF IInv
  <2>2. Len(out) \in Nat /\ Len(ready) \in Nat
    BY <2>1, LenProperties DEF TypeOK
  <2>3. i \in 1..Len(Stream) /\ j \in 1..Len(Stream) /\ Stream[i] = out[i] /\ Stream[j] = out[j]
    BY <2>1, <2>2, StreamType
  <2>4. Later(Stream[i], Stream[j])
    BY <2>1, <2>3 DEF StreamInv
  <2> QED
    BY <2>3, <2>4
<1> QED
  BY Invariant, <1>1, PTL

(* What tells of a version's batch tells of the version. *)
LEMMA ToldFacts ==
    ASSUME TypeOK, NEW k \in 1..Len(order), NEW l \in 1..Len(order), Mates(k, l),
           <<order[l], 0>> \in ToSet(out)
    PROVE  Told(order[k])
<1>1. PICK b \in Nat : /\ b * Width < k /\ k <= b * Width + Width
                       /\ b * Width < l /\ l <= b * Width + Width
  BY DEF Mates
<1>2. Width \in Nat /\ Width > 0 /\ Len(order) \in Nat /\ k \in Nat
  BY ChunkEndFacts, DeltaLogAssumption
<1>3. b <= b * Width /\ b * Width \in Nat
  <2>1. PICK d \in Nat : Width = 1 + d
    <3>1. Width - 1 \in Nat /\ Width = 1 + (Width - 1)
      BY <1>2
    <3> QED
      BY <3>1
  <2>2. b * Width = b + b * d /\ b * d \in Nat
    BY <2>1
  <2> QED
    BY <2>2
<1>4. b \in 0..Len(order)
  BY <1>1, <1>2, <1>3
<1>5. order[k] \in Batch(b) /\ order[l] \in Batch(b)
  BY <1>1 DEF Batch
<1> QED
  BY <1>4, <1>5 DEF Told

(* A commit that was in the log when the walk began and still is has given  *)
(* all its items before one of a later place, and before the end, unless   *)
(* the consumer has the Err of its batch: retention and writers, a listing *)
(* in pages, reads in stages and batches given up pass over none unsaid.   *)
THEOREM NothingSkippedHolds == Spec => []NothingSkipped
<1>1. IInv => NothingSkipped
  <2> SUFFICES ASSUME IInv, NEW v \in Owed,
                      phase = "ended"
                      \/ \E i \in 1..Len(out) : out[i][1] # v /\ Later(<<v, 1>>, out[i])
               PROVE  ToSet(Items(v)) \subseteq ToSet(out) \/ Told(v)
    BY DEF NothingSkipped
  <2>1. TypeOK /\ PlanInv /\ StreamInv /\ ListInv
    BY DEF IInv
  <2>2. v \in before \cap log /\ v \in Versions
    BY <2>1, LogVersions DEF Owed, Retained
  <2>3. /\ Len(out) \in Nat /\ Len(ready) \in Nat /\ Len(order) \in Nat /\ pos \in Nat
        /\ pos <= Len(order)
    BY <2>1, LenProperties, ChunkEndFacts DEF TypeOK
  <2>4. phase # "list" /\ ~(phase = "failed" /\ out = << >>)
    BY <2>1 DEF ListInv
  <2>5. PICK k \in 1..Len(order) : order[k] = v
    BY <2>1, <2>4 DEF PlanInv, Planned
  <2>6. ASSUME NEW l \in 1..pos, Mates(k, l), <<order[l], 0>> \in ToSet(out) PROVE Told(v)
    <3>1. l \in 1..Len(order)
      BY <2>3
    <3> QED
      BY <2>1, <2>5, <2>6, <3>1, ToldFacts
  <2>7. CASE phase = "ended"
    <3>1. ready = << >> /\ k \in 1..pos
      BY <2>1, <2>7 DEF StreamInv
    <3>2. ToSet(Items(v)) \subseteq ToSet(Stream) \/ ToldIn(Stream, k)
      BY <2>1, <2>2, <2>5, <3>1 DEF StreamInv
    <3>3. Stream = out
      BY <2>1, <3>1 DEF Stream, TypeOK
    <3> QED
      BY <2>6, <3>2, <3>3 DEF ToldIn
  <2>8. ASSUME NEW i \in 1..Len(out), out[i][1] # v, Later(<<v, 1>>, out[i])
        PROVE  ToSet(Items(v)) \subseteq ToSet(out) \/ Told(v)
    <3>1. i \in 1..Len(Stream) /\ Stream[i] = out[i]
      BY <2>1, <2>3, StreamType
    <3>2. PICK m \in 1..pos : out[i][1] = order[m]
      BY <2>1, <3>1 DEF StreamInv
    <3>3. m \in 1..Len(order) /\ order[m] \in Nat /\ v \in Nat
      <4>1. m \in 1..Len(order)
        BY <2>3
      <4>2. order \in Seq(Versions)
        BY <2>1 DEF TypeOK
      <4>3. order[m] \in Versions
        BY <4>1, <4>2
      <4> QED
        BY <2>1, <2>2, <4>1, <4>3, LogVersions
    <3>4. Precedes(v, order[m]) /\ order[m] # v
      BY <2>8, <3>2, <3>3 DEF Later, Precedes
    <3>5. k < m
      <4> SUFFICES ASSUME m < k PROVE FALSE
        BY <2>5, <3>3, <3>4
      <4>1. Precedes(order[m], order[k])
        BY <2>1, <3>3 DEF PlanInv
      <4> QED
        BY <2>5, <3>3, <3>4, <4>1 DEF Precedes
    <3>6. ToSet(Items(v)) \subseteq ToSet(Stream) \/ ToldIn(Stream, k)
      <4>1. k \in 1..pos
        BY <2>3, <3>5
      <4> QED
        BY <2>1, <2>2, <2>5, <4>1 DEF StreamInv
    <3>7. DOMAIN Stream = 1..Len(Stream) /\ DOMAIN out = 1..Len(out) /\ Len(Stream) \in Nat
      BY <2>1, StreamType, LenProperties DEF TypeOK
    <3>8. \A j \in 1..Len(Stream) : ~(i < j) => j \in 1..Len(out) /\ Stream[j] = out[j]
      BY <2>1, <2>3, <3>7, StreamType
    <3>9. ASSUME ToSet(Items(v)) \subseteq ToSet(Stream), NEW x \in ToSet(Items(v))
          PROVE  x \in ToSet(out)
      <4>1. x[1] = v
        BY <2>1, <2>2, ItemsFacts
      <4>2. PICK j \in 1..Len(Stream) : Stream[j] = x
        BY <3>7, <3>9 DEF ToSet
      <4>3. ~(i < j)
        <5> SUFFICES ASSUME i < j PROVE FALSE
          OBVIOUS
        <5>1. Later(out[i], x)
          BY <2>1, <3>1, <4>2 DEF StreamInv
        <5> QED
          BY <3>2, <3>3, <3>4, <4>1, <5>1 DEF Later, Precedes
      <4> QED
        BY <3>7, <3>8, <4>2, <4>3 DEF ToSet
    <3>10. ASSUME ToldIn(Stream, k) PROVE Told(v)
      <4>1. PICK l \in 1..pos : Mates(k, l) /\ <<order[l], 0>> \in ToSet(Stream)
        BY <3>10 DEF ToldIn
      <4>2. PICK j \in 1..Len(Stream) : Stream[j] = <<order[l], 0>>
        BY <3>7, <4>1 DEF ToSet
      <4>3. ~(i < j)
        <5> SUFFICES ASSUME i < j PROVE FALSE
          OBVIOUS
        <5>1. Later(out[i], <<order[l], 0>>)
          BY <2>1, <3>1, <4>2 DEF StreamInv
        <5>2. l \in 1..Len(order) /\ order[l] \in Nat
          <6>1. l \in 1..Len(order)
            BY <2>3
          <6>2. order[l] \in Versions
            BY <2>1, <6>1 DEF TypeOK
          <6> QED
            BY <2>1, <6>1, <6>2, LogVersions
        <5>3. m <= l
          <6> SUFFICES ASSUME l < m PROVE FALSE
            BY <3>3, <5>2
          <6>1. Precedes(order[l], order[m])
            BY <2>1, <3>3, <5>2 DEF PlanInv
          <6>2. order[l] # order[m] \/ out[i][1] = order[l]
            BY <3>2
          <6> QED
            BY <3>2, <3>3, <5>1, <5>2, <6>1 DEF Later, Precedes
        <5>4. Mates(l, m)
          <6>1. k \in Nat /\ m \in Nat /\ l \in Nat /\ k <= m
            BY <2>3, <3>5
          <6> QED
            BY <4>1, <5>3, <6>1, BatchBetween
        <5>5. j = i
          BY <2>1, <3>1, <3>2, <4>2, <5>4 DEF StreamInv
        <5> QED
          BY <5>5
      <4>4. <<order[l], 0>> \in ToSet(out)
        BY <3>7, <3>8, <4>2, <4>3 DEF ToSet
      <4> QED
        BY <2>6, <4>1, <4>4
    <3> QED
      BY <3>6, <3>9, <3>10
  <2> QED
    BY <2>7, <2>8
<1> QED
  BY Invariant, <1>1, PTL

(* A walk that lists the log itself reports one stretch of it, up to the    *)
(* snapshot: a listing with a hole fails, so nothing is reported from both *)
(* sides of a lost commit.                                                 *)
THEOREM OneStretchHolds == Spec => []OneStretch
<1>1. IInv => OneStretch
  <2> SUFFICES ASSUME IInv, request.all, NEW i \in 1..Len(out), NEW j \in 1..Len(out)
               PROVE  /\ out[i][1] \in Retained(Versions)
                      /\ ~\E v \in lost : out[i][1] < v /\ v < out[j][1]
    BY DEF OneStretch
  <2>1. TypeOK /\ PlanInv /\ StreamInv
    BY DEF IInv
  <2>2. ASSUME NEW n \in 1..Len(out) PROVE out[n][1] \in Planned
    <3>1. n \in 1..Len(Stream) /\ Stream[n] = out[n]
      <4>1. Len(out) \in Nat /\ Len(ready) \in Nat
        BY <2>1, LenProperties DEF TypeOK
      <4> QED
        BY <2>1, <4>1, StreamType
    <3>2. PICK k \in 1..pos : out[n][1] = order[k]
      BY <2>1, <3>1 DEF StreamInv
    <3>3. k \in 1..Len(order)
      BY <2>1, ChunkEndFacts
    <3> QED
      BY <3>2, <3>3 DEF Planned
  <2>3. lost \subseteq Versions
    BY <2>1, DeltaLogAssumption DEF TypeOK
  <2> QED
    BY <2>1, <2>2, <2>3 DEF PlanInv
<1> QED
  BY Invariant, <1>1, PTL
=============================================================================

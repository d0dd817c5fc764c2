------------------------- MODULE Records_proof -------------------------
(***************************************************************************)
(* Theorems about MassSummary, for any feeds and documents, and about the  *)
(* configuration a command runs in, for any lines of a run-control file.   *)
(***************************************************************************)
EXTENDS MCRecords, FiniteSetTheorems, WellFoundedInduction, TLAPS

-----------------------------------------------------------------------------
(* A sum counts cells: f[x] of them for each x.                            *)
Cells(f, S) == {c \in S \X Nat : c[2] \in 1..f[c[1]]}
Column(f, x) == {x} \X (1..f[x])

LEMMA ImageFinite ==
    ASSUME NEW S, NEW g, DOMAIN g = S, IsFiniteSet(S)
    PROVE  IsFiniteSet({g[x] : x \in S})
<1>1. [x \in S |-> g[x]] \in Surjection(S, {g[x] : x \in S})
    BY DEF Surjection
<1> QED
    BY <1>1, FS_Surjection

LEMMA ColumnSize ==
    ASSUME NEW f, NEW x, f[x] \in Nat
    PROVE  IsFiniteSet(Column(f, x)) /\ Cardinality(Column(f, x)) = f[x]
<1> DEFINE n == f[x]
<1>1. n \in Nat /\ n \in Int /\ 1 \in Int
    OBVIOUS
<1> HIDE DEF n
<1>2. IsFiniteSet(1..n) /\ Cardinality(1..n) = IF 1 > n THEN 0 ELSE n - 1 + 1
    BY <1>1, FS_Interval, Zenon
<1>3. Cardinality(1..n) = n
    BY <1>1, <1>2
<1>4. IsFiniteSet({x}) /\ Cardinality({x}) = 1
    BY FS_Singleton
<1> DEFINE one == {x}
           all == 1..n
<1> HIDE DEF one, all
<1>5. IsFiniteSet(one \X all) /\ Cardinality(one \X all) = Cardinality(one) * Cardinality(all)
    BY <1>2, <1>4, FS_Product DEF one, all
<1>6. Cardinality(one) = 1 /\ Cardinality(all) = n /\ Column(f, x) = one \X all
    BY <1>3, <1>4 DEF one, all, n, Column
<1>7. IsFiniteSet(Column(f, x)) /\ Cardinality(Column(f, x)) = 1 * n
    BY <1>5, <1>6
<1> QED
    BY <1>1, <1>7 DEF n

LEMMA CellsFinite ==
    ASSUME NEW f, NEW S, IsFiniteSet(S), \A x \in S : f[x] \in Nat
    PROVE  IsFiniteSet(Cells(f, S))
<1>1. IsFiniteSet({Column(f, x) : x \in S})
    <2> DEFINE g == [x \in S |-> Column(f, x)]
    <2>1. IsFiniteSet({g[x] : x \in S})
        <3>1. DOMAIN g = S
            OBVIOUS
        <3> HIDE DEF g
        <3> QED
            BY <3>1, ImageFinite
    <2>2. {g[x] : x \in S} = {Column(f, x) : x \in S}
        OBVIOUS
    <2> QED
        BY <2>1, <2>2
<1>2. \A C \in {Column(f, x) : x \in S} : IsFiniteSet(C)
    <2> SUFFICES ASSUME NEW x \in S PROVE IsFiniteSet(Column(f, x))
        OBVIOUS
    <2> QED
        BY ColumnSize
<1>3. IsFiniteSet(UNION {Column(f, x) : x \in S})
    BY <1>1, <1>2, FS_UNION
<1>4. Cells(f, S) \subseteq UNION {Column(f, x) : x \in S}
    BY DEF Cells, Column
<1> QED
    BY <1>3, <1>4, FS_Subset

LEMMA CellsOfAdded ==
    ASSUME NEW f, NEW S, NEW x, IsFiniteSet(S), x \notin S, f[x] \in Nat,
           \A y \in S : f[y] \in Nat
    PROVE  Cardinality(Cells(f, S \cup {x})) = f[x] + Cardinality(Cells(f, S))
<1>1. Cells(f, S \cup {x}) = Cells(f, S) \cup Column(f, x)
    BY DEF Cells, Column
<1>2. Cells(f, S) \cap Column(f, x) = {}
    BY DEF Cells, Column
<1>3. IsFiniteSet(Column(f, x)) /\ Cardinality(Column(f, x)) = f[x]
    BY ColumnSize
<1>4. IsFiniteSet(Cells(f, S))
    BY CellsFinite
<1>5. Cardinality(Cells(f, S)) \in Nat
    BY <1>4, FS_CardinalityType
<1>6. Cardinality({}) = 0
    BY FS_EmptySet
<1>7. Cardinality(Cells(f, S) \cup Column(f, x)) = Cardinality(Cells(f, S)) + Cardinality(Column(f, x)) - Cardinality(Cells(f, S) \cap Column(f, x))
    BY <1>3, <1>4, FS_Union
<1>8. Cardinality(Cells(f, S) \cap Column(f, x)) = 0
    BY <1>2, <1>6, Zenon
<1>9. Cardinality(Cells(f, S \cup {x})) = Cardinality(Cells(f, S) \cup Column(f, x))
    BY <1>1, Zenon
<1> QED
    BY <1>3, <1>5, <1>7, <1>8, <1>9

Pick(s) == CHOOSE x \in s : TRUE
Step(f, g, s) == IF s = {} THEN 0 ELSE f[Pick(s)] + g[s \ {Pick(s)}]
Iter(f, S) == CHOOSE g : g = [s \in SUBSET S |-> Step(f, g, s)]

LEMMA SumIsIter ==
    ASSUME NEW f, NEW S
    PROVE  SumFunctionOnSet(f, S) = Iter(f, S)[S]
BY DEF SumFunctionOnSet, FoldFunctionOnSet, MapThenFoldSet, Iter, Step, Pick

LEMMA SumCounts ==
    ASSUME NEW f, NEW S, IsFiniteSet(S), \A x \in S : f[x] \in Nat
    PROVE  SumFunctionOnSet(f, S) = Cardinality(Cells(f, S))
<1> DEFINE G == [s \in SUBSET S |-> Cardinality(Cells(f, s))]
           it == Iter(f, S)
<1>1. ASSUME NEW s \in SUBSET S, s # {}
      PROVE  /\ Pick(s) \in s /\ Pick(s) \in S /\ f[Pick(s)] \in Nat
             /\ s \ {Pick(s)} \in SUBSET S /\ s \ {Pick(s)} # s
             /\ Cardinality(Cells(f, s)) = f[Pick(s)] + Cardinality(Cells(f, s \ {Pick(s)}))
    <2>1. Pick(s) \in s
        BY <1>1 DEF Pick
    <2> DEFINE r == s \ {Pick(s)}
    <2>2. IsFiniteSet(r)
        BY FS_Subset
    <2>3. r \cup {Pick(s)} = s /\ Pick(s) \notin r
        BY <2>1
    <2> HIDE DEF r
    <2>4. Cardinality(Cells(f, r \cup {Pick(s)})) = f[Pick(s)] + Cardinality(Cells(f, r))
        <3>1. \A y \in r : f[y] \in Nat
            BY <2>3
        <3>2. f[Pick(s)] \in Nat
            BY <2>1
        <3> QED
            BY <2>2, <2>3, <3>1, <3>2, CellsOfAdded
    <2> QED
        BY <2>1, <2>3, <2>4 DEF r
<1>2. Cardinality(Cells(f, {})) = 0
    BY FS_EmptySet DEF Cells
<1>3. G = [s \in SUBSET S |-> Step(f, G, s)]
    <2> SUFFICES ASSUME NEW s \in SUBSET S PROVE Cardinality(Cells(f, s)) = Step(f, G, s)
        OBVIOUS
    <2>1. CASE s = {}
        BY <1>2, <2>1 DEF Step
    <2>2. CASE s # {}
        BY <1>1, <2>2 DEF Step
    <2> QED
        BY <2>1, <2>2
<1>4. it = [s \in SUBSET S |-> Step(f, it, s)]
    <2> HIDE DEF G
    <2>1. \E g : g = [s \in SUBSET S |-> Step(f, g, s)]
        BY <1>3
    <2> QED
        BY <2>1 DEF Iter
<1> HIDE DEF it
<1>5. \A s \in SUBSET S : it[s] = G[s]
    <2> DEFINE Bad == {s \in SUBSET S : it[s] # G[s]}
    <2> SUFFICES ASSUME Bad # {} PROVE FALSE
        OBVIOUS
    <2>1. IsWellFoundedOn(StrictSubsetOrdering(S), SUBSET S)
        BY FS_StrictSubsetOrderingWellFounded, FS_FiniteSubsetsOfFinite
    <2>2. PICK s \in Bad : \A r \in Bad : ~(<<r, s>> \in StrictSubsetOrdering(S))
        <3> HIDE DEF G
        <3>1. Bad \subseteq SUBSET S
            OBVIOUS
        <3> HIDE DEF Bad
        <3> QED
            BY Zenon, <2>1, <3>1, WFMin
    <2>3. s # {}
        BY <1>2, <1>4 DEF Step
    <2> DEFINE r == s \ {Pick(s)}
    <2>4. r \in SUBSET S /\ <<r, s>> \in StrictSubsetOrdering(S)
        BY <1>1, <2>3 DEF StrictSubsetOrdering
    <2>5. it[r] = G[r]
        BY <2>2, <2>4
    <2>6. it[s] = f[Pick(s)] + it[r]
        BY <1>4, <2>3 DEF Step
    <2>7. G[s] = f[Pick(s)] + G[r]
        BY <1>1, <2>3, <2>4
    <2> QED
        BY <2>2, <2>5, <2>6, <2>7
<1> QED
    BY <1>5, SumIsIter DEF it
-----------------------------------------------------------------------------
(* The places of a document.                                               *)

LEMMA DocumentFacts ==
    ASSUME NEW d \in Documents, NEW f \in Feeds
    PROVE  /\ Len(d.lines[f]) \in Nat
           /\ \A i \in 1..Len(d.lines[f]) :
                /\ d.lines[f][i].kind \in {"whole", "close"} =>
                      Len(d.lines[f][i].values) \in Nat \ {0}
                /\ Len(ValuesIn(d.lines[f][i])) \in Nat
                /\ d.lines[f][i].kind = "open" =>
                      \A g \in Feeds \ {f} : Len(d.lines[g]) = 0
<1>1. IsDocument(d)
    BY DocumentsAssumption
<1>2. /\ Len(d.lines[f]) \in Nat
      /\ \A i \in 1..Len(d.lines[f]) :
            /\ d.lines[f][i].kind \in {"whole", "close"} =>
                  Len(d.lines[f][i].values) \in Nat \ {0}
            /\ d.lines[f][i].kind = "open" => \A g \in Feeds \ {f} : Len(d.lines[g]) = 0
    BY <1>1 DEF IsDocument
<1>3. ASSUME NEW i \in 1..Len(d.lines[f])
      PROVE  Len(ValuesIn(d.lines[f][i])) \in Nat
    <2>1. CASE d.lines[f][i].kind \in {"whole", "close"}
        BY <1>2, <2>1 DEF ValuesIn
    <2>2. CASE d.lines[f][i].kind \notin {"whole", "close"}
        BY <2>2 DEF ValuesIn
    <2> QED
        BY <2>1, <2>2
<1> QED
    BY <1>2, <1>3

LEMMA PresentIs ==
    ASSUME NEW d, NEW f, NEW i, NEW n
    PROVE  <<f, i, n>> \in Present(d) <=>
             /\ f \in Feeds /\ i \in 1..Len(d.lines[f])
             /\ n \in 1..Len(ValuesIn(d.lines[f][i]))
BY DEF Present

LEMMA PresentParts ==
    ASSUME NEW d, NEW p \in Present(d)
    PROVE  /\ p = <<p[1], p[2], p[3]>> /\ p[1] \in Feeds /\ p[2] \in 1..Len(d.lines[p[1]])
           /\ p[3] \in 1..Len(ValuesIn(d.lines[p[1]][p[2]]))
BY DEF Present

LEMMA PresentFinite ==
    ASSUME NEW d \in Documents
    PROVE  IsFiniteSet(Present(d)) /\ IsFiniteSet(Measurements(d))
<1> DEFINE OfLine(f, i) == {<<f, i, n>> : n \in 1..Len(ValuesIn(d.lines[f][i]))}
           OfFeed(f) == UNION {OfLine(f, i) : i \in 1..Len(d.lines[f])}
<1>1. ASSUME NEW f \in Feeds, NEW i \in 1..Len(d.lines[f])
      PROVE  IsFiniteSet(OfLine(f, i))
    <2> DEFINE S == 1..Len(ValuesIn(d.lines[f][i]))
               g == [n \in S |-> <<f, i, n>>]
    <2>1. IsFiniteSet(S)
        BY DocumentFacts, FS_Interval
    <2>2. DOMAIN g = S /\ {g[n] : n \in S} = OfLine(f, i)
        OBVIOUS
    <2> HIDE DEF S, g, OfLine
    <2> QED
        BY <2>1, <2>2, ImageFinite
<1>2. ASSUME NEW f \in Feeds
      PROVE  IsFiniteSet(OfFeed(f))
    <2> DEFINE S == 1..Len(d.lines[f])
               g == [i \in S |-> OfLine(f, i)]
               all == {g[i] : i \in S}
    <2>1. IsFiniteSet(S)
        BY DocumentFacts, FS_Interval
    <2>2. DOMAIN g = S /\ \A i \in S : g[i] = OfLine(f, i) /\ IsFiniteSet(g[i])
        BY <1>1
    <2>3. OfFeed(f) = UNION all
        OBVIOUS
    <2> HIDE DEF S, g, OfLine, OfFeed
    <2>4. IsFiniteSet(all)
        BY <2>1, <2>2, ImageFinite
    <2>5. \A T \in all : IsFiniteSet(T)
        BY <2>2
    <2> HIDE DEF all
    <2> QED
        BY <2>3, <2>4, <2>5, FS_UNION
<1>3. IsFiniteSet(Present(d))
    <2> DEFINE g == [f \in Feeds |-> OfFeed(f)]
               all == {g[f] : f \in Feeds}
    <2>1. DOMAIN g = Feeds /\ \A f \in Feeds : g[f] = OfFeed(f) /\ IsFiniteSet(g[f])
        BY <1>2
    <2>2. Present(d) = UNION all
        BY DEF Present
    <2> HIDE DEF g, OfLine, OfFeed
    <2>3. IsFiniteSet(all)
        BY <2>1, ImageFinite, DocumentsAssumption
    <2>4. \A T \in all : IsFiniteSet(T)
        BY <2>1
    <2> HIDE DEF all
    <2> QED
        BY <2>2, <2>3, <2>4, FS_UNION
<1>4. Measurements(d) \subseteq Present(d)
    BY DEF Measurements
<1> QED
    BY <1>3, <1>4, FS_Subset

-----------------------------------------------------------------------------
(* What has been read when the feeds are at a.                             *)

Earlier(x, y, i, n) == x < i \/ (x = i /\ y < n)
Before(a, p) == Earlier(p[2], p[3], a[p[1]][1], a[p[1]][2])
Read(d, a) == {p \in Present(d) : Before(a, p)}
Folded(d, a) == {p \in Read(d, a) : Value(d, p).kind = "column"}

AtInv(d, a) ==
    /\ a \in [Feeds -> Nat \X Nat]
    /\ \A f \in Feeds :
         /\ a[f][1] \in 1..(Len(d.lines[f]) + 1)
         /\ \/ a[f][2] = 1
            \/ a[f][1] <= Len(d.lines[f]) /\ a[f][2] \in 1..Len(ValuesIn(d.lines[f][a[f][1]]))

(* The place after a line without values, and after a value. *)
PastLine(a, f) == <<a[f][1] + 1, 1>>
PastValue(d, a, f) ==
    IF a[f][2] = Len(d.lines[f][a[f][1]].values) THEN PastLine(a, f)
    ELSE <<a[f][1], a[f][2] + 1>>

LEMMA EarlierFirst ==
    ASSUME NEW x \in Nat, x > 0, NEW y \in Nat \ {0}
    PROVE  ~Earlier(x, y, 1, 1)
BY DEF Earlier

LEMMA EarlierNext ==
    ASSUME NEW x \in Nat, NEW y \in Nat \ {0}, NEW i \in Nat, NEW n \in Nat
    PROVE  Earlier(x, y, i, n + 1) <=> (Earlier(x, y, i, n) \/ (x = i /\ y = n))
BY DEF Earlier

LEMMA EarlierSkip ==
    ASSUME NEW x \in Nat, NEW y \in Nat \ {0}, NEW i \in Nat, NEW n \in Nat, x # i
    PROVE  Earlier(x, y, i + 1, 1) <=> Earlier(x, y, i, n)
BY DEF Earlier

LEMMA EarlierLine ==
    ASSUME NEW x \in Nat, NEW y \in Nat \ {0}, NEW i \in Nat, NEW n \in Nat,
           x = i => y <= n
    PROVE  Earlier(x, y, i + 1, 1) <=> (Earlier(x, y, i, n) \/ (x = i /\ y = n))
BY DEF Earlier

LEMMA ReadNone ==
    ASSUME NEW d \in Documents
    PROVE  /\ AtInv(d, [f \in Feeds |-> <<1, 1>>])
           /\ Read(d, [f \in Feeds |-> <<1, 1>>]) = {}
<1> DEFINE a == [f \in Feeds |-> <<1, 1>>]
<1>1. AtInv(d, a)
    BY DocumentFacts DEF AtInv
<1>2. ASSUME NEW p \in Present(d), Before(a, p)
      PROVE  FALSE
    <2>1. p[1] \in Feeds /\ p[2] \in 1..Len(d.lines[p[1]])
          /\ p[3] \in 1..Len(ValuesIn(d.lines[p[1]][p[2]]))
        BY PresentParts
    <2>2. p[2] \in Nat /\ p[2] > 0 /\ p[3] \in Nat \ {0}
        BY <2>1, DocumentFacts
    <2>3. ~Earlier(p[2], p[3], 1, 1)
        BY Zenon, <2>2, EarlierFirst
    <2> QED
        BY <1>2, <2>1, <2>3 DEF Before
<1> QED
    BY <1>1, <1>2 DEF Read

LEMMA LineRead ==
    ASSUME NEW d \in Documents, NEW a, NEW f \in Feeds, AtInv(d, a),
           a[f][1] <= Len(d.lines[f]), Len(ValuesIn(d.lines[f][a[f][1]])) = 0
    PROVE  /\ AtInv(d, [a EXCEPT ![f] = PastLine(a, f)])
           /\ Read(d, [a EXCEPT ![f] = PastLine(a, f)]) = Read(d, a)
<1> DEFINE b == [a EXCEPT ![f] = PastLine(a, f)]
<1>1. /\ a \in [Feeds -> Nat \X Nat] /\ a[f][1] \in 1..Len(d.lines[f]) /\ Len(d.lines[f]) \in Nat
      /\ a[f][2] = 1
    BY DocumentFacts DEF AtInv
<1>2. /\ b \in [Feeds -> Nat \X Nat] /\ b[f] = <<a[f][1] + 1, 1>>
      /\ \A g \in Feeds \ {f} : b[g] = a[g]
    BY <1>1 DEF PastLine
<1> HIDE DEF b
<1>3. AtInv(d, b)
    <2> SUFFICES ASSUME NEW g \in Feeds
                 PROVE  /\ b[g][1] \in 1..(Len(d.lines[g]) + 1)
                        /\ \/ b[g][2] = 1
                           \/ /\ b[g][1] <= Len(d.lines[g])
                              /\ b[g][2] \in 1..Len(ValuesIn(d.lines[g][b[g][1]]))
        BY <1>2 DEF AtInv
    <2>1. CASE g = f
        BY <1>1, <1>2, <2>1
    <2>2. CASE g # f
        BY <1>2, <2>2 DEF AtInv
    <2> QED
        BY <2>1, <2>2
<1>4. ASSUME NEW p \in Present(d)
      PROVE  Before(b, p) <=> Before(a, p)
    <2>1. p[1] \in Feeds /\ p[2] \in 1..Len(d.lines[p[1]])
          /\ p[3] \in 1..Len(ValuesIn(d.lines[p[1]][p[2]]))
        BY PresentParts
    <2>2. CASE p[1] # f
        BY <1>2, <2>1, <2>2 DEF Before
    <2>3. CASE p[1] = f
        <3>1. p[2] \in Nat /\ p[3] \in Nat \ {0}
            BY <2>1, DocumentFacts
        <3>2. p[2] # a[f][1]
            BY <2>1, <2>3
        <3>3. a[f][1] \in Nat /\ a[f][2] \in Nat
            BY <1>1
        <3>4. Earlier(p[2], p[3], a[f][1] + 1, 1) <=> Earlier(p[2], p[3], a[f][1], a[f][2])
            BY Zenon, <3>1, <3>2, <3>3, EarlierSkip
        <3> QED
            BY <1>2, <2>3, <3>4 DEF Before
    <2> QED
        BY <2>2, <2>3
<1> QED
    BY <1>3, <1>4 DEF Read, b

LEMMA ValueRead ==
    ASSUME NEW d \in Documents, NEW a, NEW f \in Feeds, AtInv(d, a),
           a[f][1] <= Len(d.lines[f]), d.lines[f][a[f][1]].kind \in {"whole", "close"}
    PROVE  /\ AtInv(d, [a EXCEPT ![f] = PastValue(d, a, f)])
           /\ <<f, a[f][1], a[f][2]>> \in Present(d) \ Read(d, a)
           /\ Read(d, [a EXCEPT ![f] = PastValue(d, a, f)])
                = Read(d, a) \cup {<<f, a[f][1], a[f][2]>>}
<1> DEFINE b == [a EXCEPT ![f] = PastValue(d, a, f)]
           i == a[f][1]
           n == a[f][2]
           line == d.lines[f][i]
           p == <<f, i, n>>
<1>1. /\ a \in [Feeds -> Nat \X Nat] /\ i \in 1..Len(d.lines[f]) /\ Len(d.lines[f]) \in Nat
      /\ i \in Nat /\ ValuesIn(line) = line.values /\ Len(line.values) \in Nat \ {0}
    <2>1. a \in [Feeds -> Nat \X Nat] /\ i \in 1..(Len(d.lines[f]) + 1)
        BY DEF AtInv
    <2>2. Len(d.lines[f]) \in Nat
        BY DocumentFacts
    <2>3. i \in 1..Len(d.lines[f]) /\ i \in Nat
        BY <2>1, <2>2
    <2>4. Len(line.values) \in Nat \ {0}
        BY <2>3, DocumentFacts
    <2>5. ValuesIn(line) = line.values
        BY DEF ValuesIn
    <2> QED
        BY <2>1, <2>2, <2>3, <2>4, <2>5
<1>2. n \in 1..Len(line.values) /\ n \in Nat
    BY <1>1 DEF AtInv
<1>3. /\ b \in [Feeds -> Nat \X Nat] /\ \A g \in Feeds \ {f} : b[g] = a[g]
      /\ b[f] = IF n = Len(line.values) THEN <<i + 1, 1>> ELSE <<i, n + 1>>
    BY <1>1, <1>2 DEF PastValue, PastLine
<1> HIDE DEF b
<1>4. AtInv(d, b)
    <2> SUFFICES ASSUME NEW g \in Feeds
                 PROVE  /\ b[g][1] \in 1..(Len(d.lines[g]) + 1)
                        /\ \/ b[g][2] = 1
                           \/ /\ b[g][1] <= Len(d.lines[g])
                              /\ b[g][2] \in 1..Len(ValuesIn(d.lines[g][b[g][1]]))
        BY <1>3 DEF AtInv
    <2>1. CASE g = f /\ n = Len(line.values)
        BY <1>1, <1>3, <2>1
    <2>2. CASE g = f /\ n # Len(line.values)
        <3>1. b[f] = <<i, n + 1>> /\ n + 1 \in 1..Len(line.values)
            BY <1>1, <1>2, <1>3, <2>2
        <3> QED
            BY <1>1, <2>2, <3>1
    <2>3. CASE g # f
        BY <1>3, <2>3 DEF AtInv
    <2> QED
        BY <2>1, <2>2, <2>3
<1>5. p \in Present(d) /\ ~Before(a, p)
    <2>1. p \in Present(d)
        BY <1>1, <1>2, PresentIs
    <2> QED
        BY <1>1, <1>2, <2>1 DEF Before, Earlier
<1>6. ASSUME NEW q \in Present(d)
      PROVE  Before(b, q) <=> (Before(a, q) \/ q = p)
    <2>1. /\ q = <<q[1], q[2], q[3]>> /\ q[1] \in Feeds /\ q[2] \in 1..Len(d.lines[q[1]])
          /\ q[3] \in 1..Len(ValuesIn(d.lines[q[1]][q[2]]))
        BY PresentParts
    <2>2. CASE q[1] # f
        BY <1>3, <2>1, <2>2 DEF Before
    <2>3. CASE q[1] = f
        <3>1. q[2] \in Nat /\ q[3] \in Nat \ {0}
            BY <2>1, DocumentFacts
        <3>2. q[2] = i => q[3] <= Len(line.values)
            BY <1>1, <2>1, <2>3
        <3>3. q = p <=> q[2] = i /\ q[3] = n
            BY <2>1, <2>3
        <3>4. CASE n = Len(line.values)
            <4>1. Earlier(q[2], q[3], i + 1, 1)
                     <=> (Earlier(q[2], q[3], i, n) \/ (q[2] = i /\ q[3] = n))
                <5>1. q[2] = i => q[3] <= n
                    BY <3>2, <3>4
                <5> QED
                    BY Zenon, <1>1, <1>2, <3>1, <5>1, EarlierLine
            <4>2. b[q[1]][1] = i + 1 /\ b[q[1]][2] = 1
                BY <1>3, <2>3, <3>4
            <4> QED
                BY <2>3, <3>3, <4>1, <4>2 DEF Before
        <3>5. CASE n # Len(line.values)
            <4>1. Earlier(q[2], q[3], i, n + 1)
                     <=> (Earlier(q[2], q[3], i, n) \/ (q[2] = i /\ q[3] = n))
                BY Zenon, <1>1, <1>2, <3>1, EarlierNext
            <4>2. b[q[1]][1] = i /\ b[q[1]][2] = n + 1
                BY <1>3, <2>3, <3>5
            <4> QED
                BY <2>3, <3>3, <4>1, <4>2 DEF Before
        <3> QED
            BY <3>4, <3>5
    <2> QED
        BY <2>2, <2>3
<1> QED
    BY <1>4, <1>5, <1>6 DEF Read, b

-----------------------------------------------------------------------------
(* The lines that were read were read where they stand.                    *)

OpenInv(d, a, o) == o <=> \E f \in Feeds : Opened(d, f, a[f][1])

ReadInv(d, a) ==
    \A f \in Feeds : /\ \A i \in 1..(a[f][1] - 1) : Allowed(d, f, i)
                     /\ a[f][2] > 1 => Allowed(d, f, a[f][1])

LEMMA OpenedNext ==
    ASSUME NEW d, NEW f, NEW i \in Nat \ {0}
    PROVE  Opened(d, f, i + 1) <=> \/ d.lines[f][i].kind = "open"
                                   \/ Opened(d, f, i) /\ d.lines[f][i].kind # "close"
<1>1. (i + 1) - 1 = i /\ 1..i = (1..(i - 1)) \cup {i} /\ i..i = {i}
    OBVIOUS
<1>2. \A j \in 1..(i - 1) : j..i = (j..(i - 1)) \cup {i}
    OBVIOUS
<1>3. Opened(d, f, i + 1) <=> \E j \in 1..i : /\ d.lines[f][j].kind = "open"
                                             /\ \A k \in j..i : d.lines[f][k].kind # "close"
    BY <1>1 DEF Opened
<1>4. ASSUME d.lines[f][i].kind = "open"
      PROVE  Opened(d, f, i + 1)
    BY <1>1, <1>3, <1>4
<1>5. ASSUME Opened(d, f, i), d.lines[f][i].kind # "close"
      PROVE  Opened(d, f, i + 1)
    <2>1. PICK j \in 1..(i - 1) : /\ d.lines[f][j].kind = "open"
                                  /\ \A k \in j..(i - 1) : d.lines[f][k].kind # "close"
        BY <1>5 DEF Opened
    <2>2. j \in 1..i /\ \A k \in j..i : d.lines[f][k].kind # "close"
        BY <1>1, <1>2, <1>5, <2>1
    <2> QED
        BY <1>3, <2>1, <2>2
<1>6. ASSUME Opened(d, f, i + 1), d.lines[f][i].kind # "open"
      PROVE  Opened(d, f, i) /\ d.lines[f][i].kind # "close"
    <2>1. PICK j \in 1..i : /\ d.lines[f][j].kind = "open"
                            /\ \A k \in j..i : d.lines[f][k].kind # "close"
        BY <1>3, <1>6
    <2>2. j \in 1..(i - 1)
        BY <1>1, <1>6, <2>1
    <2>3. \A k \in j..(i - 1) : d.lines[f][k].kind # "close"
        BY <1>2, <2>1, <2>2
    <2>4. d.lines[f][i].kind # "close"
        BY <1>2, <2>1, <2>2
    <2> QED
        BY <2>1, <2>2, <2>3, <2>4 DEF Opened
<1> QED
    BY <1>4, <1>5, <1>6

(* Only the feed that is read is inside a value.                           *)
LEMMA OpenHere ==
    ASSUME NEW d \in Documents, NEW a, NEW o \in BOOLEAN, NEW f \in Feeds,
           AtInv(d, a), OpenInv(d, a, o), a[f][1] <= Len(d.lines[f])
    PROVE  /\ o <=> Opened(d, f, a[f][1])
           /\ \A g \in Feeds \ {f} : ~Opened(d, g, a[g][1])
<1>1. ASSUME NEW g \in Feeds \ {f}, Opened(d, g, a[g][1])
      PROVE  FALSE
    <2>1. PICK j \in 1..(a[g][1] - 1) : d.lines[g][j].kind = "open"
        BY <1>1 DEF Opened
    <2> DEFINE i == a[g][1]
               l == Len(d.lines[g])
    <2>2. i \in 1..(l + 1) /\ l \in Nat
        BY DocumentFacts DEF AtInv
    <2>3. j \in 1..l
        <3>1. j \in 1..(i - 1)
            OBVIOUS
        <3> HIDE DEF i, l
        <3> QED
            BY <2>2, <3>1
    <2>4. Len(d.lines[f]) = 0
        BY <2>1, <2>3, DocumentFacts
    <2>5. a[f][1] \in Nat /\ a[f][1] >= 1
        BY DocumentFacts DEF AtInv
    <2> QED
        BY <2>4, <2>5
<1> QED
    BY <1>1 DEF OpenInv

LEMMA OpenMoves ==
    ASSUME NEW d \in Documents, NEW a, NEW o \in BOOLEAN, NEW f \in Feeds,
           AtInv(d, a), OpenInv(d, a, o), a[f][1] <= Len(d.lines[f]),
           NEW place, NEW now \in BOOLEAN, now <=> Opened(d, f, place[1])
    PROVE  OpenInv(d, [a EXCEPT ![f] = place], now)
<1> DEFINE b == [a EXCEPT ![f] = place]
<1>1. b[f] = place /\ \A g \in Feeds \ {f} : b[g] = a[g]
    BY DEF AtInv
<1> HIDE DEF b
<1>2. \A g \in Feeds \ {f} : ~Opened(d, g, b[g][1])
    BY <1>1, OpenHere
<1>3. OpenInv(d, b, now)
    BY <1>1, <1>2 DEF OpenInv
<1> QED
    BY <1>3 DEF b

LEMMA ReadMoves ==
    ASSUME NEW d \in Documents, NEW a, NEW f \in Feeds, AtInv(d, a), ReadInv(d, a),
           a[f][1] <= Len(d.lines[f]), Allowed(d, f, a[f][1]),
           NEW place, place = PastLine(a, f) \/ place[1] = a[f][1]
    PROVE  ReadInv(d, [a EXCEPT ![f] = place])
<1> DEFINE b == [a EXCEPT ![f] = place]
<1>1. b[f] = place /\ \A g \in Feeds \ {f} : b[g] = a[g]
    BY DEF AtInv
<1>2. a[f][1] \in Nat /\ a[f][1] >= 1
    BY DocumentFacts DEF AtInv
<1> HIDE DEF b
<1>3. \A i \in 1..(a[f][1] - 1) : Allowed(d, f, i)
    BY DEF ReadInv
<1>4. \A i \in 1..(place[1] - 1) : Allowed(d, f, i)
    <2>1. CASE place = PastLine(a, f)
        <3>1. place[1] = a[f][1] + 1
            BY <2>1 DEF PastLine
        <3>2. \A i \in 1..(place[1] - 1) : i \in 1..(a[f][1] - 1) \/ i = a[f][1]
            BY <1>2, <3>1
        <3> QED
            BY <1>3, <3>2
    <2>2. CASE place[1] = a[f][1]
        BY <1>3, <2>2
    <2> QED
        BY <2>1, <2>2
<1>5. place[2] > 1 => Allowed(d, f, place[1])
    BY DEF PastLine
<1>6. \A g \in Feeds \ {f} : /\ \A i \in 1..(b[g][1] - 1) : Allowed(d, g, i)
                             /\ b[g][2] > 1 => Allowed(d, g, b[g][1])
    BY <1>1 DEF ReadInv
<1>7. ReadInv(d, b)
    BY <1>1, <1>4, <1>5, <1>6 DEF ReadInv
<1> QED
    BY <1>7 DEF b

(* Where the feeds end, everything has been read, and it could be.         *)
LEMMA AllRead ==
    ASSUME NEW d \in Documents, NEW a, NEW o \in BOOLEAN,
           AtInv(d, a), OpenInv(d, a, o), ReadInv(d, a),
           \A f \in Feeds : a[f][1] > Len(d.lines[f])
    PROVE  Read(d, a) = Present(d) /\ (Readable(d) <=> ~o)
<1>1. \A f \in Feeds : /\ a[f][1] = Len(d.lines[f]) + 1 /\ Len(d.lines[f]) \in Nat
                       /\ a[f][1] - 1 = Len(d.lines[f])
    BY DocumentFacts DEF AtInv
<1>2. ASSUME NEW p \in Present(d)
      PROVE  Before(a, p)
    <2>1. p[1] \in Feeds /\ p[2] \in 1..Len(d.lines[p[1]])
        BY PresentParts
    <2> QED
        BY <1>1, <2>1 DEF Before, Earlier
<1>3. \A f \in Feeds : \A i \in 1..Len(d.lines[f]) : Allowed(d, f, i)
    BY <1>1 DEF ReadInv
<1>4. Readable(d) <=> \A f \in Feeds : ~Opened(d, f, a[f][1])
    BY <1>1, <1>3 DEF Readable
<1> QED
    BY <1>2, <1>4 DEF Read, OpenInv

LEMMA SumNat ==
    ASSUME NEW f, NEW S, IsFiniteSet(S), \A x \in S : f[x] \in Nat
    PROVE  SumFunctionOnSet(f, S) \in Nat
<1>1. IsFiniteSet(Cells(f, S))
    BY CellsFinite
<1>2. Cardinality(Cells(f, S)) \in Nat
    BY <1>1, FS_CardinalityType
<1> QED
    BY <1>2, SumCounts

LEMMA SumNone ==
    ASSUME NEW f
    PROVE  SumFunctionOnSet(f, {}) = 0
<1>1. IsFiniteSet({}) /\ Cardinality({}) = 0
    BY FS_EmptySet
<1>2. Cells(f, {}) = {}
    BY DEF Cells
<1>3. SumFunctionOnSet(f, {}) = Cardinality(Cells(f, {}))
    BY <1>1, SumCounts
<1> QED
    BY <1>1, <1>2, <1>3, Zenon

LEMMA SumAdd ==
    ASSUME NEW f, NEW S, NEW x, IsFiniteSet(S), x \notin S, f[x] \in Nat,
           \A y \in S : f[y] \in Nat
    PROVE  SumFunctionOnSet(f, S \cup {x}) = SumFunctionOnSet(f, S) + f[x]
<1>1. IsFiniteSet(S \cup {x}) /\ \A y \in S \cup {x} : f[y] \in Nat
    BY FS_AddElement
<1>2. SumFunctionOnSet(f, S \cup {x}) = Cardinality(Cells(f, S \cup {x}))
    BY <1>1, SumCounts
<1>3. SumFunctionOnSet(f, S) = Cardinality(Cells(f, S)) /\ SumFunctionOnSet(f, S) \in Nat
    BY SumCounts, SumNat
<1>4. Cardinality(Cells(f, S \cup {x})) = f[x] + Cardinality(Cells(f, S))
    BY CellsOfAdded
<1> QED
    BY <1>2, <1>3, <1>4

LEMMA SumSame ==
    ASSUME NEW f, NEW g, NEW S, IsFiniteSet(S),
           \A x \in S : f[x] \in Nat /\ g[x] = f[x]
    PROVE  SumFunctionOnSet(g, S) = SumFunctionOnSet(f, S)
<1>1. Cells(g, S) = Cells(f, S)
    BY DEF Cells
<1>2. SumFunctionOnSet(f, S) = Cardinality(Cells(f, S))
    BY SumCounts
<1>3. SumFunctionOnSet(g, S) = Cardinality(Cells(g, S))
    BY SumCounts
<1> QED
    BY <1>1, <1>2, <1>3, Zenon

LEMMA PutIs ==
    ASSUME NEW map, NEW key, NEW value
    PROVE  /\ DOMAIN Put(map, key, value) = DOMAIN map \cup {key}
           /\ Put(map, key, value)[key] = value
           /\ \A k \in DOMAIN map \ {key} : Put(map, key, value)[k] = map[k]
BY DEF Put

LEMMA SumPut ==
    ASSUME NEW map, NEW key, NEW value \in Nat, key \notin DOMAIN map,
           IsFiniteSet(DOMAIN map), \A k \in DOMAIN map : map[k] \in Nat
    PROVE  /\ IsFiniteSet(DOMAIN Put(map, key, value))
           /\ \A k \in DOMAIN Put(map, key, value) : Put(map, key, value)[k] \in Nat
           /\ SumFunction(Put(map, key, value)) = SumFunction(map) + value
<1> DEFINE new == Put(map, key, value)
           S == DOMAIN map
<1>1. DOMAIN new = S \cup {key} /\ new[key] = value /\ \A k \in S : new[k] = map[k]
    BY DEF Put
<1> HIDE DEF new
<1>2. IsFiniteSet(DOMAIN new)
    BY <1>1, FS_AddElement
<1>3. SumFunctionOnSet(new, S \cup {key}) = SumFunctionOnSet(new, S) + value
    BY <1>1, SumAdd
<1>4. SumFunctionOnSet(new, S) = SumFunctionOnSet(map, S)
    BY <1>1, SumSame
<1>5. SumFunction(new) = SumFunction(map) + value
    BY <1>1, <1>3, <1>4 DEF SumFunction
<1> QED
    BY <1>1, <1>2, <1>5 DEF new

-----------------------------------------------------------------------------
(* What a set of measurements adds up to.                                  *)

Good(d, own) == /\ IsFiniteSet(own) /\ own \subseteq Measurements(d)
                /\ \A p \in own : Usable(d, p)

OfClass(d, own, class) == {p \in own : Value(d, p).blob.object /\ ClassOf(d, p) = class}
OfPath(d, own, path) == {p \in own : Value(d, p).path = path}
OfTable(d, own, table) == {p \in own : TableOf(d, p) = table}

ClassTotals(d, classes, own) ==
    /\ \A class : class \in DOMAIN classes
                    <=> \E p \in own : Value(d, p).blob.object /\ ClassOf(d, p) = class
    /\ \A class \in DOMAIN classes :
          classes[class] = Weighted(d, "compressed", OfClass(d, own, class))

ColumnTotals(d, column, own) ==
    /\ column.compressed = Weighted(d, "compressed", own)
    /\ column.uncompressed = Weighted(d, "uncompressed", own)
    /\ column.values = Weighted(d, "values", own)
    /\ column.incomplete \in BOOLEAN /\ (column.incomplete <=> Unknown(d, own))
    /\ \A b : b \in DOMAIN column.blobs <=> \E p \in own : Value(d, p).blob = b
    /\ IsFiniteSet(DOMAIN column.blobs)
    /\ \A b \in DOMAIN column.blobs : column.blobs[b] \in Nat
    /\ SumFunction(column.blobs) = FilesBehind(d, own)
    /\ ClassTotals(d, column.classBytes, own)

(* The facts kept of a file are those of a measurement in it.              *)
FileTotals(d, blobs, own) ==
    /\ \A b : b \in DOMAIN blobs <=> \E p \in own : Value(d, p).blob = b
    /\ \A b \in DOMAIN blobs : \E p \in own :
          /\ Value(d, p).blob = b
          /\ blobs[b] = [size |-> Value(d, p).size, class |-> Value(d, p).class,
                         weight |-> Weight(d, p)]

TableTotals(d, table, own) ==
    /\ \A path : path \in DOMAIN table.columns <=> OfPath(d, own, path) # {}
    /\ \A path \in DOMAIN table.columns :
          ColumnTotals(d, table.columns[path], OfPath(d, own, path))
    /\ FileTotals(d, table.blobs, own)
    /\ ClassTotals(d, table.classBytes, own)

Totals(d, all, own) ==
    /\ \A table : table \in DOMAIN all <=> OfTable(d, own, table) # {}
    /\ \A table \in DOMAIN all : TableTotals(d, all[table], OfTable(d, own, table))

(* The sum over two sets that share nothing. *)
LEMMA SumUnion ==
    ASSUME NEW f, NEW A, NEW B, IsFiniteSet(A), IsFiniteSet(B), A \cap B = {},
           \A x \in A : f[x] \in Nat, \A x \in B : f[x] \in Nat
    PROVE  /\ IsFiniteSet(A \cup B)
           /\ SumFunctionOnSet(f, A \cup B) = SumFunctionOnSet(f, A) + SumFunctionOnSet(f, B)
<1>1. Cells(f, A \cup B) = Cells(f, A) \cup Cells(f, B)
    BY DEF Cells
<1>2. Cells(f, A) \cap Cells(f, B) = {}
    BY DEF Cells
<1>3. IsFiniteSet(Cells(f, A)) /\ IsFiniteSet(Cells(f, B))
    BY CellsFinite
<1>4. Cardinality(Cells(f, A)) \in Nat /\ Cardinality(Cells(f, B)) \in Nat
    BY <1>3, FS_CardinalityType
<1>5. Cardinality(Cells(f, A) \cup Cells(f, B))
        = Cardinality(Cells(f, A)) + Cardinality(Cells(f, B))
            - Cardinality(Cells(f, A) \cap Cells(f, B))
    BY <1>3, FS_Union
<1>6. Cardinality(Cells(f, A) \cap Cells(f, B)) = 0
    <2>1. Cardinality({}) = 0
        BY FS_EmptySet
    <2> QED
        BY <1>2, <2>1, Zenon
<1>7. IsFiniteSet(A \cup B)
    BY FS_Union
<1>8. SumFunctionOnSet(f, A \cup B) = Cardinality(Cells(f, A \cup B))
    BY <1>7, SumCounts
<1>9. /\ SumFunctionOnSet(f, A) = Cardinality(Cells(f, A))
      /\ SumFunctionOnSet(f, B) = Cardinality(Cells(f, B))
    BY SumCounts
<1>10. Cardinality(Cells(f, A \cup B)) = Cardinality(Cells(f, A) \cup Cells(f, B))
    BY <1>1, Zenon
<1> QED
    BY <1>4, <1>5, <1>6, <1>7, <1>8, <1>9, <1>10

(* A sum over parts is the sum over what they are parts of. *)
LEMMA SumOfParts ==
    ASSUME NEW f, NEW g, NEW S, NEW part, IsFiniteSet(S),
           \A s \in S : /\ IsFiniteSet(part[s]) /\ \A x \in part[s] : f[x] \in Nat
                        /\ g[s] = SumFunctionOnSet(f, part[s]),
           \A s, t \in S : s # t => part[s] \cap part[t] = {}
    PROVE  SumFunctionOnSet(g, S) = SumFunctionOnSet(f, UNION {part[s] : s \in S})
<1> DEFINE Over(T) == UNION {part[s] : s \in T}
           Adds(T) == /\ IsFiniteSet(Over(T))
                      /\ SumFunctionOnSet(g, T) = SumFunctionOnSet(f, Over(T))
           Bad == {T \in SUBSET S : ~Adds(T)}
<1>1. ASSUME Bad # {}
      PROVE  FALSE
    <2> HIDE DEF Adds
    <2>1. IsWellFoundedOn(StrictSubsetOrdering(S), SUBSET S)
        BY FS_StrictSubsetOrderingWellFounded, FS_FiniteSubsetsOfFinite
    <2>2. Bad \subseteq SUBSET S
        OBVIOUS
    <2>3. PICK T \in Bad : \A r \in Bad : ~(<<r, T>> \in StrictSubsetOrdering(S))
        <3> HIDE DEF Bad
        <3> QED
            BY Zenon, <1>1, <2>1, <2>2, WFMin
    <2>4. Adds({})
        <3>1. Over({}) = {}
            OBVIOUS
        <3> HIDE DEF Over
        <3> QED
            BY <3>1, SumNone, FS_EmptySet DEF Adds
    <2>5. PICK s \in T : TRUE
        BY <2>3, <2>4
    <2> DEFINE r == T \ {s}
    <2>6. r \in SUBSET S /\ <<r, T>> \in StrictSubsetOrdering(S) /\ s \in S
        BY <2>2, <2>5 DEF StrictSubsetOrdering
    <2>7. Adds(r)
        BY <2>3, <2>6
    <2>8. T = r \cup {s} /\ s \notin r /\ Over(T) = Over(r) \cup part[s]
        BY <2>5
    <2>9. Over(r) \cap part[s] = {} /\ \A x \in Over(r) : f[x] \in Nat
        BY <2>6, <2>8
    <2>10. IsFiniteSet(r) /\ \A t \in r : t \in S
        BY <2>6, FS_Subset
    <2> HIDE DEF r, Over
    <2>11. \A t \in S : g[t] \in Nat
        BY SumNat
    <2>12. SumFunctionOnSet(g, r \cup {s}) = SumFunctionOnSet(g, r) + g[s]
        BY <2>6, <2>8, <2>10, <2>11, SumAdd
    <2>13. IsFiniteSet(part[s]) /\ (\A x \in part[s] : f[x] \in Nat)
           /\ g[s] = SumFunctionOnSet(f, part[s])
        BY <2>6
    <2> DEFINE A == Over(r)
               B == part[s]
    <2>14. IsFiniteSet(A) /\ A \cap B = {} /\ (\A x \in A : f[x] \in Nat)
           /\ IsFiniteSet(B) /\ (\A x \in B : f[x] \in Nat)
        BY <2>7, <2>9, <2>13 DEF Adds
    <2> HIDE DEF A, B
    <2>15. /\ IsFiniteSet(A \cup B)
           /\ SumFunctionOnSet(f, A \cup B) = SumFunctionOnSet(f, A) + SumFunctionOnSet(f, B)
        BY Zenon, <2>14, SumUnion
    <2>16. Adds(T)
        BY <2>7, <2>8, <2>12, <2>13, <2>15 DEF Adds, A, B
    <2> QED
        BY <2>3, <2>16
<1>2. Adds(S)
    BY <1>1
<1> QED
    BY <1>2

(* The least and the greatest of finitely many numbers bound them. *)
LEMMA Extremes ==
    ASSUME NEW S, IsFiniteSet(S), S # {}, S \subseteq Nat
    PROVE  \A x \in S : Min(S) <= x /\ x <= Max(S)
<1> DEFINE Has(T) == \E low \in T : \E high \in T : \A x \in T : low <= x /\ x <= high
           Bad == {T \in SUBSET S : T # {} /\ ~Has(T)}
<1>1. ASSUME Bad # {}
      PROVE  FALSE
    <2> HIDE DEF Has
    <2>1. IsWellFoundedOn(StrictSubsetOrdering(S), SUBSET S)
        BY FS_StrictSubsetOrderingWellFounded, FS_FiniteSubsetsOfFinite
    <2>2. Bad \subseteq SUBSET S
        OBVIOUS
    <2>3. PICK T \in Bad : \A r \in Bad : ~(<<r, T>> \in StrictSubsetOrdering(S))
        <3> HIDE DEF Bad
        <3> QED
            BY Zenon, <1>1, <2>1, <2>2, WFMin
    <2>4. PICK s \in T : TRUE
        BY <2>3
    <2> DEFINE r == T \ {s}
    <2>5. r \in SUBSET S /\ <<r, T>> \in StrictSubsetOrdering(S) /\ s \in Nat /\ T \subseteq Nat
        BY <2>2, <2>4 DEF StrictSubsetOrdering
    <2>6. T = r \cup {s}
        BY <2>4
    <2>7. CASE r = {}
        BY <2>3, <2>5, <2>6, <2>7 DEF Has
    <2>8. CASE r # {}
        <3>1. Has(r)
            BY <2>3, <2>5, <2>8
        <3> HIDE DEF r
        <3>2. PICK low \in r, high \in r : \A x \in r : low <= x /\ x <= high
            BY <3>1 DEF Has
        <3> DEFINE l == IF s < low THEN s ELSE low
                   h == IF s > high THEN s ELSE high
        <3>3. low \in Nat /\ high \in Nat
            BY <2>5, <2>6
        <3>4. l \in T /\ h \in T
            BY <2>6
        <3>5. \A x \in T : l <= x /\ x <= h
            BY <2>5, <2>6, <3>2, <3>3
        <3> QED
            BY <2>3, <3>4, <3>5 DEF Has
    <2> QED
        BY <2>7, <2>8
<1>2. Has(S)
    BY <1>1
<1>3. \E low \in S : \A x \in S : low <= x
    BY <1>2
<1>4. \E high \in S : \A x \in S : high >= x
    BY <1>2
<1>5. \A x \in S : Min(S) <= x
    BY <1>3 DEF Min
<1>6. Max(S) \in S /\ \A x \in S : Max(S) >= x
    BY <1>4 DEF Max
<1> QED
    BY <1>5, <1>6

LEMMA NatTimes == ASSUME NEW m \in Nat, NEW n \in Nat PROVE m * n \in Nat
    OBVIOUS

LEMMA ColumnFacts ==
    ASSUME NEW d \in Documents, NEW p \in Measurements(d)
    PROVE  IsColumn(Value(d, p))
<1>1. p \in Present(d) /\ Value(d, p).kind = "column"
    BY DEF Measurements
<1>2. p[1] \in Feeds /\ p[2] \in 1..Len(d.lines[p[1]])
      /\ p[3] \in 1..Len(ValuesIn(d.lines[p[1]][p[2]]))
    BY <1>1, PresentParts
<1>3. IsDocument(d)
    BY DocumentsAssumption
<1> QED
    BY <1>1, <1>2, <1>3 DEF IsDocument, Value

LEMMA OrZeroNat ==
    ASSUME NEW v \in Nat \cup {None}
    PROVE  OrZero(v) \in Nat
BY DEF OrZero

LEMMA WeightFacts ==
    ASSUME NEW d \in Documents, NEW p \in Measurements(d), Usable(d, p)
    PROVE  /\ Weight(d, p) \in Nat /\ SampleWeight(Value(d, p).rate) = Weight(d, p)
           /\ SampleRateError(Value(d, p).rate) = None
           /\ Weights(d)[p] = Weight(d, p)
<1> DEFINE rate == Value(d, p).rate
<1>1. rate \in {None} \cup 1..4 /\ None \notin Nat /\ Tiny \notin Nat /\ Tiny # None
    BY NoneAssumption DEF Usable
<1>2. SampleWeight(rate) = IF rate = None THEN 1 ELSE 4 \div rate
    BY DEF SampleWeight
<1>3. rate = None \/ rate = 1 \/ rate = 2 \/ rate = 3 \/ rate = 4
    BY <1>1
<1>4. SampleWeight(rate) \in Nat
    BY <1>1, <1>2, <1>3
<1>5. SampleRateError(rate) = None
    BY <1>1 DEF SampleRateError, RateAccepted
<1> QED
    BY <1>2, <1>4, <1>5 DEF Weight, Weights, SampleWeight

LEMMA ScaledFacts ==
    ASSUME NEW d \in Documents, NEW p \in Measurements(d), Usable(d, p),
           NEW field \in {"compressed", "uncompressed", "values"}
    PROVE  /\ Scaled(d, field)[p] = Weight(d, p) * OrZero(Value(d, p).mass[field])
           /\ Scaled(d, field)[p] \in Nat
<1>1. Value(d, p).mass[field] \in Nat \cup {None}
    BY ColumnFacts DEF IsColumn
<1>2. OrZero(Value(d, p).mass[field]) \in Nat
    BY <1>1, OrZeroNat
<1>3. Weight(d, p) \in Nat
    BY WeightFacts
<1>4. Scaled(d, field)[p] = Weight(d, p) * OrZero(Value(d, p).mass[field])
    BY DEF Scaled
<1> QED
    BY <1>2, <1>3, <1>4, NatTimes

LEMMA GoodAdd ==
    ASSUME NEW d \in Documents, NEW own, Good(d, own), NEW p \in Measurements(d), Usable(d, p)
    PROVE  Good(d, own \cup {p})
BY FS_AddElement DEF Good

LEMMA GoodPart ==
    ASSUME NEW d \in Documents, NEW own, Good(d, own), NEW part, part \subseteq own
    PROVE  Good(d, part)
<1>1. IsFiniteSet(own)
    BY DEF Good
<1>2. IsFiniteSet(part)
    BY <1>1, FS_Subset
<1> QED
    BY <1>2 DEF Good

LEMMA WeightedAdd ==
    ASSUME NEW d \in Documents, NEW own, Good(d, own), NEW p \in Measurements(d), p \notin own,
           Usable(d, p), NEW field \in {"compressed", "uncompressed", "values"}
    PROVE  /\ Weighted(d, field, own \cup {p})
                = Weighted(d, field, own) + Weight(d, p) * OrZero(Value(d, p).mass[field])
           /\ Weighted(d, field, own) \in Nat
<1> DEFINE f == Scaled(d, field)
<1>1. f[p] = Weight(d, p) * OrZero(Value(d, p).mass[field]) /\ f[p] \in Nat
    BY ScaledFacts
<1>2. \A q \in own : f[q] \in Nat
    BY ScaledFacts DEF Good
<1>3. IsFiniteSet(own)
    BY DEF Good
<1> HIDE DEF f
<1>4. SumFunctionOnSet(f, own \cup {p}) = SumFunctionOnSet(f, own) + f[p]
    BY <1>1, <1>2, <1>3, SumAdd
<1>5. SumFunctionOnSet(f, own) \in Nat
    BY <1>2, <1>3, SumNat
<1> QED
    BY <1>1, <1>4, <1>5 DEF Weighted, f

LEMMA FilesAdd ==
    ASSUME NEW d \in Documents, NEW own, Good(d, own), NEW p \in Measurements(d), p \notin own,
           Usable(d, p)
    PROVE  FilesBehind(d, own \cup {p}) = FilesBehind(d, own) + Weight(d, p)
<1> DEFINE f == Weights(d)
<1>1. f[p] = Weight(d, p) /\ f[p] \in Nat
    BY WeightFacts
<1>2. \A q \in own : f[q] \in Nat
    BY WeightFacts DEF Good
<1>3. IsFiniteSet(own)
    BY DEF Good
<1> HIDE DEF f
<1>4. SumFunctionOnSet(f, own \cup {p}) = SumFunctionOnSet(f, own) + f[p]
    BY <1>1, <1>2, <1>3, SumAdd
<1> QED
    BY <1>1, <1>4 DEF FilesBehind, f

LEMMA NothingFolded ==
    ASSUME NEW d \in Documents
    PROVE  /\ \A field : Weighted(d, field, {}) = 0
           /\ FilesBehind(d, {}) = 0 /\ ~Unknown(d, {})
BY SumNone DEF Weighted, FilesBehind, Unknown

-----------------------------------------------------------------------------
(* Folding a measurement adds it to the totals of its class, column, file, *)
(* table.                                                                  *)

LEMMA ClassAdd ==
    ASSUME NEW d \in Documents, NEW own, Good(d, own), NEW p \in Measurements(d), p \notin own,
           Usable(d, p), NEW classes, ClassTotals(d, classes, own),
           NEW bytes, bytes = Weight(d, p) * OrZero(Value(d, p).mass["compressed"])
    PROVE  ClassTotals(d, AddClass(classes, ColumnClass(Value(d, p)), bytes), own \cup {p})
<1> DEFINE r == Value(d, p)
           c == ClassOf(d, p)
           new == AddClass(classes, ColumnClass(r), bytes)
           more == own \cup {p}
<1>1. r.blob.object \in BOOLEAN
    BY ColumnFacts DEF IsColumn
<1>2. CASE ~r.blob.object
    <2>1. new = classes
        BY <1>2 DEF AddClass, ColumnClass
    <2>2. \A class : OfClass(d, more, class) = OfClass(d, own, class)
        BY <1>2 DEF OfClass
    <2>3. \A class : (\E q \in more : Value(d, q).blob.object /\ ClassOf(d, q) = class)
                       <=> (\E q \in own : Value(d, q).blob.object /\ ClassOf(d, q) = class)
        BY <1>2
    <2> QED
        BY <2>1, <2>2, <2>3 DEF ClassTotals
<1>3. CASE r.blob.object
    <2>1. ColumnClass(r) = c /\ c # None
        BY <1>3, DocumentsAssumption DEF ColumnClass, ClassOf
    <2>2. new = Put(classes, c, Entry(classes, c, 0) + bytes)
        BY <2>1 DEF AddClass
    <2>3. /\ DOMAIN new = DOMAIN classes \cup {c}
          /\ new[c] = Entry(classes, c, 0) + bytes
          /\ \A k \in DOMAIN classes \ {c} : new[k] = classes[k]
        BY <2>2 DEF Put
    <2> DEFINE part == OfClass(d, own, c)
    <2>4. OfClass(d, more, c) = part \cup {p}
        BY <1>3 DEF OfClass
    <2>5. Good(d, part) /\ p \notin part
        <3>1. part \subseteq own
            BY DEF OfClass
        <3> QED
            BY <3>1, GoodPart
    <2>6. /\ Weighted(d, "compressed", part \cup {p}) = Weighted(d, "compressed", part) + bytes
          /\ Weighted(d, "compressed", part) \in Nat
        BY <2>5, WeightedAdd
    <2>7. Entry(classes, c, 0) = Weighted(d, "compressed", part)
        <3>1. CASE c \in DOMAIN classes
            BY <3>1 DEF Entry, ClassTotals
        <3>2. CASE c \notin DOMAIN classes
            <4>1. part = {}
                BY <3>2 DEF ClassTotals, OfClass
            <4> QED
                BY <3>2, <4>1, NothingFolded DEF Entry
        <3> QED
            BY <3>1, <3>2
    <2>8. new[c] = Weighted(d, "compressed", OfClass(d, more, c))
        BY <2>3, <2>4, <2>6, <2>7
    <2>9. \A k : k # c => OfClass(d, more, k) = OfClass(d, own, k)
        BY DEF OfClass
    <2>10. \A k : k \in DOMAIN new
                    <=> \E q \in more : Value(d, q).blob.object /\ ClassOf(d, q) = k
        BY <1>3, <2>3 DEF ClassTotals
    <2>11. \A k \in DOMAIN classes \ {c} :
              new[k] = Weighted(d, "compressed", OfClass(d, more, k))
        BY <2>3, <2>9 DEF ClassTotals
    <2> HIDE DEF new, more, c
    <2>12. \A k \in DOMAIN new : new[k] = Weighted(d, "compressed", OfClass(d, more, k))
        BY <2>3, <2>8, <2>11
    <2>13. ClassTotals(d, new, more)
        BY <2>10, <2>12 DEF ClassTotals, more
    <2> QED
        BY <2>13 DEF new, more
<1> HIDE DEF new
<1> QED
    BY <1>1, <1>2, <1>3 DEF new

LEMMA BytesAdd ==
    ASSUME NEW d \in Documents, NEW own, Good(d, own), NEW p \in Measurements(d), p \notin own,
           Usable(d, p), NEW column, ColumnTotals(d, column, own),
           \A q \in own : Value(d, q).blob # Value(d, p).blob
    PROVE  ColumnTotals(d, AddBytes(column, Value(d, p), Weight(d, p)), own \cup {p})
<1> DEFINE r == Value(d, p)
           w == Weight(d, p)
           new == AddBytes(column, r, w)
           more == own \cup {p}
           bytes == w * OrZero(r.mass.compressed)
<1>1. /\ new.compressed = column.compressed + bytes
      /\ new.uncompressed = column.uncompressed + w * OrZero(r.mass.uncompressed)
      /\ new.incomplete = (column.incomplete \/ r.mass.uncompressed = None)
      /\ new.values = column.values + w * OrZero(r.mass.values)
      /\ new.blobs = Put(column.blobs, r.blob, w)
      /\ new.classBytes = AddClass(column.classBytes, ColumnClass(r), bytes)
    BY DEF AddBytes
<1>2. /\ new.compressed = Weighted(d, "compressed", more)
      /\ new.uncompressed = Weighted(d, "uncompressed", more)
      /\ new.values = Weighted(d, "values", more)
    <2>1. Weighted(d, "compressed", more)
            = Weighted(d, "compressed", own) + w * OrZero(r.mass.compressed)
        BY WeightedAdd
    <2>2. Weighted(d, "uncompressed", more)
            = Weighted(d, "uncompressed", own) + w * OrZero(r.mass.uncompressed)
        BY WeightedAdd
    <2>3. Weighted(d, "values", more) = Weighted(d, "values", own) + w * OrZero(r.mass.values)
        BY WeightedAdd
    <2> QED
        BY <1>1, <2>1, <2>2, <2>3 DEF ColumnTotals
<1>3. new.incomplete \in BOOLEAN /\ (new.incomplete <=> Unknown(d, more))
    BY <1>1 DEF ColumnTotals, Unknown
<1>4. r.blob \notin DOMAIN column.blobs /\ w \in Nat
    BY WeightFacts DEF ColumnTotals
<1>5. /\ IsFiniteSet(DOMAIN new.blobs)
      /\ \A b \in DOMAIN new.blobs : new.blobs[b] \in Nat
      /\ SumFunction(new.blobs) = SumFunction(column.blobs) + w
    <2>1. IsFiniteSet(DOMAIN column.blobs) /\ \A b \in DOMAIN column.blobs : column.blobs[b] \in Nat
        BY DEF ColumnTotals
    <2> DEFINE m == column.blobs
               b == r.blob
    <2> HIDE DEF m, b, w
    <2>2. /\ IsFiniteSet(DOMAIN Put(m, b, w))
          /\ \A k \in DOMAIN Put(m, b, w) : Put(m, b, w)[k] \in Nat
          /\ SumFunction(Put(m, b, w)) = SumFunction(m) + w
        BY <1>4, <2>1, SumPut DEF m, b
    <2> QED
        BY <1>1, <2>2 DEF m, b
<1>6. SumFunction(new.blobs) = FilesBehind(d, more)
    BY <1>5, FilesAdd DEF ColumnTotals
<1>7. \A b : b \in DOMAIN new.blobs <=> \E q \in more : Value(d, q).blob = b
    <2>1. DOMAIN new.blobs = DOMAIN column.blobs \cup {r.blob}
        BY <1>1 DEF Put
    <2> QED
        BY <2>1 DEF ColumnTotals
<1>8. ClassTotals(d, new.classBytes, more)
    <2>1. ClassTotals(d, column.classBytes, own) /\ bytes = w * OrZero(r.mass["compressed"])
        BY DEF ColumnTotals
    <2>2. ClassTotals(d, AddClass(column.classBytes, ColumnClass(r), bytes), more)
        BY <2>1, ClassAdd
    <2> QED
        BY <1>1, <2>2
<1> HIDE DEF new
<1>9. ColumnTotals(d, new, more)
    BY <1>2, <1>3, <1>5, <1>6, <1>7, <1>8 DEF ColumnTotals
<1> QED
    BY <1>9 DEF new

LEMMA NoBytesTotals ==
    ASSUME NEW d \in Documents
    PROVE  ColumnTotals(d, NoBytes, {})
<1>1. DOMAIN << >> = {}
    OBVIOUS
<1>2. IsFiniteSet({}) /\ SumFunctionOnSet(<< >>, {}) = 0
    BY FS_EmptySet, SumNone
<1>3. SumFunction(<< >>) = 0
    BY <1>1, <1>2 DEF SumFunction
<1>4. ClassTotals(d, << >>, {})
    BY <1>1 DEF ClassTotals
<1> QED
    BY <1>1, <1>2, <1>3, <1>4, NothingFolded DEF ColumnTotals, NoBytes, Unknown

LEMMA NoTableTotals ==
    ASSUME NEW d \in Documents
    PROVE  TableTotals(d, NoTable, {})
<1>1. DOMAIN << >> = {}
    OBVIOUS
<1> QED
    BY <1>1 DEF TableTotals, NoTable, FileTotals, ClassTotals, OfPath

WithRow(table, r, weight) ==
    [columns    |-> Put(table.columns, r.path,
                        AddBytes(Entry(table.columns, r.path, NoBytes), r, weight)),
     blobs      |-> Put(table.blobs, r.blob,
                        Entry(table.blobs, r.blob,
                              [size |-> r.size, class |-> r.class, weight |-> weight])),
     classBytes |-> AddClass(table.classBytes, ColumnClass(r),
                             weight * OrZero(r.mass.compressed))]

LEMMA AddColumnIs ==
    ASSUME NEW r
    PROVE  AddColumn(r) = Put(tables, ResolveTable(r),
                              WithRow(Entry(tables, ResolveTable(r), NoTable), r,
                                      SampleWeight(r.rate)))
BY DEF AddColumn, WithRow

LEMMA FilesFolded ==
    ASSUME NEW d \in Documents, NEW own, NEW p \in Measurements(d),
           NEW blobs, FileTotals(d, blobs, own),
           NEW facts, facts = [size |-> Value(d, p).size, class |-> Value(d, p).class,
                               weight |-> Weight(d, p)]
    PROVE  FileTotals(d, Put(blobs, Value(d, p).blob, Entry(blobs, Value(d, p).blob, facts)),
                      own \cup {p})
<1> DEFINE b == Value(d, p).blob
           new == Put(blobs, b, Entry(blobs, b, facts))
           more == own \cup {p}
<1>1. /\ DOMAIN new = DOMAIN blobs \cup {b} /\ new[b] = Entry(blobs, b, facts)
      /\ \A k \in DOMAIN blobs \ {b} : new[k] = blobs[k]
    BY DEF Put
<1>2. /\ b \in DOMAIN blobs => new[b] = blobs[b]
      /\ b \notin DOMAIN blobs => new[b] = facts
    BY <1>1 DEF Entry
<1> HIDE DEF new
<1>3. \A k : k \in DOMAIN new <=> \E q \in more : Value(d, q).blob = k
    BY <1>1 DEF FileTotals
<1>4. ASSUME NEW k \in DOMAIN new
      PROVE  \E q \in more : /\ Value(d, q).blob = k
                             /\ new[k] = [size |-> Value(d, q).size, class |-> Value(d, q).class,
                                          weight |-> Weight(d, q)]
    <2>1. CASE k \in DOMAIN blobs
        <3>1. new[k] = blobs[k]
            BY <1>1, <1>2, <2>1
        <3>2. PICK q \in own : /\ Value(d, q).blob = k
                               /\ blobs[k] = [size |-> Value(d, q).size,
                                              class |-> Value(d, q).class,
                                              weight |-> Weight(d, q)]
            BY <2>1 DEF FileTotals
        <3> QED
            BY <3>1, <3>2
    <2>2. CASE k \notin DOMAIN blobs
        <3>1. k = b /\ new[k] = facts
            BY <1>1, <1>2, <2>2
        <3> QED
            BY <3>1
    <2> QED
        BY <2>1, <2>2
<1>5. FileTotals(d, new, more)
    BY <1>3, <1>4 DEF FileTotals
<1> QED
    BY <1>5 DEF new

LEMMA TableAdd ==
    ASSUME NEW d \in Documents, NEW own, Good(d, own), NEW p \in Measurements(d), p \notin own,
           Usable(d, p), NEW table, TableTotals(d, table, own),
           \A q \in own : Value(d, q).path = Value(d, p).path => Value(d, q).blob # Value(d, p).blob
    PROVE  TableTotals(d, WithRow(table, Value(d, p), Weight(d, p)), own \cup {p})
<1> DEFINE r == Value(d, p)
           w == Weight(d, p)
           new == WithRow(table, r, w)
           more == own \cup {p}
           old == Entry(table.columns, r.path, NoBytes)
           part == OfPath(d, own, r.path)
<1>1. /\ new.columns = Put(table.columns, r.path, AddBytes(old, r, w))
      /\ new.blobs = Put(table.blobs, r.blob,
                         Entry(table.blobs, r.blob,
                               [size |-> r.size, class |-> r.class, weight |-> w]))
      /\ new.classBytes = AddClass(table.classBytes, ColumnClass(r), w * OrZero(r.mass.compressed))
    BY DEF WithRow
<1> HIDE DEF new
<1>2. part \subseteq own /\ Good(d, part) /\ p \notin part
      /\ OfPath(d, more, r.path) = part \cup {p}
    <2>1. part \subseteq own /\ p \notin part /\ OfPath(d, more, r.path) = part \cup {p}
        BY DEF OfPath
    <2> QED
        BY <2>1, GoodPart
<1>3. ColumnTotals(d, old, part)
    <2>1. CASE r.path \in DOMAIN table.columns
        BY <2>1 DEF Entry, TableTotals
    <2>2. CASE r.path \notin DOMAIN table.columns
        <3>1. part = {} /\ old = NoBytes
            BY <2>2 DEF Entry, TableTotals
        <3> QED
            BY <3>1, NoBytesTotals
    <2> QED
        BY <2>1, <2>2
<1>4. ColumnTotals(d, AddBytes(old, r, w), OfPath(d, more, r.path))
    <2>1. \A q \in part : Value(d, q).blob # r.blob
        BY DEF OfPath
    <2> HIDE DEF old, part
    <2>2. ColumnTotals(d, AddBytes(old, r, w), part \cup {p})
        BY <1>2, <1>3, <2>1, BytesAdd
    <2> QED
        BY <1>2, <2>2
<1>5. /\ DOMAIN new.columns = DOMAIN table.columns \cup {r.path}
      /\ new.columns[r.path] = AddBytes(old, r, w)
      /\ \A path \in DOMAIN table.columns \ {r.path} : new.columns[path] = table.columns[path]
    BY <1>1 DEF Put
<1>6. \A path : path # r.path => OfPath(d, more, path) = OfPath(d, own, path)
    BY DEF OfPath
<1>7. \A path : path \in DOMAIN new.columns <=> OfPath(d, more, path) # {}
    <2>1. OfPath(d, more, r.path) # {}
        BY <1>2
    <2> HIDE DEF more
    <2> QED
        BY <1>5, <1>6, <2>1 DEF TableTotals
<1>8. \A path \in DOMAIN new.columns : ColumnTotals(d, new.columns[path], OfPath(d, more, path))
    <2> HIDE DEF more, old, r, w
    <2>1. \A path \in DOMAIN table.columns \ {r.path} :
             ColumnTotals(d, new.columns[path], OfPath(d, more, path))
        BY <1>5, <1>6 DEF TableTotals
    <2> QED
        BY <1>4, <1>5, <2>1
<1>9. FileTotals(d, new.blobs, more)
    <2> DEFINE facts == [size |-> r.size, class |-> r.class, weight |-> w]
    <2>1. FileTotals(d, table.blobs, own)
        BY DEF TableTotals
    <2>2. FileTotals(d, Put(table.blobs, r.blob, Entry(table.blobs, r.blob, facts)), more)
        BY <2>1, FilesFolded
    <2> QED
        BY <1>1, <2>2
<1>10. ClassTotals(d, new.classBytes, more)
    <2> DEFINE bytes == w * OrZero(r.mass.compressed)
    <2>1. ClassTotals(d, table.classBytes, own) /\ bytes = w * OrZero(r.mass["compressed"])
        BY DEF TableTotals
    <2>2. ClassTotals(d, AddClass(table.classBytes, ColumnClass(r), bytes), more)
        BY <2>1, ClassAdd
    <2> QED
        BY <1>1, <2>2
<1>11. TableTotals(d, new, more)
    BY <1>7, <1>8, <1>9, <1>10 DEF TableTotals
<1> QED
    BY <1>11 DEF new

LEMMA AllAdd ==
    ASSUME NEW d \in Documents, NEW own, Good(d, own), NEW p \in Measurements(d), p \notin own,
           Usable(d, p), NEW all, Totals(d, all, own), \A q \in own : ~SameColumn(d, p, q)
    PROVE  Totals(d, Put(all, TableOf(d, p), WithRow(Entry(all, TableOf(d, p), NoTable),
                                                     Value(d, p), Weight(d, p))),
                  own \cup {p})
<1> DEFINE t == TableOf(d, p)
           old == Entry(all, t, NoTable)
           row == WithRow(old, Value(d, p), Weight(d, p))
           new == Put(all, t, row)
           more == own \cup {p}
           part == OfTable(d, own, t)
<1>1. /\ DOMAIN new = DOMAIN all \cup {t} /\ new[t] = row
      /\ \A k \in DOMAIN all \ {t} : new[k] = all[k]
    BY DEF Put
<1> HIDE DEF new
<1>2. part \subseteq own /\ Good(d, part) /\ p \notin part
      /\ OfTable(d, more, t) = part \cup {p}
    <2>1. part \subseteq own /\ p \notin part /\ OfTable(d, more, t) = part \cup {p}
        BY DEF OfTable
    <2> QED
        BY <2>1, GoodPart
<1>3. TableTotals(d, old, part)
    <2>1. CASE t \in DOMAIN all
        BY <2>1 DEF Entry, Totals
    <2>2. CASE t \notin DOMAIN all
        <3>1. part = {} /\ old = NoTable
            BY <2>2 DEF Entry, Totals
        <3> QED
            BY <3>1, NoTableTotals
    <2> QED
        BY <2>1, <2>2
<1>4. TableTotals(d, row, OfTable(d, more, t))
    <2>1. \A q \in part : Value(d, q).path = Value(d, p).path => Value(d, q).blob # Value(d, p).blob
        BY DEF OfTable, SameColumn, KeyOf
    <2> HIDE DEF old, part
    <2>2. TableTotals(d, row, part \cup {p})
        BY <1>2, <1>3, <2>1, TableAdd
    <2> QED
        BY <1>2, <2>2
<1>5. \A k : k # t => OfTable(d, more, k) = OfTable(d, own, k)
    BY DEF OfTable
<1>6. \A k : k \in DOMAIN new <=> OfTable(d, more, k) # {}
    <2>1. OfTable(d, more, t) # {}
        BY <1>2
    <2> HIDE DEF more, t
    <2> QED
        BY <1>1, <1>5, <2>1 DEF Totals
<1>7. \A k \in DOMAIN new : TableTotals(d, new[k], OfTable(d, more, k))
    <2> HIDE DEF more, old, t, row
    <2>1. \A k \in DOMAIN all \ {t} : TableTotals(d, new[k], OfTable(d, more, k))
        BY <1>1, <1>5 DEF Totals
    <2> QED
        BY <1>1, <1>4, <2>1
<1>8. Totals(d, new, more)
    BY <1>6, <1>7 DEF Totals
<1> QED
    BY <1>8 DEF new

-----------------------------------------------------------------------------
(* The invariant of the reading.                                           *)

(* No value that was read is refused, and none repeats another.            *)
Accepted(d, R) ==
    /\ \A p \in R : /\ Value(d, p).kind \in {"column", "blob"}
                    /\ Value(d, p).kind = "column" => Usable(d, p)
    /\ \A p, q \in R : /\ Value(d, p).kind = "column" /\ Value(d, q).kind = "column"
                       /\ SameColumn(d, p, q)
                       => p = q

Reading(d, a, o, e, all) ==
    /\ AtInv(d, a)
    /\ o \in BOOLEAN /\ OpenInv(d, a, o) /\ ReadInv(d, a)
    /\ e \in BOOLEAN /\ (e <=> Read(d, a) = {})
    /\ Accepted(d, Read(d, a)) /\ Totals(d, all, Folded(d, a))

Inv ==
    /\ document \in Documents
    /\ status = "reading" => Reading(document, at, open, empty, tables)
    /\ AllOrNothing /\ RowsAreTheTable /\ CostsAddUp

LEMMA FoldedIs ==
    ASSUME NEW d \in Documents, NEW a, Accepted(d, Read(d, a))
    PROVE  Good(d, Folded(d, a))
<1>1. Folded(d, a) \subseteq Measurements(d)
    BY DEF Folded, Read, Measurements
<1>2. IsFiniteSet(Folded(d, a))
    BY <1>1, PresentFinite, FS_Subset
<1> QED
    BY <1>1, <1>2 DEF Good, Accepted, Folded

LEMMA ClassifyErrorIs ==
    ASSUME NEW v
    PROVE  ClassifyError(v) = None <=> v.kind \in {"column", "blob"}
<1>1. None \notin {"needs_blob", "measure_first", "summary", "needs_name", "unsupported_name"}
    BY DocumentsAssumption
<1>2. CASE v.kind \in {"column", "blob"}
    BY <1>2 DEF ClassifyError
<1>3. CASE v.kind \notin {"column", "blob"}
    BY <1>1, <1>3 DEF ClassifyError
<1> QED
    BY <1>2, <1>3

LEMMA AddErrorIs ==
    ASSUME document \in Documents, NEW own, own \subseteq Measurements(document),
           Totals(document, tables, own), NEW p \in Measurements(document)
    PROVE  AddError(Value(document, p)) = None
             <=> Usable(document, p) /\ \A q \in own : ~SameColumn(document, p, q)
<1> DEFINE d == document
           r == Value(d, p)
           t == ResolveTable(r)
           table == Entry(tables, t, NoTable)
           column == Entry(table.columns, r.path, NoBytes)
<1>1. None \notin {"TableName", "SampleRate", "Overflow", "Duplicate"}
    BY DocumentsAssumption
<1>2. t.canonical \in BOOLEAN
    BY ColumnFacts DEF IsColumn
<1>3. SampleRateError(r.rate) = None <=> r.rate \in {None} \cup 1..4
    BY <1>1, NoneAssumption DEF SampleRateError, RateAccepted
<1>4. AddError(r) = IF ~t.canonical THEN "TableName"
                    ELSE IF SampleRateError(r.rate) # None THEN SampleRateError(r.rate)
                    ELSE IF r.blob \in DOMAIN column.blobs THEN "Duplicate" ELSE None
    BY DEF AddError
<1>5. r.blob \in DOMAIN column.blobs <=> \E q \in own : SameColumn(d, p, q)
    <2> DEFINE part == OfTable(d, own, t)
    <2>1. \A q \in own : SameColumn(d, p, q)
                           <=> q \in OfPath(d, part, r.path) /\ Value(d, q).blob = r.blob
        BY DEF SameColumn, KeyOf, TableOf, OfPath, OfTable
    <2>2. OfPath(d, part, r.path) \subseteq own
        BY DEF OfPath, OfTable
    <2>3. CASE t \in DOMAIN tables /\ r.path \in DOMAIN tables[t].columns
        <3>1. column = tables[t].columns[r.path]
            BY <2>3 DEF Entry
        <3>2. ColumnTotals(d, column, OfPath(d, part, r.path))
            BY <2>3, <3>1 DEF Totals, TableTotals
        <3>3. r.blob \in DOMAIN column.blobs
                <=> \E q \in OfPath(d, part, r.path) : Value(d, q).blob = r.blob
            BY <3>2 DEF ColumnTotals
        <3> QED
            BY <2>1, <2>2, <3>3
    <2>4. CASE ~(t \in DOMAIN tables /\ r.path \in DOMAIN tables[t].columns)
        <3>1. OfPath(d, part, r.path) = {}
            <4>1. CASE t \notin DOMAIN tables
                <5>1. part = {}
                    BY <4>1 DEF Totals
                <5> QED
                    BY <5>1 DEF OfPath
            <4>2. CASE t \in DOMAIN tables
                <5>1. TableTotals(d, tables[t], part)
                    BY <4>2 DEF Totals
                <5> QED
                    BY <2>4, <4>2, <5>1 DEF TableTotals
            <4> QED
                BY <4>1, <4>2
        <3>2. column = NoBytes
            <4>1. CASE t \notin DOMAIN tables
                <5>1. table = NoTable
                    BY <4>1 DEF Entry
                <5>2. DOMAIN table.columns = {}
                    BY <5>1 DEF NoTable
                <5> QED
                    BY <5>2 DEF Entry
            <4>2. CASE t \in DOMAIN tables
                BY <2>4, <4>2 DEF Entry
            <4> QED
                BY <4>1, <4>2
        <3>3. DOMAIN column.blobs = {}
            BY <3>2 DEF NoBytes
        <3> QED
            BY <2>1, <3>1, <3>3
    <2> QED
        BY <2>3, <2>4
<1> HIDE DEF column
<1> QED
    BY <1>1, <1>2, <1>3, <1>4, <1>5 DEF Usable, TableOf

(* What FoldError finds: a value that cannot be part of a sound document.  *)
LEMMA FoldErrorIs ==
    ASSUME document \in Documents, NEW R, R \subseteq Present(document),
           NEW own, own = {q \in R : Value(document, q).kind = "column"},
           Totals(document, tables, own), NEW p \in Present(document) \ R
    PROVE  FoldError(Value(document, p)) = None
             <=> /\ Value(document, p).kind \in {"column", "blob"}
                 /\ Value(document, p).kind = "column" =>
                      Usable(document, p) /\ \A q \in own : ~SameColumn(document, p, q)
<1> DEFINE v == Value(document, p)
<1>1. ClassifyError(v) = None <=> v.kind \in {"column", "blob"}
    BY ClassifyErrorIs
<1>2. v.kind = "column" =>
        (AddError(v) = None <=> Usable(document, p) /\ \A q \in own : ~SameColumn(document, p, q))
    <2>1. own \subseteq Measurements(document)
        BY DEF Measurements
    <2>2. v.kind = "column" => p \in Measurements(document)
        BY DEF Measurements
    <2> QED
        BY <2>1, <2>2, AddErrorIs
<1> HIDE DEF v
<1>3. FoldError(v) = None <=> /\ ClassifyError(v) = None
                              /\ v.kind = "column" => AddError(v) = None
    BY DEF FoldError
<1> QED
    BY <1>1, <1>2, <1>3 DEF v

LEMMA FoldErrorStops ==
    ASSUME document \in Documents, NEW R, R \subseteq Present(document),
           NEW own, own = {q \in R : Value(document, q).kind = "column"},
           Totals(document, tables, own), NEW p \in Present(document) \ R,
           FoldError(Value(document, p)) # None
    PROVE  ~Sound(document) /\ FoldError(Value(document, p)) \notin {"ok", "reading"}
<1> DEFINE v == Value(document, p)
<1>1. ~Sound(document)
    <2>1. ~(/\ v.kind \in {"column", "blob"}
            /\ v.kind = "column" =>
                 Usable(document, p) /\ \A q \in own : ~SameColumn(document, p, q))
        BY FoldErrorIs
    <2>2. CASE v.kind \notin {"column", "blob"}
        BY <2>2 DEF Sound
    <2>3. CASE v.kind = "column" /\ ~Usable(document, p)
        BY <2>3 DEF Sound, Measurements
    <2>4. ASSUME v.kind = "column", NEW q \in own, SameColumn(document, p, q)
          PROVE  ~Sound(document)
        <3>1. p \in Measurements(document) /\ q \in Measurements(document) /\ p # q
            BY <2>4 DEF Measurements
        <3> QED
            BY <2>4, <3>1 DEF Sound
    <2> QED
        BY <2>1, <2>2, <2>3, <2>4
<1> HIDE DEF v
<1>2. ClassifyError(v) \notin {"ok", "reading"} \/ ClassifyError(v) = None
    BY DEF ClassifyError
<1>3. AddError(v) \notin {"ok", "reading"} \/ AddError(v) = None
    <2>1. SampleRateError(v.rate) \notin {"ok", "reading"} \/ SampleRateError(v.rate) = None
        BY DEF SampleRateError
    <2> QED
        BY <2>1 DEF AddError
<1>4. FoldError(v) \notin {"ok", "reading"} \/ FoldError(v) = None
    BY <1>2, <1>3 DEF FoldError
<1> QED
    BY <1>1, <1>4 DEF v

(* A value that is not refused is one more value accepted, and folded.     *)
LEMMA OneMore ==
    ASSUME NEW d \in Documents, NEW a, NEW b, NEW p \in Present(d) \ Read(d, a),
           Read(d, b) = Read(d, a) \cup {p},
           Accepted(d, Read(d, a)), NEW all, Totals(d, all, Folded(d, a)),
           Value(d, p).kind \in {"column", "blob"},
           Value(d, p).kind = "column" =>
              Usable(d, p) /\ \A q \in Folded(d, a) : ~SameColumn(d, p, q)
    PROVE  /\ Accepted(d, Read(d, b))
           /\ Value(d, p).kind # "column" => Totals(d, all, Folded(d, b))
           /\ Value(d, p).kind = "column" =>
                Totals(d, Put(all, TableOf(d, p),
                              WithRow(Entry(all, TableOf(d, p), NoTable),
                                      Value(d, p), Weight(d, p))),
                       Folded(d, b))
<1>1. Accepted(d, Read(d, b))
    <2> DEFINE R == Read(d, a)
    <2>1. \A q \in R \cup {p} : /\ Value(d, q).kind \in {"column", "blob"}
                               /\ Value(d, q).kind = "column" => Usable(d, q)
        BY DEF Accepted
    <2>2. ASSUME NEW q \in R \cup {p}, NEW s \in R \cup {p}, SameColumn(d, q, s),
                 Value(d, q).kind = "column", Value(d, s).kind = "column"
          PROVE  q = s
        <3>1. CASE q \in R /\ s \in R
            BY <2>2, <3>1 DEF Accepted
        <3>2. CASE q = p /\ s \in R
            BY <2>2, <3>2 DEF Folded
        <3>3. CASE q \in R /\ s = p
            BY <2>2, <3>3 DEF Folded, SameColumn
        <3> QED
            BY <3>1, <3>2, <3>3
    <2> HIDE DEF R
    <2>3. Read(d, b) = R \cup {p}
        BY DEF R
    <2> QED
        BY <2>1, <2>2, <2>3 DEF Accepted
<1>2. ASSUME Value(d, p).kind # "column"
      PROVE  Totals(d, all, Folded(d, b))
    <2>1. Folded(d, b) = Folded(d, a)
        BY <1>2 DEF Folded
    <2> QED
        BY <2>1
<1>3. ASSUME Value(d, p).kind = "column"
      PROVE  Totals(d, Put(all, TableOf(d, p), WithRow(Entry(all, TableOf(d, p), NoTable),
                                                       Value(d, p), Weight(d, p))),
                    Folded(d, b))
    <2>1. Folded(d, b) = Folded(d, a) \cup {p}
        BY <1>3 DEF Folded
    <2>2. Good(d, Folded(d, a))
        BY FoldedIs
    <2>3. p \in Measurements(d) /\ p \notin Folded(d, a)
        BY <1>3 DEF Measurements, Folded
    <2> DEFINE own == Folded(d, a)
    <2> HIDE DEF own
    <2>4. Totals(d, Put(all, TableOf(d, p), WithRow(Entry(all, TableOf(d, p), NoTable),
                                                    Value(d, p), Weight(d, p))),
                 own \cup {p})
        BY <1>3, <2>2, <2>3, AllAdd DEF own
    <2> QED
        BY <2>1, <2>4 DEF own
<1> QED
    BY <1>1, <1>2, <1>3

-----------------------------------------------------------------------------
(* Each step keeps it.                                                     *)

LEMMA ReadsOn ==
    ASSUME document \in Documents, UNCHANGED document, status' = "reading",
           Reading(document, at', open', empty', tables')
    PROVE  Inv'
BY DEF Inv, AllOrNothing, RowsAreTheTable, CostsAddUp

LEMMA Stops ==
    ASSUME document \in Documents, UNCHANGED document, status' \notin {"ok", "reading"},
           ~Sound(document)
    PROVE  Inv'
BY DEF Inv, AllOrNothing, RowsAreTheTable, CostsAddUp

LEMMA InitInv == Init => Inv
<1> SUFFICES ASSUME Init PROVE Inv
    OBVIOUS
<1>1. document \in Documents /\ status = "reading" /\ open = FALSE /\ empty = TRUE
      /\ tables = <<>> /\ at = [f \in Feeds |-> <<1, 1>>]
    BY DEF Init
<1>2. AtInv(document, at) /\ Read(document, at) = {}
    BY <1>1, ReadNone
<1>3. Folded(document, at) = {}
    BY <1>2 DEF Folded
<1>4. Totals(document, tables, Folded(document, at))
    <2>1. DOMAIN tables = {}
        BY <1>1
    <2> QED
        BY <1>3, <2>1 DEF Totals, OfTable
<1>5. OpenInv(document, at, open) /\ ReadInv(document, at)
    <2>1. \A f \in Feeds : at[f][1] = 1 /\ at[f][2] = 1
        BY <1>1
    <2>2. \A f \in Feeds : ~Opened(document, f, at[f][1])
        BY <2>1 DEF Opened
    <2> QED
        BY <1>1, <2>1, <2>2 DEF OpenInv, ReadInv
<1>6. Accepted(document, Read(document, at))
    BY <1>2 DEF Accepted
<1>7. Reading(document, at, open, empty, tables)
    BY <1>1, <1>2, <1>4, <1>5, <1>6 DEF Reading
<1> QED
    BY <1>1, <1>7 DEF Inv, AllOrNothing, RowsAreTheTable, CostsAddUp

LEMMA KeepLineStep ==
    ASSUME Inv, status = "reading", NEW f \in Feeds, at[f][1] <= Len(document.lines[f]),
           KeepLine(f), UNCHANGED document
    PROVE  Inv'
<1> DEFINE d == document
           i == at[f][1]
           line == d.lines[f][i]
           b == [at EXCEPT ![f] = PastLine(at, f)]
           o == open \/ line.kind = "open"
<1>1. d \in Documents /\ Reading(d, at, open, empty, tables)
    BY DEF Inv
<1>2. /\ AtInv(d, at) /\ open \in BOOLEAN /\ OpenInv(d, at, open) /\ ReadInv(d, at)
    BY <1>1 DEF Reading
<1>3. /\ line.kind = "blank" \/ (line.kind = "open" /\ ~open)
      /\ at' = b /\ open' = o /\ empty' = empty /\ tables' = tables /\ status' = status
    BY DEF KeepLine, Incomplete, LineAt, NextLine, PastLine
<1>4. Len(ValuesIn(line)) = 0
    BY <1>3 DEF ValuesIn
<1>5. AtInv(d, b) /\ Read(d, b) = Read(d, at)
    BY <1>1, <1>2, <1>4, LineRead
<1>6. i \in Nat \ {0}
    BY <1>1, <1>2, DocumentFacts DEF AtInv
<1>7. open <=> Opened(d, f, i)
    BY <1>1, <1>2, OpenHere
<1>8. Opened(d, f, i + 1) <=> \/ line.kind = "open"
                              \/ Opened(d, f, i) /\ line.kind # "close"
    BY <1>6, OpenedNext
<1>9. OpenInv(d, b, o)
    <2>1. PastLine(at, f)[1] = i + 1
        BY DEF PastLine
    <2>2. o \in BOOLEAN /\ (o <=> Opened(d, f, PastLine(at, f)[1]))
        BY <1>2, <1>3, <1>7, <1>8, <2>1
    <2> HIDE DEF o
    <2> QED
        BY <1>1, <1>2, <2>2, OpenMoves
<1>10. ReadInv(d, b)
    <2>1. Allowed(d, f, i)
        BY <1>3, <1>7 DEF Allowed
    <2> QED
        BY <1>1, <1>2, <2>1, ReadMoves
<1>11. Folded(d, b) = Folded(d, at)
    BY <1>5 DEF Folded
<1> HIDE DEF b, o, d
<1>12. Reading(d, b, o, empty, tables)
    BY <1>1, <1>2, <1>5, <1>9, <1>10, <1>11 DEF Reading, o
<1> QED
    BY <1>1, <1>3, <1>12, ReadsOn DEF d

LEMMA ReadValueStep ==
    ASSUME Inv, status = "reading", NEW f \in Feeds, at[f][1] <= Len(document.lines[f]),
           ReadValue(f), UNCHANGED document
    PROVE  Inv'
<1> DEFINE d == document
           i == at[f][1]
           line == d.lines[f][i]
           p == <<f, i, at[f][2]>>
           v == Value(d, p)
           last == at[f][2] = Len(line.values)
           place == PastValue(d, at, f)
           b == [at EXCEPT ![f] = place]
           o == open /\ ~last
<1>1. d \in Documents /\ Reading(d, at, open, empty, tables)
    BY DEF Inv
<1>2. /\ AtInv(d, at) /\ open \in BOOLEAN /\ OpenInv(d, at, open) /\ ReadInv(d, at)
      /\ Accepted(d, Read(d, at)) /\ Totals(d, tables, Folded(d, at))
    BY <1>1 DEF Reading
<1>3. /\ line.kind = IF open THEN "close" ELSE "whole"
      /\ d.source = "stdin" => Len(line.values) = 1
      /\ at' = b /\ open' = o /\ empty' = FALSE
      /\ \/ FoldError(v) # None /\ Fails(FoldError(v))
         \/ /\ FoldError(v) = None
            /\ tables' = (IF v.kind = "column" THEN AddColumn(v) ELSE tables)
            /\ UNCHANGED <<status, rows>>
    <2>1. LineAt(f) = line /\ Completes(line)
        BY DEF ReadValue, LineAt
    <2>2. line.kind = (IF open THEN "close" ELSE "whole")
          /\ (d.source = "stdin" => Len(line.values) = 1)
        BY <2>1 DEF Completes
    <2>3. v = line.values[at[f][2]]
        BY DEF Value
    <2>4. NextValue(f) = place
        BY DEF NextValue, NextLine, LastOfLine, LineAt, PastLine, PastValue
    <2>5. at' = b /\ open' = o /\ empty' = FALSE
        <3>1. LastOfLine(f) <=> last
            BY <2>1 DEF LastOfLine
        <3> HIDE DEF last, place
        <3>2. at' = b /\ open' = (open /\ ~LastOfLine(f)) /\ empty' = FALSE
            BY <2>4 DEF ReadValue
        <3> QED
            BY <3>1, <3>2
    <2> HIDE DEF v, line, place, b, o
    <2>6. \/ FoldError(v) # None /\ Fails(FoldError(v))
          \/ /\ FoldError(v) = None
             /\ tables' = (IF v.kind = "column" THEN AddColumn(v) ELSE tables)
             /\ UNCHANGED <<status, rows>>
        BY <2>1, <2>3 DEF ReadValue
    <2> QED
        BY <2>2, <2>5, <2>6
<1>4. /\ AtInv(d, b) /\ p \in Present(d) \ Read(d, at) /\ Read(d, b) = Read(d, at) \cup {p}
    <2>1. line.kind \in {"whole", "close"}
        BY <1>3
    <2> QED
        BY <1>1, <1>2, <2>1, ValueRead
<1>5. Folded(d, at) = {q \in Read(d, at) : Value(d, q).kind = "column"}
    BY DEF Folded
<1>6. Read(d, at) \subseteq Present(d)
    BY DEF Read
<1>7. CASE FoldError(v) # None /\ Fails(FoldError(v))
    <2>1. status' = FoldError(v)
        BY <1>7 DEF Fails
    <2> HIDE DEF v, p
    <2>2. ~Sound(d) /\ FoldError(v) \notin {"ok", "reading"}
        BY <1>1, <1>2, <1>4, <1>5, <1>6, <1>7, FoldErrorStops DEF v
    <2> QED
        BY <1>1, <2>1, <2>2, Stops
<1>8. CASE FoldError(v) = None /\ tables' = (IF v.kind = "column" THEN AddColumn(v) ELSE tables)
           /\ UNCHANGED <<status, rows>>
    <2>1. i \in Nat \ {0}
        BY <1>1, <1>2, DocumentFacts DEF AtInv
    <2>2. open <=> Opened(d, f, i)
        BY <1>1, <1>2, OpenHere
    <2>3. Opened(d, f, i + 1) <=> \/ line.kind = "open"
                                  \/ Opened(d, f, i) /\ line.kind # "close"
        BY <2>1, OpenedNext
    <2>4. /\ last => place = PastLine(at, f) /\ place[1] = i + 1
          /\ ~last => place[1] = i
        BY DEF PastValue, PastLine
    <2>5. o \in BOOLEAN /\ (o <=> Opened(d, f, place[1]))
        <3>1. CASE last
            <4>1. line.kind # "open" /\ (Opened(d, f, i) => line.kind = "close")
                BY <1>3, <2>2
            <4>2. ~Opened(d, f, i + 1)
                BY <2>3, <4>1
            <4> QED
                BY <2>4, <3>1, <4>2
        <3>2. CASE ~last
            BY <1>2, <2>2, <2>4, <3>2
        <3> QED
            BY <3>1, <3>2
    <2>6. OpenInv(d, b, o)
        <3> HIDE DEF o, place
        <3> QED
            BY <1>1, <1>2, <2>5, OpenMoves
    <2>7. ReadInv(d, b)
        <3>1. Allowed(d, f, i)
            BY <1>3, <2>2 DEF Allowed
        <3>2. place = PastLine(at, f) \/ place[1] = i
            BY <2>4
        <3> HIDE DEF place
        <3> QED
            BY <1>1, <1>2, <3>1, <3>2, ReadMoves
    <2> HIDE DEF v, p, b, o, place, last
    <2>8. /\ v.kind \in {"column", "blob"}
          /\ v.kind = "column" => Usable(d, p) /\ \A q \in Folded(d, at) : ~SameColumn(d, p, q)
        <3> DEFINE R == Read(d, at)
                   own == Folded(d, at)
        <3> HIDE DEF R, own
        <3>1. /\ R \subseteq Present(d) /\ own = {q \in R : Value(d, q).kind = "column"}
              /\ Totals(d, tables, own) /\ p \in Present(d) \ R /\ FoldError(Value(d, p)) = None
            BY <1>2, <1>4, <1>5, <1>6, <1>8 DEF R, own, v
        <3>2. /\ Value(d, p).kind \in {"column", "blob"}
              /\ Value(d, p).kind = "column" =>
                   Usable(d, p) /\ \A q \in own : ~SameColumn(d, p, q)
            BY <1>1, <3>1, FoldErrorIs
        <3> QED
            BY <3>2 DEF own, v
    <2> DEFINE more == Put(tables, TableOf(d, p),
                           WithRow(Entry(tables, TableOf(d, p), NoTable),
                                   Value(d, p), Weight(d, p)))
    <2>9. /\ Accepted(d, Read(d, b))
          /\ v.kind # "column" => Totals(d, tables, Folded(d, b))
          /\ v.kind = "column" => Totals(d, more, Folded(d, b))
        BY <1>1, <1>2, <1>4, <2>8, OneMore DEF v
    <2>10. v.kind = "column" => tables' = more
        <3>1. v.kind = "column" => p \in Measurements(d) /\ Usable(d, p)
            BY <1>4, <2>8 DEF Measurements, v
        <3>2. v.kind = "column" => SampleWeight(v.rate) = Weight(d, p)
            BY <1>1, <3>1, WeightFacts DEF v
        <3>3. AddColumn(v) = Put(tables, ResolveTable(v),
                                 WithRow(Entry(tables, ResolveTable(v), NoTable), v,
                                         SampleWeight(v.rate)))
            BY AddColumnIs
        <3> QED
            BY <1>8, <3>2, <3>3 DEF TableOf, v
    <2> HIDE DEF more
    <2>11. Totals(d, tables', Folded(d, b))
        BY <1>8, <2>9, <2>10
    <2>12. Read(d, b) # {}
        BY <1>4
    <2> HIDE DEF d
    <2>13. Reading(d, b, o, FALSE, tables')
        BY <1>4, <2>5, <2>6, <2>7, <2>9, <2>11, <2>12 DEF Reading
    <2>14. Reading(document, at', open', empty', tables')
        BY <1>3, <2>13 DEF d
    <2>15. status' = "reading" /\ document \in Documents
        BY <1>1, <1>8 DEF d
    <2> QED
        BY <2>14, <2>15, ReadsOn
<1> HIDE DEF v
<1> QED
    BY <1>3, <1>7, <1>8

LEMMA InvalidJsonStep ==
    ASSUME Inv, status = "reading", NEW f \in Feeds, at[f][1] <= Len(document.lines[f]),
           InvalidJson(f), UNCHANGED document
    PROVE  Inv'
<1> DEFINE i == at[f][1]
           line == document.lines[f][i]
<1>1. /\ document \in Documents /\ AtInv(document, at) /\ open \in BOOLEAN
      /\ OpenInv(document, at, open)
    BY DEF Inv, Reading
<1>2. open <=> Opened(document, f, i)
    BY <1>1, OpenHere
<1>3. ~Allowed(document, f, i)
    BY <1>2 DEF Allowed, InvalidJson, Incomplete, Completes, LineAt
<1>4. i \in 1..Len(document.lines[f])
    BY <1>1, DocumentFacts DEF AtInv
<1>5. ~Sound(document)
    BY <1>3, <1>4 DEF Sound, Readable
<1>6. status' = "invalid_json"
    BY DEF InvalidJson, Fails
<1> QED
    BY <1>1, <1>5, <1>6, Stops

-----------------------------------------------------------------------------
(* The rows that totals give.                                              *)

LEMMA RowIs ==
    ASSUME NEW d \in Documents, NEW own, own = Measurements(d), Good(d, own),
           NEW all, Totals(d, all, own), NEW name \in DOMAIN all,
           NEW path \in DOMAIN all[name].columns, NEW costs
    PROVE  /\ Row(name, path, all[name], costs).table = name
           /\ Row(name, path, all[name], costs).column = path
           /\ \E p \in own : KeyOf(d, p) = <<name, path>>
           /\ RowHolds(d, Row(name, path, all[name], costs))
           /\ Overflows(Row(name, path, all[name], costs)) <=> ~Fits(d, OfKey(d, <<name, path>>))
<1> DEFINE row == Row(name, path, all[name], costs)
           column == all[name].columns[path]
           part == OfKey(d, <<name, path>>)
<1>1. part = OfPath(d, OfTable(d, own, name), path)
    BY DEF OfKey, KeyOf, OfPath, OfTable
<1>2. part # {} /\ ColumnTotals(d, column, part)
    <2>1. TableTotals(d, all[name], OfTable(d, own, name))
        BY DEF Totals
    <2> QED
        BY <1>1, <2>1 DEF TableTotals
<1>3. /\ column.compressed = Weighted(d, "compressed", part)
      /\ column.uncompressed = Weighted(d, "uncompressed", part)
      /\ column.values = Weighted(d, "values", part)
      /\ column.incomplete <=> Unknown(d, part)
      /\ SumFunction(column.blobs) = FilesBehind(d, part)
    BY <1>2 DEF ColumnTotals
<1> HIDE DEF part, column
<1>4. /\ row.table = name /\ row.column = path
      /\ row.compressed = column.compressed /\ row.values = column.values
      /\ row.files = SumFunction(column.blobs)
      /\ row.uncompressed = IF column.incomplete THEN None ELSE column.uncompressed
    BY DEF Row, CountFiles, column
<1> HIDE DEF row
<1>5. RowHolds(d, row)
    BY <1>3, <1>4 DEF RowHolds, part
<1>6. \E p \in own : KeyOf(d, p) = <<name, path>>
    BY <1>2 DEF part, OfKey
<1>7. Overflows(row) <=> ~Fits(d, part)
    <2>1. /\ Weighted(d, "compressed", part) \in Nat /\ Weighted(d, "values", part) \in Nat
          /\ Weighted(d, "uncompressed", part) \in Nat /\ FilesBehind(d, part) \in Nat
        <3>1. Good(d, part)
            <4>1. part \subseteq own
                BY DEF part, OfKey
            <4> QED
                BY <4>1, GoodPart
        <3>2. IsFiniteSet(part) /\ \A p \in part : p \in Measurements(d) /\ Usable(d, p)
            BY <3>1 DEF Good
        <3>3. \A field \in {"compressed", "uncompressed", "values"} :
                 \A p \in part : Scaled(d, field)[p] \in Nat
            BY <3>2, ScaledFacts
        <3>4. \A p \in part : Weights(d)[p] \in Nat
            BY <3>2, WeightFacts
        <3>5. \A field \in {"compressed", "uncompressed", "values"} :
                 Weighted(d, field, part) \in Nat
            BY <3>2, <3>3, SumNat DEF Weighted
        <3>6. FilesBehind(d, part) \in Nat
            BY <3>2, <3>4, SumNat DEF FilesBehind
        <3> QED
            BY <3>5, <3>6
    <2>2. None \notin Nat /\ Limit \in Nat
        BY NoneAssumption, LimitAssumption
    <2>3. row.uncompressed # None <=> ~Unknown(d, part)
        BY <1>3, <1>4, <2>1, <2>2
    <2> QED
        BY <1>3, <1>4, <2>1, <2>2, <2>3 DEF Overflows, Fits
<1> QED
    BY <1>4, <1>5, <1>6, <1>7 DEF row, part

(* One row per key, and the summary overflows when a key's totals do.      *)
LEMMA RowsAre ==
    ASSUME NEW d \in Documents, NEW own, own = Measurements(d), Good(d, own),
           Totals(d, tables, own)
    PROVE  /\ {<<row.table, row.column>> : row \in Rows} = {KeyOf(d, p) : p \in own}
           /\ \A row \in Rows : RowHolds(d, row)
           /\ \A row, other \in Rows :
                 row.table = other.table /\ row.column = other.column => row = other
           /\ (\E row \in Rows : Overflows(row)) <=> \E p \in own : ~Fits(d, OfKey(d, KeyOf(d, p)))
           /\ Rows = {} <=> own = {}
           /\ IsFiniteSet(Rows)
<1> DEFINE Is(name, path) == Row(name, path, tables[name], TableClassCosts(tables[name].blobs))
<1>1. \A row : row \in Rows
                 <=> \E name \in DOMAIN tables : \E path \in DOMAIN tables[name].columns :
                        row = Is(name, path)
    BY DEF Rows
<1>2. ASSUME NEW name \in DOMAIN tables, NEW path \in DOMAIN tables[name].columns
      PROVE  /\ Is(name, path).table = name /\ Is(name, path).column = path
             /\ \E p \in own : KeyOf(d, p) = <<name, path>>
             /\ RowHolds(d, Is(name, path))
             /\ Overflows(Is(name, path)) <=> ~Fits(d, OfKey(d, <<name, path>>))
    BY RowIs
<1>3. ASSUME NEW p \in own
      PROVE  /\ TableOf(d, p) \in DOMAIN tables
             /\ Value(d, p).path \in DOMAIN tables[TableOf(d, p)].columns
    <2> DEFINE name == TableOf(d, p)
    <2>1. p \in OfTable(d, own, name)
        BY DEF OfTable
    <2>2. name \in DOMAIN tables
        BY <2>1 DEF Totals
    <2>3. TableTotals(d, tables[name], OfTable(d, own, name))
        BY <2>2 DEF Totals
    <2>4. p \in OfPath(d, OfTable(d, own, name), Value(d, p).path)
        BY <2>1 DEF OfPath
    <2> QED
        BY <2>2, <2>3, <2>4 DEF TableTotals
<1> HIDE DEF Is
<1>4. ASSUME NEW row \in Rows
      PROVE  \E p \in own : /\ KeyOf(d, p) = <<row.table, row.column>>
                            /\ row = Is(TableOf(d, p), Value(d, p).path)
                            /\ Overflows(row) => ~Fits(d, OfKey(d, KeyOf(d, p)))
    <2>0. PICK name \in DOMAIN tables :
             \E path \in DOMAIN tables[name].columns : row = Is(name, path)
        BY <1>1
    <2>1. PICK path \in DOMAIN tables[name].columns : row = Is(name, path)
        BY <2>0
    <2>2. PICK p \in own : KeyOf(d, p) = <<name, path>>
        BY <1>2
    <2>3. row.table = name /\ row.column = path
        BY <1>2, <2>1
    <2>4. TableOf(d, p) = name /\ Value(d, p).path = path
        BY <2>2 DEF KeyOf
    <2>5. Overflows(row) => ~Fits(d, OfKey(d, <<name, path>>))
        BY <1>2, <2>1
    <2> QED
        BY <2>1, <2>2, <2>3, <2>4, <2>5
<1>5. ASSUME NEW p \in own
      PROVE  /\ Is(TableOf(d, p), Value(d, p).path) \in Rows
             /\ <<Is(TableOf(d, p), Value(d, p).path).table,
                  Is(TableOf(d, p), Value(d, p).path).column>> = KeyOf(d, p)
             /\ ~Fits(d, OfKey(d, KeyOf(d, p))) => Overflows(Is(TableOf(d, p), Value(d, p).path))
    <2> DEFINE name == TableOf(d, p)
               path == Value(d, p).path
    <2>1. name \in DOMAIN tables /\ path \in DOMAIN tables[name].columns /\ KeyOf(d, p) = <<name, path>>
        BY <1>3 DEF KeyOf
    <2> HIDE DEF name, path
    <2>2. /\ Is(name, path) \in Rows
          /\ <<Is(name, path).table, Is(name, path).column>> = KeyOf(d, p)
          /\ ~Fits(d, OfKey(d, KeyOf(d, p))) => Overflows(Is(name, path))
        BY <1>1, <1>2, <2>1
    <2> QED
        BY <2>2 DEF name, path
<1>6. {<<row.table, row.column>> : row \in Rows} = {KeyOf(d, p) : p \in own}
    <2>1. \A row \in Rows : \E p \in own : KeyOf(d, p) = <<row.table, row.column>>
        BY <1>4
    <2>2. \A p \in own : \E row \in Rows : <<row.table, row.column>> = KeyOf(d, p)
        BY <1>5
    <2> QED
        BY <2>1, <2>2
<1>7. ASSUME NEW row \in Rows
      PROVE  RowHolds(d, row)
    <2>1. PICK name \in DOMAIN tables :
             \E path \in DOMAIN tables[name].columns : row = Is(name, path)
        BY <1>1
    <2>2. PICK path \in DOMAIN tables[name].columns : row = Is(name, path)
        BY <2>1
    <2>3. RowHolds(d, Is(name, path))
        BY Zenon, <1>2
    <2> QED
        BY <2>2, <2>3
<1>8. ASSUME NEW row \in Rows, NEW other \in Rows, row.table = other.table,
             row.column = other.column
      PROVE  row = other
    <2>1. PICK p \in own : /\ KeyOf(d, p) = <<row.table, row.column>>
                           /\ row = Is(TableOf(d, p), Value(d, p).path)
        BY <1>4
    <2>2. PICK q \in own : /\ KeyOf(d, q) = <<other.table, other.column>>
                           /\ other = Is(TableOf(d, q), Value(d, q).path)
        BY <1>4
    <2>3. TableOf(d, p) = TableOf(d, q) /\ Value(d, p).path = Value(d, q).path
        BY <1>8, <2>1, <2>2 DEF KeyOf
    <2> QED
        BY <2>1, <2>2, <2>3
<1>9. (\E row \in Rows : Overflows(row)) <=> \E p \in own : ~Fits(d, OfKey(d, KeyOf(d, p)))
    <2>1. (\E row \in Rows : Overflows(row)) => \E p \in own : ~Fits(d, OfKey(d, KeyOf(d, p)))
        BY <1>4
    <2>2. (\E p \in own : ~Fits(d, OfKey(d, KeyOf(d, p)))) => \E row \in Rows : Overflows(row)
        BY <1>5
    <2> QED
        BY <2>1, <2>2
<1>10. Rows = {} <=> own = {}
    BY <1>4, <1>5
<1>11. IsFiniteSet(Rows)
    <2> DEFINE of == [p \in own |-> Is(TableOf(d, p), Value(d, p).path)]
    <2>1. DOMAIN of = own /\ Rows = {of[p] : p \in own}
        BY <1>4, <1>5
    <2>2. IsFiniteSet(own)
        BY DEF Good
    <2> HIDE DEF of
    <2>3. IsFiniteSet({of[p] : p \in own})
        BY Zenon, <2>1, <2>2, ImageFinite
    <2> QED
        BY <2>1, <2>3
<1> QED
    BY <1>6, <1>7, <1>8, <1>9, <1>10, <1>11

-----------------------------------------------------------------------------
(* What the rows cost: the prices of the storage classes, the files kept   *)
(* of a table, and each column's share of them.                            *)

LEMMA PricesAre ==
    ASSUME NEW class \in DOMAIN StoragePrices
    PROVE  /\ 1 \in DOMAIN StoragePrices[class] /\ IsFiniteSet(DOMAIN StoragePrices[class])
           /\ \A tier \in DOMAIN StoragePrices[class] : StoragePrices[class][tier] \in Nat
<1>1. \/ StoragePrices[class] \in {<<2300>>, <<2400>>, <<1250>>, <<1000>>, <<11000>>, <<400>>, <<360>>, <<99>>}
      \/ StoragePrices[class] = <<2300, 1250, 400, 360, 99>>
    BY DEF StoragePrices
<1> DEFINE prices == StoragePrices[class]
<1> HIDE DEF prices
<1>2. DOMAIN prices = 1..1 \/ DOMAIN prices = 1..5
    BY <1>1 DEF prices
<1>3. \A tier \in DOMAIN prices : prices[tier] \in Nat
    BY <1>1 DEF prices
<1>4. IsFiniteSet(1..1) /\ IsFiniteSet(1..5)
    <2>1. 1 \in Int /\ 5 \in Int
        OBVIOUS
    <2> QED
        BY Zenon, <2>1, FS_Interval
<1>5. 1 \in DOMAIN prices /\ IsFiniteSet(DOMAIN prices)
    BY <1>2, <1>4
<1> QED
    BY <1>3, <1>5 DEF prices

LEMMA InClassIs ==
    ASSUME NEW d, NEW table, NEW class
    PROVE  /\ InClass(d, table, class)
                = OfClass(d, OfTable(d, Measurements(d), table), class)
           /\ InClass(d, table, class) \subseteq Measurements(d)
BY DEF InClass, Objects, OfClass, OfTable

LEMMA ClassBytesNat ==
    ASSUME NEW d \in Documents, Good(d, Measurements(d)), NEW part, part \subseteq Measurements(d)
    PROVE  /\ IsFiniteSet(part) /\ \A p \in part : Scaled(d, "compressed")[p] \in Nat
           /\ Weighted(d, "compressed", part) \in Nat
<1>1. Good(d, part)
    BY GoodPart
<1>2. IsFiniteSet(part) /\ \A p \in part : Scaled(d, "compressed")[p] \in Nat
    BY <1>1, ScaledFacts DEF Good
<1> QED
    BY <1>2, SumNat DEF Weighted

(* Where the measurements of a file agree, what is kept of it is theirs.   *)
LEMMA FilesKept ==
    ASSUME NEW d \in Documents, FilesAgree(d), NEW table, NEW blobs,
           FileTotals(d, blobs, OfTable(d, Measurements(d), table))
    PROVE  /\ \A class, b : b \in ClassFiles(blobs, class)
                              <=> \E p \in InClass(d, table, class) : Value(d, p).blob = b
           /\ \A class : \A p \in InClass(d, table, class) :
                 /\ blobs[Value(d, p).blob].size = Value(d, p).size
                 /\ blobs[Value(d, p).blob].weight = Weight(d, p)
<1> DEFINE mine == OfTable(d, Measurements(d), table)
<1>1. ASSUME NEW p \in mine
      PROVE  /\ Value(d, p).blob \in DOMAIN blobs
             /\ blobs[Value(d, p).blob].size = Value(d, p).size
             /\ blobs[Value(d, p).blob].class = Value(d, p).class
             /\ blobs[Value(d, p).blob].weight = Weight(d, p)
    <2> DEFINE b == Value(d, p).blob
    <2>1. b \in DOMAIN blobs
        BY DEF FileTotals
    <2>2. PICK q \in mine : /\ Value(d, q).blob = b
                            /\ blobs[b] = [size |-> Value(d, q).size,
                                           class |-> Value(d, q).class,
                                           weight |-> Weight(d, q)]
        BY <2>1 DEF FileTotals
    <2>3. p \in Measurements(d) /\ q \in Measurements(d) /\ TableOf(d, p) = TableOf(d, q)
        BY DEF OfTable
    <2>4. /\ Value(d, p).size = Value(d, q).size /\ Value(d, p).class = Value(d, q).class
          /\ Value(d, p).rate = Value(d, q).rate
        BY <2>2, <2>3 DEF FilesAgree
    <2>5. Weight(d, p) = Weight(d, q)
        BY <2>4 DEF Weight
    <2> QED
        BY <2>1, <2>2, <2>4, <2>5
<1>2. \A p, class : p \in InClass(d, table, class)
                      <=> p \in mine /\ Value(d, p).blob.object /\ ClassOf(d, p) = class
    BY DEF InClass, Objects, OfTable
<1>3. \A p \in mine : FileClass(blobs[Value(d, p).blob]) = ClassOf(d, p)
    BY <1>1 DEF FileClass, ClassOf
<1> HIDE DEF mine
<1>4. ASSUME NEW class, NEW b \in ClassFiles(blobs, class)
      PROVE  \E p \in InClass(d, table, class) : Value(d, p).blob = b
    <2>1. b \in DOMAIN blobs /\ b.object /\ FileClass(blobs[b]) = class
        BY DEF ClassFiles
    <2>2. PICK p \in mine : Value(d, p).blob = b
        BY <2>1 DEF FileTotals, mine
    <2> QED
        BY <1>2, <1>3, <2>1, <2>2
<1>5. ASSUME NEW class, NEW p \in InClass(d, table, class)
      PROVE  Value(d, p).blob \in ClassFiles(blobs, class)
    BY <1>1, <1>2, <1>3 DEF ClassFiles
<1> QED
    BY <1>1, <1>2, <1>4, <1>5

(* What the classes of a table cost.                                       *)
LEMMA CostsAre ==
    ASSUME NEW d \in Documents, FilesAgree(d), Good(d, Measurements(d)), NEW table, NEW blobs,
           FileTotals(d, blobs, OfTable(d, Measurements(d), table)), NEW class
    PROVE  /\ class \in DOMAIN TableClassCosts(blobs)
                <=> /\ class \in DOMAIN StoragePrices /\ InClass(d, table, class) # {}
                    /\ \A p \in InClass(d, table, class) : Value(d, p).size # None
           /\ class \in DOMAIN TableClassCosts(blobs) =>
                 /\ DOMAIN TableClassCosts(blobs)[class] = DOMAIN StoragePrices[class]
                 /\ \A tier \in DOMAIN StoragePrices[class] :
                       /\ TableClassCosts(blobs)[class][tier] = CostOf(d, table, class, tier)
                       /\ CostOf(d, table, class, tier) \in Nat
<1> DEFINE all == InClass(d, table, class)
           files == ClassFiles(blobs, class)
           F == [b \in files |-> blobs[b].weight * blobs[b].size]
           One(b) == CHOOSE q \in all : Value(d, q).blob = b
           G == [b \in {Value(d, p).blob : p \in all} |->
                   Weight(d, One(b)) * Value(d, One(b)).size]
           costs == TableClassCosts(blobs)
<1>1. /\ \A b : b \in files <=> \E p \in all : Value(d, p).blob = b
      /\ \A p \in all : /\ blobs[Value(d, p).blob].size = Value(d, p).size
                        /\ blobs[Value(d, p).blob].weight = Weight(d, p)
    BY FilesKept
<1> HIDE DEF all, files
<1>2. F = G
    <2>1. files = {Value(d, p).blob : p \in all}
        BY <1>1
    <2>2. ASSUME NEW b \in files
          PROVE  blobs[b].weight * blobs[b].size = Weight(d, One(b)) * Value(d, One(b)).size
        <3>1. One(b) \in all /\ Value(d, One(b)).blob = b
            BY <1>1
        <3> HIDE DEF One
        <3>2. blobs[b].weight = Weight(d, One(b)) /\ blobs[b].size = Value(d, One(b)).size
            BY <1>1, <3>1
        <3> QED
            BY <3>2
    <2> HIDE DEF One
    <2> QED
        BY <2>1, <2>2
<1>3. Stored(d, table, class) = SumFunction(G)
    BY DEF Stored, all
<1>4. class \in DOMAIN costs
        <=> /\ class \in DOMAIN StoragePrices /\ files # {}
            /\ \A b \in files : blobs[b].size # None
    BY DEF TableClassCosts, ClassFiles, files
<1>5. class \in DOMAIN costs
        <=> /\ class \in DOMAIN StoragePrices /\ all # {}
            /\ \A p \in all : Value(d, p).size # None
    BY <1>1, <1>4
<1>6. class \in DOMAIN costs =>
        costs[class] = [tier \in DOMAIN StoragePrices[class] |->
                          SumFunction(F) * StoragePrices[class][tier]]
    BY DEF TableClassCosts, files
<1>7. class \in DOMAIN costs => SumFunction(F) \in Nat
    <2> SUFFICES ASSUME class \in DOMAIN costs PROVE SumFunction(F) \in Nat
        OBVIOUS
    <2>1. Good(d, all)
        BY InClassIs, GoodPart DEF all
    <2>2. IsFiniteSet(all) /\ \A p \in all : p \in Measurements(d) /\ Usable(d, p)
        BY <2>1 DEF Good
    <2>3. IsFiniteSet(files)
        <3> DEFINE h == [p \in all |-> Value(d, p).blob]
        <3>1. DOMAIN h = all /\ files = {h[p] : p \in all}
            BY <1>1
        <3> HIDE DEF h
        <3> QED
            BY <2>2, <3>1, ImageFinite
    <2>4. ASSUME NEW b \in files
          PROVE  blobs[b].weight \in Nat /\ blobs[b].size \in Nat
        <3>1. PICK p \in all : Value(d, p).blob = b
            BY <1>1
        <3>2. Weight(d, p) \in Nat
            BY <2>2, WeightFacts
        <3>3. Value(d, p).size \in Nat \cup {None} /\ Value(d, p).size # None
            BY <1>5, <2>2, ColumnFacts DEF IsColumn
        <3> QED
            BY <1>1, <3>1, <3>2, <3>3
    <2>5. \A b \in files : F[b] \in Nat
        BY <2>4, NatTimes
    <2>6. DOMAIN F = files
        OBVIOUS
    <2> HIDE DEF F
    <2> QED
        BY <2>3, <2>5, <2>6, SumNat DEF SumFunction
<1> HIDE DEF F, G, costs
<1>8. ASSUME class \in DOMAIN costs, NEW tier \in DOMAIN StoragePrices[class]
      PROVE  costs[class][tier] = CostOf(d, table, class, tier) /\ CostOf(d, table, class, tier) \in Nat
    <2>1. StoragePrices[class][tier] \in Nat
        BY <1>5, <1>8, PricesAre
    <2>2. CostOf(d, table, class, tier) = SumFunction(F) * StoragePrices[class][tier]
        BY <1>2, <1>3 DEF CostOf
    <2> QED
        BY <1>6, <1>7, <1>8, <2>1, <2>2, NatTimes
<1>9. class \in DOMAIN costs => DOMAIN costs[class] = DOMAIN StoragePrices[class]
    BY <1>6
<1> QED
    BY <1>5, <1>8, <1>9 DEF costs, all

(* What the costs of a row are of: the column's objects, class by class.   *)
OwnObjects(d, row) == {p \in Objects(d, row.table) : Value(d, p).path = row.column}
OwnInClass(d, row, class) == {p \in OwnObjects(d, row) : ClassOf(d, p) = class}

RowCosts(d, row) ==
    /\ row.classes = {ClassOf(d, p) : p \in OwnObjects(d, row)}
    /\ DOMAIN row.costs = {class \in row.classes : Priced(d, row.table, class)}
    /\ \A class \in DOMAIN row.costs :
         /\ DOMAIN row.costs[class] = DOMAIN StoragePrices[class]
         /\ \A tier \in DOMAIN StoragePrices[class] :
              /\ row.costs[class][tier].cost = CostOf(d, row.table, class, tier)
              /\ CostOf(d, row.table, class, tier) \in Nat
              /\ row.costs[class][tier].bytes
                   = Weighted(d, "compressed", OwnInClass(d, row, class))
              /\ row.costs[class][tier].of = ClassBytes(d, row.table, class)

LEMMA RowCostsAre ==
    ASSUME NEW d \in Documents, FilesAgree(d), NEW own, own = Measurements(d), Good(d, own),
           NEW all, Totals(d, all, own), NEW name \in DOMAIN all,
           NEW path \in DOMAIN all[name].columns
    PROVE  RowCosts(d, Row(name, path, all[name], TableClassCosts(all[name].blobs)))
<1> DEFINE table == all[name]
           costs == TableClassCosts(table.blobs)
           row == Row(name, path, table, costs)
           column == table.columns[path].classBytes
           mine == OfTable(d, own, name)
           part == OfPath(d, mine, path)
<1>1. TableTotals(d, table, mine)
    BY DEF Totals
<1>2. /\ FileTotals(d, table.blobs, mine) /\ ClassTotals(d, table.classBytes, mine)
      /\ ClassTotals(d, column, part)
    BY <1>1 DEF TableTotals, ColumnTotals
<1> HIDE DEF costs, column, table
<1>3. /\ row.table = name /\ row.column = path /\ row.classes = DOMAIN column
      /\ row.costs = ColumnCosts(column, table.classBytes, costs)
    BY DEF Row, column
<1> HIDE DEF row
<1>4. \A class : /\ OfClass(d, mine, class) = InClass(d, name, class)
                 /\ OfClass(d, part, class) = OwnInClass(d, row, class)
    BY <1>3 DEF OfClass, InClass, Objects, OfTable, OfPath, OwnInClass, OwnObjects
<1>5. \A class : class \in row.classes <=> \E p \in OwnObjects(d, row) : ClassOf(d, p) = class
    <2>1. \A p : p \in OwnObjects(d, row) <=> p \in part /\ Value(d, p).blob.object
        BY <1>3 DEF OwnObjects, Objects, OfTable, OfPath
    <2> QED
        BY <1>2, <1>3, <2>1 DEF ClassTotals
<1>6. \A class \in row.classes :
         /\ column[class] = Weighted(d, "compressed", OwnInClass(d, row, class))
         /\ InClass(d, name, class) # {}
         /\ table.classBytes[class] = ClassBytes(d, name, class)
    <2> SUFFICES ASSUME NEW class \in row.classes
                 PROVE  /\ column[class] = Weighted(d, "compressed", OwnInClass(d, row, class))
                        /\ InClass(d, name, class) # {}
                        /\ table.classBytes[class] = ClassBytes(d, name, class)
        OBVIOUS
    <2>1. column[class] = Weighted(d, "compressed", OwnInClass(d, row, class))
        BY <1>2, <1>3, <1>4 DEF ClassTotals
    <2>2. PICK p \in OwnObjects(d, row) : ClassOf(d, p) = class
        BY <1>5
    <2>3. p \in InClass(d, name, class)
        BY <1>3, <2>2 DEF OwnObjects, InClass
    <2>4. class \in DOMAIN table.classBytes
        BY <1>2, <1>4, <2>3 DEF ClassTotals, OfClass
    <2>5. table.classBytes[class] = ClassBytes(d, name, class)
        BY <1>2, <1>4, <2>4 DEF ClassTotals, ClassBytes
    <2> QED
        BY <2>1, <2>3, <2>5
<1>7. \A class : class \in DOMAIN costs
                   <=> /\ class \in DOMAIN StoragePrices /\ InClass(d, name, class) # {}
                       /\ \A p \in InClass(d, name, class) : Value(d, p).size # None
    BY <1>2, CostsAre DEF costs
<1>8. DOMAIN row.costs = {class \in DOMAIN column \cap DOMAIN costs : table.classBytes[class] > 0}
    BY <1>3 DEF ColumnCosts
<1>9. \A class : class \in DOMAIN row.costs
                   <=> class \in row.classes /\ Priced(d, row.table, class)
    BY <1>3, <1>6, <1>7, <1>8 DEF Priced
<1>10. ASSUME NEW class \in DOMAIN row.costs
       PROVE  /\ DOMAIN row.costs[class] = DOMAIN StoragePrices[class]
              /\ \A tier \in DOMAIN StoragePrices[class] :
                    /\ row.costs[class][tier].cost = CostOf(d, row.table, class, tier)
                    /\ CostOf(d, row.table, class, tier) \in Nat
                    /\ row.costs[class][tier].bytes
                         = Weighted(d, "compressed", OwnInClass(d, row, class))
                    /\ row.costs[class][tier].of = ClassBytes(d, row.table, class)
    <2>1. class \in DOMAIN costs /\ class \in row.classes
        BY <1>8, <1>9
    <2>2. /\ DOMAIN costs[class] = DOMAIN StoragePrices[class]
          /\ \A tier \in DOMAIN StoragePrices[class] :
                /\ costs[class][tier] = CostOf(d, name, class, tier)
                /\ CostOf(d, name, class, tier) \in Nat
        BY <1>2, <2>1, CostsAre DEF costs
    <2>3. row.costs[class] = [tier \in DOMAIN costs[class] |->
             [cost |-> costs[class][tier], bytes |-> column[class], of |-> table.classBytes[class]]]
        BY <1>3, <1>8 DEF ColumnCosts
    <2> QED
        BY <1>3, <1>6, <2>1, <2>2, <2>3
<1>11. RowCosts(d, row)
    <2>1. row.classes = {ClassOf(d, p) : p \in OwnObjects(d, row)}
        BY <1>5
    <2>2. DOMAIN row.costs = {class \in row.classes : Priced(d, row.table, class)}
        BY <1>9
    <2> QED
        BY <1>10, <2>1, <2>2 DEF RowCosts
<1> QED
    BY <1>11 DEF row, costs, table

LEMMA RangeIs ==
    ASSUME NEW d \in Documents, NEW row, RowCosts(d, row)
    PROVE  RangeHolds(d, row)
<1> DEFINE own == OwnObjects(d, row)
           unpriced == \E p \in own : ~Priced(d, row.table, ClassOf(d, p))
<1>1. ASSUME own = {} \/ unpriced
      PROVE  CostRange(row) = None
    BY <1>1 DEF CostRange, RowCosts
<1>2. ASSUME own # {}, ~unpriced, NEW p \in own,
             NEW tier \in DOMAIN StoragePrices[ClassOf(d, p)]
      PROVE  /\ CostRange(row)[ClassOf(d, p)].of = ClassBytes(d, row.table, ClassOf(d, p))
             /\ CostRange(row)[ClassOf(d, p)].low <= CostOf(d, row.table, ClassOf(d, p), tier)
             /\ CostOf(d, row.table, ClassOf(d, p), tier) <= CostRange(row)[ClassOf(d, p)].high
    <2> DEFINE class == ClassOf(d, p)
               prices == {row.costs[class][t].cost : t \in DOMAIN row.costs[class]}
    <2>1. \A c \in row.classes : c \in DOMAIN row.costs
        BY <1>2 DEF RowCosts
    <2>2. class \in row.classes /\ class \in DOMAIN row.costs /\ class \in DOMAIN StoragePrices
        BY <1>2, <2>1 DEF RowCosts, Priced
    <2> HIDE DEF class
    <2>3. CostRange(row)[class] = [low |-> Min(prices), high |-> Max(prices),
                                   bytes |-> row.costs[class][1].bytes,
                                   of |-> row.costs[class][1].of]
        BY <2>1, <2>2 DEF CostRange
    <2>4. /\ 1 \in DOMAIN StoragePrices[class] /\ IsFiniteSet(DOMAIN StoragePrices[class])
          /\ DOMAIN row.costs[class] = DOMAIN StoragePrices[class]
        BY <2>2, PricesAre DEF RowCosts
    <2>5. IsFiniteSet(prices)
        <3> DEFINE h == [t \in DOMAIN row.costs[class] |-> row.costs[class][t].cost]
        <3>1. DOMAIN h = DOMAIN row.costs[class] /\ prices = {h[t] : t \in DOMAIN row.costs[class]}
            OBVIOUS
        <3> HIDE DEF h, prices
        <3> QED
            BY <2>4, <3>1, ImageFinite
    <2>6. prices \subseteq Nat
        BY <2>2, <2>4 DEF RowCosts
    <2>7. CostOf(d, row.table, class, tier) \in prices
        BY <2>2, <2>4 DEF RowCosts, class
    <2> HIDE DEF prices
    <2>8. /\ Min(prices) <= CostOf(d, row.table, class, tier)
          /\ CostOf(d, row.table, class, tier) <= Max(prices)
        BY <2>5, <2>6, <2>7, Extremes
    <2>9. row.costs[class][1].of = ClassBytes(d, row.table, class)
        BY <2>2, <2>4 DEF RowCosts
    <2>10. /\ CostRange(row)[class].of = ClassBytes(d, row.table, class)
           /\ CostRange(row)[class].low <= CostOf(d, row.table, class, tier)
           /\ CostOf(d, row.table, class, tier) <= CostRange(row)[class].high
        BY <2>3, <2>8, <2>9
    <2> QED
        BY <2>10 DEF class
<1>3. ASSUME own # {}, ~unpriced, NEW p \in own
      PROVE  CostRange(row)[ClassOf(d, p)].of = ClassBytes(d, row.table, ClassOf(d, p))
    <2>1. 1 \in DOMAIN StoragePrices[ClassOf(d, p)]
        BY <1>3, PricesAre DEF Priced
    <2> QED
        BY <1>2, <1>3, <2>1
<1>4. own = {p \in Objects(d, row.table) : Value(d, p).path = row.column}
    BY DEF OwnObjects
<1> HIDE DEF own
<1>5. CASE own = {} \/ unpriced
    BY <1>1, <1>4, <1>5 DEF RangeHolds
<1>6. CASE own # {} /\ ~unpriced
    BY <1>2, <1>3, <1>4, <1>6 DEF RangeHolds
<1> QED
    BY <1>5, <1>6

(* The shares of the rows that are charged for a class make up its bytes.  *)
LEMMA SharesAre ==
    ASSUME NEW d \in Documents, Good(d, Measurements(d)), NEW all, IsFiniteSet(all),
           \A row \in all : RowCosts(d, row),
           \A row, other \in all :
              row.table = other.table /\ row.column = other.column => row = other,
           \A p \in Measurements(d) : \E row \in all : KeyOf(d, p) = <<row.table, row.column>>,
           NEW table, NEW class
    PROVE  SharesAddUp(d, all, table, class)
<1> DEFINE charged == {row \in all : row.table = table /\ class \in DOMAIN row.costs}
<1>1. ASSUME ~Priced(d, table, class)
      PROVE  charged = {}
    BY <1>1 DEF RowCosts
<1>2. ASSUME Priced(d, table, class), NEW row \in charged, NEW tier \in DOMAIN StoragePrices[class]
      PROVE  /\ row.costs[class][tier].of = ClassBytes(d, table, class)
             /\ row.costs[class][tier].cost = CostOf(d, table, class, tier)
    BY <1>2 DEF RowCosts
<1>3. ASSUME Priced(d, table, class)
      PROVE  SumFunction([row \in charged |-> row.costs[class][1].bytes]) = ClassBytes(d, table, class)
    <2> DEFINE g == [row \in charged |-> row.costs[class][1].bytes]
               f == Scaled(d, "compressed")
               part == [row \in charged |-> OwnInClass(d, row, class)]
    <2>1. 1 \in DOMAIN StoragePrices[class]
        BY <1>3, PricesAre DEF Priced
    <2>2. IsFiniteSet(charged)
        BY FS_Subset
    <2>3. ASSUME NEW row \in charged
          PROVE  /\ part[row] = OwnInClass(d, row, class)
                 /\ part[row] \subseteq Measurements(d)
                 /\ g[row] = SumFunctionOnSet(f, part[row])
        <3>1. OwnInClass(d, row, class) \subseteq Measurements(d)
            BY DEF OwnInClass, OwnObjects, Objects
        <3>2. row.costs[class][1].bytes = Weighted(d, "compressed", OwnInClass(d, row, class))
            BY <2>1 DEF RowCosts
        <3> QED
            BY <3>1, <3>2 DEF Weighted
    <2>4. \A row, other \in charged : row # other => part[row] \cap part[other] = {}
        BY DEF OwnInClass, OwnObjects
    <2>5. UNION {part[row] : row \in charged} = InClass(d, table, class)
        <3>1. \A row \in charged : part[row] \subseteq InClass(d, table, class)
            BY DEF OwnInClass, OwnObjects, InClass
        <3>2. ASSUME NEW p \in InClass(d, table, class)
              PROVE  \E row \in charged : p \in part[row]
            <4>1. p \in Measurements(d) /\ TableOf(d, p) = table
                BY DEF InClass, Objects
            <4>2. PICK row \in all : KeyOf(d, p) = <<row.table, row.column>>
                BY <4>1
            <4>3. row.table = table /\ Value(d, p).path = row.column
                BY <4>1, <4>2 DEF KeyOf
            <4>4. p \in OwnInClass(d, row, class) /\ p \in OwnObjects(d, row)
                  /\ ClassOf(d, p) = class
                BY <4>3 DEF OwnInClass, OwnObjects, InClass
            <4>5. class \in DOMAIN row.costs
                BY <1>3, <4>3, <4>4 DEF RowCosts
            <4> QED
                BY <4>3, <4>4, <4>5
        <3> QED
            BY <3>1, <3>2
    <2>6. DOMAIN g = charged
        OBVIOUS
    <2> HIDE DEF g, f, part, charged
    <2>7. \A row \in charged : /\ IsFiniteSet(part[row]) /\ \A p \in part[row] : f[p] \in Nat
                               /\ g[row] = SumFunctionOnSet(f, part[row])
        BY <2>3, ClassBytesNat DEF f
    <2>8. SumFunctionOnSet(g, charged) = SumFunctionOnSet(f, UNION {part[row] : row \in charged})
        BY <2>2, <2>4, <2>7, SumOfParts
    <2>9. SumFunctionOnSet(g, charged) = ClassBytes(d, table, class)
        BY <2>5, <2>8 DEF ClassBytes, Weighted, f
    <2>10. SumFunction(g) = ClassBytes(d, table, class)
        BY <2>6, <2>9 DEF SumFunction
    <2> QED
        BY <2>10 DEF g
<1> QED
    BY <1>1, <1>2, <1>3 DEF SharesAddUp

(* What the costs of the rows come to, at the end of the document. *)
LEMMA CostsHold ==
    ASSUME NEW d \in Documents, FilesAgree(d), NEW own, own = Measurements(d), Good(d, own),
           Totals(d, tables, own)
    PROVE  /\ \A row \in Rows : \A p \in Objects(d, row.table) :
                 SharesAddUp(d, Rows, row.table, ClassOf(d, p))
           /\ \A row \in Rows : RangeHolds(d, row)
<1>1. /\ {<<row.table, row.column>> : row \in Rows} = {KeyOf(d, p) : p \in own}
      /\ \A row, other \in Rows :
            row.table = other.table /\ row.column = other.column => row = other
      /\ IsFiniteSet(Rows)
    BY RowsAre
<1> DEFINE Is(name, path) == Row(name, path, tables[name], TableClassCosts(tables[name].blobs))
<1>2. ASSUME NEW row \in Rows
      PROVE  RowCosts(d, row)
    <2>1. PICK name \in DOMAIN tables :
             \E path \in DOMAIN tables[name].columns : row = Is(name, path)
        BY DEF Rows
    <2>2. PICK path \in DOMAIN tables[name].columns : row = Is(name, path)
        BY <2>1
    <2>3. RowCosts(d, Is(name, path))
        BY Zenon, RowCostsAre
    <2> QED
        BY <2>2, <2>3
<1> DEFINE all == Rows
<1>3. \A p \in Measurements(d) : \E row \in all : KeyOf(d, p) = <<row.table, row.column>>
    BY <1>1
<1>4. \A row \in all : RowCosts(d, row)
    BY <1>2
<1>5. /\ IsFiniteSet(all)
      /\ \A row, other \in all :
            row.table = other.table /\ row.column = other.column => row = other
    BY <1>1
<1> HIDE DEF all
<1>6. \A table, class : SharesAddUp(d, all, table, class)
    BY <1>3, <1>4, <1>5, SharesAre
<1>7. \A row \in all : RangeHolds(d, row)
    BY <1>4, RangeIs
<1> QED
    BY <1>6, <1>7 DEF all

-----------------------------------------------------------------------------
(* The end of the document, and the theorems.                              *)

LEMMA EndOfDocumentStep ==
    ASSUME Inv, EndOfDocument
    PROVE  Inv'
<1> DEFINE d == document
<1>1. /\ status = "reading" /\ d' = d /\ d \in Documents
      /\ \A f \in Feeds : at[f][1] > Len(d.lines[f])
    BY DEF EndOfDocument, Inv
<1>2. Reading(d, at, open, empty, tables)
    BY <1>1 DEF Inv
<1>3. Read(d, at) = Present(d) /\ (Readable(d) <=> ~open)
    BY <1>1, <1>2, AllRead DEF Reading
<1>4. Folded(d, at) = Measurements(d)
    BY <1>3 DEF Folded, Measurements
<1>5. /\ Accepted(d, Present(d)) /\ Totals(d, tables, Measurements(d))
      /\ open \in BOOLEAN /\ (empty <=> Present(d) = {})
    BY <1>2, <1>3, <1>4 DEF Reading
<1> DEFINE own == Measurements(d)
<1>6. Good(d, own) /\ own \subseteq Present(d)
    BY <1>1, <1>2, <1>4, FoldedIs DEF Reading, Measurements
<1>7. Sound(d) <=> /\ ~open /\ own # {}
                   /\ \A p \in own : Fits(d, OfKey(d, KeyOf(d, p)))
    <2>1. \A p \in Present(d) : Value(d, p).kind \in {"column", "blob"}
        BY <1>5 DEF Accepted
    <2>2. \A p \in own : Usable(d, p)
        BY <1>6 DEF Good
    <2>3. \A p, q \in own : SameColumn(d, p, q) => p = q
        BY <1>5 DEF Accepted, Measurements
    <2> QED
        BY <1>3, <2>1, <2>2, <2>3 DEF Sound
<1>8. CASE CutShort
    <2>1. ~Sound(d) /\ status' \notin {"ok", "reading"}
        BY <1>7, <1>8 DEF CutShort, Fails
    <2> QED
        BY <1>1, <2>1, Stops
<1>9. CASE Empty
    <2>1. own = {}
        BY <1>5, <1>6, <1>9 DEF Empty
    <2>2. ~Sound(d) /\ status' \notin {"ok", "reading"}
        BY <1>7, <1>9, <2>1 DEF Empty, Fails
    <2> QED
        BY <1>1, <2>2, Stops
<1>10. CASE Summarize
    <2> HIDE DEF own, d
    <2>1. /\ {<<row.table, row.column>> : row \in Rows} = {KeyOf(d, p) : p \in own}
          /\ \A row \in Rows : RowHolds(d, row)
          /\ \A row, other \in Rows :
                row.table = other.table /\ row.column = other.column => row = other
          /\ (\E row \in Rows : Overflows(row)) <=> \E p \in own : ~Fits(d, OfKey(d, KeyOf(d, p)))
          /\ Rows = {} <=> own = {}
        BY <1>1, <1>5, <1>6, RowsAre DEF own
    <2>2. CASE (\E row \in Rows : Overflows(row)) /\ Fails("Overflow")
        <3>1. ~Sound(d) /\ status' \notin {"ok", "reading"}
            BY <1>7, <2>1, <2>2 DEF Fails
        <3> QED
            BY <1>1, <3>1, Stops DEF d
    <2>3. CASE Rows = {} /\ Fails("no_columns")
        <3>1. ~Sound(d) /\ status' \notin {"ok", "reading"}
            BY <1>7, <2>1, <2>3 DEF Fails
        <3> QED
            BY <1>1, <3>1, Stops DEF d
    <2>4. CASE /\ Rows # {} /\ \A row \in Rows : ~Overflows(row)
               /\ status' = "ok" /\ rows' = Rows
        <3>1. ~open
            BY <1>10 DEF Summarize
        <3>2. Sound(d)
            BY <1>7, <2>1, <2>4, <3>1
        <3>3. AllOrNothing'
            BY <1>1, <2>4, <3>2 DEF AllOrNothing, d
        <3>4. RowsAreTheTable'
            <4>1. /\ {<<row.table, row.column>> : row \in rows'} = {KeyOf(d, p) : p \in own}
                  /\ \A row \in rows' : RowHolds(d, row)
                  /\ \A row, other \in rows' :
                        row.table = other.table /\ row.column = other.column => row = other
                BY <2>1, <2>4
            <4>2. document' = d /\ own = Measurements(d)
                BY <1>1 DEF d, own
            <4> QED
                BY <4>1, <4>2 DEF RowsAreTheTable
        <3>5. CostsAddUp'
            <4>1. ASSUME FilesAgree(d)
                  PROVE  /\ \A row \in Rows : \A p \in Objects(d, row.table) :
                               SharesAddUp(d, Rows, row.table, ClassOf(d, p))
                         /\ \A row \in Rows : RangeHolds(d, row)
                BY <1>1, <1>5, <1>6, <4>1, CostsHold DEF own
            <4>2. document' = d /\ rows' = Rows
                BY <1>1, <2>4 DEF d
            <4> QED
                BY <4>1, <4>2 DEF CostsAddUp
        <3> QED
            BY <1>1, <2>4, <3>3, <3>4, <3>5 DEF Inv, d
    <2> QED
        BY <1>10, <2>2, <2>3, <2>4 DEF Summarize
<1> QED
    BY <1>8, <1>9, <1>10 DEF EndOfDocument

LEMMA NextInv == Inv /\ [Next]_vars => Inv'
<1> SUFFICES ASSUME Inv, [Next]_vars PROVE Inv'
    OBVIOUS
<1>1. ASSUME NEW f \in Feeds, ReadLine(f)
      PROVE  Inv'
    <2>1. status = "reading" /\ at[f][1] <= Len(document.lines[f]) /\ UNCHANGED document
        BY <1>1 DEF ReadLine
    <2>2. CASE KeepLine(f)
        BY <2>1, <2>2, KeepLineStep
    <2>3. CASE ReadValue(f)
        BY <2>1, <2>3, ReadValueStep
    <2>4. CASE InvalidJson(f)
        BY <2>1, <2>4, InvalidJsonStep
    <2> QED
        BY <1>1, <2>2, <2>3, <2>4 DEF ReadLine
<1>2. CASE EndOfDocument
    BY <1>2, EndOfDocumentStep
<1>3. CASE UNCHANGED vars
    BY <1>3 DEF vars, Inv, AllOrNothing, RowsAreTheTable, CostsAddUp
<1> QED
    BY <1>1, <1>2, <1>3 DEF Next

(* What the invariant says holds of every reading of every document: the   *)
(* positions of the feeds, whether a value is open, and the totals of what *)
(* was folded so far (document::records, ColumnSummary::add_column).       *)
THEOREM Invariant == Spec => []Inv
<1> QED
    BY InitInv, NextInv, PTL DEF Spec

(* For any feeds and documents, and in any order the feeds are read, the   *)
(* command gives a summary exactly when the document is sound              *)
(* (document::records, summarize columns' filter, ColumnSummary).          *)
THEOREM AllOrNothingHolds == Spec => []AllOrNothing
<1>1. Inv => AllOrNothing
    BY DEF Inv
<1> QED
    BY <1>1, Invariant, PTL

(* For any feeds and documents the rows of a summary are the table's: one  *)
(* per measured column, with the totals of its measurements                *)
(* (ColumnSummary::add_column, into_rows).                                 *)
THEOREM RowsAreTheTableHolds == Spec => []RowsAreTheTable
<1>1. Inv => RowsAreTheTable
    BY DEF Inv
<1> QED
    BY <1>1, Invariant, PTL

(* For any feeds and documents in which the measurements of a file agree,  *)
(* the columns' shares of a storage class add up to its bytes, each        *)
(* against the same cost of the whole class, no class without a known size *)
(* and price is charged, and a range covers every class of its column      *)
(* (table_class_costs, column_costs, cost_range).                          *)
THEOREM CostsAddUpHolds == Spec => []CostsAddUp
<1>1. Inv => CostsAddUp
    BY DEF Inv
<1> QED
    BY <1>1, Invariant, PTL

-----------------------------------------------------------------------------
(* The lines of a run-control file, however many.                          *)

(* A non-empty set of natural numbers has a least element. *)
LEMMA LeastNat ==
    ASSUME NEW T, T \subseteq Nat, T # {}
    PROVE  \E n \in T : \A m \in T : n <= m
<1>1. IsWellFoundedOn(OpToRel(<, Nat), Nat)
    BY Zenon, NatLessThanWellFounded
<1>2. PICK n \in T : \A m \in T : ~(<<m, n>> \in OpToRel(<, Nat))
    BY Zenon, <1>1, WFMin
<1>3. \A m, k \in Nat : m < k => <<m, k>> \in OpToRel(<, Nat)
    BY Zenon DEF OpToRel
<1>4. \A m \in T : ~(m < n)
    BY Zenon, <1>2, <1>3
<1>5. n \in Nat
    OBVIOUS
<1> QED
    BY <1>4, <1>5

(* The last place of a set of places that goes up to n. *)
LEMMA LastOf ==
    ASSUME NEW n \in Nat, NEW s \in SUBSET (1..n), n \in s
    PROVE  CL!Max(s) = n
<1>1. \A y \in s : n >= y
    OBVIOUS
<1> DEFINE m == CL!Max(s)
<1>2. m \in s /\ \A y \in s : m >= y
    BY <1>1, Zenon DEF CL!Max
<1> HIDE DEF m
<1>3. m \in 1..n /\ n >= m /\ m >= n
    BY <1>1, <1>2
<1>4. m = n
    BY <1>3
<1> QED
    BY <1>4 DEF m

(* The run-control file as it is folded: what the lines whose places are   *)
(* in s are read as, one after another.                                    *)
NothingParsed == [profiles |-> <<>>, profile |-> None]
LastPlace(s) == CL!Max(s)
ParseStep(lines, g, s) ==
    IF s = {} THEN NothingParsed
    ELSE CL!ParseLine(g[s \ {LastPlace(s)}], lines[LastPlace(s)])
IsParse(lines, n, g) == g = [s \in SUBSET (1..n) |-> ParseStep(lines, g, s)]

(* The fold has a value at every set of the places of n lines. *)
LEMMA ParsesExist ==
    ASSUME NEW lines, NEW n \in Nat
    PROVE  \E g : IsParse(lines, n, g)
<1> DEFINE Bad == {k \in Nat : ~\E g : IsParse(lines, k, g)}
<1>1. ASSUME Bad # {}
      PROVE  FALSE
    <2>1. PICK k \in Bad : \A j \in Bad : k <= j
        BY <1>1, LeastNat
    <2>2. k \in Nat /\ ~\E g : IsParse(lines, k, g)
        OBVIOUS
    <2>3. k # 0
        <3>1. IsParse(lines, 0, [s \in SUBSET (1..0) |-> NothingParsed])
            BY DEF IsParse, ParseStep
        <3> QED
            BY <2>2, <3>1
    <2> DEFINE m == k - 1
    <2>4. m \in Nat /\ k = m + 1 /\ m \notin Bad
        BY <2>1, <2>2, <2>3
    <2>5. PICK g : IsParse(lines, m, g)
        BY <2>4
    <2> HIDE DEF Bad, m
    <2> DEFINE Then(s) == IF k \in s THEN CL!ParseLine(g[s \ {k}], lines[k]) ELSE g[s]
               h == [s \in SUBSET (1..k) |-> Then(s)]
    <2>6. ASSUME NEW s \in SUBSET (1..k)
          PROVE  h[s] = ParseStep(lines, h, s)
        <3>0. s \ {k} \in SUBSET (1..m) /\ (k \notin s => s \in SUBSET (1..m))
            BY <2>4
        <3>1. h[s] = Then(s)
            OBVIOUS
        <3>2. CASE k \in s
            <4>1. LastPlace(s) = k
                BY <3>2, <2>2, LastOf DEF LastPlace
            <4>2. h[s \ {k}] = g[s \ {k}]
                OBVIOUS
            <4>3. s # {}
                BY <3>2
            <4> HIDE DEF h
            <4> QED
                BY <3>1, <3>2, <4>1, <4>2, <4>3 DEF ParseStep
        <3>3. CASE k \notin s
            <4>1. g[s] = ParseStep(lines, g, s)
                BY <3>0, <3>3, <2>5 DEF IsParse
            <4>2. \A t \in SUBSET s : h[t] = g[t]
                BY <3>3
            <4>3. h[s] = g[s] /\ h[s \ {LastPlace(s)}] = g[s \ {LastPlace(s)}]
                BY <4>2
            <4> HIDE DEF h
            <4> QED
                BY <4>1, <4>3 DEF ParseStep
        <3> QED
            BY <3>2, <3>3
    <2>7. IsParse(lines, k, h)
        BY <2>6 DEF IsParse
    <2> QED
        BY <2>2, <2>7
<1> QED
    BY <1>1

(* parse_profiles is that value at all the places of the file. *)
LEMMA ParsedLines ==
    ASSUME NEW lines, NEW n \in Nat, DOMAIN lines = 1..n
    PROVE  \E g : IsParse(lines, n, g) /\ CL!ParseProfiles(lines) = g[1..n]
<1> DEFINE it == CHOOSE g : IsParse(lines, n, g)
<1>1. CL!ParseProfiles(lines) = it[1..n]
    BY DEF CL!ParseProfiles, CL!FoldLeft, CL!MapThenFoldSet, IsParse, ParseStep, NothingParsed, LastPlace
<1>2. IsParse(lines, n, it)
    BY ParsesExist
<1> QED
    BY <1>1, <1>2

(* Every layer has its three settings, and a dialect that is one. *)
IsLayer(layer) ==
    /\ DOMAIN layer = {"endpoint", "token", "dialect"}
    /\ layer.dialect \in {None, "unity", "iceberg"}
IsRead(read) ==
    \/ CL!IsInvalid(read)
    \/ /\ DOMAIN read = {"profiles", "profile"}
       /\ \A name \in DOMAIN read.profiles : IsLayer(read.profiles[name])

(* An entry that was not there before is a layer. *)
LEMMA NoLayerIs == IsLayer(CL!NoLayer)
BY DEF IsLayer, CL!NoLayer

(* A line keeps the profiles layers, or is refused. *)
LEMMA LineKept ==
    ASSUME NEW read, IsRead(read), NEW line
    PROVE  IsRead(CL!ParseLine(read, line))
<1> DEFINE layer == IF read.profile \in DOMAIN read.profiles THEN read.profiles[read.profile]
                    ELSE CL!NoLayer
           Kept(new) == [read EXCEPT !.profiles = CL!Entered(@, read.profile, new)]
           next == CL!ParseLine(read, line)
<1>1. CASE CL!IsInvalid(read)
    BY <1>1 DEF CL!ParseLine
<1>2. CASE ~CL!IsInvalid(read)
    <2>1. /\ DOMAIN read = {"profiles", "profile"}
          /\ \A name \in DOMAIN read.profiles : IsLayer(read.profiles[name])
        BY <1>2 DEF IsRead
    <2>2. IsLayer(layer)
        BY <2>1, NoLayerIs
    <2>3. ASSUME NEW new, IsLayer(new)
          PROVE  IsRead(Kept(new))
        <3>1. /\ DOMAIN Kept(new) = {"profiles", "profile"}
              /\ Kept(new).profiles = CL!Entered(read.profiles, read.profile, new)
            BY <2>1
        <3> HIDE DEF Kept
        <3>2. \A name \in DOMAIN Kept(new).profiles : IsLayer(Kept(new).profiles[name])
            BY <2>1, <2>3, <3>1 DEF CL!Entered
        <3> QED
            BY <3>1, <3>2 DEF IsRead
    <2>4. IsRead([read EXCEPT !.profile = line.name])
        BY <2>1 DEF IsRead
    <2>5. CL!IsInvalid(CL!Invalid("table_format"))
        BY DEF CL!IsInvalid, CL!Invalid
    <2>6. ASSUME line.key \in DOMAIN CL!NoLayer,
                 ~(line.key = "dialect" /\ line.value \notin {"unity", "iceberg"})
          PROVE  IsLayer([layer EXCEPT ![line.key] = line.value])
        <3>1. line.key \in {"endpoint", "token", "dialect"}
            BY <2>6 DEF CL!NoLayer
        <3> HIDE DEF layer
        <3> QED
            BY <2>2, <2>6, <3>1 DEF IsLayer
    <2>7. next = IF CL!IsInvalid(read) \/ line.is = "skip" THEN read
                 ELSE IF line.is = "profile" THEN [read EXCEPT !.profile = line.name]
                 ELSE IF line.value = None \/ read.profile = None THEN read
                 ELSE IF line.key \notin DOMAIN CL!NoLayer THEN Kept(layer)
                 ELSE IF line.key = "dialect" /\ line.value \notin {"unity", "iceberg"}
                 THEN CL!Invalid("table_format")
                 ELSE Kept([layer EXCEPT ![line.key] = line.value])
        BY DEF CL!ParseLine
    <2> HIDE DEF next, Kept, layer
    <2>8. IsRead(next)
        BY <2>2, <2>3, <2>4, <2>5, <2>6, <2>7 DEF IsRead
    <2> QED
        BY <2>8 DEF next
<1> QED
    BY <1>1, <1>2

(* So does a file of any number of lines. *)
LEMMA ProfilesRead ==
    ASSUME NEW lines, NEW n \in Nat, DOMAIN lines = 1..n
    PROVE  IsRead(CL!ParseProfiles(lines))
<1>1. PICK g : IsParse(lines, n, g) /\ CL!ParseProfiles(lines) = g[1..n]
    BY ParsedLines
<1> DEFINE Bad == {k \in 0..n : ~IsRead(g[1..k])}
<1>2. ASSUME Bad # {}
      PROVE  FALSE
    <2>0. Bad \subseteq Nat
        OBVIOUS
    <2>1. PICK k \in Bad : \A j \in Bad : k <= j
        <3> HIDE DEF Bad
        <3> QED
            BY <1>2, <2>0, LeastNat
    <2>2. k \in 0..n /\ ~IsRead(g[1..k])
        OBVIOUS
    <2>3. k # 0
        <3>1. 1..0 = {} /\ {} \in SUBSET (1..n)
            OBVIOUS
        <3>2. g[1..0] = NothingParsed
            BY <1>1, <3>1 DEF IsParse, ParseStep
        <3>3. IsRead(NothingParsed)
            BY DEF IsRead, NothingParsed
        <3> QED
            BY <2>2, <3>2, <3>3
    <2>4. k - 1 \in 0..n /\ k - 1 \notin Bad
        BY <2>1, <2>2, <2>3
    <2>5. IsRead(g[1..(k - 1)])
        BY <2>4
    <2> HIDE DEF Bad
    <2>6. 1..k \in SUBSET (1..n) /\ k \in 1..k /\ (1..k) \ {k} = 1..(k - 1) /\ k \in Nat
        <3>1. k \in Nat /\ k # 0 /\ k <= n
            BY <2>2, <2>3
        <3>2. \A i : i \in (1..k) \ {k} <=> i \in 1..(k - 1)
            BY <3>1
        <3> QED
            BY <3>1, <3>2
    <2>7. LastPlace(1..k) = k
        BY <2>6, LastOf DEF LastPlace
    <2>8. g[1..k] = ParseStep(lines, g, 1..k)
        BY <1>1, <2>6 DEF IsParse
    <2>9. g[1..k] = CL!ParseLine(g[1..(k - 1)], lines[k])
        BY <2>6, <2>7, <2>8 DEF ParseStep
    <2> QED
        BY <2>2, <2>5, <2>9, LineKept
<1>3. n \in 0..n
    OBVIOUS
<1>4. IsRead(g[1..n])
    BY <1>2, <1>3
<1> QED
    BY <1>1, <1>4

(* A file is None, or its lines. *)
IsFile(file) == file = None \/ \E n \in Nat : DOMAIN file = 1..n

(* The profile that is selected is a layer, unless the file is refused. *)
LEMMA ProfileIs ==
    ASSUME NEW file, IsFile(file), NEW selected
    PROVE  \/ CL!IsInvalid(CL!ProfileLayer(file, selected))
           \/ IsLayer(CL!ProfileLayer(file, selected))
<1> DEFINE read == CL!ParseProfiles(file)
           layer == CL!ProfileLayer(file, selected)
<1>1. CASE file = None
    BY <1>1 DEF CL!ProfileLayer, CL!Invalid, CL!IsInvalid
<1>2. CASE file # None
    <2>1. IsRead(read)
        BY <1>2, ProfilesRead DEF IsFile
    <2> DEFINE names == DOMAIN read.profiles
    <2>2. layer = IF CL!IsInvalid(read) THEN read ELSE CL!Selected(read.profiles, selected)
        BY <1>2 DEF CL!ProfileLayer, CL!ProfileOf
    <2>3. ASSUME NEW profiles, \A name \in DOMAIN profiles : IsLayer(profiles[name])
          PROVE  \/ CL!IsInvalid(CL!Selected(profiles, selected))
                 \/ IsLayer(CL!Selected(profiles, selected))
        <3>1. \A why : CL!IsInvalid(CL!Invalid(why))
            BY DEF CL!IsInvalid, CL!Invalid
        <3>2. DOMAIN profiles # {} =>
                 (CHOOSE name \in DOMAIN profiles : TRUE) \in DOMAIN profiles
            OBVIOUS
        <3> QED
            BY <2>3, <3>1, <3>2, NoLayerIs DEF CL!Selected
    <2> HIDE DEF read, layer
    <2>4. CL!IsInvalid(layer) \/ IsLayer(layer)
        BY <2>1, <2>2, <2>3 DEF IsRead
    <2> QED
        BY <2>4 DEF layer
<1> QED
    BY <1>1, <1>2

(* What is assumed of the files and the flags. *)
LEMMA DialectIs == None \notin {"unity", "iceberg"}
BY ConfigurationsAssumption DEF CL!Configurations

LEMMA FilesAreFiles ==
    ASSUME NEW file \in Files \cup RunFiles \cup LaterFiles
    PROVE  IsFile(file)
BY ConfigurationsAssumption DEF CL!Configurations, IsFile

LEMMA FlagsAre ==
    ASSUME NEW flags \in Flags
    PROVE  flags.dialect \in {None, "unity", "iceberg"}
BY ConfigurationsAssumption DEF CL!Configurations

-----------------------------------------------------------------------------
(* The configuration.                                                      *)

Settings == {"endpoint", "token", "dialect"}
Or(first, second) == IF first # None THEN first ELSE second
Setting(key, profile, env, flags) ==
    CASE key = "endpoint" -> Or(CL!NonEmpty(flags.endpoint), Or(CL!NonEmpty(env.host), profile.endpoint))
      [] key = "token" -> Or(CL!NonEmpty(flags.token), Or(CL!NonEmpty(env.token), profile.token))
      [] key = "dialect" -> Or(Or(flags.dialect, profile.dialect), "unity")
Config(profile, env, flags) == [key \in Settings |-> Setting(key, profile, env, flags)]

(* A layer over another has the settings of both. *)
LEMMA CombineIs ==
    ASSUME NEW lower, NEW higher, DOMAIN lower = Settings
    PROVE  CL!Combine(lower, higher) = [key \in Settings |-> Or(higher[key], lower[key])]
BY DEF CL!Combine, Or

(* Config::resolve gives each setting its most specific value, or asks for *)
(* an endpoint.                                                            *)
LEMMA ConfigIs ==
    ASSUME NEW profile, IsLayer(profile), NEW env, NEW flags, NEW required
    PROVE  CL!Config(required, profile, flags, env) =
              IF required /\ Config(profile, env, flags).endpoint = None
              THEN CL!Invalid("needs_an_endpoint") ELSE Config(profile, env, flags)
<1> DEFINE below == CL!Combine(profile, CL!EnvLayer(env))
           both == CL!Combine(below, CL!FlagLayer(flags))
           config == CL!Resolved(both)
<1>1. DOMAIN profile = Settings
    BY DEF IsLayer, Settings
<1>2. below = [key \in Settings |-> Or(CL!EnvLayer(env)[key], profile[key])]
    BY <1>1, CombineIs
<1>3. /\ CL!EnvLayer(env)["endpoint"] = CL!NonEmpty(env.host)
      /\ CL!EnvLayer(env)["token"] = CL!NonEmpty(env.token)
      /\ CL!EnvLayer(env)["dialect"] = None
    BY DEF CL!EnvLayer
<1> HIDE DEF below
<1>4. both = [key \in Settings |-> Or(CL!FlagLayer(flags)[key], below[key])]
    BY <1>2, CombineIs
<1>5. /\ CL!FlagLayer(flags)["endpoint"] = CL!NonEmpty(flags.endpoint)
      /\ CL!FlagLayer(flags)["token"] = CL!NonEmpty(flags.token)
      /\ CL!FlagLayer(flags)["dialect"] = flags.dialect
    BY DEF CL!FlagLayer
<1> HIDE DEF both
<1>6. /\ both["endpoint"] = Or(CL!NonEmpty(flags.endpoint), Or(CL!NonEmpty(env.host), profile.endpoint))
      /\ both["token"] = Or(CL!NonEmpty(flags.token), Or(CL!NonEmpty(env.token), profile.token))
      /\ both["dialect"] = Or(flags.dialect, profile.dialect)
    BY <1>2, <1>3, <1>4, <1>5 DEF Settings, Or
<1>7. config = [key \in Settings |-> IF key = "dialect" THEN Or(both["dialect"], "unity") ELSE both[key]]
    BY <1>4 DEF CL!Resolved, Settings, Or
<1> HIDE DEF config
<1>8. config = Config(profile, env, flags)
    <2>1. \A key \in Settings : config[key] = Config(profile, env, flags)[key]
        BY <1>6, <1>7 DEF Config, Setting, Settings
    <2>2. config = [key \in Settings |-> config[key]]
        BY <1>7
    <2>3. Config(profile, env, flags) = [key \in Settings |-> Config(profile, env, flags)[key]]
        BY DEF Config
    <2> QED
        BY <2>1, <2>2, <2>3
<1>9. ~CL!IsInvalid(profile)
    BY <1>1 DEF CL!IsInvalid, Settings
<1>10. CL!Config(required, profile, flags, env) =
          IF required /\ config.endpoint = None THEN CL!Invalid("needs_an_endpoint") ELSE config
    BY <1>9 DEF CL!Config, config, both, below
<1> QED
    BY <1>8, <1>10

(* What the settings of a configuration are; it is no error. *)
LEMMA SettingsAre ==
    ASSUME NEW profile, NEW env, NEW flags
    PROVE  /\ Config(profile, env, flags).endpoint
                = Or(CL!NonEmpty(flags.endpoint), Or(CL!NonEmpty(env.host), profile.endpoint))
           /\ Config(profile, env, flags).token
                = Or(CL!NonEmpty(flags.token), Or(CL!NonEmpty(env.token), profile.token))
           /\ Config(profile, env, flags).dialect = Or(Or(flags.dialect, profile.dialect), "unity")
           /\ DOMAIN Config(profile, env, flags) = Settings
           /\ ~CL!IsInvalid(Config(profile, env, flags))
           /\ \A why : CL!IsInvalid(CL!Invalid(why))
<1>1. DOMAIN Config(profile, env, flags) = Settings
    BY DEF Config
<1>2. "error" \notin Settings
    BY DEF Settings
<1>3. \A why : CL!IsInvalid(CL!Invalid(why))
    BY DEF CL!IsInvalid, CL!Invalid
<1>4. "endpoint" \in Settings /\ "token" \in Settings /\ "dialect" \in Settings
    BY DEF Settings
<1> QED
    BY <1>1, <1>2, <1>3, <1>4 DEF Config, Setting, CL!IsInvalid

(* The configuration of a command, from a file that is read or refused. *)
LEMMA ConfigOfIs ==
    ASSUME NEW file, IsFile(file), NEW env, NEW flags, NEW required
    PROVE  LET profile == CL!ProfileLayer(file, flags.profile) IN
           /\ CL!IsInvalid(profile) => CL!ConfigOf(required, flags, env, file) = profile
           /\ ~CL!IsInvalid(profile) =>
                /\ IsLayer(profile)
                /\ CL!ConfigOf(required, flags, env, file) =
                      IF required /\ Config(profile, env, flags).endpoint = None
                      THEN CL!Invalid("needs_an_endpoint") ELSE Config(profile, env, flags)
<1> DEFINE profile == CL!ProfileLayer(file, flags.profile)
<1>1. CL!IsInvalid(profile) \/ IsLayer(profile)
    BY ProfileIs
<1>2. CL!ConfigOf(required, flags, env, file) = CL!Config(required, profile, flags, env)
    BY DEF CL!ConfigOf
<1> HIDE DEF profile
<1>3. CL!IsInvalid(profile) => CL!Config(required, profile, flags, env) = profile
    BY DEF CL!Config
<1>4. ~CL!IsInvalid(profile) =>
        /\ IsLayer(profile)
        /\ CL!Config(required, profile, flags, env) =
              IF required /\ Config(profile, env, flags).endpoint = None
              THEN CL!Invalid("needs_an_endpoint") ELSE Config(profile, env, flags)
    BY <1>1, ConfigIs
<1> QED
    BY <1>2, <1>3, <1>4 DEF profile

(* A setting is that of the most specific layer that has it, whatever the  *)
(* run-control file, the environment and the flags hold.                   *)
LEMMA Layered ==
    ASSUME NEW file, IsFile(file), NEW env, NEW flags, flags.dialect \in {None, "unity", "iceberg"}
    PROVE  CL!LayeredOf(file, env, flags)
<1> DEFINE profile == CL!ProfileLayer(file, flags.profile)
           config == CL!ConfigOf(FALSE, flags, env, file)
           required == CL!ConfigOf(TRUE, flags, env, file)
           own == Config(profile, env, flags)
<1>1. CASE CL!IsInvalid(profile)
    <2>1. config = profile /\ required = profile
        BY <1>1, ConfigOfIs
    <2> QED
        BY <1>1, <2>1 DEF CL!LayeredOf, CL!Layers
<1>2. CASE ~CL!IsInvalid(profile)
    <2>1. /\ IsLayer(profile) /\ config = own
          /\ required = IF own.endpoint = None THEN CL!Invalid("needs_an_endpoint") ELSE own
        BY <1>2, ConfigOfIs
    <2>2. /\ own.endpoint = Or(CL!NonEmpty(flags.endpoint), Or(CL!NonEmpty(env.host), profile.endpoint))
          /\ own.token = Or(CL!NonEmpty(flags.token), Or(CL!NonEmpty(env.token), profile.token))
          /\ own.dialect = Or(Or(flags.dialect, profile.dialect), "unity")
          /\ ~CL!IsInvalid(own) /\ CL!IsInvalid(CL!Invalid("needs_an_endpoint"))
        BY SettingsAre
    <2> HIDE DEF profile, config, required, own
    <2>3. \A value : CL!NonEmpty(value) = IF CL!Given(value) THEN value ELSE None
        BY DEF CL!NonEmpty, CL!Given
    <2>4. own.dialect = IF flags.dialect # None THEN flags.dialect
                        ELSE IF profile.dialect # None THEN profile.dialect ELSE "unity"
        BY <2>2, DialectIs DEF Or
    <2>5. /\ own.endpoint = IF CL!Given(flags.endpoint) THEN flags.endpoint
                            ELSE IF CL!Given(env.host) THEN env.host ELSE profile.endpoint
          /\ own.token = IF CL!Given(flags.token) THEN flags.token
                         ELSE IF CL!Given(env.token) THEN env.token ELSE profile.token
        BY <2>2, <2>3 DEF CL!Given, Or
    <2>6. CL!IsInvalid(required) <=> config.endpoint = None
        BY <2>1, <2>2
    <2>7. CL!Layers(config, required, profile, env, flags)
        BY <1>2, <2>1, <2>4, <2>5, <2>6 DEF CL!Layers
    <2> QED
        BY <2>7 DEF CL!LayeredOf, profile, config, required
<1> QED
    BY <1>1, <1>2

(* What setup exports is resolved to config again. *)
PinsLater(config) ==
    \A later : IsFile(later) /\ ~CL!IsInvalid(CL!ProfileLayer(later, None)) =>
      \A env : CL!ConfigOf(TRUE, CL!Exported(CL!Setup(config, None)), env, later) = config
Exports(config) ==
    /\ ~CL!IsInvalid(config) /\ ~CL!IsInvalid(CL!Setup(config, None))
    /\ "blank" \notin {config.endpoint, config.token}

(* The configuration a command that needs the catalog runs in. *)
Loaded(file, env, flags) == CL!ConfigOf(TRUE, flags, env, file)

(* What setup exports pins the settings, for any file, environment and     *)
(* flags, then and later.                                                  *)
LEMMA PinnedLater ==
    ASSUME NEW file, IsFile(file), NEW env, NEW flags, flags.dialect \in {None, "unity", "iceberg"},
           NEW config, config = Loaded(file, env, flags), Exports(config)
    PROVE  PinsLater(config)
<1>a. config = CL!ConfigOf(TRUE, flags, env, file) /\ Exports(config)
    BY DEF Loaded
<1> SUFFICES ASSUME NEW later, IsFile(later), ~CL!IsInvalid(CL!ProfileLayer(later, None)),
                    NEW laterEnv
             PROVE  CL!ConfigOf(TRUE, CL!Exported(CL!Setup(config, None)), laterEnv, later) = config
    BY DEF PinsLater
<1>0. /\ ~CL!IsInvalid(config) /\ ~CL!IsInvalid(CL!Setup(config, None))
      /\ config.endpoint # "blank" /\ config.token # "blank"
    BY <1>a DEF Exports
<1> DEFINE profile == CL!ProfileLayer(file, flags.profile)
           exported == CL!Exported(CL!Setup(config, None))
           other == CL!ProfileLayer(later, None)
           again == CL!ConfigOf(TRUE, exported, laterEnv, later)
<1>1. IsLayer(profile) /\ config = Config(profile, env, flags)
    <2>1. \A why : CL!IsInvalid(CL!Invalid(why))
        BY SettingsAre
    <2> QED
        BY <1>0, <1>a, <2>1, ConfigOfIs
<1>2. /\ config.dialect = Or(Or(flags.dialect, profile.dialect), "unity")
      /\ DOMAIN config = Settings
      /\ config = [key \in Settings |-> config[key]]
    <2> HIDE DEF profile
    <2>1. config = [key \in Settings |-> config[key]]
        BY <1>1 DEF Config
    <2>2. /\ Config(profile, env, flags).dialect = Or(Or(flags.dialect, profile.dialect), "unity")
          /\ DOMAIN Config(profile, env, flags) = Settings
        BY SettingsAre
    <2> QED
        BY <1>1, <2>1, <2>2
<1>3. config.endpoint # None /\ config.token # None
    <2>1. \A why : CL!IsInvalid(CL!Invalid(why))
        BY SettingsAre
    <2> QED
        BY <1>0, <2>1 DEF CL!Setup
<1> HIDE DEF profile
<1>4. config.endpoint # "blank" /\ config.token # "blank"
    BY <1>0
<1>5. /\ exported.profile = None /\ exported.endpoint = config.endpoint
      /\ exported.token = config.token /\ exported.dialect = config.dialect
    <2> QED
        BY <1>3 DEF CL!Exported, CL!Setup
<1>6. config.dialect \in {"unity", "iceberg"}
    BY <1>1, <1>2 DEF IsLayer, Or
<1>7. /\ IsLayer(other)
      /\ again = IF Config(other, laterEnv, exported).endpoint = None
                 THEN CL!Invalid("needs_an_endpoint") ELSE Config(other, laterEnv, exported)
    <2> DEFINE given == exported
    <2>1. given.profile = None
        BY <1>5
    <2> HIDE DEF given
    <2>2. /\ IsLayer(other)
          /\ CL!ConfigOf(TRUE, given, laterEnv, later)
               = IF Config(other, laterEnv, given).endpoint = None
                 THEN CL!Invalid("needs_an_endpoint") ELSE Config(other, laterEnv, given)
        BY <2>1, ConfigOfIs
    <2> QED
        BY <2>2 DEF given
<1> HIDE DEF exported, other, again
<1> DEFINE new == Config(other, laterEnv, exported)
<1>8. /\ new.endpoint = Or(CL!NonEmpty(exported.endpoint), Or(CL!NonEmpty(laterEnv.host), other.endpoint))
      /\ new.token = Or(CL!NonEmpty(exported.token), Or(CL!NonEmpty(laterEnv.token), other.token))
      /\ new.dialect = Or(Or(exported.dialect, other.dialect), "unity")
      /\ DOMAIN new = Settings
      /\ new = [key \in Settings |-> new[key]]
    <2>1. new = [key \in Settings |-> new[key]]
        BY DEF Config
    <2> QED
        BY <2>1, SettingsAre
<1> HIDE DEF new
<1>9. new.endpoint = config.endpoint /\ new.token = config.token
    BY <1>3, <1>4, <1>5, <1>8 DEF Or, CL!NonEmpty
<1>10. new.dialect = config.dialect
    BY <1>5, <1>6, <1>8, DialectIs DEF Or
<1>11. new = config
    BY <1>2, <1>8, <1>9, <1>10 DEF Settings
<1>12. again = config
    BY <1>3, <1>7, <1>9, <1>11 DEF new
<1> QED
    BY <1>12 DEF again, exported

(* A run is green when its command had what it needs and ended well, and   *)
(* says why when it fails, unless the records it lost have said it.        *)
LEMMA Ran ==
    ASSUME NEW command \in CL!Commands, NEW file, IsFile(file), NEW env, NEW flags,
           NEW outcome \in CL!Outcomes
    PROVE  CL!RunOf(command, file, env, flags, outcome)
<1> DEFINE required == CL!RequiresEndpoint(command)
           profile == CL!ProfileLayer(file, flags.profile)
           config == CL!ConfigOf(FALSE, flags, env, file)
           mine == CL!ConfigOf(required, flags, env, file)
           own == Config(profile, env, flags)
           setup == command = <<"setup">>
           refused == CL!IsInvalid(CL!Setup(mine, None))
<1>1. /\ required <=> command \in CL!ReadsCatalog
      /\ setup => ~required
    BY DEF CL!RequiresEndpoint, CL!ReadsCatalog, CL!Commands
<1>2. required \in BOOLEAN /\ setup \in BOOLEAN
    BY DEF CL!RequiresEndpoint
<1>3. refused <=> mine.endpoint = None \/ mine.token = None
    BY DEF CL!Setup, CL!IsInvalid, CL!Invalid
<1> HIDE DEF required, refused
<1>4. \/ CL!IsInvalid(profile) /\ config = profile /\ mine = profile
      \/ /\ config = own /\ ~CL!IsInvalid(own)
         /\ mine = IF required /\ own.endpoint = None THEN CL!Invalid("needs_an_endpoint") ELSE own
    <2>1. CASE CL!IsInvalid(profile)
        <3>1. config = profile
            BY <2>1, ConfigOfIs
        <3>2. mine = profile
            BY <2>1, ConfigOfIs
        <3> QED
            BY <2>1, <3>1, <3>2
    <2>2. CASE ~CL!IsInvalid(profile)
        <3>1. config = IF FALSE /\ own.endpoint = None THEN CL!Invalid("needs_an_endpoint") ELSE own
            BY <2>2, ConfigOfIs
        <3>2. mine = IF required /\ own.endpoint = None THEN CL!Invalid("needs_an_endpoint") ELSE own
            BY <2>2, ConfigOfIs
        <3>3. ~CL!IsInvalid(own)
            BY SettingsAre
        <3> HIDE DEF profile, config, mine, own
        <3> QED
            BY <3>1, <3>2, <3>3
    <2> QED
        BY <2>1, <2>2
<1>5. CL!IsInvalid(CL!Invalid("needs_an_endpoint"))
    BY SettingsAre
<1> DEFINE run == CL!RunCommand(command, mine, outcome)
           runs == /\ ~CL!IsInvalid(config) /\ outcome # "no_client"
                   /\ setup \/ command \in CL!ReadsCatalog => config.endpoint # None
                   /\ setup => config.token # None
<1>6. /\ \A result : CL!ExitOf(result).code = 0 <=> result = "ok"
      /\ \A result : CL!ExitOf(result).message <=> (result # "ok" /\ result # "partial")
    <2>1. \A result : CL!ExitOf(result).code = IF result = "ok" THEN 0 ELSE 1
        BY DEF CL!ExitOf
    <2>2. \A result : CL!ExitOf(result).message = (result \notin {"ok", "partial"})
        BY Zenon DEF CL!ExitOf
    <2>3. \A result : CL!ExitOf(result).message <=> result \notin {"ok", "partial"}
        BY Zenon, <2>2
    <2>4. \A result : result \notin {"ok", "partial"} <=> (result # "ok" /\ result # "partial")
        OBVIOUS
    <2>5. \A result : CL!ExitOf(result).message <=> (result # "ok" /\ result # "partial")
        BY Zenon, <2>3, <2>4
    <2>6. \A result : CL!ExitOf(result).code = 0 <=> result = "ok"
        BY <2>1
    <2> QED
        BY Zenon, <2>5, <2>6
<1>7. run = CL!ExitOf(IF CL!IsInvalid(mine) \/ outcome = "no_client" THEN "error"
                      ELSE IF ~setup THEN outcome
                      ELSE IF refused THEN "error" ELSE "ok")
    BY DEF CL!RunCommand, refused
<1> HIDE DEF setup
<1>8. /\ run.code = 0 <=> /\ ~CL!IsInvalid(mine) /\ outcome # "no_client"
                         /\ IF setup THEN ~refused ELSE outcome = "ok"
      /\ run.message <=> \/ CL!IsInvalid(mine) \/ outcome = "no_client"
                        \/ IF setup THEN refused ELSE outcome # "ok" /\ outcome # "partial"
    BY <1>6, <1>7
<1> HIDE DEF profile, config, mine, own, run
<1>9. runs <=> /\ ~CL!IsInvalid(mine) /\ outcome # "no_client"
               /\ setup => ~refused
    <2>1. CASE CL!IsInvalid(config)
        BY <2>1, <1>4
    <2>2. CASE ~CL!IsInvalid(config)
        <3>1. config = own /\ mine = IF required /\ own.endpoint = None
                                     THEN CL!Invalid("needs_an_endpoint") ELSE own
            BY <2>2, <1>4
        <3> QED
            BY <2>2, <3>1, <1>1, <1>2, <1>3, <1>5
    <2> QED
        BY <2>1, <2>2
<1>10. /\ run.code = 0 <=> runs /\ (setup \/ outcome = "ok")
       /\ run.message <=> run.code # 0 /\ (runs => outcome # "partial")
    <2> HIDE DEF runs
    <2> QED
        BY <1>8, <1>9
<1> QED
    BY <1>10 DEF CL!RunOf, CL!Runs, CL!ConfigFor, runs, run, mine, config, required, setup

-----------------------------------------------------------------------------
(* The configurations among the subjects.                                  *)

(* A subject about the configuration is a file with what goes with it. *)
SubjectInv(s) ==
    /\ s[1] = "layers" =>
         /\ s[2] \in Files /\ s[4] \in Flags
    /\ s[1] = "run" =>
         /\ s[2] \in CL!Commands /\ s[3] \in RunFiles
         /\ s[6] \in CL!Outcomes

(* A subject of another function says nothing of the configuration. *)
LEMMA TakesOther ==
    ASSUME NEW function, function \notin {"layers", "run"}, NEW inputs, Take(function, inputs),
           \A input \in inputs : Len(input) \in Nat
    PROVE  SubjectInv(subject')
<1>1. PICK input \in inputs : subject' = <<function>> \o input
    BY DEF Take
<1>2. subject'[1] = function
    BY <1>1
<1> QED
    BY <1>2 DEF SubjectInv

(* Each action of MCRecords keeps what is known of the subject. *)
LEMMA SubjectStep ==
    ASSUME SubjectInv(subject), [RecordsNext]_<<vars, subject>>
    PROVE  SubjectInv(subject')
<1>1. CASE Document \/ UNCHANGED <<vars, subject>>
    BY <1>1 DEF Document
<1>2. CASE Names
    BY <1>2, TakesOther DEF Names
<1>3. CASE Profiles
    BY <1>3, TakesOther DEF Profiles
<1>4. CASE Sweeps
    BY <1>4, TakesOther DEF Sweeps
<1>5. CASE Diffs
    BY <1>5, TakesOther DEF Diffs
<1>6. CASE Selections
    BY <1>6, TakesOther DEF Selections
<1>7. CASE Formats
    BY <1>7, TakesOther DEF Formats
<1>8. CASE Configurations
    <2>1. CASE Take("layers", Files \X Envs \X Flags)
        <3>1. PICK input \in Files \X Envs \X Flags : subject' = <<"layers">> \o input
            BY <2>1 DEF Take
        <3>2. /\ subject'[1] = "layers" /\ subject'[2] = input[1]
              /\ subject'[4] = input[3]
            BY <3>1
        <3> QED
            BY <3>2 DEF SubjectInv
    <2>2. CASE Take("run", CL!Commands \X RunFiles \X Envs \X Flags \X CL!Outcomes)
        <3>1. PICK input \in CL!Commands \X RunFiles \X Envs \X Flags \X CL!Outcomes :
                 subject' = <<"run">> \o input
            BY Zenon, <2>2 DEF Take
        <3>2. /\ subject'[1] = "run" /\ subject'[2] = input[1] /\ subject'[3] = input[2]
              /\ subject'[6] = input[5]
            BY <3>1
        <3> QED
            BY <3>2 DEF SubjectInv
    <2> QED
        BY <1>8, <2>1, <2>2 DEF Configurations
<1> QED
    BY <1>1, <1>2, <1>3, <1>4, <1>5, <1>6, <1>7, <1>8 DEF RecordsNext

(* So what setup exports pins the settings of every subject. *)
LEMMA Pins ==
    ASSUME NEW file, IsFile(file), NEW env, NEW flags, flags.dialect \in {None, "unity", "iceberg"}
    PROVE  CL!SetupOf(file, env, flags)
<1> SUFFICES ASSUME NEW config, config = Loaded(file, env, flags)
             PROVE  CL!Sets(config)
    BY DEF CL!SetupOf, Loaded
<1>1. ASSUME Exports(config)
      PROVE  PinsLater(config)
    BY <1>1, PinnedLater
<1> QED
    BY <1>1, FilesAreFiles DEF CL!Sets, CL!Pinned, Exports, PinsLater

(* The property follows from what the subject is. *)
LEMMA SettingsHold ==
    ASSUME SubjectInv(subject)
    PROVE  SetupPins
<1>1. ASSUME Of("layers")
      PROVE  /\ CL!LayeredOf(subject[2], subject[3], subject[4])
             /\ CL!SetupOf(subject[2], subject[3], subject[4])
    <2>1. subject[2] \in Files /\ subject[4] \in Flags
        BY <1>1 DEF SubjectInv, Of
    <2>2. IsFile(subject[2]) /\ subject[4].dialect \in {None, "unity", "iceberg"}
        BY <2>1, FilesAreFiles, FlagsAre
    <2> QED
        BY <2>2, Layered, Pins
<1>2. ASSUME Of("run")
      PROVE  CL!RunOf(subject[2], subject[3], subject[4], subject[5], subject[6])
    <2>1. subject[2] \in CL!Commands /\ IsFile(subject[3]) /\ subject[6] \in CL!Outcomes
        BY <1>2, FilesAreFiles DEF SubjectInv, Of
    <2> QED
        BY <2>1, Ran
<1> QED
    BY <1>1, <1>2 DEF SetupPins

(* For all run-control files, environments and flags that the constants    *)
(* hold: a setting is that of the most specific layer that has it; what    *)
(* setup exports gives a later command the same configuration, whatever    *)
(* the environment and the file then are; and a run is green when its      *)
(* command had what it needs and ended well, and says why when it fails,   *)
(* unless the records it lost have (Config::resolve, setup::run, run).     *)
THEOREM SetupPinsHolds == RecordsSpec => []SetupPins
<1>1. RecordsInit => SubjectInv(subject)
    BY DEF RecordsInit, SubjectInv
<1>2. SubjectInv(subject) /\ [RecordsNext]_<<vars, subject>> => SubjectInv(subject)'
    BY SubjectStep
<1>3. SubjectInv(subject) => SetupPins
    BY SettingsHold
<1> QED
    BY <1>1, <1>2, <1>3, PTL DEF RecordsSpec
=============================================================================

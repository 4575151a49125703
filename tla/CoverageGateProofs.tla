------------------------- MODULE CoverageGateProofs -------------------------
(* Proofs about CoverageGate, see README.md. *)
EXTENDS CoverageGate, FiniteSetTheorems, FunctionTheorems, WellFoundedInduction, TLAPS

-----------------------------------------------------------------------------
(* Sums: SumOver counts pairs *)

Pairs(S, f) == UNION {{k} \X (1..f[k]) : k \in S}

LEMMA PairsIn ==
  ASSUME NEW S, NEW f, NEW k, NEW i
  PROVE  <<k, i>> \in Pairs(S, f) <=> k \in S /\ i \in 1..f[k]
BY DEF Pairs

LEMMA PairsShape ==
  ASSUME NEW S, NEW f, NEW p \in Pairs(S, f)
  PROVE  \E k \in S : \E i \in 1..f[k] : p = <<k, i>>
BY DEF Pairs

LEMMA SumIsCard ==
  ASSUME NEW S, NEW f
  PROVE  SumOver(S, f) = Cardinality(Pairs(S, f))
BY DEF SumOver, Pairs

\* Finitely many terms that are integers: finitely many pairs.
LEMMA PairsFinite ==
  ASSUME NEW S, IsFiniteSet(S), NEW f, \A k \in S : f[k] \in Int
  PROVE  IsFiniteSet(Pairs(S, f))
<1> DEFINE column == [k \in S |-> {k} \X (1..f[k])]
           T == {{k} \X (1..f[k]) : k \in S}
<1>1. column \in Surjection(S, T)
  <2>1. column \in [S -> T]
    OBVIOUS
  <2>2. \A t \in T : \E k \in S : column[k] = t
    OBVIOUS
  <2> QED BY <2>1, <2>2 DEF Surjection
<1>2. IsFiniteSet(T)
  BY <1>1, FS_Surjection
<1>3. \A t \in T : IsFiniteSet(t)
  <2> SUFFICES ASSUME NEW k \in S PROVE IsFiniteSet({k} \X (1..f[k]))
    OBVIOUS
  <2>1. IsFiniteSet({k})
    BY FS_Singleton
  <2>2. IsFiniteSet(1..f[k])
    BY FS_Interval
  <2> QED BY <2>1, <2>2, FS_Product
<1>4. IsFiniteSet(UNION T)
  BY <1>2, <1>3, FS_UNION
<1> QED BY <1>4 DEF Pairs

LEMMA SumType ==
  ASSUME NEW S, IsFiniteSet(S), NEW f, \A k \in S : f[k] \in Int
  PROVE  SumOver(S, f) \in Nat
BY PairsFinite, SumIsCard, FS_CardinalityType

LEMMA SumOfNone ==
  ASSUME NEW f
  PROVE  SumOver({}, f) = 0
<1>1. Pairs({}, f) = {}
  BY DEF Pairs
<1> QED BY <1>1, SumIsCard, FS_EmptySet

LEMMA SumOfOne ==
  ASSUME NEW k, NEW f, f[k] \in Nat
  PROVE  SumOver({k}, f) = f[k]
<1>1. Pairs({k}, f) = {k} \X (1..f[k])
  BY DEF Pairs
<1>2. IsFiniteSet({k}) /\ Cardinality({k}) = 1
  BY FS_Singleton
<1>3. IsFiniteSet(1..f[k]) /\ Cardinality(1..f[k]) = f[k]
  BY FS_Interval
<1>4. Cardinality({k} \X (1..f[k])) = 1 * f[k]
  BY <1>2, <1>3, FS_Product
<1> QED BY <1>1, <1>4, SumIsCard

\* One more term adds that term.
LEMMA SumWithOne ==
  ASSUME NEW S, IsFiniteSet(S), NEW k, k \notin S,
         NEW f, \A i \in S : f[i] \in Int, f[k] \in Nat
  PROVE  SumOver(S \cup {k}, f) = SumOver(S, f) + f[k]
<1>1. Pairs(S \cup {k}, f) = Pairs(S, f) \cup Pairs({k}, f)
  BY DEF Pairs
<1>2. Pairs(S, f) \cap Pairs({k}, f) = {}
  BY PairsShape, PairsIn
<1>3. IsFiniteSet({k})
  BY FS_Singleton
<1>4. IsFiniteSet(Pairs(S, f)) /\ IsFiniteSet(Pairs({k}, f))
  BY <1>3, PairsFinite
<1>5. Cardinality(Pairs(S, f) \cup Pairs({k}, f))
        = Cardinality(Pairs(S, f)) + Cardinality(Pairs({k}, f)) - Cardinality({})
  BY <1>2, <1>4, FS_Union
<1>6. Cardinality({}) = 0
  BY FS_EmptySet
<1>7. SumOver({k}, f) = f[k] /\ SumOver(S, f) \in Nat
  BY SumOfOne, SumType
<1>8. /\ SumOver(S \cup {k}, f) = Cardinality(Pairs(S \cup {k}, f))
      /\ SumOver(S, f) = Cardinality(Pairs(S, f))
      /\ SumOver({k}, f) = Cardinality(Pairs({k}, f))
  BY SumIsCard
<1>9. Cardinality(Pairs(S \cup {k}, f)) = SumOver(S, f) + SumOver({k}, f) - 0
  BY <1>1, <1>5, <1>6, <1>8
<1> QED BY <1>7, <1>8, <1>9

\* Fewer terms: no larger a sum.
LEMMA SumMono ==
  ASSUME NEW S, IsFiniteSet(S), NEW T, T \subseteq S, NEW f, \A k \in S : f[k] \in Int
  PROVE  SumOver(T, f) <= SumOver(S, f)
<1>1. Pairs(T, f) \subseteq Pairs(S, f)
  BY DEF Pairs
<1> QED BY <1>1, PairsFinite, FS_Subset, SumIsCard

\* Equal terms: equal sums.
LEMMA SumCong ==
  ASSUME NEW S, NEW f, NEW g, \A k \in S : f[k] = g[k]
  PROVE  SumOver(S, f) = SumOver(S, g)
<1>1. Pairs(S, f) = Pairs(S, g)
  BY DEF Pairs
<1> QED BY <1>1, SumIsCard

-----------------------------------------------------------------------------
(* The entries of a franchise *)

LEMMA EntryType ==
  ASSUME entries \in Franchises, NEW k \in DOMAIN entries
  PROVE  /\ entries[k].kind \in {"season", "movie"} /\ entries[k].season \in Nat
         /\ entries[k].part \in Nat /\ entries[k].aired \in Nat
         /\ entries[k].episodes \in {-1, 0, entries[k].aired}
         /\ entries[k].kind = "season" <=> entries[k].season > 0
<1>1. entries \in Seq(Entry)
  BY CoverageAssumption
<1>2. entries[k] \in Entry
  BY <1>1
<1>3. /\ entries[k].episodes \in {None, 0, entries[k].aired}
      /\ entries[k].kind = "season" <=> entries[k].season > 0
  BY CoverageAssumption
<1> QED BY <1>2, <1>3 DEF Entry, None

LEMMA Positions ==
  ASSUME entries \in Franchises
  PROVE  /\ Len(entries) \in Nat /\ DOMAIN entries = 1..Len(entries)
         /\ IsFiniteSet(DOMAIN entries)
<1>1. entries \in Seq(Entry)
  BY CoverageAssumption
<1>2. Len(entries) \in Nat /\ DOMAIN entries = 1..Len(entries)
  BY <1>1
<1> QED BY <1>2, FS_Interval

\* The values of Count, Aired, Part and Length.
LEMMA ColumnType ==
  ASSUME entries \in Franchises, NEW k \in DOMAIN entries
  PROVE  /\ Count[k] = entries[k].episodes /\ Count[k] \in Int
         /\ Aired[k] = entries[k].aired /\ Aired[k] \in Nat
         /\ Part[k] = entries[k].part /\ Part[k] \in Nat
         /\ Length[k] \in Nat \ {0}
         /\ Known(k) => Length[k] = Count[k] /\ Length[k] = Aired[k] /\ Count[k] = Aired[k]
         /\ ~Known(k) => Length[k] = Cour
<1>1. entries[k].part \in Nat /\ entries[k].aired \in Nat
      /\ entries[k].episodes \in {-1, 0, entries[k].aired}
  BY EntryType
<1>2. Count[k] = entries[k].episodes /\ Aired[k] = entries[k].aired /\ Part[k] = entries[k].part
  BY DEF Count, Aired, Part
<1>3. Length[k] = IF Known(k) THEN Count[k] ELSE Cour
  BY DEF Length
<1>4. Cour \in Nat \ {0}
  BY CoverageAssumption
<1> QED BY <1>1, <1>2, <1>3, <1>4 DEF Known

LEMMA PartsType ==
  ASSUME entries \in Franchises, NEW s
  PROVE  /\ PartsOf(s) \subseteq DOMAIN entries /\ IsFiniteSet(PartsOf(s))
         /\ \A k \in PartsOf(s) : entries[k].season = s /\ entries[k].kind = "season"
<1>1. PartsOf(s) \subseteq DOMAIN entries
  BY DEF PartsOf
<1>2. IsFiniteSet(PartsOf(s))
  BY <1>1, Positions, FS_Subset
<1> QED BY <1>1, <1>2 DEF PartsOf

\* A season's own entry is among its parts.
LEMMA OwnPart ==
  ASSUME entries \in Franchises, NEW k \in DOMAIN entries, entries[k].season > 0
  PROVE  k \in PartsOf(entries[k].season)
BY EntryType DEF PartsOf

\* The parts of a season are listed in order.
LEMMA PartsAscend ==
  ASSUME entries \in Franchises, NEW s, NEW i \in PartsOf(s), NEW j \in PartsOf(s)
  PROVE  /\ i < j => Part[i] < Part[j]
         /\ Part[i] = Part[j] => i = j
         /\ i \in Nat /\ j \in Nat
<1>1. /\ i \in DOMAIN entries /\ j \in DOMAIN entries
      /\ entries[i].season = entries[j].season
      /\ entries[i].season > 0 /\ entries[j].season > 0
  BY PartsType, EntryType
<1>2. i \in Nat /\ j \in Nat
  BY <1>1, Positions
<1>3. i < j => entries[i].part < entries[j].part
  BY <1>1, CoverageAssumption
<1>4. j < i => entries[j].part < entries[i].part
  BY <1>1, CoverageAssumption
<1>5. /\ Part[i] = entries[i].part /\ Part[i] \in Nat
      /\ Part[j] = entries[j].part /\ Part[j] \in Nat
  BY <1>1, ColumnType
<1> QED BY <1>2, <1>3, <1>4, <1>5

\* A season of two entries is split: their parts differ, one is numbered.
LEMMA TwoAreSplit ==
  ASSUME entries \in Franchises, NEW s, NEW i \in PartsOf(s), NEW j \in PartsOf(s), i # j
  PROVE  IsSplit(s)
<1>1. Part[i] # Part[j]
  BY PartsAscend
<1>2. \E k \in PartsOf(s) : Part[k] # NoPart
  BY <1>1
<1>3. IsFiniteSet(PartsOf(s))
  BY PartsType
<1>4. Cardinality(PartsOf(s)) \in Nat
  BY <1>3, FS_CardinalityType
<1>5. Cardinality(PartsOf(s)) # 0
  BY <1>3, FS_EmptySet
<1>6. Cardinality(PartsOf(s)) # 1
  BY <1>3, FS_Singleton
<1> QED BY <1>2, <1>4, <1>5, <1>6 DEF IsSplit

\* A split season has another part beside any.
LEMMA SplitHasAnother ==
  ASSUME entries \in Franchises, NEW s, IsSplit(s), NEW k \in PartsOf(s)
  PROVE  \E l \in PartsOf(s) : l # k
<1>1. Cardinality(PartsOf(s)) > 1
  BY DEF IsSplit
<1>2. Cardinality({k}) = 1
  BY FS_Singleton
<1>3. PartsOf(s) # {k}
  BY <1>1, <1>2
<1> QED BY <1>3

LEMMA BeforeType ==
  ASSUME entries \in Franchises, NEW k \in DOMAIN entries
  PROVE  /\ Before(k) \subseteq PartsOf(entries[k].season) /\ Before(k) \subseteq DOMAIN entries
         /\ IsFiniteSet(Before(k)) /\ k \notin Before(k)
         /\ Prior(k) \in Nat /\ SumOver(Before(k), Aired) \in Nat
         /\ Before(k) = {} => Prior(k) = 0 /\ SumOver(Before(k), Aired) = 0
         /\ \A b \in Before(k) : Part[b] < Part[k]
<1>1. Before(k) \subseteq PartsOf(entries[k].season) /\ \A b \in Before(k) : Part[b] < Part[k]
  BY DEF Before
<1>2. PartsOf(entries[k].season) \subseteq DOMAIN entries /\ IsFiniteSet(PartsOf(entries[k].season))
  BY PartsType
<1>3. IsFiniteSet(Before(k))
  BY <1>1, <1>2, FS_Subset
<1>4. \A b \in Before(k) : Length[b] \in Int /\ Aired[b] \in Int
  BY <1>1, <1>2, ColumnType
<1>5. Prior(k) \in Nat /\ SumOver(Before(k), Aired) \in Nat
  BY <1>3, <1>4, SumType DEF Prior
<1>6. k \notin Before(k)
  BY <1>1, ColumnType
<1>7. Before(k) = {} => Prior(k) = 0 /\ SumOver(Before(k), Aired) = 0
  BY SumOfNone DEF Prior
<1> QED BY <1>1, <1>2, <1>3, <1>5, <1>6, <1>7

\* An earlier part ends before the next begins.
LEMMA PriorGrows ==
  ASSUME entries \in Franchises, NEW k \in DOMAIN entries, NEW b \in Before(k)
  PROVE  Prior(b) + Length[b] <= Prior(k)
<1>1. /\ b \in PartsOf(entries[k].season) /\ b \in DOMAIN entries /\ Part[b] < Part[k]
      /\ IsFiniteSet(Before(k)) /\ Before(k) \subseteq DOMAIN entries
  BY BeforeType
<1>2. entries[b].season = entries[k].season
  BY <1>1, PartsType
<1>3. Before(b) \cup {b} \subseteq Before(k)
  <2> SUFFICES ASSUME NEW i \in Before(b) PROVE i \in Before(k)
    OBVIOUS
  <2>1. i \in PartsOf(entries[k].season) /\ Part[i] < Part[b] /\ i \in DOMAIN entries
    BY <1>1, <1>2, BeforeType
  <2>2. Part[i] \in Nat /\ Part[b] \in Nat /\ Part[k] \in Nat
    BY <1>1, <2>1, ColumnType
  <2>3. Part[i] < Part[k]
    BY <1>1, <2>1, <2>2
  <2> QED BY <2>1, <2>3 DEF Before
<1>4. IsFiniteSet(Before(b)) /\ b \notin Before(b)
  BY <1>1, BeforeType
<1>5. \A i \in Before(k) : Length[i] \in Int
  BY <1>1, ColumnType
<1>6. Length[b] \in Nat
  BY <1>1, ColumnType
<1>7. SumOver(Before(b) \cup {b}, Length) = SumOver(Before(b), Length) + Length[b]
  BY <1>3, <1>4, <1>5, <1>6, SumWithOne
<1>8. SumOver(Before(b) \cup {b}, Length) <= SumOver(Before(k), Length)
  BY <1>1, <1>3, <1>5, SumMono
<1> QED BY <1>7, <1>8 DEF Prior

\* A nonempty set on which a function takes natural values has a least one: the
\* intervals up to a value are ordered by strict inclusion.
LEMMA Least ==
  ASSUME NEW S, S # {}, NEW f, \A k \in S : f[k] \in Nat
  PROVE  \E h \in S : \A i \in S : f[h] <= f[i]
<1> DEFINE T == {1..f[k] : k \in S}
<1>1. IsWellFoundedOn(StrictSubsetOrdering(Nat), FiniteSubsetsOf(Nat))
  BY FS_StrictSubsetOrderingWellFounded
<1>2. T \subseteq FiniteSubsetsOf(Nat) /\ T # {}
  <2>1. \A k \in S : 1..f[k] \subseteq Nat /\ IsFiniteSet(1..f[k])
    BY FS_Interval
  <2> QED BY <2>1 DEF FiniteSubsetsOf
<1>3. PICK x \in T : \A y \in T : ~(<<y, x>> \in StrictSubsetOrdering(Nat))
  BY <1>1, <1>2, WFMin
<1>4. PICK h \in S : x = 1..f[h]
  BY <1>3
<1>5. ASSUME NEW i \in S, f[i] < f[h] PROVE FALSE
  <2>1. 1..f[i] \in T
    OBVIOUS
  <2>2. 1..f[i] \subseteq 1..f[h] /\ 1..f[i] # 1..f[h]
    <3>1. f[h] \in 1..f[h] /\ f[h] \notin 1..f[i]
      BY <1>5
    <3> QED BY <1>5, <3>1
  <2>3. <<1..f[i], 1..f[h]>> \in StrictSubsetOrdering(Nat)
    <3>1. 1..f[i] \in SUBSET Nat /\ 1..f[h] \in SUBSET Nat
      OBVIOUS
    <3> QED BY <2>2, <3>1 DEF StrictSubsetOrdering
  <2> QED BY <1>3, <1>4, <2>1, <2>3
<1>6. \A i \in S : f[i] \in Nat /\ f[h] \in Nat /\ ~(f[i] < f[h])
  BY <1>5
<1>7. \A i \in S : f[h] <= f[i]
  BY <1>6
<1> QED BY <1>7

\* The parts of a season that are looked through have a first, and the season a last.
LEMMA FirstIsIn ==
  ASSUME entries \in Franchises, NEW s, NEW S \in SUBSET PartsOf(s), S # {}
  PROVE  First(S, Part) \in S /\ \A i \in S : Part[First(S, Part)] <= Part[i]
<1>1. \A k \in S : Part[k] \in Nat
  BY PartsType, ColumnType
<1>2. \E h \in S : \A i \in S : Part[h] <= Part[i]
  BY <1>1, Least
<1> QED BY <1>2 DEF First

LEMMA LastListed ==
  ASSUME entries \in Franchises, NEW s, PartsOf(s) # {}
  PROVE  \E h \in PartsOf(s) : \A i \in PartsOf(s) : i <= h
<1> DEFINE g == [k \in PartsOf(s) |-> Len(entries) - k]
<1>1. \A k \in PartsOf(s) : k \in 1..Len(entries) /\ Len(entries) \in Nat
  BY PartsType, Positions
<1>2. \A k \in PartsOf(s) : g[k] \in Nat
  BY <1>1
<1>3. PICK h \in PartsOf(s) : \A i \in PartsOf(s) : g[h] <= g[i]
  <2> HIDE DEF g
  <2> QED BY <1>2, Least
<1>4. \A i \in PartsOf(s) : Len(entries) - h <= Len(entries) - i
  BY <1>3
<1> QED BY <1>1, <1>4

LEMMA LastIsIn ==
  ASSUME entries \in Franchises, NEW s, PartsOf(s) # {}
  PROVE  Last(PartsOf(s), Part) \in PartsOf(s)
<1>1. PICK h \in PartsOf(s) : \A i \in PartsOf(s) : i <= h
  BY LastListed
<1>2. \A i \in PartsOf(s) : Part[i] <= Part[h]
  <2> SUFFICES ASSUME NEW i \in PartsOf(s) PROVE Part[i] <= Part[h]
    OBVIOUS
  <2>1. /\ i < h => Part[i] < Part[h]
        /\ i \in Nat /\ h \in Nat
    BY PartsAscend
  <2>2. Part[i] \in Nat /\ Part[h] \in Nat
    BY PartsType, ColumnType
  <2>3. i <= h
    BY <1>1
  <2>4. i < h \/ i = h
    BY <2>1, <2>3
  <2> QED BY <2>1, <2>2, <2>4
<1> QED BY <1>2 DEF Last

-----------------------------------------------------------------------------
(* Where an episode is filed *)

LEMMA EpisodeShape ==
  ASSUME entries \in Franchises, NEW e \in Episodes
  PROVE  /\ e[1] \in DOMAIN entries /\ e[2] \in Nat \ {0} /\ e[2] <= Aired[e[1]]
         /\ e = <<e[1], e[2]>>
<1>1. PICK k \in DOMAIN entries : e \in {k} \X (1..entries[k].aired)
  BY DEF Episodes
<1>2. entries[k].aired \in Nat /\ Aired[k] = entries[k].aired
  BY EntryType, ColumnType
<1> QED BY <1>1, <1>2

LEMMA EpisodeIn ==
  ASSUME entries \in Franchises, NEW k \in DOMAIN entries, NEW i \in 1..Aired[k]
  PROVE  <<k, i>> \in Episodes
BY ColumnType DEF Episodes

LEMMA TokenType ==
  ASSUME entries \in Franchises, NEW k \in DOMAIN entries, NEW i \in Nat, i # 0, NEW style
  PROVE  Token(k, i, style) \in Nat \ {0}
<1>1. SumOver(Before(k), Aired) \in Nat
  BY BeforeType
<1>2. i + SumOver(Before(k), Aired) \in Nat \ {0}
  BY <1>1
<1> QED BY <1>2 DEF Token

LEMMA InPartType ==
  ASSUME entries \in Franchises, NEW k \in DOMAIN entries, NEW n \in Nat
  PROVE  /\ InPart(k, n).part = Part[k] /\ InPart(k, n).part \in Nat
         /\ InPart(k, n).episode \in Nat \ {0}
         /\ n > Prior(k) => InPart(k, n).episode = n - Prior(k)
BY BeforeType, ColumnType DEF InPart

\* An entry of a season that is not split is alone in it.
LEMMA Alone ==
  ASSUME entries \in Franchises, NEW k \in DOMAIN entries, ~IsSplit(entries[k].season)
  PROVE  /\ Before(k) = {}
         /\ entries[k].season > 0 => PartsOf(entries[k].season) = {k}
<1>1. CASE entries[k].season > 0
  <2>1. k \in PartsOf(entries[k].season)
    BY <1>1, OwnPart
  <2>2. \A l \in PartsOf(entries[k].season) : l = k
    BY <2>1, TwoAreSplit
  <2>3. Before(k) \subseteq {k} /\ k \notin Before(k)
    BY <2>2, BeforeType
  <2> QED BY <2>1, <2>2, <2>3
<1>2. CASE ~(entries[k].season > 0)
  <2>1. PartsOf(entries[k].season) = {}
    BY <1>2, PartsType, EntryType
  <2> QED BY <1>2, <2>1, BeforeType
<1> QED BY <1>1, <1>2

LEMMA WhereType ==
  ASSUME entries \in Franchises, NEW k \in DOMAIN entries, NEW i \in Nat, i # 0, NEW style
  PROVE  Where(k, i, style).part \in Nat /\ Where(k, i, style).episode \in Nat \ {0}
<1> DEFINE s == entries[k].season
           n == Token(k, i, style)
           reach == {l \in PartsOf(s) : n <= Prior(l) + Length[l]}
           h == IF reach = {} THEN Last(PartsOf(s), Part) ELSE First(reach, Part)
<1>1. n \in Nat \ {0} /\ Part[k] \in Nat
  BY TokenType, ColumnType
<1>2. WhereUnnamed(s, n).part \in Nat /\ WhereUnnamed(s, n).episode \in Nat \ {0}
  <2>1. CASE ~IsSplit(s)
    <3>1. WhereUnnamed(s, n) = [part |-> NoPart, episode |-> n]
      BY <2>1 DEF WhereUnnamed
    <3> QED BY <1>1, <3>1 DEF NoPart
  <2>2. CASE IsSplit(s)
    <3>1. PartsOf(s) # {}
      BY <2>2, FS_EmptySet DEF IsSplit
    <3>2. h \in PartsOf(s)
      <4>1. Last(PartsOf(s), Part) \in PartsOf(s)
        BY <3>1, LastIsIn
      <4>2. reach # {} => First(reach, Part) \in PartsOf(s)
        BY FirstIsIn
      <4> QED BY <4>1, <4>2
    <3>3. h \in DOMAIN entries
      BY <3>2, PartsType
    <3>4. WhereUnnamed(s, n) = InPart(h, n)
      BY <2>2 DEF WhereUnnamed
    <3> HIDE DEF h, n
    <3> QED BY <1>1, <3>3, <3>4, InPartType
  <2> QED BY <2>1, <2>2
<1>3. WhereNamed(k, n).part \in Nat /\ WhereNamed(k, n).episode \in Nat \ {0}
  <2> HIDE DEF n
  <2>1. InPart(k, n).part \in Nat /\ InPart(k, n).episode \in Nat \ {0}
    BY <1>1, InPartType
  <2> QED BY <1>1, <2>1 DEF WhereNamed
<1>4. Where(k, i, style) \in {WhereUnnamed(s, n), WhereNamed(k, n)}
  BY DEF Where
<1> HIDE DEF n, s
<1> QED BY <1>2, <1>3, <1>4

\* An entry that is alone in its season: its episodes keep their numbers.
LEMMA WhereAlone ==
  ASSUME entries \in Franchises, NEW k \in DOMAIN entries, NEW i \in Nat, i # 0, NEW style,
         ~IsSplit(entries[k].season)
  PROVE  Where(k, i, style).episode = i
<1>1. Before(k) = {}
  BY Alone
<1>2. Token(k, i, style) = i /\ Prior(k) = 0
  <2>1. SumOver(Before(k), Aired) = 0 /\ Prior(k) = 0
    BY <1>1, BeforeType
  <2>2. i + SumOver(Before(k), Aired) = i
    BY <2>1
  <2> QED BY <2>1, <2>2 DEF Token
<1>3. WhereUnnamed(entries[k].season, i).episode = i
  BY DEF WhereUnnamed
<1>4. WhereNamed(k, i).episode = i
  BY <1>2 DEF WhereNamed
<1> QED BY <1>2, <1>3, <1>4 DEF Where

\* The season's number of an episode of part k is looked up in part k: an earlier
\* part does not reach it.
LEMMA UnnamedHits ==
  ASSUME entries \in Franchises, NEW k \in DOMAIN entries, IsSplit(entries[k].season),
         entries[k].season > 0, NEW i \in Nat, i # 0, i <= Length[k]
  PROVE  WhereUnnamed(entries[k].season, i + Prior(k)) = InPart(k, i + Prior(k))
<1> DEFINE s == entries[k].season
           n == i + Prior(k)
           reach == {l \in PartsOf(s) : n <= Prior(l) + Length[l]}
<1>1. k \in PartsOf(s) /\ Prior(k) \in Nat /\ Length[k] \in Nat
  BY OwnPart, BeforeType, ColumnType
<1>2. k \in reach
  BY <1>1
<1>3. First(reach, Part) \in reach /\ \A l \in reach : Part[First(reach, Part)] <= Part[l]
  BY <1>2, FirstIsIn
<1>4. ASSUME NEW l \in reach, Part[l] <= Part[k] PROVE l = k
  <2>1. l \in PartsOf(s) /\ l \in DOMAIN entries
    BY PartsType
  <2>2. Part[l] \in Nat /\ Part[k] \in Nat /\ Prior(l) \in Nat /\ Length[l] \in Nat
    BY <2>1, ColumnType, BeforeType
  <2>3. CASE Part[l] = Part[k]
    BY <1>1, <2>1, <2>3, PartsAscend
  <2>4. CASE Part[l] < Part[k]
    <3>1. l \in Before(k)
      BY <2>1, <2>4 DEF Before
    <3>2. Prior(l) + Length[l] <= Prior(k)
      BY <3>1, PriorGrows
    <3>3. n <= Prior(l) + Length[l]
      BY <1>4
    <3> QED BY <1>1, <2>2, <3>2, <3>3
  <2>5. Part[l] < Part[k] \/ Part[l] = Part[k]
    <3>1. Part[l] <= Part[k]
      BY <1>4
    <3> QED BY <2>2, <3>1, Z3
  <2> QED BY <2>3, <2>4, <2>5
<1>5. First(reach, Part) = k
  BY <1>2, <1>3, <1>4
<1> HIDE DEF n
<1>6. WhereUnnamed(s, n) = InPart(k, n)
  BY <1>2, <1>5 DEF WhereUnnamed
<1> QED BY <1>6 DEF n

\* Where the earlier parts have aired in full, the two numberings of a release differ
\* by what came before.
LEMMA TokenInFull ==
  ASSUME entries \in Franchises, NEW k \in DOMAIN entries, NEW i, NEW style,
         \A b \in Before(k) : Aired[b] = Length[b]
  PROVE  Token(k, i, style) = IF style \in {"per part", "per part+part"} THEN i ELSE i + Prior(k)
<1>1. SumOver(Before(k), Aired) = SumOver(Before(k), Length)
  BY SumCong
<1> QED BY <1>1 DEF Token, Prior

\* A part without a number is the first of its season.
LEMMA NoPartIsFirst ==
  ASSUME entries \in Franchises, NEW k \in DOMAIN entries, Part[k] = NoPart
  PROVE  Before(k) = {}
<1> SUFFICES ASSUME NEW b \in Before(k) PROVE FALSE
  OBVIOUS
<1>1. Part[b] < Part[k] /\ b \in DOMAIN entries
  BY BeforeType
<1>2. Part[b] \in Nat
  BY <1>1, ColumnType
<1> QED BY <1>1, <1>2 DEF NoPart

\* A part that can be told by its numbers, or that comes before one, has aired in no
\* more episodes than its length.
LEMMA WhereLegible ==
  ASSUME entries \in Franchises, NEW k \in DOMAIN entries, NEW style,
         IsSplit(entries[k].season), entries[k].season > 0,
         NEW i \in Nat, i # 0, i <= Aired[k], ~Blind(k, style),
         \A l \in PartsOf(entries[k].season) : Legible(l)
  PROVE  Where(k, i, style).part = Part[k] /\ Where(k, i, style).episode = i
<1> DEFINE s == entries[k].season
           n == Token(k, i, style)
<1>1. /\ k \in PartsOf(s) /\ Prior(k) \in Nat /\ Length[k] \in Nat \ {0}
      /\ Aired[k] \in Nat /\ Part[k] \in Nat /\ n \in Nat \ {0} /\ i \in Nat \ {0}
  BY OwnPart, BeforeType, ColumnType, TokenType
<1>2. Aired[k] <= Length[k]
  <2>1. CASE Before(k) # {}
    BY <1>1, <2>1 DEF Legible
  <2>2. CASE Before(k) = {}
    <3>1. PICK l \in PartsOf(s) : l # k
      BY <1>1, SplitHasAnother
    <3>2. l \in DOMAIN entries /\ entries[l].season = s
      BY PartsType
    <3>3. Part[l] # Part[k] /\ Part[l] \in Nat
      BY <1>1, <3>1, <3>2, PartsAscend, ColumnType
    <3>4. ~(Part[l] < Part[k])
      BY <2>2 DEF Before
    <3>5. k \in Before(l)
      BY <1>1, <3>2, <3>3, <3>4 DEF Before
    <3>6. Aired[k] = Length[k]
      BY <3>1, <3>2, <3>5 DEF Legible
    <3> QED BY <1>1, <3>6
  <2> QED BY <2>1, <2>2
<1>3. i <= Length[k]
  BY <1>1, <1>2
<1>4. \A b \in Before(k) : Aired[b] = Length[b]
  BY <1>1 DEF Legible
<1>5. n = IF style \in {"per part", "per part+part"} THEN i ELSE i + Prior(k)
  BY <1>4, TokenInFull
<1>6. /\ InPart(k, i + Prior(k)).part = Part[k]
      /\ InPart(k, i + Prior(k)).episode = i
  <2> DEFINE m == i + Prior(k)
  <2>1. m \in Nat /\ m > Prior(k) /\ m - Prior(k) = i
    BY <1>1
  <2> HIDE DEF m
  <2>2. InPart(k, m).part = Part[k] /\ InPart(k, m).episode = m - Prior(k)
    BY <2>1, InPartType
  <2> QED BY <2>1, <2>2 DEF m
<1>9. Before(k) # {} => Length[k] <= Prior(k)
  BY <1>1 DEF Legible
<1>7. CASE style \in {"continuous", "per part"} \/ Part[k] = NoPart
  <2>1. n = i + Prior(k)
    <3>1. CASE Part[k] = NoPart
      <4>1. Prior(k) = 0
        BY <3>1, NoPartIsFirst, BeforeType
      <4>2. i + Prior(k) = i
        BY ONLY <1>1, <4>1
      <4> QED BY ONLY <1>5, <4>2
    <3>2. CASE style = "continuous"
      BY <1>5, <3>2
    <3>3. CASE style = "per part"
      <4>1. Before(k) = {} BY <3>3 DEF Blind
      <4>2. Prior(k) = 0 BY <4>1, BeforeType
      <4>3. i + Prior(k) = i BY ONLY <1>1, <4>2
      <4> QED BY ONLY <1>5, <4>3
    <3> QED BY <1>7, <3>1, <3>2, <3>3
  <2>2. Where(k, i, style) = WhereUnnamed(s, n)
    BY <1>7 DEF Where
  <2>3. WhereUnnamed(s, i + Prior(k)) = InPart(k, i + Prior(k))
    BY <1>3, UnnamedHits
  <2> HIDE DEF n, s
  <2> QED BY <1>6, <2>1, <2>2, <2>3
<1>8. CASE ~(style \in {"continuous", "per part"} \/ Part[k] = NoPart)
  <2>1. Where(k, i, style) = WhereNamed(k, n)
    BY <1>8 DEF Where
  <2> HIDE DEF n, s
  <2>2. CASE n > Length[k] /\ Prior(k) > 0
    <3>1. n = i + Prior(k)
      <4>1. n # i
        BY ONLY <1>3, <1>1, <2>2
      <4> QED BY <1>5, <4>1
    <3>2. WhereNamed(k, n) = InPart(k, n)
      BY <2>2 DEF WhereNamed
    <3> QED BY <1>6, <2>1, <3>1, <3>2
  <2>3. CASE ~(n > Length[k] /\ Prior(k) > 0)
    <3>1. WhereNamed(k, n) = [part |-> Part[k], episode |-> n]
      BY <2>3 DEF WhereNamed
    <3>2. CASE Prior(k) = 0
      <4>1. n = i
        <5>1. i + Prior(k) = i
          BY ONLY <1>1, <3>2
        <5> QED BY ONLY <1>5, <5>1
      <4> QED BY <2>1, <3>1, <4>1
    <3>3. CASE Prior(k) # 0
      <4>1. n <= Length[k]
        BY <1>1, <2>3, <3>3
      <4>2. Before(k) # {}
        BY <3>3, BeforeType
      <4>3. Length[k] <= Prior(k)
        BY <4>2, <1>9
      <4>4. n = i
        <5>1. n # i + Prior(k)
          BY ONLY <1>1, <4>1, <4>3
        <5> QED BY <1>5, <5>1
      <4> QED BY <2>1, <3>1, <4>4
    <3> QED BY <3>2, <3>3
  <2> QED BY <2>2, <2>3
<1> QED BY <1>7, <1>8

\* In a season of parts with known counts no row is numbered past every part's length.
LEMMA WhereKnown ==
  ASSUME entries \in Franchises, NEW k \in DOMAIN entries, NEW style,
         IsSplit(entries[k].season), entries[k].season > 0,
         NEW i \in Nat, i # 0, i <= Aired[k], \A l \in PartsOf(entries[k].season) : Known(l)
  PROVE  \E l \in PartsOf(entries[k].season) : Where(k, i, style).episode <= Length[l]
<1> DEFINE s == entries[k].season
           n == Token(k, i, style)
<1>1. /\ k \in PartsOf(s) /\ Prior(k) \in Nat /\ Length[k] \in Nat \ {0}
      /\ Aired[k] \in Nat /\ Part[k] \in Nat /\ n \in Nat \ {0} /\ i \in Nat \ {0}
  BY OwnPart, BeforeType, ColumnType, TokenType
<1>2. \A l \in PartsOf(s) : Aired[l] = Length[l]
  BY PartsType, ColumnType
<1>3. i <= Length[k]
  BY <1>1, <1>2
<1>4. \A b \in Before(k) : Aired[b] = Length[b]
  BY <1>2, BeforeType
<1>5. n = IF style \in {"per part", "per part+part"} THEN i ELSE i + Prior(k)
  BY <1>4, TokenInFull
<1>6. InPart(k, i + Prior(k)).episode = i
  <2> DEFINE m == i + Prior(k)
  <2>1. m \in Nat /\ m > Prior(k) /\ m - Prior(k) = i
    BY <1>1
  <2> HIDE DEF m
  <2>2. InPart(k, m).part = Part[k] /\ InPart(k, m).episode = m - Prior(k)
    BY <2>1, InPartType
  <2> QED BY <2>1, <2>2 DEF m
<1>10. SUFFICES \E l \in PartsOf(s) : Where(k, i, style).episode <= Length[l]
  OBVIOUS
<1> HIDE DEF s, n
<1>7. CASE style = "continuous" \/ Part[k] = NoPart
  <2>1. n = i + Prior(k)
    <3>1. CASE Part[k] = NoPart
      <4>1. Prior(k) = 0
        BY <3>1, NoPartIsFirst, BeforeType
      <4>2. i + Prior(k) = i
        BY ONLY <1>1, <4>1
      <4> QED BY ONLY <1>5, <4>2
    <3>2. CASE style = "continuous"
      BY <1>5, <3>2
    <3> QED BY <1>7, <3>1, <3>2
  <2>2. Where(k, i, style) = WhereUnnamed(s, n)
    BY <1>7 DEF Where, s, n
  <2>3. WhereUnnamed(s, i + Prior(k)) = InPart(k, i + Prior(k))
    BY <1>3, UnnamedHits DEF s
  <2> HIDE DEF n, s
  <2>4. Where(k, i, style).episode = i
    BY <1>6, <2>1, <2>2, <2>3
  <2> QED BY <1>1, <1>3, <2>4
<1>9. CASE style = "per part"
  <2> DEFINE reach == {l \in PartsOf(s) : i <= Prior(l) + Length[l]}
             h == First(reach, Part)
  <2>2. Where(k, i, style) = WhereUnnamed(s, i)
    BY <1>5, <1>9 DEF Where, s, n
  <2>3. k \in reach
    BY <1>1, <1>3
  <2>4. h \in reach
    BY <2>3, FirstIsIn
  <2>5. WhereUnnamed(s, i) = InPart(h, i)
    BY <2>3 DEF WhereUnnamed, s
  <2>6. h \in PartsOf(s) /\ h \in DOMAIN entries /\ i <= Prior(h) + Length[h]
    BY <2>4, PartsType
  <2> HIDE DEF h, s, n
  <2>7. Prior(h) \in Nat /\ Length[h] \in Nat \ {0}
    BY <2>6, BeforeType, ColumnType
  <2>8. InPart(h, i).episode <= Length[h]
    BY <1>1, <2>6, <2>7 DEF InPart
  <2>9. Where(k, i, style).episode <= Length[h]
    BY <2>2, <2>5, <2>8
  <2> QED BY <2>6, <2>9 DEF s
<1>8. CASE ~(style \in {"continuous", "per part"} \/ Part[k] = NoPart)
  <2>1. Where(k, i, style) = WhereNamed(k, n)
    BY <1>8 DEF Where, s, n
  <2> HIDE DEF n, s
  <2>2. CASE n > Length[k] /\ Prior(k) > 0
    <3>1. n = i + Prior(k)
      <4>1. n # i
        BY ONLY <1>3, <1>1, <2>2
      <4> QED BY <1>5, <4>1
    <3>2. WhereNamed(k, n) = InPart(k, n)
      BY <2>2 DEF WhereNamed
    <3>3. Where(k, i, style).episode = i
      BY <1>6, <2>1, <3>1, <3>2
    <3> QED BY <1>1, <1>3, <3>3
  <2>3. CASE ~(n > Length[k] /\ Prior(k) > 0)
    <3>1. WhereNamed(k, n) = [part |-> Part[k], episode |-> n]
      BY <2>3 DEF WhereNamed
    <3>2. Where(k, i, style).episode = n
      BY <2>1, <3>1
    <3>3. n <= Length[k]
      <4>1. CASE n = i
        BY <1>3, <4>1
      <4>2. CASE n # i
        <5>1. n = i + Prior(k)
          BY <1>5, <4>2
        <5>2. Prior(k) > 0
          BY ONLY <1>1, <4>2, <5>1
        <5> QED BY ONLY <1>1, <2>3, <5>2
      <4> QED BY <4>1, <4>2
    <3> QED BY <1>1, <3>2, <3>3
  <2> QED BY <2>2, <2>3
<1> QED BY <1>7, <1>8, <1>9

-----------------------------------------------------------------------------
(* The invariant *)

\* What a row says of the episode it holds.
Placed(r) ==
  /\ ~IsSplit(r.season) => r.episode = r.of[2]
  /\ IsSplit(r.season) /\ (\A k \in PartsOf(r.season) : Legible(k)) /\ ~r.blind
       => r.part = Part[r.of[1]] /\ r.episode = r.of[2]
  /\ IsSplit(r.season) /\ (\A k \in PartsOf(r.season) : Known(k))
       => \E k \in PartsOf(r.season) : r.episode <= Length[k]

\* The rows that downloads under way are to write.
LeftPlaced ==
  \A j \in Slots : \A r \in jobs[j].left : r.season = entries[r.of[1]].season /\ Placed(r)

IInv == TypeOK /\ LeftPlaced /\ \A r \in rows : Placed(r)

\* A new row is of the type of rows, and placed.
LEMMA RowPlaced ==
  ASSUME entries \in Franchises, NEW e \in Episodes, NEW style
  PROVE  /\ Row(e, style) \in File
         /\ Row(e, style).season = entries[e[1]].season
         /\ Row(e, style).of = e
         /\ Placed(Row(e, style))
<1> DEFINE k == e[1]
           i == e[2]
           r == Row(e, style)
           w == Where(k, i, style)
<1>1. k \in DOMAIN entries /\ i \in Nat /\ i # 0 /\ i <= Aired[k]
  BY EpisodeShape
<1>2. w.part \in Nat /\ w.episode \in Nat \ {0}
  <2> HIDE DEF k, i
  <2> QED BY <1>1, WhereType
<1>3. r = [of |-> e, season |-> entries[k].season, part |-> w.part, episode |-> w.episode,
           blind |-> Blind(k, style)]
  BY DEF Row
<1>4. entries[k].season \in Seasons /\ entries[k].season \in Nat
  BY <1>1, EntryType DEF Seasons
<1>5. IsSplit(entries[k].season) => entries[k].season > 0
  <2> SUFFICES ASSUME IsSplit(entries[k].season) PROVE entries[k].season > 0
    OBVIOUS
  <2>1. PICK l \in PartsOf(entries[k].season) : TRUE
    BY FS_EmptySet DEF IsSplit
  <2> QED BY <2>1, PartsType, EntryType
<1>6. ~IsSplit(entries[k].season) => w.episode = i
  <2> HIDE DEF k, i
  <2> QED BY <1>1, WhereAlone
<1>7. IsSplit(entries[k].season) /\ (\A l \in PartsOf(entries[k].season) : Legible(l))
      /\ ~Blind(k, style)
        => w.part = Part[k] /\ w.episode = i
  <2> HIDE DEF k, i
  <2> QED BY <1>1, <1>5, WhereLegible
<1>8. IsSplit(entries[k].season) /\ (\A l \in PartsOf(entries[k].season) : Known(l))
        => \E l \in PartsOf(entries[k].season) : w.episode <= Length[l]
  <2> HIDE DEF k, i
  <2> QED BY <1>1, <1>5, WhereKnown
<1>9. r \in File
  <2>1. Blind(k, style) \in BOOLEAN
    BY DEF Blind
  <2> HIDE DEF w, k
  <2> QED BY <1>2, <1>3, <1>4, <2>1 DEF File
<1>10. /\ r.season = entries[k].season /\ r.of = e /\ r.blind = Blind(k, style)
       /\ r.part = w.part /\ r.episode = w.episode
  BY <1>3
<1>11. Placed(r)
  <2> HIDE DEF w, r
  <2> QED BY <1>2, <1>6, <1>7, <1>8, <1>10 DEF Placed
<1> QED BY <1>9, <1>10, <1>11

\* The mapping of a request does not change under it.
LEMMA Frozen ==
  ASSUME entries' = entries
  PROVE  /\ Episodes' = Episodes /\ Seasons' = Seasons /\ Report' = Report /\ File' = File
         /\ \A r : Placed(r) => Placed(r)'
<1>1. Episodes' = Episodes /\ Seasons' = Seasons /\ Report' = Report /\ File' = File
  BY DEF Episodes, Seasons, Report, File
<1>2. Count' = Count /\ Aired' = Aired /\ Part' = Part
  BY DEF Count, Aired, Part
<1>3. \A k : Known(k)' = Known(k)
  BY <1>2 DEF Known
<1>4. Length' = Length
  BY <1>2, <1>3 DEF Length
<1>5. \A s : PartsOf(s)' = PartsOf(s)
  BY DEF PartsOf
<1>6. \A s : IsSplit(s)' = IsSplit(s)
  BY <1>2, <1>5 DEF IsSplit
<1>7. \A k : Before(k)' = Before(k)
  BY <1>2, <1>5 DEF Before
<1>8. \A k : Prior(k)' = Prior(k)
  BY <1>4, <1>7 DEF Prior, SumOver
<1>9. \A k : Legible(k)' = Legible(k)
  BY <1>2, <1>4, <1>7, <1>8 DEF Legible
<1> QED BY <1>1, <1>2, <1>3, <1>4, <1>5, <1>6, <1>9 DEF Placed

\* TypeOK says this of the jobs.
JobRecord == [at : Places, left : SUBSET File, report : Report]

LEMMA JobType ==
  ASSUME NEW at \in Places, NEW left \in SUBSET File, NEW report \in Report
  PROVE  Job(at, left, report) \in JobRecord
BY DEF Job, JobRecord

LEMMA NoCardType == NoCard \in Report /\ Idle \in JobRecord
<1>1. NoCard \in Report
  BY DEF NoCard, Report
<1>2. Idle \in JobRecord
  <2>1. "idle" \in Places
    BY DEF Places
  <2> QED BY <1>1, <2>1, JobType DEF Idle
<1> QED BY <1>1, <1>2

\* The terms of a season's total.
LEMMA TotalType ==
  ASSUME entries \in Franchises, NEW s
  PROVE  /\ Expected \cap PartsOf(s) \subseteq PartsOf(s)
         /\ IsFiniteSet(Expected \cap PartsOf(s))
         /\ \A k \in Expected \cap PartsOf(s) : Count[k] \in Nat
         /\ Total(s) \in Nat
<1>1. IsFiniteSet(Expected \cap PartsOf(s))
  BY PartsType, FS_Subset
<1>2. \A k \in Expected \cap PartsOf(s) : Count[k] \in Nat
  <2> SUFFICES ASSUME NEW k \in Expected \cap PartsOf(s) PROVE Count[k] \in Nat
    OBVIOUS
  <2>1. k \in DOMAIN entries /\ Count[k] # None
    BY DEF Expected
  <2>2. Count[k] \in {-1, 0, entries[k].aired} /\ entries[k].aired \in Nat
    BY <2>1, EntryType, ColumnType
  <2> QED BY <2>1, <2>2 DEF None
<1>3. Total(s) \in Nat
  BY <1>1, <1>2, SumType DEF Total
<1> QED BY <1>1, <1>2, <1>3

LEMMA ReportType ==
  ASSUME entries \in Franchises
  PROVE  [missing |-> Missing, empty |-> Empty] \in Report
<1>1. Resolved \subseteq Seasons
  BY DEF Resolved, Expected, Seasons
<1>2. \A s \in Resolved : (1..Total(s)) \ Have(s) \subseteq Nat \ {0}
  BY TotalType
<1>3. Missing \subseteq Seasons \X (Nat \ {0})
  BY <1>1, <1>2 DEF Missing
<1>4. Empty \subseteq Seasons
  BY <1>1 DEF Empty
<1> QED BY <1>3, <1>4 DEF Report

\* What a step of any kind has to keep.
LEMMA TypeKept ==
  ASSUME entries \in Franchises, entries' = entries, on' \subseteq DOMAIN entries,
         rows' \subseteq File, \A r \in rows' : r.season = entries[r.of[1]].season,
         jobs' \in [Slots -> JobRecord], card' \in Report, bypass' \in BOOLEAN,
         waiving' \in BOOLEAN, toggles' \in 0..MaxToggles, faults' \in 0..MaxFaults
  PROVE  TypeOK'
<1>1. Episodes' = Episodes /\ Seasons' = Seasons /\ Report' = Report /\ File' = File
  BY Frozen
<1> QED BY <1>1 DEF TypeOK, JobRecord

LEMMA TypeParts ==
  ASSUME TypeOK
  PROVE  /\ entries \in Franchises /\ on \subseteq DOMAIN entries
         /\ rows \subseteq File /\ \A r \in rows : r.season = entries[r.of[1]].season
         /\ jobs \in [Slots -> JobRecord]
         /\ card \in Report /\ bypass \in BOOLEAN /\ waiving \in BOOLEAN
         /\ toggles \in 0..MaxToggles /\ faults \in 0..MaxFaults
BY DEF TypeOK, JobRecord

\* A job that forgets what it was about.
LEMMA BlankType == \A at \in Places : [Idle EXCEPT !.at = at] \in JobRecord
                                      /\ [Idle EXCEPT !.at = at].left = {}
                                      /\ Job(at, {}, NoCard) \in JobRecord
                                      /\ Job(at, {}, NoCard).left = {}
BY NoCardType, JobType DEF JobRecord, Idle, Job

\* One job changes: what it is to write is placed.
LEMMA JobSet ==
  ASSUME IInv, entries' = entries, NEW j \in Slots, NEW w \in JobRecord,
         \A r \in w.left : r.season = entries[r.of[1]].season /\ Placed(r),
         jobs' = [jobs EXCEPT ![j] = w]
  PROVE  jobs' \in [Slots -> JobRecord] /\ LeftPlaced'
<1>1. jobs \in [Slots -> JobRecord]
  BY TypeParts DEF IInv
<1>2. \A i \in Slots : jobs'[i] = IF i = j THEN w ELSE jobs[i]
  BY <1>1
<1>3. \A i \in Slots : \A r \in jobs'[i].left : r.season = entries[r.of[1]].season /\ Placed(r)
  BY <1>2 DEF IInv, LeftPlaced
<1>4. LeftPlaced'
  BY <1>3, Frozen DEF LeftPlaced
<1> QED BY <1>1, <1>4

\* No job changes.
LEMMA JobsSame ==
  ASSUME IInv, entries' = entries, jobs' = jobs
  PROVE  jobs' \in [Slots -> JobRecord] /\ LeftPlaced'
<1>1. LeftPlaced'
  BY Frozen DEF IInv, LeftPlaced
<1> QED BY <1>1, TypeParts DEF IInv

LEMMA InitTyped == Init => IInv
<1> SUFFICES ASSUME Init PROVE IInv
  OBVIOUS
<1>1. jobs \in [Slots -> JobRecord] /\ NoCard \in Report
  BY NoCardType DEF Init
<1>2. 0 \in 0..MaxToggles /\ 0 \in 0..MaxFaults
  BY CoverageAssumption
<1>3. LeftPlaced
  BY DEF Init, LeftPlaced, Idle, Job
<1> QED BY <1>1, <1>2, <1>3 DEF Init, IInv, TypeOK, JobRecord

\* A step that does not write to the table, which only a download does.
LEMMA RowsKept ==
  ASSUME IInv, entries' = entries, rows' = rows, on' \subseteq DOMAIN entries,
         jobs' \in [Slots -> JobRecord], LeftPlaced',
         card' \in Report, bypass' \in BOOLEAN, waiving' \in BOOLEAN,
         toggles' \in 0..MaxToggles, faults' \in 0..MaxFaults
  PROVE  IInv'
<1>1. TypeOK'
  BY TypeParts, TypeKept DEF IInv
<1>2. \A r \in rows' : Placed(r)'
  BY Frozen DEF IInv
<1> QED BY <1>1, <1>2 DEF IInv

LEMMA FetchKeeps ==
  ASSUME IInv, NEW j \in Slots, Fetch(j)
  PROVE  IInv'
<1>0. TypeOK
  BY DEF IInv
<1>1. /\ entries' = entries /\ rows' = rows \cup jobs[j].left
      /\ jobs' = [jobs EXCEPT ![j] = Job("fetching", {}, NoCard)]
      /\ on' = on /\ card' = card /\ bypass' = bypass /\ waiving' = waiving
      /\ toggles' = toggles /\ faults' = faults
  BY DEF Fetch
<1>2. jobs[j].left \subseteq File
  BY <1>0, TypeParts DEF JobRecord
<1>3. \A r \in rows' : r \in File /\ r.season = entries[r.of[1]].season /\ Placed(r)
  BY <1>0, <1>1, <1>2, TypeParts DEF IInv, LeftPlaced
<1>4. jobs' \in [Slots -> JobRecord] /\ LeftPlaced'
  BY <1>1, BlankType, JobSet DEF Places
<1>5. TypeOK'
  BY <1>0, <1>1, <1>3, <1>4, TypeParts, TypeKept
<1>6. \A r \in rows' : Placed(r)'
  BY <1>1, <1>3, Frozen
<1> QED BY <1>4, <1>5, <1>6 DEF IInv

LEMMA EnqueueKeeps ==
  ASSUME IInv, NEW j \in Slots, NEW e \in Episodes, NEW style, Enqueue(j, e, style)
  PROVE  IInv'
<1>0. TypeOK
  BY DEF IInv
<1> DEFINE left == {Row(e, style)}
           w == Job("fetching", left, NoCard)
<1>1. /\ entries' = entries /\ rows' = rows /\ jobs' = [jobs EXCEPT ![j] = w]
      /\ on' = on /\ card' = card /\ bypass' = bypass /\ waiving' = waiving
      /\ toggles' = toggles /\ faults' = faults
  BY DEF Enqueue
<1>2. \A r \in left : r \in File /\ r.season = entries[r.of[1]].season /\ Placed(r)
  BY <1>0, TypeParts, RowPlaced
<1> HIDE DEF left
<1>3. w \in JobRecord /\ w.left = left
  BY <1>2, NoCardType, JobType DEF Places, Job
<1> HIDE DEF w
<1>4. jobs' \in [Slots -> JobRecord] /\ LeftPlaced'
  BY <1>1, <1>2, <1>3, JobSet
<1> QED BY <1>0, <1>1, <1>4, TypeParts, RowsKept

\* The two steps of "publish what we have".
LEMMA WaiverKeeps ==
  ASSUME IInv, WaiveGaps \/ PublishFails \/ \E j \in Slots : PublishAnyway(j)
  PROVE  IInv'
<1>0. TypeOK
  BY DEF IInv
<1>1. /\ entries' = entries /\ rows' = rows /\ on' = on /\ card' = card
      /\ bypass' \in BOOLEAN /\ waiving' \in BOOLEAN /\ toggles' = toggles
  BY <1>0, TypeParts DEF WaiveGaps, PublishFails, PublishAnyway
<1>2. faults' \in 0..MaxFaults
  <2>1. CASE WaiveGaps
    BY <1>0, <2>1, TypeParts DEF WaiveGaps
  <2>2. CASE PublishFails
    <3>1. faults < MaxFaults /\ faults' = faults + 1
      BY <2>2 DEF PublishFails
    <3> QED BY <1>0, <3>1, TypeParts, CoverageAssumption
  <2>3. CASE \E j \in Slots : PublishAnyway(j)
    BY <1>0, <2>3, TypeParts DEF PublishAnyway
  <2> QED BY <2>1, <2>2, <2>3
<1>3. jobs' \in [Slots -> JobRecord] /\ LeftPlaced'
  <2>1. CASE jobs' = jobs
    BY <1>1, <2>1, JobsSame
  <2>2. ASSUME NEW j \in Slots, PublishAnyway(j)
        PROVE  jobs' \in [Slots -> JobRecord] /\ LeftPlaced'
    <3>1. jobs' = [jobs EXCEPT ![j] = Job("fetching", {}, NoCard)]
      BY <2>2 DEF PublishAnyway
    <3> QED BY <1>1, <3>1, BlankType, JobSet DEF Places
  <2> QED BY <2>1, <2>2 DEF WaiveGaps, PublishFails
<1> QED BY <1>0, <1>1, <1>2, <1>3, TypeParts, RowsKept

\* A job that goes past the gate, stops or fails forgets what it was about.
LEMMA PutKeeps ==
  ASSUME IInv, NEW j \in Slots, NEW at \in Places, Put(j, at),
         entries' = entries, rows' = rows, on' = on, card' \in Report,
         bypass' \in BOOLEAN, waiving' = waiving, toggles' = toggles, faults' \in 0..MaxFaults
  PROVE  IInv'
<1> DEFINE w == [Idle EXCEPT !.at = at]
<1>1. w \in JobRecord /\ w.left = {} /\ jobs' = [jobs EXCEPT ![j] = w]
  BY BlankType DEF Put
<1> HIDE DEF w
<1>2. jobs' \in [Slots -> JobRecord] /\ LeftPlaced'
  BY <1>1, JobSet
<1> QED BY <1>2, TypeParts, RowsKept DEF IInv

LEMMA PauseKeeps ==
  ASSUME IInv, NEW j \in Slots, Pause(j)
  PROVE  IInv'
<1>0. TypeOK
  BY DEF IInv
<1> DEFINE report == [missing |-> Missing, empty |-> Empty]
           w == Job("pausing", {}, report)
<1>1. /\ entries' = entries /\ rows' = rows /\ jobs' = [jobs EXCEPT ![j] = w]
      /\ on' = on /\ card' = card /\ bypass' = bypass /\ waiving' = waiving
      /\ toggles' = toggles /\ faults' = faults
  BY DEF Pause
<1>2. report \in Report
  BY <1>0, TypeParts, ReportType
<1> HIDE DEF report
<1>3. w \in JobRecord /\ w.left = {}
  BY <1>2, JobType DEF Places, Job
<1> HIDE DEF w
<1>4. jobs' \in [Slots -> JobRecord] /\ LeftPlaced'
  BY <1>1, <1>3, JobSet
<1> QED BY <1>0, <1>1, <1>4, TypeParts, RowsKept

LEMMA RestartKeeps ==
  ASSUME IInv, Restart
  PROVE  IInv'
<1>0. TypeOK
  BY DEF IInv
<1> DEFINE w == Job("fetching", {}, NoCard)
<1>1. /\ entries' = entries /\ rows' = rows /\ faults < MaxFaults /\ faults' = faults + 1
      /\ jobs' = [j \in Slots |->
                    IF jobs[j].at \in {"pausing", "paused"} THEN w ELSE jobs[j]]
      /\ on' = on /\ card' = card /\ bypass' = bypass /\ waiving' = FALSE /\ toggles' = toggles
  BY DEF Restart
<1>2. w \in JobRecord /\ w.left = {}
  BY BlankType DEF Places
<1> HIDE DEF w
<1>3. \A j \in Slots : jobs'[j] = w \/ jobs'[j] = jobs[j]
  BY <1>1
<1>4. jobs' \in [Slots -> JobRecord]
  BY <1>0, <1>1, <1>2, TypeParts
<1>5. \A j \in Slots : \A r \in jobs'[j].left : r.season = entries[r.of[1]].season /\ Placed(r)
  BY <1>2, <1>3 DEF IInv, LeftPlaced
<1>6. LeftPlaced'
  BY <1>1, <1>5, Frozen DEF LeftPlaced
<1>7. faults' \in 0..MaxFaults
  BY <1>0, <1>1, TypeParts, CoverageAssumption
<1> QED BY <1>0, <1>1, <1>4, <1>6, <1>7, TypeParts, RowsKept

\* The invariant is inductive.
LEMMA Step == IInv /\ [Next]_vars => IInv'
<1> SUFFICES ASSUME IInv, [Next]_vars PROVE IInv'
  OBVIOUS
<1>0. TypeOK
  BY DEF IInv
<1>p. "done" \in Places /\ "paused" \in Places /\ "failed" \in Places
  BY DEF Places
<1>1. ASSUME NEW j \in Slots, NEW e \in Episodes, NEW style, Enqueue(j, e, style) PROVE IInv'
  BY <1>1, EnqueueKeeps
<1>2. CASE WaiveGaps \/ PublishFails \/ \E j \in Slots : PublishAnyway(j)
  BY <1>2, WaiverKeeps
<1>3. ASSUME NEW j \in Slots, Fetch(j) PROVE IInv'
  BY <1>3, FetchKeeps
<1>4. ASSUME NEW j \in Slots, PassWaived(j) \/ PassComplete(j) PROVE IInv'
  <2>1. /\ Put(j, "done") /\ entries' = entries /\ rows' = rows /\ on' = on
        /\ card' \in Report /\ bypass' \in BOOLEAN /\ waiving' = waiving /\ toggles' = toggles
        /\ faults' \in 0..MaxFaults
    BY <1>0, <1>4, TypeParts DEF PassWaived, PassComplete
  <2> QED BY <1>p, <2>1, PutKeeps
<1>6. ASSUME NEW j \in Slots, NEW at \in {"done", "failed"}, Put(j, at),
             faults < MaxFaults, faults' = faults + 1,
             UNCHANGED <<entries, on, rows, card, bypass, waiving, toggles>>
      PROVE  IInv'
  <2>1. faults' \in 0..MaxFaults
    BY <1>0, <1>6, TypeParts, CoverageAssumption
  <2> QED BY <1>0, <1>p, <1>6, <2>1, TypeParts, PutKeeps
<1>7. ASSUME NEW j \in Slots, Pause(j) PROVE IInv'
  BY <1>7, PauseKeeps
<1>8. ASSUME NEW j \in Slots, PostCard(j) PROVE IInv'
  <2>1. /\ Put(j, "paused") /\ entries' = entries /\ rows' = rows /\ on' = on
        /\ card' = jobs[j].report /\ bypass' \in BOOLEAN /\ waiving' = waiving /\ toggles' = toggles
        /\ faults' \in 0..MaxFaults
    BY <1>0, <1>8, TypeParts DEF PostCard
  <2>2. jobs[j].report \in Report
    BY <1>0, TypeParts DEF JobRecord
  <2> QED BY <1>p, <2>1, <2>2, PutKeeps
<1>9. ASSUME NEW j \in Slots, PassOnError(j) \/ Fail(j) PROVE IInv'
  BY <1>6, <1>9 DEF PassOnError, Fail
<1>10. ASSUME NEW k \in DOMAIN entries, Toggle(k) PROVE IInv'
  <2>1. /\ entries' = entries /\ rows' = rows /\ jobs' = jobs /\ card' = card
        /\ bypass' = bypass /\ waiving' = waiving /\ faults' = faults
        /\ toggles < MaxToggles /\ toggles' = toggles + 1
        /\ on' \subseteq on \cup {k}
    BY <1>10 DEF Toggle
  <2>2. toggles' \in 0..MaxToggles
    BY <1>0, <2>1, TypeParts, CoverageAssumption
  <2> QED BY <1>0, <2>1, <2>2, TypeParts, JobsSame, RowsKept
<1>11. CASE BypassExpires \/ CardExpires \/ UNCHANGED vars
  <2>1. /\ entries' = entries /\ rows' = rows /\ jobs' = jobs /\ on' = on
        /\ card' \in Report /\ bypass' \in BOOLEAN /\ waiving' = waiving
        /\ toggles' = toggles /\ faults' = faults
    BY <1>0, <1>11, TypeParts, NoCardType DEF BypassExpires, CardExpires, vars
  <2> QED BY <1>0, <2>1, TypeParts, JobsSame, RowsKept
<1>12. CASE Restart
  BY <1>12, RestartKeeps
<1> QED
  BY <1>1, <1>2, <1>3, <1>4, <1>7, <1>8, <1>9, <1>10, <1>11, <1>12
  DEF Next, JobStep

\* Rows and jobs are of the franchise's own episodes and seasons, whatever a release
\* names its parts and however often the mapping is switched.
THEOREM GateTypeCorrect == Spec => []TypeOK
<1>1. Init => IInv
  BY InitTyped
<1>2. IInv /\ [Next]_vars => IInv'
  BY Step
<1>3. IInv => TypeOK
  BY DEF IInv
<1> QED BY <1>1, <1>2, <1>3, PTL DEF Spec

-----------------------------------------------------------------------------
(* Locators *)

LEMMA RowShape ==
  ASSUME TypeOK, NEW r \in rows
  PROVE  /\ r.of \in Episodes /\ r.of[1] \in DOMAIN entries /\ r.of[2] \in Nat \ {0}
         /\ r.of[2] <= Aired[r.of[1]] /\ r.of = <<r.of[1], r.of[2]>>
         /\ r.season = entries[r.of[1]].season /\ r.season \in Nat
         /\ r.episode \in Nat \ {0} /\ r.part \in Nat
         /\ r.season > 0 => r.of[1] \in PartsOf(r.season)
<1>1. entries \in Franchises
  BY TypeParts
<1>2. r \in File /\ r.season = entries[r.of[1]].season
  BY TypeParts
<1>3. r.of \in Episodes /\ r.episode \in Nat \ {0} /\ r.part \in Nat
  BY <1>2 DEF File
<1>4. /\ r.of[1] \in DOMAIN entries /\ r.of[2] \in Nat \ {0}
      /\ r.of[2] <= Aired[r.of[1]] /\ r.of = <<r.of[1], r.of[2]>>
  BY <1>1, <1>3, EpisodeShape
<1>5. r.season \in Nat
  BY <1>1, <1>2, <1>4, EntryType
<1> QED BY <1>1, <1>2, <1>3, <1>4, <1>5, OwnPart

LEMMA DistinctLocators ==
  ASSUME IInv
  PROVE  LocatorsAreDistinct
<1> SUFFICES ASSUME NEW r \in rows, NEW x \in rows, r.season > 0,
                    r.season = x.season, r.part = x.part, r.episode = x.episode,
                    ~r.blind, ~x.blind, \A k \in PartsOf(r.season) : Legible(k)
             PROVE  r.of = x.of
  BY DEF LocatorsAreDistinct
<1>1. TypeOK /\ Placed(r) /\ Placed(x) /\ entries \in Franchises
  BY TypeParts DEF IInv
<1>2. /\ r.of[1] \in PartsOf(r.season) /\ x.of[1] \in PartsOf(r.season)
      /\ r.of = <<r.of[1], r.of[2]>> /\ x.of = <<x.of[1], x.of[2]>>
  BY <1>1, RowShape
<1>3. CASE ~IsSplit(r.season)
  <2>1. r.of[1] = x.of[1]
    BY <1>1, <1>2, <1>3, TwoAreSplit
  <2>2. r.of[2] = x.of[2]
    BY <1>1, <1>3 DEF Placed
  <2> QED BY <1>2, <2>1, <2>2
<1>4. CASE IsSplit(r.season)
  <2>1. Part[r.of[1]] = Part[x.of[1]] /\ r.of[2] = x.of[2]
    BY <1>1, <1>4 DEF Placed
  <2>2. r.of[1] = x.of[1]
    BY <1>1, <1>2, <2>1, PartsAscend
  <2> QED BY <1>2, <2>1, <2>2
<1> QED BY <1>3, <1>4

\* Two episodes under one locator: one came from a release that numbers a later part
\* from 1 on and does not name it, or the season is not legible (_map_episode_locator).
THEOREM RowsAreDistinct == Spec => []LocatorsAreDistinct
<1>1. Init => IInv
  BY InitTyped
<1>2. IInv /\ [Next]_vars => IInv'
  BY Step
<1>3. IInv => LocatorsAreDistinct
  BY DistinctLocators
<1> QED BY <1>1, <1>2, <1>3, PTL DEF Spec

-----------------------------------------------------------------------------
(* The gate *)

\* A season staff kept is expected, its last part deciding for all.
LEMMA KeptIsExpected ==
  ASSUME TypeOK, NEW k \in DOMAIN entries, entries[k].kind = "season",
         PartsOf(entries[k].season) \subseteq on
  PROVE  \A l \in PartsOf(entries[k].season) : Included(l) /\ (Known(l) => l \in Expected)
<1> DEFINE s == entries[k].season
<1>1. entries \in Franchises
  BY TypeParts
<1>2. k \in PartsOf(s)
  BY DEF PartsOf
<1>3. PICK h \in PartsOf(s) : \A i \in PartsOf(s) : i <= h
  BY <1>1, <1>2, LastListed
<1> SUFFICES ASSUME NEW l \in PartsOf(s)
             PROVE  Included(l) /\ (Known(l) => l \in Expected)
  OBVIOUS
<1>4. l \in DOMAIN entries /\ entries[l].season = s /\ entries[l].kind = "season"
  BY <1>1, PartsType
<1>5. Included(l)
  <2>1. h \in on \cap PartsOf(s)
    OBVIOUS
  <2> QED BY <1>3, <1>4, <2>1 DEF Included
<1>6. Known(l) => Count[l] # None
  BY <1>1, <1>4, ColumnType DEF Known, None
<1> QED BY <1>4, <1>5, <1>6 DEF Expected

\* Of a season whose counts are known an owed episode leaves a unit missing: its own
\* number if the season has one entry, and otherwise the last, which is past the
\* length of every part.
LEMMA OwedIsMissed ==
  ASSUME IInv, ~PartlyKnown, NEW e \in Owed
  PROVE  ~Complete /\ \E k \in DOMAIN entries : Included(k)
<1> DEFINE k == e[1]
           s == entries[k].season
<1>1. TypeOK /\ entries \in Franchises
  BY TypeParts DEF IInv
<1>2. /\ e \in Episodes /\ entries[k].kind = "season" /\ Known(k)
      /\ PartsOf(s) \subseteq on /\ ~\E r \in rows : r.of = e
  BY DEF Owed
<1>3. /\ k \in DOMAIN entries /\ e[2] \in Nat \ {0} /\ e[2] <= Aired[k]
      /\ e = <<k, e[2]>>
  BY <1>1, <1>2, EpisodeShape
<1>4. k \in PartsOf(s) /\ s > 0
  BY <1>1, <1>2, <1>3, EntryType DEF PartsOf
<1>5. \A l \in PartsOf(s) : Known(l) /\ l \in DOMAIN entries /\ entries[l].season = s
  <2> SUFFICES ASSUME NEW l \in PartsOf(s)
               PROVE  Known(l) /\ l \in DOMAIN entries /\ entries[l].season = s
    OBVIOUS
  <2>1. l \in DOMAIN entries /\ entries[l].season = s
    BY <1>1, PartsType
  <2>2. Known(l)
    BY <1>2, <1>3, <2>1 DEF PartlyKnown
  <2> QED BY <2>1, <2>2
<1>6. \A l \in PartsOf(s) : Included(l) /\ l \in Expected
  BY <1>1, <1>2, <1>3, <1>5, KeptIsExpected
<1>7. s \in Resolved
  BY <1>4, <1>6 DEF Resolved
<1>8. Expected \cap PartsOf(s) = PartsOf(s) /\ Total(s) = SumOver(PartsOf(s), Count)
  BY <1>6 DEF Total
<1>9. Total(s) \in Nat /\ IsFiniteSet(PartsOf(s))
  BY <1>1, TotalType, PartsType
<1>10. \A l \in PartsOf(s) : Count[l] \in Nat \ {0} /\ Length[l] = Count[l] /\ Aired[l] = Count[l]
  <2> SUFFICES ASSUME NEW l \in PartsOf(s)
               PROVE  Count[l] \in Nat \ {0} /\ Length[l] = Count[l] /\ Aired[l] = Count[l]
    OBVIOUS
  <2> QED BY <1>1, <1>5, ColumnType
<1>11. \E n \in 1..Total(s) : n \notin Have(s)
  <2>1. CASE ~IsSplit(s)
    <3>1. PartsOf(s) = {k}
      BY <1>1, <1>3, <1>4, <2>1, Alone
    <3>2. Total(s) = Count[k] /\ Count[k] = Aired[k]
      BY <1>4, <1>8, <1>10, <3>1, SumOfOne
    <3>3. e[2] \in 1..Total(s)
      BY <1>3, <1>9, <3>2
    <3>4. ASSUME e[2] \in Have(s) PROVE FALSE
      <4>1. PICK x \in rows : x.season = s /\ x.episode = e[2]
        BY <3>4 DEF Have
      <4>2. x.of[1] \in PartsOf(s) /\ x.of = <<x.of[1], x.of[2]>>
        BY <1>1, <1>4, <4>1, RowShape
      <4>3. x.of[2] = x.episode
        BY <2>1, <4>1 DEF IInv, Placed
      <4>4. x.of = e
        BY <1>3, <3>1, <4>1, <4>2, <4>3
      <4> QED BY <1>2, <4>4
    <3> QED BY <3>3, <3>4
  <2>2. CASE IsSplit(s)
    <3>1. \A l \in PartsOf(s) : Length[l] < Total(s)
      <4> SUFFICES ASSUME NEW l \in PartsOf(s) PROVE Count[l] < Total(s)
        BY <1>10
      <4>1. PICK m \in PartsOf(s) : m # l
        BY <1>1, <2>2, SplitHasAnother
      <4>2. IsFiniteSet({l}) /\ SumOver({l}, Count) = Count[l]
        BY <1>10, SumOfOne, FS_Singleton
      <4>3. SumOver({l} \cup {m}, Count) = SumOver({l}, Count) + Count[m]
        <5>1. m \notin {l} /\ Count[m] \in Nat /\ \A i \in {l} : Count[i] \in Int
          BY <1>10, <4>1
        <5> QED BY <4>2, <5>1, SumWithOne
      <4>4. {l} \cup {m} \subseteq PartsOf(s) /\ \A i \in PartsOf(s) : Count[i] \in Int
        BY <1>10
      <4>5. SumOver({l} \cup {m}, Count) <= Total(s)
        BY <1>8, <1>9, <4>4, SumMono
      <4>6. Count[l] \in Nat /\ Count[m] \in Nat \ {0}
        BY <1>10
      <4>7. Count[l] + Count[m] <= Total(s)
        BY <4>2, <4>3, <4>5
      <4> QED BY ONLY <1>9, <4>6, <4>7
    <3>2. ASSUME Total(s) \in Have(s) PROVE FALSE
      <4>1. PICK x \in rows : x.season = s /\ x.episode = Total(s)
        BY <3>2 DEF Have
      <4>3. PICK l \in PartsOf(s) : x.episode <= Length[l]
        BY <1>5, <2>2, <4>1 DEF IInv, Placed
      <4>4. Length[l] < Total(s) /\ Length[l] \in Nat
        BY <1>10, <3>1
      <4> QED BY <1>9, <4>1, <4>3, <4>4
    <3>3. Total(s) \in 1..Total(s)
      BY <1>4, <1>9, <1>10, <3>1
    <3> QED BY <3>2, <3>3
  <2> QED BY <2>1, <2>2
<1>12. Missing # {}
  <2>1. PICK n \in 1..Total(s) : n \notin Have(s)
    BY <1>11
  <2>2. <<s, n>> \in {<<s, m>> : m \in (1..Total(s)) \ Have(s)}
    BY <2>1
  <2>3. <<s, n>> \in Missing
    BY <1>7, <2>2 DEF Missing
  <2> QED BY <2>3
<1> QED BY <1>3, <1>4, <1>6, <1>12 DEF Complete

\* Without split seasons and with every count known, what is missing is what is owed.
LEMMA MissedIsOwed ==
  ASSUME IInv, ~Split, ~Uncounted
  PROVE  /\ Missing = {<<entries[e[1]].season, e[2]>> : e \in Owed}
         /\ ~Complete => Owed # {}
<1>1. TypeOK /\ entries \in Franchises
  BY TypeParts DEF IInv
<1>2. ASSUME NEW s \in Resolved
      PROVE  \E k \in Expected : /\ k \in DOMAIN entries /\ entries[k].season = s /\ s > 0
                                 /\ entries[k].kind = "season" /\ Known(k)
                                 /\ PartsOf(s) = {k} /\ k \in on /\ ~IsSplit(s)
                                 /\ Total(s) = Aired[k] /\ Aired[k] \in Nat \ {0}
  <2>1. PICK k \in Expected : entries[k].season = s
    BY DEF Resolved
  <2>2. k \in DOMAIN entries /\ Included(k) /\ entries[k].kind = "season" /\ Count[k] # None
    BY DEF Expected
  <2>3. ~IsSplit(s) /\ s > 0 /\ s \in Nat
    BY <1>1, <2>1, <2>2, EntryType DEF Split, Seasons
  <2>4. PartsOf(s) = {k}
    BY <1>1, <2>1, <2>2, <2>3, Alone
  <2>5. k \in on
    BY <2>1, <2>2, <2>4 DEF Included
  <2>6. Known(k) /\ Count[k] = Aired[k] /\ Count[k] \in Nat \ {0}
    <3>1. Count[k] # 0
      BY <2>2 DEF Uncounted
    <3>2. Count[k] \in {-1, 0, Aired[k]} /\ Aired[k] \in Nat
      BY <1>1, <2>2, EntryType, ColumnType
    <3>3. Count[k] = Aired[k] /\ Count[k] > 0
      BY <2>2, <3>1, <3>2 DEF None
    <3> QED BY <3>2, <3>3 DEF Known
  <2>7. Total(s) = Count[k]
    <3>1. Expected \cap PartsOf(s) = {k}
      BY <2>4
    <3> QED BY <2>6, <3>1, SumOfOne DEF Total
  <2> QED BY <2>1, <2>2, <2>3, <2>4, <2>5, <2>6, <2>7
<1>3. ASSUME NEW s \in Resolved, NEW k \in Expected,
             entries[k].season = s, s > 0, PartsOf(s) = {k}, ~IsSplit(s), NEW n
      PROVE  n \in Have(s) <=> \E r \in rows : r.of = <<k, n>>
  <2>1. ASSUME n \in Have(s) PROVE \E r \in rows : r.of = <<k, n>>
    <3>1. PICK x \in rows : x.season = s /\ x.episode = n
      BY <2>1 DEF Have
    <3>2. x.of[1] \in PartsOf(s) /\ x.of = <<x.of[1], x.of[2]>>
      BY <1>1, <1>3, <3>1, RowShape
    <3>3. x.of[2] = n
      BY <1>3, <3>1 DEF IInv, Placed
    <3> QED BY <1>3, <3>2, <3>3
  <2>2. ASSUME NEW r \in rows, r.of = <<k, n>> PROVE n \in Have(s)
    <3>1. r.season = s
      BY <1>1, <1>3, <2>2, RowShape
    <3>2. r.episode = n
      BY <1>3, <2>2, <3>1 DEF IInv, Placed
    <3> QED BY <3>1, <3>2 DEF Have
  <2> QED BY <2>1, <2>2
<1>4. Missing \subseteq {<<entries[e[1]].season, e[2]>> : e \in Owed}
  <2> SUFFICES ASSUME NEW u \in Missing
               PROVE  u \in {<<entries[e[1]].season, e[2]>> : e \in Owed}
    OBVIOUS
  <2>0. PICK s \in Resolved : u \in {<<s, m>> : m \in (1..Total(s)) \ Have(s)}
    BY DEF Missing
  <2>1. PICK n \in (1..Total(s)) \ Have(s) : u = <<s, n>>
    BY <2>0
  <2>2. PICK k \in Expected : /\ k \in DOMAIN entries /\ entries[k].season = s /\ s > 0
                              /\ entries[k].kind = "season" /\ Known(k)
                              /\ PartsOf(s) = {k} /\ k \in on /\ ~IsSplit(s)
                              /\ Total(s) = Aired[k] /\ Aired[k] \in Nat \ {0}
    BY <1>2
  <2>3. <<k, n>> \in Episodes
    BY <1>1, <2>1, <2>2, EpisodeIn
  <2>4. ~\E r \in rows : r.of = <<k, n>>
    BY <1>3, <2>1, <2>2
  <2>5. <<k, n>> \in Owed
    BY <2>2, <2>3, <2>4 DEF Owed
  <2> QED BY <2>1, <2>2, <2>5
<1>5. ASSUME NEW e \in Owed PROVE <<entries[e[1]].season, e[2]>> \in Missing
  <2> DEFINE k == e[1]
             s == entries[k].season
  <2>1. /\ e \in Episodes /\ entries[k].kind = "season" /\ Known(k)
        /\ PartsOf(s) \subseteq on /\ ~\E r \in rows : r.of = e
    BY DEF Owed
  <2>2. /\ k \in DOMAIN entries /\ e[2] \in Nat \ {0} /\ e[2] <= Aired[k]
        /\ e = <<k, e[2]>>
    BY <1>1, <2>1, EpisodeShape
  <2>3. k \in PartsOf(s)
    BY <2>1, <2>2 DEF PartsOf
  <2>4. k \in Expected
    BY <1>1, <2>1, <2>2, <2>3, KeptIsExpected
  <2>5. s \in Resolved
    BY <2>4 DEF Resolved
  <2>6. PICK l \in Expected : /\ l \in DOMAIN entries /\ entries[l].season = s /\ s > 0
                              /\ entries[l].kind = "season" /\ Known(l)
                              /\ PartsOf(s) = {l} /\ l \in on /\ ~IsSplit(s)
                              /\ Total(s) = Aired[l] /\ Aired[l] \in Nat \ {0}
    BY <1>2, <2>5
  <2>7. l = k
    BY <2>3, <2>6
  <2>8. e[2] \in 1..Total(s)
    BY <2>2, <2>6, <2>7
  <2>9. e[2] \notin Have(s)
    BY <1>3, <2>1, <2>2, <2>4, <2>5, <2>6, <2>7
  <2>10. <<s, e[2]>> \in {<<s, m>> : m \in (1..Total(s)) \ Have(s)}
    BY <2>8, <2>9
  <2> QED BY <2>5, <2>10 DEF Missing
<1>6. ASSUME Owed = {} PROVE Complete
  <2>1. Missing = {}
    BY <1>4, <1>6
  <2>2. Empty = {}
    <3> SUFFICES ASSUME NEW s \in Empty PROVE FALSE
      OBVIOUS
    <3>1. s \in Resolved /\ Have(s) = {}
      BY DEF Empty
    <3>2. Total(s) \in Nat \ {0}
      BY <1>2, <3>1
    <3>3. <<s, 1>> \in {<<s, m>> : m \in (1..Total(s)) \ Have(s)}
      BY <3>1, <3>2
    <3>4. <<s, 1>> \in Missing
      BY <3>1, <3>3 DEF Missing
    <3> QED BY <2>1, <3>4
  <2> QED BY <2>1, <2>2 DEF Complete
<1> QED BY <1>4, <1>5, <1>6

\* A step changes the job of one slot.
LEMMA OneJob ==
  ASSUME TypeOK, NEW i \in Slots, NEW j \in Slots, NEW r, jobs' = [jobs EXCEPT ![i] = r]
  PROVE  jobs'[j] = IF j = i THEN r ELSE jobs[j]
<1>1. jobs \in [Slots -> JobRecord]
  BY TypeParts
<1> QED BY <1>1

\* A job goes past the gate, or is paused at it, in its own steps only.
LEMMA WhoPasses ==
  ASSUME TypeOK, [Next]_vars, NEW j \in Slots, jobs[j].at = "fetching"
  PROVE  /\ jobs'[j].at = "done" => PassWaived(j) \/ PassComplete(j) \/ PassOnError(j)
         /\ jobs'[j].at = "pausing" => Pause(j)
<1> DEFINE Goal == /\ jobs'[j].at = "done" => PassWaived(j) \/ PassComplete(j) \/ PassOnError(j)
                   /\ jobs'[j].at = "pausing" => Pause(j)
<1>1. ASSUME NEW i \in Slots, NEW r, jobs' = [jobs EXCEPT ![i] = r],
             r.at \notin {"done", "pausing"}
      PROVE  Goal
  <2>1. jobs'[j] = IF j = i THEN r ELSE jobs[j]
    BY <1>1, OneJob
  <2> QED BY <1>1, <2>1
<1>2. ASSUME NEW i \in Slots, NEW at, Put(i, at), j # i PROVE Goal
  <2>1. jobs'[j] = jobs[j]
    BY <1>2, OneJob DEF Put
  <2> QED BY <2>1
<1>3. ASSUME NEW i \in Slots, NEW at, Put(i, at), at \notin {"done", "pausing"} PROVE Goal
  <2>1. jobs' = [jobs EXCEPT ![i] = [Idle EXCEPT !.at = at]]
    BY <1>3 DEF Put
  <2>2. [Idle EXCEPT !.at = at].at = at
    BY DEF Idle, Job
  <2> HIDE DEF Goal
  <2> QED BY <1>1, <1>3, <2>1, <2>2
<1>0. jobs \in [Slots -> JobRecord]
  BY TypeParts
<1>a. \A left, report :
        /\ Job("fetching", left, report).at \notin {"done", "pausing"}
        /\ Job("pausing", left, report).at = "pausing"
  BY DEF Job
<1>4. ASSUME NEW i \in Slots, NEW e \in Episodes, NEW style, Enqueue(i, e, style)
      PROVE  Goal
  <2>1. jobs' = [jobs EXCEPT ![i] = Job("fetching", {Row(e, style)}, NoCard)]
    BY <1>4 DEF Enqueue
  <2> HIDE DEF Goal
  <2> QED BY <1>1, <1>a, <2>1
<1>5. ASSUME NEW i \in Slots, PublishAnyway(i) \/ Fetch(i) PROVE Goal
  <2>1. jobs' = [jobs EXCEPT ![i] = Job("fetching", {}, NoCard)]
    BY <1>5 DEF PublishAnyway, Fetch
  <2> HIDE DEF Goal
  <2> QED BY <1>1, <1>a, <2>1
<1>6. ASSUME NEW i \in Slots, PassWaived(i) \/ PassComplete(i) \/ PassOnError(i) PROVE Goal
  <2>1. Put(i, "done")
    BY <1>6 DEF PassWaived, PassComplete, PassOnError
  <2>2. CASE i # j
    <3> HIDE DEF Goal
    <3> QED BY <1>2, <2>1, <2>2
  <2>3. CASE i = j
    <3>1. jobs'[j].at = "done"
      <4> DEFINE r == [Idle EXCEPT !.at = "done"]
      <4>1. r.at = "done"
        BY DEF Idle, Job
      <4>2. jobs' = [jobs EXCEPT ![j] = r]
        BY <2>1, <2>3 DEF Put
      <4> HIDE DEF r
      <4>3. jobs'[j] = r
        BY <1>0, <4>2
      <4> QED BY <4>1, <4>3
    <3> QED BY <1>6, <2>3, <3>1
  <2> QED BY <2>2, <2>3
<1>7. ASSUME NEW i \in Slots, Pause(i) PROVE Goal
  <2>1. jobs' = [jobs EXCEPT ![i] =
                   Job("pausing", {}, [missing |-> Missing, empty |-> Empty])]
    BY <1>7 DEF Pause
  <2>2. CASE i # j
    <3>1. jobs'[j] = jobs[j]
      BY <2>1, <2>2, OneJob
    <3> QED BY <3>1
  <2>3. CASE i = j
    <3> DEFINE r == Job("pausing", {}, [missing |-> Missing, empty |-> Empty])
    <3>1. jobs'[j].at = "pausing"
      <4>1. r.at = "pausing"
        BY <1>a
      <4>2. jobs' = [jobs EXCEPT ![j] = r]
        BY <2>1, <2>3
      <4> HIDE DEF r
      <4>3. jobs'[j] = r
        BY <1>0, <4>2
      <4> QED BY <4>1, <4>3
    <3> QED BY <1>7, <2>3, <3>1
  <2> QED BY <2>2, <2>3
<1>8. ASSUME NEW i \in Slots, PostCard(i) PROVE Goal
  <2>1. Put(i, "paused")
    BY <1>8 DEF PostCard
  <2> HIDE DEF Goal
  <2> QED BY <1>3, <2>1
<1>9. ASSUME NEW i \in Slots, Fail(i) PROVE Goal
  <2>1. Put(i, "failed")
    BY <1>9 DEF Fail
  <2> HIDE DEF Goal
  <2> QED BY <1>3, <2>1
<1>10. ASSUME jobs' = jobs PROVE Goal
  BY <1>10
<1>11. CASE Restart
  <2>1. jobs'[j] \in {Job("fetching", {}, NoCard), jobs[j]}
    BY <1>11 DEF Restart
  <2>2. jobs'[j].at \notin {"done", "pausing"}
    BY <1>a, <2>1
  <2> QED BY <2>2
<1>12. CASE \/ \E k \in DOMAIN entries : Toggle(k)
            \/ WaiveGaps \/ PublishFails \/ BypassExpires \/ CardExpires \/ UNCHANGED vars
  <2>1. jobs' = jobs
    BY <1>12 DEF Toggle, WaiveGaps, PublishFails, BypassExpires, CardExpires, vars
  <2> QED BY <2>1
<1> QED
  BY <1>4, <1>5, <1>6, <1>7, <1>8, <1>9, <1>11, <1>12 DEF Next, JobStep

LEMMA GateStep ==
  ASSUME IInv, [Next]_vars, NEW j \in Slots
  PROVE  /\ Passes(j) /\ ~PartlyKnown => HoleIsWaived
         /\ Pauses(j) /\ ~Split /\ ~Uncounted => PauseIsOwed(j)
<1>0. TypeOK
  BY DEF IInv
<1>1. ASSUME Passes(j), ~PartlyKnown PROVE HoleIsWaived
  <2>1. PassWaived(j) \/ PassComplete(j) \/ PassOnError(j)
    BY <1>0, <1>1, WhoPasses DEF Passes
  <2>2. CASE PassWaived(j)
    BY <2>2 DEF PassWaived, HoleIsWaived
  <2>3. CASE PassComplete(j)
    <3>1. Complete \/ \A k \in DOMAIN entries : ~Included(k)
      BY <2>3 DEF PassComplete
    <3>2. Owed = {}
      BY <1>1, <3>1, OwedIsMissed
    <3> QED BY <3>2 DEF HoleIsWaived
  <2>4. CASE PassOnError(j)
    <3>1. faults' = faults + 1 /\ faults \in Nat
      BY <1>0, <2>4, TypeParts, CoverageAssumption DEF PassOnError
    <3>2. faults' # faults
      BY <3>1
    <3> QED BY <3>2 DEF HoleIsWaived
  <2> QED BY <2>1, <2>2, <2>3, <2>4
<1>2. ASSUME Pauses(j), ~Split, ~Uncounted PROVE PauseIsOwed(j)
  <2>1. Pause(j)
    BY <1>0, <1>2, WhoPasses DEF Pauses
  <2>2. /\ ~Complete
        /\ jobs' = [jobs EXCEPT ![j] =
                      Job("pausing", {}, [missing |-> Missing, empty |-> Empty])]
    BY <2>1 DEF Pause
  <2>3. jobs'[j] = Job("pausing", {}, [missing |-> Missing, empty |-> Empty])
    BY <1>0, <2>2, OneJob
  <2>4. jobs'[j].report.missing = Missing
    BY <2>3 DEF Job
  <2> QED BY <1>2, <2>2, <2>4, MissedIsOwed DEF PauseIsOwed
<1> QED BY <1>1, <1>2

\* The gate (_maybe_pause_for_coverage) lets a job past with a hole only when staff
\* waived it or the gate itself failed, unless a part's count is unknown; and where no
\* season is split and every count is known, it pauses a job only over episodes that are
\* owed, which the card names unit by unit.
THEOREM GateExact == Spec => GateIsExact
<1>1. Init => IInv
  BY InitTyped
<1>2. IInv /\ [Next]_vars => IInv'
  BY Step
<1>3. IInv /\ [Next]_vars
        => [\A j \in Slots : /\ Passes(j) /\ ~PartlyKnown => HoleIsWaived
                             /\ Pauses(j) /\ ~Split /\ ~Uncounted => PauseIsOwed(j)]_vars
  BY GateStep
<1> QED BY <1>1, <1>2, <1>3, PTL DEF Spec, GateIsExact

=============================================================================

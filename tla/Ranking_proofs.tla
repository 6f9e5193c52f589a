---------------------------- MODULE Ranking_proofs ----------------------------
(***************************************************************************)
(* The order of a search's evidence, for any rows, lists, scores and       *)
(* limits.                                                                 *)
(***************************************************************************)
EXTENDS Ranking, OrderLemmas

-----------------------------------------------------------------------------
(***************************************************************************)
(* Lists in order                                                          *)
(***************************************************************************)
\* s lists S, each member once, the earlier ones first.
IsSortOf(s, S, pairs) ==
    /\ Cardinality(S) \in Nat
    /\ s \in [1 .. Cardinality(S) -> S]
    /\ \A i, j \in 1 .. Cardinality(S) : i < j => <<s[i], s[j]>> \in pairs
    /\ \A i, j \in 1 .. Cardinality(S) : s[i] = s[j] => i = j
    /\ \A x \in S : \E i \in 1 .. Cardinality(S) : s[i] = x

\* InOrder sorts.
LEMMA InOrderSorts ==
    ASSUME NEW S, IsFiniteSet(S), NEW pairs, IsTotalOrder(S, pairs)
    PROVE  IsSortOf(InOrder(S, pairs), S, pairs)
<1> DEFINE n == Cardinality(S)
           rank == RankIn(S, pairs)
           s == InOrder(S, pairs)
           at(i) == CHOOSE x \in S : Cardinality(Before(x, S, pairs)) = i - 1
<1>1. AreRanks(rank, S, pairs)
  BY RanksOfAnOrder
<1>2. n \in Nat
  BY <1>1 DEF AreRanks
<1>3. s = [i \in 1 .. n |-> at(i)]
  BY DEF InOrder, Before
<1>4. ASSUME NEW i \in 1 .. n
      PROVE  s[i] \in S /\ rank[s[i]] = i - 1
  <2>1. s[i] = at(i)
    BY <1>3
  <2>2. i - 1 \in 0 .. n - 1
    BY <1>2
  <2>3. PICK x \in S : rank[x] = i - 1
    BY <1>1, <2>2 DEF AreRanks
  <2>4. \A y \in S : rank[y] = Cardinality(Before(y, S, pairs))
    BY DEF RankIn
  <2> QED BY <2>1, <2>3, <2>4
<1> HIDE DEF s, rank, n, at
<1>5. ASSUME NEW i \in 1 .. n, NEW j \in 1 .. n
      PROVE  /\ i < j => <<s[i], s[j]>> \in pairs
             /\ s[i] = s[j] => i = j
  <2>1. rank[s[i]] = i - 1 /\ rank[s[j]] = j - 1 /\ s[i] \in S /\ s[j] \in S
    BY <1>4
  <2>2. i < j => rank[s[i]] < rank[s[j]]
    BY <1>2, <2>1
  <2> QED BY <1>1, <1>2, <2>1, <2>2 DEF AreRanks
<1>6. ASSUME NEW x \in S PROVE \E i \in 1 .. n : s[i] = x
  <2>1. rank[x] \in 0 .. n - 1
    BY <1>1 DEF AreRanks, n
  <2>2. PICK i \in 1 .. n : rank[x] = i - 1
    <3>1. rank[x] + 1 \in 1 .. n /\ rank[x] = (rank[x] + 1) - 1
      BY <1>2, <2>1
    <3> QED BY <3>1
  <2>3. rank[s[i]] = rank[x] /\ s[i] \in S
    BY <1>4, <2>2
  <2>4. s[i] = x
    BY <1>1, <2>3 DEF AreRanks
  <2> QED BY <2>4
<1>7. s \in [1 .. n -> S]
  BY <1>3, <1>4
<1> QED BY <1>2, <1>5, <1>6, <1>7 DEF IsSortOf, n, s

\* at runs through places from the first to the last.
RunsThrough(at, places) ==
    /\ Cardinality(places) \in Nat
    /\ at \in [1 .. Cardinality(places) -> places]
    /\ \A i, j \in 1 .. Cardinality(places) : i < j => at[i] < at[j]
    /\ \A i, j \in 1 .. Cardinality(places) : at[i] = at[j] => i = j
    /\ \A x \in places : \E i \in 1 .. Cardinality(places) : at[i] = x

\* Chosen shows the entries at some places of a list in the order of the places.
LEMMA ChosenInOrder ==
    ASSUME NEW X, NEW list \in Seq(X), NEW places \in SUBSET DOMAIN list
    PROVE  \E at : /\ RunsThrough(at, places)
                   /\ Chosen(list, places) = [i \in 1 .. Cardinality(places) |-> list[at[i]]]
                   /\ Chosen(list, places) \in Seq(X)
                   /\ Len(Chosen(list, places)) = Cardinality(places)
<1> DEFINE at == InOrder(places, Less(places))
           n == Cardinality(places)
<1>1. places \in SUBSET Nat /\ IsFiniteSet(places)
  <2>1. Len(list) \in Nat /\ DOMAIN list = 1 .. Len(list)
    OBVIOUS
  <2>2. IsFiniteSet(1 .. Len(list))
    <3>1. 1 \in Int /\ Len(list) \in Int
      BY <2>1
    <3> QED BY ONLY <3>1, FS_Interval
  <2> QED BY <2>1, <2>2, FS_Subset
<1>2. IsSortOf(at, places, Less(places))
  BY <1>1, InOrderSorts, NumbersAreOrdered
<1>3. RunsThrough(at, places)
  BY <1>1, <1>2, NumbersAreOrdered DEF IsSortOf, RunsThrough
<1>4. Chosen(list, places) = [i \in 1 .. n |-> list[at[i]]]
  <2>1. DOMAIN at = 1 .. n
    BY DEF InOrder
  <2> QED BY <2>1 DEF Chosen, Less
<1> HIDE DEF at
<1>5. n \in Nat /\ \A i \in 1 .. n : list[at[i]] \in X
  BY <1>3 DEF RunsThrough
<1> HIDE DEF n
<1>6. [i \in 1 .. n |-> list[at[i]]] \in Seq(X) /\ Len([i \in 1 .. n |-> list[at[i]]]) = n
  BY <1>5
<1> QED BY <1>3, <1>4, <1>6 DEF n

\* A row with its score.
Entry == [score : Int, row : Rows]

\* Sorted moves entries about, the best first.
LEMMA SortedInOrder ==
    ASSUME NEW entries \in Seq(Entry), NEW key \in [Rows -> Nat]
    PROVE  LET s == Sorted(entries, key)
               n == Len(entries)
           IN  /\ s \in Seq(Entry) /\ Len(s) = n
               /\ \A i, j \in 1 .. n : i < j => s[i].score >= s[j].score
               /\ \E at \in [1 .. n -> 1 .. n] :
                    /\ \A i, j \in 1 .. n : at[i] = at[j] => i = j
                    /\ \A i \in 1 .. n : s[i] = entries[at[i]]
<1> DEFINE n == Len(entries)
           all == 1 .. n
           Ahead(i, j) ==
              LET x == entries[i]
                  y == entries[j]
              IN  \/ x.score > y.score
                  \/ x.score = y.score /\ key[x.row] > key[y.row]
                  \/ x.score = y.score /\ key[x.row] = key[y.row] /\ i < j
           pairs == {pair \in all \X all : Ahead(pair[1], pair[2])}
           at == InOrder(all, pairs)
           s == Sorted(entries, key)
<1>1. n \in Nat /\ \A i \in all : entries[i] \in Entry /\ i \in Nat
  OBVIOUS
<1>2. IsFiniteSet(all) /\ Cardinality(all) = n
  <2>1. 1 \in Int /\ n \in Int
    BY <1>1
  <2>2. IsFiniteSet(all) /\ Cardinality(all) = IF 1 > n THEN 0 ELSE n - 1 + 1
    BY ONLY <2>1, FS_Interval
  <2> QED BY <1>1, <2>2
<1>3. \A i, j \in all : <<i, j>> \in pairs <=> Ahead(i, j)
  OBVIOUS
<1>4. \A i \in all : entries[i].score \in Int /\ key[entries[i].row] \in Nat
  BY <1>1 DEF Entry
<1> HIDE DEF pairs
<1>5. IsTotalOrder(all, pairs)
  <2>1. \A i \in all : ~ Ahead(i, i)
    BY <1>1, <1>4
  <2>2. \A i, j, k \in all : Ahead(i, j) /\ Ahead(j, k) => Ahead(i, k)
    BY <1>1, <1>4
  <2>3. \A i, j \in all : i # j => Ahead(i, j) \/ Ahead(j, i)
    BY <1>1, <1>4
  <2> HIDE DEF Ahead
  <2> QED BY <1>3, <2>1, <2>2, <2>3 DEF IsTotalOrder
<1>6. IsSortOf(at, all, pairs)
  BY <1>2, <1>5, InOrderSorts
<1>7. s = [i \in all |-> entries[at[i]]]
  <2>1. DOMAIN at = all
    BY <1>2 DEF InOrder
  <2> QED BY <2>1 DEF Sorted, pairs
<1> HIDE DEF at, s
<1>8. at \in [all -> all] /\ \A i, j \in all : at[i] = at[j] => i = j
  BY <1>2, <1>6 DEF IsSortOf
<1>9. \A i \in all : s[i] = entries[at[i]] /\ at[i] \in all
  BY <1>7, <1>8
<1>10. s \in Seq(Entry) /\ Len(s) = n
  BY <1>1, <1>7, <1>8
<1>11. ASSUME NEW i \in all, NEW j \in all, i < j PROVE s[i].score >= s[j].score
  <2>1. <<at[i], at[j]>> \in pairs
    BY <1>2, <1>6, <1>11 DEF IsSortOf
  <2>2. Ahead(at[i], at[j])
    BY <1>3, <1>9, <2>1
  <2>3. /\ s[i] = entries[at[i]] /\ entries[at[i]].score \in Int
        /\ s[j] = entries[at[j]] /\ entries[at[j]].score \in Int
    BY <1>4, <1>9
  <2>4. \/ entries[at[i]].score > entries[at[j]].score
        \/ entries[at[i]].score = entries[at[j]].score
    BY <2>2
  <2> HIDE DEF Ahead
  <2> QED BY <2>3, <2>4
<1> QED BY <1>8, <1>9, <1>10, <1>11 DEF s

-----------------------------------------------------------------------------
(***************************************************************************)
(* Fusion                                                                  *)
(***************************************************************************)
AreLists(lists) == DOMAIN lists = 1 .. 3 /\ \A i \in 1 .. 3 : IsRanking(lists[i])

\* A row of a ranking has one place.
LEMMA PlaceOfRow ==
    ASSUME NEW list, IsRanking(list)
    PROVE  /\ DOMAIN list = 1 .. Len(list) /\ Len(list) \in Nat
           /\ \A row \in Range(list) :
                Place(list, row) \in DOMAIN list /\ list[Place(list, row)] = row
           /\ \A i \in DOMAIN list : list[i] \in Range(list) /\ Place(list, list[i]) = i
<1>1. ASSUME NEW row \in Range(list)
      PROVE  Place(list, row) \in DOMAIN list /\ list[Place(list, row)] = row
  <2>1. \E i \in DOMAIN list : list[i] = row
    BY DEF Range
  <2> QED BY <2>1 DEF Place
<1>2. \A i \in DOMAIN list : list[i] \in Range(list)
  BY DEF Range
<1>3. ASSUME NEW i \in DOMAIN list PROVE Place(list, list[i]) = i
  BY <1>1, <1>2 DEF IsRanking, IsInjective
<1> QED BY <1>1, <1>2, <1>3 DEF IsRanking

\* What a list gives a row.
Gain(row, list) == IF row \in Range(list) THEN FusionScale \div (60 + Place(list, row)) ELSE 0

LEMMA GainIsNat ==
    ASSUME NEW list, IsRanking(list), NEW row
    PROVE  Gain(row, list) \in Nat
<1>1. row \in Range(list) => Place(list, row) \in Nat
  BY PlaceOfRow
<1> QED BY <1>1, RankingAssumption DEF Gain

\* A better place gains no less.
LEMMA GainGrows ==
    ASSUME NEW list, IsRanking(list), NEW x, NEW y,
           y \in Range(list) => x \in Range(list) /\ Place(list, x) < Place(list, y)
    PROVE  Gain(y, list) <= Gain(x, list)
<1>1. CASE y \in Range(list)
  <2> DEFINE a == 60 + Place(list, x)
             b == 60 + Place(list, y)
  <2>1. a \in Nat /\ b \in Nat /\ a > 0 /\ a <= b
    BY <1>1, PlaceOfRow
  <2>2. FusionScale \in Nat
    BY RankingAssumption
  <2> HIDE DEF a, b
  <2>3. FusionScale \div b <= FusionScale \div a
    BY ONLY <2>1, <2>2
  <2> QED BY <1>1, <2>3 DEF Gain, a, b
<1>2. CASE y \notin Range(list)
  BY <1>2, GainIsNat DEF Gain
<1> QED BY <1>1, <1>2

\* So does a row that is ahead of another in every list that has the other.
LEMMA FusedScoreGrows ==
    ASSUME NEW lists, AreLists(lists), NEW x, NEW y
    PROVE  /\ FusedScore(x, lists) \in Nat
           /\ (\A i \in DOMAIN lists : y \in Range(lists[i]) =>
                  x \in Range(lists[i]) /\ Place(lists[i], x) < Place(lists[i], y))
              => FusedScore(y, lists) <= FusedScore(x, lists)
<1> DEFINE I == 1 .. 3
           gains(row) == [i \in I |-> Gain(row, lists[i])]
<1>1. IsFiniteSet(I)
  <2>1. 1 \in Int /\ 3 \in Int
    OBVIOUS
  <2> QED BY ONLY <2>1, FS_Interval
<1>2. \A row : FusedScore(row, lists) = SumFunctionOnSet(gains(row), I)
  BY DEF FusedScore, SumFunction, AreLists, Gain
<1>3. \A i \in I : gains(x)[i] \in Nat /\ gains(y)[i] \in Nat
  BY GainIsNat DEF AreLists
<1>4. FusedScore(x, lists) \in Nat
  <2> DEFINE w == gains(x)
  <2>1. \A i \in I : w[i] \in Nat
    BY <1>3
  <2> HIDE DEF w, I
  <2>2. SumFunctionOnSet(w, I) \in Nat
    BY <1>1, <2>1, SumOverSet
  <2> QED BY <1>2, <2>2 DEF w
<1>5. ASSUME \A i \in DOMAIN lists : y \in Range(lists[i]) =>
                  x \in Range(lists[i]) /\ Place(lists[i], x) < Place(lists[i], y)
      PROVE  FusedScore(y, lists) <= FusedScore(x, lists)
  <2> DEFINE w == gains(y)
             v == gains(x)
  <2>1. \A i \in I : w[i] <= v[i]
    BY <1>5, GainGrows DEF AreLists
  <2>2. \A i \in I : w[i] \in Nat /\ v[i] \in Nat /\ w[i] <= v[i]
    BY <1>3, <2>1
  <2> HIDE DEF w, v, I
  <2>3. SumFunctionOnSet(w, I) <= SumFunctionOnSet(v, I)
    BY <1>1, <2>2, SumIsMonotone
  <2> QED BY <1>2, <2>3 DEF w, v
<1> QED BY <1>4, <1>5

\* A row is met in the first list that has it.
LEMMA FirstList ==
    ASSUME NEW lists, AreLists(lists), NEW k \in 1 .. 3, NEW row \in Range(lists[k])
    PROVE  /\ First(row, lists) \in 1 .. 3
           /\ row \in Range(lists[First(row, lists)])
           /\ \A j \in 1 .. 3 : row \in Range(lists[j]) => First(row, lists) <= j
<1> DEFINE S == {i \in 1 .. 3 : row \in Range(lists[i])}
<1>1. S \in SUBSET Nat /\ S # {}
  OBVIOUS
<1>2. PICK i \in S : \A j \in S : i <= j
  BY <1>1, LeastNatural
<1>3. \E m \in DOMAIN lists :
        /\ row \in Range(lists[m])
        /\ \A j \in DOMAIN lists : row \in Range(lists[j]) => m <= j
  BY <1>2 DEF AreLists
<1> QED BY <1>3 DEF First, AreLists

\* The rows of the lists, and the order in which the fusion puts two of them.
RowsOf(lists) == UNION {Range(lists[i]) : i \in DOMAIN lists}

FusedAhead(x, y, lists) ==
    \/ FusedScore(x, lists) > FusedScore(y, lists)
    \/ FusedScore(x, lists) = FusedScore(y, lists) /\ MetBefore(x, y, lists)

FusedPairs(lists) ==
    {pair \in RowsOf(lists) \X RowsOf(lists) : FusedAhead(pair[1], pair[2], lists)}

\* Rows are met one after the other.
LEMMA MetInOrder ==
    ASSUME NEW lists, AreLists(lists)
    PROVE  /\ \A x \in RowsOf(lists) : ~ MetBefore(x, x, lists)
           /\ \A x, y, z \in RowsOf(lists) :
                MetBefore(x, y, lists) /\ MetBefore(y, z, lists) => MetBefore(x, z, lists)
           /\ \A x, y \in RowsOf(lists) :
                x # y => MetBefore(x, y, lists) \/ MetBefore(y, x, lists)
<1> DEFINE first(x) == First(x, lists)
           place(x) == Place(lists[first(x)], x)
<1>1. ASSUME NEW x \in RowsOf(lists)
      PROVE  first(x) \in 1 .. 3 /\ place(x) \in Nat /\ lists[first(x)][place(x)] = x
  <2>1. PICK k \in 1 .. 3 : x \in Range(lists[k])
    BY DEF RowsOf, AreLists
  <2>2. first(x) \in 1 .. 3 /\ x \in Range(lists[first(x)])
    BY <2>1, FirstList
  <2> QED BY <2>2, PlaceOfRow DEF AreLists
<1>2. \A x, y : MetBefore(x, y, lists) <=>
          first(x) < first(y) \/ (first(x) = first(y) /\ place(x) < place(y))
  BY DEF MetBefore
<1> HIDE DEF first, place
<1>3. \A x, y \in RowsOf(lists) : first(x) = first(y) /\ place(x) = place(y) => x = y
  BY <1>1
<1>4. \A x \in RowsOf(lists) : first(x) \in Nat /\ place(x) \in Nat
  BY <1>1
<1>5. \A x \in RowsOf(lists) : ~ MetBefore(x, x, lists)
  BY <1>2, <1>4
<1>6. ASSUME NEW x \in RowsOf(lists), NEW y \in RowsOf(lists), NEW z \in RowsOf(lists),
             MetBefore(x, y, lists), MetBefore(y, z, lists)
      PROVE  MetBefore(x, z, lists)
  BY <1>2, <1>4, <1>6
<1>7. ASSUME NEW x \in RowsOf(lists), NEW y \in RowsOf(lists), x # y
      PROVE  MetBefore(x, y, lists) \/ MetBefore(y, x, lists)
  BY <1>2, <1>3, <1>4, <1>7
<1> QED BY <1>5, <1>6, <1>7

\* The rows found are finitely many.
LEMMA RowsOfIsFinite ==
    ASSUME NEW lists, AreLists(lists)
    PROVE  IsFiniteSet(RowsOf(lists)) /\ RowsOf(lists) \subseteq Rows
<1>1. ASSUME NEW list, IsRanking(list)
      PROVE  IsFiniteSet(Range(list)) /\ Range(list) \subseteq Rows
  <2>1. Len(list) \in Nat /\ DOMAIN list = 1 .. Len(list) /\ list \in [1 .. Len(list) -> Rows]
    BY <1>1 DEF IsRanking
  <2>2. list \in Surjection(1 .. Len(list), Range(list))
    BY <2>1 DEF Surjection, Range
  <2>3. IsFiniteSet(1 .. Len(list))
    <3>1. 1 \in Int /\ Len(list) \in Int
      BY <2>1
    <3> QED BY ONLY <3>1, FS_Interval
  <2>4. Range(list) \subseteq Rows
    BY <2>1 DEF Range
  <2> QED BY <2>2, <2>3, <2>4, FS_Surjection
<1>2. RowsOf(lists) = (Range(lists[1]) \cup Range(lists[2])) \cup Range(lists[3])
  BY DEF RowsOf, AreLists
<1>3. \A i \in 1 .. 3 : IsFiniteSet(Range(lists[i])) /\ Range(lists[i]) \subseteq Rows
  BY <1>1 DEF AreLists
<1>4. /\ IsFiniteSet(Range(lists[1])) /\ IsFiniteSet(Range(lists[2]))
      /\ IsFiniteSet(Range(lists[3]))
  BY <1>3
<1>5. IsFiniteSet((Range(lists[1]) \cup Range(lists[2])) \cup Range(lists[3]))
  BY <1>4, FS_Union
<1> QED BY <1>2, <1>3, <1>5

\* The fusion shows every row once, in its order,
LEMMA FuseSorts ==
    ASSUME NEW lists, AreLists(lists)
    PROVE  /\ IsTotalOrder(RowsOf(lists), FusedPairs(lists))
           /\ IsSortOf(Fuse(lists), RowsOf(lists), FusedPairs(lists))
           /\ \A x, y \in RowsOf(lists) :
                <<x, y>> \in FusedPairs(lists) <=> FusedAhead(x, y, lists)
<1> DEFINE rows == RowsOf(lists)
           score(x) == FusedScore(x, lists)
           met(x, y) == MetBefore(x, y, lists)
<1>1. \A x, y \in rows : <<x, y>> \in FusedPairs(lists) <=> FusedAhead(x, y, lists)
  BY DEF FusedPairs
<1>2. \A x \in rows : score(x) \in Nat
  BY FusedScoreGrows
<1>3. \A x, y : FusedAhead(x, y, lists) <=>
          score(x) > score(y) \/ (score(x) = score(y) /\ met(x, y))
  BY DEF FusedAhead
<1>4. /\ \A x \in rows : ~ met(x, x)
      /\ \A x, y, z \in rows : met(x, y) /\ met(y, z) => met(x, z)
      /\ \A x, y \in rows : x # y => met(x, y) \/ met(y, x)
  BY MetInOrder
<1>5. Fuse(lists) = InOrder(rows, FusedPairs(lists))
  BY DEF Fuse, FusedPairs, FusedAhead, RowsOf
<1> HIDE DEF rows, score, met
<1>6. \A x \in rows : ~ FusedAhead(x, x, lists)
  BY <1>2, <1>3, <1>4
<1>7. ASSUME NEW x \in rows, NEW y \in rows, NEW z \in rows,
             FusedAhead(x, y, lists), FusedAhead(y, z, lists)
      PROVE  FusedAhead(x, z, lists)
  <2>1. score(x) \in Nat /\ score(y) \in Nat /\ score(z) \in Nat
    BY <1>2
  <2>2. met(x, y) /\ met(y, z) => met(x, z)
    BY <1>4
  <2> QED BY <1>3, <1>7, <2>1, <2>2
<1>8. \A x, y \in rows : x # y => FusedAhead(x, y, lists) \/ FusedAhead(y, x, lists)
  BY <1>2, <1>3, <1>4
<1>9. IsTotalOrder(rows, FusedPairs(lists))
  BY <1>1, <1>6, <1>7, <1>8 DEF IsTotalOrder
<1>10. IsSortOf(Fuse(lists), rows, FusedPairs(lists))
  BY <1>5, <1>9, InOrderSorts, RowsOfIsFinite DEF rows
<1> QED BY <1>1, <1>9, <1>10 DEF rows

\* in which a row comes before every row that it is ahead of in each list.
LEMMA FusionAgrees ==
    ASSUME NEW lists, AreLists(lists), NEW x \in RowsOf(lists), NEW y \in RowsOf(lists),
           x # y,
           \A i \in DOMAIN lists : y \in Range(lists[i]) =>
              x \in Range(lists[i]) /\ Place(lists[i], x) < Place(lists[i], y)
    PROVE  FusedAhead(x, y, lists)
<1>1. FusedScore(x, lists) \in Nat /\ FusedScore(y, lists) \in Nat
  BY FusedScoreGrows
<1>2. FusedScore(y, lists) <= FusedScore(x, lists)
  BY FusedScoreGrows
<1>3. MetBefore(x, y, lists)
  <2> DEFINE i == First(x, lists)
             j == First(y, lists)
  <2>1. PICK k \in 1 .. 3 : x \in Range(lists[k])
    BY DEF RowsOf, AreLists
  <2>2. PICK m \in 1 .. 3 : y \in Range(lists[m])
    BY DEF RowsOf, AreLists
  <2>3. i \in 1 .. 3 /\ \A n \in 1 .. 3 : x \in Range(lists[n]) => i <= n
    BY <2>1, FirstList
  <2>4. j \in 1 .. 3 /\ y \in Range(lists[j])
    BY <2>2, FirstList
  <2>5. x \in Range(lists[j]) /\ Place(lists[j], x) < Place(lists[j], y)
    BY <2>4 DEF AreLists
  <2>6. i <= j
    BY <2>3, <2>4, <2>5
  <2> QED BY <2>3, <2>4, <2>5, <2>6 DEF MetBefore
<1> QED BY <1>1, <1>2, <1>3 DEF FusedAhead

-----------------------------------------------------------------------------
(***************************************************************************)
(* The inductive invariant                                                 *)
(***************************************************************************)
\* Scored rows, each once, the best first; rows the reranker has not seen score
\* nothing and come last, even behind rows it gave less than that.
InScoreOrder(entries) ==
    /\ entries \in Seq(Entry)
    /\ \A i, j \in DOMAIN entries : i < j =>
        /\ entries[i].row # entries[j].row
        /\ \/ entries[i].score >= entries[j].score
           \/ entries[i].score < 0 /\ entries[j].score = 0

FoundInv ==
    stage \in {"fuse", "expand"} =>
        \E lexical \in LexicalLists, vector \in VectorLists, date \in DateLists :
            found = <<lexical, vector, date>>

IInv ==
    /\ FoundInv
    /\ IsRanking(candidates)
    /\ InScoreOrder(ordered)
    /\ InScoreOrder(selected)
    /\ stage # "answer" => selected = <<>>
    /\ stage \notin {"rerank", "select", "answer"} => ordered = <<>>
    /\ FusionRespectsTheLists
    /\ SummariesSpread

\* Nothing is a ranking and in order.
LEMMA NothingIsInOrder == IsRanking(<<>>) /\ InScoreOrder(<<>>)
BY DEF IsRanking, IsInjective, InScoreOrder

LEMMA InitIInv == Init => IInv
BY NothingIsInOrder DEF Init, IInv, FoundInv, FusionRespectsTheLists, SummariesSpread

\* Some rows of a ranking are a ranking,
LEMMA ChosenIsRanking ==
    ASSUME NEW list, IsRanking(list), NEW places \in SUBSET DOMAIN list
    PROVE  IsRanking(Chosen(list, places))
<1> DEFINE n == Cardinality(places)
           s == Chosen(list, places)
<1>1. PICK at : /\ RunsThrough(at, places)
                /\ s = [i \in 1 .. n |-> list[at[i]]]
                /\ s \in Seq(Rows)
                /\ Len(s) = n
  BY ChosenInOrder DEF IsRanking
<1> HIDE DEF n, s
<1>2. at \in [1 .. n -> places] /\ \A i, j \in 1 .. n : at[i] = at[j] => i = j
  BY <1>1 DEF RunsThrough, n
<1>3. ASSUME NEW i \in 1 .. n, NEW j \in 1 .. n, s[i] = s[j] PROVE i = j
  <2>1. list[at[i]] = list[at[j]] /\ at[i] \in DOMAIN list /\ at[j] \in DOMAIN list
    BY <1>1, <1>2, <1>3
  <2> QED BY <1>2, <2>1 DEF IsRanking, IsInjective
<1> QED BY <1>1, <1>3 DEF IsRanking, IsInjective, s

\* and some entries of an ordered list are in order.
LEMMA ChosenIsInScoreOrder ==
    ASSUME NEW list, InScoreOrder(list), NEW places \in SUBSET DOMAIN list
    PROVE  InScoreOrder(Chosen(list, places))
<1> DEFINE n == Cardinality(places)
           s == Chosen(list, places)
<1>1. PICK at : /\ RunsThrough(at, places)
                /\ s = [i \in 1 .. n |-> list[at[i]]]
                /\ s \in Seq(Entry)
                /\ Len(s) = n
  BY ChosenInOrder DEF InScoreOrder
<1> HIDE DEF n, s
<1>2. at \in [1 .. n -> places] /\ \A i, j \in 1 .. n : i < j => at[i] < at[j]
  BY <1>1 DEF RunsThrough, n
<1>3. \A i \in 1 .. n : s[i] = list[at[i]] /\ at[i] \in DOMAIN list
  BY <1>1, <1>2
<1>4. DOMAIN s = 1 .. n
  BY <1>1
<1> QED BY <1>1, <1>2, <1>3, <1>4 DEF InScoreOrder, s

\* The sort leaves every row where it is found once.
LEMMA SortedIsInScoreOrder ==
    ASSUME NEW entries \in Seq(Entry), NEW key \in [Rows -> Nat],
           \A i, j \in DOMAIN entries : entries[i].row = entries[j].row => i = j
    PROVE  LET s == Sorted(entries, key)
           IN  /\ s \in Seq(Entry) /\ Len(s) = Len(entries)
               /\ InScoreOrder(s)
               /\ \A i, j \in DOMAIN s : i < j => s[i].score >= s[j].score
               /\ \A i \in DOMAIN s : \E j \in DOMAIN entries : s[i].row = entries[j].row
<1> DEFINE n == Len(entries)
           s == Sorted(entries, key)
<1>1. /\ s \in Seq(Entry) /\ Len(s) = n
      /\ \A i, j \in 1 .. n : i < j => s[i].score >= s[j].score
      /\ \E at \in [1 .. n -> 1 .. n] :
            /\ \A i, j \in 1 .. n : at[i] = at[j] => i = j
            /\ \A i \in 1 .. n : s[i] = entries[at[i]]
  BY SortedInOrder
<1>2. PICK at \in [1 .. n -> 1 .. n] :
        /\ \A i, j \in 1 .. n : at[i] = at[j] => i = j
        /\ \A i \in 1 .. n : s[i] = entries[at[i]]
  BY <1>1
<1> HIDE DEF s
<1>3. n \in Nat /\ DOMAIN s = 1 .. n /\ DOMAIN entries = 1 .. n
  BY <1>1
<1>4. ASSUME NEW i \in 1 .. n, NEW j \in 1 .. n, i < j PROVE s[i].row # s[j].row
  <2>1. i # j
    BY <1>3, <1>4
  <2> HIDE DEF n
  <2>2. at[i] \in 1 .. n /\ at[j] \in 1 .. n /\ at[i] # at[j]
    BY <1>2, <2>1
  <2>3. entries[at[i]].row # entries[at[j]].row
    BY <1>3, <2>2
  <2> QED BY <1>2, <2>3
<1>5. \A i \in 1 .. n : at[i] \in DOMAIN entries /\ s[i].row = entries[at[i]].row
  BY <1>2, <1>3
<1>6. InScoreOrder(s)
  BY <1>1, <1>3, <1>4 DEF InScoreOrder
<1> QED BY <1>1, <1>3, <1>5, <1>6 DEF s

-----------------------------------------------------------------------------
(***************************************************************************)
(* The steps of a search                                                   *)
(***************************************************************************)
\* What the retrieval found is three rankings.
LEMMA FoundIsLists ==
    ASSUME FoundInv, stage \in {"fuse", "expand"}
    PROVE  AreLists(found)
<1>1. PICK lexical \in LexicalLists, vector \in VectorLists, date \in DateLists :
        found = <<lexical, vector, date>>
  BY DEF FoundInv
<1>2. IsRanking(lexical) /\ IsRanking(vector) /\ IsRanking(date)
  BY RankingAssumption DEF Lists
<1> QED BY <1>1, <1>2 DEF AreLists

\* The fusion and the filter keep the order of the lists.
LEMMA FuseAndFilterPreserves ==
    ASSUME IInv, FuseAndFilter
    PROVE  IInv'
<1> DEFINE fused == Fuse(found)
           rows == RowsOf(found)
           m == Cardinality(rows)
<1>1. AreLists(found)
  BY FoundIsLists DEF IInv, FuseAndFilter
<1>2. PICK places \in SUBSET DOMAIN fused : candidates' = Chosen(fused, places)
  BY DEF FuseAndFilter
<1>3. /\ IsTotalOrder(rows, FusedPairs(found))
      /\ IsSortOf(fused, rows, FusedPairs(found))
      /\ \A x, y \in rows : <<x, y>> \in FusedPairs(found) <=> FusedAhead(x, y, found)
  BY <1>1, FuseSorts
<1> HIDE DEF fused, rows
<1>4. /\ m \in Nat /\ fused \in [1 .. m -> rows] /\ DOMAIN fused = 1 .. m
      /\ \A i, j \in 1 .. m : i < j => <<fused[i], fused[j]>> \in FusedPairs(found)
      /\ \A i, j \in 1 .. m : fused[i] = fused[j] => i = j
  BY <1>3 DEF IsSortOf
<1>5. IsRanking(fused)
  <2>1. rows \subseteq Rows
    BY <1>1, RowsOfIsFinite DEF rows
  <2>2. fused \in Seq(Rows)
    BY <1>4, <2>1
  <2> QED BY <1>4, <2>2 DEF IsRanking, IsInjective
<1>6. IsRanking(candidates')
  BY <1>2, <1>5, ChosenIsRanking
<1>7. PICK at : /\ RunsThrough(at, places)
                /\ candidates' = [i \in 1 .. Cardinality(places) |-> fused[at[i]]]
  BY <1>2, <1>5, ChosenInOrder DEF IsRanking
<1>8. UNCHANGED found
  BY DEF FuseAndFilter
<1>9. ASSUME NEW x \in Range(candidates'), NEW y \in Range(candidates'), x # y,
             \A i \in DOMAIN found : y \in Range(found[i]) =>
                x \in Range(found[i]) /\ Place(found[i], x) < Place(found[i], y)
      PROVE  Place(candidates', x) < Place(candidates', y)
  <2> DEFINE n == Cardinality(places)
             i == Place(candidates', x)
             j == Place(candidates', y)
  <2>1. /\ n \in Nat /\ at \in [1 .. n -> places]
        /\ \A k, l \in 1 .. n : k < l => at[k] < at[l]
    BY <1>7 DEF RunsThrough
  <2>2. DOMAIN candidates' = 1 .. n
    BY <1>7
  <2> HIDE DEF n
  <2>3. i \in 1 .. n /\ j \in 1 .. n /\ candidates'[i] = x /\ candidates'[j] = y
    BY <1>6, <2>2, PlaceOfRow
  <2> HIDE DEF i, j
  <2>4. /\ fused[at[i]] = x /\ fused[at[j]] = y
        /\ at[i] \in 1 .. m /\ at[j] \in 1 .. m
    BY <1>4, <1>7, <2>1, <2>3 DEF n
  <2>5. x \in rows /\ y \in rows
    BY <1>4, <2>4
  <2>6. FusedAhead(x, y, found)
    BY <1>1, <1>9, <2>5, FusionAgrees DEF rows
  <2>7. <<x, y>> \in FusedPairs(found) /\ <<y, x>> \notin FusedPairs(found)
    BY <1>3, <2>5, <2>6 DEF IsTotalOrder
  <2>8. ~ (j < i)
    <3> SUFFICES ASSUME j < i PROVE FALSE
      OBVIOUS
    <3>1. at[j] < at[i]
      BY <2>1, <2>3
    <3>2. <<fused[at[j]], fused[at[i]]>> \in FusedPairs(found)
      BY <1>4, <2>4, <3>1
    <3> QED BY <2>4, <2>7, <3>2
  <2>9. i # j
    BY <1>9, <2>3
  <2>10. i < j
    BY <2>1, <2>3, <2>8, <2>9
  <2> QED BY <2>10 DEF i, j
<1>10. FusionRespectsTheLists'
  BY <1>8, <1>9 DEF FusionRespectsTheLists
<1>11. UNCHANGED <<ordered, selected>> /\ stage = "fuse" /\ selected = <<>> /\ ordered = <<>>
  BY DEF FuseAndFilter, IInv
<1>12. FoundInv'
  BY <1>8, <1>11 DEF FoundInv, IInv
<1>13. SummariesSpread'
  BY <1>11 DEF SummariesSpread
<1> QED BY <1>6, <1>10, <1>11, <1>12, <1>13 DEF IInv

\* A retrieval begins.
LEMMA RetrievePreserves ==
    ASSUME IInv, Retrieve
    PROVE  IInv'
<1>1. /\ UNCHANGED <<candidates, ordered, selected>>
      /\ stage = "retrieve" /\ stage' = "fuse" /\ selected = <<>>
  BY DEF Retrieve, IInv
<1>2. FoundInv'
  BY DEF Retrieve, FoundInv
<1>3. FusionRespectsTheLists' /\ SummariesSpread'
  BY <1>1 DEF FusionRespectsTheLists, SummariesSpread
<1> QED BY <1>1, <1>2, <1>3 DEF IInv

\* Neighbours are rows that were not found, each once.
LEMMA ExpandPreserves ==
    ASSUME IInv, Expand
    PROVE  IInv'
<1>1. PICK near \in SUBSET (Rows \ Range(candidates)) : \E joining \in SetToSeqs(near) :
        candidates' = candidates \o joining
  BY DEF Expand
<1>2. PICK joining \in SetToSeqs(near) : candidates' = candidates \o joining
  BY <1>1
<1> DEFINE n == Len(candidates)
           m == Cardinality(near)
           whole == candidates \o joining
<1>3. m \in Nat
  BY RankingAssumption, FS_Subset, FS_CardinalityType
<1>4. joining \in [1 .. m -> near] /\ \A i, j \in 1 .. m : i # j => joining[i] # joining[j]
  BY DEF SetToSeqs
<1>5. candidates \in Seq(Rows) /\ n \in Nat /\ \A i, j \in 1 .. n : candidates[i] = candidates[j] => i = j
  BY DEF IInv, IsRanking, IsInjective
<1> HIDE DEF m
<1>6. joining \in Seq(Rows) /\ Len(joining) = m
  BY <1>3, <1>4
<1>7. whole \in Seq(Rows) /\ Len(whole) = n + m
  BY <1>5, <1>6
<1>8. \A i \in 1 .. n + m :
        whole[i] = IF i <= n THEN candidates[i] ELSE joining[i - n]
  BY <1>5, <1>6
<1> HIDE DEF whole
<1>9. \A i \in 1 .. n : candidates[i] \in Range(candidates)
  BY <1>5 DEF Range
<1>10. ASSUME NEW i \in 1 .. n + m, NEW j \in 1 .. n + m, i < j,
              whole[i] = whole[j]
       PROVE  FALSE
  <2>1. CASE j <= n
    BY <1>3, <1>5, <1>8, <1>10, <2>1
  <2>2. CASE i <= n /\ j > n
    <3>1. j - n \in 1 .. m
      BY <1>3, <1>5, <2>2
    <3>2. candidates[i] \in Range(candidates) /\ joining[j - n] \notin Range(candidates)
      BY <1>4, <1>9, <2>2, <3>1
    <3> QED BY <1>8, <1>10, <2>2, <3>2
  <2>3. CASE i > n /\ j > n
    <3>1. i - n \in 1 .. m /\ j - n \in 1 .. m /\ i - n # j - n
      BY <1>3, <1>5, <1>10, <2>3
    <3> QED BY <1>4, <1>8, <1>10, <2>3, <3>1
  <2> QED BY <1>5, <1>10, <2>1, <2>2, <2>3
<1>11. IsRanking(candidates')
  <2>1. \A i, j \in 1 .. n + m : candidates'[i] = candidates'[j] => i = j
    <3>1. \A i, j \in 1 .. n + m : ~ (i < j /\ whole[i] = whole[j])
      BY <1>10
    <3>2. n + m \in Nat
      BY <1>3, <1>5
    <3>3. candidates' = whole
      BY <1>2 DEF whole
    <3> QED BY <3>1, <3>2, <3>3
  <2>2. candidates' \in Seq(Rows) /\ DOMAIN candidates' = 1 .. n + m
    BY <1>2, <1>7 DEF whole
  <2> QED BY <2>1, <2>2 DEF IsRanking, IsInjective
<1>12. stage' = "suppress" /\ stage = "expand" /\ UNCHANGED <<ordered, selected>> /\ selected = <<>>
  BY DEF Expand, IInv
<1>13. FoundInv' /\ FusionRespectsTheLists' /\ SummariesSpread'
  BY <1>12 DEF FoundInv, FusionRespectsTheLists, SummariesSpread
<1> QED BY <1>11, <1>12, <1>13 DEF IInv

\* What is not superseded stays where it is.
LEMMA SuppressPreserves ==
    ASSUME IInv, Suppress
    PROVE  IInv'
<1>1. PICK places \in SUBSET DOMAIN candidates : candidates' = Chosen(candidates, places)
  BY DEF Suppress
<1>2. IsRanking(candidates')
  BY <1>1, ChosenIsRanking DEF IInv
<1>3. stage' = "rank" /\ stage = "suppress" /\ UNCHANGED <<ordered, selected>> /\ selected = <<>>
  BY DEF Suppress, IInv
<1>4. FoundInv' /\ FusionRespectsTheLists' /\ SummariesSpread'
  BY <1>3 DEF FoundInv, FusionRespectsTheLists, SummariesSpread
<1> QED BY <1>2, <1>3, <1>4 DEF IInv

\* The rules score every candidate.
LEMMA RankPreserves ==
    ASSUME IInv, Rank
    PROVE  IInv'
<1>1. PICK score \in [Range(candidates) -> RuleScores] :
        ordered' = Sorted([i \in DOMAIN candidates |->
                              [score |-> score[candidates[i]], row |-> candidates[i]]],
                          OccurredOf)
  BY DEF Rank
<1> DEFINE entries == [i \in DOMAIN candidates |->
                          [score |-> score[candidates[i]], row |-> candidates[i]]]
           n == Len(candidates)
<1>2. /\ candidates \in Seq(Rows) /\ n \in Nat /\ DOMAIN candidates = 1 .. n
      /\ \A i, j \in 1 .. n : candidates[i] = candidates[j] => i = j
  BY DEF IInv, IsRanking, IsInjective
<1>3. ASSUME NEW i \in 1 .. n
      PROVE  score[candidates[i]] \in Int /\ candidates[i] \in Rows
  <2>1. candidates[i] \in Range(candidates)
    BY <1>2 DEF Range
  <2>2. RuleScores \subseteq Int
    BY RankingAssumption
  <2>3. score[candidates[i]] \in RuleScores
    BY <2>1
  <2>4. candidates[i] \in Rows
    BY <1>2
  <2> QED BY <2>2, <2>3, <2>4
<1>4. entries \in Seq(Entry) /\ DOMAIN entries = 1 .. n
  <2>1. \A i \in 1 .. n : [score |-> score[candidates[i]], row |-> candidates[i]] \in Entry
    BY <1>3 DEF Entry
  <2>2. entries \in [1 .. n -> Entry]
    BY <1>2, <2>1
  <2> HIDE DEF entries
  <2> QED BY <1>2, <2>2
<1>5. \A i, j \in DOMAIN entries : entries[i].row = entries[j].row => i = j
  BY <1>2
<1>6. OccurredOf \in [Rows -> Nat]
  BY RankingAssumption
<1> HIDE DEF entries
<1>7. InScoreOrder(Sorted(entries, OccurredOf))
  BY <1>4, <1>5, <1>6, SortedIsInScoreOrder
<1>8. InScoreOrder(ordered')
  BY <1>1, <1>7 DEF entries
<1>9. /\ stage' = "rerank" /\ stage = "rank" /\ candidates' = <<>>
      /\ UNCHANGED selected /\ selected = <<>>
  BY DEF Rank, IInv
<1>10. FoundInv' /\ FusionRespectsTheLists' /\ SummariesSpread'
  BY <1>9 DEF FoundInv, FusionRespectsTheLists, SummariesSpread
<1> QED BY <1>8, <1>9, <1>10, NothingIsInOrder DEF IInv

\* What was reranked is in order and what was not comes behind it.
LEMMA RerankedInOrder ==
    ASSUME InScoreOrder(ordered), NEW pool \in Nat, pool <= Len(ordered),
           NEW answer \in [1 .. pool -> RerankScores]
    PROVE  InScoreOrder(Reranked(pool, answer))
<1> DEFINE n == Len(ordered)
           scored == [i \in 1 .. pool |-> [ordered[i] EXCEPT !.score = answer[i]]]
           key == [row \in Rows |-> 0]
           head == Sorted(scored, key)
           rest == SubSeq(ordered, pool + 1, n)
           tail == [i \in DOMAIN rest |-> [rest[i] EXCEPT !.score = 0]]
           whole == head \o tail
<1>1. /\ n \in Nat /\ DOMAIN ordered = 1 .. n /\ ordered \in Seq(Entry)
      /\ \A i \in 1 .. n : ordered[i] \in Entry
      /\ \A i, j \in 1 .. n : i < j => ordered[i].row # ordered[j].row
  BY DEF InScoreOrder
<1>2. ASSUME NEW entry \in Entry, NEW v \in Int
      PROVE  /\ [entry EXCEPT !.score = v] \in Entry
             /\ [entry EXCEPT !.score = v].score = v
             /\ [entry EXCEPT !.score = v].row = entry.row
  BY DEF Entry
<1>3. \A i \in 1 .. pool : answer[i] \in Int /\ i \in 1 .. n
  <2>1. RerankScores \subseteq Int
    BY RankingAssumption
  <2>2. \A i \in 1 .. pool : answer[i] \in RerankScores
    OBVIOUS
  <2>3. \A i \in 1 .. pool : i \in 1 .. n
    BY <1>1
  <2> QED BY <2>1, <2>2, <2>3
<1>4. /\ scored \in Seq(Entry) /\ DOMAIN scored = 1 .. pool
      /\ \A i \in 1 .. pool : scored[i].row = ordered[i].row
  <2>1. \A i \in 1 .. pool : scored[i] \in Entry /\ scored[i].row = ordered[i].row
    BY <1>1, <1>2, <1>3
  <2>2. scored \in [1 .. pool -> Entry]
    BY <2>1
  <2> HIDE DEF scored
  <2> QED BY <2>1, <2>2
<1>5. DOMAIN rest = 1 .. n - pool /\ \A i \in 1 .. n - pool : rest[i] = ordered[pool + i]
  <2>1. pool + 1 \in 1 .. n + 1 /\ n \in 0 .. n
    BY <1>1
  <2> QED BY <1>1, <2>1
<1> HIDE DEF rest
<1>6. /\ tail \in Seq(Entry) /\ Len(tail) = n - pool
      /\ \A i \in 1 .. n - pool : tail[i].score = 0 /\ tail[i].row = ordered[pool + i].row
  <2>1. \A i \in 1 .. n - pool : pool + i \in 1 .. n
    BY <1>1
  <2>2. ASSUME NEW i \in 1 .. n - pool
        PROVE  tail[i] \in Entry /\ tail[i].score = 0 /\ tail[i].row = ordered[pool + i].row
    <3> DEFINE entry == ordered[pool + i]
    <3>1. tail[i] = [entry EXCEPT !.score = 0]
      BY <1>5
    <3>2. entry \in Entry /\ 0 \in Int
      BY <1>1, <2>1
    <3> HIDE DEF entry, tail
    <3>3. /\ [entry EXCEPT !.score = 0] \in Entry
          /\ [entry EXCEPT !.score = 0].score = 0
          /\ [entry EXCEPT !.score = 0].row = entry.row
      BY <1>2, <3>2
    <3> QED BY <3>1, <3>3 DEF entry
  <2>3. tail \in [1 .. n - pool -> Entry] /\ n - pool \in Nat
    BY <1>1, <1>5, <2>2
  <2> HIDE DEF tail
  <2> QED BY <2>2, <2>3
<1> HIDE DEF tail, scored
<1>7. key \in [Rows -> Nat]
  OBVIOUS
<1> HIDE DEF key
<1>8. /\ head \in Seq(Entry) /\ Len(head) = pool
      /\ InScoreOrder(head)
      /\ \A i \in 1 .. pool : \E j \in 1 .. pool : head[i].row = ordered[j].row
  <2>1. \A i, j \in DOMAIN scored : scored[i].row = scored[j].row => i = j
    <3>1. \A i, j \in 1 .. pool : ordered[i].row = ordered[j].row => i = j
      BY <1>1
    <3> QED BY <1>4, <3>1
  <2>2. /\ head \in Seq(Entry) /\ Len(head) = Len(scored) /\ InScoreOrder(head)
        /\ \A i \in DOMAIN head : \E j \in DOMAIN scored : head[i].row = scored[j].row
    BY <1>4, <1>7, <2>1, SortedIsInScoreOrder
  <2>3. Len(scored) = pool
    BY <1>4
  <2> HIDE DEF head
  <2>4. DOMAIN head = 1 .. pool
    BY <2>2, <2>3
  <2>5. ASSUME NEW i \in 1 .. pool PROVE \E j \in 1 .. pool : head[i].row = ordered[j].row
    <3>1. PICK j \in DOMAIN scored : head[i].row = scored[j].row
      BY <2>2, <2>4
    <3> QED BY <1>4, <3>1
  <2> QED BY <2>2, <2>3, <2>5
<1> HIDE DEF head
<1>9. whole \in Seq(Entry) /\ DOMAIN whole = 1 .. n
  <2>1. head \in Seq(Entry) /\ tail \in Seq(Entry) /\ Len(head) = pool /\ Len(tail) = n - pool
    BY <1>6, <1>8
  <2>2. whole \in Seq(Entry) /\ Len(whole) = pool + (n - pool)
    BY <2>1
  <2> HIDE DEF whole
  <2> QED BY <1>1, <2>2
<1>10. \A i \in 1 .. n : whole[i] = IF i <= pool THEN head[i] ELSE tail[i - pool]
  <2>1. head \in Seq(Entry) /\ tail \in Seq(Entry) /\ Len(head) = pool /\ Len(tail) = n - pool
    BY <1>6, <1>8
  <2> QED BY <1>1, <2>1
<1>11. \A i \in 1 .. pool : head[i].score \in Int
  <2>1. \A i \in 1 .. pool : head[i] \in Entry
    BY <1>8
  <2> QED BY <2>1 DEF Entry
<1>12. Reranked(pool, answer) = whole
  BY DEF Reranked, head, tail, rest, scored, key
<1> HIDE DEF whole
<1>13. ASSUME NEW i \in 1 .. n, NEW j \in 1 .. n, i < j
       PROVE  /\ whole[i].row # whole[j].row
              /\ \/ whole[i].score >= whole[j].score
                 \/ whole[i].score < 0 /\ whole[j].score = 0
  <2>1. CASE j <= pool
    <3>1. DOMAIN head = 1 .. pool /\ i \in 1 .. pool /\ j \in 1 .. pool
      BY <1>8, <1>13, <2>1
    <3>2. \A k, l \in DOMAIN head : k < l =>
            /\ head[k].row # head[l].row
            /\ \/ head[k].score >= head[l].score
               \/ head[k].score < 0 /\ head[l].score = 0
      BY <1>8 DEF InScoreOrder
    <3>3. whole[i] = head[i] /\ whole[j] = head[j]
      BY <1>10, <3>1
    <3> QED BY <1>13, <3>1, <3>2, <3>3
  <2>2. CASE i <= pool /\ j > pool
    <3>1. j - pool \in 1 .. n - pool /\ i \in 1 .. pool /\ pool + (j - pool) = j
      BY <1>1, <2>2
    <3>2. whole[i] = head[i] /\ whole[j] = tail[j - pool]
      BY <1>10, <2>2
    <3>3. PICK k \in 1 .. pool : head[i].row = ordered[k].row
      BY <1>8, <3>1
    <3>4. tail[j - pool].row = ordered[j].row /\ tail[j - pool].score = 0
      BY <1>6, <3>1
    <3>5. ordered[k].row # ordered[j].row
      BY <1>1, <1>3, <2>2
    <3> QED BY <1>11, <3>1, <3>2, <3>3, <3>4, <3>5
  <2>3. CASE i > pool /\ j > pool
    <3>1. /\ i - pool \in 1 .. n - pool /\ j - pool \in 1 .. n - pool
          /\ pool + (i - pool) = i /\ pool + (j - pool) = j
      BY <1>1, <2>3
    <3>2. whole[i] = tail[i - pool] /\ whole[j] = tail[j - pool]
      BY <1>10, <2>3
    <3>3. /\ whole[i].row = ordered[i].row /\ whole[i].score = 0
          /\ whole[j].row = ordered[j].row /\ whole[j].score = 0
      BY <1>6, <3>1, <3>2
    <3> QED BY <1>1, <1>13, <3>3
  <2> QED BY <1>1, <1>13, <2>1, <2>2, <2>3
<1> QED BY <1>9, <1>12, <1>13 DEF InScoreOrder

\* The model scores the rows anew.
LEMMA RerankPreserves ==
    ASSUME IInv, Rerank
    PROVE  IInv'
<1>1. PICK pool \in {Len(ordered), IF Len(ordered) < RerankLimit THEN Len(ordered) ELSE RerankLimit} :
        \E answered \in SUBSET (1 .. pool) : \E answer \in [answered -> RerankScores] :
            ordered' = IF answered = 1 .. pool THEN Reranked(pool, answer) ELSE ordered
  BY DEF Rerank
<1>2. PICK answered \in SUBSET (1 .. pool) : \E answer \in [answered -> RerankScores] :
            ordered' = IF answered = 1 .. pool THEN Reranked(pool, answer) ELSE ordered
  BY <1>1
<1>3. PICK answer \in [answered -> RerankScores] :
            ordered' = IF answered = 1 .. pool THEN Reranked(pool, answer) ELSE ordered
  BY <1>2
<1>4. InScoreOrder(ordered) /\ Len(ordered) \in Nat
  BY DEF IInv, InScoreOrder
<1>5. pool \in Nat /\ pool <= Len(ordered)
  BY <1>1, <1>4, RankingAssumption
<1>6. InScoreOrder(ordered')
  <2>1. CASE answered = 1 .. pool
    BY <1>3, <1>4, <1>5, <2>1, RerankedInOrder
  <2> QED BY <1>3, <1>4, <2>1
<1>7. /\ stage' = "select" /\ stage = "rerank"
      /\ UNCHANGED <<candidates, selected>> /\ selected = <<>>
  BY DEF Rerank, IInv
<1>8. FoundInv' /\ FusionRespectsTheLists' /\ SummariesSpread'
  BY <1>7 DEF FoundInv, FusionRespectsTheLists, SummariesSpread
<1> QED BY <1>6, <1>7, <1>8 DEF IInv

\* The search is over.
LEMMA AnswerPreserves ==
    ASSUME IInv, Answer
    PROVE  IInv'
BY NothingIsInOrder
   DEF Answer, IInv, FoundInv, FusionRespectsTheLists, SummariesSpread

-----------------------------------------------------------------------------
(***************************************************************************)
(* The choice of the evidence                                              *)
(***************************************************************************)
\* The sessions of the entries at some places.
SessionsAt(places) == {SessionAt(i) : i \in places}

PlainSessions(list, n) == Sessions({list[i] : i \in 1 .. n})

ComparableSessions(list, n) ==
    Sessions({entry \in ToSet(list) :
                 IsComparable(entry.score, list[n].score) \/ entry = list[1]})

NoneNegative(list) == \A entry \in ToSet(list) : entry.score >= 0

\* What SummariesSpread says of evidence that was chosen from a list, up to a limit.
Spread(list, evidence, asked, limit) ==
    LET n == IF Len(list) < limit THEN Len(list) ELSE limit
        shown == Sessions(ToSet(evidence))
    IN  /\ Len(evidence) = n
        /\ evidence[1] = list[1]
        /\ asked = "summary" => Cardinality(shown) = n \/ ComparableSessions(list, n) \subseteq shown
        /\ NoneNegative(list) => Cardinality(shown) >= Cardinality(PlainSessions(list, n))

\* What evidence from some places shows.
LEMMA ShownSessions ==
    ASSUME ordered \in Seq(Entry), NEW places \in SUBSET DOMAIN ordered
    PROVE  /\ Len(Chosen(ordered, places)) = Cardinality(places)
           /\ Sessions(ToSet(Chosen(ordered, places))) = SessionsAt(places)
           /\ 1 \in places => Chosen(ordered, places)[1] = ordered[1]
           /\ IsFiniteSet(places) /\ Cardinality(places) \in Nat
<1> DEFINE s == Chosen(ordered, places)
           n == Cardinality(places)
<1>1. PICK at : /\ RunsThrough(at, places)
                /\ s = [i \in 1 .. n |-> ordered[at[i]]]
                /\ s \in Seq(Entry)
                /\ Len(s) = n
  BY ChosenInOrder
<1>2. /\ n \in Nat /\ at \in [1 .. n -> places]
      /\ \A i, j \in 1 .. n : i < j => at[i] < at[j]
      /\ \A x \in places : \E i \in 1 .. n : at[i] = x
  BY <1>1 DEF RunsThrough
<1> HIDE DEF n, s
<1>3. DOMAIN s = 1 .. n /\ \A i \in 1 .. n : s[i] = ordered[at[i]] /\ at[i] \in places
  BY <1>1, <1>2
<1>4. ASSUME NEW x \in Sessions(ToSet(s)) PROVE x \in SessionsAt(places)
  <2>1. PICK i \in 1 .. n : x = SessionOf[s[i].row]
    BY <1>3 DEF Sessions, ToSet
  <2>2. x = SessionAt(at[i])
    BY <1>3, <2>1 DEF SessionAt
  <2> QED BY <1>3, <2>2 DEF SessionsAt
<1>5. ASSUME NEW x \in SessionsAt(places) PROVE x \in Sessions(ToSet(s))
  <2>1. PICK j \in places : x = SessionAt(j)
    BY DEF SessionsAt
  <2>2. PICK i \in 1 .. n : at[i] = j
    BY <1>2
  <2>3. x = SessionOf[s[i].row] /\ s[i] \in ToSet(s)
    BY <1>3, <2>1, <2>2 DEF SessionAt, ToSet
  <2> QED BY <2>3 DEF Sessions
<1>6. ASSUME 1 \in places PROVE s[1] = ordered[1]
  <2>1. PICK i \in 1 .. n : at[i] = 1
    BY <1>2, <1>6
  <2>2. 1 \in 1 .. n /\ at[1] \in 1 .. Len(ordered)
    BY <1>2, <2>1
  <2>3. ~ (1 < i)
    <3>1. 1 < i => at[1] < at[i]
      BY <1>2, <2>2
    <3> QED BY <2>1, <2>2, <3>1
  <2>4. i = 1
    BY <1>2, <2>3
  <2> QED BY <1>3, <2>1, <2>2, <2>4
<1>7. IsFiniteSet(places)
  <2>1. 1 \in Int /\ Len(ordered) \in Int
    OBVIOUS
  <2>2. IsFiniteSet(1 .. Len(ordered))
    BY ONLY <2>1, FS_Interval
  <2>3. DOMAIN ordered = 1 .. Len(ordered)
    OBVIOUS
  <2> QED BY <2>2, <2>3, FS_Subset
<1> QED BY <1>1, <1>2, <1>4, <1>5, <1>6, <1>7 DEF s, n

\* There are no more sessions than places, and as many if no two places share one.
LEMMA SessionsCounted ==
    ASSUME NEW places, IsFiniteSet(places)
    PROVE  /\ IsFiniteSet(SessionsAt(places))
           /\ Cardinality(SessionsAt(places)) \in Nat /\ Cardinality(places) \in Nat
           /\ Cardinality(SessionsAt(places)) <= Cardinality(places)
           /\ (\A i, j \in places : SessionAt(i) = SessionAt(j) => i = j)
                => Cardinality(SessionsAt(places)) = Cardinality(places)
<1> DEFINE f == [i \in places |-> SessionAt(i)]
<1>1. f \in Surjection(places, SessionsAt(places))
  BY DEF Surjection, SessionsAt
<1>2. ASSUME \A i, j \in places : SessionAt(i) = SessionAt(j) => i = j
      PROVE  f \in Injection(places, SessionsAt(places))
  BY <1>1, <1>2 DEF Injection, Surjection, IsInjective
<1> HIDE DEF f
<1>3. /\ IsFiniteSet(SessionsAt(places))
      /\ Cardinality(SessionsAt(places)) <= Cardinality(places)
      /\ Cardinality(SessionsAt(places)) = Cardinality(places)
            <=> f \in Injection(places, SessionsAt(places))
  BY <1>1, FS_Surjection
<1> QED BY <1>2, <1>3, FS_CardinalityType

\* Among more places there are no fewer sessions.
LEMMA SessionsGrow ==
    ASSUME NEW more, IsFiniteSet(more), NEW few, SessionsAt(few) \subseteq SessionsAt(more)
    PROVE  Cardinality(SessionsAt(few)) <= Cardinality(SessionsAt(more))
BY SessionsCounted, FS_Subset

\* The sessions of a plain selection, and those comparable to its last row.
LEMMA OtherSessions ==
    ASSUME ordered \in Seq(Entry), NEW n \in 1 .. Len(ordered)
    PROVE  /\ PlainSessions(ordered, n) = SessionsAt(1 .. n)
           /\ \A x \in ComparableSessions(ordered, n) : \E i \in DOMAIN ordered :
                /\ x = SessionAt(i)
                /\ IsComparable(ordered[i].score, ordered[n].score) \/ ordered[i] = ordered[1]
<1>1. PlainSessions(ordered, n) = SessionsAt(1 .. n)
  BY DEF PlainSessions, Sessions, SessionsAt, SessionAt
<1>2. ASSUME NEW x \in ComparableSessions(ordered, n)
      PROVE  \E i \in DOMAIN ordered :
                /\ x = SessionAt(i)
                /\ IsComparable(ordered[i].score, ordered[n].score) \/ ordered[i] = ordered[1]
  <2>1. PICK entry \in ToSet(ordered) :
            /\ x = SessionOf[entry.row]
            /\ IsComparable(entry.score, ordered[n].score) \/ entry = ordered[1]
    BY DEF ComparableSessions, Sessions
  <2>2. PICK i \in DOMAIN ordered : entry = ordered[i]
    BY DEF ToSet
  <2> QED BY <2>1, <2>2 DEF SessionAt
<1> QED BY <1>1, <1>2

\* The best rows are evidence that spreads as far as is asked.
LEMMA PlainSpreads ==
    ASSUME InScoreOrder(ordered), ordered # <<>>, NEW limit \in Limits,
           limit = 1 \/ Len(ordered) <= limit \/ asks # "summary"
    PROVE  Spread(ordered, Chosen(ordered, {i \in DOMAIN ordered : i <= limit}), asks, limit)
<1> DEFINE len == Len(ordered)
           n == IF len < limit THEN len ELSE limit
           places == {i \in DOMAIN ordered : i <= limit}
           evidence == Chosen(ordered, places)
<1>1. ordered \in Seq(Entry) /\ len \in Nat /\ DOMAIN ordered = 1 .. len /\ len > 0
  BY DEF InScoreOrder
<1>2. limit \in Nat /\ limit > 0
  BY RankingAssumption
<1> HIDE DEF len
<1>3. /\ n \in 1 .. len /\ places = 1 .. n /\ 1 \in places
      /\ n = len \/ n = limit
      /\ len <= limit => n = len
      /\ limit = 1 => n = 1
  BY <1>1, <1>2
<1>4. IsFiniteSet(1 .. n) /\ Cardinality(1 .. n) = n
  <2>1. 1 \in Int /\ n \in Int /\ n >= 1
    BY <1>1, <1>3
  <2> HIDE DEF n
  <2>2. IsFiniteSet(1 .. n) /\ Cardinality(1 .. n) = IF 1 > n THEN 0 ELSE n - 1 + 1
    BY ONLY <2>1, FS_Interval
  <2> QED BY <2>1, <2>2
<1> HIDE DEF n, places
<1>5. /\ Len(evidence) = n
      /\ Sessions(ToSet(evidence)) = SessionsAt(1 .. n)
      /\ evidence[1] = ordered[1]
  <2>1. places \in SUBSET DOMAIN ordered /\ 1 \in places
    BY <1>1, <1>3 DEF places
  <2>2. /\ Len(evidence) = Cardinality(places)
        /\ Sessions(ToSet(evidence)) = SessionsAt(places)
        /\ evidence[1] = ordered[1]
    BY <1>1, <2>1, ShownSessions
  <2> QED BY <1>3, <1>4, <2>2
<1> HIDE DEF evidence
<1>6. Cardinality(SessionsAt(1 .. n)) \in Nat
  BY <1>4, SessionsCounted
<1>7. PlainSessions(ordered, n) = SessionsAt(1 .. n)
  BY <1>1, <1>3, OtherSessions DEF len
<1>8. ASSUME asks = "summary"
      PROVE  Cardinality(SessionsAt(1 .. n)) = n \/ ComparableSessions(ordered, n) \subseteq SessionsAt(1 .. n)
  <2>1. CASE Len(ordered) <= limit
    <3>1. n = len
      BY <1>3, <2>1 DEF len
    <3>2. ASSUME NEW x \in ComparableSessions(ordered, n) PROVE x \in SessionsAt(1 .. n)
      <4>1. PICK i \in DOMAIN ordered : x = SessionAt(i)
        BY <1>1, <1>3, OtherSessions DEF len
      <4> QED BY <1>1, <3>1, <4>1 DEF SessionsAt
    <3> QED BY <3>2
  <2>2. CASE limit = 1
    <3>1. n = 1
      BY <1>3, <2>2
    <3>2. \A i, j \in 1 .. n : SessionAt(i) = SessionAt(j) => i = j
      BY <3>1
    <3> QED BY <1>4, <3>2, SessionsCounted
  <2> QED BY <1>8, <2>1, <2>2
<1>9. n = IF Len(ordered) < limit THEN Len(ordered) ELSE limit
  BY DEF n, len
<1>10. Spread(ordered, evidence, asks, limit)
  BY <1>5, <1>6, <1>7, <1>8, <1>9 DEF Spread
<1> QED BY <1>10 DEF evidence, places

\* The rows that the first loop picks: the first one and one of each other session.
LEMMA FirstsDiffer ==
    ASSUME NEW boundary,
           NEW i \in Nat, i = 1 \/ FirstOfSession(i, boundary),
           NEW j \in Nat, j = 1 \/ FirstOfSession(j, boundary),
           SessionAt(i) = SessionAt(j)
    PROVE  i = j
<1>1. ASSUME NEW k \in Nat, NEW l \in Nat, FirstOfSession(k, boundary), k > 1,
             FirstOfSession(l, boundary), SessionAt(k) = SessionAt(l)
      PROVE  ~ (k < l)
  <2>1. IsComparable(ordered[k].score, boundary)
    BY <1>1 DEF FirstOfSession
  <2>2. k < l => k \in 2 .. l - 1
    BY <1>1
  <2> QED BY <1>1, <2>1, <2>2 DEF FirstOfSession
<1>2. FirstOfSession(i, boundary) => i > 1 /\ SessionAt(i) # SessionAt(1)
  BY DEF FirstOfSession
<1>3. FirstOfSession(j, boundary) => j > 1 /\ SessionAt(j) # SessionAt(1)
  BY DEF FirstOfSession
<1>4. CASE i # 1 /\ j # 1
  BY <1>1, <1>2, <1>3, <1>4
<1> QED BY <1>2, <1>3, <1>4

\* Every comparable row has one of its session among them.
LEMMA EveryComparableHasFirst ==
    ASSUME NEW len \in Nat, NEW i \in 1 .. len, NEW boundary,
           IsComparable(ordered[i].score, boundary), SessionAt(i) # SessionAt(1)
    PROVE  \E j \in 1 .. len : FirstOfSession(j, boundary) /\ SessionAt(j) = SessionAt(i)
<1> DEFINE S == {j \in 2 .. len : /\ IsComparable(ordered[j].score, boundary)
                                  /\ SessionAt(j) = SessionAt(i)}
<1>1. i \in S /\ S \in SUBSET Nat
  BY DEF SessionAt
<1>2. PICK j \in S : \A k \in S : j <= k
  BY <1>1, LeastNatural
<1>3. /\ j \in 1 .. len /\ j > 1 /\ IsComparable(ordered[j].score, boundary)
      /\ SessionAt(j) = SessionAt(i)
  BY <1>2
<1>4. ASSUME NEW k \in 2 .. j - 1, SessionAt(k) = SessionAt(j)
      PROVE  ~ IsComparable(ordered[k].score, boundary)
  <2>1. k \notin S /\ k \in 2 .. len
    BY <1>2, <1>3
  <2> QED BY <1>3, <1>4, <2>1
<1>5. FirstOfSession(j, boundary)
  BY <1>3, <1>4 DEF FirstOfSession
<1> QED BY <1>3, <1>5

\* The places that a search for other sessions chooses: as many as it may, the first
\* one of them, and all of different sessions or one of every comparable row's session.
LEMMA DiversePlaces ==
    ASSUME InScoreOrder(ordered), NEW limit \in Limits, limit # 1, Len(ordered) > limit
    PROVE  /\ Diverse(limit) \in SUBSET DOMAIN ordered
           /\ Cardinality(Diverse(limit)) = limit
           /\ 1 \in Diverse(limit)
           /\ \/ \A i, j \in Diverse(limit) : SessionAt(i) = SessionAt(j) => i = j
              \/ \A i \in DOMAIN ordered : FirstOfSession(i, ordered[limit].score) => i \in Diverse(limit)
<1> DEFINE len == Len(ordered)
           boundary == ordered[limit].score
           firsts == {i \in DOMAIN ordered : FirstOfSession(i, boundary)}
           picked == {1} \cup Least(firsts, limit - 1)
           left == limit - Cardinality(picked)
           others == DOMAIN ordered \ picked
           filling == Least(others, left)
<1>1. /\ len \in Nat /\ DOMAIN ordered = 1 .. len /\ limit \in Nat /\ limit > 1 /\ len > limit
      /\ limit - 1 \in Nat
  BY RankingAssumption DEF InScoreOrder
<1>2. IsFiniteSet(1 .. len) /\ Cardinality(1 .. len) = len
  <2>1. 1 \in Int /\ len \in Int
    BY <1>1
  <2>2. IsFiniteSet(1 .. len) /\ Cardinality(1 .. len) = IF 1 > len THEN 0 ELSE len - 1 + 1
    BY ONLY <2>1, FS_Interval
  <2> QED BY <1>1, <2>2
<1>3. firsts \in SUBSET (1 .. len) /\ firsts \in SUBSET Nat /\ 1 \notin firsts
  BY <1>1 DEF FirstOfSession
<1>4. IsFiniteSet(firsts) /\ Cardinality(firsts) \in Nat
  BY <1>2, <1>3, FS_Subset, FS_CardinalityType
<1> DEFINE least == Least(firsts, limit - 1)
           p == IF Cardinality(firsts) < limit - 1 THEN Cardinality(firsts) ELSE limit - 1
<1> HIDE DEF firsts, len
<1>5. least \in SUBSET firsts /\ Cardinality(least) = p
  <2>1. least = {i \in firsts : Cardinality({j \in firsts : j < i}) < limit - 1}
    BY DEF Least
  <2>2. least \in SUBSET firsts
    BY <2>1
  <2> HIDE DEF least
  <2>3. Cardinality(least) = IF Cardinality(firsts) < limit - 1 THEN Cardinality(firsts) ELSE limit - 1
    BY <1>1, <1>3, <1>4, <2>1, SizeOfTheLeast
  <2> QED BY <2>2, <2>3
<1>6. p \in Nat /\ p <= limit - 1
  BY <1>1, <1>4
<1>7. picked \in SUBSET (1 .. len) /\ IsFiniteSet(picked) /\ Cardinality(picked) = p + 1
  <2>1. picked \in SUBSET (1 .. len) /\ 1 \notin least /\ picked = least \cup {1}
    <3>1. 1 \in 1 .. len
      BY <1>1
    <3>2. least \in SUBSET (1 .. len) /\ 1 \notin least
      BY <1>3, <1>5
    <3> HIDE DEF least
    <3>3. picked = least \cup {1}
      BY DEF least
    <3> QED BY <3>1, <3>2, <3>3
  <2>2. IsFiniteSet(least)
    BY <1>4, <1>5, FS_Subset
  <2> HIDE DEF least, picked, p
  <2>3. IsFiniteSet(picked) /\ Cardinality(picked) = Cardinality(least) + 1
    BY <2>1, <2>2, FS_AddElement
  <2> QED BY <1>5, <2>1, <2>3
<1> HIDE DEF picked, p
<1>8. left = limit - 1 - p /\ left \in Nat
  BY <1>1, <1>6, <1>7
<1>9. /\ others \in SUBSET (1 .. len) /\ others \in SUBSET Nat
      /\ IsFiniteSet(others) /\ Cardinality(others) = len - (p + 1)
  <2>1. others = (1 .. len) \ picked /\ others \in SUBSET (1 .. len) /\ others \in SUBSET Nat
    BY <1>1
  <2>2. (1 .. len) \cap picked = picked
    BY <1>7
  <2> HIDE DEF others
  <2>3. IsFiniteSet(others) /\ Cardinality(others) = Cardinality(1 .. len) - Cardinality((1 .. len) \cap picked)
    BY <1>2, <2>1, FS_Difference
  <2> QED BY <1>2, <1>7, <2>1, <2>2, <2>3
<1> HIDE DEF left
<1>10. filling \in SUBSET others /\ IsFiniteSet(filling) /\ Cardinality(filling) = left
  <2>1. filling = {i \in others : Cardinality({j \in others : j < i}) < left}
    BY DEF Least
  <2>2. filling \in SUBSET others
    BY <2>1
  <2> HIDE DEF filling, others
  <2>3. Cardinality(filling) = IF Cardinality(others) < left THEN Cardinality(others) ELSE left
    BY <1>8, <1>9, <2>1, SizeOfTheLeast
  <2>4. IsFiniteSet(filling)
    BY <1>9, <2>2, FS_Subset
  <2>5. ~ Cardinality(others) < left
    BY <1>1, <1>6, <1>8, <1>9
  <2> QED BY <2>2, <2>3, <2>4, <2>5
<1>11. picked \cap filling = {}
  BY <1>10 DEF others
<1> HIDE DEF filling, others
<1>12. Diverse(limit) = picked \cup filling
  BY DEF Diverse, filling, others, left, picked, firsts
<1>13. Cardinality(picked \cup filling) = limit
  <2>1. Cardinality(picked \cap filling) = 0
    BY <1>11, FS_EmptySet
  <2>2. Cardinality(picked \cup filling) = Cardinality(picked) + Cardinality(filling) - Cardinality(picked \cap filling)
    BY <1>7, <1>10, FS_Union
  <2> QED BY <1>1, <1>6, <1>7, <1>8, <1>10, <2>1, <2>2
<1>14. picked \cup filling \in SUBSET DOMAIN ordered /\ 1 \in picked
  BY <1>1, <1>7, <1>9, <1>10 DEF picked
<1>15. CASE Cardinality(firsts) < limit - 1
  <2>1. ASSUME NEW i \in firsts PROVE i \in picked
    <3> DEFINE before == {j \in firsts : j < i}
    <3>1. before \in SUBSET firsts
      OBVIOUS
    <3>2. IsFiniteSet(before) /\ Cardinality(before) <= Cardinality(firsts)
      BY <1>4, <3>1, FS_Subset
    <3>3. Cardinality(before) \in Nat
      BY <3>2, FS_CardinalityType
    <3>4. Cardinality(before) < limit - 1
      BY <1>1, <1>4, <1>15, <3>2, <3>3
    <3> QED BY <3>4 DEF picked, Least
  <2>2. \A i \in DOMAIN ordered : FirstOfSession(i, ordered[limit].score) => i \in firsts
    BY DEF firsts
  <2> QED BY <1>12, <1>13, <1>14, <2>1, <2>2
<1>16. CASE ~ Cardinality(firsts) < limit - 1
  <2>1. left = 0
    BY <1>1, <1>8, <1>16 DEF p
  <2>2. filling = {}
    BY <1>10, <2>1, FS_EmptySet
  <2>3. \A i \in picked : i \in Nat /\ (i = 1 \/ FirstOfSession(i, boundary))
    BY <1>3, <1>5 DEF picked, firsts
  <2>4. \A i, j \in picked : SessionAt(i) = SessionAt(j) => i = j
    BY <2>3, FirstsDiffer
  <2> QED BY <1>12, <1>13, <1>14, <2>2, <2>4
<1> QED BY <1>15, <1>16

\* They are evidence that spreads as far as is asked.
LEMMA DiverseSpreads ==
    ASSUME InScoreOrder(ordered), NEW limit \in Limits, limit # 1, Len(ordered) > limit
    PROVE  Spread(ordered, Chosen(ordered, Diverse(limit)), asks, limit)
<1> DEFINE places == Diverse(limit)
           evidence == Chosen(ordered, places)
           boundary == ordered[limit].score
<1>1. /\ ordered \in Seq(Entry) /\ limit \in Nat /\ limit > 1
      /\ limit \in 1 .. Len(ordered) /\ DOMAIN ordered = 1 .. Len(ordered) /\ Len(ordered) \in Nat
      /\ 1 \in DOMAIN ordered
  BY RankingAssumption DEF InScoreOrder
<1>2. /\ places \in SUBSET DOMAIN ordered
      /\ Cardinality(places) = limit
      /\ 1 \in places
      /\ \/ \A i, j \in places : SessionAt(i) = SessionAt(j) => i = j
         \/ \A i \in DOMAIN ordered : FirstOfSession(i, boundary) => i \in places
  BY DiversePlaces
<1> HIDE DEF places
<1>3. /\ Len(evidence) = limit
      /\ Sessions(ToSet(evidence)) = SessionsAt(places)
      /\ evidence[1] = ordered[1]
      /\ IsFiniteSet(places)
  BY <1>1, <1>2, ShownSessions
<1> HIDE DEF evidence
<1>4. PlainSessions(ordered, limit) = SessionsAt(1 .. limit)
  BY <1>1, OtherSessions
<1>5. IsFiniteSet(1 .. limit) /\ Cardinality(1 .. limit) = limit
  <2>1. 1 \in Int /\ limit \in Int
    BY <1>1
  <2>2. IsFiniteSet(1 .. limit) /\ Cardinality(1 .. limit) = IF 1 > limit THEN 0 ELSE limit - 1 + 1
    BY ONLY <2>1, FS_Interval
  <2> QED BY <1>1, <2>2
<1>6. /\ Cardinality(SessionsAt(1 .. limit)) \in Nat
      /\ Cardinality(SessionsAt(1 .. limit)) <= limit
      /\ Cardinality(SessionsAt(places)) \in Nat
  BY <1>3, <1>5, SessionsCounted
<1> SUFFICES Spread(ordered, evidence, asks, limit)
  BY DEF evidence, places
<1>7. CASE \A i, j \in places : SessionAt(i) = SessionAt(j) => i = j
  <2>1. Cardinality(SessionsAt(places)) = limit
    BY <1>2, <1>3, <1>7, SessionsCounted
  <2> QED BY <1>3, <1>4, <1>6, <2>1 DEF Spread
<1>8. CASE \A i \in DOMAIN ordered : FirstOfSession(i, boundary) => i \in places
  <2>1. ASSUME NEW i \in DOMAIN ordered, IsComparable(ordered[i].score, boundary) \/ ordered[i] = ordered[1]
        PROVE  SessionAt(i) \in SessionsAt(places)
    <3>1. CASE SessionAt(i) = SessionAt(1)
      BY <1>2, <3>1 DEF SessionsAt
    <3>2. CASE SessionAt(i) # SessionAt(1)
      <4>1. IsComparable(ordered[i].score, boundary)
        BY <2>1, <3>2 DEF SessionAt
      <4>2. PICK j \in 1 .. Len(ordered) : FirstOfSession(j, boundary) /\ SessionAt(j) = SessionAt(i)
        BY <1>1, <3>2, <4>1, EveryComparableHasFirst
      <4>3. j \in places
        BY <1>1, <1>8, <4>2
      <4> QED BY <4>2, <4>3 DEF SessionsAt
    <3> QED BY <3>1, <3>2
  <2>2. ComparableSessions(ordered, limit) \subseteq SessionsAt(places)
    <3>1. ASSUME NEW x \in ComparableSessions(ordered, limit)
          PROVE  x \in SessionsAt(places)
      <4>1. PICK i \in DOMAIN ordered :
                /\ x = SessionAt(i)
                /\ IsComparable(ordered[i].score, boundary) \/ ordered[i] = ordered[1]
        BY <1>1, OtherSessions
      <4> QED BY <2>1, <4>1
    <3> QED BY <3>1
  <2>3. ASSUME NoneNegative(ordered)
        PROVE  SessionsAt(1 .. limit) \subseteq SessionsAt(places)
    <3>1. ASSUME NEW i \in 1 .. limit PROVE IsComparable(ordered[i].score, boundary)
      <4>1. i \in DOMAIN ordered /\ limit \in DOMAIN ordered /\ i <= limit
        BY <1>1
      <4>2. ordered[i].score \in Int /\ boundary \in Int
        <5>1. ordered[i] \in Entry /\ ordered[limit] \in Entry
          BY <1>1, <4>1
        <5> QED BY <5>1 DEF Entry
      <4>3. ordered[i].score >= 0 /\ boundary >= 0
        BY <2>3, <4>1 DEF NoneNegative, ToSet
      <4>4. ordered[i].score >= boundary
        <5>1. CASE i = limit
          BY <4>2, <5>1
        <5>2. CASE i < limit
          BY <4>1, <4>2, <4>3, <5>2 DEF InScoreOrder
        <5> QED BY <1>1, <4>1, <5>1, <5>2
      <4> HIDE DEF boundary
      <4> QED BY <4>2, <4>3, <4>4 DEF IsComparable
    <3>2. \A i \in 1 .. limit : SessionAt(i) \in SessionsAt(places)
      BY <1>1, <2>1, <3>1
    <3> QED BY <3>2 DEF SessionsAt
  <2>4. NoneNegative(ordered) => Cardinality(SessionsAt(places)) >= Cardinality(SessionsAt(1 .. limit))
    BY <1>3, <1>6, <2>3, SessionsGrow
  <2> QED BY <1>3, <1>4, <2>2, <2>4 DEF Spread
<1> QED BY <1>2, <1>7, <1>8

\* The evidence is chosen.
LEMMA SelectPreserves ==
    ASSUME IInv, Select
    PROVE  IInv'
<1>1. PICK limit \in Limits :
        /\ room' = limit
        /\ selected' = Chosen(ordered,
                              IF limit = 1 \/ Len(ordered) <= limit \/ asks # "summary"
                              THEN {i \in DOMAIN ordered : i <= limit}
                              ELSE Diverse(limit))
  BY DEF Select
<1>2. /\ UNCHANGED <<candidates, ordered, asks>> /\ stage' = "answer"
      /\ InScoreOrder(ordered) /\ Len(ordered) \in Nat /\ limit \in Nat
  BY RankingAssumption DEF Select, IInv, InScoreOrder
<1>3. PICK places \in SUBSET DOMAIN ordered :
        /\ selected' = Chosen(ordered, places)
        /\ ordered # <<>> => Spread(ordered, Chosen(ordered, places), asks, limit)
  <2>1. CASE limit = 1 \/ Len(ordered) <= limit \/ asks # "summary"
    <3> DEFINE best == {i \in DOMAIN ordered : i <= limit}
    <3>1. selected' = Chosen(ordered, best) /\ best \in SUBSET DOMAIN ordered
      BY <1>1, <2>1
    <3>2. ordered # <<>> => Spread(ordered, Chosen(ordered, best), asks, limit)
      BY <1>2, <2>1, PlainSpreads
    <3> HIDE DEF best
    <3> QED BY <3>1, <3>2
  <2>2. CASE ~ (limit = 1 \/ Len(ordered) <= limit \/ asks # "summary")
    <3>1. limit # 1 /\ Len(ordered) > limit
      BY <1>2, <2>2
    <3>2. /\ Diverse(limit) \in SUBSET DOMAIN ordered
          /\ Spread(ordered, Chosen(ordered, Diverse(limit)), asks, limit)
      BY <1>2, <3>1, DiversePlaces, DiverseSpreads
    <3>3. selected' = Chosen(ordered, Diverse(limit))
      BY <1>1, <2>2
    <3> QED BY <3>2, <3>3
  <2> QED BY <2>1, <2>2
<1>4. InScoreOrder(selected')
  BY <1>2, <1>3, ChosenIsInScoreOrder
<1>6. ordered' # <<>> => Spread(ordered', selected', asks', room')
  BY <1>1, <1>2, <1>3
<1>7. SummariesSpread'
  BY <1>6 DEF SummariesSpread, Spread, PlainSessions, ComparableSessions, NoneNegative
<1>8. FoundInv' /\ FusionRespectsTheLists'
  BY <1>2 DEF FoundInv, FusionRespectsTheLists
<1> QED BY <1>2, <1>4, <1>7, <1>8 DEF IInv

-----------------------------------------------------------------------------
(***************************************************************************)
(* The theorems                                                            *)
(***************************************************************************)
\* Every step of a search preserves the invariant.
LEMMA StepIInv == IInv /\ [Next]_vars => IInv'
<1> SUFFICES ASSUME IInv, [Next]_vars PROVE IInv'
  OBVIOUS
<1>1. CASE Retrieve
  BY <1>1, RetrievePreserves
<1>2. CASE FuseAndFilter
  BY <1>2, FuseAndFilterPreserves
<1>3. CASE Expand
  BY <1>3, ExpandPreserves
<1>4. CASE Suppress
  BY <1>4, SuppressPreserves
<1>5. CASE Rank
  BY <1>5, RankPreserves
<1>6. CASE Rerank
  BY <1>6, RerankPreserves
<1>7. CASE Select
  BY <1>7, SelectPreserves
<1>8. CASE Answer
  BY <1>8, AnswerPreserves
<1>9. CASE UNCHANGED vars
  BY <1>9 DEF vars, IInv, FoundInv, FusionRespectsTheLists, SummariesSpread
<1> QED BY <1>1, <1>2, <1>3, <1>4, <1>5, <1>6, <1>7, <1>8, <1>9 DEF Next

LEMMA SpecIInv == Spec => []IInv
BY InitIInv, StepIInv, PTL DEF Spec

\* No list can cost a row its place by finding it: a row that is ahead of another in
\* every list that has the other is ahead of it after the fusion and the filter.
THEOREM FusionKeepsTheOrder == Spec => []FusionRespectsTheLists
<1>1. IInv => FusionRespectsTheLists
  BY DEF IInv
<1> QED BY <1>1, SpecIInv, PTL

\* Evidence is listed by the score it is answered with, every row once, whatever the
\* reranker gave the rows it saw.
THEOREM EvidenceInOrder == Spec => []EvidenceIsInScoreOrder
<1>1. ASSUME NEW entries, InScoreOrder(entries),
             NEW i \in DOMAIN entries, NEW j \in DOMAIN entries, i < j
      PROVE  /\ Clamped(entries[i].score) >= Clamped(entries[j].score)
             /\ entries[i].row # entries[j].row
  <2>1. entries[i] \in Entry /\ entries[j] \in Entry
    BY <1>1 DEF InScoreOrder
  <2>2. entries[i].score \in Int /\ entries[j].score \in Int
    BY <2>1 DEF Entry
  <2>3. /\ entries[i].row # entries[j].row
        /\ \/ entries[i].score >= entries[j].score
           \/ entries[i].score < 0 /\ entries[j].score = 0
    BY <1>1 DEF InScoreOrder
  <2> QED BY <2>2, <2>3 DEF Clamped
<1>2. IInv => EvidenceIsInScoreOrder
  BY <1>1 DEF IInv, EvidenceIsInScoreOrder
<1> QED BY <1>2, SpecIInv, PTL

\* Looking for other sessions costs a search neither its best row nor a place, and
\* a summary shows as many sessions as it can.
THEOREM SummariesShowSessions == Spec => []SummariesSpread
<1>1. IInv => SummariesSpread
  BY DEF IInv
<1> QED BY <1>1, SpecIInv, PTL
=============================================================================

----------------------------- MODULE OrderLemmas -----------------------------
(***************************************************************************)
(* What the proofs need of finite sets and orders on them: induction over  *)
(* the naturals as a fact about sets of naturals, the existence of what a  *)
(* recursion defines, what is left where corrections do not go round, a    *)
(* sum over a set, and the sequence that sorts a set.                      *)
(***************************************************************************)
EXTENDS Corrections, Functions, FiniteSetTheorems, TLAPS

-----------------------------------------------------------------------------
(***************************************************************************)
(* Natural numbers                                                         *)
(***************************************************************************)
\* A set of naturals has a least member.
LEMMA LeastNatural ==
    ASSUME NEW S \in SUBSET Nat, S # {}
    PROVE  \E n \in S : \A m \in S : n <= m
<1>1. PICK n \in S : \A m \in S : <<m, n>> \notin OpToRel(<, Nat)
  BY NatLessThanWellFounded, WFMin
<1>2. \A m \in S : ~ (m < n)
  BY <1>1 DEF OpToRel
<1> QED BY <1>2

\* What holds of 0 and is inherited by successors holds of every natural.
LEMMA NaturalsByStep ==
    ASSUME NEW S, 0 \in S, \A n \in Nat : n \in S => n + 1 \in S
    PROVE  Nat \subseteq S
<1> SUFFICES ASSUME Nat \ S # {} PROVE FALSE
  OBVIOUS
<1>1. PICK n \in Nat \ S : \A m \in Nat \ S : n <= m
  BY LeastNatural
<1>2. n # 0 /\ n - 1 \in Nat /\ n - 1 \in S
  BY <1>1
<1> QED BY <1>2

\* Iterating a function from a starting point is well defined.
LEMMA IterationExists ==
    ASSUME NEW X, NEW base \in X, NEW step \in [X -> X]
    PROVE  \E f \in [Nat -> X] : f[0] = base /\ \A n \in Nat : f[n + 1] = step[f[n]]
<1> DEFINE Begun(n) == {g \in [0 .. n -> X] :
                           /\ g[0] = base
                           /\ \A i \in 0 .. n - 1 : g[i + 1] = step[g[i]]}
           Good == {n \in Nat : Begun(n) # {}}
<1>1. 0 \in Good
  <2>1. [i \in 0 .. 0 |-> base] \in Begun(0)
    OBVIOUS
  <2> QED BY <2>1
<1>2. ASSUME NEW n \in Nat, n \in Good PROVE n + 1 \in Good
  <2>1. PICK g \in Begun(n) : TRUE
    BY <1>2
  <2> DEFINE h == [i \in 0 .. n + 1 |-> IF i <= n THEN g[i] ELSE step[g[n]]]
  <2>2. h \in [0 .. n + 1 -> X] /\ h[0] = base
    BY <2>1
  <2>3. ASSUME NEW i \in 0 .. n PROVE h[i + 1] = step[h[i]]
    <3>1. h[i] = g[i]
      OBVIOUS
    <3>2. CASE i = n
      BY <3>1, <3>2
    <3>3. CASE i # n
      <4>1. i \in 0 .. n - 1 /\ i + 1 \in 0 .. n + 1 /\ i + 1 <= n
        BY <3>3
      <4> QED BY <2>1, <3>1, <4>1
    <3> QED BY <3>2, <3>3
  <2>4. h \in Begun(n + 1)
    BY <2>2, <2>3
  <2> HIDE DEF Begun, h
  <2> QED BY <2>4
<1>3. \A n \in Nat : Begun(n) # {}
  <2> HIDE DEF Begun
  <2>1. Nat \subseteq Good
    BY <1>1, <1>2, NaturalsByStep
  <2> QED BY <2>1
<1>4. ASSUME NEW n \in Nat, NEW g \in Begun(n), NEW h \in Begun(n + 1)
      PROVE  g[n] = h[n]
  <2> DEFINE Same == {i \in Nat : i <= n => g[i] = h[i]}
  <2>1. 0 \in Same
    OBVIOUS
  <2>2. ASSUME NEW i \in Nat, i \in Same PROVE i + 1 \in Same
    <3> SUFFICES ASSUME i + 1 <= n PROVE g[i + 1] = h[i + 1]
      OBVIOUS
    <3>1. i \in 0 .. n - 1 /\ i \in 0 .. (n + 1) - 1 /\ g[i] = h[i]
      BY <2>2
    <3> QED BY <3>1
  <2>3. Nat \subseteq Same
    <3> HIDE DEF Same
    <3> QED BY <2>1, <2>2, NaturalsByStep
  <2> QED BY <2>3
<1> DEFINE at(n) == CHOOSE g \in Begun(n) : TRUE
           f == [n \in Nat |-> at(n)[n]]
<1>5. \A n \in Nat : at(n) \in Begun(n)
  <2> HIDE DEF Begun
  <2> QED BY <1>3
<1>6. f \in [Nat -> X] /\ f[0] = base
  <2> HIDE DEF at
  <2>1. ASSUME NEW n \in Nat PROVE at(n)[n] \in X
    <3>1. at(n) \in [0 .. n -> X] /\ n \in 0 .. n
      BY <1>5
    <3> QED BY <3>1
  <2> QED BY <1>5, <2>1
<1>7. ASSUME NEW n \in Nat PROVE f[n + 1] = step[f[n]]
  <2> HIDE DEF at
  <2>1. at(n) \in Begun(n) /\ at(n + 1) \in Begun(n + 1)
    <3> HIDE DEF Begun
    <3>1. n + 1 \in Nat
      OBVIOUS
    <3> QED BY <1>5, <3>1
  <2>2. at(n)[n] = at(n + 1)[n]
    BY <1>4, <2>1
  <2>3. n \in 0 .. (n + 1) - 1
    OBVIOUS
  <2>4. at(n + 1)[n + 1] = step[at(n + 1)[n]]
    BY <2>1, <2>3
  <2> QED BY <2>2, <2>4
<1> HIDE DEF f
<1> QED BY <1>6, <1>7

-----------------------------------------------------------------------------
(***************************************************************************)
(* Relations on a finite set                                               *)
(***************************************************************************)
\* A strict order on a finite set has a first element.
LEMMA StrictOrderHasFirst ==
    ASSUME NEW S, IsFiniteSet(S), S # {}, NEW R,
           \A x \in S : <<x, x>> \notin R,
           \A x, y, z \in S : <<x, y>> \in R /\ <<y, z>> \in R => <<x, z>> \in R
    PROVE  \E first \in S : \A x \in S : <<x, first>> \notin R
<1> DEFINE below(x) == {y \in S : <<y, x>> \in R}
           sizes == {Cardinality(below(x)) : x \in S}
<1>1. \A x \in S : IsFiniteSet(below(x)) /\ Cardinality(below(x)) \in Nat
  BY FS_Subset, FS_CardinalityType
<1>2. PICK first \in S : \A x \in S : Cardinality(below(first)) <= Cardinality(below(x))
  <2>1. sizes \in SUBSET Nat /\ sizes # {}
    <3> HIDE DEF below
    <3> QED BY <1>1
  <2> HIDE DEF sizes
  <2>2. PICK n \in sizes : \A m \in sizes : n <= m
    BY <2>1, LeastNatural
  <2> USE DEF sizes
  <2> HIDE DEF below
  <2> QED BY <2>2
<1>3. ASSUME NEW x \in S, <<x, first>> \in R PROVE FALSE
  <2>1. below(x) \subseteq below(first) /\ x \in below(first) /\ x \notin below(x)
    BY <1>3
  <2>2. Cardinality(below(x)) < Cardinality(below(first))
    <3> HIDE DEF below
    <3> QED BY <1>1, <2>1, FS_Subset
  <2> HIDE DEF below
  <2> QED BY <1>1, <1>2, <2>2
<1> QED BY <1>3

\* So a strict order on a finite set has no circles, nor has any part of it.
LEMMA StrictOrderIsAcyclic ==
    ASSUME NEW S, IsFiniteSet(S), NEW R,
           \A x \in S : <<x, x>> \notin R,
           \A x, y, z \in S : <<x, y>> \in R /\ <<y, z>> \in R => <<x, z>> \in R,
           NEW pairs \in SUBSET R
    PROVE  IsAcyclic(S, pairs)
<1>1. ASSUME NEW group \in SUBSET S, group # {}
      PROVE  \E last \in group : \A newer \in group : <<newer, last>> \notin pairs
  <2>1. IsFiniteSet(group)
    BY FS_Subset
  <2>2. /\ \A x \in group : <<x, x>> \notin R
        /\ \A x, y, z \in group : <<x, y>> \in R /\ <<y, z>> \in R => <<x, z>> \in R
    OBVIOUS
  <2>3. PICK last \in group : \A newer \in group : <<newer, last>> \notin R
    BY <1>1, <2>1, <2>2, StrictOrderHasFirst
  <2> QED BY <2>3
<1> QED BY <1>1 DEF IsAcyclic

\* Where the corrections of a row do not go round, one of the rows that correct it, if
\* through others, is corrected by none.
LEMMA LastCorrector ==
    ASSUME NEW rows, NEW pairs, NEW row \in rows,
           IsAcyclic(Correctors(row, rows, pairs), pairs)
    PROVE  \E last \in Correctors(row, rows, pairs) :
              \A newer \in rows : <<newer, last>> \notin pairs
<1> DEFINE group == Correctors(row, rows, pairs)
<1>1. row \in group /\ group \subseteq rows
  BY DEF Correctors
<1>2. ASSUME NEW newer \in rows, NEW x \in group, <<newer, x>> \in pairs
      PROVE  newer \in group
  BY <1>2 DEF Correctors, IsClosed
<1>3. PICK last \in group : \A newer \in group : <<newer, last>> \notin pairs
  BY <1>1 DEF IsAcyclic
<1> QED BY <1>2, <1>3

\* Among fewer rows no row has other correctors.
LEMMA CorrectorsGrow ==
    ASSUME NEW rows, NEW few \in SUBSET rows, NEW pairs, NEW row \in few
    PROVE  Correctors(row, few, pairs) \subseteq Correctors(row, rows, pairs)
<1> SUFFICES ASSUME NEW newer \in Correctors(row, few, pairs),
                    NEW group \in SUBSET rows, row \in group, IsClosed(group, rows, pairs)
             PROVE  newer \in group
  BY DEF Correctors
<1>1. group \cap few \in SUBSET few /\ row \in group \cap few
  OBVIOUS
<1>2. IsClosed(group \cap few, few, pairs)
  BY DEF IsClosed
<1> QED BY <1>1, <1>2 DEF Correctors

-----------------------------------------------------------------------------
(***************************************************************************)
(* Sums over finite sets                                                   *)
(***************************************************************************)
\* Among subsets of a finite set there is one that has no smaller one under it.
LEMMA SmallestSubset ==
    ASSUME NEW I, IsFiniteSet(I), NEW Bad \in SUBSET SUBSET I, Bad # {}
    PROVE  \E s \in Bad : \A x \in s : s \ {x} \notin Bad
<1> DEFINE sizes == {Cardinality(s) : s \in Bad}
<1>1. ASSUME NEW s \in SUBSET I
      PROVE  IsFiniteSet(s) /\ Cardinality(s) \in Nat
  BY FS_Subset, FS_CardinalityType
<1>2. PICK s \in Bad : \A t \in Bad : Cardinality(s) <= Cardinality(t)
  <2>1. sizes \in SUBSET Nat /\ sizes # {}
    BY <1>1
  <2> HIDE DEF sizes
  <2>2. PICK n \in sizes : \A m \in sizes : n <= m
    BY <2>1, LeastNatural
  <2> QED BY <2>2 DEF sizes
<1>3. ASSUME NEW x \in s PROVE s \ {x} \notin Bad
  <2>1. Cardinality(s \ {x}) = Cardinality(s) - 1
    BY <1>1, FS_RemoveElement
  <2> QED BY <1>1, <1>2, <2>1
<1> QED BY <1>3

\* The recursion by which the library adds up the values of w on the subsets of I.
IsSum(h, w, I) ==
    h = [s \in SUBSET I |->
            IF s = {} THEN 0
            ELSE w[CHOOSE x \in s : TRUE] + h[s \ {CHOOSE x \in s : TRUE}]]

\* The recursion has a solution,
LEMMA SumExists ==
    ASSUME NEW I, IsFiniteSet(I), NEW w, \A i \in I : w[i] \in Nat
    PROVE  \E h : IsSum(h, w, I)
<1> DEFINE c(s) == CHOOSE x \in s : TRUE
           X == [SUBSET I -> Nat]
           base == [s \in SUBSET I |-> 0]
           next(g) == [s \in SUBSET I |-> IF s = {} THEN 0 ELSE w[c(s)] + g[s \ {c(s)}]]
           step == [g \in X |-> next(g)]
<1>1. \A s \in SUBSET I : s # {} => c(s) \in s
  OBVIOUS
<1>2. base \in X
  OBVIOUS
<1>3. step \in [X -> X]
  <2> SUFFICES ASSUME NEW g \in X PROVE next(g) \in X
    OBVIOUS
  <2> HIDE DEF c
  <2>1. ASSUME NEW s \in SUBSET I, s # {} PROVE w[c(s)] + g[s \ {c(s)}] \in Nat
    <3>1. c(s) \in I /\ s \ {c(s)} \in SUBSET I
      BY <1>1, <2>1
    <3> QED BY <3>1
  <2> QED BY <2>1
<1> HIDE DEF X, base, step
<1>4. PICK f \in [Nat -> X] : f[0] = base /\ \A n \in Nat : f[n + 1] = step[f[n]]
  BY <1>2, <1>3, IterationExists
<1> DEFINE h == [s \in SUBSET I |-> f[Cardinality(s)][s]]
<1>5. ASSUME NEW s \in SUBSET I
      PROVE  h[s] = IF s = {} THEN 0 ELSE w[c(s)] + h[s \ {c(s)}]
  <2> HIDE DEF c
  <2>1. CASE s = {}
    BY <2>1, <1>4, FS_EmptySet DEF base
  <2>2. CASE s # {}
    <3> DEFINE n == Cardinality(s \ {c(s)})
    <3>1. c(s) \in s /\ IsFiniteSet(s)
      BY <1>1, <2>2, FS_Subset
    <3>2. Cardinality(s) \in Nat /\ n \in Nat /\ n = Cardinality(s) - 1
      BY <3>1, FS_RemoveElement, FS_CardinalityType
    <3>3. Cardinality(s) = n + 1
      BY <3>2
    <3>4. s \ {c(s)} \in SUBSET I
      OBVIOUS
    <3>5. h[s] = f[n + 1][s] /\ h[s \ {c(s)}] = f[n][s \ {c(s)}]
      BY <3>3, <3>4
    <3> HIDE DEF n, h
    <3>6. f[n] \in X /\ f[n + 1] = next(f[n])
      BY <3>2, <1>4 DEF step
    <3> QED BY <2>2, <3>5, <3>6
  <2> QED BY <2>1, <2>2
<1>6. h = [s \in SUBSET I |-> h[s]]
  OBVIOUS
<1> HIDE DEF h
<1>7. IsSum(h, w, I)
  BY <1>5, <1>6 DEF IsSum
<1> QED BY <1>7

\* whose values are numbers, and in which any member may be taken out first.
LEMMA SumStep ==
    ASSUME NEW I, IsFiniteSet(I), NEW w, \A i \in I : w[i] \in Nat,
           NEW h, IsSum(h, w, I)
    PROVE  /\ h[{}] = 0
           /\ \A s \in SUBSET I : h[s] \in Nat
           /\ \A s \in SUBSET I : \A x \in s : h[s] = w[x] + h[s \ {x}]
<1> DEFINE c(s) == CHOOSE x \in s : TRUE
<1>1. \A s \in SUBSET I : s # {} => c(s) \in s
  OBVIOUS
<1>2. h[{}] = 0
  BY DEF IsSum
<1>3. ASSUME NEW s \in SUBSET I, s # {} PROVE h[s] = w[c(s)] + h[s \ {c(s)}]
  BY <1>3 DEF IsSum
<1> HIDE DEF c
<1>4. \A s \in SUBSET I : h[s] \in Nat
  <2> DEFINE Bad == {s \in SUBSET I : h[s] \notin Nat}
  <2> SUFFICES ASSUME Bad # {} PROVE FALSE
    OBVIOUS
  <2>1. PICK s \in Bad : \A x \in s : s \ {x} \notin Bad
    BY SmallestSubset
  <2>2. s # {} /\ c(s) \in s /\ s \ {c(s)} \in SUBSET I
    BY <1>1, <1>2
  <2>3. h[s \ {c(s)}] \in Nat
    BY <2>1, <2>2
  <2>4. s \in SUBSET I /\ w[c(s)] \in Nat
    BY <2>2
  <2>5. h[s] = w[c(s)] + h[s \ {c(s)}]
    BY <1>3, <2>2, <2>4
  <2>6. h[s] \in Nat
    BY <2>3, <2>4, <2>5
  <2> QED BY <2>6
<1>5. ASSUME NEW t \in SUBSET I, NEW y \in t PROVE h[t] = w[y] + h[t \ {y}]
  <2> DEFINE Bad == {s \in SUBSET I : ~ \A x \in s : h[s] = w[x] + h[s \ {x}]}
  <2>1. ASSUME Bad # {} PROVE FALSE
    <3>1. PICK s \in Bad : \A x \in s : s \ {x} \notin Bad
      BY <2>1, SmallestSubset
    <3>2. PICK x \in s : h[s] # w[x] + h[s \ {x}]
      BY <3>1
    <3> DEFINE d == c(s)
               rest == s \ {d, x}
    <3>3. d \in s /\ h[s] = w[d] + h[s \ {d}]
      BY <1>1, <1>3, <3>2
    <3>4. d # x
      BY <3>2, <3>3
    <3>5. s \ {d} \notin Bad /\ s \ {x} \notin Bad
      BY <3>1, <3>3
    <3>6. /\ (s \ {d}) \ {x} = rest /\ (s \ {x}) \ {d} = rest
          /\ x \in s \ {d} /\ d \in s \ {x}
          /\ s \ {d} \in SUBSET I /\ s \ {x} \in SUBSET I /\ rest \in SUBSET I
      BY <3>3, <3>4
    <3> HIDE DEF rest
    <3>7. h[s \ {d}] = w[x] + h[rest] /\ h[s \ {x}] = w[d] + h[rest]
      BY <3>5, <3>6
    <3>8. w[x] \in Nat /\ w[d] \in Nat /\ h[rest] \in Nat
      BY <1>4, <3>3, <3>6
    <3> QED BY <3>2, <3>3, <3>7, <3>8
  <2> QED BY <2>1
<1> QED BY <1>2, <1>4, <1>5

\* Summing over fewer indices, or with the same values, adds up the same.
LEMMA SumIsUnique ==
    ASSUME NEW I, IsFiniteSet(I), NEW J \in SUBSET I,
           NEW w, NEW v, \A i \in J : w[i] = v[i],
           NEW g, IsSum(g, w, I), NEW h, IsSum(h, v, J)
    PROVE  \A s \in SUBSET J : g[s] = h[s]
<1> DEFINE Bad == {s \in SUBSET J : g[s] # h[s]}
           c(s) == CHOOSE x \in s : TRUE
<1> SUFFICES ASSUME Bad # {} PROVE FALSE
  OBVIOUS
<1>1. IsFiniteSet(J)
  BY FS_Subset
<1>2. PICK s \in Bad : \A x \in s : s \ {x} \notin Bad
  BY <1>1, SmallestSubset
<1>3. s \in SUBSET I /\ s \in SUBSET J
  OBVIOUS
<1>4. s # {}
  BY <1>3 DEF IsSum
<1>5. g[s] = w[c(s)] + g[s \ {c(s)}] /\ h[s] = v[c(s)] + h[s \ {c(s)}]
  BY <1>3, <1>4 DEF IsSum
<1>6. c(s) \in s
  BY <1>4
<1> HIDE DEF c
<1> QED BY <1>2, <1>3, <1>5, <1>6

\* The sum over a set, with one member taken out and as a number.
LEMMA SumOverSet ==
    ASSUME NEW I, IsFiniteSet(I), NEW w, \A i \in I : w[i] \in Nat
    PROVE  /\ SumFunctionOnSet(w, I) \in Nat
           /\ I = {} => SumFunctionOnSet(w, I) = 0
           /\ \A x \in I :
                SumFunctionOnSet(w, I) = w[x] + SumFunctionOnSet(w, I \ {x})
<1> DEFINE chosen(J) == CHOOSE h : IsSum(h, w, J)
<1>1. ASSUME NEW J \in SUBSET I
      PROVE  /\ IsFiniteSet(J)
             /\ IsSum(chosen(J), w, J)
             /\ SumFunctionOnSet(w, J) = chosen(J)[J]
  <2>1. IsFiniteSet(J)
    BY FS_Subset
  <2>2. \E h : IsSum(h, w, J)
    BY <2>1, SumExists
  <2>3. SumFunctionOnSet(w, J) = chosen(J)[J]
    BY DEF SumFunctionOnSet, FoldFunctionOnSet, MapThenFoldSet, IsSum
  <2> QED BY <2>1, <2>2, <2>3
<1> HIDE DEF chosen
<1>2. I \in SUBSET I
  OBVIOUS
<1>3. /\ chosen(I)[{}] = 0
      /\ \A s \in SUBSET I : chosen(I)[s] \in Nat
      /\ \A s \in SUBSET I : \A x \in s : chosen(I)[s] = w[x] + chosen(I)[s \ {x}]
  BY <1>1, <1>2, SumStep
<1>4. ASSUME NEW x \in I
      PROVE  SumFunctionOnSet(w, I) = w[x] + SumFunctionOnSet(w, I \ {x})
  <2> DEFINE J == I \ {x}
  <2>1. J \in SUBSET I /\ J \in SUBSET J
    OBVIOUS
  <2> HIDE DEF J
  <2>2. chosen(I)[J] = chosen(J)[J]
    BY <1>1, <1>2, <2>1, SumIsUnique
  <2>3. SumFunctionOnSet(w, J) = chosen(J)[J]
    BY <1>1, <2>1
  <2>4. chosen(I)[I] = w[x] + chosen(I)[J]
    BY <1>2, <1>3 DEF J
  <2> QED BY <1>1, <1>2, <2>2, <2>3, <2>4 DEF J
<1> QED BY <1>1, <1>2, <1>3, <1>4

\* Larger values do not have a smaller sum.
LEMMA SumIsMonotone ==
    ASSUME NEW I, IsFiniteSet(I), NEW w, NEW v,
           \A i \in I : w[i] \in Nat /\ v[i] \in Nat /\ w[i] <= v[i]
    PROVE  SumFunctionOnSet(w, I) <= SumFunctionOnSet(v, I)
<1> DEFINE Bad == {s \in SUBSET I : ~ SumFunctionOnSet(w, s) <= SumFunctionOnSet(v, s)}
<1> SUFFICES ASSUME Bad # {} PROVE FALSE
  OBVIOUS
<1>1. PICK s \in Bad : \A x \in s : s \ {x} \notin Bad
  BY SmallestSubset
<1>2. s \in SUBSET I /\ IsFiniteSet(s) /\ ~ SumFunctionOnSet(w, s) <= SumFunctionOnSet(v, s)
  BY <1>1, FS_Subset
<1>3. /\ s = {} => SumFunctionOnSet(w, s) = 0 /\ SumFunctionOnSet(v, s) = 0
      /\ \A x \in s : /\ SumFunctionOnSet(w, s) = w[x] + SumFunctionOnSet(w, s \ {x})
                      /\ SumFunctionOnSet(v, s) = v[x] + SumFunctionOnSet(v, s \ {x})
  BY <1>2, SumOverSet
<1>4. PICK x \in s : TRUE
  BY <1>2, <1>3
<1>5. SumFunctionOnSet(w, s \ {x}) <= SumFunctionOnSet(v, s \ {x})
  BY <1>1, <1>2
<1>6. SumFunctionOnSet(w, s \ {x}) \in Nat /\ SumFunctionOnSet(v, s \ {x}) \in Nat
  <2>1. IsFiniteSet(s \ {x}) /\ \A i \in s \ {x} : w[i] \in Nat /\ v[i] \in Nat
    BY <1>2, FS_RemoveElement
  <2> QED BY <2>1, SumOverSet
<1>7. w[x] \in Nat /\ v[x] \in Nat /\ w[x] <= v[x]
  BY <1>2
<1> QED BY <1>2, <1>3, <1>5, <1>6, <1>7

\* Functions that agree on a set have the same sum over it.
LEMMA SumOfSame ==
    ASSUME NEW I, IsFiniteSet(I), NEW w, \A i \in I : w[i] \in Nat,
           NEW v, \A i \in I : v[i] = w[i]
    PROVE  SumFunctionOnSet(v, I) = SumFunctionOnSet(w, I)
<1> DEFINE g == CHOOSE h : IsSum(h, w, I)
           k == CHOOSE h : IsSum(h, v, I)
<1>1. IsSum(g, w, I) /\ IsSum(k, v, I)
  BY SumExists
<1>2. SumFunctionOnSet(w, I) = g[I] /\ SumFunctionOnSet(v, I) = k[I]
  BY DEF SumFunctionOnSet, FoldFunctionOnSet, MapThenFoldSet, IsSum
<1>3. I \in SUBSET I
  OBVIOUS
<1> HIDE DEF g, k
<1>4. g[I] = k[I]
  BY <1>1, <1>3, SumIsUnique
<1> QED BY <1>2, <1>4

-----------------------------------------------------------------------------
(***************************************************************************)
(* Ranks: how many members of a finite set come before one of them         *)
(***************************************************************************)
\* The members of S that <<earlier, later>> pairs put before x, and how many they are.
Before(x, S, pairs) == {y \in S : <<y, x>> \in pairs}
RankIn(S, pairs) == [x \in S |-> Cardinality(Before(x, S, pairs))]

\* The order is total.
IsTotalOrder(S, pairs) ==
    /\ \A x \in S : <<x, x>> \notin pairs
    /\ \A x, y, z \in S : <<x, y>> \in pairs /\ <<y, z>> \in pairs => <<x, z>> \in pairs
    /\ \A x, y \in S : x # y => <<x, y>> \in pairs \/ <<y, x>> \in pairs

\* The ranks grow with the order, and every number below the size of S is one.
AreRanks(rank, S, pairs) ==
    /\ Cardinality(S) \in Nat
    /\ rank \in [S -> 0 .. Cardinality(S) - 1]
    /\ \A x, y \in S : <<x, y>> \in pairs <=> rank[x] < rank[y]
    /\ \A x, y \in S : rank[x] = rank[y] => x = y
    /\ \A i \in 0 .. Cardinality(S) - 1 : \E x \in S : rank[x] = i

\* The order of numbers.
Less(S) == {pair \in S \X S : pair[1] < pair[2]}

\* In a total order of a finite set the ranks grow with the order, and every number
\* below the size of the set is the rank of a member.
LEMMA RanksOfAnOrder ==
    ASSUME NEW S, IsFiniteSet(S), NEW pairs, IsTotalOrder(S, pairs)
    PROVE  AreRanks(RankIn(S, pairs), S, pairs)
<1> DEFINE before(x) == Before(x, S, pairs)
           rank == RankIn(S, pairs)
           n == Cardinality(S)
<1> USE DEF IsTotalOrder
<1>1. n \in Nat
  BY FS_CardinalityType
<1>2. ASSUME NEW x \in S
      PROVE  /\ IsFiniteSet(before(x))
             /\ Cardinality(before(x)) \in Nat
             /\ Cardinality(before(x)) \in 0 .. n - 1
             /\ rank[x] = Cardinality(before(x))
  <2>1. before(x) \in SUBSET S /\ before(x) # S
    BY DEF Before
  <2> HIDE DEF before
  <2>2. IsFiniteSet(before(x)) /\ Cardinality(before(x)) <= n /\ Cardinality(before(x)) # n
    BY <2>1, FS_Subset
  <2>3. Cardinality(before(x)) \in Nat
    BY <2>2, FS_CardinalityType
  <2>4. rank[x] = Cardinality(before(x))
    BY DEF before, RankIn
  <2> QED BY <1>1, <2>2, <2>3, <2>4
<1>3. ASSUME NEW x \in S, NEW y \in S, <<x, y>> \in pairs PROVE rank[x] < rank[y]
  <2>1. before(x) \in SUBSET before(y) /\ before(x) # before(y)
    BY <1>3 DEF Before
  <2> HIDE DEF before
  <2>2. /\ Cardinality(before(x)) <= Cardinality(before(y))
        /\ Cardinality(before(x)) # Cardinality(before(y))
    BY <1>2, <2>1, FS_Subset
  <2>3. Cardinality(before(x)) \in Nat /\ Cardinality(before(y)) \in Nat
    BY <1>2
  <2> QED BY <1>2, <2>2, <2>3
<1> HIDE DEF before, rank
<1>4. rank \in [S -> 0 .. n - 1]
  <2>1. rank = [x \in S |-> rank[x]]
    BY DEF rank, RankIn
  <2> QED BY <1>2, <2>1
<1>5. ASSUME NEW x \in S, NEW y \in S
      PROVE  (<<x, y>> \in pairs <=> rank[x] < rank[y]) /\ (rank[x] = rank[y] => x = y)
  <2>1. rank[x] \in Nat /\ rank[y] \in Nat
    BY <1>1, <1>4
  <2>2. CASE x = y
    BY <2>1, <2>2
  <2>3. CASE <<x, y>> \in pairs
    <3>1. rank[x] < rank[y]
      BY <1>3, <2>3
    <3> QED BY <2>1, <2>3, <3>1
  <2>4. CASE <<y, x>> \in pairs
    <3>1. rank[y] < rank[x]
      BY <1>3, <2>4
    <3>2. <<x, y>> \notin pairs
      BY <2>4
    <3> QED BY <2>1, <3>1, <3>2
  <2> QED BY <2>2, <2>3, <2>4
<1>6. rank \in Surjection(S, 0 .. n - 1)
  <2>1. IsFiniteSet(0 .. n - 1) /\ Cardinality(0 .. n - 1) = n
    <3>1. 0 \in Int /\ n - 1 \in Int
      BY <1>1
    <3>2. /\ IsFiniteSet(0 .. n - 1)
          /\ Cardinality(0 .. n - 1) = IF 0 > n - 1 THEN 0 ELSE n - 1 - 0 + 1
      BY ONLY <3>1, FS_Interval
    <3> QED BY <1>1, <3>2
  <2>2. rank \in Injection(S, 0 .. n - 1)
    BY <1>4, <1>5 DEF Injection, IsInjective
  <2> QED BY <2>1, <2>2, FS_Injection
<1>7. \A i \in 0 .. n - 1 : \E x \in S : rank[x] = i
  BY <1>6 DEF Surjection
<1> QED BY <1>1, <1>4, <1>5, <1>7 DEF AreRanks, rank

\* Numbers are totally ordered.
LEMMA NumbersAreOrdered ==
    ASSUME NEW S \in SUBSET Nat
    PROVE  /\ IsTotalOrder(S, Less(S))
           /\ \A x, y \in S : <<x, y>> \in Less(S) <=> x < y
           /\ \A x \in S : Before(x, S, Less(S)) = {y \in S : y < x}
<1>1. \A x, y \in S : <<x, y>> \in Less(S) <=> x < y
  BY DEF Less
<1>2. IsTotalOrder(S, Less(S))
  <2>1. \A x, y, z \in S : x < y /\ y < z => x < z
    OBVIOUS
  <2> QED BY <1>1, <2>1 DEF IsTotalOrder
<1>3. \A x \in S : Before(x, S, Less(S)) = {y \in S : y < x}
  BY <1>1 DEF Before
<1> QED BY <1>1, <1>2, <1>3

\* The members of a finite set of numbers that fewer than n others precede are n,
\* or all there are.
LEMMA SizeOfTheLeast ==
    ASSUME NEW S \in SUBSET Nat, IsFiniteSet(S), NEW n \in Nat,
           NEW least, least = {x \in S : Cardinality({y \in S : y < x}) < n}
    PROVE  Cardinality(least) = IF Cardinality(S) < n THEN Cardinality(S) ELSE n
<1> DEFINE rank == RankIn(S, Less(S))
           all == Cardinality(S)
           m == IF all < n THEN all ELSE n
           f == [x \in least |-> rank[x]]
<1>1. /\ all \in Nat
      /\ rank \in [S -> 0 .. all - 1]
      /\ \A x, y \in S : rank[x] = rank[y] => x = y
      /\ \A i \in 0 .. all - 1 : \E x \in S : rank[x] = i
  <2>1. AreRanks(rank, S, Less(S))
    BY RanksOfAnOrder, NumbersAreOrdered
  <2> HIDE DEF rank
  <2> QED BY <2>1 DEF AreRanks
<1>2. least = {x \in S : rank[x] < n}
  <2>1. \A x \in S : rank[x] = Cardinality({y \in S : y < x})
    BY NumbersAreOrdered DEF RankIn
  <2> HIDE DEF rank
  <2> QED BY <2>1
<1> HIDE DEF rank, all
<1>3. m \in Nat /\ m <= n /\ m <= all /\ (m = n \/ m = all)
  BY <1>1
<1>4. f \in [least -> 0 .. m - 1]
  <2> SUFFICES ASSUME NEW x \in least PROVE rank[x] \in 0 .. m - 1
    OBVIOUS
  <2>1. rank[x] \in 0 .. all - 1 /\ rank[x] < n
    BY <1>1, <1>2
  <2> QED BY <1>1, <1>3, <2>1
<1>5. \A x, y \in least : f[x] = f[y] => x = y
  BY <1>1, <1>2
<1>6. ASSUME NEW i \in 0 .. m - 1 PROVE \E x \in least : f[x] = i
  <2>1. i \in 0 .. all - 1 /\ i < n
    BY <1>1, <1>3
  <2> QED BY <1>1, <1>2, <2>1
<1> HIDE DEF f, m
<1>7. f \in Bijection(least, 0 .. m - 1)
  BY <1>4, <1>5, <1>6 DEF Bijection, Injection, Surjection, IsInjective
<1>8. IsFiniteSet(least)
  BY <1>2, FS_Subset
<1>9. Cardinality(0 .. m - 1) = Cardinality(least)
  BY <1>7, <1>8, FS_Bijection DEF ExistsBijection
<1>10. Cardinality(0 .. m - 1) = m
  <2>1. 0 \in Int /\ m - 1 \in Int
    BY <1>3
  <2>2. Cardinality(0 .. m - 1) = IF 0 > m - 1 THEN 0 ELSE m - 1 - 0 + 1
    BY ONLY <2>1, FS_Interval
  <2> QED BY <1>3, <2>2
<1> QED BY <1>9, <1>10 DEF m, all

\* Adding an entry to a sequence of numbers adds it to their sum.
LEMMA SumOfOneMore ==
    ASSUME NEW n \in Nat, NEW before, DOMAIN before = 1 .. n,
           NEW after, DOMAIN after = 1 .. n + 1,
           \A i \in 1 .. n : before[i] \in Nat /\ after[i] = before[i],
           after[n + 1] \in Nat
    PROVE  /\ SumFunction(before) \in Nat
           /\ SumFunction(after) = SumFunction(before) + after[n + 1]
<1> DEFINE I == 1 .. n + 1
<1>1. \A i \in I : i \in 1 .. n \/ i = n + 1
  OBVIOUS
<1>2. IsFiniteSet(1 .. n) /\ IsFiniteSet(I)
  <2>1. 1 \in Int /\ n \in Int /\ n + 1 \in Int
    OBVIOUS
  <2> QED BY ONLY <2>1, FS_Interval
<1>3. n + 1 \in I /\ I \ {n + 1} = 1 .. n
  OBVIOUS
<1> HIDE DEF I
<1>4. \A i \in I : after[i] \in Nat
  BY <1>1
<1>5. SumFunctionOnSet(after, I) = after[n + 1] + SumFunctionOnSet(after, I \ {n + 1})
  BY <1>2, <1>3, <1>4, SumOverSet
<1>6. SumFunctionOnSet(after, 1 .. n) = SumFunctionOnSet(before, 1 .. n)
  BY <1>2, SumOfSame
<1>7. SumFunctionOnSet(before, 1 .. n) \in Nat
  BY <1>2, SumOverSet
<1>8. /\ SumFunction(before) = SumFunctionOnSet(before, 1 .. n)
      /\ SumFunction(after) = SumFunctionOnSet(after, I)
  BY DEF SumFunction, I
<1>9. SumFunction(after) = after[n + 1] + SumFunction(before)
  BY ONLY <1>3, <1>5, <1>6, <1>8
<1>10. SumFunction(before) \in Nat
  BY ONLY <1>7, <1>8
<1>11. after[n + 1] + SumFunction(before) = SumFunction(before) + after[n + 1]
  BY <1>10
<1> QED BY <1>9, <1>10, <1>11

\* Nothing adds up to 0.
LEMMA SumOfNone == ASSUME NEW none, DOMAIN none = {} PROVE SumFunction(none) = 0
<1>1. IsFiniteSet({}) /\ SumFunction(none) = SumFunctionOnSet(none, {})
  BY FS_EmptySet DEF SumFunction
<1> QED BY <1>1, SumOverSet
=============================================================================

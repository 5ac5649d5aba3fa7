------------------------ MODULE LMarkerUtilities_proofs ------------------------
(***************************************************************************)
(* Proofs about LMarkerUtilities: whatever levels a regrid produces and    *)
(* however the markers move in between, every marker is found again and    *)
(* sorted into the finest level that covers it, and a regrid to at most    *)
(* two levels does not multiply it.                                        *)
(***************************************************************************)
EXTENDS LMarkerUtilities, FiniteSetTheorems, WellFoundedInduction, SequenceTheorems, TLAPS

-----------------------------------------------------------------------------
(* Induction *)

\* The induction rules are stated for sets: the set of what a claim holds of.

\* A set of numbers that is not empty has a least element.
LEMMA LeastElement ==
  ASSUME NEW T \in SUBSET Nat, T # {}
  PROVE  \E m \in T : \A k \in T : m <= k
<1> DEFINE R == OpToRel(<, Nat)
<1>1. IsWellFoundedOn(R, Nat)
  BY NatLessThanWellFounded
<1> HIDE DEF R
<1>2. PICK m \in T : \A k \in T : ~ (<<k, m>> \in R)
  BY <1>1, WFMin
<1>3. \A j, k \in Nat : j < k => <<j, k>> \in R
  BY DEF R, OpToRel
<1>4. ASSUME NEW k \in T PROVE m <= k
  <2>1. m \in Nat /\ k \in Nat /\ ~ (k < m)
    BY <1>2, <1>3
  <2> QED BY <2>1
<1> QED BY <1>4

\* A set of numbers that contains zero and with each number the next one
\* contains them all.
LEMMA SetInduction ==
  ASSUME NEW S \in SUBSET Nat, 0 \in S, \A n \in S : n + 1 \in S
  PROVE  S = Nat
<1> SUFFICES ASSUME Nat \ S # {} PROVE FALSE
  OBVIOUS
<1>1. PICK m \in Nat \ S : \A k \in Nat \ S : m <= k
  BY LeastElement
<1>2. m - 1 \in Nat /\ m = (m - 1) + 1
  OBVIOUS
<1>3. m - 1 \in S
  BY <1>1, <1>2
<1> QED BY <1>2, <1>3

\* A family of subsets of a finite set that contains the empty set, and with
\* a subset every one that has an element more, contains the whole set.
LEMMA FiniteInduction ==
  ASSUME NEW S, IsFiniteSet(S), NEW P \in SUBSET SUBSET S, {} \in P,
         \A s \in P : \A x \in S \ s : s \cup {x} \in P
  PROVE  S \in P
<1> DEFINE Good == {n \in Nat : \A s \in SUBSET S : Cardinality(s) = n => s \in P}
<1>1. \A s \in SUBSET S : IsFiniteSet(s) /\ Cardinality(s) \in Nat
  BY FS_Subset, FS_CardinalityType
<1>2. 0 \in Good
  BY <1>1, FS_EmptySet
<1>3. ASSUME NEW n \in Good PROVE n + 1 \in Good
  <2> SUFFICES ASSUME NEW s \in SUBSET S, Cardinality(s) = n + 1 PROVE s \in P
    OBVIOUS
  <2>1. s # {}
    <3>1. n \in Nat /\ n + 1 # 0
      OBVIOUS
    <3> QED BY <3>1, FS_EmptySet
  <2>2. PICK x \in s : TRUE
    BY <2>1
  <2>3. Cardinality(s \ {x}) = n
    <3>1. Cardinality(s \ {x}) = Cardinality(s) - 1
      BY <1>1, FS_RemoveElement
    <3> QED BY <3>1
  <2>4. s \ {x} \in P /\ x \in S \ (s \ {x}) /\ (s \ {x}) \cup {x} = s
    BY <2>3
  <2> QED BY <2>4
<1>4. Good = Nat
  <2> HIDE DEF Good
  <2>1. Good \in SUBSET Nat
    BY DEF Good
  <2> QED BY <1>2, <1>3, <2>1, SetInduction
<1> QED BY <1>1, <1>4

-----------------------------------------------------------------------------
(* Sums over finite sets *)

Chosen(s) == CHOOSE x \in s : TRUE

\* The table of the sums over all subsets of S that SumFunctionOnSet computes.
SumTable(g, f, S) ==
    g = [s \in SUBSET S |-> IF s = {} THEN 0 ELSE f[Chosen(s)] + g[s \ {Chosen(s)}]]

LEMMA SumUnfolded ==
  ASSUME NEW f, NEW S
  PROVE  SumFunctionOnSet(f, S) = (CHOOSE g : SumTable(g, f, S))[S]
  BY Zenon DEF SumFunctionOnSet, FoldFunctionOnSet, MapThenFoldSet, SumTable, Chosen

LEMMA SumTableExists ==
  ASSUME NEW f, NEW S, IsFiniteSet(S)
  PROVE  \E g : SumTable(g, f, S)
<1> DEFINE Small(n) == {s \in SUBSET S : Cardinality(s) <= n}
           Rule(g, s) == IF s = {} THEN 0 ELSE f[Chosen(s)] + g[s \ {Chosen(s)}]
           Good == {n \in Nat : \E g : g = [s \in Small(n) |-> Rule(g, s)]}
<1>1. \A s \in SUBSET S : IsFiniteSet(s) /\ Cardinality(s) \in Nat
  BY FS_Subset, FS_CardinalityType
<1>2. \A s \in SUBSET S : s # {} => Chosen(s) \in s
  BY DEF Chosen
<1>3. ASSUME NEW n \in Nat, NEW s \in Small(n + 1), s # {}
      PROVE  s \ {Chosen(s)} \in Small(n)
  <2>1. Cardinality(s \ {Chosen(s)}) = Cardinality(s) - 1
    BY <1>1, <1>2, <1>3, FS_RemoveElement
  <2> QED BY <1>1, <1>3, <2>1
<1>4. 0 \in Good
  <2> DEFINE g == [s \in Small(0) |-> 0]
  <2>1. \A s \in Small(0) : s = {}
    BY <1>1, FS_EmptySet
  <2>2. g = [s \in Small(0) |-> Rule(g, s)]
    BY <2>1
  <2> HIDE DEF g
  <2> QED BY <2>2
<1>5. ASSUME NEW n \in Good PROVE n + 1 \in Good
  <2>1. PICK g : g = [s \in Small(n) |-> Rule(g, s)]
    OBVIOUS
  <2> DEFINE h == [s \in Small(n + 1) |-> Rule(g, s)]
  <2> HIDE DEF Rule, Small
  <2>2. \A s \in Small(n) : s \in Small(n + 1) /\ h[s] = g[s]
    <3>1. \A s \in Small(n) : s \in Small(n + 1)
      BY <1>1 DEF Small
    <3>2. \A s \in Small(n) : g[s] = Rule(g, s)
      BY <2>1
    <3> QED BY <3>1, <3>2
  <2>3. \A s \in Small(n + 1) : Rule(h, s) = Rule(g, s)
    BY <1>3, <2>2 DEF Rule
  <2>4. h = [s \in Small(n + 1) |-> Rule(h, s)]
    BY <2>3
  <2> HIDE DEF h
  <2> QED BY <2>4
<1>6. Good = Nat
  <2> HIDE DEF Good
  <2>1. Good \in SUBSET Nat
    BY DEF Good
  <2> QED BY <1>4, <1>5, <2>1, SetInduction
<1>7. Small(Cardinality(S)) = SUBSET S
  BY FS_Subset
<1>8. Cardinality(S) \in Good
  BY <1>1, <1>6
<1> HIDE DEF Small
<1> QED BY <1>7, <1>8 DEF SumTable

\* The tables of functions that agree have the same entries.
LEMMA SumTablesAgree ==
  ASSUME NEW f, NEW S, IsFiniteSet(S), NEW g, SumTable(g, f, S),
         NEW e, NEW T \in SUBSET S, NEW h, SumTable(h, e, T),
         \A x \in T : e[x] = f[x]
  PROVE  \A s \in SUBSET T : h[s] = g[s]
<1> DEFINE P == {s \in SUBSET T : h[s] = g[s]}
           Bad == {Cardinality(s) : s \in (SUBSET T) \ P}
<1>1. \A s \in SUBSET T : IsFiniteSet(s) /\ Cardinality(s) \in Nat /\ s \in SUBSET S
  BY FS_Subset, FS_CardinalityType
<1>2. SUFFICES ASSUME Bad # {} PROVE FALSE
  OBVIOUS
<1>3. Bad \in SUBSET Nat
  BY <1>1
<1>4. PICK n \in Bad : \A k \in Bad : n <= k
  <2> HIDE DEF Bad
  <2> QED BY <1>2, <1>3, LeastElement
<1>5. PICK s \in (SUBSET T) \ P : Cardinality(s) = n
  OBVIOUS
<1>6. /\ g[s] = IF s = {} THEN 0 ELSE f[Chosen(s)] + g[s \ {Chosen(s)}]
      /\ h[s] = IF s = {} THEN 0 ELSE e[Chosen(s)] + h[s \ {Chosen(s)}]
  BY <1>1 DEF SumTable
<1>7. s # {} /\ Chosen(s) \in s
  BY <1>6 DEF Chosen
<1>8. Cardinality(s \ {Chosen(s)}) = Cardinality(s) - 1
  BY <1>1, <1>7, FS_RemoveElement
<1>9. s \ {Chosen(s)} \in P
  <2>1. s \ {Chosen(s)} \in SUBSET T
    OBVIOUS
  <2>2. n \in Nat /\ Cardinality(s \ {Chosen(s)}) = n - 1
    BY <1>1, <1>5, <1>8
  <2>3. Cardinality(s \ {Chosen(s)}) \notin Bad
    BY <1>4, <2>2
  <2> QED BY <2>1, <2>3
<1> QED BY <1>5, <1>6, <1>7, <1>9

LEMMA SumOverNothing ==
  ASSUME NEW f
  PROVE  SumFunctionOnSet(f, {}) = 0
<1>1. PICK g : SumTable(g, f, {})
  BY SumTableExists, FS_EmptySet
<1> DEFINE h == CHOOSE g1 : SumTable(g1, f, {})
<1>2. SumTable(h, f, {})
  BY <1>1
<1> HIDE DEF h
<1>3. h[{}] = 0
  BY <1>2 DEF SumTable
<1> QED BY <1>3, SumUnfolded DEF h

\* The sum depends on the values in the set only.
LEMMA SumCongruent ==
  ASSUME NEW f, NEW e, NEW S, IsFiniteSet(S), \A x \in S : e[x] = f[x]
  PROVE  SumFunctionOnSet(e, S) = SumFunctionOnSet(f, S)
<1> DEFINE g == CHOOSE g1 : SumTable(g1, f, S)
           h == CHOOSE h1 : SumTable(h1, e, S)
<1>1. SumTable(g, f, S) /\ SumTable(h, e, S)
  BY SumTableExists
<1>2. SumFunctionOnSet(f, S) = g[S] /\ SumFunctionOnSet(e, S) = h[S]
  BY SumUnfolded
<1> HIDE DEF g, h
<1>3. \A s \in SUBSET S : h[s] = g[s]
  BY <1>1, SumTablesAgree
<1> QED BY <1>2, <1>3

\* The sum begins with some element.
LEMMA SumBegins ==
  ASSUME NEW f, NEW S, IsFiniteSet(S), S # {}
  PROVE  SumFunctionOnSet(f, S) = f[Chosen(S)] + SumFunctionOnSet(f, S \ {Chosen(S)})
<1> DEFINE T == S \ {Chosen(S)}
           g == CHOOSE g1 : SumTable(g1, f, S)
           h == CHOOSE h1 : SumTable(h1, f, T)
<1>1. IsFiniteSet(T)
  BY FS_Subset
<1>2. SumTable(g, f, S) /\ SumTable(h, f, T)
  BY <1>1, SumTableExists
<1>3. SumFunctionOnSet(f, S) = g[S] /\ SumFunctionOnSet(f, T) = h[T]
  BY SumUnfolded
<1> HIDE DEF g, h
<1>4. T \in SUBSET S
  OBVIOUS
<1>5. \A s \in SUBSET T : h[s] = g[s]
  <2> DEFINE e == f
  <2>1. SumTable(g, f, S) /\ SumTable(h, e, T) /\ \A x \in T : e[x] = f[x]
    BY <1>2
  <2> HIDE DEF T, e
  <2> QED BY <1>4, <2>1, SumTablesAgree
<1>6. g[S] = f[Chosen(S)] + g[T]
  BY <1>2 DEF SumTable
<1> QED BY <1>3, <1>5, <1>6

LEMMA SumType ==
  ASSUME NEW f, NEW S, IsFiniteSet(S), \A x \in S : f[x] \in Int
  PROVE  SumFunctionOnSet(f, S) \in Int
<1> DEFINE Bad == {Cardinality(s) : s \in {t \in SUBSET S : SumFunctionOnSet(f, t) \notin Int}}
<1>1. \A s \in SUBSET S : IsFiniteSet(s) /\ Cardinality(s) \in Nat
  BY FS_Subset, FS_CardinalityType
<1>2. SUFFICES ASSUME Bad # {} PROVE FALSE
  OBVIOUS
<1>3. PICK n \in Bad : \A k \in Bad : n <= k
  <2>1. Bad \in SUBSET Nat
    BY <1>1
  <2> HIDE DEF Bad
  <2> QED BY <1>2, <2>1, LeastElement
<1>4. PICK s \in SUBSET S : SumFunctionOnSet(f, s) \notin Int /\ Cardinality(s) = n
  OBVIOUS
<1>5. s # {}
  BY <1>4, SumOverNothing
<1>6. Chosen(s) \in s
  BY <1>5 DEF Chosen
<1>7. SumFunctionOnSet(f, s) = f[Chosen(s)] + SumFunctionOnSet(f, s \ {Chosen(s)})
  BY <1>1, <1>5, SumBegins
<1>8. Cardinality(s \ {Chosen(s)}) = Cardinality(s) - 1
  BY <1>1, <1>6, FS_RemoveElement
<1>9. SumFunctionOnSet(f, s \ {Chosen(s)}) \in Int
  <2>1. s \ {Chosen(s)} \in SUBSET S
    OBVIOUS
  <2>2. n \in Nat /\ Cardinality(s \ {Chosen(s)}) = n - 1
    BY <1>1, <1>4, <1>8
  <2>3. Cardinality(s \ {Chosen(s)}) \notin Bad
    BY <1>3, <2>2
  <2> QED BY <2>1, <2>3
<1> QED BY <1>4, <1>6, <1>7, <1>9

\* Every element can be taken out first.
LEMMA SumTakesOut ==
  ASSUME NEW f, NEW S, IsFiniteSet(S), \A x \in S : f[x] \in Int, NEW y \in S
  PROVE  SumFunctionOnSet(f, S) = f[y] + SumFunctionOnSet(f, S \ {y})
<1> DEFINE Sum(s) == SumFunctionOnSet(f, s)
           Right(s) == \A x \in s : Sum(s) = f[x] + Sum(s \ {x})
           Bad == {Cardinality(s) : s \in {t \in SUBSET S : ~Right(t)}}
<1>1. \A s \in SUBSET S : IsFiniteSet(s) /\ Cardinality(s) \in Nat /\ Sum(s) \in Int
  BY FS_Subset, FS_CardinalityType, SumType
<1>2. ASSUME NEW s \in SUBSET S, NEW x \in s
      PROVE  Cardinality(s \ {x}) = Cardinality(s) - 1
  BY <1>1, FS_RemoveElement
<1>3. \A s \in SUBSET S : s # {} => Chosen(s) \in s /\ Sum(s) = f[Chosen(s)] + Sum(s \ {Chosen(s)})
  BY <1>1, SumBegins DEF Chosen
<1> HIDE DEF Sum
<1>4. Bad = {}
  <2> SUFFICES ASSUME Bad # {} PROVE FALSE
    OBVIOUS
  <2>1. PICK n \in Bad : \A k \in Bad : n <= k
    <3>1. Bad \in SUBSET Nat
      BY <1>1
    <3> HIDE DEF Bad
    <3> QED BY <3>1, LeastElement
  <2>2. PICK s \in SUBSET S : ~Right(s) /\ Cardinality(s) = n
    OBVIOUS
  <2>3. PICK x \in s : Sum(s) # f[x] + Sum(s \ {x})
    BY <2>2
  <2> DEFINE c == Chosen(s)
  <2>4. c \in s /\ Sum(s) = f[c] + Sum(s \ {c}) /\ c # x
    BY <1>3, <2>3
  <2> HIDE DEF c
  <2>5. \A z \in s : Right(s \ {z})
    <3> SUFFICES ASSUME NEW z \in s PROVE Right(s \ {z})
      OBVIOUS
    <3>1. s \ {z} \in SUBSET S /\ n \in Nat /\ Cardinality(s \ {z}) = n - 1
      BY <1>1, <1>2, <2>2
    <3>2. Cardinality(s \ {z}) \notin Bad
      BY <2>1, <3>1
    <3> QED BY <3>1, <3>2
  <2>6. /\ Sum(s \ {c}) = f[x] + Sum((s \ {c}) \ {x})
        /\ Sum(s \ {x}) = f[c] + Sum((s \ {x}) \ {c})
    BY <2>3, <2>4, <2>5
  <2>7. (s \ {c}) \ {x} = (s \ {x}) \ {c}
    OBVIOUS
  <2> DEFINE rest == Sum((s \ {x}) \ {c})
  <2>8. f[x] \in Int /\ f[c] \in Int /\ rest \in Int
    BY <1>1, <2>4
  <2>9. /\ Sum(s) = f[c] + Sum(s \ {c}) /\ Sum(s \ {c}) = f[x] + rest
        /\ Sum(s \ {x}) = f[c] + rest
    BY <2>4, <2>6, <2>7
  <2> HIDE DEF rest
  <2>10. Sum(s) = f[x] + Sum(s \ {x})
    BY <2>8, <2>9
  <2> QED BY <2>3, <2>10
<1>5. Right(S)
  BY <1>4
<1> QED BY <1>5 DEF Sum

LEMMA SumAdds ==
  ASSUME NEW f, NEW S, IsFiniteSet(S), NEW y, y \notin S, \A x \in S \cup {y} : f[x] \in Int
  PROVE  SumFunctionOnSet(f, S \cup {y}) = f[y] + SumFunctionOnSet(f, S)
<1>1. IsFiniteSet(S \cup {y}) /\ (S \cup {y}) \ {y} = S
  BY FS_AddElement
<1> QED BY <1>1, SumTakesOut

LEMMA SumOfUnion ==
  ASSUME NEW f, NEW S, NEW T, IsFiniteSet(S), IsFiniteSet(T), S \cap T = {},
         \A x \in S \cup T : f[x] \in Int
  PROVE  SumFunctionOnSet(f, S \cup T) = SumFunctionOnSet(f, S) + SumFunctionOnSet(f, T)
<1> DEFINE Sum(s) == SumFunctionOnSet(f, s)
           P == {s \in SUBSET T : Sum(S \cup s) = Sum(S) + Sum(s)}
<1>1. \A s \in SUBSET T : IsFiniteSet(s) /\ IsFiniteSet(S \cup s) /\ Sum(s) \in Int
  BY FS_Subset, FS_Union, SumType
<1>2. Sum(S) \in Int
  BY SumType
<1>3. {} \in P
  BY <1>2, SumOverNothing
<1>4. ASSUME NEW s \in P, NEW y \in T \ s PROVE s \cup {y} \in P
  <2>1. y \notin S /\ y \notin s /\ y \notin S \cup s /\ s \in SUBSET T
    OBVIOUS
  <2>2. Sum(s \cup {y}) = f[y] + Sum(s)
    BY <1>1, <2>1, SumAdds
  <2>3. Sum((S \cup s) \cup {y}) = f[y] + Sum(S \cup s)
    BY <1>1, <2>1, SumAdds
  <2>4. (S \cup s) \cup {y} = S \cup (s \cup {y})
    OBVIOUS
  <2>5. f[y] \in Int /\ Sum(s) \in Int /\ Sum(S \cup s) = Sum(S) + Sum(s)
    BY <1>1
  <2>6. Sum(S \cup (s \cup {y})) = Sum(S) + Sum(s \cup {y})
    <3>1. Sum(S \cup (s \cup {y})) = f[y] + (Sum(S) + Sum(s))
      BY <2>3, <2>4, <2>5
    <3> HIDE DEF Sum
    <3> QED BY <1>2, <2>2, <2>5, <3>1
  <2> QED BY <2>1, <2>6
<1>5. T \in P
  <2> HIDE DEF P
  <2>1. P \in SUBSET SUBSET T
    BY DEF P
  <2> QED BY <1>3, <1>4, <2>1, FiniteInduction
<1> QED BY <1>5

LEMMA SumIsNatural ==
  ASSUME NEW f, NEW S, IsFiniteSet(S), \A x \in S : f[x] \in Nat
  PROVE  SumFunctionOnSet(f, S) \in Nat
<1> DEFINE Sum(s) == SumFunctionOnSet(f, s)
           P == {s \in SUBSET S : Sum(s) \in Nat}
<1>1. {} \in P
  BY SumOverNothing
<1>2. ASSUME NEW s \in P, NEW y \in S \ s PROVE s \cup {y} \in P
  <2>1. IsFiniteSet(s)
    BY FS_Subset
  <2>2. Sum(s \cup {y}) = f[y] + Sum(s)
    BY <2>1, SumAdds
  <2> QED BY <2>2
<1>3. S \in P
  <2> HIDE DEF P
  <2>1. P \in SUBSET SUBSET S
    BY DEF P
  <2> QED BY <1>1, <1>2, <2>1, FiniteInduction
<1> QED BY <1>3

\* A sum of natural numbers with a positive one is positive.
LEMMA SumIsPositive ==
  ASSUME NEW f, NEW S, IsFiniteSet(S), \A x \in S : f[x] \in Nat, NEW y \in S, f[y] > 0
  PROVE  SumFunctionOnSet(f, S) > 0
<1>1. IsFiniteSet(S \ {y})
  BY FS_Subset
<1>2. SumFunctionOnSet(f, S \ {y}) \in Nat
  BY <1>1, SumIsNatural
<1>3. SumFunctionOnSet(f, S) = f[y] + SumFunctionOnSet(f, S \ {y})
  BY SumTakesOut
<1> QED BY <1>2, <1>3

\* The sum of the sums over the parts of a set that have the same image is the
\* sum over the set.
LEMMA SumOfParts ==
  ASSUME NEW f, NEW S, IsFiniteSet(S), \A x \in S : f[x] \in Int,
         NEW image, NEW T, IsFiniteSet(T),
         NEW part, \A y \in T : part[y] = SumFunctionOnSet(f, {x \in S : image[x] = y})
  PROVE  SumFunctionOnSet(part, T) = SumFunctionOnSet(f, {x \in S : image[x] \in T})
<1> DEFINE Sum(s) == SumFunctionOnSet(f, s)
           Over(U) == {x \in S : image[x] \in U}
           P == {U \in SUBSET T : SumFunctionOnSet(part, U) = Sum(Over(U))}
<1>1. \A s \in SUBSET S : IsFiniteSet(s) /\ Sum(s) \in Int
  BY FS_Subset, SumType
<1>2. \A y \in T : part[y] \in Int
  BY <1>1
<1>3. {} \in P
  <2>1. Over({}) = {}
    OBVIOUS
  <2> QED BY <2>1, SumOverNothing
<1>4. ASSUME NEW U \in P, NEW y \in T \ U PROVE U \cup {y} \in P
  <2> DEFINE same == {x \in S : image[x] = y}
  <2>1. Over(U \cup {y}) = Over(U) \cup same /\ Over(U) \cap same = {}
    OBVIOUS
  <2>2. Over(U) \in SUBSET S /\ same \in SUBSET S
    OBVIOUS
  <2>3. Sum(Over(U \cup {y})) = Sum(Over(U)) + Sum(same)
    <3> HIDE DEF Over, same
    <3>1. Sum(Over(U) \cup same) = Sum(Over(U)) + Sum(same)
      BY <1>1, <2>1, <2>2, SumOfUnion
    <3> QED BY <2>1, <3>1
  <2>4. SumFunctionOnSet(part, U \cup {y}) = part[y] + SumFunctionOnSet(part, U)
    <3>1. IsFiniteSet(U)
      BY FS_Subset
    <3> QED BY <1>2, <3>1, SumAdds
  <2>5. part[y] = Sum(same) /\ Sum(same) \in Int /\ Sum(Over(U)) \in Int
        /\ SumFunctionOnSet(part, U) = Sum(Over(U))
    BY <1>1, <2>2
  <2> HIDE DEF Sum, Over, same
  <2>6. SumFunctionOnSet(part, U \cup {y}) = Sum(Over(U \cup {y}))
    BY <2>3, <2>4, <2>5
  <2> QED BY <2>6
<1>5. T \in P
  <2> HIDE DEF P
  <2>1. P \in SUBSET SUBSET T
    BY DEF P
  <2> QED BY <1>3, <1>4, <2>1, FiniteInduction
<1> QED BY <1>5

\* The image of a finite set under a function is finite.
LEMMA ImageIsFinite ==
  ASSUME NEW S, IsFiniteSet(S), NEW f
  PROVE  IsFiniteSet({f[x] : x \in S})
<1> DEFINE P == {s \in SUBSET S : IsFiniteSet({f[x] : x \in s})}
<1>1. {} \in P
  <2>1. {f[x] : x \in {}} = {}
    OBVIOUS
  <2> QED BY <2>1, FS_EmptySet
<1>2. ASSUME NEW s \in P, NEW y \in S \ s PROVE s \cup {y} \in P
  <2>1. {f[x] : x \in s \cup {y}} = {f[x] : x \in s} \cup {f[y]}
    OBVIOUS
  <2> DEFINE T == {f[x] : x \in s}
  <2>2. IsFiniteSet(T)
    OBVIOUS
  <2> HIDE DEF T
  <2>3. IsFiniteSet(T \cup {f[y]})
    BY <2>2, FS_AddElement
  <2>4. s \cup {y} \in SUBSET S
    OBVIOUS
  <2> QED BY <2>1, <2>3, <2>4 DEF T
<1>3. S \in P
  <2> HIDE DEF P
  <2>1. P \in SUBSET SUBSET S
    BY DEF P
  <2> QED BY <1>1, <1>2, <2>1, FiniteInduction
<1> QED BY <1>3

-----------------------------------------------------------------------------
(* Levels and cells *)

\* The recursive definition of Ratio has a solution.
LEMMA RatioExists ==
  \E g : g = [n \in 0 .. MaxLevels - 1 |-> IF n = 0 THEN 1 ELSE 2 * g[n - 1]]
<1> DEFINE Good == {m \in Nat : \E g : g = [n \in 0 .. m |-> IF n = 0 THEN 1 ELSE 2 * g[n - 1]]}
<1>1. 0 \in Good
  <2> DEFINE g == [n \in 0 .. 0 |-> 1]
  <2>1. g = [n \in 0 .. 0 |-> IF n = 0 THEN 1 ELSE 2 * g[n - 1]]
    OBVIOUS
  <2> HIDE DEF g
  <2> QED BY <2>1
<1>2. ASSUME NEW m \in Good PROVE m + 1 \in Good
  <2>1. PICK g : g = [n \in 0 .. m |-> IF n = 0 THEN 1 ELSE 2 * g[n - 1]]
    OBVIOUS
  <2> DEFINE h == [n \in 0 .. m + 1 |-> IF n = 0 THEN 1 ELSE 2 * g[n - 1]]
  <2>2. \A n \in 0 .. m : h[n] = g[n]
    BY <2>1
  <2>3. h = [n \in 0 .. m + 1 |-> IF n = 0 THEN 1 ELSE 2 * h[n - 1]]
    <3>1. ASSUME NEW n \in 0 .. m + 1, n # 0 PROVE h[n - 1] = g[n - 1]
      <4>1. m \in Nat
        OBVIOUS
      <4>2. n - 1 \in 0 .. m
        BY <3>1, <4>1
      <4> HIDE DEF h, Good
      <4> QED BY <2>2, <4>2
    <3> QED BY <3>1
  <2> HIDE DEF h
  <2> QED BY <2>3
<1>3. Good = Nat
  <2> HIDE DEF Good
  <2>1. Good \in SUBSET Nat
    BY DEF Good
  <2> QED BY <1>1, <1>2, <2>1, SetInduction
<1>4. MaxLevels - 1 \in Nat
  BY BoundsAssumption
<1>5. MaxLevels - 1 \in Good
  <2> HIDE DEF Good
  <2> QED BY <1>3, <1>4
<1> QED BY <1>5

LEMMA RatioUnfolded ==
  \A n \in 0 .. MaxLevels - 1 : Ratio[n] = IF n = 0 THEN 1 ELSE 2 * Ratio[n - 1]
<1>1. Ratio = [n \in 0 .. MaxLevels - 1 |-> IF n = 0 THEN 1 ELSE 2 * Ratio[n - 1]]
  BY RatioExists DEF Ratio
<1> QED BY <1>1, Zenon

LEMMA RatioType == \A n \in 0 .. MaxLevels - 1 : Ratio[n] \in Nat \ {0}
<1> DEFINE Good == {n \in Nat : n <= MaxLevels - 1 => Ratio[n] \in Nat \ {0}}
<1>1. 0 \in Good
  BY RatioUnfolded
<1>2. ASSUME NEW n \in Good PROVE n + 1 \in Good
  <2>1. CASE n + 1 <= MaxLevels - 1
    <3>1. Ratio[n] \in Nat \ {0} /\ n + 1 \in 0 .. MaxLevels - 1 /\ (n + 1) - 1 = n
      BY <2>1, BoundsAssumption
    <3>2. Ratio[n + 1] = 2 * Ratio[n]
      BY <3>1, RatioUnfolded
    <3> QED BY <3>1, <3>2
  <2> QED BY <2>1
<1>3. Good = Nat
  <2> HIDE DEF Good
  <2>1. Good \in SUBSET Nat
    BY DEF Good
  <2> QED BY <1>1, <1>2, <2>1, SetInduction
<1> QED BY <1>3, BoundsAssumption

\* Ratios of levels further apart are products.
LEMMA RatioProduct ==
  ASSUME NEW k \in 0 .. MaxLevels - 1, NEW n \in 0 .. MaxLevels - 1, k + n \in 0 .. MaxLevels - 1
  PROVE  Ratio[k + n] = Ratio[k] * Ratio[n]
<1> DEFINE Good == {m \in Nat : k + m <= MaxLevels - 1 => Ratio[k + m] = Ratio[k] * Ratio[m]}
<1>1. 0 \in Good
  <2>1. Ratio[0] = 1 /\ Ratio[k] \in Nat
    BY RatioUnfolded, RatioType, BoundsAssumption
  <2> QED BY <2>1
<1>2. ASSUME NEW m \in Good PROVE m + 1 \in Good
  <2>1. CASE k + (m + 1) <= MaxLevels - 1
    <3>1. /\ m + 1 \in 0 .. MaxLevels - 1 /\ k + (m + 1) \in 0 .. MaxLevels - 1
          /\ m \in 0 .. MaxLevels - 1 /\ (m + 1) - 1 = m /\ (k + (m + 1)) - 1 = k + m
          /\ k + m <= MaxLevels - 1
      BY <2>1, BoundsAssumption
    <3>2. Ratio[m + 1] = 2 * Ratio[m] /\ Ratio[k + (m + 1)] = 2 * Ratio[k + m]
      BY <3>1, RatioUnfolded
    <3>3. Ratio[k] \in Nat /\ Ratio[m] \in Nat /\ Ratio[k + m] = Ratio[k] * Ratio[m]
      BY <3>1, RatioType
    <3>4. 2 * (Ratio[k] * Ratio[m]) = Ratio[k] * (2 * Ratio[m])
      BY <3>3
    <3> QED BY <3>2, <3>3, <3>4
  <2> QED BY <2>1
<1>3. Good = Nat
  <2> HIDE DEF Good
  <2>1. Good \in SUBSET Nat
    BY DEF Good
  <2> QED BY <1>1, <1>2, <2>1, SetInduction
<1> QED BY <1>3

\* A cell of the next coarser level is twice as wide.
LEMMA WidthType == \A ln \in 0 .. MaxLevels - 1 : Width(ln) \in Nat \ {0}
  BY RatioType, BoundsAssumption DEF Width

LEMMA WidthDoubles ==
  ASSUME NEW ln \in 1 .. MaxLevels - 1
  PROVE  Width(ln - 1) = 2 * Width(ln)
<1>1. /\ MaxLevels - 1 - ln \in 0 .. MaxLevels - 1 /\ MaxLevels - 1 - (ln - 1) \in 0 .. MaxLevels - 1
      /\ MaxLevels - 1 - (ln - 1) # 0
      /\ (MaxLevels - 1 - (ln - 1)) - 1 = MaxLevels - 1 - ln
  BY BoundsAssumption
<1>2. Ratio[MaxLevels - 1 - (ln - 1)] = 2 * Ratio[MaxLevels - 1 - ln]
  BY <1>1, RatioUnfolded
<1> QED BY <1>2 DEF Width

LEMMA WidthOfCoarsest ==
  ASSUME NEW ln \in 0 .. MaxLevels - 1
  PROVE  Width(0) = Ratio[ln] * Width(ln)
<1> DEFINE k == MaxLevels - 1 - ln
<1>1. k \in 0 .. MaxLevels - 1 /\ ln + k = MaxLevels - 1 - 0 /\ ln + k \in 0 .. MaxLevels - 1
  BY BoundsAssumption
<1>2. Ratio[ln + k] = Ratio[ln] * Ratio[k] /\ Ratio[ln] \in Nat /\ Ratio[k] \in Nat
  BY <1>1, RatioProduct, RatioType
<1>3. Width(0) = 2 * Ratio[ln + k] /\ Width(ln) = 2 * Ratio[k]
  BY <1>1 DEF Width
<1> HIDE DEF k
<1> QED BY <1>2, <1>3

-----------------------------------------------------------------------------
(* Division *)

LEMMA DivBounds ==
  ASSUME NEW x \in Int, NEW w \in Nat \ {0}
  PROVE  /\ x \div w \in Int
         /\ (x \div w) * w <= x /\ x <= (x \div w) * w + w - 1
  OBVIOUS

LEMMA DivUnique ==
  ASSUME NEW x \in Int, NEW w \in Nat \ {0}, NEW q \in Int, q * w <= x, x <= q * w + w - 1
  PROVE  x \div w = q
  OBVIOUS

\* The cell of the next coarser level that contains a position.
LEMMA CellOnCoarserLevel ==
  ASSUME NEW x \in Int, NEW ln \in 1 .. MaxLevels - 1
  PROVE  Coarsened(CellIndex(x, ln)) = CellIndex(x, ln - 1)
<1> DEFINE w == Width(ln)
           q == x \div w
           c == q \div 2
<1>1. w \in Nat \ {0} /\ Width(ln - 1) = 2 * w
  BY WidthType, WidthDoubles, BoundsAssumption
<1> HIDE DEF w
<1>2. q \in Int /\ q * w <= x /\ x <= q * w + w - 1
  BY <1>1, DivBounds
<1> HIDE DEF q
<1>3. c \in Int /\ (q = 2 * c \/ q = 2 * c + 1)
  BY <1>2
<1> HIDE DEF c
<1>4. c * (2 * w) <= x /\ x <= c * (2 * w) + 2 * w - 1
  <2> DEFINE p == c * w
  <2>1. p \in Int /\ c * (2 * w) = 2 * p
    BY <1>1, <1>3
  <2>2. q * w = 2 * p \/ q * w = 2 * p + w
    <3>1. (2 * c) * w = 2 * p /\ (2 * c + 1) * w = 2 * p + w
      BY <1>1, <1>3
    <3> QED BY <1>3, <3>1
  <2>3. \E r \in Int : r = q * w
    BY <1>1, <1>2
  <2> HIDE DEF p
  <2> QED BY <1>1, <1>2, <2>1, <2>2, <2>3
<1>5. 2 * w \in Nat \ {0}
  BY <1>1
<1>6. x \div (2 * w) = c
  BY <1>3, <1>4, <1>5, DivUnique
<1> QED BY <1>1, <1>6 DEF Coarsened, CellIndex, w, q, c

LEMMA ChildrenOfCell ==
  ASSUME NEW d \in Int, NEW c \in Int, Coarsened(d) = c
  PROVE  d = 2 * c \/ d = 2 * c + 1
  BY DEF Coarsened

LEMMA CellType ==
  ASSUME NEW x \in Int, NEW ln \in 0 .. MaxLevels - 1
  PROVE  CellIndex(x, ln) \in Int
  BY WidthType, DivBounds DEF CellIndex

-----------------------------------------------------------------------------
(* Bags *)

FiniteBag(bag) == IsABag(bag) /\ IsFiniteSet(DOMAIN bag)

LEMMA SumInBag ==
  ASSUME NEW bag, FiniteBag(bag), NEW S \in SUBSET DOMAIN bag
  PROVE  /\ IsFiniteSet(S) /\ \A e \in S : bag[e] \in Nat /\ bag[e] > 0
         /\ SumFunctionOnSet(bag, S) \in Nat
         /\ S # {} => SumFunctionOnSet(bag, S) > 0
<1>1. IsFiniteSet(S) /\ \A e \in S : bag[e] \in Nat /\ bag[e] > 0
  BY FS_Subset DEF FiniteBag, IsABag
<1>2. S # {} => SumFunctionOnSet(bag, S) > 0
  BY <1>1, SumIsPositive
<1> QED BY <1>1, <1>2, SumIsNatural

LEMMA MappedBag ==
  ASSUME NEW bag, FiniteBag(bag), NEW image, DOMAIN image = DOMAIN bag
  PROVE  /\ FiniteBag(Mapped(bag, image))
         /\ DOMAIN Mapped(bag, image) = {image[d] : d \in DOMAIN bag}
<1> DEFINE over(e) == {d \in DOMAIN bag : image[d] = e}
           B == Mapped(bag, image)
<1>1. DOMAIN B = {image[d] : d \in DOMAIN bag}
  BY DEF Mapped, Range
<1>2. B = [e \in DOMAIN B |-> SumFunctionOnSet(bag, over(e))]
  BY <1>1 DEF Mapped, Range, BagToSet
<1>3. IsFiniteSet(DOMAIN B)
  <2> DEFINE S == DOMAIN bag
  <2>1. IsFiniteSet(S)
    BY DEF FiniteBag
  <2> HIDE DEF S
  <2>2. IsFiniteSet({image[d] : d \in S})
    BY <2>1, ImageIsFinite
  <2> QED BY <1>1, <2>2 DEF S
<1>4. \A e \in DOMAIN B : over(e) \in SUBSET DOMAIN bag /\ over(e) # {}
  BY <1>1
<1>5. \A e \in DOMAIN B : SumFunctionOnSet(bag, over(e)) \in Nat /\ SumFunctionOnSet(bag, over(e)) > 0
  <2> HIDE DEF over
  <2> QED BY <1>4, SumInBag
<1> HIDE DEF over, B
<1>6. B \in [DOMAIN B -> {n \in Nat : n > 0}]
  BY <1>2, <1>5
<1> QED BY <1>1, <1>3, <1>6 DEF FiniteBag, IsABag, B

\* What lies in a set of images is what the images of which lie in the set.
LEMMA MappedSum ==
  ASSUME NEW bag, FiniteBag(bag), NEW image, DOMAIN image = DOMAIN bag,
         NEW T \in SUBSET DOMAIN Mapped(bag, image)
  PROVE  SumFunctionOnSet(Mapped(bag, image), T)
           = SumFunctionOnSet(bag, {d \in DOMAIN bag : image[d] \in T})
<1> DEFINE B == Mapped(bag, image)
<1>1. FiniteBag(B) /\ DOMAIN B = {image[d] : d \in DOMAIN bag}
  BY MappedBag
<1>2. IsFiniteSet(T)
  BY <1>1, SumInBag
<1>3. ASSUME NEW y \in T
      PROVE  B[y] = SumFunctionOnSet(bag, {d \in DOMAIN bag : image[d] = y})
  BY Zenon DEF Mapped, BagToSet, Range
<1>4. IsFiniteSet(DOMAIN bag) /\ \A x \in DOMAIN bag : bag[x] \in Int
  BY DEF FiniteBag, IsABag
<1> HIDE DEF B
<1> QED BY <1>2, <1>3, <1>4, SumOfParts DEF B

LEMMA RestrictedBag ==
  ASSUME NEW bag, FiniteBag(bag), NEW S \in SUBSET DOMAIN bag
  PROVE  /\ FiniteBag(Restrict(bag, S)) /\ DOMAIN Restrict(bag, S) = S
         /\ \A T \in SUBSET S : SumFunctionOnSet(Restrict(bag, S), T) = SumFunctionOnSet(bag, T)
<1>1. IsFiniteSet(S) /\ \A e \in S : bag[e] \in Nat /\ bag[e] > 0
  BY SumInBag
<1>2. DOMAIN Restrict(bag, S) = S /\ \A e \in S : Restrict(bag, S)[e] = bag[e]
  BY DEF Restrict
<1>3. FiniteBag(Restrict(bag, S))
  BY <1>1, <1>2 DEF FiniteBag, IsABag, Restrict
<1>4. ASSUME NEW T \in SUBSET S
      PROVE  SumFunctionOnSet(Restrict(bag, S), T) = SumFunctionOnSet(bag, T)
  <2>1. IsFiniteSet(T) /\ \A e \in T : Restrict(bag, S)[e] = bag[e]
    BY <1>1, <1>2, FS_Subset
  <2> QED BY <2>1, SumCongruent
<1> QED BY <1>2, <1>3, <1>4

LEMMA UnionOfBags ==
  ASSUME NEW B, NEW C, FiniteBag(B), FiniteBag(C)
  PROVE  /\ FiniteBag(B (+) C) /\ DOMAIN (B (+) C) = DOMAIN B \cup DOMAIN C
         /\ DOMAIN B \cap DOMAIN C = {} =>
              /\ \A e \in DOMAIN B : (B (+) C)[e] = B[e]
              /\ \A e \in DOMAIN C : (B (+) C)[e] = C[e]
<1> DEFINE D == B (+) C
<1>1. DOMAIN D = DOMAIN B \cup DOMAIN C
  BY DEF (+)
<1>2. \A e \in DOMAIN B : B[e] \in Nat /\ B[e] > 0
  BY DEF FiniteBag, IsABag
<1>3. \A e \in DOMAIN C : C[e] \in Nat /\ C[e] > 0
  BY DEF FiniteBag, IsABag
<1>4. \A e \in DOMAIN D : D[e] = (IF e \in DOMAIN B THEN B[e] ELSE 0) + (IF e \in DOMAIN C THEN C[e] ELSE 0)
  BY DEF (+)
<1>5. IsFiniteSet(DOMAIN D)
  BY <1>1, FS_Union DEF FiniteBag
<1>6. D = [e \in DOMAIN D |-> D[e]]
  BY DEF (+)
<1> HIDE DEF D
<1>7. ASSUME NEW e \in DOMAIN D PROVE D[e] \in Nat /\ D[e] > 0
  BY <1>1, <1>2, <1>3, <1>4
<1>8. IsABag(D)
  BY <1>6, <1>7 DEF IsABag
<1>9. DOMAIN B \cap DOMAIN C = {} =>
        (\A e \in DOMAIN B : D[e] = B[e]) /\ (\A e \in DOMAIN C : D[e] = C[e])
  BY <1>1, <1>2, <1>3, <1>4
<1> QED BY <1>1, <1>5, <1>8, <1>9 DEF FiniteBag, D

-----------------------------------------------------------------------------
(* Hierarchies *)

LEMMA HierarchyType ==
  ASSUME NEW h \in Hierarchies
  PROVE  /\ Finest(h) \in 0 .. MaxLevels - 1
         /\ Region(h, 0) = DomainCells /\ DomainCells = 0 .. Cardinality(DomainCells) - 1
         /\ Cardinality(DomainCells) \in Nat
<1>1. Len(h) \in 1 .. MaxLevels /\ MaxLevels \in Nat
  BY HierarchyAssumption, BoundsAssumption
<1>2. Region(h, 0) = DomainCells
  <2>1. \A g \in Hierarchies : Region(g, 0) = Region(h, 0)
    BY HierarchyAssumption DEF Region
  <2> QED BY <2>1 DEF DomainCells
<1>3. IsFiniteSet(DomainCells) /\ DomainCells = 0 .. Cardinality(DomainCells) - 1
  BY HierarchyAssumption
<1>4. Cardinality(DomainCells) \in Nat
  BY <1>3, FS_CardinalityType
<1> QED BY <1>1, <1>2, <1>3, <1>4 DEF Finest

\* The boxes of a level are intervals of integers.
LEMMA BoxType ==
  ASSUME NEW h \in Hierarchies, NEW ln \in 0 .. Finest(h), NEW box \in Level(h, ln)
  PROVE  box[1] \in Int /\ box[2] \in Int
<1>1. ln + 1 \in 1 .. Len(h)
  <2>1. Len(h) \in Nat
    BY HierarchyAssumption, BoundsAssumption
  <2> QED BY <2>1 DEF Finest
<1>2. h[ln + 1] \in SUBSET (Int \X Int)
  BY <1>1, HierarchyAssumption, ElementOfSeq
<1> QED BY <1>2 DEF Level

LEMMA RegionType ==
  ASSUME NEW h \in Hierarchies, NEW ln \in 0 .. Finest(h)
  PROVE  Region(h, ln) \subseteq Int
  BY BoxType DEF Region, Cells

\* A position inside the domain lies in a cell of the coarsest level.
LEMMA InDomain ==
  ASSUME NEW h \in Hierarchies, NEW x \in 1 .. XUpper - 1
  PROVE  CellIndex(x, 0) \in Region(h, 0)
<1> DEFINE w == Width(0)
           n == Cardinality(DomainCells)
           q == CellIndex(x, 0)
<1>1. w \in Nat \ {0} /\ n \in Nat /\ Region(h, 0) = 0 .. n - 1
  BY HierarchyType, WidthType, BoundsAssumption
<1>2. x \in Int /\ 1 <= x /\ x <= n * w - 1
  BY <1>1 DEF XUpper
<1>3. q \in Int /\ q * w <= x /\ x <= q * w + w - 1
  BY <1>1, <1>2, DivBounds DEF CellIndex
<1> HIDE DEF w, n, q
<1>4. 0 <= q
  <2> SUFFICES ASSUME q <= -1 PROVE FALSE
    BY <1>3
  <2>1. (q + 1) * w <= 0
    BY <1>1, <1>3
  <2>2. (q + 1) * w = q * w + w
    BY <1>1, <1>3
  <2>3. q * w \in Int
    BY <1>1, <1>3
  <2> QED BY <1>1, <1>2, <1>3, <2>1, <2>2, <2>3
<1>5. q <= n - 1
  <2> SUFFICES ASSUME n <= q PROVE FALSE
    BY <1>1, <1>3
  <2>1. n * w <= q * w
    BY <1>1, <1>3
  <2>2. q * w \in Int /\ n * w \in Int
    BY <1>1, <1>3
  <2> QED BY <1>1, <1>2, <1>3, <2>1, <2>2
<1> QED BY <1>1, <1>3, <1>4, <1>5 DEF q

-----------------------------------------------------------------------------
(* Marks *)

MarkFields(e) ==
    /\ e.idx \in Marker /\ e.x \in 1 .. XUpper - 1
    /\ e = Mark(e.level, e.cell, e.idx, e.x)

\* A mark of a hierarchy, and one assigned to the cell that contains it.
MarkOf(h, e) ==
    /\ MarkFields(e)
    /\ e.level \in 0 .. Finest(h) /\ e.cell \in Region(h, e.level)
Here(e) == e.cell = CellIndex(e.x, e.level)

\* A bag of marks where regridding puts them.
Sorted(h, bag) ==
    /\ FiniteBag(bag)
    /\ \A e \in DOMAIN bag : MarkOf(h, e) /\ Here(e)

\* A marker has a mark in a bag.
Has(bag, m) == \E e \in DOMAIN bag : e.idx = m

LEMMA InitialMarksSorted ==
  ASSUME NEW h \in Hierarchies, NEW posns \in [Marker -> InitPosns]
  PROVE  /\ Sorted(h, InitialMarks(posns))
         /\ \A m \in Marker : Has(InitialMarks(posns), m)
<1> DEFINE at == [m \in Marker |-> Mark(0, CellIndex(posns[m], 0), m, posns[m])]
           S == {at[m] : m \in Marker}
           B == InitialMarks(posns)
<1>1. B = [e \in S |-> 1]
  BY DEF InitialMarks, SetToBag
<1>2. IsFiniteSet(S)
  <2>1. IsFiniteSet(Marker)
    BY BoundsAssumption
  <2> HIDE DEF at
  <2> QED BY <2>1, ImageIsFinite
<1>3. FiniteBag(B)
  <2> HIDE DEF S
  <2> QED BY <1>1, <1>2 DEF FiniteBag, IsABag
<1>4. ASSUME NEW m \in Marker
      PROVE  MarkOf(h, at[m]) /\ Here(at[m]) /\ at[m].idx = m
  <2> DEFINE x == posns[m]
  <2>1. x \in 1 .. XUpper - 1
    BY FileAssumption
  <2>2. CellIndex(x, 0) \in Region(h, 0) /\ 0 \in 0 .. Finest(h)
    BY <2>1, InDomain, HierarchyType
  <2> HIDE DEF x
  <2>3. at[m] = Mark(0, CellIndex(x, 0), m, x)
    BY DEF x
  <2> HIDE DEF at
  <2> QED BY <2>1, <2>2, <2>3 DEF MarkOf, MarkFields, Here, Mark
<1>5. DOMAIN B = S
  BY <1>1
<1> HIDE DEF at, B
<1> QED BY <1>3, <1>4, <1>5 DEF Sorted, Has, B

-----------------------------------------------------------------------------
(* Filling the levels *)

Covered(h, ln, bag) == {e \in DOMAIN bag :
                          /\ e.level = ln - 1
                          /\ CellIndex(e.x, ln) \in Region(h, ln)
                          /\ Coarsened(CellIndex(e.x, ln)) = e.cell}
Child(ln, e) == Mark(ln, CellIndex(e.x, ln), e.idx, e.x)

\* What is refined are copies, on level ln, of the marks of the level below it
\* that it covers.
LEMMA RefinedMarks ==
  ASSUME NEW h \in Hierarchies, NEW ln \in 1 .. Finest(h), NEW bag, Sorted(h, bag)
  PROVE  /\ Sorted(h, Refined(h, ln, bag))
         /\ DOMAIN Refined(h, ln, bag) = {Child(ln, e) : e \in Covered(h, ln, bag)}
         /\ \A e \in DOMAIN Refined(h, ln, bag) : e.level = ln
<1> DEFINE S == Covered(h, ln, bag)
           image == [e \in S |-> Child(ln, e)]
           B == Refined(h, ln, bag)
<1>1. B = Mapped(Restrict(bag, S), image)
  BY DEF Refined, Covered, Child, BagToSet
<1>2. S \in SUBSET DOMAIN bag
  BY DEF Covered
<1>3. FiniteBag(Restrict(bag, S)) /\ DOMAIN Restrict(bag, S) = S
  BY <1>2, RestrictedBag DEF Sorted
<1>4. FiniteBag(B) /\ DOMAIN B = {image[e] : e \in S}
  <2>1. DOMAIN image = S
    OBVIOUS
  <2> HIDE DEF S, image, B
  <2> QED BY <1>1, <1>3, <2>1, MappedBag
<1>5. DOMAIN B = {Child(ln, e) : e \in S}
  BY <1>4
<1>6. ASSUME NEW e \in S
      PROVE  MarkOf(h, Child(ln, e)) /\ Here(Child(ln, e)) /\ Child(ln, e).level = ln
  <2>1. CellIndex(e.x, ln) \in Region(h, ln) /\ MarkFields(e)
    BY <1>2 DEF Covered, Sorted, MarkOf
  <2>2. ln \in 0 .. Finest(h)
    BY HierarchyType
  <2> QED BY <2>1, <2>2 DEF Child, Mark, MarkOf, MarkFields, Here
<1> HIDE DEF S, B
<1> QED BY <1>4, <1>5, <1>6 DEF Sorted, S, B

\* The tables that fill the levels up to n and that repeat this for each level.
FillTable(f, h, n, bag) ==
    f = [ln \in 0 .. n |->
           IF ln = 0 THEN bag ELSE f[ln - 1] (+) Refined(h, ln, f[ln - 1])]
PassTable(f, h, n, bag) ==
    f = [ln \in 0 .. n |->
           IF ln = 0 THEN bag ELSE InitializeMarkersOnLevel(h, ln, f[ln - 1])]

LEMMA FillTableExists ==
  ASSUME NEW h, NEW bag, NEW n \in Nat
  PROVE  \E f : FillTable(f, h, n, bag)
<1> DEFINE Rule(f, ln) == IF ln = 0 THEN bag ELSE f[ln - 1] (+) Refined(h, ln, f[ln - 1])
           Good == {m \in Nat : \E f : f = [ln \in 0 .. m |-> Rule(f, ln)]}
<1>1. 0 \in Good
  <2> DEFINE f == [ln \in 0 .. 0 |-> bag]
  <2>1. f = [ln \in 0 .. 0 |-> Rule(f, ln)]
    OBVIOUS
  <2> HIDE DEF f
  <2> QED BY <2>1
<1>2. ASSUME NEW m \in Good PROVE m + 1 \in Good
  <2>1. PICK f : f = [ln \in 0 .. m |-> Rule(f, ln)]
    OBVIOUS
  <2>2. m \in Nat
    OBVIOUS
  <2> DEFINE g == [ln \in 0 .. m + 1 |-> Rule(f, ln)]
  <2> HIDE DEF Rule, Good
  <2>3. \A ln \in 0 .. m : g[ln] = f[ln]
    BY <2>1, <2>2
  <2>4. ASSUME NEW ln \in 0 .. m + 1 PROVE Rule(g, ln) = Rule(f, ln)
    <3>1. ASSUME ln # 0 PROVE g[ln - 1] = f[ln - 1]
      <4>1. ln - 1 \in 0 .. m
        BY <2>2, <3>1
      <4> HIDE DEF g
      <4> QED BY <2>3, <4>1
    <3> HIDE DEF g
    <3> QED BY <3>1 DEF Rule
  <2>5. g = [ln \in 0 .. m + 1 |-> Rule(g, ln)]
    BY <2>4
  <2> HIDE DEF g
  <2> QED BY <2>2, <2>5 DEF Good
<1>3. Good = Nat
  <2> HIDE DEF Good
  <2>1. Good \in SUBSET Nat
    BY DEF Good
  <2> QED BY <1>1, <1>2, <2>1, SetInduction
<1> QED BY <1>3 DEF FillTable

LEMMA PassTableExists ==
  ASSUME NEW h, NEW bag, NEW n \in Nat
  PROVE  \E f : PassTable(f, h, n, bag)
<1> DEFINE Rule(f, ln) == IF ln = 0 THEN bag ELSE InitializeMarkersOnLevel(h, ln, f[ln - 1])
           Good == {m \in Nat : \E f : f = [ln \in 0 .. m |-> Rule(f, ln)]}
<1>1. 0 \in Good
  <2> DEFINE f == [ln \in 0 .. 0 |-> bag]
  <2>1. f = [ln \in 0 .. 0 |-> Rule(f, ln)]
    OBVIOUS
  <2> HIDE DEF f
  <2> QED BY <2>1
<1>2. ASSUME NEW m \in Good PROVE m + 1 \in Good
  <2>1. PICK f : f = [ln \in 0 .. m |-> Rule(f, ln)]
    OBVIOUS
  <2>2. m \in Nat
    OBVIOUS
  <2> DEFINE g == [ln \in 0 .. m + 1 |-> Rule(f, ln)]
  <2> HIDE DEF Rule, Good
  <2>3. \A ln \in 0 .. m : g[ln] = f[ln]
    BY <2>1, <2>2
  <2>4. ASSUME NEW ln \in 0 .. m + 1 PROVE Rule(g, ln) = Rule(f, ln)
    <3>1. ASSUME ln # 0 PROVE g[ln - 1] = f[ln - 1]
      <4>1. ln - 1 \in 0 .. m
        BY <2>2, <3>1
      <4> HIDE DEF g
      <4> QED BY <2>3, <4>1
    <3> HIDE DEF g
    <3> QED BY <3>1 DEF Rule
  <2>5. g = [ln \in 0 .. m + 1 |-> Rule(g, ln)]
    BY <2>4
  <2> HIDE DEF g
  <2> QED BY <2>2, <2>5 DEF Good
<1>3. Good = Nat
  <2> HIDE DEF Good
  <2>1. Good \in SUBSET Nat
    BY DEF Good
  <2> QED BY <1>1, <1>2, <2>1, SetInduction
<1> QED BY <1>3 DEF PassTable

LEMMA FillUnfolded ==
  ASSUME NEW h, NEW bag, NEW n \in Nat
  PROVE  \E f : /\ InitializeMarkersOnLevel(h, n, bag) = f[n]
                /\ f[0] = bag
                /\ \A ln \in 1 .. n : f[ln] = f[ln - 1] (+) Refined(h, ln, f[ln - 1])
<1> DEFINE f == CHOOSE g : FillTable(g, h, n, bag)
<1>1. FillTable(f, h, n, bag)
  BY FillTableExists
<1>2. InitializeMarkersOnLevel(h, n, bag) = f[n]
  BY Zenon DEF InitializeMarkersOnLevel, FillTable
<1> HIDE DEF f
<1>3. \A ln \in 0 .. n : f[ln] = IF ln = 0 THEN bag ELSE f[ln - 1] (+) Refined(h, ln, f[ln - 1])
  BY <1>1, Zenon DEF FillTable
<1>4. f[0] = bag
  BY <1>3
<1>5. ASSUME NEW ln \in 1 .. n PROVE f[ln] = f[ln - 1] (+) Refined(h, ln, f[ln - 1])
  <2>1. ln \in 0 .. n /\ ln # 0
    OBVIOUS
  <2> QED BY <1>3, <2>1, Zenon
<1> QED BY <1>2, <1>4, <1>5

LEMMA PassesUnfolded ==
  ASSUME NEW h \in Hierarchies, NEW bag
  PROVE  \E f : /\ InitializeLevels(h, bag) = f[Finest(h)]
                /\ f[0] = bag
                /\ \A ln \in 1 .. Finest(h) : f[ln] = InitializeMarkersOnLevel(h, ln, f[ln - 1])
<1> DEFINE f == CHOOSE g : PassTable(g, h, Finest(h), bag)
<1>0. Finest(h) \in Nat
  BY HierarchyType
<1>1. PassTable(f, h, Finest(h), bag)
  BY <1>0, PassTableExists
<1>2. InitializeLevels(h, bag) = f[Finest(h)]
  BY Zenon DEF InitializeLevels, PassTable
<1> HIDE DEF f
<1>3. \A ln \in 0 .. Finest(h) :
         f[ln] = IF ln = 0 THEN bag ELSE InitializeMarkersOnLevel(h, ln, f[ln - 1])
  BY <1>1, Zenon DEF PassTable
<1>4. f[0] = bag
  BY <1>0, <1>3
<1>5. ASSUME NEW ln \in 1 .. Finest(h) PROVE f[ln] = InitializeMarkersOnLevel(h, ln, f[ln - 1])
  <2>1. ln \in 0 .. Finest(h) /\ ln # 0
    BY <1>0
  <2> QED BY <1>3, <2>1, Zenon
<1> QED BY <1>2, <1>4, <1>5

\* Below level n every mark that the next finer level covers has a copy there.
Complete(h, n, bag) ==
    \A e \in DOMAIN bag :
        e.level < n /\ CellIndex(e.x, e.level + 1) \in Region(h, e.level + 1)
          => Child(e.level + 1, e) \in DOMAIN bag

\* One level more.
LEMMA FillOneLevel ==
  ASSUME NEW h \in Hierarchies, NEW ln \in 1 .. Finest(h), NEW bag, Sorted(h, bag),
         Complete(h, ln - 1, bag)
  PROVE  LET B == bag (+) Refined(h, ln, bag)
         IN  Sorted(h, B) /\ DOMAIN bag \subseteq DOMAIN B /\ Complete(h, ln, B)
<1> DEFINE R == Refined(h, ln, bag)
           B == bag (+) R
<1>1. /\ Sorted(h, R) /\ DOMAIN R = {Child(ln, e) : e \in Covered(h, ln, bag)}
      /\ \A e \in DOMAIN R : e.level = ln
  BY RefinedMarks
<1>2. FiniteBag(B) /\ DOMAIN B = DOMAIN bag \cup DOMAIN R
  <2>1. FiniteBag(R) /\ FiniteBag(bag)
    BY <1>1 DEF Sorted
  <2> HIDE DEF R
  <2> QED BY <2>1, UnionOfBags
<1> HIDE DEF R, B
<1>3. Sorted(h, B)
  BY <1>1, <1>2 DEF Sorted
<1>4. ASSUME NEW e \in DOMAIN B, e.level < ln,
             CellIndex(e.x, e.level + 1) \in Region(h, e.level + 1)
      PROVE  Child(e.level + 1, e) \in DOMAIN B
  <2>1. e \in DOMAIN bag
    BY <1>1, <1>2, <1>4, HierarchyType
  <2>2. MarkOf(h, e) /\ Here(e) /\ e.level \in Int /\ ln \in Int
    BY <2>1, HierarchyType DEF Sorted, MarkOf
  <2>3. CASE e.level < ln - 1
    <3>1. Child(e.level + 1, e) \in DOMAIN bag
      BY <1>4, <2>1, <2>3 DEF Complete
    <3> QED BY <1>2, <3>1
  <2>4. CASE e.level = ln - 1
    <3>1. e.level + 1 = ln
      BY <2>2, <2>4
    <3>2. ln \in 1 .. MaxLevels - 1
      BY HierarchyType, BoundsAssumption
    <3>3. e.x \in Int
      BY <2>2 DEF MarkOf, MarkFields
    <3>4. Coarsened(CellIndex(e.x, ln)) = e.cell
      BY <2>2, <2>4, <3>2, <3>3, CellOnCoarserLevel DEF Here
    <3>5. e \in Covered(h, ln, bag)
      BY <1>4, <2>1, <2>4, <3>1, <3>4 DEF Covered
    <3> QED BY <1>1, <1>2, <3>1, <3>5
  <2> QED BY <1>4, <2>2, <2>3, <2>4
<1>5. Complete(h, ln, B)
  BY <1>4 DEF Complete
<1> QED BY <1>2, <1>3, <1>5 DEF B, R

LEMMA FillToLevel ==
  ASSUME NEW h \in Hierarchies, NEW n \in 0 .. Finest(h), NEW bag, Sorted(h, bag)
  PROVE  LET B == InitializeMarkersOnLevel(h, n, bag)
         IN  Sorted(h, B) /\ DOMAIN bag \subseteq DOMAIN B /\ Complete(h, n, B)
<1>1. n \in Nat /\ Finest(h) \in Nat
  BY HierarchyType
<1>2. PICK f : /\ InitializeMarkersOnLevel(h, n, bag) = f[n] /\ f[0] = bag
               /\ \A ln \in 1 .. n : f[ln] = f[ln - 1] (+) Refined(h, ln, f[ln - 1])
  BY <1>1, FillUnfolded
<1> DEFINE Right(ln) == /\ Sorted(h, f[ln]) /\ DOMAIN bag \subseteq DOMAIN f[ln]
                        /\ Complete(h, ln, f[ln])
           Good == {ln \in Nat : ln <= n => Right(ln)}
<1>3. Right(0)
  <2>1. \A e \in DOMAIN bag : ~ (e.level < 0)
    BY <1>1 DEF Sorted, MarkOf
  <2>2. Complete(h, 0, bag)
    BY <2>1 DEF Complete
  <2> QED BY <1>2, <2>2
<1>4. ASSUME NEW ln \in Good, ln + 1 <= n PROVE Right(ln + 1)
  <2>1. ln \in Nat /\ ln + 1 \in 1 .. Finest(h) /\ ln + 1 \in 1 .. n /\ (ln + 1) - 1 = ln
    BY <1>1, <1>4
  <2>2. Right(ln)
    BY <1>1, <1>4, <2>1
  <2>3. f[ln + 1] = f[ln] (+) Refined(h, ln + 1, f[ln])
    BY <1>2, <2>1
  <2> HIDE DEF Good
  <2>4. Complete(h, (ln + 1) - 1, f[ln])
    BY <2>1, <2>2
  <2>5. /\ Sorted(h, f[ln + 1]) /\ DOMAIN f[ln] \subseteq DOMAIN f[ln + 1]
        /\ Complete(h, ln + 1, f[ln + 1])
    BY <2>1, <2>2, <2>3, <2>4, FillOneLevel
  <2> QED BY <2>2, <2>5
<1> HIDE DEF Right
<1>5. Good = Nat
  <2>1. 0 \in Good /\ \A ln \in Good : ln + 1 \in Good
    BY <1>3, <1>4
  <2>2. Good \in SUBSET Nat
    OBVIOUS
  <2> HIDE DEF Good
  <2> QED BY <2>1, <2>2, SetInduction
<1>6. Right(n)
  BY <1>1, <1>5
<1> QED BY <1>2, <1>6 DEF Right

\* All levels filled: nothing is lost, and what a finer level covers is on it.
LEMMA LevelsFilled ==
  ASSUME NEW h \in Hierarchies, NEW bag, Sorted(h, bag), \A e \in DOMAIN bag : e.level = 0
  PROVE  LET B == InitializeLevels(h, bag)
         IN  Sorted(h, B) /\ DOMAIN bag \subseteq DOMAIN B /\ Complete(h, Finest(h), B)
<1> DEFINE N == Finest(h)
<1>1. N \in Nat
  BY HierarchyType
<1>2. PICK f : /\ InitializeLevels(h, bag) = f[N] /\ f[0] = bag
               /\ \A ln \in 1 .. N : f[ln] = InitializeMarkersOnLevel(h, ln, f[ln - 1])
  BY PassesUnfolded
<1> DEFINE Right(ln) == /\ Sorted(h, f[ln]) /\ DOMAIN bag \subseteq DOMAIN f[ln]
                        /\ Complete(h, ln, f[ln])
           Good == {ln \in Nat : ln <= N => Right(ln)}
<1>3. Right(0)
  <2>1. Complete(h, 0, bag)
    BY DEF Complete
  <2> QED BY <1>2, <2>1
<1>4. ASSUME NEW ln \in Good, ln + 1 <= N PROVE Right(ln + 1)
  <2>1. ln \in Nat /\ ln + 1 \in 0 .. N /\ ln + 1 \in 1 .. N /\ (ln + 1) - 1 = ln
    BY <1>1, <1>4
  <2>2. Right(ln)
    BY <1>1, <1>4, <2>1
  <2>3. f[ln + 1] = InitializeMarkersOnLevel(h, ln + 1, f[ln])
    BY <1>2, <2>1
  <2> HIDE DEF Good
  <2>4. /\ Sorted(h, f[ln + 1]) /\ DOMAIN f[ln] \subseteq DOMAIN f[ln + 1]
        /\ Complete(h, ln + 1, f[ln + 1])
    BY <2>1, <2>2, <2>3, FillToLevel
  <2> QED BY <2>2, <2>4
<1> HIDE DEF Right, N
<1>5. Good = Nat
  <2>1. 0 \in Good /\ \A ln \in Good : ln + 1 \in Good
    BY <1>3, <1>4
  <2>2. Good \in SUBSET Nat
    OBVIOUS
  <2> HIDE DEF Good
  <2> QED BY <2>1, <2>2, SetInduction
<1>6. Right(N)
  BY <1>1, <1>5
<1> QED BY <1>2, <1>6 DEF Right, N

-----------------------------------------------------------------------------
(* Pruning *)

BelongsIn(h, e) ==
    /\ Here(e)
    /\ \A ln \in e.level + 1 .. Finest(h) : CellIndex(e.x, ln) \notin Region(h, ln)

LEMMA MarkType ==
  ASSUME NEW h \in Hierarchies, NEW e, MarkOf(h, e)
  PROVE  /\ e.level \in Nat /\ e.level <= Finest(h) /\ Finest(h) \in Nat
         /\ e.level \in 0 .. MaxLevels - 1 /\ e.x \in Int /\ e.cell \in Int
<1>1. Finest(h) \in 0 .. MaxLevels - 1 /\ MaxLevels - 1 \in Nat
  BY HierarchyType, BoundsAssumption
<1>2. e.level \in 0 .. Finest(h) /\ e.cell \in Region(h, e.level) /\ e.x \in 1 .. XUpper - 1
  BY DEF MarkOf, MarkFields
<1>3. e.cell \in Int
  BY <1>2, RegionType
<1> QED BY <1>1, <1>2, <1>3

\* A mark in the cell that contains it is pruned if and only if the next finer
\* level covers it: levels refine whole cells.
LEMMA InvalidMeansCovered ==
  ASSUME NEW h \in Hierarchies, NEW e, MarkOf(h, e), Here(e)
  PROVE  Invalid(h, e) <=>
           /\ e.level < Finest(h)
           /\ CellIndex(e.x, e.level + 1) \in Region(h, e.level + 1)
<1> SUFFICES ASSUME e.level < Finest(h)
             PROVE  (\E c \in Region(h, e.level + 1) : Coarsened(c) = e.cell)
                      <=> CellIndex(e.x, e.level + 1) \in Region(h, e.level + 1)
  BY DEF Invalid
<1> DEFINE ln == e.level + 1
           d == CellIndex(e.x, ln)
<1>1. ln \in 1 .. Finest(h) /\ ln \in 1 .. MaxLevels - 1 /\ ln - 1 = e.level /\ e.x \in Int
      /\ e.cell \in Int /\ ln \in 0 .. MaxLevels - 1
  BY MarkType, HierarchyType, BoundsAssumption
<1>2. Coarsened(d) = e.cell /\ d \in Int
  BY <1>1, CellOnCoarserLevel, CellType DEF Here
<1>3. ASSUME NEW c \in Region(h, ln), Coarsened(c) = e.cell PROVE d \in Region(h, ln)
  <2>1. 2 * e.cell \in Region(h, ln) /\ 2 * e.cell + 1 \in Region(h, ln)
    BY <1>1, <1>3, HierarchyAssumption
  <2> HIDE DEF d, ln
  <2>2. d = 2 * e.cell \/ d = 2 * e.cell + 1
    BY <1>1, <1>2, ChildrenOfCell
  <2> QED BY <2>1, <2>2
<1> HIDE DEF d
<1> QED BY <1>2, <1>3 DEF d

LEMMA NotInvalidBelongs ==
  ASSUME NEW h \in Hierarchies, NEW e, MarkOf(h, e), Here(e), ~ Invalid(h, e)
  PROVE  BelongsIn(h, e)
<1> DEFINE N == Finest(h)
           Outside(ln) == CellIndex(e.x, ln) \notin Region(h, ln)
           Good == {k \in Nat : e.level + 1 + k <= N => Outside(e.level + 1 + k)}
<1>1. e.level \in Nat /\ N \in Nat /\ N <= MaxLevels - 1 /\ MaxLevels \in Nat /\ e.x \in Int
  BY MarkType, HierarchyType, BoundsAssumption
<1>2. 0 \in Good
  <2>1. e.level < N => Outside(e.level + 1)
    BY InvalidMeansCovered
  <2> HIDE DEF Outside, N
  <2>2. e.level + 1 + 0 = e.level + 1
    BY <1>1
  <2>3. e.level + 1 + 0 <= N => e.level < N
    BY <1>1
  <2> QED BY <2>1, <2>2, <2>3
<1>3. ASSUME NEW k \in Good PROVE k + 1 \in Good
  <2> SUFFICES ASSUME e.level + 1 + (k + 1) <= N PROVE Outside(e.level + 1 + (k + 1))
    OBVIOUS
  <2> DEFINE ln == e.level + 1 + (k + 1)
  <2>1. k \in Nat
    OBVIOUS
  <2>2. ln \in 1 .. N /\ ln \in 1 .. MaxLevels - 1 /\ ln - 1 = e.level + 1 + k
        /\ e.level + 1 + k <= N
    BY <1>1, <2>1
  <2>3. Outside(ln - 1)
    BY <2>2
  <2>4. Coarsened(CellIndex(e.x, ln)) = CellIndex(e.x, ln - 1)
    BY <1>1, <2>2, CellOnCoarserLevel
  <2> HIDE DEF ln, Good
  <2>5. \A c \in Region(h, ln) : Coarsened(c) \in Region(h, ln - 1)
    BY <2>2, HierarchyAssumption
  <2>6. Outside(ln)
    BY <2>3, <2>4, <2>5
  <2> QED BY <2>6 DEF ln
<1>4. Good = Nat
  <2> HIDE DEF Good
  <2>1. Good \in SUBSET Nat
    BY DEF Good
  <2> QED BY <1>2, <1>3, <2>1, SetInduction
<1>5. ASSUME NEW ln \in e.level + 1 .. N PROVE Outside(ln)
  <2> DEFINE k == ln - (e.level + 1)
  <2>1. k \in Nat /\ e.level + 1 + k = ln /\ ln <= N
    BY <1>1
  <2> HIDE DEF k, Outside, N
  <2> QED BY <1>4, <2>1
<1> QED BY <1>5 DEF BelongsIn

LEMMA PrunedMarks ==
  ASSUME NEW h \in Hierarchies, NEW bag, Sorted(h, bag), Complete(h, Finest(h), bag)
  PROVE  /\ Sorted(h, Pruned(h, bag))
         /\ \A e \in DOMAIN Pruned(h, bag) : BelongsIn(h, e)
         /\ \A m \in Marker : Has(bag, m) => Has(Pruned(h, bag), m)
<1> DEFINE S == {e \in DOMAIN bag : ~ Invalid(h, e)}
           P == Pruned(h, bag)
<1>1. P = Restrict(bag, S) /\ S \in SUBSET DOMAIN bag
  BY DEF Pruned, BagToSet
<1>2. FiniteBag(P) /\ DOMAIN P = S
  <2> HIDE DEF S, P
  <2> QED BY <1>1, RestrictedBag DEF Sorted
<1>3. \A e \in S : MarkOf(h, e) /\ Here(e) /\ BelongsIn(h, e)
  BY NotInvalidBelongs DEF Sorted
<1>4. ASSUME NEW m \in Marker, Has(bag, m) PROVE Has(P, m)
  <2> DEFINE N == Finest(h)
             Of == {e \in DOMAIN bag : e.idx = m}
             Depths == {N - e.level : e \in Of}
  <2>1. \A e \in Of : MarkOf(h, e) /\ Here(e) /\ e.level \in Nat /\ e.level <= N /\ N \in Nat
    BY MarkType DEF Sorted
  <2>2. Depths \in SUBSET Nat /\ Depths # {}
    BY <1>4, <2>1 DEF Has
  <2>3. PICK d \in Depths : \A k \in Depths : d <= k
    <3> HIDE DEF Depths
    <3> QED BY <2>2, LeastElement
  <2>4. PICK e \in Of : d = N - e.level
    OBVIOUS
  <2>5. ~ Invalid(h, e)
    <3> SUFFICES ASSUME Invalid(h, e) PROVE FALSE
      OBVIOUS
    <3>1. e.level < N /\ Child(e.level + 1, e) \in DOMAIN bag
      BY <2>1, <2>4, InvalidMeansCovered DEF Complete
    <3> DEFINE c == Child(e.level + 1, e)
    <3>2. c.level = e.level + 1 /\ c.idx = m
      BY <2>4 DEF Child, Mark
    <3>3. N - c.level \in Depths
      BY <3>1, <3>2
    <3> HIDE DEF c, Depths
    <3>4. d <= N - (e.level + 1)
      BY <2>3, <3>2, <3>3
    <3> QED BY <2>1, <2>4, <3>4
  <2> QED BY <1>2, <2>4, <2>5 DEF Has
<1> HIDE DEF S
<1> QED BY <1>2, <1>3, <1>4 DEF Sorted

-----------------------------------------------------------------------------
(* Collecting *)

\* How far a mark may have left its cell after n steps.
Near(e, n) ==
    LET lo == e.cell * Width(e.level)
        hi == lo + Width(e.level) - 1
    IN  /\ n = 0 => lo <= e.x /\ e.x <= hi
        /\ MaxMoves * (lo - e.x) <= n * (Ghosts * Width(0))
        /\ MaxMoves * (e.x - hi) <= n * (Ghosts * Width(0))

LEMMA Scaled ==
  ASSUME NEW a \in Int, NEW b \in Int, NEW w \in Nat, a <= b
  PROVE  a * w <= b * w
  OBVIOUS

LEMMA Unscaled ==
  ASSUME NEW a \in Int, NEW b \in Int, NEW w \in Nat \ {0}, w * a <= w * b
  PROVE  a <= b
  OBVIOUS

\* A mark that is near its cell has a position at most Ghosts cells of the
\* coarsest level away from the coarse cell above its own.
LEMMA NearOnCoarsest ==
  ASSUME NEW cell \in Int, NEW x \in Int, NEW R \in Nat \ {0}, NEW w \in Nat \ {0},
         NEW n \in 0 .. MaxMoves,
         n = 0 => cell * w <= x /\ x <= cell * w + w - 1,
         MaxMoves * (cell * w - x) <= n * (Ghosts * (R * w)),
         MaxMoves * (x - (cell * w + w - 1)) <= n * (Ghosts * (R * w))
  PROVE  /\ cell \div R - Ghosts <= x \div (R * w)
         /\ x \div (R * w) <= cell \div R + Ghosts
<1> DEFINE W == R * w
           c == cell \div R
           q == x \div W
           lo == cell * w
           g == Ghosts * W
<1>1. W \in Nat \ {0} /\ g \in Nat /\ lo \in Int /\ MaxMoves \in Nat /\ Ghosts \in Nat
  BY BoundsAssumption
<1>2. c \in Int /\ c * R <= cell /\ cell <= c * R + R - 1
  BY DivBounds
<1>3. q \in Int /\ q * W <= x /\ x <= q * W + W - 1
  <2> HIDE DEF W
  <2> QED BY <1>1, DivBounds
<1> HIDE DEF c, q
<1>4. (c * R) * w <= lo /\ lo <= (c * R + R - 1) * w
  BY <1>2, Scaled
<1>5. (c * R) * w = c * W /\ (c * R + R - 1) * w = c * W + W - w /\ c * W \in Int
  BY <1>2
<1>6. lo - x <= g /\ x - (lo + w - 1) <= g
  <2>1. CASE MaxMoves = 0
    <3>1. lo <= x /\ x <= lo + w - 1
      BY <2>1, <1>1
    <3> HIDE DEF lo, g, W
    <3> QED BY <1>1, <3>1
  <2>2. CASE MaxMoves # 0
    <3>1. n * g <= MaxMoves * g
      <4> HIDE DEF g
      <4> QED BY <1>1, Scaled
    <3>2. MaxMoves * (lo - x) <= n * g /\ MaxMoves * (x - (lo + w - 1)) <= n * g
      OBVIOUS
    <3> HIDE DEF lo, g, W
    <3>3. n \in Int /\ n * g \in Int /\ MaxMoves * g \in Int
          /\ MaxMoves * (lo - x) \in Int /\ MaxMoves * (x - (lo + w - 1)) \in Int
          /\ lo - x \in Int /\ x - (lo + w - 1) \in Int
      BY <1>1
    <3>4. MaxMoves * (lo - x) <= MaxMoves * g /\ MaxMoves * (x - (lo + w - 1)) <= MaxMoves * g
      BY <3>1, <3>2, <3>3
    <3> QED BY <1>1, <2>2, <3>3, <3>4, Unscaled
  <2> QED BY <2>1, <2>2
<1>7. c * W - g <= x /\ x <= c * W + W - 1 + g
  <2> HIDE DEF lo, g, W
  <2> QED BY <1>1, <1>4, <1>5, <1>6
<1>8. g = Ghosts * W
  OBVIOUS
<1> HIDE DEF W, g, lo
<1>9. c - Ghosts <= q
  <2> SUFFICES ASSUME q + 1 <= c - Ghosts PROVE FALSE
    BY <1>1, <1>2, <1>3
  <2>1. (q + 1) * W <= (c - Ghosts) * W
    BY <1>1, <1>2, <1>3, Scaled
  <2>2. (q + 1) * W = q * W + W /\ (c - Ghosts) * W = c * W - g /\ q * W \in Int
    BY <1>1, <1>2, <1>3, <1>8
  <2> QED BY <1>1, <1>3, <1>5, <1>7, <2>1, <2>2
<1>10. q <= c + Ghosts
  <2> SUFFICES ASSUME c + Ghosts + 1 <= q PROVE FALSE
    BY <1>1, <1>2, <1>3
  <2>1. (c + Ghosts + 1) * W <= q * W
    BY <1>1, <1>2, <1>3, Scaled
  <2>2. (c + Ghosts + 1) * W = c * W + g + W /\ q * W \in Int
    BY <1>1, <1>2, <1>3, <1>8
  <2> QED BY <1>1, <1>3, <1>5, <1>7, <2>1, <2>2
<1> QED BY <1>9, <1>10 DEF W, c, q

\* The mark on the coarsest level that a mark becomes.
OnCoarsest(e) == [e EXCEPT !.level = 0, !.cell = @ \div Ratio[e.level]]

LEMMA CoarsenedMark ==
  ASSUME NEW h \in Hierarchies, NEW e, MarkOf(h, e), NEW n \in 0 .. MaxMoves, Near(e, n)
  PROVE  LET d == OnCoarsest(e)
         IN  /\ d = Mark(0, d.cell, e.idx, e.x)
             /\ CellIndex(e.x, 0) \in Region(h, 0)
             /\ d.cell - Ghosts <= CellIndex(e.x, 0) /\ CellIndex(e.x, 0) <= d.cell + Ghosts
             /\ d.cell \in Int
<1> DEFINE R == Ratio[e.level]
           w == Width(e.level)
           x == e.x
           cell == e.cell
<1>1. /\ R \in Nat \ {0} /\ w \in Nat \ {0} /\ Width(0) = R * w
      /\ x \in Int /\ cell \in Int
  BY MarkType, RatioType, WidthType, WidthOfCoarsest
<1>2. /\ n = 0 => cell * w <= x /\ x <= cell * w + w - 1
      /\ MaxMoves * (cell * w - x) <= n * (Ghosts * (R * w))
      /\ MaxMoves * (x - (cell * w + w - 1)) <= n * (Ghosts * (R * w))
  BY <1>1 DEF Near
<1>3. OnCoarsest(e) = Mark(0, cell \div R, e.idx, x)
  <2>1. e = Mark(e.level, cell, e.idx, x)
    BY DEF MarkOf, MarkFields
  <2>2. DOMAIN e = {"level", "cell", "idx", "x"}
    BY <2>1 DEF Mark
  <2>3. OnCoarsest(e) = [f \in DOMAIN e |-> IF f = "cell" THEN cell \div R
                                            ELSE IF f = "level" THEN 0 ELSE e[f]]
    BY <2>2 DEF OnCoarsest
  <2> HIDE DEF R
  <2> QED BY <2>2, <2>3 DEF Mark
<1>4. CellIndex(x, 0) \in Region(h, 0)
  BY InDomain DEF MarkOf, MarkFields
<1>5. CellIndex(x, 0) = x \div (R * w)
  BY <1>1 DEF CellIndex
<1> HIDE DEF R, w, x, cell
<1>6. /\ cell \div R - Ghosts <= x \div (R * w)
      /\ x \div (R * w) <= cell \div R + Ghosts
  BY <1>1, <1>2, NearOnCoarsest
<1>7. cell \div R \in Int
  BY <1>1, DivBounds
<1> QED BY <1>3, <1>4, <1>5, <1>6, <1>7 DEF Mark, x, cell

\* Moving marks, but no marker to another one, keeps their numbers.
LEMMA MappedCounts ==
  ASSUME NEW bag, FiniteBag(bag), NEW image, DOMAIN image = DOMAIN bag,
         \A d \in DOMAIN bag : image[d].idx = d.idx
  PROVE  /\ Count(Mapped(bag, image)) = Count(bag)
         /\ \A m : Copies(Mapped(bag, image), m) = Copies(bag, m)
<1> DEFINE B == Mapped(bag, image)
<1>1. DOMAIN B = {image[d] : d \in DOMAIN bag}
  BY MappedBag
<1>2. \A T \in SUBSET DOMAIN B :
        SumFunctionOnSet(B, T) = SumFunctionOnSet(bag, {d \in DOMAIN bag : image[d] \in T})
  BY MappedSum
<1> HIDE DEF B
<1>3. Count(B) = Count(bag)
  <2>1. {d \in DOMAIN bag : image[d] \in DOMAIN B} = DOMAIN bag
    BY <1>1
  <2> QED BY <1>2, <2>1 DEF Count, BagToSet
<1>4. ASSUME NEW m PROVE Copies(B, m) = Copies(bag, m)
  <2> DEFINE T == {e \in DOMAIN B : e.idx = m}
             S == {d \in DOMAIN bag : d.idx = m}
  <2>1. {d \in DOMAIN bag : image[d] \in T} = S
    BY <1>1
  <2>2. T \in SUBSET DOMAIN B
    OBVIOUS
  <2>3. Copies(B, m) = SumFunctionOnSet(B, T) /\ Copies(bag, m) = SumFunctionOnSet(bag, S)
    BY DEF Copies, BagToSet
  <2> HIDE DEF T, S
  <2> QED BY <1>2, <2>1, <2>2, <2>3
<1> QED BY <1>3, <1>4 DEF B

LEMMA HasCopies ==
  ASSUME NEW bag, FiniteBag(bag), NEW m
  PROVE  Copies(bag, m) \in Nat /\ (Copies(bag, m) > 0 <=> Has(bag, m))
<1> DEFINE S == {e \in DOMAIN bag : e.idx = m}
<1>1. S \in SUBSET DOMAIN bag /\ (S # {} <=> Has(bag, m))
  BY DEF Has
<1>2. Copies(bag, m) = SumFunctionOnSet(bag, S)
  BY DEF Copies, BagToSet
<1> HIDE DEF S
<1>3. SumFunctionOnSet(bag, S) \in Nat /\ (S # {} => SumFunctionOnSet(bag, S) > 0)
  BY <1>1, SumInBag
<1>4. S = {} => SumFunctionOnSet(bag, S) = 0
  BY SumOverNothing
<1> QED BY <1>1, <1>2, <1>3, <1>4

\* The cell that contains a mark becomes its cell.
AtHome(e) == [e EXCEPT !.cell = CellIndex(e.x, 0)]

LEMMA AtHomeMark ==
  ASSUME NEW e, NEW c, NEW m, NEW x, e = Mark(0, c, m, x)
  PROVE  AtHome(e) = Mark(0, CellIndex(x, 0), m, x)
  BY DEF AtHome, Mark

LEMMA CollectedMarks ==
  ASSUME NEW h \in Hierarchies, NEW bag, FiniteBag(bag), NEW n \in 0 .. MaxMoves,
         \A e \in DOMAIN bag : MarkOf(h, e) /\ Near(e, n)
  PROVE  LET C == ResetCells(h, CoarsenData(bag))
         IN  /\ \A g \in Hierarchies : Sorted(g, C)
             /\ \A e \in DOMAIN C : e.level = 0
             /\ Count(C) = Count(bag) /\ \A m : Copies(C, m) = Copies(bag, m)
<1> DEFINE D == CoarsenData(bag)
           C == ResetCells(h, D)
           down == [e \in DOMAIN bag |-> OnCoarsest(e)]
           F == {e \in DOMAIN D : \E box \in Level(h, 0) :
                     CellIndex(e.x, 0) \in Cells(box) /\ e.cell \in GhostBox(box)}
           home == [e \in F |-> AtHome(e)]
<1>1. D = Mapped(bag, down)
  BY DEF CoarsenData, BagToSet, OnCoarsest
<1>2. \A e \in DOMAIN bag :
          LET d == OnCoarsest(e)
          IN  /\ d = Mark(0, d.cell, e.idx, e.x)
              /\ CellIndex(e.x, 0) \in Region(h, 0)
              /\ d.cell - Ghosts <= CellIndex(e.x, 0) /\ CellIndex(e.x, 0) <= d.cell + Ghosts
              /\ d.cell \in Int
  BY CoarsenedMark
<1>3. /\ FiniteBag(D) /\ DOMAIN D = {OnCoarsest(e) : e \in DOMAIN bag}
      /\ Count(D) = Count(bag) /\ \A m : Copies(D, m) = Copies(bag, m)
  <2>1. DOMAIN down = DOMAIN bag
    OBVIOUS
  <2>2. \A e \in DOMAIN bag : down[e].idx = e.idx
    BY <1>2 DEF Mark
  <2>3. {down[e] : e \in DOMAIN bag} = {OnCoarsest(e) : e \in DOMAIN bag}
    OBVIOUS
  <2> HIDE DEF D, down
  <2> QED BY <1>1, <2>1, <2>2, <2>3, MappedBag, MappedCounts
<1>4. \A d \in DOMAIN D :
          /\ d = Mark(0, d.cell, d.idx, d.x) /\ d.idx \in Marker /\ d.x \in 1 .. XUpper - 1
          /\ CellIndex(d.x, 0) \in Region(h, 0) /\ d.cell \in Int
          /\ d.cell - Ghosts <= CellIndex(d.x, 0) /\ CellIndex(d.x, 0) <= d.cell + Ghosts
  <2> SUFFICES ASSUME NEW e \in DOMAIN bag
               PROVE  LET d == OnCoarsest(e) IN
                        /\ d = Mark(0, d.cell, d.idx, d.x) /\ d.idx \in Marker /\ d.x \in 1 .. XUpper - 1
                        /\ CellIndex(d.x, 0) \in Region(h, 0) /\ d.cell \in Int
                        /\ d.cell - Ghosts <= CellIndex(d.x, 0)
                        /\ CellIndex(d.x, 0) <= d.cell + Ghosts
    BY <1>3
  <2> DEFINE d == OnCoarsest(e)
  <2>1. d = Mark(0, d.cell, e.idx, e.x)
    BY <1>2
  <2>2. d.idx = e.idx /\ d.x = e.x
    BY <2>1 DEF Mark
  <2>3. e.idx \in Marker /\ e.x \in 1 .. XUpper - 1
    BY DEF MarkOf, MarkFields
  <2> HIDE DEF d
  <2>4. /\ CellIndex(e.x, 0) \in Region(h, 0)
        /\ d.cell - Ghosts <= CellIndex(e.x, 0) /\ CellIndex(e.x, 0) <= d.cell + Ghosts
        /\ d.cell \in Int
    BY <1>2 DEF d
  <2>5. /\ d = Mark(0, d.cell, d.idx, d.x) /\ d.idx \in Marker /\ d.x \in 1 .. XUpper - 1
        /\ CellIndex(d.x, 0) \in Region(h, 0) /\ d.cell \in Int
        /\ d.cell - Ghosts <= CellIndex(d.x, 0) /\ CellIndex(d.x, 0) <= d.cell + Ghosts
    BY <2>1, <2>2, <2>3, <2>4
  <2> QED BY <2>5 DEF d
<1> HIDE DEF D
<1>5. F = DOMAIN D
  <2> SUFFICES ASSUME NEW d \in DOMAIN D
               PROVE  \E box \in Level(h, 0) :
                        CellIndex(d.x, 0) \in Cells(box) /\ d.cell \in GhostBox(box)
    OBVIOUS
  <2> DEFINE q == CellIndex(d.x, 0)
             c == d.cell
  <2>1. PICK box \in Level(h, 0) : q \in Cells(box)
    BY <1>4 DEF Region
  <2>2. c \in Int /\ q \in Region(h, 0) /\ c - Ghosts <= q /\ q <= c + Ghosts
    BY <1>4
  <2>3. 0 \in 0 .. Finest(h)
    BY HierarchyType
  <2>4. box[1] \in Int /\ box[2] \in Int /\ Ghosts \in Nat /\ q \in Int
    BY <2>2, <2>3, BoxType, BoundsAssumption, RegionType
  <2> HIDE DEF q, c
  <2>5. box[1] <= q /\ q <= box[2]
    BY <2>1, <2>4 DEF Cells
  <2>6. c \in GhostBox(box)
    <3>1. box[1] - Ghosts <= c /\ c <= box[2] + Ghosts
      BY <2>2, <2>4, <2>5
    <3> QED BY <2>2, <2>4, <3>1 DEF GhostBox
  <2> QED BY <2>1, <2>6 DEF q, c
<1>6. C = Mapped(Restrict(D, F), home)
  BY DEF ResetCells, BagToSet, AtHome
<1>7. /\ FiniteBag(Restrict(D, F)) /\ DOMAIN Restrict(D, F) = F
      /\ Count(Restrict(D, F)) = Count(D) /\ \A m : Copies(Restrict(D, F), m) = Copies(D, m)
  <2> HIDE DEF F
  <2>1. /\ FiniteBag(Restrict(D, F)) /\ DOMAIN Restrict(D, F) = F
        /\ \A T \in SUBSET F : SumFunctionOnSet(Restrict(D, F), T) = SumFunctionOnSet(D, T)
    BY <1>3, <1>5, RestrictedBag
  <2>2. Count(Restrict(D, F)) = Count(D)
    BY <1>5, <2>1 DEF Count, BagToSet
  <2>3. ASSUME NEW m PROVE Copies(Restrict(D, F), m) = Copies(D, m)
    <3> DEFINE T == {e \in F : e.idx = m}
    <3>1. T \in SUBSET F
      OBVIOUS
    <3>2. Copies(Restrict(D, F), m) = SumFunctionOnSet(Restrict(D, F), T)
      BY <2>1 DEF Copies, BagToSet
    <3>3. Copies(D, m) = SumFunctionOnSet(D, T)
      BY <1>5 DEF Copies, BagToSet
    <3> HIDE DEF T
    <3> QED BY <2>1, <3>1, <3>2, <3>3
  <2> QED BY <2>1, <2>2, <2>3
<1>8. ASSUME NEW d \in F
      PROVE  AtHome(d) = Mark(0, CellIndex(d.x, 0), d.idx, d.x)
  <2>1. d = Mark(0, d.cell, d.idx, d.x)
    BY <1>4
  <2> DEFINE c == d.cell
             m == d.idx
             x == d.x
  <2>2. d = Mark(0, c, m, x)
    BY <2>1
  <2> HIDE DEF c, m, x
  <2>3. AtHome(d) = Mark(0, CellIndex(x, 0), m, x)
    BY <2>2, AtHomeMark
  <2> QED BY <2>3 DEF m, x
<1>9. /\ FiniteBag(C) /\ DOMAIN C = {AtHome(d) : d \in F}
      /\ Count(C) = Count(D) /\ \A m : Copies(C, m) = Copies(D, m)
  <2>1. DOMAIN home = F
    OBVIOUS
  <2>2. \A d \in F : home[d].idx = d.idx
    BY <1>8 DEF Mark
  <2>3. {home[d] : d \in F} = {AtHome(d) : d \in F}
    OBVIOUS
  <2> HIDE DEF F, home, C
  <2>4. FiniteBag(C) /\ DOMAIN C = {home[d] : d \in F}
    BY <1>6, <1>7, <2>1, MappedBag
  <2>5. Count(C) = Count(Restrict(D, F)) /\ \A m : Copies(C, m) = Copies(Restrict(D, F), m)
    BY <1>6, <1>7, <2>1, <2>2, MappedCounts
  <2> QED BY <1>7, <2>3, <2>4, <2>5
<1>10. ASSUME NEW g \in Hierarchies, NEW e \in DOMAIN C
       PROVE  MarkOf(g, e) /\ Here(e) /\ e.level = 0
  <2>1. PICK d \in F : e = AtHome(d)
    BY <1>9
  <2>2. e = Mark(0, CellIndex(d.x, 0), d.idx, d.x)
    BY <1>8, <2>1
  <2>3. /\ CellIndex(d.x, 0) \in Region(h, 0)
        /\ d.idx \in Marker /\ d.x \in 1 .. XUpper - 1
    BY <1>4
  <2>4. Region(h, 0) = Region(g, 0) /\ 0 \in 0 .. Finest(g)
    BY HierarchyType
  <2> QED BY <2>2, <2>3, <2>4 DEF MarkOf, MarkFields, Here, Mark
<1>11. \E g \in Hierarchies : TRUE
  OBVIOUS
<1> HIDE DEF C
<1>12. /\ \A g \in Hierarchies : Sorted(g, C)
       /\ \A e \in DOMAIN C : e.level = 0
  BY <1>9, <1>10, <1>11 DEF Sorted
<1> QED BY <1>3, <1>9, <1>12 DEF C, D

-----------------------------------------------------------------------------
(* Advecting *)

LEMMA BetweenIsNear ==
  ASSUME NEW x \in Int, NEW y \in Int, NEW d \in Int, NEW g \in Nat,
         -g <= MaxMoves * d, MaxMoves * d <= g,
         \/ x <= y /\ y <= x + d
         \/ x + d <= y /\ y <= x
  PROVE  -g <= MaxMoves * (y - x) /\ MaxMoves * (y - x) <= g
<1>1. MaxMoves \in Nat
  BY BoundsAssumption
<1> DEFINE z == y - x
<1>2. z \in Int /\ ((0 <= z /\ z <= d) \/ (d <= z /\ z <= 0))
  OBVIOUS
<1> HIDE DEF z
<1>3. CASE 0 <= z /\ z <= d
  <2>1. MaxMoves * z <= MaxMoves * d /\ MaxMoves * z >= 0
    BY <1>1, <1>2, <1>3
  <2>2. MaxMoves * z \in Int /\ MaxMoves * d \in Int
    BY <1>1, <1>2
  <2> QED BY <2>1, <2>2 DEF z
<1>4. CASE d <= z /\ z <= 0
  <2>1. MaxMoves * d <= MaxMoves * z /\ MaxMoves * z <= 0
    BY <1>1, <1>2, <1>4
  <2>2. MaxMoves * z \in Int /\ MaxMoves * d \in Int
    BY <1>1, <1>2
  <2> QED BY <2>1, <2>2 DEF z
<1> QED BY <1>2, <1>3, <1>4

\* A displacement moves a marker by the distance one step may cover at most:
\* interpolation yields the displacement or nothing, the trapezoidal rule may
\* halve it, and the walls only shorten the way.
LEMMA StepInReach ==
  ASSUME NEW step \in Steps, NEW d \in Displacements, NEW e, e.x \in 1 .. XUpper - 1
  PROVE  LET y == NewPosition(step, e, d)
             g == Ghosts * Width(0)
         IN  /\ y \in 1 .. XUpper - 1
             /\ -g <= MaxMoves * (y - e.x) /\ MaxMoves * (y - e.x) <= g
<1> DEFINE g == Ghosts * Width(0)
           x == e.x
           y == NewPosition(step, e, d)
           half == d \div 2
           Clip(z) == PreventMarkerEscape(z)
<1>1. Width(0) \in Nat /\ MaxMoves \in Nat /\ Ghosts \in Nat
  BY WidthType, BoundsAssumption
<1>2. g \in Nat /\ d \in Int /\ -g <= MaxMoves * d /\ MaxMoves * d <= g
  <2>1. d \in Int /\ d * MaxMoves \in -g .. g /\ g \in Nat
    BY <1>1, ReachAssumption
  <2> HIDE DEF g
  <2>2. d * MaxMoves = MaxMoves * d
    BY <1>1, <2>1
  <2> QED BY <2>1, <2>2
<1>3. XUpper \in Int
  BY WidthType, HierarchyAssumption, FS_CardinalityType, BoundsAssumption DEF XUpper
<1>4. x \in Int /\ 1 <= x /\ x <= XUpper - 1
  BY <1>3
<1>5. ASSUME NEW z \in {0, d, half}
      PROVE  /\ Clip(x + z) \in 1 .. XUpper - 1
             /\ \/ x <= Clip(x + z) /\ Clip(x + z) <= x + d
                \/ x + d <= Clip(x + z) /\ Clip(x + z) <= x
  <2>1. half \in Int /\ ((0 <= half /\ half <= d) \/ (d <= half /\ half <= 0))
    BY <1>2
  <2> HIDE DEF half, x
  <2>2. z \in Int /\ ((0 <= z /\ z <= d) \/ (d <= z /\ z <= 0))
    BY <1>2, <2>1
  <2> QED BY <1>2, <1>3, <1>4, <2>2 DEF PreventMarkerEscape
<1>6. \A z : Interpolated(e, z, d) \in {0, d}
  BY DEF Interpolated
<1>7. y = Clip(x + 0) \/ y = Clip(x + d) \/ y = Clip(x + half)
  <2>1. CASE step = "euler"
    <3>1. y = EulerStep(e, d)
      BY <2>1 DEF NewPosition
    <3> QED BY <1>6, <3>1 DEF EulerStep
  <2>2. CASE step = "midpoint"
    <3>1. y = MidpointStep(e, d)
      BY <2>2 DEF NewPosition
    <3> QED BY <1>6, <3>1 DEF MidpointStep
  <2>3. CASE step = "trapezoidal"
    <3> DEFINE a == Interpolated(e, x, d)
               b == Interpolated(e, EulerStep(e, d), d)
    <3>1. y = TrapezoidalStep(e, d)
      BY <2>3 DEF NewPosition
    <3>2. y = Clip(x + ((a + b) \div 2))
      BY <3>1 DEF TrapezoidalStep
    <3>3. a \in {0, d} /\ b \in {0, d}
      BY <1>6
    <3> HIDE DEF a, b, y, Clip, x
    <3>4. (a + b) \div 2 \in {0, d, half}
      BY <1>2, <3>3
    <3> QED BY <3>2, <3>4
  <2> QED BY <2>1, <2>2, <2>3 DEF Steps
<1>8. PICK z \in {0, d, half} : y = Clip(x + z)
  <2> HIDE DEF y, Clip, half
  <2> QED BY <1>7
<1>9. /\ y \in 1 .. XUpper - 1
      /\ (x <= y /\ y <= x + d) \/ (x + d <= y /\ y <= x)
  <2> HIDE DEF y, Clip, half
  <2> QED BY <1>5, <1>8
<1> HIDE DEF g, x, y
<1>10. y \in Int
  BY <1>9
<1>11. -g <= MaxMoves * (y - x) /\ MaxMoves * (y - x) <= g
  BY <1>2, <1>4, <1>9, <1>10, BetweenIsNear
<1> QED BY <1>9, <1>11 DEF g, x, y

Moved(step, d, e) == [e EXCEPT !.x = NewPosition(step, e, d)]

LEMMA MovedMark ==
  ASSUME NEW h \in Hierarchies, NEW e, MarkOf(h, e), NEW n \in Nat, n + 1 <= MaxMoves, Near(e, n),
         NEW step \in Steps, NEW d \in Displacements
  PROVE  LET f == Moved(step, d, e)
         IN  MarkOf(h, f) /\ Near(f, n + 1) /\ f.idx = e.idx
<1> DEFINE y == NewPosition(step, e, d)
           g == Ghosts * Width(0)
           w == Width(e.level)
           x == e.x
           lo == e.cell * w
           f == Moved(step, d, e)
<1>1. /\ y \in 1 .. XUpper - 1
      /\ -g <= MaxMoves * (y - x) /\ MaxMoves * (y - x) <= g
  BY StepInReach DEF MarkOf, MarkFields
<1>2. e = Mark(e.level, e.cell, e.idx, e.x)
  BY DEF MarkOf, MarkFields
<1>3. f = Mark(e.level, e.cell, e.idx, y)
  <2>1. DOMAIN e = {"level", "cell", "idx", "x"}
    BY <1>2 DEF Mark
  <2>2. f = [k \in DOMAIN e |-> IF k = "x" THEN y ELSE e[k]]
    BY <2>1 DEF Moved
  <2> HIDE DEF y
  <2> QED BY <2>1, <2>2 DEF Mark
<1>4. g \in Nat /\ lo \in Int /\ w \in Nat \ {0} /\ x \in Int /\ MaxMoves \in Nat
  BY MarkType, WidthType, BoundsAssumption
<1>5. MaxMoves * (lo - x) <= n * g /\ MaxMoves * (x - (lo + w - 1)) <= n * g
  BY DEF Near
<1> HIDE DEF f, y
<1>6. f.level = e.level /\ f.cell = e.cell /\ f.idx = e.idx /\ f.x = y
  BY <1>3 DEF Mark
<1>7. MarkOf(h, f)
  BY <1>1, <1>3, <1>6 DEF MarkOf, MarkFields
<1>8. /\ MaxMoves * (lo - y) <= (n + 1) * g
      /\ MaxMoves * (y - (lo + w - 1)) <= (n + 1) * g
  <2>1. y \in Int
    BY <1>1
  <2> HIDE DEF g, lo, w, x
  <2> DEFINE p == MaxMoves * (y - x)
             q == MaxMoves * (lo - x)
             r == MaxMoves * (x - (lo + w - 1))
  <2>2. /\ MaxMoves * (lo - y) = q - p /\ MaxMoves * (y - (lo + w - 1)) = r + p
        /\ (n + 1) * g = n * g + g
    BY <1>4, <2>1
  <2>3. p \in Int /\ q \in Int /\ r \in Int /\ n * g \in Int
    BY <1>4, <2>1
  <2>4. -g <= p /\ p <= g /\ q <= n * g /\ r <= n * g
    BY <1>1, <1>5
  <2> HIDE DEF p, q, r
  <2> QED BY <1>4, <2>2, <2>3, <2>4
<1>9. n + 1 # 0
  OBVIOUS
<1>10. Near(f, n + 1)
  BY <1>6, <1>8, <1>9 DEF Near
<1> QED BY <1>6, <1>7, <1>10 DEF f

-----------------------------------------------------------------------------
(* The inductive invariant: it says, of every mark, where it is and how    *)
(* far it may have drifted since the levels were filled.                   *)

IInv ==
    /\ moves \in 0 .. MaxMoves
    /\ regrids \in 0 .. MaxRegrids
    /\ pc \in {"start", "initialized", "running"}
    /\ IF pc = "start" THEN hierarchy = <<>> /\ marks = EmptyBag ELSE hierarchy \in Hierarchies
    /\ pc # "running" => moves = 0
    /\ FiniteBag(marks)
    /\ \A e \in DOMAIN marks : MarkOf(hierarchy, e) /\ Near(e, moves)
    /\ pc # "start" => \A m \in Marker : Has(marks, m)
    /\ pc = "running" /\ moves = 0 => \A e \in DOMAIN marks : BelongsIn(hierarchy, e)

\* Marks in the cells that contain them have not moved.
LEMMA HereIsNear ==
  ASSUME NEW h \in Hierarchies, NEW e, MarkOf(h, e), Here(e)
  PROVE  Near(e, 0)
<1> DEFINE w == Width(e.level)
           q == e.x \div w
           x == e.x
           g == Ghosts * Width(0)
<1>1. w \in Nat \ {0} /\ x \in Int /\ MaxMoves \in Nat /\ e.cell = q /\ g \in Nat
  BY MarkType, WidthType, BoundsAssumption DEF Here, CellIndex
<1>2. q \in Int /\ q * w <= x /\ x <= q * w + w - 1
  BY <1>1, DivBounds
<1> HIDE DEF w, q, x, g
<1>3. MaxMoves * (q * w - x) <= 0 /\ MaxMoves * (x - (q * w + w - 1)) <= 0
  BY <1>1, <1>2
<1>4. 0 * g = 0
  BY <1>1
<1> QED BY <1>1, <1>2, <1>3, <1>4 DEF Near, w, x, g

LEMMA IInvInit == Init => IInv
<1> SUFFICES ASSUME Init PROVE IInv
  OBVIOUS
<1>1. DOMAIN marks = {} /\ FiniteBag(marks)
  <2>1. marks = [e \in {} |-> 1]
    BY DEF Init, EmptyBag, SetToBag
  <2> QED BY <2>1, FS_EmptySet DEF FiniteBag, IsABag
<1> QED BY <1>1, BoundsAssumption DEF Init, IInv

LEMMA InitializeKeepsIInv ==
  ASSUME IInv, NEW h \in Hierarchies, NEW posns \in [Marker -> InitPosns],
         InitializePatchHierarchy(h, posns)
  PROVE  IInv'
<1> DEFINE B == InitialMarks(posns)
           L == InitializeLevels(h, B)
<1>1. Sorted(h, B) /\ \A m \in Marker : Has(B, m)
  BY InitialMarksSorted
<1>2. \A e \in DOMAIN B : e.level = 0
  BY DEF InitialMarks, SetToBag, Mark
<1> HIDE DEF B
<1>3. Sorted(h, L) /\ DOMAIN B \subseteq DOMAIN L
  BY <1>1, <1>2, LevelsFilled
<1> HIDE DEF L
<1>4. \A e \in DOMAIN L : MarkOf(h, e) /\ Near(e, 0)
  BY <1>3, HereIsNear DEF Sorted
<1>5. marks' = L /\ hierarchy' = h /\ moves' = moves /\ regrids' = regrids
      /\ pc = "start" /\ pc' = "initialized"
  BY DEF InitializePatchHierarchy, L, B
<1>6. moves = 0
  BY <1>5 DEF IInv
<1> QED BY <1>1, <1>3, <1>4, <1>5, <1>6 DEF IInv, Sorted, Has

\* What a regrid collects, and that it collects everything.
LEMMA CollectedInState ==
  ASSUME IInv, pc # "start"
  PROVE  /\ \A g \in Hierarchies : Sorted(g, Collected)
         /\ \A e \in DOMAIN Collected : e.level = 0
         /\ Count(Collected) = Count(marks) /\ \A m : Copies(Collected, m) = Copies(marks, m)
         /\ \A m \in Marker : Has(Collected, m)
<1>1. hierarchy \in Hierarchies /\ FiniteBag(marks) /\ moves \in 0 .. MaxMoves
      /\ (\A e \in DOMAIN marks : MarkOf(hierarchy, e) /\ Near(e, moves))
      /\ \A m \in Marker : Has(marks, m)
  BY DEF IInv
<1>2. /\ \A g \in Hierarchies : Sorted(g, Collected)
      /\ \A e \in DOMAIN Collected : e.level = 0
      /\ Count(Collected) = Count(marks) /\ \A m : Copies(Collected, m) = Copies(marks, m)
  BY <1>1, CollectedMarks DEF Collected
<1>3. FiniteBag(Collected)
  BY <1>1, <1>2 DEF Sorted
<1>4. ASSUME NEW m \in Marker PROVE Has(Collected, m)
  <2>1. Copies(marks, m) > 0 /\ Copies(Collected, m) = Copies(marks, m)
    BY <1>1, <1>2, HasCopies
  <2> QED BY <1>3, <2>1, HasCopies
<1> QED BY <1>2, <1>4

LEMMA RegridKeepsIInv ==
  ASSUME IInv, NEW h \in Hierarchies, RegridHierarchy(h)
  PROVE  IInv'
<1> DEFINE C == Collected
           L == InitializeLevels(h, C)
           P == Pruned(h, L)
<1>1. pc # "start" /\ regrids < MaxRegrids
  BY DEF RegridHierarchy
<1>2. /\ Sorted(h, C) /\ (\A e \in DOMAIN C : e.level = 0) /\ Count(C) = Count(marks)
      /\ \A m \in Marker : Has(C, m)
  BY <1>1, CollectedInState
<1>3. /\ hierarchy' = h /\ marks' = P /\ moves' = 0 /\ regrids' = regrids + 1 /\ pc' = "running"
  BY <1>2 DEF RegridHierarchy
<1> HIDE DEF C
<1>4. Sorted(h, L) /\ DOMAIN C \subseteq DOMAIN L /\ Complete(h, Finest(h), L)
  BY <1>2, LevelsFilled
<1>5. \A m \in Marker : Has(L, m)
  BY <1>2, <1>4 DEF Has
<1> HIDE DEF L
<1>6. /\ Sorted(h, P) /\ \A e \in DOMAIN P : BelongsIn(h, e)
      /\ \A m \in Marker : Has(P, m)
  BY <1>4, <1>5, PrunedMarks
<1> HIDE DEF P
<1>7. \A e \in DOMAIN P : MarkOf(h, e) /\ Near(e, 0)
  BY <1>6, HereIsNear DEF Sorted
<1>8. regrids + 1 \in 0 .. MaxRegrids /\ 0 \in 0 .. MaxMoves
  BY <1>1, BoundsAssumption DEF IInv
<1> QED BY <1>3, <1>6, <1>7, <1>8 DEF IInv, Sorted, Has

LEMMA AdvectKeepsIInv ==
  ASSUME IInv, NEW step \in Steps, NEW d \in Displacements, Advect(step, d)
  PROVE  IInv'
<1> DEFINE image == [e \in DOMAIN marks |-> Moved(step, d, e)]
           B == Mapped(marks, image)
           h == hierarchy
<1>1. marks' = B /\ moves' = moves + 1 /\ pc = "running" /\ moves < MaxMoves
      /\ hierarchy' = h /\ regrids' = regrids /\ pc' = pc
  BY DEF Advect, BagToSet, Moved
<1>2. h \in Hierarchies /\ FiniteBag(marks) /\ moves \in Nat /\ moves + 1 <= MaxMoves
  BY <1>1, BoundsAssumption DEF IInv
<1>3. FiniteBag(B) /\ DOMAIN B = {image[e] : e \in DOMAIN marks}
  <2>1. DOMAIN image = DOMAIN marks
    OBVIOUS
  <2> HIDE DEF image
  <2> QED BY <1>2, <2>1, MappedBag
<1>4. DOMAIN B = {Moved(step, d, e) : e \in DOMAIN marks}
  BY <1>3
<1> HIDE DEF B, h
<1>5. ASSUME NEW e \in DOMAIN marks
      PROVE  MarkOf(h, Moved(step, d, e)) /\ Near(Moved(step, d, e), moves + 1)
             /\ Moved(step, d, e).idx = e.idx
  <2>1. MarkOf(h, e) /\ Near(e, moves)
    BY DEF IInv, h
  <2> QED BY <1>2, <2>1, MovedMark
<1>6. \A e \in DOMAIN B : MarkOf(h, e) /\ Near(e, moves + 1)
  BY <1>4, <1>5
<1>7. \A m \in Marker : Has(B, m)
  <2>1. \A m \in Marker : Has(marks, m)
    BY <1>1 DEF IInv
  <2> QED BY <1>4, <1>5, <2>1 DEF Has
<1>8. moves + 1 \in 0 .. MaxMoves /\ moves + 1 # 0
  BY <1>2, BoundsAssumption
<1> QED BY <1>1, <1>2, <1>3, <1>6, <1>7, <1>8 DEF IInv

LEMMA Invariance == Spec => []IInv
<1>1. IInv /\ [Next]_vars => IInv'
  <2> SUFFICES ASSUME IInv, [Next]_vars PROVE IInv'
    OBVIOUS
  <2>1. CASE UNCHANGED vars
    BY <2>1 DEF IInv, vars
  <2>2. CASE \E h \in Hierarchies, posns \in [Marker -> InitPosns] :
               InitializePatchHierarchy(h, posns)
    BY <2>2, InitializeKeepsIInv
  <2>3. CASE \E h \in Hierarchies : RegridHierarchy(h)
    BY <2>3, RegridKeepsIInv
  <2>4. CASE \E step \in Steps, d \in Displacements : Advect(step, d)
    BY <2>4, AdvectKeepsIInv
  <2> QED BY <2>1, <2>2, <2>3, <2>4 DEF Next, Stopped
<1> QED BY <1>1, IInvInit, PTL DEF Spec

-----------------------------------------------------------------------------
(* Theorems *)

\* Every mark names a cell of a patch of its level, a marker of the file and a
\* position between the walls, whatever the levels and the flow.
THEOREM TypeCorrect == Spec => []TypeOK
<1>1. IInv => TypeOK
  <2> SUFFICES ASSUME IInv PROVE TypeOK
    OBVIOUS
  <2>1. IsABag(marks)
    BY DEF IInv, FiniteBag
  <2>2. ASSUME NEW e \in DOMAIN marks
        PROVE  /\ e.level \in 0 .. Finest(hierarchy) /\ e.cell \in Region(hierarchy, e.level)
               /\ e.idx \in Marker /\ e.x \in 1 .. XUpper - 1
    BY DEF IInv, MarkOf, MarkFields
  <2>3. hierarchy \in Hierarchies \cup {<<>>}
    BY DEF IInv
  <2> QED BY <2>1, <2>2, <2>3 DEF IInv, TypeOK, BagToSet
<1> QED BY <1>1, Invariance, PTL

\* However the markers move between two regrids, as long as they stay within
\* the ghost cells of the coarsest level, the collection finds each of them
\* again: the check of their number never stops the program, and every marker
\* of the file has a copy somewhere.
THEOREM MarkersKept == Spec => []NoMarkerLost
<1>1. IInv => NoMarkerLost
  <2> SUFFICES ASSUME IInv, NEW m \in Marker, pc # "start" PROVE Copies(marks, m) > 0
    BY DEF IInv, NoMarkerLost
  <2>1. FiniteBag(marks) /\ Has(marks, m)
    BY DEF IInv
  <2> QED BY <2>1, HasCopies
<1> QED BY <1>1, Invariance, PTL

\* After a regrid every mark is in the cell that contains it, on the finest
\* level that covers it, for any number of levels.
THEOREM FinestCells == Spec => []FinestCellAfterRegrid
<1>1. IInv => FinestCellAfterRegrid
  BY DEF IInv, FinestCellAfterRegrid, BelongsIn, Here, BelongsHere, BagToSet
<1> QED BY <1>1, Invariance, PTL

\* With one level nothing is refined and nothing pruned.
LEMMA OneLevelKeepsCopies ==
  ASSUME NEW h \in Hierarchies, Finest(h) = 0, NEW C, Sorted(h, C), NEW m
  PROVE  Copies(Pruned(h, InitializeLevels(h, C)), m) = Copies(C, m)
<1>1. InitializeLevels(h, C) = C
  BY PassesUnfolded
<1> DEFINE S == {e \in DOMAIN C : ~ Invalid(h, e)}
           T == {e \in DOMAIN C : e.idx = m}
<1>2. S = DOMAIN C
  <2>1. ASSUME NEW e \in DOMAIN C PROVE ~ Invalid(h, e)
    <3>1. MarkOf(h, e)
      BY DEF Sorted
    <3>2. e.level \in Nat
      BY <3>1, MarkType
    <3> QED BY <3>2 DEF Invalid
  <2> QED BY <2>1
<1>3. Pruned(h, C) = Restrict(C, DOMAIN C)
  BY <1>2 DEF Pruned, BagToSet
<1>4. /\ DOMAIN Restrict(C, DOMAIN C) = DOMAIN C
      /\ \A U \in SUBSET DOMAIN C :
            SumFunctionOnSet(Restrict(C, DOMAIN C), U) = SumFunctionOnSet(C, U)
  BY RestrictedBag DEF Sorted
<1>5. /\ Copies(Restrict(C, DOMAIN C), m) = SumFunctionOnSet(Restrict(C, DOMAIN C), T)
      /\ Copies(C, m) = SumFunctionOnSet(C, T)
  BY <1>4 DEF Copies, BagToSet
<1>6. T \in SUBSET DOMAIN C
  OBVIOUS
<1> HIDE DEF T, S
<1> QED BY <1>1, <1>3, <1>4, <1>5, <1>6

\* The copies refined from the marks that a level covers are as many as these.
LEMMA RefinedCopies ==
  ASSUME NEW h \in Hierarchies, NEW ln \in 1 .. Finest(h), NEW bag, Sorted(h, bag), NEW m
  PROVE  Copies(Refined(h, ln, bag), m)
           = SumFunctionOnSet(bag, {e \in Covered(h, ln, bag) : e.idx = m})
<1> DEFINE S == Covered(h, ln, bag)
           image == [e \in S |-> Child(ln, e)]
           B == Restrict(bag, S)
           T == {e \in S : e.idx = m}
<1>1. Refined(h, ln, bag) = Mapped(B, image)
  BY DEF Refined, Covered, Child, BagToSet
<1>2. S \in SUBSET DOMAIN bag /\ T \in SUBSET S
  BY DEF Covered
<1>3. /\ FiniteBag(B) /\ DOMAIN B = S
      /\ SumFunctionOnSet(B, T) = SumFunctionOnSet(bag, T)
  <2> HIDE DEF S, T
  <2> QED BY <1>2, RestrictedBag DEF Sorted
<1>4. DOMAIN image = S /\ \A d \in S : image[d].idx = d.idx
  BY DEF Child, Mark
<1>5. Copies(B, m) = SumFunctionOnSet(B, T)
  BY <1>3 DEF Copies, BagToSet
<1> HIDE DEF S, T, B, image
<1>6. Copies(Mapped(B, image), m) = Copies(B, m)
  BY <1>3, <1>4, MappedCounts
<1> QED BY <1>1, <1>3, <1>5, <1>6 DEF S, T

\* With two levels what is refined is what is pruned: the marks of the coarse
\* level that the fine one covers move to it.
LEMMA TwoLevelsKeepCopies ==
  ASSUME NEW h \in Hierarchies, Finest(h) = 1, NEW C, Sorted(h, C),
         \A e \in DOMAIN C : e.level = 0, NEW m
  PROVE  Copies(Pruned(h, InitializeLevels(h, C)), m) = Copies(C, m)
<1> DEFINE R == Refined(h, 1, C)
           B == C (+) R
           K == Covered(h, 1, C)
           S == {e \in DOMAIN B : ~ Invalid(h, e)}
           P == Restrict(B, S)
           Of(U) == {e \in U : e.idx = m}
<1>1. InitializeLevels(h, C) = B
  <2>1. PICK f : /\ InitializeLevels(h, C) = f[Finest(h)] /\ f[0] = C
                 /\ \A ln \in 1 .. Finest(h) : f[ln] = InitializeMarkersOnLevel(h, ln, f[ln - 1])
    BY PassesUnfolded
  <2>2. InitializeLevels(h, C) = InitializeMarkersOnLevel(h, 1, C)
    <3>1. 1 \in 1 .. 1 /\ 1 - 1 = 0
      OBVIOUS
    <3> QED BY <2>1, <3>1
  <2>3. PICK g : /\ InitializeMarkersOnLevel(h, 1, C) = g[1] /\ g[0] = C
                 /\ \A ln \in 1 .. 1 : g[ln] = g[ln - 1] (+) Refined(h, ln, g[ln - 1])
    BY FillUnfolded
  <2>4. g[1] = g[0] (+) Refined(h, 1, g[0])
    <3>1. 1 \in 1 .. 1 /\ 1 - 1 = 0
      OBVIOUS
    <3>2. g[1] = g[1 - 1] (+) Refined(h, 1, g[1 - 1])
      BY <2>3, <3>1, Zenon
    <3> QED BY <3>1, <3>2
  <2> QED BY <2>2, <2>3, <2>4
<1>2. /\ Sorted(h, R) /\ DOMAIN R = {Child(1, e) : e \in K}
      /\ \A e \in DOMAIN R : e.level = 1
  <2>1. 1 \in 1 .. Finest(h)
    OBVIOUS
  <2> QED BY <2>1, RefinedMarks
<1>3. DOMAIN C \cap DOMAIN R = {}
  BY <1>2
<1>4. /\ FiniteBag(C) /\ FiniteBag(R) /\ FiniteBag(B) /\ DOMAIN B = DOMAIN C \cup DOMAIN R
      /\ \A e \in DOMAIN C : B[e] = C[e]
      /\ \A e \in DOMAIN R : B[e] = R[e]
  <2>1. FiniteBag(C) /\ FiniteBag(R)
    BY <1>2 DEF Sorted
  <2> HIDE DEF R
  <2> QED BY <1>3, <2>1, UnionOfBags
<1>5. \A e \in DOMAIN R : ~ Invalid(h, e)
  BY <1>2 DEF Invalid
<1>6. ASSUME NEW e \in DOMAIN C PROVE Invalid(h, e) <=> e \in K
  <2>1. MarkOf(h, e) /\ Here(e) /\ e.level = 0 /\ e.x \in Int
    BY MarkType DEF Sorted
  <2>2. Invalid(h, e) <=> CellIndex(e.x, 1) \in Region(h, 1)
    <3>1. 0 + 1 = 1 /\ 0 < 1
      OBVIOUS
    <3> QED BY <2>1, <3>1, InvalidMeansCovered
  <2>3. Coarsened(CellIndex(e.x, 1)) = e.cell
    <3>1. 1 \in 1 .. MaxLevels - 1 /\ 1 - 1 = 0
      BY HierarchyType, BoundsAssumption
    <3>2. Coarsened(CellIndex(e.x, 1)) = CellIndex(e.x, 1 - 1)
      BY <2>1, <3>1, CellOnCoarserLevel
    <3> QED BY <2>1, <3>1, <3>2 DEF Here
  <2>4. 1 - 1 = 0
    OBVIOUS
  <2> QED BY <2>1, <2>2, <2>3, <2>4 DEF Covered
<1>7. K \in SUBSET DOMAIN C
  BY DEF Covered
<1> HIDE DEF R, B, K
<1>8. S = (DOMAIN C \ K) \cup DOMAIN R
  BY <1>4, <1>5, <1>6
<1>9. Pruned(h, B) = P
  BY DEF Pruned, BagToSet
<1>10. S \in SUBSET DOMAIN B
  OBVIOUS
<1>11. /\ DOMAIN P = S
       /\ \A U \in SUBSET S : SumFunctionOnSet(P, U) = SumFunctionOnSet(B, U)
  <2> HIDE DEF S
  <2> QED BY <1>4, <1>10, RestrictedBag
<1>12. Copies(P, m) = SumFunctionOnSet(B, Of(S))
  <2>1. Copies(P, m) = SumFunctionOnSet(P, Of(S))
    BY <1>11 DEF Copies, BagToSet
  <2>2. Of(S) \in SUBSET S
    OBVIOUS
  <2> HIDE DEF P, S, Of
  <2> QED BY <1>11, <2>1, <2>2
<1> DEFINE kept == Of(DOMAIN C \ K)
           fine == Of(DOMAIN R)
           gone == Of(K)
<1>13. Of(S) = kept \cup fine /\ kept \cap fine = {}
  BY <1>3, <1>8
<1>14. /\ kept \in SUBSET DOMAIN C /\ fine \in SUBSET DOMAIN R /\ gone \in SUBSET DOMAIN C
       /\ kept \in SUBSET DOMAIN B /\ fine \in SUBSET DOMAIN B
  BY <1>4, <1>7
<1>15. Of(DOMAIN C) = kept \cup gone /\ kept \cap gone = {}
  BY <1>7
<1>16. /\ Copies(C, m) = SumFunctionOnSet(C, Of(DOMAIN C))
       /\ Copies(R, m) = SumFunctionOnSet(R, fine)
  BY DEF Copies, BagToSet
<1>17. Copies(R, m) = SumFunctionOnSet(C, gone)
  <2>1. 1 \in 1 .. Finest(h)
    OBVIOUS
  <2> QED BY <2>1, RefinedCopies DEF R, K
<1> HIDE DEF kept, fine, gone, S, P, Of
<1>18. SumFunctionOnSet(B, kept \cup fine)
         = SumFunctionOnSet(B, kept) + SumFunctionOnSet(B, fine)
  <2>1. /\ IsFiniteSet(kept) /\ IsFiniteSet(fine)
        /\ \A e \in kept \cup fine : B[e] \in Int
    BY <1>4, <1>14, SumInBag
  <2> QED BY <1>13, <2>1, SumOfUnion
<1>19. SumFunctionOnSet(B, kept) = SumFunctionOnSet(C, kept)
  <2>1. IsFiniteSet(kept)
    BY <1>4, <1>14, SumInBag
  <2> QED BY <1>4, <1>14, <2>1, SumCongruent
<1>20. SumFunctionOnSet(B, fine) = SumFunctionOnSet(R, fine)
  <2>1. IsFiniteSet(fine)
    BY <1>4, <1>14, SumInBag
  <2> QED BY <1>4, <1>14, <2>1, SumCongruent
<1>21. SumFunctionOnSet(C, kept \cup gone)
         = SumFunctionOnSet(C, kept) + SumFunctionOnSet(C, gone)
  <2>1. /\ IsFiniteSet(kept) /\ IsFiniteSet(gone)
        /\ \A e \in kept \cup gone : C[e] \in Int
    BY <1>4, <1>14, SumInBag
  <2> QED BY <1>15, <2>1, SumOfUnion
<1> QED BY <1>1, <1>9, <1>12, <1>13, <1>15, <1>16, <1>17, <1>18, <1>19, <1>20, <1>21

\* Regridding to at most two levels keeps the number of copies of each marker,
\* however many there are: collection moves them, and a copy below the fine
\* level is refined once and pruned once.
THEOREM CopiesKept == Spec => RegridKeepsCopies
<1>1. IInv /\ [Next]_vars =>
        [regrids' # regrids /\ Len(hierarchy') <= 2 =>
           \A m \in Marker : Copies(marks', m) = Copies(marks, m)]_vars
  <2> SUFFICES ASSUME IInv, [Next]_vars, regrids' # regrids, Len(hierarchy') <= 2,
                      NEW m \in Marker
               PROVE  Copies(marks', m) = Copies(marks, m)
    OBVIOUS
  <2>1. PICK h \in Hierarchies : RegridHierarchy(h)
    BY DEF Next, Stopped, vars, InitializePatchHierarchy, Advect
  <2>2. pc # "start"
    BY <2>1 DEF RegridHierarchy
  <2>3. /\ Sorted(h, Collected) /\ (\A e \in DOMAIN Collected : e.level = 0)
        /\ Count(Collected) = Count(marks) /\ Copies(Collected, m) = Copies(marks, m)
    BY <2>2, CollectedInState
  <2>4. hierarchy' = h /\ marks' = Pruned(h, InitializeLevels(h, Collected))
    BY <2>1, <2>3 DEF RegridHierarchy
  <2>5. Finest(h) = 0 \/ Finest(h) = 1
    <3> DEFINE n == Len(h)
    <3>1. n \in 1 .. MaxLevels /\ n <= 2 /\ Finest(h) = n - 1
      BY <2>4, HierarchyAssumption DEF Finest
    <3> HIDE DEF n
    <3> QED BY <3>1
  <2> QED BY <2>3, <2>4, <2>5, OneLevelKeepsCopies, TwoLevelsKeepCopies
<1> QED BY <1>1, Invariance, PTL DEF Spec, RegridKeepsCopies
=============================================================================

---------------------------- MODULE NumberTheorems ----------------------------
(***************************************************************************)
(* Quotients of natural numbers, and their sums over a finite set, as      *)
(* SumFunctionOnSet of the community modules computes them: by a recursive *)
(* function that takes out one element after another.  What it computes is *)
(* proved by induction, and an induction here is a set of counterexamples  *)
(* with a smallest member.                                                 *)
(***************************************************************************)
EXTENDS Functions, FiniteSetTheorems, TLAPS

\* Quotients round down alike.
LEMMA DivMonotone ==
    ASSUME NEW a \in Nat, NEW b \in Nat, a <= b, NEW n \in Nat \ {0}
    PROVE  a \div n \in Nat /\ b \div n \in Nat /\ a \div n <= b \div n
<1>1. /\ a = n * (a \div n) + (a % n) /\ a % n \in 0 .. n - 1 /\ a \div n \in Int
      /\ b = n * (b \div n) + (b % n) /\ b % n \in 0 .. n - 1 /\ b \div n \in Int
  BY Z3
<1>2. QED
  BY <1>1, Z3

\* Natural numbers are well-founded.
LEMMA LeastNat ==
    ASSUME NEW T \in SUBSET Nat, T # {}
    PROVE  \E n \in T : \A m \in T : n <= m
<1> DEFINE R == OpToRel(<, Nat)
<1>1. IsWellFoundedOn(R, Nat)
  BY NatLessThanWellFounded
<1>2. \A m, n \in Nat : m < n => <<m, n>> \in R
  BY DEF OpToRel
<1> HIDE DEF R
<1>3. PICK n \in T : \A m \in T : ~(<<m, n>> \in R)
  BY <1>1, WFMin
<1>4. ASSUME NEW m \in T PROVE n <= m
  <2>1. n \in Nat /\ m \in Nat
    OBVIOUS
  <2>2. ~(m < n)
    BY <1>2, <1>3, <2>1
  <2>3. QED
    BY <2>1, <2>2
<1>5. QED
  BY <1>4

\* Among finite sets there is one that no longer is one of them when any of its
\* elements is taken out: what makes an induction over finite sets.
LEMMA SmallestSet ==
    ASSUME NEW B, B # {}, \A s \in B : IsFiniteSet(s)
    PROVE  \E s \in B : \A x \in s : s \ {x} \notin B
<1> DEFINE T == {Cardinality(s) : s \in B}
<1>1. T \in SUBSET Nat /\ T # {}
  BY FS_CardinalityType
<1>2. PICK n \in T : \A m \in T : n <= m
  BY <1>1, LeastNat
<1>3. PICK s \in B : n = Cardinality(s)
  BY <1>2
<1>4. ASSUME NEW x \in s PROVE s \ {x} \notin B
  <2>1. /\ Cardinality(s \ {x}) = Cardinality(s) - 1
        /\ Cardinality(s) \in Nat
    BY FS_RemoveElement, FS_CardinalityType
  <2>2. QED
    BY <1>2, <1>3, <2>1
<1>5. QED
  BY <1>4

\* The element the fold takes out, and its recursion, on a set of sets.
Pick(s) == CHOOSE x \in s : TRUE
IsSum(h, f, D) == h = [s \in D |-> IF s = {} THEN 0 ELSE f[Pick(s)] + h[s \ {Pick(s)}]]

\* There is a function that satisfies the recursion, for the subsets of up to any
\* number of elements: FoldFunctionOnSet's CHOOSE has something to choose.
LEMMA SumExists ==
    ASSUME NEW f, NEW S, IsFiniteSet(S)
    PROVE  \E h : IsSum(h, f, SUBSET S)
<1> DEFINE D(n) == {s \in SUBSET S : Cardinality(s) <= n}
           Bad == {n \in Nat : ~ \E h : IsSum(h, f, D(n))}
<1>1. \A s \in SUBSET S : IsFiniteSet(s) /\ Cardinality(s) \in Nat /\ Cardinality(s) <= Cardinality(S)
  BY FS_Subset, FS_CardinalityType
<1>2. SUFFICES Bad = {}
  <2>1. Cardinality(S) \in Nat /\ D(Cardinality(S)) = SUBSET S
    BY <1>1, FS_CardinalityType
  <2>2. QED
    BY <2>1
<1>3. SUFFICES ASSUME Bad # {} PROVE FALSE
  OBVIOUS
<1>4. PICK n \in Bad : \A m \in Bad : n <= m
  <2>1. Bad \in SUBSET Nat
    OBVIOUS
  <2> HIDE DEF Bad
  <2>2. QED
    BY <1>3, <2>1, LeastNat
<1>5. n \in Nat /\ ~ \E h : IsSum(h, f, D(n))
  OBVIOUS
<1>6. CASE n = 0
  <2>1. \A s \in D(n) : s = {}
    BY <1>1, <1>6, FS_EmptySet
  <2>2. IsSum([s \in D(n) |-> 0], f, D(n))
    BY <2>1 DEF IsSum
  <2>3. QED
    BY <1>5, <2>2
<1>7. CASE n # 0
  <2>1. n - 1 \in Nat /\ n - 1 \notin Bad
    <3>1. n - 1 \in Nat /\ ~(n <= n - 1)
      BY <1>5, <1>7
    <3> HIDE DEF Bad
    <3>2. QED
      BY <1>4, <3>1
  <2>2. PICK g : IsSum(g, f, D(n - 1))
    BY <2>1
  <2> DEFINE h == [s \in D(n) |-> IF s = {} THEN 0 ELSE f[Pick(s)] + g[s \ {Pick(s)}]]
  <2>3. \A s \in D(n - 1) : s \in D(n) /\ h[s] = g[s]
    <3>1. \A s \in D(n - 1) : s \in D(n)
      BY <1>1, <1>5
    <3>2. \A s \in D(n - 1) : g[s] = IF s = {} THEN 0 ELSE f[Pick(s)] + g[s \ {Pick(s)}]
      <4> HIDE DEF D
      <4>1. QED
        BY <2>2, Zenon DEF IsSum
    <3>3. QED
      BY <3>1, <3>2
  <2>4. \A s \in D(n) : s # {} => s \ {Pick(s)} \in D(n - 1)
    <3> SUFFICES ASSUME NEW s \in D(n), s # {} PROVE s \ {Pick(s)} \in D(n - 1)
      OBVIOUS
    <3>1. Pick(s) \in s
      BY DEF Pick
    <3>2. Cardinality(s \ {Pick(s)}) = Cardinality(s) - 1
      BY <1>1, <3>1, FS_RemoveElement
    <3>3. QED
      BY <1>1, <1>5, <3>2
  <2>5. IsSum(h, f, D(n))
    BY <2>3, <2>4 DEF IsSum
  <2>6. QED
    BY <1>5, <2>5
<1>8. QED
  BY <1>6, <1>7

\* And the sum is its value.
LEMMA SumIs ==
    ASSUME NEW f, NEW S, IsFiniteSet(S)
    PROVE  \E h : IsSum(h, f, SUBSET S) /\ SumFunctionOnSet(f, S) = h[S]
<1> DEFINE h == CHOOSE iter : IsSum(iter, f, SUBSET S)
<1>1. IsSum(h, f, SUBSET S)
  BY SumExists
<1>2. SumFunctionOnSet(f, S) = h[S]
  BY DEF SumFunctionOnSet, FoldFunctionOnSet, MapThenFoldSet, IsSum, Pick
<1>3. QED
  BY <1>1, <1>2

\* Two such functions agree on the sets both are defined on.
LEMMA SumAgrees ==
    ASSUME NEW f, NEW e, NEW S, NEW T, NEW h, NEW g,
           IsSum(h, f, SUBSET S), IsSum(g, e, SUBSET T),
           NEW A \in SUBSET S, A \in SUBSET T, IsFiniteSet(A), \A x \in A : f[x] = e[x]
    PROVE  h[A] = g[A]
<1> DEFINE Bad == {s \in SUBSET A : h[s] # g[s]}
<1>1. SUFFICES ASSUME Bad # {} PROVE FALSE
  OBVIOUS
<1>2. PICK s \in Bad : \A x \in s : s \ {x} \notin Bad
  <2>1. \A s \in Bad : IsFiniteSet(s)
    BY FS_Subset
  <2> HIDE DEF Bad
  <2>2. QED
    BY <1>1, <2>1, SmallestSet
<1>3. s \in SUBSET S /\ s \in SUBSET T
  OBVIOUS
<1>4. /\ h[s] = IF s = {} THEN 0 ELSE f[Pick(s)] + h[s \ {Pick(s)}]
      /\ g[s] = IF s = {} THEN 0 ELSE e[Pick(s)] + g[s \ {Pick(s)}]
  BY <1>3, Zenon DEF IsSum
<1>5. CASE s = {}
  BY <1>4, <1>5
<1>6. CASE s # {}
  <2>1. Pick(s) \in s
    BY <1>6 DEF Pick
  <2>2. h[s \ {Pick(s)}] = g[s \ {Pick(s)}]
    BY <1>2, <2>1
  <2>3. f[Pick(s)] = e[Pick(s)]
    BY <2>1
  <2>4. QED
    BY <1>4, <1>6, <2>2, <2>3
<1>7. QED
  BY <1>5, <1>6

\* The sum over the empty set.
LEMMA SumOfNone == ASSUME NEW f PROVE SumFunctionOnSet(f, {}) = 0
<1>1. PICK h : IsSum(h, f, SUBSET {}) /\ SumFunctionOnSet(f, {}) = h[{}]
  BY SumIs, FS_EmptySet
<1>2. QED
  BY <1>1 DEF IsSum

\* A sum depends on the terms and on nothing else of the function.
LEMMA SumSame ==
    ASSUME NEW f, NEW e, NEW S, IsFiniteSet(S), \A x \in S : f[x] = e[x]
    PROVE  SumFunctionOnSet(f, S) = SumFunctionOnSet(e, S)
<1>1. PICK h : IsSum(h, f, SUBSET S) /\ SumFunctionOnSet(f, S) = h[S]
  BY SumIs
<1>2. PICK g : IsSum(g, e, SUBSET S) /\ SumFunctionOnSet(e, S) = g[S]
  BY SumIs
<1>3. QED
  BY <1>1, <1>2, SumAgrees

\* A sum over another set has a first term.
LEMMA SumOfSome ==
    ASSUME NEW f, NEW S, IsFiniteSet(S), S # {}
    PROVE  \E p \in S : SumFunctionOnSet(f, S) = f[p] + SumFunctionOnSet(f, S \ {p})
<1> DEFINE p == Pick(S)
<1>1. p \in S
  BY DEF Pick
<1>2. PICK h : IsSum(h, f, SUBSET S) /\ SumFunctionOnSet(f, S) = h[S]
  BY SumIs
<1>3. IsFiniteSet(S \ {p})
  BY FS_Subset
<1>4. PICK g : IsSum(g, f, SUBSET (S \ {p})) /\ SumFunctionOnSet(f, S \ {p}) = g[S \ {p}]
  BY <1>3, SumIs
<1>5. h[S \ {p}] = g[S \ {p}]
  <2> DEFINE rest == S \ {p}
  <2>1. /\ rest \in SUBSET S /\ rest \in SUBSET rest /\ IsFiniteSet(rest)
        /\ IsSum(g, f, SUBSET rest)
        /\ \A x \in rest : f[x] = f[x]
    BY <1>3, <1>4
  <2> HIDE DEF rest
  <2>2. h[rest] = g[rest]
    BY <1>2, <2>1, SumAgrees
  <2>3. QED
    BY <2>2 DEF rest
<1>6. h[S] = f[p] + h[S \ {p}]
  BY <1>2, Zenon DEF IsSum
<1>7. QED
  BY <1>1, <1>2, <1>4, <1>5, <1>6

\* Naturals add up to a natural.
LEMMA SumIsNat ==
    ASSUME NEW f, NEW S, IsFiniteSet(S), \A x \in S : f[x] \in Nat
    PROVE  SumFunctionOnSet(f, S) \in Nat
<1> DEFINE Bad == {s \in SUBSET S : SumFunctionOnSet(f, s) \notin Nat}
<1>1. SUFFICES ASSUME Bad # {} PROVE FALSE
  OBVIOUS
<1>2. PICK s \in Bad : \A x \in s : s \ {x} \notin Bad
  <2>1. \A s \in Bad : IsFiniteSet(s)
    BY FS_Subset
  <2> HIDE DEF Bad
  <2>2. QED
    BY <1>1, <2>1, SmallestSet
<1>3. s # {}
  BY SumOfNone
<1>4. PICK p \in s : SumFunctionOnSet(f, s) = f[p] + SumFunctionOnSet(f, s \ {p})
  BY <1>3, SumOfSome, FS_Subset
<1>5. SumFunctionOnSet(f, s \ {p}) \in Nat /\ f[p] \in Nat
  BY <1>2
<1>6. QED
  BY <1>4, <1>5

\* Any element can be the one that is taken out.
LEMMA SumWithout ==
    ASSUME NEW f, NEW S, IsFiniteSet(S), \A x \in S : f[x] \in Nat, NEW x \in S
    PROVE  SumFunctionOnSet(f, S) = f[x] + SumFunctionOnSet(f, S \ {x})
<1> DEFINE Splits(s, y) == SumFunctionOnSet(f, s) = f[y] + SumFunctionOnSet(f, s \ {y})
           Bad == {s \in SUBSET S : \E y \in s : ~Splits(s, y)}
<1>1. SUFFICES ASSUME Bad # {} PROVE FALSE
  OBVIOUS
<1>2. PICK s \in Bad : \A y \in s : s \ {y} \notin Bad
  <2>1. \A s \in Bad : IsFiniteSet(s)
    BY FS_Subset
  <2> HIDE DEF Bad
  <2>2. QED
    BY <1>1, <2>1, SmallestSet
<1>3. PICK y \in s : ~Splits(s, y)
  OBVIOUS
<1>4. PICK p \in s : Splits(s, p)
  BY SumOfSome, FS_Subset
<1>5. p # y
  BY <1>3, <1>4
<1>6. Splits(s \ {p}, y) /\ Splits(s \ {y}, p)
  BY <1>2, <1>5
<1>7. (s \ {p}) \ {y} = (s \ {y}) \ {p}
  OBVIOUS
<1>8. /\ f[p] \in Nat /\ f[y] \in Nat
      /\ SumFunctionOnSet(f, (s \ {y}) \ {p}) \in Nat
  <2>1. IsFiniteSet((s \ {y}) \ {p}) /\ \A z \in (s \ {y}) \ {p} : f[z] \in Nat
    BY FS_Subset
  <2>2. QED
    BY <2>1, SumIsNat
<1> DEFINE rest == SumFunctionOnSet(f, (s \ {y}) \ {p})
<1>9. SumFunctionOnSet(f, s) = f[p] + (f[y] + rest)
  BY <1>4, <1>6, <1>7
<1>10. SumFunctionOnSet(f, s \ {y}) = f[p] + rest
  BY <1>6
<1>11. SumFunctionOnSet(f, s) # f[y] + SumFunctionOnSet(f, s \ {y})
  BY <1>3
<1> HIDE DEF rest, Bad, Splits
<1>12. rest \in Nat
  BY <1>8 DEF rest
<1>13. QED
  BY <1>8, <1>9, <1>10, <1>11, <1>12

\* The sum over two disjoint sets is the sum of their sums.
LEMMA SumOfTwo ==
    ASSUME NEW f, NEW A, NEW B, IsFiniteSet(A), IsFiniteSet(B), A \cap B = {},
           \A x \in A \cup B : f[x] \in Nat
    PROVE  /\ SumFunctionOnSet(f, A) \in Nat
           /\ SumFunctionOnSet(f, B) \in Nat
           /\ SumFunctionOnSet(f, A \cup B) = SumFunctionOnSet(f, A) + SumFunctionOnSet(f, B)
<1> DEFINE Bad == {s \in SUBSET B :
                     SumFunctionOnSet(f, A \cup s) # SumFunctionOnSet(f, A) + SumFunctionOnSet(f, s)}
<1>1. SumFunctionOnSet(f, A) \in Nat /\ SumFunctionOnSet(f, B) \in Nat
  BY SumIsNat
<1>2. SUFFICES ASSUME Bad # {} PROVE FALSE
  BY <1>1
<1>3. PICK s \in Bad : \A y \in s : s \ {y} \notin Bad
  <2>1. \A s \in Bad : IsFiniteSet(s)
    BY FS_Subset
  <2> HIDE DEF Bad
  <2>2. QED
    BY <1>2, <2>1, SmallestSet
<1>4. s # {}
  <2>1. A \cup {} = A
    OBVIOUS
  <2>2. QED
    BY <1>1, <2>1, SumOfNone
<1>5. PICK y : y \in s
  BY <1>4
<1>6. IsFiniteSet(s) /\ IsFiniteSet(A \cup s) /\ IsFiniteSet(s \ {y})
  BY FS_Subset, FS_Union
<1>7. SumFunctionOnSet(f, s) = f[y] + SumFunctionOnSet(f, s \ {y})
  BY <1>5, <1>6, SumWithout
<1>8. SumFunctionOnSet(f, A \cup s) = f[y] + SumFunctionOnSet(f, (A \cup s) \ {y})
  <2>1. \A x \in A \cup s : f[x] \in Nat
    OBVIOUS
  <2>2. QED
    BY <1>5, <1>6, <2>1, SumWithout
<1>9. (A \cup s) \ {y} = A \cup (s \ {y})
  BY <1>5
<1>10. SumFunctionOnSet(f, A \cup (s \ {y})) = SumFunctionOnSet(f, A) + SumFunctionOnSet(f, s \ {y})
  BY <1>3, <1>5
<1>11. SumFunctionOnSet(f, s \ {y}) \in Nat /\ f[y] \in Nat
  BY <1>5, <1>6, SumIsNat
<1>12. SumFunctionOnSet(f, A \cup s) # SumFunctionOnSet(f, A) + SumFunctionOnSet(f, s)
  OBVIOUS
<1> HIDE DEF Bad
<1>13. SumFunctionOnSet(f, A \cup s) = f[y] + (SumFunctionOnSet(f, A) + SumFunctionOnSet(f, s \ {y}))
  BY <1>8, <1>9, <1>10
<1>14. QED
  BY <1>1, <1>7, <1>11, <1>12, <1>13

\* A part of a sum is no more than the whole.
LEMMA SumOfPart ==
    ASSUME NEW f, NEW S, IsFiniteSet(S), NEW A \in SUBSET S, \A x \in S : f[x] \in Nat
    PROVE  SumFunctionOnSet(f, A) <= SumFunctionOnSet(f, S)
<1>1. /\ IsFiniteSet(A) /\ IsFiniteSet(S \ A) /\ A \cap (S \ A) = {}
      /\ A \cup (S \ A) = S
  BY FS_Subset
<1>2. /\ SumFunctionOnSet(f, A) \in Nat /\ SumFunctionOnSet(f, S \ A) \in Nat
      /\ SumFunctionOnSet(f, A \cup (S \ A)) = SumFunctionOnSet(f, A) + SumFunctionOnSet(f, S \ A)
  <2>1. \A x \in A \cup (S \ A) : f[x] \in Nat
    BY <1>1
  <2>2. QED
    BY <1>1, <2>1, SumOfTwo
<1>3. SumFunctionOnSet(f, S) = SumFunctionOnSet(f, A) + SumFunctionOnSet(f, S \ A)
  BY <1>1, <1>2
<1>4. QED
  BY <1>2, <1>3

\* The sum of one term.
LEMMA SumOfOne ==
    ASSUME NEW f, NEW x, f[x] \in Nat
    PROVE  SumFunctionOnSet(f, {x}) = f[x]
<1> DEFINE S == {x}
<1>0. IsFiniteSet(S) /\ S # {}
  BY FS_Singleton
<1>1. PICK p \in S : SumFunctionOnSet(f, S) = f[p] + SumFunctionOnSet(f, S \ {p})
  <2> HIDE DEF S
  <2>1. QED
    BY <1>0, SumOfSome
<1>2. p = x /\ {x} \ {p} = {}
  OBVIOUS
<1>3. QED
  BY <1>1, <1>2, SumOfNone

===============================================================================

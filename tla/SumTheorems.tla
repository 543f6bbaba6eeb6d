----------------------------- MODULE SumTheorems -----------------------------
(***************************************************************************)
(* What the folds of the community modules, which the balances, flows and  *)
(* scores of the models are written with, compute for every finite set: a  *)
(* sum of numbers grows by what is added to it, in whatever order the fold *)
(* takes them, and a product of sets has the sequences of their elements.  *)
(* And: a finite set that is totally ordered has a greatest element, and   *)
(* an element for every place in the order.                                *)
(*                                                                         *)
(* The induction theorems of the library take an operator.  Where they     *)
(* take a set instead, as WFMin does, an induction is a proof that the     *)
(* set of counterexamples, having no least element, is empty.              *)
(***************************************************************************)
EXTENDS Integers, Sequences, FiniteSetsExt, FiniteSetTheorems, WellFoundedInduction,
  TLAPS

\* The element a fold takes next.
Next1(s) == CHOOSE x \in s : TRUE

\* g sums f over each of the sets in D.
Sums(g, f, D) ==
  g = [s \in D |-> IF s = {} THEN 0 ELSE f[Next1(s)] + g[s \ {Next1(s)}]]

\* T is the finite set S and one element more.
Grown(S, x, T) == IsFiniteSet(S) /\ x \notin S /\ T = S \cup {x}

Numbers(f, S) == \A x \in S : f[x] \in Int
Counts(f, S) == \A x \in S : f[x] \in Nat
Agree(f, e, S) == \A x \in S : f[x] = e[x]

\* A nonempty set of natural numbers has a least one.
LEMMA LeastNat ==
  ASSUME NEW T \in SUBSET Nat, T # {}
  PROVE  \E n \in T : \A m \in T : n <= m
<1>. DEFINE R == OpToRel(<, Nat)
<1>1. \A x, y \in Nat : <<x, y>> \in R <=> x < y
  BY DEF OpToRel
<1>2. IsWellFoundedOn(R, Nat)
  BY NatLessThanWellFounded
<1>. HIDE DEF R
<1>3. PICK n \in T : \A m \in T : ~ (<<m, n>> \in R)
  BY <1>2, WFMin
<1>4. ASSUME NEW m \in T PROVE n <= m
  <2>1. n \in Nat /\ m \in Nat
    OBVIOUS
  <2>2. ~ (m < n)
    BY <1>1, <1>3, <2>1
  <2>. QED BY <2>1, <2>2
<1>. QED BY <1>3, <1>4

\* Of the subsets of a finite set that are chosen, one has none of the others in it.
LEMMA LeastSubset ==
  ASSUME NEW S, IsFiniteSet(S), NEW T \in SUBSET SUBSET S, T # {}
  PROVE  \E u \in T : \A v \in T : v \subseteq u => v = u
<1>1. IsWellFoundedOn(StrictSubsetOrdering(S), SUBSET S)
  BY FS_FiniteSubsetsOfFinite, FS_StrictSubsetOrderingWellFounded
<1>2. PICK u \in T : \A v \in T : ~ (<<v, u>> \in StrictSubsetOrdering(S))
  BY <1>1, WFMin
<1>. QED BY <1>2 DEF StrictSubsetOrdering

LEMMA NextIsIn == \A s : s # {} => Next1(s) \in s
BY DEF Next1

\* A sum over the subsets of a finite set exists.
LEMMA SumExists ==
  ASSUME NEW S, IsFiniteSet(S), NEW f
  PROVE  \E g : Sums(g, f, SUBSET S)
<1>. DEFINE D(n) == {s \in SUBSET S : Cardinality(s) <= n}
            Bad == {n \in Nat : ~ \E g : Sums(g, f, D(n))}
<1>1. \A s \in SUBSET S : IsFiniteSet(s) /\ Cardinality(s) \in Nat
                          /\ Cardinality(s) <= Cardinality(S)
  BY FS_Subset, FS_CardinalityType
<1>2. ASSUME NEW s \in SUBSET S, s # {}
      PROVE  /\ s \ {Next1(s)} \in SUBSET S
             /\ Cardinality(s \ {Next1(s)}) = Cardinality(s) - 1
  BY <1>1, <1>2, NextIsIn, FS_RemoveElement
<1>3. 0 \notin Bad
  <2>. DEFINE g == [s \in D(0) |-> 0]
  <2>1. \A s \in D(0) : s = {}
    BY <1>1, FS_EmptySet
  <2>2. Sums(g, f, D(0))
    BY <2>1 DEF Sums
  <2>. QED BY <2>2
<1>4. ASSUME NEW n \in Nat, n \notin Bad PROVE n + 1 \notin Bad
  <2>1. PICK g : Sums(g, f, D(n))
    BY <1>4
  <2>. DEFINE h == [s \in D(n + 1) |->
                      IF s \in D(n) THEN g[s]
                      ELSE f[Next1(s)] + g[s \ {Next1(s)}]]
  <2>2. ASSUME NEW s \in D(n + 1), s # {}
        PROVE  s \ {Next1(s)} \in D(n) /\ s \ {Next1(s)} \in D(n + 1)
    BY <1>1, <1>2, <2>2
  <2>3. \A s \in D(n) : s \in D(n + 1) /\ h[s] = g[s]
    BY <1>1
  <2>4. \A s \in D(n) : g[s] = IF s = {} THEN 0 ELSE f[Next1(s)] + g[s \ {Next1(s)}]
    BY <2>1 DEF Sums
  <2>5. ASSUME NEW s \in D(n + 1)
        PROVE  h[s] = IF s = {} THEN 0 ELSE f[Next1(s)] + h[s \ {Next1(s)}]
    <3>1. {} \in D(n)
      BY FS_EmptySet
    <3>2. CASE s = {}
      BY <2>3, <2>4, <3>1, <3>2
    <3>3. CASE s # {}
      <4>1. h[s \ {Next1(s)}] = g[s \ {Next1(s)}]
        BY <2>2, <2>3, <3>3
      <4>2. h[s] = f[Next1(s)] + g[s \ {Next1(s)}]
        BY <2>4, <3>3
      <4>. QED BY <3>3, <4>1, <4>2
    <3>. QED BY <3>2, <3>3
  <2>6. Sums(h, f, D(n + 1))
    <3>1. h = [s \in D(n + 1) |-> h[s]]
      OBVIOUS
    <3>. HIDE DEF h
    <3>2. h = [s \in D(n + 1) |-> IF s = {} THEN 0 ELSE f[Next1(s)] + h[s \ {Next1(s)}]]
      BY <2>5, <3>1
    <3>. QED BY <3>2 DEF Sums
  <2>. QED BY <2>6
<1>5. Bad = {}
  <2>1. SUFFICES ASSUME Bad # {} PROVE FALSE
    OBVIOUS
  <2>2. Bad \subseteq Nat
    OBVIOUS
  <2>3. PICK n \in Bad : \A m \in Bad : n <= m
    BY <2>1, <2>2, LeastNat
  <2>4. n \in Nat /\ n # 0 /\ n - 1 \in Nat /\ (n - 1) + 1 = n
    BY <1>3, <2>2, <2>3
  <2>5. n - 1 \notin Bad
    <3>1. ~ (n <= n - 1)
      BY <2>4
    <3>. HIDE DEF Bad
    <3>. QED BY <2>3, <3>1
  <2>. HIDE DEF Bad
  <2>. QED BY <1>4, <2>3, <2>4, <2>5
<1>6. D(Cardinality(S)) = SUBSET S /\ Cardinality(S) \in Nat
  BY <1>1, FS_CardinalityType
<1>. QED BY <1>5, <1>6

\* What a sum is, set by set.
LEMMA SumStep ==
  ASSUME NEW S, NEW f, NEW g, Sums(g, f, SUBSET S), NEW s \in SUBSET S
  PROVE  g[s] = IF s = {} THEN 0 ELSE f[Next1(s)] + g[s \ {Next1(s)}]
BY DEF Sums

\* It is a number.
LEMMA SumType ==
  ASSUME NEW S, IsFiniteSet(S), NEW f, NEW g, Sums(g, f, SUBSET S),
         Numbers(f, S)
  PROVE  \A s \in SUBSET S : g[s] \in Int
<1>. DEFINE Bad == {s \in SUBSET S : g[s] \notin Int}
<1>1. SUFFICES ASSUME Bad # {} PROVE FALSE
  OBVIOUS
<1>2. PICK u \in Bad : \A v \in Bad : v \subseteq u => v = u
  <2>1. Bad \in SUBSET SUBSET S
    OBVIOUS
  <2>. HIDE DEF Bad
  <2>. QED BY <1>1, <2>1, LeastSubset
<1>3. u # {} /\ Next1(u) \in S /\ Next1(u) \in u
  <2>1. u \in SUBSET S /\ g[u] \notin Int
    OBVIOUS
  <2>. HIDE DEF Bad
  <2>2. g[{}] = 0
    BY SumStep
  <2>3. g[{}] \in Int
    BY <2>2
  <2>4. u # {}
    BY <2>1, <2>3, Zenon
  <2>. QED BY <2>1, <2>4, NextIsIn
<1>4. g[u \ {Next1(u)}] \in Int
  BY <1>2, <1>3
<1>5. f[Next1(u)] \in Int /\ g[u] = f[Next1(u)] + g[u \ {Next1(u)}]
  BY <1>2, <1>3, SumStep DEF Numbers
<1>. QED BY <1>2, <1>4, <1>5

\* Any element may be taken out first.
LEMMA SumTakeOut ==
  ASSUME NEW S, IsFiniteSet(S), NEW f, NEW g, Sums(g, f, SUBSET S),
         Numbers(f, S)
  PROVE  \A s \in SUBSET S, x \in S : x \in s => g[s] = f[x] + g[s \ {x}]
<1>. DEFINE Bad == {s \in SUBSET S : \E x \in s : g[s] # f[x] + g[s \ {x}]}
<1>1. SUFFICES ASSUME Bad # {} PROVE FALSE
  OBVIOUS
<1>2. PICK u \in Bad : \A v \in Bad : v \subseteq u => v = u
  <2>1. Bad \in SUBSET SUBSET S
    OBVIOUS
  <2>. HIDE DEF Bad
  <2>. QED BY <1>1, <2>1, LeastSubset
<1>3. PICK x \in u : g[u] # f[x] + g[u \ {x}]
  BY <1>2
<1>. DEFINE c == Next1(u)
            r == u \ {x, c}
<1>4. u \in SUBSET S /\ c \in u /\ g[u] = f[c] + g[u \ {c}]
  <2>1. u \in SUBSET S /\ u # {}
    BY <1>2, <1>3
  <2>. QED BY <2>1, SumStep, NextIsIn
<1>. HIDE DEF c
<1>5. c # x
  BY <1>3, <1>4
<1>6. g[u \ {c}] = f[x] + g[r]
  <2>1. u \ {c} \notin Bad /\ u \ {c} \in SUBSET S /\ x \in u \ {c}
    BY <1>2, <1>3, <1>4, <1>5
  <2>2. (u \ {c}) \ {x} = r
    OBVIOUS
  <2>. QED BY <2>1, <2>2
<1>7. g[u \ {x}] = f[c] + g[r]
  <2>1. u \ {x} \notin Bad /\ u \ {x} \in SUBSET S /\ c \in u \ {x}
    BY <1>2, <1>3, <1>4, <1>5
  <2>2. (u \ {x}) \ {c} = r
    OBVIOUS
  <2>. QED BY <2>1, <2>2
<1>8. f[x] \in Int /\ f[c] \in Int /\ g[r] \in Int
  BY <1>3, <1>4, SumType DEF Numbers
<1>. HIDE DEF r
<1>. QED BY <1>3, <1>4, <1>6, <1>7, <1>8

\* Two sums over one set agree, whatever else they sum over.
LEMMA SumsAgree ==
  ASSUME NEW S, IsFiniteSet(S), NEW T, S \subseteq T, NEW f, NEW e, NEW g, NEW h,
         Sums(g, f, SUBSET S), Sums(h, e, SUBSET T), Agree(f, e, S)
  PROVE  \A s \in SUBSET S : g[s] = h[s]
<1>. DEFINE Bad == {s \in SUBSET S : g[s] # h[s]}
<1>1. SUFFICES ASSUME Bad # {} PROVE FALSE
  OBVIOUS
<1>2. PICK u \in Bad : \A v \in Bad : v \subseteq u => v = u
  <2>1. Bad \in SUBSET SUBSET S
    OBVIOUS
  <2>. HIDE DEF Bad
  <2>. QED BY <1>1, <2>1, LeastSubset
<1>3. u \in SUBSET S /\ u \in SUBSET T
  BY <1>2
<1>4. u # {} /\ Next1(u) \in u
  BY <1>2, <1>3, SumStep, NextIsIn
<1>5. g[u \ {Next1(u)}] = h[u \ {Next1(u)}]
  BY <1>2, <1>4
<1>6. g[u] = f[Next1(u)] + g[u \ {Next1(u)}] /\ h[u] = e[Next1(u)] + h[u \ {Next1(u)}]
  <2>. HIDE DEF Bad
  <2>1. g[u] = f[Next1(u)] + g[u \ {Next1(u)}]
    BY <1>3, <1>4, SumStep
  <2>2. h[u] = e[Next1(u)] + h[u \ {Next1(u)}]
    BY <1>3, <1>4, SumStep
  <2>. QED BY <2>1, <2>2
<1>. QED BY <1>2, <1>4, <1>5, <1>6 DEF Agree

\* A sum of natural numbers is one, and grows with its set.
LEMMA SumGrows ==
  ASSUME NEW S, IsFiniteSet(S), NEW f, NEW g, Sums(g, f, SUBSET S),
         Counts(f, S)
  PROVE  \A s \in SUBSET S : g[s] \in Nat /\ \A t \in SUBSET s : g[t] <= g[s]
<1>. DEFINE Bad == {s \in SUBSET S : ~(g[s] \in Nat /\ \A t \in SUBSET s : g[t] <= g[s])}
<1>1. SUFFICES ASSUME Bad # {} PROVE FALSE
  OBVIOUS
<1>2. PICK u \in Bad : \A v \in Bad : v \subseteq u => v = u
  <2>1. Bad \in SUBSET SUBSET S
    OBVIOUS
  <2>. HIDE DEF Bad
  <2>. QED BY <1>1, <2>1, LeastSubset
<1>3. u \in SUBSET S /\ g[{}] = 0
  BY <1>2, SumStep
<1>4. ASSUME NEW x \in u
      PROVE  /\ f[x] \in Nat /\ g[u] = f[x] + g[u \ {x}] /\ g[u \ {x}] \in Nat
             /\ \A t \in SUBSET (u \ {x}) : g[t] <= g[u \ {x}]
  <2>1. u \ {x} \notin Bad /\ u \ {x} \in SUBSET S /\ x \in S
    BY <1>2, <1>3
  <2>2. f[x] \in Nat /\ Numbers(f, S)
    BY <2>1 DEF Counts, Numbers
  <2>3. g[u] = f[x] + g[u \ {x}]
    <3>. HIDE DEF Bad
    <3>. QED BY <1>3, <2>1, <2>2, SumTakeOut
  <2>. QED BY <2>1, <2>2, <2>3
<1>5. g[u] \in Nat
  <2>1. CASE u = {}
    BY <1>3, <2>1
  <2>2. CASE u # {}
    <3>1. PICK x : x \in u
      BY <2>2
    <3>2. f[x] \in Nat /\ g[u] = f[x] + g[u \ {x}] /\ g[u \ {x}] \in Nat
      BY <1>4, <3>1
    <3>. HIDE DEF Bad
    <3>. QED BY <3>2
  <2>. QED BY <2>1, <2>2
<1>6. ASSUME NEW t \in SUBSET u PROVE g[t] <= g[u]
  <2>1. CASE t = u
    BY <1>5, <2>1
  <2>2. CASE t # u
    <3>1. PICK x \in u : t \in SUBSET (u \ {x})
      BY <2>2
    <3>2. t \in SUBSET S /\ t \notin Bad
      BY <1>2, <2>2
    <3>3. g[t] \in Nat
      BY <3>2
    <3>4. /\ f[x] \in Nat /\ g[u] = f[x] + g[u \ {x}] /\ g[u \ {x}] \in Nat
          /\ g[t] <= g[u \ {x}]
      BY <1>4, <3>1
    <3>. HIDE DEF Bad
    <3>. QED BY <3>3, <3>4
  <2>. QED BY <2>1, <2>2
<1>. QED BY <1>2, <1>5, <1>6

\* What a sum becomes when its set gets one element more.
LEMMA SumAdded ==
  ASSUME NEW S, NEW x, NEW T, Grown(S, x, T), NEW f, NEW e, NEW g, NEW h,
         Sums(g, f, SUBSET S), Sums(h, e, SUBSET T), Agree(f, e, S), Numbers(e, T)
  PROVE  g[S] \in Int /\ h[T] = e[x] + g[S]
<1>1. IsFiniteSet(S) /\ IsFiniteSet(T) /\ S \subseteq T /\ x \in T /\ T \ {x} = S
  BY FS_AddElement DEF Grown
<1>3. h[T] = e[x] + h[S]
  <2>1. \A s \in SUBSET T, y \in T : y \in s => h[s] = e[y] + h[s \ {y}]
    BY <1>1, SumTakeOut
  <2>. QED BY <1>1, <2>1
<1>4. g[S] = h[S]
  <2>1. Agree(f, e, S)
    OBVIOUS
  <2>2. \A s \in SUBSET S : g[s] = h[s]
    BY <1>1, <2>1, SumsAgree
  <2>. QED BY <2>2
<1>5. Numbers(f, S)
  BY <1>1 DEF Numbers, Agree
<1>6. g[S] \in Int
  <2>1. \A s \in SUBSET S : g[s] \in Int
    BY <1>1, <1>5, SumType
  <2>. QED BY <2>1
<1>. QED BY <1>3, <1>4, <1>6

-----------------------------------------------------------------------------
(* Greatest elements.                                                      *)

\* A finite set with a total order on it has a greatest element.
LEMMA GreatestOf ==
  ASSUME NEW S, IsFiniteSet(S), S # {}, NEW R,
         \A x, y \in S : x # y => <<x, y>> \in R \/ <<y, x>> \in R,
         \A x, y, z \in S : <<x, y>> \in R /\ <<y, z>> \in R => <<x, z>> \in R
  PROVE  \E x \in S : \A y \in S \ {x} : <<x, y>> \in R
<1>. DEFINE Bad == {s \in SUBSET S : s # {} /\ ~ \E x \in s : \A y \in s \ {x} : <<x, y>> \in R}
<1>1. SUFFICES ASSUME Bad # {} PROVE FALSE
  OBVIOUS
<1>2. PICK u \in Bad : \A v \in Bad : v \subseteq u => v = u
  <2>1. Bad \in SUBSET SUBSET S
    OBVIOUS
  <2>. HIDE DEF Bad
  <2>. QED BY <1>1, <2>1, LeastSubset
<1>3. PICK x : x \in u /\ x \in S
  OBVIOUS
<1>4. u \ {x} # {} /\ u \ {x} \in SUBSET S /\ u \ {x} \notin Bad
  <2>1. u \ {x} # {}
    <3>1. SUFFICES ASSUME u \ {x} = {} PROVE \A y \in u \ {x} : <<x, y>> \in R
      BY <1>3
    <3>. QED BY <3>1
  <2>2. u \ {x} \in SUBSET S
    OBVIOUS
  <2>. HIDE DEF Bad
  <2>. QED BY <1>2, <1>3, <2>1, <2>2
<1>5. PICK r \in u \ {x} : \A y \in (u \ {x}) \ {r} : <<r, y>> \in R
  BY <1>4
<1>6. CASE <<r, x>> \in R
  BY <1>5, <1>6
<1>7. CASE <<x, r>> \in R
  <2>1. \A y \in u \ {x} : <<x, y>> \in R
    BY <1>3, <1>5, <1>7
  <2>. QED BY <1>3, <2>1
<1>. QED BY <1>3, <1>5, <1>6, <1>7

\* The greatest and the least number of a set, when it has them.
LEMMA MaxIs ==
  ASSUME NEW S \in SUBSET Int, NEW m \in S, \A y \in S : y <= m
  PROVE  Max(S) = m
<1>. SUFFICES ASSUME NEW x \in S, \A y \in S : x >= y PROVE x = m
  BY DEF Max
<1>1. x <= m /\ m <= x /\ x \in Int /\ m \in Int
  OBVIOUS
<1>. QED BY <1>1

LEMMA MinIs ==
  ASSUME NEW S \in SUBSET Int, NEW m \in S, \A y \in S : m <= y
  PROVE  Min(S) = m
<1>. SUFFICES ASSUME NEW x \in S, \A y \in S : x <= y PROVE x = m
  BY DEF Min
<1>1. x <= m /\ m <= x /\ x \in Int /\ m \in Int
  OBVIOUS
<1>. QED BY <1>1

\* A finite set of numbers has both.
LEMMA FiniteMax ==
  ASSUME NEW S \in SUBSET Int, IsFiniteSet(S), S # {}
  PROVE  /\ Max(S) \in S /\ \A y \in S : y <= Max(S)
         /\ Min(S) \in S /\ \A y \in S : Min(S) <= y
<1>. DEFINE Above == {ss \in S \X S : ss[1] >= ss[2]}
            Below == {ss \in S \X S : ss[1] <= ss[2]}
<1>1. \A x, y \in S : /\ <<x, y>> \in Above <=> x >= y
                      /\ <<x, y>> \in Below <=> x <= y
  OBVIOUS
<1>. HIDE DEF Above, Below
<1>2. \A x, y \in S : /\ <<x, y>> \in Above \/ <<y, x>> \in Above
                      /\ <<x, y>> \in Below \/ <<y, x>> \in Below
  <2>1. \A x, y \in S : (x >= y \/ y >= x) /\ (x <= y \/ y <= x)
    OBVIOUS
  <2>. QED BY <1>1, <2>1
<1>3. \A x, y, z \in S : /\ <<x, y>> \in Above /\ <<y, z>> \in Above => <<x, z>> \in Above
                         /\ <<x, y>> \in Below /\ <<y, z>> \in Below => <<x, z>> \in Below
  <2>1. \A x, y, z \in S : /\ x >= y /\ y >= z => x >= z
                           /\ x <= y /\ y <= z => x <= z
    OBVIOUS
  <2>. QED BY <1>1, <2>1
<1>4. PICK m \in S : \A y \in S \ {m} : <<m, y>> \in Above
  BY <1>2, <1>3, GreatestOf
<1>5. PICK n \in S : \A y \in S \ {n} : <<n, y>> \in Below
  BY <1>2, <1>3, GreatestOf
<1>6. ASSUME NEW y \in S PROVE y <= m /\ n <= y
  <2>1. y \in Int /\ m \in Int /\ n \in Int
    OBVIOUS
  <2>2. y = m \/ m >= y
    BY <1>1, <1>4
  <2>3. y = n \/ n <= y
    BY <1>1, <1>5
  <2>. QED BY <2>1, <2>2, <2>3
<1>. QED BY <1>6, MaxIs, MinIs

\* R is a strict total order of S.
Ordered(S, R) ==
  /\ \A x, y \in S : x # y => <<x, y>> \in R \/ <<y, x>> \in R
  /\ \A x, y, z \in S : <<x, y>> \in R /\ <<y, z>> \in R => <<x, z>> \in R
  /\ \A x \in S : <<x, x>> \notin R

\* In a finite set with a strict total order on it, every place is somebody's: for each
\* number below its size, an element has that many others before it.
LEMMA RankExists ==
  ASSUME NEW S, IsFiniteSet(S), NEW R, Ordered(S, R), NEW n \in Nat, n < Cardinality(S)
  PROVE  \E x \in S : Cardinality({y \in S : <<y, x>> \in R}) = n
<1>0. /\ \A x, y \in S : x # y => <<x, y>> \in R \/ <<y, x>> \in R
      /\ \A x, y, z \in S : <<x, y>> \in R /\ <<y, z>> \in R => <<x, z>> \in R
      /\ \A x \in S : <<x, x>> \notin R
  BY DEF Ordered
<1>. DEFINE Before(x) == {y \in S : <<y, x>> \in R}
            N == Cardinality(S)
            rank == [x \in S |-> Cardinality(Before(x))]
<1>1. N \in Nat /\ n \in 0..(N - 1)
  BY FS_CardinalityType
<1>2. ASSUME NEW x \in S
      PROVE  /\ IsFiniteSet(Before(x)) /\ rank[x] \in Nat /\ rank[x] \in 0..(N - 1)
             /\ rank[x] = Cardinality(Before(x))
  <2>1. Before(x) \in SUBSET (S \ {x})
    BY <1>0
  <2>2. IsFiniteSet(S \ {x}) /\ Cardinality(S \ {x}) = N - 1
    BY FS_RemoveElement
  <2>. HIDE DEF Before
  <2>3. /\ IsFiniteSet(Before(x)) /\ Cardinality(Before(x)) \in Nat
        /\ Cardinality(Before(x)) <= N - 1
    BY <2>1, <2>2, FS_Subset, FS_CardinalityType
  <2>. QED BY <1>1, <2>3
<1>3. ASSUME NEW x \in S, NEW y \in S, <<x, y>> \in R PROVE rank[x] < rank[y]
  <2>1. Before(x) \in SUBSET (Before(y) \ {x}) /\ x \in Before(y)
    BY <1>0, <1>3
  <2>. HIDE DEF Before
  <2>2. IsFiniteSet(Before(y) \ {x}) /\ Cardinality(Before(y) \ {x}) = rank[y] - 1
    BY <1>2, <2>1, FS_RemoveElement
  <2>3. rank[x] <= rank[y] - 1
    BY <1>2, <2>1, <2>2, FS_Subset
  <2>. QED BY <1>2, <2>3
<1>4. rank \in Injection(S, 0..(N - 1))
  <2>1. rank \in [S -> 0..(N - 1)] /\ DOMAIN rank = S
    BY <1>2
  <2>2. ASSUME NEW x \in S, NEW y \in S, rank[x] = rank[y] PROVE x = y
    <3>1. rank[x] \in Nat /\ rank[y] \in Nat
      BY <1>2
    <3>2. \A u, v \in S : <<u, v>> \in R => rank[u] < rank[v]
      BY <1>3
    <3>. HIDE DEF rank
    <3>3. ~ (rank[x] < rank[y]) /\ ~ (rank[y] < rank[x])
      BY <2>2, <3>1
    <3>4. <<x, y>> \notin R /\ <<y, x>> \notin R
      BY <3>2, <3>3
    <3>. QED BY <1>0, <3>4
  <2>. HIDE DEF rank
  <2>. QED BY <2>1, <2>2 DEF Injection, IsInjective
<1>5. IsFiniteSet(0..(N - 1)) /\ Cardinality(0..(N - 1)) = N
  BY <1>1, FS_Interval
<1>6. rank \in Surjection(S, 0..(N - 1))
  <2>. HIDE DEF rank
  <2>. QED BY <1>4, <1>5, FS_Injection
<1>7. PICK x \in S : rank[x] = n
  BY <1>1, <1>6 DEF Surjection
<1>. QED BY <1>7

-----------------------------------------------------------------------------
(* Products: the sequences whose elements are taken from one set each.     *)

Extended(A, C) == {Append(a, c) : a \in A, c \in C}

\* g multiplies the sets C over each of the index sets in D, the greatest index last.
Multiplies(g, C, D) ==
  g = [s \in D |-> IF s = {} THEN {<<>>} ELSE Extended(g[s \ {Max(s)}], C[Max(s)])]

\* A product over the subsets of the indices exists.
LEMMA ProductExists ==
  ASSUME NEW n \in Nat, NEW C
  PROVE  \E g : Multiplies(g, C, SUBSET (1..n))
<1>. DEFINE S == 1..n
            D(k) == {s \in SUBSET S : Cardinality(s) <= k}
            Bad == {k \in Nat : ~ \E g : Multiplies(g, C, D(k))}
<1>0. IsFiniteSet(S) /\ S \subseteq Int
  BY FS_Interval
<1>. HIDE DEF S
<1>1. \A s \in SUBSET S : IsFiniteSet(s) /\ Cardinality(s) \in Nat
                          /\ Cardinality(s) <= Cardinality(S)
  BY <1>0, FS_Subset, FS_CardinalityType
<1>2. ASSUME NEW s \in SUBSET S, s # {}
      PROVE  /\ s \ {Max(s)} \in SUBSET S
             /\ Cardinality(s \ {Max(s)}) = Cardinality(s) - 1
  <2>1. Max(s) \in s
    BY <1>0, <1>1, <1>2, FiniteMax
  <2>. QED BY <1>1, <2>1, FS_RemoveElement
<1>3. 0 \notin Bad
  <2>. DEFINE g == [s \in D(0) |-> {<<>>}]
  <2>1. \A s \in D(0) : s = {}
    BY <1>1, FS_EmptySet
  <2>2. Multiplies(g, C, D(0))
    BY <2>1 DEF Multiplies
  <2>. QED BY <2>2
<1>4. ASSUME NEW k \in Nat, k \notin Bad PROVE k + 1 \notin Bad
  <2>1. PICK g : Multiplies(g, C, D(k))
    BY <1>4
  <2>. DEFINE h == [s \in D(k + 1) |->
                      IF s \in D(k) THEN g[s]
                      ELSE Extended(g[s \ {Max(s)}], C[Max(s)])]
  <2>2. ASSUME NEW s \in D(k + 1), s # {}
        PROVE  s \ {Max(s)} \in D(k) /\ s \ {Max(s)} \in D(k + 1)
    BY <1>1, <1>2, <2>2
  <2>3. \A s \in D(k) : s \in D(k + 1) /\ h[s] = g[s]
    BY <1>1
  <2>4. \A s \in D(k) : g[s] = IF s = {} THEN {<<>>}
                               ELSE Extended(g[s \ {Max(s)}], C[Max(s)])
    BY <2>1 DEF Multiplies
  <2>5. ASSUME NEW s \in D(k + 1)
        PROVE  h[s] = IF s = {} THEN {<<>>} ELSE Extended(h[s \ {Max(s)}], C[Max(s)])
    <3>1. {} \in D(k)
      BY FS_EmptySet
    <3>2. CASE s = {}
      BY <2>3, <2>4, <3>1, <3>2
    <3>3. CASE s # {}
      <4>1. h[s \ {Max(s)}] = g[s \ {Max(s)}]
        BY <2>2, <2>3, <3>3
      <4>2. h[s] = Extended(g[s \ {Max(s)}], C[Max(s)])
        BY <2>4, <3>3
      <4>. QED BY <3>3, <4>1, <4>2
    <3>. QED BY <3>2, <3>3
  <2>6. Multiplies(h, C, D(k + 1))
    <3>1. h = [s \in D(k + 1) |-> h[s]]
      OBVIOUS
    <3>. HIDE DEF h
    <3>2. h = [s \in D(k + 1) |-> IF s = {} THEN {<<>>}
                                  ELSE Extended(h[s \ {Max(s)}], C[Max(s)])]
      BY <2>5, <3>1
    <3>. QED BY <3>2 DEF Multiplies
  <2>. QED BY <2>6
<1>5. Bad = {}
  <2>1. SUFFICES ASSUME Bad # {} PROVE FALSE
    OBVIOUS
  <2>2. Bad \subseteq Nat
    OBVIOUS
  <2>3. PICK k \in Bad : \A m \in Bad : k <= m
    BY <2>1, <2>2, LeastNat
  <2>4. k \in Nat /\ k # 0 /\ k - 1 \in Nat /\ (k - 1) + 1 = k
    BY <1>3, <2>2, <2>3
  <2>5. k - 1 \notin Bad
    <3>1. ~ (k <= k - 1)
      BY <2>4
    <3>. HIDE DEF Bad
    <3>. QED BY <2>3, <3>1
  <2>. HIDE DEF Bad
  <2>. QED BY <1>4, <2>3, <2>4, <2>5
<1>6. D(Cardinality(S)) = SUBSET S /\ Cardinality(S) \in Nat
  BY <1>0, <1>1, FS_CardinalityType
<1>. QED BY <1>5, <1>6 DEF S

\* What a product has in it: sequences with one element of each set.
LEMMA ProductMembers ==
  ASSUME NEW n \in Nat, NEW C, NEW V, \A i \in 1..n : C[i] \subseteq V,
         NEW g, Multiplies(g, C, SUBSET (1..n))
  PROVE  \A a \in g[1..n] : a \in Seq(V) /\ Len(a) = n /\ \A i \in 1..n : a[i] \in C[i]
<1>. DEFINE Fits(a, k) == a \in Seq(V) /\ Len(a) = k /\ \A i \in 1..k : a[i] \in C[i]
            Bad == {k \in 0..n : \E a \in g[1..k] : ~ Fits(a, k)}
<1>1. \A s \in SUBSET (1..n) :
        g[s] = IF s = {} THEN {<<>>} ELSE Extended(g[s \ {Max(s)}], C[Max(s)])
  BY DEF Multiplies
<1>2. 0 \notin Bad
  <2>1. 1..0 = {} /\ 1..0 \in SUBSET (1..n)
    OBVIOUS
  <2>2. g[1..0] = {<<>>}
    BY <1>1, <2>1
  <2>3. Fits(<<>>, 0)
    OBVIOUS
  <2>4. \A a \in g[1..0] : a = <<>>
    BY <2>2
  <2>. HIDE DEF Fits
  <2>. QED BY <2>3, <2>4
<1>3. ASSUME NEW k \in 1..n, k - 1 \notin Bad PROVE k \notin Bad
  <2>1. 1..k \in SUBSET (1..n) /\ 1..k # {} /\ (1..k) \ {k} = 1..(k - 1) /\ k - 1 \in 0..n
    OBVIOUS
  <2>2. Max(1..k) = k
    <3>. DEFINE T == 1..k
    <3>1. T \subseteq Int /\ k \in T /\ \A y \in T : y <= k
      OBVIOUS
    <3>. HIDE DEF T
    <3>2. Max(T) = k
      BY <3>1, MaxIs
    <3>. QED BY <3>2 DEF T
  <2>3. g[1..k] = Extended(g[1..(k - 1)], C[k])
    BY <1>1, <2>1, <2>2
  <2>4. ASSUME NEW a \in g[1..(k - 1)], NEW c \in C[k] PROVE Fits(Append(a, c), k)
    <3>1. Fits(a, k - 1)
      BY <1>3, <2>1
    <3>2. c \in V
      OBVIOUS
    <3>. QED BY <3>1, <3>2
  <2>. HIDE DEF Fits
  <2>5. ASSUME NEW b \in g[1..k] PROVE Fits(b, k)
    <3>1. PICK a \in g[1..(k - 1)], c \in C[k] : b = Append(a, c)
      BY <2>3 DEF Extended
    <3>2. Fits(Append(a, c), k)
      BY <2>4
    <3>. QED BY <3>1, <3>2
  <2>. QED BY <2>5
<1>4. Bad = {}
  <2>1. SUFFICES ASSUME Bad # {} PROVE FALSE
    OBVIOUS
  <2>2. Bad \subseteq 0..n
    OBVIOUS
  <2>. HIDE DEF Bad
  <2>3. PICK k \in Bad : \A m \in Bad : k <= m
    BY <2>1, <2>2, LeastNat
  <2>4. k \in 0..n /\ k # 0
    BY <1>2, <2>2
  <2>5. k \in 1..n /\ ~ (k <= k - 1)
    BY <2>4
  <2>. QED BY <1>3, <2>3, <2>5
<1>5. n \in 0..n
  OBVIOUS
<1>. QED BY <1>4, <1>5
=============================================================================

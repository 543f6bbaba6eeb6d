----------------------------- MODULE AnomalyProofs -----------------------------
(***************************************************************************)
(* Proofs about Anomaly, for every set of agents, kinds of transactions    *)
(* and demand events.  The promises of the assessment depend on how the    *)
(* points and the thresholds are calibrated: each theorem names the        *)
(* settings it needs, and the engine's defaults meet them all.             *)
(*                                                                         *)
(* The state only has to be one of finite bags.  What takes an argument is *)
(* the size of a bag, which Bags defines by a recursive function: it is a  *)
(* sum, so that SumTheorems says how the sizes of a window, of a cluster   *)
(* in it and of the number of its accounts are related.                    *)
(***************************************************************************)
EXTENDS Anomaly, SumTheorems

-----------------------------------------------------------------------------
(* The sizes of bags.                                                      *)

FiniteBag(b) ==
  /\ IsFiniteSet(DOMAIN b)
  /\ \A x \in DOMAIN b : b[x] \in Nat \ {0}

\* c has some of the elements of b, as often as b.
PartOf(c, b) ==
  /\ DOMAIN c \in SUBSET DOMAIN b
  /\ \A x \in DOMAIN c : c[x] = b[x]

Size(b) == BagCardinality(b)

\* The size of a bag is a sum.
LEMMA SizeSum ==
  ASSUME NEW b, IsFiniteSet(DOMAIN b)
  PROVE  \E g : Sums(g, b, SUBSET DOMAIN b) /\ Size(b) = g[DOMAIN b]
<1>. DEFINE P(g) == g = [s \in SUBSET DOMAIN b |->
                           IF s = {} THEN 0
                           ELSE b[CHOOSE x \in s : TRUE]
                                  + g[s \ {CHOOSE x \in s : TRUE}]]
            iter == CHOOSE g : P(g)
<1>1. PICK h : Sums(h, b, SUBSET DOMAIN b)
  BY SumExists
<1>2. \A g : P(g) <=> Sums(g, b, SUBSET DOMAIN b)
  BY DEF Sums, Next1
<1>3. Size(b) = iter[DOMAIN b]
  BY DEF Size, BagCardinality
<1>4. P(iter)
  <2>1. P(h)
    <3>. HIDE DEF P
    <3>. QED BY <1>1, <1>2
  <2>. QED BY <2>1, Zenon
<1>. HIDE DEF P, iter
<1>. QED BY <1>2, <1>3, <1>4

\* A part of a finite bag is one, and not larger.
LEMMA SizeOfPart ==
  ASSUME NEW b, FiniteBag(b), NEW c, PartOf(c, b)
  PROVE  /\ FiniteBag(c)
         /\ Size(c) \in Nat /\ Size(b) \in Nat /\ Size(c) <= Size(b)
<1>1. FiniteBag(c)
  BY FS_Subset DEF FiniteBag, PartOf
<1>2. PICK g : Sums(g, b, SUBSET DOMAIN b) /\ Size(b) = g[DOMAIN b]
  BY SizeSum DEF FiniteBag
<1>3. PICK h : Sums(h, c, SUBSET DOMAIN c) /\ Size(c) = h[DOMAIN c]
  BY <1>1, SizeSum DEF FiniteBag
<1>4. \A s \in SUBSET DOMAIN c : h[s] = g[s]
  <2>1. /\ IsFiniteSet(DOMAIN c) /\ DOMAIN c \subseteq DOMAIN b
        /\ Agree(c, b, DOMAIN c)
    BY <1>1 DEF FiniteBag, PartOf, Agree
  <2>2. Sums(g, b, SUBSET DOMAIN b) /\ Sums(h, c, SUBSET DOMAIN c)
    BY <1>2, <1>3
  <2>. QED BY <2>1, <2>2, SumsAgree
<1>5. \A s \in SUBSET DOMAIN b : g[s] \in Nat /\ \A t \in SUBSET s : g[t] <= g[s]
  <2>1. IsFiniteSet(DOMAIN b) /\ Counts(b, DOMAIN b)
    BY DEF FiniteBag, Counts
  <2>. QED BY <1>2, <2>1, SumGrows
<1>6. Size(c) = g[DOMAIN c] /\ DOMAIN c \in SUBSET DOMAIN b
  BY <1>3, <1>4 DEF PartOf
<1>. QED BY <1>1, <1>2, <1>5, <1>6

LEMMA PartsOfParts ==
  ASSUME NEW b, NEW S \in SUBSET DOMAIN b
  PROVE  PartOf(Restrict(b, S), b) /\ DOMAIN Restrict(b, S) = S /\ PartOf(b, b)
BY DEF PartOf, Restrict

LEMMA PartIsTransitive ==
  ASSUME NEW b, NEW c, NEW d, PartOf(d, c), PartOf(c, b)
  PROVE  PartOf(d, b)
BY DEF PartOf

\* Only the bag without elements has size 0, and a bag of size 1 has one element, once.
LEMMA SmallBags ==
  ASSUME NEW b, FiniteBag(b)
  PROVE  /\ DOMAIN b = {} => Size(b) = 0
         /\ Size(b) = 1 => \E x : DOMAIN b = {x} /\ b[x] = 1
<1>1. PICK g : Sums(g, b, SUBSET DOMAIN b) /\ Size(b) = g[DOMAIN b]
  BY SizeSum DEF FiniteBag
<1>2. g[{}] = 0
  BY <1>1, SumStep
<1>3. ASSUME Size(b) = 1 PROVE \E x : DOMAIN b = {x} /\ b[x] = 1
  <2>1. \A s \in SUBSET DOMAIN b : g[s] \in Nat
    <3>1. IsFiniteSet(DOMAIN b) /\ Counts(b, DOMAIN b)
      BY DEF FiniteBag, Counts
    <3>. QED BY <1>1, <3>1, SumGrows
  <2>2. \A s \in SUBSET DOMAIN b, x \in DOMAIN b : x \in s => g[s] = b[x] + g[s \ {x}]
    <3>. DEFINE S == DOMAIN b
    <3>1. IsFiniteSet(S) /\ Numbers(b, S) /\ Sums(g, b, SUBSET S)
      BY <1>1 DEF FiniteBag, Numbers
    <3>. HIDE DEF S
    <3>2. \A s \in SUBSET S, x \in S : x \in s => g[s] = b[x] + g[s \ {x}]
      BY <3>1, SumTakeOut
    <3>. QED BY <3>2 DEF S
  <2>3. PICK x \in DOMAIN b : TRUE
    <3>1. DOMAIN b # {}
      <4>1. SUFFICES ASSUME DOMAIN b = {} PROVE FALSE
        OBVIOUS
      <4>2. Size(b) = 0
        BY <1>1, <1>2, <4>1
      <4>. QED BY <1>3, <4>2
    <3>. QED BY <3>1
  <2>4. /\ b[x] \in Nat \ {0} /\ g[DOMAIN b \ {x}] \in Nat
        /\ 1 = b[x] + g[DOMAIN b \ {x}]
    BY <1>1, <1>3, <2>1, <2>2 DEF FiniteBag
  <2>5. b[x] = 1 /\ g[DOMAIN b \ {x}] = 0
    BY <2>4
  <2>6. ASSUME NEW y \in DOMAIN b \ {x} PROVE FALSE
    <3>1. /\ b[y] \in Nat \ {0} /\ g[(DOMAIN b \ {x}) \ {y}] \in Nat
          /\ 0 = b[y] + g[(DOMAIN b \ {x}) \ {y}]
      BY <2>1, <2>2, <2>5 DEF FiniteBag
    <3>. QED BY <3>1
  <2>. QED BY <2>5, <2>6
<1>. QED BY <1>1, <1>2, <1>3

\* A bag with one copy of each element is as large as the set of them.
LEMMA SizeOfSet ==
  ASSUME NEW b, FiniteBag(b), \A x \in DOMAIN b : b[x] = 1
  PROVE  Size(b) = Cardinality(DOMAIN b)
<1>. DEFINE S == DOMAIN b
<1>1. PICK g : Sums(g, b, SUBSET S) /\ Size(b) = g[S]
  BY SizeSum DEF FiniteBag
<1>. DEFINE Bad == {s \in SUBSET S : g[s] # Cardinality(s)}
<1>2. SUFFICES ASSUME Bad # {} PROVE FALSE
  BY <1>1
<1>3. IsFiniteSet(S) /\ \A x \in S : b[x] = 1
  BY DEF FiniteBag
<1>4. PICK u \in Bad : \A v \in Bad : v \subseteq u => v = u
  <2>1. Bad \in SUBSET SUBSET S
    OBVIOUS
  <2>. HIDE DEF Bad, S
  <2>. QED BY <1>2, <1>3, <2>1, LeastSubset
<1>5. u \in SUBSET S /\ IsFiniteSet(u) /\ g[u] # Cardinality(u)
  BY <1>3, <1>4, FS_Subset
<1>. HIDE DEF S
<1>6. u # {} /\ Next1(u) \in u
  BY <1>1, <1>5, SumStep, FS_EmptySet, NextIsIn
<1>. DEFINE x == Next1(u)
            v == u \ {x}
<1>7. g[u] = b[x] + g[v]
  BY <1>1, <1>5, <1>6, SumStep
<1>8. v \in SUBSET S /\ v # u
  BY <1>5, <1>6
<1>9. g[v] = Cardinality(v)
  BY <1>4, <1>8
<1>10. Cardinality(v) = Cardinality(u) - 1 /\ Cardinality(u) \in Nat
  BY <1>5, <1>6, FS_RemoveElement, FS_CardinalityType
<1>11. b[x] = 1
  BY <1>3, <1>5, <1>6
<1>. HIDE DEF x, v, Bad
<1>. QED BY <1>5, <1>7, <1>9, <1>10, <1>11

-----------------------------------------------------------------------------
(* The points.                                                             *)

Worth(F) == MapThenSumSet(LAMBDA f : Points[f], F)

AllFactors == {"TRANSACTION_VELOCITY", "NEAR_IDENTICAL_AMOUNTS", "ACCOUNT_CONCENTRATION",
               "CROSS_PROVIDER_LINK", "UNUSUAL_AMOUNT_LEVEL", "ABNORMAL_FAILURE_RATE"}

LEMMA FactorsFinite ==
  /\ DOMAIN Points = AllFactors /\ IsFiniteSet(AllFactors)
  /\ \A f \in AllFactors : Points[f] \in Nat
<1>1. IsFiniteSet({"TRANSACTION_VELOCITY"})
  BY FS_Singleton
<1>2. IsFiniteSet({"TRANSACTION_VELOCITY"} \cup {"NEAR_IDENTICAL_AMOUNTS"})
  BY <1>1, FS_AddElement
<1>3. IsFiniteSet({"ACCOUNT_CONCENTRATION"})
  BY FS_Singleton
<1>4. IsFiniteSet({"ACCOUNT_CONCENTRATION"} \cup {"CROSS_PROVIDER_LINK"})
  BY <1>3, FS_AddElement
<1>5. IsFiniteSet({"UNUSUAL_AMOUNT_LEVEL"})
  BY FS_Singleton
<1>6. IsFiniteSet({"UNUSUAL_AMOUNT_LEVEL"} \cup {"ABNORMAL_FAILURE_RATE"})
  BY <1>5, FS_AddElement
<1>7. IsFiniteSet(AllFactors)
  <2>. DEFINE A == {"TRANSACTION_VELOCITY"} \cup {"NEAR_IDENTICAL_AMOUNTS"}
              B == {"ACCOUNT_CONCENTRATION"} \cup {"CROSS_PROVIDER_LINK"}
              C == {"UNUSUAL_AMOUNT_LEVEL"} \cup {"ABNORMAL_FAILURE_RATE"}
  <2>1. AllFactors = (A \cup B) \cup C
    BY DEF AllFactors
  <2>2. IsFiniteSet(A) /\ IsFiniteSet(B) /\ IsFiniteSet(C)
    BY <1>2, <1>4, <1>6
  <2>. HIDE DEF A, B, C
  <2>3. IsFiniteSet(A \cup B)
    BY <2>2, FS_Union
  <2>. QED BY <2>1, <2>2, <2>3, FS_Union
<1>. QED BY <1>7 DEF Points, AllFactors

\* The points of a set of factors are a sum.
LEMMA WorthSum ==
  ASSUME NEW F \in SUBSET AllFactors
  PROVE  \E g : Sums(g, Points, SUBSET F) /\ Worth(F) = g[F]
<1>. DEFINE P(g) == g = [s \in SUBSET F |->
                           IF s = {} THEN 0
                           ELSE Points[CHOOSE x \in s : TRUE]
                                  + g[s \ {CHOOSE x \in s : TRUE}]]
            iter == CHOOSE g : P(g)
<1>1. PICK h : Sums(h, Points, SUBSET F)
  BY SumExists, FS_Subset, FactorsFinite
<1>2. \A g : P(g) <=> Sums(g, Points, SUBSET F)
  BY DEF Sums, Next1
<1>3. Worth(F) = iter[F]
  BY DEF Worth, MapThenSumSet, MapThenFoldSet
<1>4. P(iter)
  <2>1. P(h)
    <3>. HIDE DEF P
    <3>. QED BY <1>1, <1>2
  <2>. QED BY <2>1, Zenon
<1>. HIDE DEF P, iter
<1>. QED BY <1>2, <1>3, <1>4

\* More factors, more points.
LEMMA WorthGrows ==
  ASSUME NEW F \in SUBSET AllFactors, NEW E \in SUBSET F
  PROVE  Worth(E) \in Nat /\ Worth(F) \in Nat /\ Worth(E) <= Worth(F)
<1>1. IsFiniteSet(F) /\ IsFiniteSet(E) /\ Counts(Points, F)
  BY FS_Subset, FactorsFinite DEF Counts
<1>2. PICK g : Sums(g, Points, SUBSET F) /\ Worth(F) = g[F]
  BY WorthSum
<1>3. PICK h : Sums(h, Points, SUBSET E) /\ Worth(E) = h[E]
  BY WorthSum
<1>4. \A s \in SUBSET E : h[s] = g[s]
  <2>1. E \subseteq F /\ Agree(Points, Points, E)
    BY DEF Agree
  <2>2. Sums(g, Points, SUBSET F) /\ Sums(h, Points, SUBSET E)
    BY <1>2, <1>3
  <2>. QED BY <1>1, <2>1, <2>2, SumsAgree
<1>5. \A s \in SUBSET F : g[s] \in Nat /\ \A t \in SUBSET s : g[t] <= g[s]
  BY <1>1, <1>2, SumGrows
<1>. QED BY <1>2, <1>3, <1>4, <1>5

LEMMA WorthAdded ==
  ASSUME NEW F \in SUBSET AllFactors, NEW f \in AllFactors, f \notin F
  PROVE  Worth(F \cup {f}) = Points[f] + Worth(F)
<1>. DEFINE V == F \cup {f}
<1>1. IsFiniteSet(F)
  BY FS_Subset, FactorsFinite
<1>2. PICK g : Sums(g, Points, SUBSET F) /\ Worth(F) = g[F]
  BY WorthSum
<1>3. PICK h : Sums(h, Points, SUBSET V) /\ Worth(V) = h[V]
  BY WorthSum
<1>4. Grown(F, f, V) /\ Agree(Points, Points, F) /\ Numbers(Points, V)
  BY <1>1, FactorsFinite DEF Grown, Agree, Numbers
<1>. HIDE DEF V
<1>5. h[V] = Points[f] + g[F]
  <2>1. Sums(g, Points, SUBSET F) /\ Sums(h, Points, SUBSET V)
    BY <1>2, <1>3
  <2>. QED BY <1>4, <2>1, SumAdded
<1>. QED BY <1>2, <1>3, <1>5 DEF V

\* Of one, two and three factors.
LEMMA WorthOfFew ==
  /\ Worth({}) = 0
  /\ \A f \in AllFactors : Worth({f}) = Points[f]
  /\ \A f, e \in AllFactors : f # e => Worth({f, e}) = Points[f] + Points[e]
  /\ \A f, e, d \in AllFactors :
       f # e /\ f # d /\ e # d => Worth({f, e, d}) = Points[f] + Points[e] + Points[d]
<1>1. Worth({}) = 0
  <2>1. PICK g : Sums(g, Points, SUBSET {}) /\ Worth({}) = g[{}]
    BY WorthSum
  <2>2. {} \in SUBSET {}
    OBVIOUS
  <2>. QED BY <2>1, <2>2, SumStep
<1>2. ASSUME NEW f \in AllFactors PROVE Worth({f}) = Points[f]
  <2>1. Worth({} \cup {f}) = Points[f] + Worth({})
    BY WorthAdded
  <2>2. {} \cup {f} = {f} /\ Points[f] \in Nat
    BY FactorsFinite
  <2>. QED BY <1>1, <2>1, <2>2
<1>3. ASSUME NEW f \in AllFactors, NEW e \in AllFactors, f # e
      PROVE  Worth({f, e}) = Points[f] + Points[e]
  <2>1. Worth({f, e}) = Points[e] + Worth({f})
    <3>1. Worth({f} \cup {e}) = Points[e] + Worth({f})
      BY <1>3, WorthAdded
    <3>2. {f} \cup {e} = {f, e}
      OBVIOUS
    <3>. QED BY <3>1, <3>2, Zenon
  <2>2. Points[f] \in Nat /\ Points[e] \in Nat
    BY FactorsFinite
  <2>3. Worth({f}) = Points[f]
    BY <1>2
  <2>. QED BY <2>1, <2>2, <2>3
<1>4. ASSUME NEW f \in AllFactors, NEW e \in AllFactors, NEW d \in AllFactors,
             f # e /\ f # d /\ e # d
      PROVE  Worth({f, e, d}) = Points[f] + Points[e] + Points[d]
  <2>1. Worth({f, e, d}) = Points[d] + Worth({f, e})
    <3>1. Worth({f, e} \cup {d}) = Points[d] + Worth({f, e})
      BY <1>4, WorthAdded
    <3>2. {f, e} \cup {d} = {f, e, d}
      OBVIOUS
    <3>. QED BY <3>1, <3>2, Zenon
  <2>2. Points[f] \in Nat /\ Points[e] \in Nat /\ Points[d] \in Nat
    BY FactorsFinite
  <2>3. Worth({f, e}) = Points[f] + Points[e]
    BY <1>3, <1>4
  <2>. QED BY <2>1, <2>2, <2>3
<1>. QED BY <1>1, <1>2, <1>3, <1>4

\* The score follows from the points and the adjustment.
LEMMA SmallerOf ==
  ASSUME NEW m \in Int, NEW n \in Int
  PROVE  Min({m, n}) = (IF m <= n THEN m ELSE n) /\ Max({m, n}) = (IF m <= n THEN n ELSE m)
<1>. DEFINE S == {m, n}
<1>1. S \in SUBSET Int /\ m \in S /\ n \in S /\ (m <= n \/ n <= m)
      /\ (m <= n /\ n <= m => m = n) /\ \A y \in S : y = m \/ y = n
  OBVIOUS
<1>. HIDE DEF S
<1>2. CASE m <= n
  <2>1. (\A y \in S : m <= y) /\ (\A y \in S : y <= n)
    BY <1>1, <1>2
  <2>2. Min(S) = m
    BY <1>1, <2>1, MinIs
  <2>3. Max(S) = n
    BY <1>1, <2>1, MaxIs
  <2>. QED BY <1>2, <2>2, <2>3 DEF S
<1>3. CASE ~(m <= n)
  <2>1. (\A y \in S : n <= y) /\ (\A y \in S : y <= m)
    BY <1>1, <1>3
  <2>2. Min(S) = n
    BY <1>1, <2>1, MinIs
  <2>3. Max(S) = m
    BY <1>1, <2>1, MaxIs
  <2>. QED BY <1>3, <2>2, <2>3 DEF S
<1>. QED BY <1>2, <1>3

LEMMA ScoreIs ==
  ASSUME NEW w
  PROVE  /\ Factors(w) \in SUBSET AllFactors
         /\ Worth(Factors(w)) \in Nat /\ Score(w) \in Nat
         /\ ~Adjusted(w) => Score(w) = (IF 100 <= Worth(Factors(w)) THEN 100
                                        ELSE Worth(Factors(w)))
         /\ Adjusted(w) /\ Worth(Factors(w)) <= 135
              => Score(w) = (IF Worth(Factors(w)) <= 35 THEN 0 ELSE Worth(Factors(w)) - 35)
<1>1. Factors(w) \in SUBSET AllFactors
  BY FactorsFinite DEF Factors
<1>. DEFINE W == Worth(Factors(w))
<1>2. W \in Nat
  BY <1>1, WorthGrows
<1>3. Score(w) = Min({100, IF Adjusted(w) THEN Max({0, W - 35}) ELSE W})
  BY DEF Score, Worth
<1>. HIDE DEF W
<1>4. Max({0, W - 35}) = IF 0 <= W - 35 THEN W - 35 ELSE 0
  <2>. DEFINE d == W - 35
  <2>1. d \in Int
    BY <1>2
  <2>. HIDE DEF d
  <2>2. Max({0, d}) = IF 0 <= d THEN d ELSE 0
    BY <2>1, SmallerOf
  <2>. QED BY <2>2 DEF d
<1>5. ASSUME ~Adjusted(w) PROVE Score(w) = IF 100 <= W THEN 100 ELSE W
  <2>1. Min({100, W}) = IF 100 <= W THEN 100 ELSE W
    BY <1>2, SmallerOf
  <2>. QED BY <1>3, <1>5, <2>1
<1>6. ASSUME Adjusted(w)
      PROVE  /\ Score(w) \in Nat
             /\ W <= 135 => Score(w) = IF W <= 35 THEN 0 ELSE W - 35
  <2>. DEFINE m == Max({0, W - 35})
  <2>1. m \in Nat
    BY <1>2, <1>4
  <2>2. Score(w) = Min({100, m})
    BY <1>3, <1>6
  <2>3. m = IF 0 <= W - 35 THEN W - 35 ELSE 0
    BY <1>4
  <2>. HIDE DEF m
  <2>4. Min({100, m}) = IF 100 <= m THEN 100 ELSE m
    BY <2>1, SmallerOf
  <2>. QED BY <1>2, <2>1, <2>2, <2>3, <2>4
<1>. QED BY <1>1, <1>2, <1>5, <1>6 DEF W

\* Which pattern is which factor.
LEMMA FactorIs ==
  ASSUME NEW w
  PROVE  /\ "TRANSACTION_VELOCITY" \in Factors(w) <=> Velocity(w)
         /\ "NEAR_IDENTICAL_AMOUNTS" \in Factors(w) <=> Identical(w)
         /\ "ACCOUNT_CONCENTRATION" \in Factors(w) <=> Concentrated(w)
         /\ "CROSS_PROVIDER_LINK" \in Factors(w) <=> CrossProvider(w)
         /\ "UNUSUAL_AMOUNT_LEVEL" \in Factors(w) <=> UnusualAmount(w)
         /\ "ABNORMAL_FAILURE_RATE" \in Factors(w) <=> Failures(w)
BY FactorsFinite, Zenon DEF Factors, AllFactors

-----------------------------------------------------------------------------
(* The bags of a state.                                                    *)

FiniteBags ==
  /\ DOMAIN transactions = Agents
  /\ \A a \in Agents : FiniteBag(transactions[a])

LEMMA FiniteBagsHold == Spec => []FiniteBags
<1>1. FiniteBag(EmptyBag)
  BY FS_EmptySet DEF FiniteBag, EmptyBag, SetToBag
<1>2. Init => FiniteBags
  BY <1>1 DEF Init, FiniteBags
<1>3. FiniteBags /\ [Next]_anomalyVars => FiniteBags'
  <2>. SUFFICES ASSUME FiniteBags, [Next]_anomalyVars PROVE FiniteBags'
    OBVIOUS
  <2>1. ASSUME NEW a \in Agents, NEW k \in Kinds, RecordTransaction(a, k) PROVE FiniteBags'
    <3>. DEFINE t == At(k, now)
                b == transactions[a]
                c == b (+) SetToBag({t})
    <3>1. FiniteBag(b)
      BY DEF FiniteBags
    <3>. HIDE DEF b, t
    <3>2. DOMAIN c = DOMAIN b \cup {t}
      BY DEF (+), SetToBag
    <3>3. \A x \in DOMAIN c : c[x] = (IF x \in DOMAIN b THEN b[x] ELSE 0)
                                     + (IF x \in {t} THEN 1 ELSE 0)
      BY DEF (+), SetToBag
    <3>4. FiniteBag(c)
      <4>. HIDE DEF c
      <4>1. IsFiniteSet(DOMAIN c)
        BY <3>1, <3>2, FS_AddElement DEF FiniteBag
      <4>2. \A x \in DOMAIN c : c[x] \in Nat \ {0}
        BY <3>1, <3>2, <3>3 DEF FiniteBag
      <4>. QED BY <4>1, <4>2 DEF FiniteBag
    <3>5. transactions' = [transactions EXCEPT ![a] = c]
      BY <2>1 DEF RecordTransaction, b, t
    <3>. HIDE DEF c
    <3>. QED BY <3>4, <3>5 DEF FiniteBags
  <2>2. CASE PassTime
    BY <2>2 DEF PassTime, FiniteBags
  <2>3. CASE Initialize
    BY <1>1, <2>3 DEF Initialize, FiniteBags
  <2>4. CASE UNCHANGED anomalyVars
    BY <2>4 DEF anomalyVars, FiniteBags
  <2>. QED BY <2>1, <2>2, <2>3, <2>4 DEF Next
<1>. QED BY <1>2, <1>3, PTL DEF Spec

\* A window and its parts.
Parted(w) ==
  /\ FiniteBag(w.recent) /\ FiniteBag(w.successful) /\ FiniteBag(w.repeated)
  /\ w.successful = WithStatus(w.recent, "SUCCESS")
  /\ PartOf(w.successful, w.recent) /\ PartOf(w.repeated, w.successful)
  /\ Size(w.repeated) \in Nat /\ Size(w.successful) \in Nat
  /\ Size(w.repeated) <= Size(w.successful)

LEMMA ClusterIsPart ==
  ASSUME NEW b, NEW c \in RepeatedClusters(b)
  PROVE  PartOf(c, b)
<1>1. PartOf(EmptyBag, b)
  BY DEF PartOf, EmptyBag, SetToBag
<1>2. ASSUME NEW t \in DOMAIN b, c = NearIdentical(b, t.amount) PROVE PartOf(c, b)
  BY <1>2, PartsOfParts DEF NearIdentical
<1>. QED BY <1>1, <1>2 DEF RepeatedClusters

LEMMA WindowsParted ==
  ASSUME FiniteBags, NEW a \in Agents, NEW view \in Views, NEW w \in Windows(a, view)
  PROVE  Parted(w)
<1>. DEFINE r == Select(a, view, (now - WindowMinutes)..now)
            s == WithStatus(r, "SUCCESS")
<1>1. w.recent = r /\ w.successful = s /\ w.repeated \in RepeatedClusters(s)
  BY DEF Windows
<1>2. FiniteBag(transactions[a]) /\ PartOf(r, transactions[a])
  BY PartsOfParts DEF FiniteBags, Select
<1>3. PartOf(s, r)
  BY PartsOfParts DEF WithStatus
<1>. HIDE DEF r
<1>4. s = WithStatus(w.recent, "SUCCESS")
  BY <1>1
<1>. HIDE DEF s
<1>5. FiniteBag(r)
  BY <1>2, SizeOfPart
<1>6. FiniteBag(s)
  BY <1>3, <1>5, SizeOfPart
<1>7. PartOf(w.repeated, s)
  BY <1>1, ClusterIsPart
<1>8. FiniteBag(w.repeated) /\ Size(w.repeated) \in Nat /\ Size(s) \in Nat
      /\ Size(w.repeated) <= Size(s)
  BY <1>6, <1>7, SizeOfPart
<1>. QED BY <1>1, <1>3, <1>4, <1>5, <1>6, <1>7, <1>8 DEF Parted

-----------------------------------------------------------------------------
(* The theorems.                                                           *)

\* The patterns that need few transactions do not add up to a high band, where no
\* more than 8 transactions are asked for and a high band takes more than the 55
\* points they are worth (the engine's defaults: 6 and 70).
THEOREM HighIsEarned ==
  ASSUME MinimumTransactions <= 8, HighThreshold > 55
  PROVE  Spec => []HighNeedsTransactions
<1>1. FiniteBags => HighNeedsTransactions
  <2>. SUFFICES ASSUME FiniteBags, NEW a \in Agents, NEW view \in Views,
                       NEW w \in Windows(a, view),
                       ~(Size(w.successful) >= MinimumTransactions)
                PROVE  Assessment(w, view).band # "HIGH"
    BY DEF HighNeedsTransactions, Size
  <2>1. Parted(w)
    BY WindowsParted
  <2>2. MinimumTransactions \in Nat /\ HighThreshold \in Nat
    BY AnomalyAssumption DEF AnomalyAssumption
  <2>3. ~Velocity(w) /\ ~Identical(w) /\ ~Concentrated(w)
    <3>1. /\ ~(Size(w.successful) >= 8) /\ ~(Size(w.repeated) >= MinimumTransactions)
      BY <2>1, <2>2 DEF Parted
    <3>. QED BY <3>1 DEF Velocity, Identical, Concentrated, Size
  <2>. DEFINE Rest == {"CROSS_PROVIDER_LINK", "UNUSUAL_AMOUNT_LEVEL", "ABNORMAL_FAILURE_RATE"}
  <2>4. Factors(w) \in SUBSET Rest
    BY <2>3, ScoreIs, FactorIs DEF AllFactors
  <2>5. Worth(Rest) = 55 /\ Rest \in SUBSET AllFactors
    BY WorthOfFew DEF AllFactors, Points
  <2>. HIDE DEF Rest
  <2>6. Worth(Factors(w)) \in Nat /\ Worth(Factors(w)) <= 55
    BY <2>4, <2>5, WorthGrows
  <2>7. Score(w) <= 55 /\ Score(w) \in Nat
    BY <2>6, ScoreIs
  <2>. QED BY <2>2, <2>7 DEF Assessment, Band
<1>. QED BY <1>1, FiniteBagsHold, PTL

\* Near-identical amounts of a few accounts require review, demand event or not,
\* where the review starts at no more than the 45 points they are worth
\* (the engine's defaults: 40).
THEOREM PatternIsReviewed ==
  ASSUME MediumThreshold <= 45
  PROVE  Spec => []RepeatedPatternReviewed
<1>1. FiniteBags => RepeatedPatternReviewed
  <2>. SUFFICES ASSUME FiniteBags, NEW a \in Agents, NEW view \in Views,
                       NEW w \in Windows(a, view), Identical(w), Concentrated(w)
                PROVE  Score(w) >= MediumThreshold
    BY DEF RepeatedPatternReviewed, Assessment
  <2>1. Parted(w)
    BY WindowsParted
  <2>2. MediumThreshold \in Nat
    BY AnomalyAssumption DEF AnomalyAssumption
  <2>3. ~Adjusted(w)
    <3>1. 100 * Size(w.repeated) >= 65 * Size(w.successful)
      BY DEF Identical, Size
    <3>2. ~(2 * Size(w.repeated) < Size(w.successful))
      BY <2>1, <3>1 DEF Parted
    <3>. QED BY <3>2 DEF Adjusted, Size
  <2>. DEFINE Pair == {"NEAR_IDENTICAL_AMOUNTS", "ACCOUNT_CONCENTRATION"}
  <2>4. Pair \in SUBSET Factors(w) /\ Factors(w) \in SUBSET AllFactors
    BY FactorIs, ScoreIs
  <2>5. Worth(Pair) = 45
    BY WorthOfFew DEF AllFactors, Points
  <2>. HIDE DEF Pair
  <2>6. Worth(Factors(w)) \in Nat /\ 45 <= Worth(Factors(w))
    BY <2>4, <2>5, WorthGrows
  <2>. QED BY <2>2, <2>3, <2>6, ScoreIs
<1>. QED BY <1>1, FiniteBagsHold, PTL

\* A bag of transactions with one for each account.
Single(b) ==
  /\ FiniteBag(b) /\ \A t \in DOMAIN b : b[t] = 1
  /\ \A t, u \in DOMAIN b : t.account = u.account => t = u

LEMMA PartsAreSingle ==
  ASSUME NEW b, Single(b), NEW c, PartOf(c, b)
  PROVE  Single(c)
<1>1. FiniteBag(c)
  BY SizeOfPart DEF Single
<1>. QED BY <1>1 DEF Single, PartOf

\* It has as many transactions as accounts, one of each.
LEMMA SizeOfSingle ==
  ASSUME NEW b, Single(b)
  PROVE  /\ Size(b) \in Nat /\ Cardinality(AccountsOf(b)) = Size(b)
         /\ Dominant(b) \in {0, 1}
<1>1. Size(b) = Cardinality(DOMAIN b) /\ IsFiniteSet(DOMAIN b)
  BY SizeOfSet DEF Single, FiniteBag
<1>2. Cardinality(AccountsOf(b)) = Cardinality(DOMAIN b)
  <2>. DEFINE f == [t \in DOMAIN b |-> t.account]
  <2>1. f \in Surjection(DOMAIN b, AccountsOf(b)) /\ f \in Injection(DOMAIN b, AccountsOf(b))
    BY DEF Single, AccountsOf, Surjection, Injection, IsInjective
  <2>. HIDE DEF f
  <2>. QED BY <1>1, <2>1, FS_Surjection
<1>3. ASSUME NEW x \in AccountsOf(b) PROVE Size(OfAccount(b, x)) = 1
  <2>1. PICK t \in DOMAIN b : t.account = x
    BY DEF AccountsOf
  <2>. DEFINE c == OfAccount(b, x)
  <2>2. DOMAIN c = {t} /\ PartOf(c, b)
    <3>1. {u \in DOMAIN b : u.account = x} = {t}
      BY <2>1 DEF Single
    <3>. QED BY <3>1, PartsOfParts DEF OfAccount
  <2>. HIDE DEF c
  <2>3. FiniteBag(c) /\ \A y \in DOMAIN c : c[y] = 1
    BY <2>2, PartsAreSingle DEF Single
  <2>4. Size(c) = Cardinality(DOMAIN c)
    BY <2>3, SizeOfSet
  <2>. QED BY <2>2, <2>4, FS_Singleton DEF c
<1>4. Dominant(b) \in {0, 1}
  <2>. DEFINE S == {0} \cup {BagCardinality(OfAccount(b, x)) : x \in AccountsOf(b)}
  <2>1. S = {0} \/ S = {0, 1}
    BY <1>3 DEF Size
  <2>2. Dominant(b) = Max(S)
    BY DEF Dominant
  <2>3. Max({0}) = 0
    BY MaxIs
  <2>4. Max({0, 1}) = 1
    BY SmallerOf
  <2>. HIDE DEF S
  <2>. QED BY <2>1, <2>2, <2>3, <2>4
<1>. QED BY <1>1, <1>2, <1>4, FS_CardinalityType

\* Nothing but volume: the accounts of a window come once each.
LEMMA VolumeIsSingle ==
  ASSUME NEW w, Parted(w), VolumeAlone(w)
  PROVE  Single(w.recent)
<1>. DEFINE b == w.recent
<1>1. FiniteBag(b)
  BY DEF Parted
<1>2. \A x \in AccountsOf(b) : Size(OfAccount(b, x)) = 1
  BY DEF VolumeAlone, Size
<1>. HIDE DEF b
<1>3. ASSUME NEW t \in DOMAIN b
      PROVE  b[t] = 1 /\ \A u \in DOMAIN b : t.account = u.account => t = u
  <2>. DEFINE c == OfAccount(b, t.account)
  <2>1. /\ PartOf(c, b) /\ Size(c) = 1
        /\ DOMAIN c = {u \in DOMAIN b : u.account = t.account}
    <3>1. t.account \in AccountsOf(b)
      BY DEF AccountsOf
    <3>2. PartOf(c, b) /\ DOMAIN c = {u \in DOMAIN b : u.account = t.account}
      BY PartsOfParts DEF OfAccount
    <3>. QED BY <1>2, <3>1, <3>2
  <2>. HIDE DEF c
  <2>2. FiniteBag(c)
    BY <1>1, <2>1, SizeOfPart
  <2>3. PICK x : DOMAIN c = {x} /\ c[x] = 1
    BY <2>1, <2>2, SmallBags
  <2>. QED BY <2>1, <2>3 DEF PartOf
<1>. QED BY <1>1, <1>3 DEF Single, b

\* Then only two patterns can be found.
LEMMA VolumeFactors ==
  ASSUME NEW w, Parted(w), VolumeAlone(w), MinimumTransactions >= 4
  PROVE  /\ ~Identical(w) /\ ~Concentrated(w) /\ ~CrossProvider(w) /\ ~Failures(w)
         /\ Cardinality(AccountsOf(w.successful)) = Size(w.successful)
         /\ Dominant(w.successful) \in {0, 1}
<1>1. /\ Single(w.recent) /\ w.recent = w.successful
      /\ 2 * Size(w.repeated) < Size(w.successful)
  BY VolumeIsSingle DEF VolumeAlone, Size
<1>2. Single(w.repeated) /\ Single(w.successful)
  BY <1>1, PartsAreSingle DEF Parted
<1>3. ~Identical(w)
  <2>1. ~(100 * Size(w.repeated) >= 65 * Size(w.successful))
    BY <1>1 DEF Parted
  <2>. QED BY <2>1 DEF Identical, Size
<1>4. ~Concentrated(w)
  <2>1. /\ Size(w.repeated) \in Nat /\ Cardinality(AccountsOf(w.repeated)) = Size(w.repeated)
        /\ Dominant(w.repeated) \in {0, 1}
    BY <1>2, SizeOfSingle
  <2>2. MinimumTransactions \in Nat
    BY AnomalyAssumption DEF AnomalyAssumption
  <2>3. Size(w.repeated) >= MinimumTransactions
        => /\ ~(Cardinality(AccountsOf(w.repeated)) <= 3)
           /\ ~(2 * Dominant(w.repeated) >= Size(w.repeated))
    BY <2>1, <2>2
  <2>. QED BY <2>3 DEF Concentrated, Size
<1>5. ~CrossProvider(w)
  <2>. DEFINE b == w.successful
  <2>1. ASSUME NEW t \in DOMAIN b
        PROVE  ~(Cardinality(ProvidersOf(OfAccount(b, t.account))) >= 2)
    <3>1. DOMAIN OfAccount(b, t.account) = {t}
      <4>1. {u \in DOMAIN b : u.account = t.account} = {t}
        BY <1>2 DEF Single
      <4>. QED BY <4>1, PartsOfParts DEF OfAccount
    <3>2. ProvidersOf(OfAccount(b, t.account)) = {t.provider}
      BY <3>1 DEF ProvidersOf
    <3>3. Cardinality({t.provider}) = 1
      BY FS_Singleton
    <3>. QED BY <3>2, <3>3
  <2>2. DOMAIN Linked(b) = {} /\ FiniteBag(Linked(b))
    <3>1. {t \in DOMAIN b : Cardinality(ProvidersOf(OfAccount(b, t.account))) >= 2} = {}
      BY <2>1
    <3>2. DOMAIN Linked(b) = {}
      BY <3>1, PartsOfParts DEF Linked
    <3>. QED BY <3>2, FS_EmptySet DEF FiniteBag
  <2>3. Size(Linked(b)) = 0
    BY <2>2, SmallBags
  <2>. QED BY <2>3 DEF CrossProvider, Size
<1>6. ~Failures(w)
  <2>. DEFINE c == WithStatus(w.recent, "FAILED")
  <2>1. \A t \in DOMAIN w.recent : t.status = "SUCCESS"
    <3>1. DOMAIN w.successful = {t \in DOMAIN w.recent : t.status = "SUCCESS"}
      BY PartsOfParts DEF Parted, WithStatus
    <3>. QED BY <1>1, <3>1
  <2>2. DOMAIN c = {} /\ FiniteBag(c)
    <3>1. {t \in DOMAIN w.recent : t.status = "FAILED"} = {}
      BY <2>1
    <3>2. DOMAIN c = {}
      BY <3>1, PartsOfParts DEF WithStatus
    <3>. QED BY <3>2, FS_EmptySet DEF FiniteBag
  <2>. HIDE DEF c
  <2>3. Size(c) = 0
    BY <2>2, SmallBags
  <2>. QED BY <2>3 DEF Failures, Size, c
<1>7. Cardinality(AccountsOf(w.successful)) = Size(w.successful) /\ Dominant(w.successful) \in {0, 1}
  BY <1>2, SizeOfSingle
<1>. QED BY <1>3, <1>4, <1>5, <1>6, <1>7

\* High volume alone is not reviewed, and with a demand event not even at unusual
\* amounts, where a cluster takes at least 4 transactions and the review starts
\* above the 30 points of a high rate (the engine's defaults: 6 and 40).
THEOREM DemandIsNotReviewed ==
  ASSUME MinimumTransactions >= 4, MediumThreshold > 30
  PROVE  Spec => []DemandNotReviewed
<1>1. FiniteBags => DemandNotReviewed
  <2>. SUFFICES ASSUME FiniteBags, NEW a \in Agents, NEW w \in Windows(a, AllProviders),
                       VolumeAlone(w),
                       UnusualAmount(w) /\ Velocity(w) =>
                         w.contexts # {} /\ Cardinality(ProvidersOf(w.recent)) >= 2
                PROVE  ~(Score(w) >= MediumThreshold)
    BY DEF DemandNotReviewed, Assessment
  <2>1. Parted(w)
    BY WindowsParted DEF Views
  <2>2. MediumThreshold \in Nat
    BY AnomalyAssumption DEF AnomalyAssumption
  <2>3. /\ ~Identical(w) /\ ~Concentrated(w) /\ ~CrossProvider(w) /\ ~Failures(w)
        /\ Cardinality(AccountsOf(w.successful)) = Size(w.successful)
        /\ Dominant(w.successful) \in {0, 1}
    BY <2>1, VolumeFactors
  <2>4. /\ Points["TRANSACTION_VELOCITY"] = 30 /\ Points["UNUSUAL_AMOUNT_LEVEL"] = 15
        /\ "TRANSACTION_VELOCITY" \in AllFactors /\ "UNUSUAL_AMOUNT_LEVEL" \in AllFactors
    BY DEF Points, AllFactors
  <2>. DEFINE V == {"TRANSACTION_VELOCITY"}
              U == {"UNUSUAL_AMOUNT_LEVEL"}
              B == {"TRANSACTION_VELOCITY", "UNUSUAL_AMOUNT_LEVEL"}
  <2>5. Worth(V) = 30 /\ Worth(U) = 15 /\ Worth(B) = 45
    BY <2>4, WorthOfFew
  <2>6. /\ V \in SUBSET AllFactors /\ U \in SUBSET AllFactors /\ B \in SUBSET AllFactors
        /\ Factors(w) \in SUBSET B
        /\ ~Velocity(w) => Factors(w) \in SUBSET U
        /\ ~UnusualAmount(w) => Factors(w) \in SUBSET V
    BY <2>3, <2>4, ScoreIs, FactorIs DEF AllFactors
  <2>. HIDE DEF V, U, B
  <2>. DEFINE W == Worth(Factors(w))
  <2>7. W \in Nat /\ W <= 45
    BY <2>5, <2>6, WorthGrows
  <2>8. CASE Velocity(w) /\ UnusualAmount(w)
    <3>1. Adjusted(w)
      <4>1. Size(w.successful) \in Nat /\ Size(w.successful) >= 8
        BY <2>1, <2>8 DEF Velocity, Parted, Size
      <4>2. /\ w.contexts # {} /\ Cardinality(ProvidersOf(w.successful)) >= 2
            /\ 2 * Size(w.repeated) < Size(w.successful)
        BY <2>8 DEF VolumeAlone, Size
      <4>3. Broad(w)
        <5>1. /\ Cardinality(AccountsOf(w.successful)) >= 6
              /\ 10 * Cardinality(AccountsOf(w.successful)) >= 7 * Size(w.successful)
          BY <2>3, <4>1
        <5>. QED BY <4>1, <5>1 DEF Broad, Size
      <4>4. 4 * Dominant(w.successful) < Size(w.successful)
        BY <2>3, <4>1
      <4>. QED BY <4>2, <4>3, <4>4 DEF Adjusted, Size
    <3>2. Score(w) = IF W <= 35 THEN 0 ELSE W - 35
      BY <2>7, <3>1, ScoreIs
    <3>. HIDE DEF W
    <3>. QED BY <2>2, <2>7, <3>2
  <2>9. CASE ~(Velocity(w) /\ UnusualAmount(w))
    <3>1. W <= 30
      BY <2>5, <2>6, <2>7, <2>9, WorthGrows
    <3>2. /\ ~Adjusted(w) => Score(w) = IF 100 <= W THEN 100 ELSE W
          /\ Adjusted(w) => Score(w) = IF W <= 35 THEN 0 ELSE W - 35
      BY <2>7, ScoreIs
    <3>. HIDE DEF W
    <3>. QED BY <2>2, <2>7, <3>1, <3>2
  <2>. QED BY <2>8, <2>9
<1>. QED BY <1>1, FiniteBagsHold, PTL
=============================================================================

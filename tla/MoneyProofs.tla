----------------------------- MODULE MoneyProofs ------------------------------
(***************************************************************************)
(* Proofs about the balances: of the ledger, for every set of agents,      *)
(* accounts, opening balances and transaction events; of the simulation    *)
(* that commits a day of them and of its replay, for any length of the     *)
(* day, any candidates and scenarios; and of the liquidity forecasts that  *)
(* read them, for any providers and health of the feeds.                   *)
(*                                                                         *)
(* The ledger comes first.  A simulated day and a liquidity forecast both  *)
(* only take its steps (ReplayUsesLedger): what holds of it holds there.   *)
(* What a balance is, is said by sums over sets of events: SumTheorems     *)
(* says how they grow with an event.                                       *)
(***************************************************************************)
EXTENDS Simulation, LiquidityForecast, SumTheorems

IInv == TypeOK /\ ExactlyOnce /\ ValueConserved

\* The fields of an event the engine may be handed.
LEMMA EventFields ==
  ASSUME NEW t \in Transactions
  PROVE  /\ t.id \in Nat /\ t.agent \in Agents /\ t.provider \in ProviderID
         /\ t.amount \in Nat /\ t.at \in Nat /\ CashDelta(t) \in Int
BY LedgerAssumption DEF LedgerAssumption, TransactionEvents, CashDelta

\* Accepting an event keeps the identifiers and the accepted events together,
\* because an event whose identifier is known is not accepted.
LEMMA AcceptKeepsOnce ==
  ASSUME NEW t \in Transactions, ExactlyOnce, Accept(t)
  PROVE  ExactlyOnce'
<1>1. processedIds' = {u.id : u \in journal'}
  BY DEF ExactlyOnce, Accept
<1>2. \A u \in journal : u.id # t.id
  BY DEF ExactlyOnce, Accept, KnownId
<1>3. \A u, v \in journal' : u.id = v.id => u = v
  BY <1>2 DEF ExactlyOnce, Accept
<1>. QED BY <1>1, <1>3 DEF ExactlyOnce

\* What accepting an event does to the fields a type is stated of.
LEMMA AcceptKeepsTypes ==
  ASSUME NEW t \in Transactions, TypeOK, Accept(t)
  PROVE  /\ processedIds' \subseteq Nat
         /\ updatedAt' \in [Agents -> Nat]
         /\ journal' \subseteq Transactions
BY EventFields DEF TypeOK, Accept, Later

\* A successful event moves one amount between the agent's cash and one of its
\* e-money balances, in opposite directions.
LEMMA SuccessMovesValue ==
  ASSUME NEW t \in Transactions, TypeOK, ApplySuccessful(t)
  PROVE  /\ cash' \in [Agents -> Int]
         /\ emoney' \in [Agents \X ProviderID -> Int]
         /\ \A a \in Agents : Value(cash', emoney', a) = Value(cash, emoney, a)
<1>. DEFINE d == CashDelta(t)
            x == <<t.agent, t.provider>>
<1>1. t.agent \in Agents /\ x \in Agents \X ProviderID /\ d \in Int
  BY EventFields
<1>2. /\ cash' = [cash EXCEPT ![t.agent] = @ + d]
      /\ emoney' = [emoney EXCEPT ![x] = @ - d]
  BY DEF ApplySuccessful
<1>. HIDE DEF d, x
<1>3. cash' \in [Agents -> Int] /\ emoney' \in [Agents \X ProviderID -> Int]
  BY <1>1, <1>2 DEF TypeOK
<1>4. ASSUME NEW a \in Agents
      PROVE  Value(cash', emoney', a) = Value(cash, emoney, a)
  <2>. DEFINE E(p) == emoney[<<a, p>>]
  <2>1. cash[a] \in Int /\ \A p \in ProviderID : E(p) \in Int
    BY DEF TypeOK
  <2>2. cash'[a] = IF a = t.agent THEN cash[a] + d ELSE cash[a]
    BY <1>1, <1>2 DEF TypeOK
  <2>3. \A p \in ProviderID :
          emoney'[<<a, p>>] = IF a = t.agent /\ p = t.provider THEN E(p) - d ELSE E(p)
    BY <1>1, <1>2 DEF TypeOK, x
  <2>4. t.provider \in {"BKASH", "NAGAD", "ROCKET"}
    BY EventFields DEF ProviderID
  <2>5. CASE a # t.agent
    BY <2>2, <2>3, <2>5 DEF Value, ProviderID
  <2>6. CASE a = t.agent
    BY <1>1, <2>1, <2>2, <2>3, <2>4, <2>6 DEF Value, ProviderID
  <2>. QED BY <2>5, <2>6
<1>. QED BY <1>3, <1>4

LEMMA OpeningInvariant == Opening => IInv
<1>. SUFFICES ASSUME Opening PROVE IInv
  OBVIOUS
<1>1. TypeOK
  BY LedgerAssumption DEF Opening, LedgerAssumption, TypeOK
<1>2. ExactlyOnce
  BY DEF Opening, ExactlyOnce
<1>3. ValueConserved
  BY DEF Opening, ValueConserved
<1>. QED BY <1>1, <1>2, <1>3 DEF IInv

LEMMA InitializeInvariant == Initialize => IInv'
<1>. SUFFICES ASSUME Initialize PROVE IInv'
  OBVIOUS
<1>1. TypeOK'
  BY LedgerAssumption DEF Initialize, LedgerAssumption, TypeOK
<1>2. ExactlyOnce'
  BY DEF Initialize, ExactlyOnce
<1>3. ValueConserved'
  BY DEF Initialize, ValueConserved
<1>. QED BY <1>1, <1>2, <1>3 DEF IInv

LEMMA NextInvariant == IInv /\ [Next]_ledgerVars => IInv'
<1>. SUFFICES ASSUME IInv, [Next]_ledgerVars PROVE IInv'
  OBVIOUS
<1>. USE DEF IInv
<1>1. ASSUME NEW t \in Transactions, IgnoreFailed(t) PROVE IInv'
  <2>1. Accept(t) /\ UNCHANGED <<cash, emoney, processed>>
        /\ ignored' = [ignored EXCEPT ![t.agent] = @ + 1]
    BY <1>1 DEF IgnoreFailed
  <2>2. TypeOK'
    BY <2>1, AcceptKeepsTypes, EventFields DEF TypeOK
  <2>3. ExactlyOnce'
    BY <2>1, AcceptKeepsOnce
  <2>4. ValueConserved'
    BY <2>1 DEF ValueConserved
  <2>. QED BY <2>2, <2>3, <2>4
<1>2. ASSUME NEW t \in Transactions, ApplySuccessful(t) PROVE IInv'
  <2>1. Accept(t) /\ UNCHANGED ignored
        /\ processed' = [processed EXCEPT ![t.agent] = @ + 1]
    BY <1>2 DEF ApplySuccessful
  <2>2. TypeOK'
    BY <1>2, <2>1, AcceptKeepsTypes, SuccessMovesValue, EventFields DEF TypeOK
  <2>3. ExactlyOnce'
    BY <2>1, AcceptKeepsOnce
  <2>4. ValueConserved'
    BY <1>2, SuccessMovesValue DEF ValueConserved
  <2>. QED BY <2>2, <2>3, <2>4
<1>3. CASE Initialize
  BY <1>3, InitializeInvariant
<1>4. CASE UNCHANGED ledgerVars
  BY <1>4 DEF ledgerVars, TypeOK, ExactlyOnce, ValueConserved
<1>. QED BY <1>1, <1>2, <1>3, <1>4 DEF Next, ApplyTransaction

LEMMA InvariantHolds == Spec => []IInv
BY OpeningInvariant, NextInvariant, PTL DEF Spec

\* Balances, counters and times keep their types.
THEOREM TypesHold == Spec => []TypeOK
<1>1. IInv => TypeOK
  BY DEF IInv
<1>. QED BY <1>1, InvariantHolds, PTL

\* BalanceEngine.apply_transaction: no transaction id takes effect twice.
THEOREM AppliedOnce == Spec => []ExactlyOnce
<1>1. IInv => ExactlyOnce
  BY DEF IInv
<1>. QED BY <1>1, InvariantHolds, PTL

\* BalanceEngine: no sequence of transaction events and resets changes the
\* total operational value of an agent.
THEOREM ValueStays == Spec => []ValueConserved
<1>1. IInv => ValueConserved
  BY DEF IInv
<1>. QED BY <1>1, InvariantHolds, PTL

-----------------------------------------------------------------------------
(* The sums of amounts.                                                    *)

\* What a set of events brings to the cash.
Net(T) == MapThenSumSet(CashDelta, T)

\* The fold over the deltas of a finite set of events is a sum.
LEMMA DeltaSum ==
  ASSUME NEW T, IsFiniteSet(T)
  PROVE  \E g : /\ Sums(g, [t \in T |-> CashDelta(t)], SUBSET T)
                /\ Net(T) = g[T]
<1>. DEFINE f == [t \in T |-> CashDelta(t)]
            P(g) == g = [s \in SUBSET T |->
                           IF s = {} THEN 0
                           ELSE CashDelta(CHOOSE x \in s : TRUE)
                                  + g[s \ {CHOOSE x \in s : TRUE}]]
            iter == CHOOSE g : P(g)
<1>1. PICK h : Sums(h, f, SUBSET T)
  BY SumExists
<1>2. \A g : P(g) <=> Sums(g, f, SUBSET T)
  <2>1. \A s \in SUBSET T : s # {} => f[Next1(s)] = CashDelta(Next1(s))
    BY NextIsIn
  <2>. HIDE DEF f
  <2>2. ASSUME NEW g
        PROVE  [s \in SUBSET T |->
                  IF s = {} THEN 0
                  ELSE CashDelta(CHOOSE x \in s : TRUE)
                         + g[s \ {CHOOSE x \in s : TRUE}]]
               = [s \in SUBSET T |->
                    IF s = {} THEN 0 ELSE f[Next1(s)] + g[s \ {Next1(s)}]]
    BY <2>1 DEF Next1
  <2>. QED BY <2>2 DEF Sums
<1>3. Net(T) = iter[T]
  BY DEF Net, MapThenSumSet, MapThenFoldSet
<1>4. P(iter)
  <2>1. P(h)
    <3>. HIDE DEF P, f
    <3>. QED BY <1>1, <1>2
  <2>. QED BY <2>1, Zenon
<1>. HIDE DEF P, iter
<1>. QED BY <1>2, <1>3, <1>4

LEMMA DeltaAdded ==
  ASSUME NEW T \in SUBSET Transactions, IsFiniteSet(T), NEW x \in Transactions, x \notin T
  PROVE  Net(T) \in Int /\ Net(T \cup {x}) = Net(T) + CashDelta(x)
<1>. DEFINE V == T \cup {x}
            f == [t \in T |-> CashDelta(t)]
            e == [t \in V |-> CashDelta(t)]
<1>1. IsFiniteSet(V)
  BY FS_AddElement
<1>2. PICK g : Sums(g, f, SUBSET T) /\ Net(T) = g[T]
  BY DeltaSum
<1>3. PICK h : Sums(h, e, SUBSET V) /\ Net(V) = h[V]
  BY <1>1, DeltaSum
<1>4. Grown(T, x, V) /\ Agree(f, e, T) /\ Numbers(e, V)
  BY EventFields DEF Grown, Agree, Numbers
<1>5. e[x] = CashDelta(x) /\ CashDelta(x) \in Int
  BY EventFields
<1>. HIDE DEF V, f, e
<1>6. g[T] \in Int /\ h[V] = e[x] + g[T]
  BY <1>2, <1>3, <1>4, SumAdded
<1>. QED BY <1>2, <1>3, <1>5, <1>6 DEF V

LEMMA DeltaOfNone == Net({}) = 0
<1>. DEFINE f == [t \in {} |-> CashDelta(t)]
<1>1. PICK g : Sums(g, f, SUBSET {}) /\ Net({}) = g[{}]
  BY FS_EmptySet, DeltaSum
<1>. HIDE DEF f
<1>2. {} \in SUBSET {}
  OBVIOUS
<1>. QED BY <1>1, <1>2, SumStep

-----------------------------------------------------------------------------
(* The order of the events.                                                *)

Mine(J, a) == {t \in J : t.agent = a}
Done(J, a) == {t \in Mine(J, a) : t.status = "SUCCESS"}
DoneAt(J, a, p) == {t \in Done(J, a) : t.provider = p}

\* What is known of agent a follows from the accepted events.
Follows(a) ==
  /\ processed[a] = Cardinality(Done(journal, a))
  /\ ignored[a] = Cardinality(Mine(journal, a) \ Done(journal, a))
  /\ updatedAt[a] \in {0} \cup {t.at : t \in Mine(journal, a)}
  /\ \A t \in Mine(journal, a) : t.at <= updatedAt[a]
  /\ cash[a] = OpeningCash[a] + Net(Done(journal, a))
  /\ \A p \in ProviderID :
       emoney[<<a, p>>]
         = OpeningEmoney[<<a, p>>] - Net(DoneAt(journal, a, p))

OrderInv == IInv /\ IsFiniteSet(journal) /\ \A a \in Agents : Follows(a)

LEMMA OpeningFollows ==
  ASSUME NEW a \in Agents
  PROVE  /\ Opening => Follows(a)
         /\ Initialize => Follows(a)'
<1>1. Mine({}, a) = {} /\ Done({}, a) = {} /\ \A p \in ProviderID : DoneAt({}, a, p) = {}
  BY DEF Mine, Done, DoneAt
<1>2. /\ Net({}) = 0 /\ Cardinality({}) = 0 /\ {} \ {} = {}
      /\ OpeningCash[a] \in Nat /\ OpeningCash[a] + 0 = OpeningCash[a]
      /\ \A p \in ProviderID : /\ OpeningEmoney[<<a, p>>] \in Nat
                               /\ OpeningEmoney[<<a, p>>] - 0 = OpeningEmoney[<<a, p>>]
  BY DeltaOfNone, FS_EmptySet, LedgerAssumption DEF LedgerAssumption
<1>. QED BY <1>1, <1>2 DEF Opening, Initialize, Follows

\* One more event.
LEMMA OneMoreEvent ==
  ASSUME NEW a \in Agents, NEW J \in SUBSET Transactions, IsFiniteSet(J),
         NEW t \in Transactions, t \notin J, NEW K, K = J \cup {t}
  PROVE  /\ t.agent # a => Mine(K, a) = Mine(J, a)
         /\ t.agent = a => Mine(K, a) = Mine(J, a) \cup {t}
         /\ t.agent # a \/ t.status = "FAILED" => Done(K, a) = Done(J, a)
         /\ t.agent = a /\ t.status = "SUCCESS" => Done(K, a) = Done(J, a) \cup {t}
         /\ \A p \in ProviderID : DoneAt(J, a, p) \subseteq Done(J, a)
         /\ Done(J, a) \subseteq Mine(J, a) /\ Mine(J, a) \subseteq J
         /\ IsFiniteSet(Mine(J, a)) /\ IsFiniteSet(Done(J, a))
         /\ \A p \in ProviderID : IsFiniteSet(DoneAt(J, a, p))
         /\ IsFiniteSet(Mine(J, a) \ Done(J, a))
<1>1. /\ t.agent # a => Mine(K, a) = Mine(J, a)
      /\ t.agent = a => Mine(K, a) = Mine(J, a) \cup {t}
  BY DEF Mine
<1>2. /\ t.agent # a \/ t.status = "FAILED" => Done(K, a) = Done(J, a)
      /\ t.agent = a /\ t.status = "SUCCESS" => Done(K, a) = Done(J, a) \cup {t}
  BY <1>1 DEF Done, Mine
<1>3. /\ \A p \in ProviderID : DoneAt(J, a, p) \subseteq Done(J, a)
      /\ Done(J, a) \subseteq Mine(J, a) /\ Mine(J, a) \subseteq J
  BY DEF Mine, Done, DoneAt
<1>. QED BY <1>1, <1>2, <1>3, FS_Subset

LEMMA ApplyFollows ==
  ASSUME OrderInv, NEW t \in Transactions, ApplyTransaction(t), NEW a \in Agents
  PROVE  Follows(a)'
<1>. DEFINE J == journal
            K == journal'
<1>1. /\ J \in SUBSET Transactions /\ IsFiniteSet(J) /\ K = J \cup {t} /\ t \notin J
      /\ Accept(t)
  BY DEF OrderInv, IInv, TypeOK, ExactlyOnce, ApplyTransaction, IgnoreFailed,
         ApplySuccessful, Accept, KnownId
<1>2. /\ processed \in [Agents -> Nat] /\ ignored \in [Agents -> Nat]
      /\ updatedAt \in [Agents -> Nat] /\ cash \in [Agents -> Int]
      /\ emoney \in [Agents \X ProviderID -> Int]
      /\ t.agent \in Agents /\ t.at \in Nat /\ CashDelta(t) \in Int
      /\ t.provider \in ProviderID
  BY EventFields DEF OrderInv, IInv, TypeOK
<1>3. Follows(a)
  BY DEF OrderInv
<1>4. /\ OpeningCash[a] \in Int
      /\ \A p \in ProviderID : OpeningEmoney[<<a, p>>] \in Int
  BY LedgerAssumption DEF LedgerAssumption
<1>. HIDE DEF J, K
<1>5. /\ t.agent # a => Mine(K, a) = Mine(J, a)
      /\ t.agent = a => Mine(K, a) = Mine(J, a) \cup {t}
      /\ t.agent # a \/ t.status = "FAILED" => Done(K, a) = Done(J, a)
      /\ t.agent = a /\ t.status = "SUCCESS" => Done(K, a) = Done(J, a) \cup {t}
      /\ \A p \in ProviderID : DoneAt(J, a, p) \subseteq Done(J, a)
      /\ Done(J, a) \subseteq Mine(J, a) /\ Mine(J, a) \subseteq J
      /\ IsFiniteSet(Mine(J, a)) /\ IsFiniteSet(Done(J, a))
      /\ \A p \in ProviderID : IsFiniteSet(DoneAt(J, a, p))
      /\ IsFiniteSet(Mine(J, a) \ Done(J, a))
  <2>1. J \in SUBSET Transactions /\ IsFiniteSet(J) /\ K = J \cup {t} /\ t \notin J
    BY <1>1
  <2>. QED BY <2>1, OneMoreEvent
<1>6. CASE t.agent # a
  <2>1. Mine(K, a) = Mine(J, a) /\ Done(K, a) = Done(J, a)
        /\ \A p \in ProviderID : DoneAt(K, a, p) = DoneAt(J, a, p)
    BY <1>6, <1>5 DEF DoneAt
  <2>2. /\ processed'[a] = processed[a] /\ ignored'[a] = ignored[a]
        /\ updatedAt'[a] = updatedAt[a] /\ cash'[a] = cash[a]
        /\ \A p \in ProviderID : emoney'[<<a, p>>] = emoney[<<a, p>>]
    BY <1>2, <1>6 DEF ApplyTransaction, IgnoreFailed, ApplySuccessful, Accept
  <2>. QED BY <1>3, <2>1, <2>2 DEF Follows, J, K
<1>7. CASE t.agent = a
  <2>1. /\ Mine(K, a) = Mine(J, a) \cup {t}
        /\ IsFiniteSet(Mine(J, a) \ Done(J, a)) /\ IsFiniteSet(Done(J, a))
        /\ \A p \in ProviderID : IsFiniteSet(DoneAt(J, a, p))
        /\ t \notin Mine(J, a) /\ t \notin Done(J, a)
        /\ Done(J, a) \in SUBSET Transactions
        /\ \A p \in ProviderID : t \notin DoneAt(J, a, p) /\ DoneAt(J, a, p) \in SUBSET Transactions
    BY <1>1, <1>7, <1>5
  <2>2. updatedAt'[a] = Later(updatedAt[a], t.at)
    BY <1>1, <1>2, <1>7 DEF Accept
  <2>3. /\ updatedAt'[a] \in {0} \cup {u.at : u \in Mine(K, a)}
        /\ \A u \in Mine(K, a) : u.at <= updatedAt'[a]
    <3>1. \A u \in Mine(J, a) : u.at \in Nat
      BY <1>1, EventFields DEF Mine
    <3>. QED BY <1>2, <1>3, <2>1, <2>2, <3>1 DEF Later, Follows, J
  <2>4. CASE IgnoreFailed(t)
    <3>1. Done(K, a) = Done(J, a) /\ t.status = "FAILED"
      BY <1>5, <2>4 DEF IgnoreFailed
    <3>2. \A p \in ProviderID : DoneAt(K, a, p) = DoneAt(J, a, p)
      BY <3>1 DEF DoneAt
    <3>3. Mine(K, a) \ Done(K, a) = (Mine(J, a) \ Done(J, a)) \cup {t}
      BY <2>1, <3>1
    <3>4. Cardinality(Mine(K, a) \ Done(K, a)) = Cardinality(Mine(J, a) \ Done(J, a)) + 1
      BY <2>1, <3>3, FS_AddElement
    <3>5. /\ processed' = processed /\ cash' = cash /\ emoney' = emoney
          /\ ignored'[a] = ignored[a] + 1
      BY <1>2, <1>7, <2>4 DEF IgnoreFailed
    <3>. QED BY <1>3, <2>3, <3>1, <3>2, <3>4, <3>5 DEF Follows, J, K
  <2>5. CASE ApplySuccessful(t)
    <3>1. Done(K, a) = Done(J, a) \cup {t} /\ t.status = "SUCCESS"
      BY <1>7, <1>5, <2>5 DEF ApplySuccessful
    <3>2. \A p \in ProviderID :
            DoneAt(K, a, p) = IF p = t.provider THEN DoneAt(J, a, p) \cup {t}
                              ELSE DoneAt(J, a, p)
      BY <3>1 DEF DoneAt
    <3>3. Mine(K, a) \ Done(K, a) = Mine(J, a) \ Done(J, a)
      BY <2>1, <3>1
    <3>4. Cardinality(Done(K, a)) = Cardinality(Done(J, a)) + 1
      BY <2>1, <3>1, FS_AddElement
    <3>5. /\ ignored' = ignored /\ processed'[a] = processed[a] + 1
          /\ cash'[a] = cash[a] + CashDelta(t)
          /\ \A p \in ProviderID :
               emoney'[<<a, p>>] = IF p = t.provider THEN emoney[<<a, p>>] - CashDelta(t)
                                   ELSE emoney[<<a, p>>]
      BY <1>2, <1>7, <2>5 DEF ApplySuccessful
    <3>6. cash'[a] = OpeningCash[a] + Net(Done(K, a))
      <4>1. /\ Net(Done(J, a)) \in Int
            /\ Net(Done(K, a))
                 = Net(Done(J, a)) + CashDelta(t)
        BY <2>1, <3>1, DeltaAdded
      <4>2. cash[a] = OpeningCash[a] + Net(Done(J, a))
        BY <1>3 DEF Follows, J
      <4>3. cash[a] \in Int
        BY <1>2
      <4>4. PICK m \in Int : m = Net(Done(J, a))
        BY <4>1
      <4>. QED BY <1>2, <1>4, <3>5, <4>1, <4>2, <4>3, <4>4
    <3>7. ASSUME NEW p \in ProviderID
          PROVE  emoney'[<<a, p>>] = OpeningEmoney[<<a, p>>]
                                       - Net(DoneAt(K, a, p))
      <4>1. emoney[<<a, p>>] = OpeningEmoney[<<a, p>>]
                                 - Net(DoneAt(J, a, p))
        BY <1>3 DEF Follows, J
      <4>2. CASE p # t.provider
        BY <3>2, <3>5, <4>1, <4>2
      <4>3. CASE p = t.provider
        <5>1. /\ Net(DoneAt(J, a, p)) \in Int
              /\ Net(DoneAt(K, a, p))
                   = Net(DoneAt(J, a, p)) + CashDelta(t)
          BY <2>1, <3>2, <4>3, DeltaAdded
        <5>2. emoney'[<<a, p>>] = emoney[<<a, p>>] - CashDelta(t)
          BY <3>5, <4>3
        <5>3. OpeningEmoney[<<a, p>>] \in Int
          BY <1>4
        <5>4. PICK m \in Int : m = Net(DoneAt(J, a, p))
          BY <5>1
        <5>. QED BY <1>2, <4>1, <5>1, <5>2, <5>3, <5>4
      <4>. QED BY <4>2, <4>3
    <3>. QED BY <1>3, <2>3, <3>3, <3>4, <3>5, <3>6, <3>7 DEF Follows, J, K
  <2>. QED BY <2>4, <2>5 DEF ApplyTransaction
<1>. QED BY <1>6, <1>7

LEMMA OrderKept == OrderInv /\ [Next]_ledgerVars => OrderInv'
<1>. SUFFICES ASSUME OrderInv, [Next]_ledgerVars PROVE OrderInv'
  OBVIOUS
<1>0. IInv'
  BY NextInvariant DEF OrderInv
<1>1. ASSUME NEW t \in Transactions, ApplyTransaction(t) PROVE OrderInv'
  <2>1. journal' = journal \cup {t}
    BY <1>1 DEF ApplyTransaction, IgnoreFailed, ApplySuccessful, Accept
  <2>2. IsFiniteSet(journal')
    BY <2>1, FS_AddElement DEF OrderInv
  <2>. QED BY <1>0, <1>1, <2>2, ApplyFollows DEF OrderInv
<1>2. CASE Initialize
  <2>1. IsFiniteSet(journal')
    BY <1>2, FS_EmptySet DEF Initialize
  <2>. QED BY <1>0, <1>2, <2>1, OpeningFollows DEF OrderInv
<1>3. CASE UNCHANGED ledgerVars
  BY <1>0, <1>3 DEF OrderInv, Follows, ledgerVars
<1>. QED BY <1>1, <1>2, <1>3 DEF Next

LEMMA OrderInvHolds == Spec => []OrderInv
<1>1. Opening => OrderInv
  BY OpeningInvariant, OpeningFollows, FS_EmptySet DEF OrderInv, Opening
<1>. QED BY <1>1, OrderKept, PTL DEF Spec

LEMMA FollowsIsFunction == OrderInv => OrderIrrelevant
<1>. SUFFICES ASSUME OrderInv, NEW a \in Agents
              PROVE  LET mine == {t \in journal : t.agent = a}
                         done == {t \in mine : t.status = "SUCCESS"}
                     IN  /\ processed[a] = Cardinality(done)
                         /\ ignored[a] = Cardinality(mine \ done)
                         /\ updatedAt[a] = Max({0} \cup {t.at : t \in mine})
                         /\ cash[a] = OpeningCash[a] + MapThenSumSet(CashDelta, done)
                         /\ \A p \in ProviderID :
                              emoney[<<a, p>>] = OpeningEmoney[<<a, p>>]
                                - MapThenSumSet(CashDelta, {t \in done : t.provider = p})
  BY DEF OrderIrrelevant
<1>1. Follows(a)
  BY DEF OrderInv
<1>2. updatedAt[a] = Max({0} \cup {t.at : t \in Mine(journal, a)})
  <2>. DEFINE times == {0} \cup {t.at : t \in Mine(journal, a)}
  <2>1. \A t \in Mine(journal, a) : t.at \in Nat
    BY EventFields DEF OrderInv, IInv, TypeOK, Mine
  <2>2. times \in SUBSET Int /\ updatedAt[a] \in Nat
    BY <2>1 DEF OrderInv, IInv, TypeOK
  <2>3. updatedAt[a] \in times /\ \A y \in times : y <= updatedAt[a]
    BY <1>1, <2>2 DEF Follows
  <2>. HIDE DEF times
  <2>4. Max(times) = updatedAt[a]
    BY <2>2, <2>3, MaxIs
  <2>. QED BY <2>4 DEF times
<1>. QED BY <1>1, <1>2 DEF Follows, Mine, Done, DoneAt, Net

\* BalanceEngine: what is known of an agent (balances, counts and the time of the
\* last update) is a function of the set of events accepted, in whatever order
\* they arrived, for every set of events.
THEOREM OrderDoesNotMatter == Spec => []OrderIrrelevant
BY OrderInvHolds, FollowsIsFunction, PTL

-----------------------------------------------------------------------------
(* The simulated day and its replay: the invariant has three parts,        *)
(* the day as it is committed (types, numbers, order and balances), the    *)
(* replayed prefix of it, and the feed events of the delay scenario.       *)

PerMinute == SecondsPerMinute

Balances == [cash : [Agents -> Int], emoney : [Agents \X ProviderID -> Int]]

FeedEvents ==
  [type : {"HEARTBEAT", "FEED_DELAY", "FEED_RECOVERED", "BALANCE_CONFLICT"},
   account : Accounts, at : Int, reported : Int]

\* The minutes whose candidates have been drawn.
Begun == IF phase = "commit" THEN minute + 1 ELSE minute

DayTypes ==
  /\ phase \in {"before", "commit", "replay", "given"}
  /\ minute \in Nat /\ Begun <= Minutes
  /\ todo \subseteq Candidates
  /\ phase # "commit" => todo = {}
  /\ delay \in Delays /\ conflict \in Conflicts
  /\ simCash \in [Agents -> Int]
  /\ simEmoney \in [Agents \X ProviderID -> Int]
  /\ committed \in Seq(Transactions)
  /\ trail \in Seq(Balances)
  /\ feedEvents \in Seq(FeedEvents)

\* No minute commits more than its share, so every id is within the bound.
Quota == Len(committed) + Cardinality(todo) <= Begun * MaxCandidates

\* The ids count the commits, and the times never fall: neither from one commit
\* to the next nor from the last one to what is still to be committed.
InOrder ==
  /\ \A i \in 1..Len(committed) :
       /\ committed[i].id = i
       /\ <<committed[i].agent, committed[i].provider>> \in Accounts
       /\ committed[i].at < Begun * PerMinute
       /\ \A c \in todo : committed[i].at <= minute * PerMinute + c.second
  /\ \A i, j \in 1..Len(committed) : i < j => committed[i].at <= committed[j].at

\* What a committed transaction makes of the balances before it.
Moves(b, t) ==
  LET d == IF t.status = "SUCCESS" THEN CashDelta(t) ELSE 0
  IN  [cash |-> [b.cash EXCEPT ![t.agent] = @ + d],
       emoney |-> [b.emoney EXCEPT ![<<t.agent, t.provider>>] = @ - d]]

Solvent(b) ==
  /\ \A a \in Agents : b.cash[a] >= 0
  /\ \A x \in Agents \X ProviderID : b.emoney[x] >= 0

\* The trail holds the balances before and after every commit, the last of them
\* the live ones, and none is overdrawn.
TrailKept ==
  /\ Len(trail) = Len(committed) + 1
  /\ trail[1] = [cash |-> OpeningCash, emoney |-> OpeningEmoney]
  /\ trail[Len(trail)] = [cash |-> simCash, emoney |-> simEmoney]
  /\ \A i \in 1..Len(committed) : trail[i + 1] = Moves(trail[i], committed[i])
  /\ \A i \in 1..Len(trail) : Solvent(trail[i])

\* The ledger has replayed the first n commits.
Replayed(n) ==
  /\ n <= Len(committed)
  /\ journal = {committed[i] : i \in 1..n}
  /\ [cash |-> cash, emoney |-> emoney] = trail[n + 1]

PrefixReplayed ==
  /\ phase # "given" => IsFiniteSet(journal) /\ Replayed(Cardinality(journal))
  /\ phase \in {"before", "commit"} => journal = {}

\* The feed events of the delayed feed and the heartbeats, by minute.
FeedsTimed ==
  /\ \A e \in ToSet(feedEvents) :
       /\ e.type = "FEED_DELAY" => e.account = delay.account /\ e.at = delay.start * PerMinute
       /\ e.type = "HEARTBEAT" =>
            \E m \in Nat : /\ m < minute
                           /\ e.at = m * PerMinute + PerMinute - 1
                           /\ ~(/\ e.account = delay.account
                                /\ delay.start <= m /\ m < delay.end)
  /\ delay.end < Begun =>
       \E r \in ToSet(feedEvents) : /\ r.account = delay.account
                                    /\ r.type = "FEED_RECOVERED"
                                    /\ r.at = delay.end * PerMinute

SimulationInv ==
  /\ IInv
  /\ DayTypes
  /\ Quota
  /\ InOrder
  /\ TrailKept
  /\ PrefixReplayed
  /\ FeedsTimed

-----------------------------------------------------------------------------
(* Minutes and seconds.                                                    *)

LEMMA SimulationConstants ==
  /\ Minutes \in Nat /\ PerMinute \in Nat /\ PerMinute > 0
  /\ HeartbeatInterval \in Nat /\ MaxCandidates \in Nat
  /\ \A d \in Delays : /\ d.account \in Accounts /\ d.start \in Nat /\ d.end \in Nat
                       /\ d.start < d.end /\ d.end <= Minutes
  /\ \A c \in Candidates : <<c.agent, c.provider>> \in Accounts /\ c.second \in 0..(PerMinute - 1)
BY SimulationAssumption DEF SimulationAssumption, PerMinute

\* A minute is over before the next one begins.
LEMMA MinuteOrder ==
  ASSUME NEW m \in Nat, NEW k \in Nat, NEW s \in Nat, m < k
  PROVE  m * s + s <= k * s
<1>1. PICK d \in Nat : k = m + 1 + d
  BY k - m - 1 \in Nat
<1>2. k * s = m * s + s + d * s
  BY <1>1
<1>3. d * s \in Nat /\ m * s \in Nat
  OBVIOUS
<1>. QED BY <1>2, <1>3

LEMMA NextMinute ==
  ASSUME NEW m \in Nat, NEW s \in Nat
  PROVE  m * s \in Nat /\ (m + 1) * s = m * s + s
OBVIOUS

\* Candidates left to commit are finitely many.
LEMMA TodoFinite ==
  ASSUME NEW T, T \subseteq Candidates
  PROVE  IsFiniteSet(T) /\ Cardinality(T) \in Nat
<1>1. IsFiniteSet(Candidates)
  BY SimulationAssumption DEF SimulationAssumption
<1>2. IsFiniteSet(T)
  BY <1>1, FS_Subset
<1>. QED BY <1>2, FS_CardinalityType

-----------------------------------------------------------------------------
(* One commit.                                                             *)

\* What commit_transaction makes of a candidate is an event the engine takes.
LEMMA CommitEvent ==
  ASSUME DayTypes, Quota, NEW c \in Candidates, NEW s \in {"SUCCESS", "FAILED"},
         CommitTransaction(c, s)
  PROVE  LET t == EventOf(c, Len(committed) + 1, minute, s)
             n == Len(committed) + 1
         IN  /\ t \in Transactions
             /\ t.id = n /\ t.status = s /\ t.at = minute * PerMinute + c.second
             /\ t.agent = c.agent /\ t.provider = c.provider
             /\ t.amount = c.amount /\ t.type = c.type
             /\ committed' = Append(committed, t)
             /\ committed' \in Seq(Transactions) /\ Len(committed') = n
             /\ committed'[n] = t
             /\ \A i \in 1..Len(committed) : committed'[i] = committed[i]
             /\ phase = "commit" /\ c \in todo /\ todo' = todo \ {c}
             /\ Len(committed') + Cardinality(todo') <= (minute + 1) * MaxCandidates
<1>. DEFINE n == Len(committed) + 1
            t == EventOf(c, n, minute, s)
<1>1. /\ phase = "commit" /\ c \in todo /\ todo' = todo \ {c}
      /\ committed' = Append(committed, t)
  BY DEF CommitTransaction, Foremost
<1>2. minute \in Nat /\ minute + 1 <= Minutes /\ Minutes \in Nat /\ MaxCandidates \in Nat
  BY <1>1, SimulationConstants DEF DayTypes, Begun
<1>3. IsFiniteSet(todo) /\ Cardinality(todo) \in Nat /\ Cardinality(todo') = Cardinality(todo) - 1
      /\ Cardinality(todo') \in Nat
  BY <1>1, TodoFinite, FS_RemoveElement DEF DayTypes
<1>4. Len(committed) + Cardinality(todo) <= (minute + 1) * MaxCandidates
  BY <1>1 DEF Quota, Begun
<1>5. (minute + 1) * MaxCandidates <= Minutes * MaxCandidates
  <2>1. CASE minute + 1 = Minutes
    BY <1>2, <2>1
  <2>2. CASE minute + 1 < Minutes
    <3>1. (minute + 1) * MaxCandidates + MaxCandidates <= Minutes * MaxCandidates
      BY <1>2, <2>2, MinuteOrder
    <3>. QED BY <1>2, <3>1
  <2>. QED BY <1>2, <2>1, <2>2
<1>6. n \in 1..(Minutes * MaxCandidates)
  <2>1. Len(committed) \in Nat
    BY DEF DayTypes
  <2>2. (minute + 1) * MaxCandidates \in Nat /\ Minutes * MaxCandidates \in Nat
    BY <1>2
  <2>. QED BY <1>3, <1>4, <1>5, <2>1, <2>2
<1>7. minute \in 0..(Minutes - 1)
  BY <1>2
<1>8. t \in Transactions
  BY <1>6, <1>7, SimulationAssumption DEF SimulationAssumption
<1>9. /\ t.id = n /\ t.status = s /\ t.at = minute * PerMinute + c.second
      /\ t.agent = c.agent /\ t.provider = c.provider
      /\ t.amount = c.amount /\ t.type = c.type
  BY DEF EventOf, PerMinute
<1>. HIDE DEF t
<1>10. /\ committed' \in Seq(Transactions) /\ Len(committed') = n
       /\ committed'[n] = t /\ \A i \in 1..Len(committed) : committed'[i] = committed[i]
  BY <1>1, <1>8 DEF DayTypes
<1>11. Len(committed') + Cardinality(todo') <= (minute + 1) * MaxCandidates
  <2>1. Len(committed) \in Nat
    BY DEF DayTypes
  <2>2. (minute + 1) * MaxCandidates \in Nat
    BY <1>2
  <2>. QED BY <1>3, <1>4, <1>10, <2>1, <2>2
<1>. QED BY <1>1, <1>8, <1>9, <1>10, <1>11 DEF t

\* The balances after a commit are the moved ones, and are covered.
LEMMA CommitMoves ==
  ASSUME DayTypes, Quota, TrailKept, NEW c \in Candidates,
         NEW s \in {"SUCCESS", "FAILED"}, CommitTransaction(c, s)
  PROVE  LET t == EventOf(c, Len(committed) + 1, minute, s)
             before == [cash |-> simCash, emoney |-> simEmoney]
             after == [cash |-> simCash', emoney |-> simEmoney']
         IN  after = Moves(before, t) /\ after \in Balances /\ Solvent(after)
<1>. DEFINE n == Len(committed) + 1
            t == EventOf(c, n, minute, s)
            d == IF s = "SUCCESS" THEN CashDelta(t) ELSE 0
            x == <<c.agent, c.provider>>
<1>1. /\ t \in Transactions /\ t.status = s /\ t.agent = c.agent /\ t.provider = c.provider
      /\ t.amount = c.amount /\ t.type = c.type
  BY CommitEvent
<1>2. /\ c.agent \in Agents /\ x \in Agents \X ProviderID /\ c.amount \in Nat
      /\ CashDelta(t) \in Int /\ c.type \in {"CASH_IN", "CASH_OUT"}
  BY <1>1, EventFields, LedgerAssumption DEF LedgerAssumption, TransactionEvents
<1>3. /\ simCash' = [simCash EXCEPT ![c.agent] = @ + d]
      /\ simEmoney' = [simEmoney EXCEPT ![x] = @ - d]
      /\ s = "SUCCESS" => Covered(c)
  <2>1. s = "SUCCESS" => Covered(c)
    BY DEF CommitTransaction
  <2>. QED BY <2>1 DEF CommitTransaction
<1>4. d \in Int
  BY <1>2
<1>5. /\ s = "SUCCESS" /\ c.type = "CASH_IN" => d = c.amount /\ d <= simEmoney[x]
      /\ s = "SUCCESS" /\ c.type = "CASH_OUT" => d = -c.amount /\ c.amount <= simCash[c.agent]
  BY <1>1, <1>3 DEF Covered, CashDelta
<1>6. s # "SUCCESS" => d = 0
  OBVIOUS
<1>7. /\ simCash \in [Agents -> Int] /\ simEmoney \in [Agents \X ProviderID -> Int]
      /\ \A a \in Agents : simCash[a] >= 0
      /\ \A y \in Agents \X ProviderID : simEmoney[y] >= 0
  <2>1. Len(trail) \in 1..Len(trail)
    BY DEF TrailKept, DayTypes
  <2>2. Solvent(trail[Len(trail)])
    BY <2>1 DEF TrailKept
  <2>. QED BY <2>2 DEF DayTypes, TrailKept, Solvent
<1>8. Moves([cash |-> simCash, emoney |-> simEmoney], t)
        = [cash |-> simCash', emoney |-> simEmoney']
  BY <1>1, <1>3 DEF Moves
<1>. HIDE DEF d, x, t
<1>9. d <= simEmoney[x] /\ -d <= simCash[c.agent]
  BY <1>2, <1>4, <1>5, <1>6, <1>7
<1>10. /\ simCash' \in [Agents -> Int] /\ simEmoney' \in [Agents \X ProviderID -> Int]
       /\ \A a \in Agents : simCash'[a] >= 0
       /\ \A y \in Agents \X ProviderID : simEmoney'[y] >= 0
  BY <1>2, <1>3, <1>4, <1>7, <1>9
<1>. QED BY <1>8, <1>10 DEF Balances, Solvent, t

-----------------------------------------------------------------------------
(* The simulated day, one part of the invariant at a time.                 *)

\* The actions that leave the committed day alone.
Elsewhere ==
  \/ BeforeMinute \/ AfterMinute \/ Finish \/ ReplayNext \/ ReplayGiven \/ ReplayReset
  \/ UNCHANGED simulationVars

LEMMA ElsewhereFrame ==
  ASSUME Elsewhere
  PROVE  UNCHANGED <<simulated, delay, conflict>>
BY DEF Elsewhere, BeforeMinute, AfterMinute, Finish, ReplayNext, ReplayGiven, ReplayReset,
       simulationVars, day

LEMMA TrailKeeps ==
  ASSUME DayTypes, Quota, TrailKept, [SimulationNext]_simulationVars
  PROVE  TrailKept'
<1>1. ASSUME NEW c \in Candidates, NEW s \in {"SUCCESS", "FAILED"}, CommitTransaction(c, s)
      PROVE  TrailKept'
  <2>. DEFINE n == Len(committed)
              t == EventOf(c, n + 1, minute, s)
              before == [cash |-> simCash, emoney |-> simEmoney]
              after == [cash |-> simCash', emoney |-> simEmoney']
  <2>1. /\ Len(committed') = n + 1 /\ committed'[n + 1] = t
        /\ \A i \in 1..n : committed'[i] = committed[i]
    BY <1>1, CommitEvent
  <2>2. after = Moves(before, t) /\ after \in Balances /\ Solvent(after)
    BY <1>1, CommitMoves
  <2>3. trail' = Append(trail, after)
    BY <1>1 DEF CommitTransaction
  <2>. HIDE DEF t, after
  <2>4. /\ trail \in Seq(Balances) /\ n \in Nat /\ Len(trail) = n + 1
        /\ trail[n + 1] = before
        /\ trail[1] = [cash |-> OpeningCash, emoney |-> OpeningEmoney]
        /\ \A i \in 1..n : trail[i + 1] = Moves(trail[i], committed[i])
        /\ \A i \in 1..(n + 1) : Solvent(trail[i])
    <3>1. trail \in Seq(Balances) /\ n \in Nat
      BY DEF DayTypes
    <3>2. Len(trail) = n + 1 /\ trail[Len(trail)] = before
      BY DEF TrailKept
    <3>. QED BY <3>1, <3>2 DEF TrailKept
  <2>. HIDE DEF n, before
  <2>5. /\ Len(trail') = n + 2 /\ trail'[n + 2] = after
        /\ \A i \in 1..(n + 1) : trail'[i] = trail[i]
    BY <2>2, <2>3, <2>4
  <2>6. trail'[1] = [cash |-> OpeningCash, emoney |-> OpeningEmoney]
    BY <2>4, <2>5
  <2>7. ASSUME NEW i \in 1..(n + 1) PROVE trail'[i + 1] = Moves(trail'[i], committed'[i])
    <3>1. CASE i = n + 1
      BY <2>1, <2>2, <2>4, <2>5, <3>1
    <3>2. CASE i # n + 1
      <4>1. i \in 1..n /\ i + 1 \in 1..(n + 1)
        BY <2>4, <3>2
      <4>. QED BY <2>1, <2>4, <2>5, <4>1
    <3>. QED BY <3>1, <3>2
  <2>8. ASSUME NEW i \in 1..(n + 2) PROVE Solvent(trail'[i])
    <3>1. CASE i = n + 2
      BY <2>2, <2>5, <3>1
    <3>2. CASE i # n + 2
      <4>1. i \in 1..(n + 1)
        BY <2>4, <3>2
      <4>. QED BY <2>4, <2>5, <4>1
    <3>. QED BY <3>1, <3>2
  <2>9. Len(trail') = Len(committed') + 1 /\ trail'[Len(trail')] = after
    BY <2>1, <2>4, <2>5
  <2>. QED BY <2>1, <2>5, <2>6, <2>7, <2>8, <2>9 DEF TrailKept, after
<1>2. CASE Elsewhere
  BY <1>2, ElsewhereFrame DEF TrailKept, simulated
<1>. QED BY <1>1, <1>2 DEF SimulationNext, Elsewhere

\* The sequence of heartbeats of a minute has nothing but heartbeats.
LEMMA HeartbeatSequence ==
  SetToSeq(Heartbeats) \in Seq(Heartbeats)
<1>. DEFINE n == Cardinality(Heartbeats)
<1>1. IsFiniteSet(Heartbeats)
  <2>1. IsFiniteSet(Accounts) /\ IsFiniteSet({})
    BY SimulationAssumption, FS_EmptySet DEF SimulationAssumption
  <2>2. IsFiniteSet({y \in Accounts : ~Suppressed(y)})
    BY <2>1, FS_Subset
  <2>. DEFINE Alive == {y \in Accounts : ~Suppressed(y)}
              Beat(x) == FeedEvent("HEARTBEAT", x, SecondsPerMinute - 1, NotReported)
              Beats == {Beat(x) : x \in Alive}
  <2>3. IsFiniteSet(Beats)
    <3>. HIDE DEF Alive, Beat
    <3>1. [x \in Alive |-> Beat(x)] \in Surjection(Alive, Beats)
      BY DEF Surjection
    <3>2. IsFiniteSet(Alive)
      BY <2>2 DEF Alive
    <3>. QED BY <3>1, <3>2, FS_Surjection
  <2>. QED BY <2>1, <2>3 DEF Heartbeats
<1>2. n \in Nat /\ ExistsBijection(1..n, Heartbeats)
  <2>1. PICK m \in Nat : ExistsBijection(1..m, Heartbeats)
    BY <1>1, FS_NatBijection
  <2>2. n = m
    BY <2>1, FS_CountingElements
  <2>. QED BY <2>1, <2>2
<1>. HIDE DEF n
<1>3. \E f \in [1..n -> Heartbeats] : IsInjective(f)
  BY <1>2 DEF ExistsBijection, Bijection, Injection
<1>4. SetToSeq(Heartbeats) \in [1..n -> Heartbeats]
  BY <1>3 DEF SetToSeq, n
<1>. QED BY <1>2, <1>4

\* What one step may add to the feed events.
LEMMA FeedEventType ==
  ASSUME NEW type \in {"HEARTBEAT", "FEED_DELAY", "FEED_RECOVERED", "BALANCE_CONFLICT"},
         NEW x \in Accounts, NEW second \in Int, NEW reported \in Int, minute \in Nat
  PROVE  /\ FeedEvent(type, x, second, reported) \in FeedEvents
         /\ FeedEvent(type, x, second, reported).type = type
         /\ FeedEvent(type, x, second, reported).account = x
         /\ FeedEvent(type, x, second, reported).at = minute * PerMinute + second
<1>1. minute * PerMinute \in Nat
  BY SimulationConstants
<1>. QED BY <1>1 DEF FeedEvent, FeedEvents, PerMinute

LEMMA HeartbeatType ==
  ASSUME minute \in Nat
  PROVE  Heartbeats \subseteq FeedEvents
<1>1. SecondsPerMinute - 1 \in Int /\ NotReported \in Int
  BY SimulationConstants DEF NotReported, PerMinute
<1>. QED BY <1>1, FeedEventType DEF Heartbeats

\* Joining two sequences joins what is in them.
LEMMA JoinedSet ==
  ASSUME NEW T, NEW s \in Seq(T), NEW t \in Seq(T)
  PROVE  s \o t \in Seq(T) /\ ToSet(s \o t) = ToSet(s) \cup ToSet(t)
<1>. DEFINE m == Len(s)
            n == Len(t)
            u == s \o t
<1>1. /\ m \in Nat /\ n \in Nat /\ DOMAIN s = 1..m /\ DOMAIN t = 1..n /\ DOMAIN u = 1..(m + n)
      /\ \A i \in 1..m : u[i] = s[i]
      /\ \A i \in 1..(m + n) : i > m => u[i] = t[i - m]
      /\ u \in Seq(T)
  OBVIOUS
<1>2. \A i \in 1..n : u[m + i] = t[i] /\ m + i \in 1..(m + n)
  <2>. TAKE i \in 1..n
  <2>1. m + i \in 1..(m + n) /\ m + i > m /\ (m + i) - m = i
    BY <1>1
  <2>. HIDE DEF m, n, u
  <2>. QED BY <1>1, <2>1
<1>3. \A i \in 1..m : i \in 1..(m + n)
  BY <1>1
<1>4. \A i \in 1..(m + n) : i \in 1..m \/ (i > m /\ i - m \in 1..n)
  BY <1>1
<1>. HIDE DEF m, n, u
<1>5. ToSet(u) = ToSet(s) \cup ToSet(t)
  <2>1. ToSet(s) \subseteq ToSet(u)
    BY <1>1, <1>3 DEF ToSet
  <2>2. ASSUME NEW i \in 1..n PROVE t[i] \in ToSet(u)
    BY <1>1, <1>2 DEF ToSet
  <2>3. ASSUME NEW i \in 1..(m + n) PROVE u[i] \in ToSet(s) \cup ToSet(t)
    BY <1>1, <1>4 DEF ToSet
  <2>. QED BY <1>1, <2>1, <2>2, <2>3 DEF ToSet
<1>. QED BY <1>1, <1>5 DEF u

\* A sequence of one event, or of none.
LEMMA OneOrNone ==
  ASSUME NEW T, NEW e \in T, NEW cond \in BOOLEAN
  PROVE  LET s == IF cond THEN <<e>> ELSE <<>>
         IN  s \in Seq(T) /\ ToSet(s) = IF cond THEN {e} ELSE {}
<1>1. <<e>> \in Seq(T) /\ <<>> \in Seq(T)
  OBVIOUS
<1>2. DOMAIN <<e>> = {1} /\ <<e>>[1] = e /\ DOMAIN <<>> = {}
  OBVIOUS
<1>3. ToSet(<<e>>) = {e}
  <2>. DEFINE s == <<e>>
  <2>1. DOMAIN s = {1} /\ s[1] = e
    BY <1>2
  <2>. HIDE DEF s
  <2>2. ToSet(s) = {e}
    BY <2>1 DEF ToSet
  <2>. QED BY <2>2 DEF s
<1>4. ToSet(<<>>) = {}
  BY <1>2 DEF ToSet
<1>. QED BY <1>1, <1>3, <1>4

LEMMA BeforeFeeds ==
  ASSUME DayTypes, BeforeMinute
  PROVE  LET down == FeedEvent("FEED_DELAY", delay.account, 0, NotReported)
             up == FeedEvent("FEED_RECOVERED", delay.account, 0, NotReported)
         IN  /\ feedEvents' \in Seq(FeedEvents)
             /\ ToSet(feedEvents') = ToSet(feedEvents)
                  \cup (IF minute = delay.start THEN {down} ELSE {})
                  \cup (IF minute = delay.end THEN {up} ELSE {})
<1>. DEFINE down == FeedEvent("FEED_DELAY", delay.account, 0, NotReported)
            up == FeedEvent("FEED_RECOVERED", delay.account, 0, NotReported)
            s == IF minute = delay.start THEN <<down>> ELSE <<>>
            t == IF minute = delay.end THEN <<up>> ELSE <<>>
<1>1. minute \in Nat /\ delay.account \in Accounts /\ feedEvents \in Seq(FeedEvents)
  BY SimulationConstants DEF DayTypes
<1>2. down \in FeedEvents /\ up \in FeedEvents
  BY <1>1, FeedEventType, 0 \in Int DEF NotReported
<1>3. feedEvents' = (feedEvents \o s) \o t
  BY DEF BeforeMinute
<1>. HIDE DEF down, up
<1>4. /\ s \in Seq(FeedEvents) /\ ToSet(s) = IF minute = delay.start THEN {down} ELSE {}
      /\ t \in Seq(FeedEvents) /\ ToSet(t) = IF minute = delay.end THEN {up} ELSE {}
  BY <1>2, OneOrNone
<1>. HIDE DEF s, t
<1>. DEFINE u == feedEvents \o s
<1>5. u \in Seq(FeedEvents) /\ ToSet(u) = ToSet(feedEvents) \cup ToSet(s)
  BY <1>1, <1>4, JoinedSet
<1>. HIDE DEF u
<1>6. u \o t \in Seq(FeedEvents) /\ ToSet(u \o t) = ToSet(u) \cup ToSet(t)
  BY <1>4, <1>5, JoinedSet
<1>. QED BY <1>3, <1>4, <1>5, <1>6 DEF u, down, up

LEMMA AfterFeeds ==
  ASSUME DayTypes, AfterMinute
  PROVE  /\ feedEvents' \in Seq(FeedEvents)
         /\ \A e \in ToSet(feedEvents') :
              e \in ToSet(feedEvents) \/ e \in Heartbeats \/ e.type = "BALANCE_CONFLICT"
         /\ ToSet(feedEvents) \subseteq ToSet(feedEvents')
<1>. DEFINE x == FeedEvent("BALANCE_CONFLICT", conflict.account, SecondsPerMinute - 2,
                           simEmoney[conflict.account] + conflict.offset)
            beats == SetToSeq(Heartbeats)
            t == IF minute = conflict.start THEN <<x>> ELSE <<>>
<1>1. minute \in Nat /\ feedEvents \in Seq(FeedEvents)
  BY DEF DayTypes
<1>2. x \in FeedEvents /\ x.type = "BALANCE_CONFLICT"
  <2>1. conflict.account \in Accounts /\ conflict.offset \in Int /\ SecondsPerMinute - 2 \in Int
    BY SimulationAssumption, SimulationConstants DEF DayTypes, SimulationAssumption, PerMinute
  <2>2. conflict.account \in Agents \X ProviderID
    BY <2>1, LedgerAssumption DEF LedgerAssumption
  <2>3. simEmoney[conflict.account] + conflict.offset \in Int
    BY <2>1, <2>2 DEF DayTypes
  <2>. QED BY <1>1, <2>1, <2>3, FeedEventType
<1>3. /\ beats \in Seq(FeedEvents) /\ ToSet(beats) \subseteq Heartbeats
  <2>1. beats \in Seq(Heartbeats) /\ Heartbeats \subseteq FeedEvents
    BY <1>1, HeartbeatSequence, HeartbeatType
  <2>. HIDE DEF beats
  <2>2. beats \in Seq(FeedEvents) /\ \A i \in DOMAIN beats : beats[i] \in Heartbeats
    BY <2>1
  <2>. QED BY <2>2 DEF ToSet
<1>4. feedEvents' = (feedEvents \o beats) \o t
  BY DEF AfterMinute
<1>. HIDE DEF x, beats
<1>5. t \in Seq(FeedEvents) /\ ToSet(t) \subseteq {x}
  BY <1>2, OneOrNone
<1>. HIDE DEF t
<1>. DEFINE u == feedEvents \o beats
<1>6. u \in Seq(FeedEvents) /\ ToSet(u) = ToSet(feedEvents) \cup ToSet(beats)
  BY <1>1, <1>3, JoinedSet
<1>. HIDE DEF u
<1>7. u \o t \in Seq(FeedEvents) /\ ToSet(u \o t) = ToSet(u) \cup ToSet(t)
  BY <1>5, <1>6, JoinedSet
<1>. QED BY <1>2, <1>3, <1>4, <1>5, <1>6, <1>7 DEF u

LEMMA DayTypesKeep ==
  ASSUME DayTypes, Quota, TrailKept, [SimulationNext]_simulationVars
  PROVE  DayTypes'
<1>0. Minutes \in Nat
  BY SimulationConstants
<1>1. CASE BeforeMinute
  <2>1. feedEvents' \in Seq(FeedEvents)
    BY <1>1, BeforeFeeds
  <2>2. /\ phase = "before" /\ phase' = "commit" /\ minute < Minutes /\ minute' = minute
        /\ todo' \subseteq Candidates /\ UNCHANGED <<delay, conflict, simulated>>
    BY <1>1 DEF BeforeMinute
  <2>3. Begun' <= Minutes
    BY <1>0, <2>2 DEF Begun, DayTypes
  <2>. QED BY <2>1, <2>2, <2>3 DEF DayTypes, simulated
<1>2. ASSUME NEW c \in Candidates, NEW s \in {"SUCCESS", "FAILED"}, CommitTransaction(c, s)
      PROVE  DayTypes'
  <2>. DEFINE after == [cash |-> simCash', emoney |-> simEmoney']
  <2>1. committed' \in Seq(Transactions) /\ todo' \subseteq todo /\ phase = "commit"
    BY <1>2, CommitEvent
  <2>2. after \in Balances
    BY <1>2, CommitMoves
  <2>3. simCash' \in [Agents -> Int] /\ simEmoney' \in [Agents \X ProviderID -> Int]
    BY <2>2 DEF Balances
  <2>4. UNCHANGED <<minute, feedEvents, delay, conflict, phase>> /\ trail' = Append(trail, after)
    BY <1>2 DEF CommitTransaction
  <2>. HIDE DEF after
  <2>5. trail' \in Seq(Balances)
    BY <2>2, <2>4 DEF DayTypes
  <2>. QED BY <2>1, <2>3, <2>4, <2>5 DEF DayTypes, Begun
<1>3. CASE AfterMinute
  <2>1. feedEvents' \in Seq(FeedEvents)
    BY <1>3, AfterFeeds
  <2>2. /\ phase = "commit" /\ phase' = "before" /\ minute' = minute + 1
        /\ todo = {} /\ todo' = todo /\ UNCHANGED <<delay, conflict, simulated>>
    BY <1>3 DEF AfterMinute
  <2>3. Begun' <= Minutes
    BY <2>2 DEF Begun, DayTypes
  <2>. QED BY <2>1, <2>2, <2>3 DEF DayTypes, simulated
<1>4. CASE Finish
  BY <1>4 DEF Finish, DayTypes, Begun, simulated, day
<1>5. CASE ReplayNext \/ ReplayGiven \/ ReplayReset \/ UNCHANGED simulationVars
  BY <1>5 DEF ReplayNext, ReplayGiven, ReplayReset, simulationVars, DayTypes, Begun, simulated, day
<1>. QED BY <1>1, <1>2, <1>3, <1>4, <1>5 DEF SimulationNext

LEMMA QuotaKeeps ==
  ASSUME DayTypes, Quota, [SimulationNext]_simulationVars
  PROVE  Quota'
<1>. DEFINE n == Len(committed)
<1>0. n \in Nat /\ minute \in Nat /\ MaxCandidates \in Nat /\ minute * MaxCandidates \in Nat
      /\ (minute + 1) * MaxCandidates = minute * MaxCandidates + MaxCandidates
  BY SimulationConstants, NextMinute DEF DayTypes
<1>1. CASE BeforeMinute
  <2>1. /\ phase = "before" /\ phase' = "commit" /\ minute' = minute /\ committed' = committed
        /\ todo' \subseteq Candidates /\ Cardinality(todo') <= MaxCandidates
    BY <1>1 DEF BeforeMinute, simulated
  <2>2. todo = {} /\ Cardinality(todo) = 0
    BY <2>1, FS_EmptySet DEF DayTypes
  <2>3. n <= minute * MaxCandidates
    BY <1>0, <2>1, <2>2 DEF Quota, Begun
  <2>4. Cardinality(todo') \in Nat
    BY <2>1, TodoFinite
  <2>5. n + Cardinality(todo') <= (minute + 1) * MaxCandidates
    BY <1>0, <2>1, <2>3, <2>4
  <2>. QED BY <2>1, <2>5 DEF Quota, Begun
<1>2. ASSUME NEW c \in Candidates, NEW s \in {"SUCCESS", "FAILED"}, CommitTransaction(c, s)
      PROVE  Quota'
  <2>1. /\ Len(committed') + Cardinality(todo') <= (minute + 1) * MaxCandidates
        /\ phase = "commit"
    BY <1>2, CommitEvent
  <2>2. UNCHANGED <<minute, phase>>
    BY <1>2 DEF CommitTransaction
  <2>. QED BY <2>1, <2>2 DEF Quota, Begun
<1>3. CASE AfterMinute
  BY <1>3 DEF AfterMinute, Quota, Begun, simulated
<1>4. CASE Finish \/ ReplayNext \/ ReplayGiven \/ ReplayReset \/ UNCHANGED simulationVars
  BY <1>4 DEF Finish, ReplayNext, ReplayGiven, ReplayReset, simulationVars, Quota, Begun,
              simulated, day
<1>. QED BY <1>1, <1>2, <1>3, <1>4 DEF SimulationNext

LEMMA OrderKeeps ==
  ASSUME DayTypes, Quota, InOrder, [SimulationNext]_simulationVars
  PROVE  InOrder'
<1>0. /\ minute \in Nat /\ PerMinute \in Nat /\ minute * PerMinute \in Nat
      /\ (minute + 1) * PerMinute = minute * PerMinute + PerMinute
      /\ \A c \in Candidates : c.second \in 0..(PerMinute - 1)
      /\ \A i \in 1..Len(committed) : committed[i].at \in Nat
  <2>1. \A i \in 1..Len(committed) : committed[i] \in Transactions
    BY DEF DayTypes
  <2>. QED BY <2>1, SimulationConstants, NextMinute, EventFields DEF DayTypes
<1>1. CASE BeforeMinute
  <2>1. /\ phase = "before" /\ phase' = "commit" /\ minute' = minute /\ committed' = committed
        /\ todo' \subseteq Candidates
    BY <1>1 DEF BeforeMinute, simulated
  <2>2. ASSUME NEW i \in 1..Len(committed)
        PROVE  /\ committed[i].at < minute * PerMinute /\ committed[i].at < (minute + 1) * PerMinute
               /\ \A c \in todo' : committed[i].at <= minute * PerMinute + c.second
    <3>1. committed[i].at < minute * PerMinute
      BY <2>1 DEF InOrder, Begun
    <3>. QED BY <1>0, <2>1, <3>1
  <2>. QED BY <2>1, <2>2 DEF InOrder, Begun
<1>2. ASSUME NEW c \in Candidates, NEW s \in {"SUCCESS", "FAILED"}, CommitTransaction(c, s)
      PROVE  InOrder'
  <2>. DEFINE n == Len(committed)
              t == EventOf(c, n + 1, minute, s)
  <2>1. /\ t \in Transactions /\ t.id = n + 1 /\ t.at = minute * PerMinute + c.second
        /\ t.agent = c.agent /\ t.provider = c.provider
        /\ Len(committed') = n + 1 /\ committed'[n + 1] = t
        /\ \A i \in 1..n : committed'[i] = committed[i]
        /\ phase = "commit" /\ c \in todo /\ todo' = todo \ {c}
    BY <1>2, CommitEvent
  <2>2. /\ UNCHANGED <<minute, phase>> /\ n \in Nat
        /\ \A d \in todo : d \in Candidates /\ c.second <= d.second
        /\ <<c.agent, c.provider>> \in Accounts
    BY <1>2, SimulationConstants DEF CommitTransaction, Foremost, DayTypes
  <2>3. \A i \in 1..n : /\ committed[i].id = i
                        /\ <<committed[i].agent, committed[i].provider>> \in Accounts
                        /\ committed[i].at < (minute + 1) * PerMinute
                        /\ \A d \in todo : committed[i].at <= minute * PerMinute + d.second
    BY <2>1 DEF InOrder, Begun
  <2>4. \A i, j \in 1..n : i < j => committed[i].at <= committed[j].at
    BY DEF InOrder
  <2>. HIDE DEF n, t
  <2>5. t.at < (minute + 1) * PerMinute /\ \A d \in todo' : t.at <= minute * PerMinute + d.second
    BY <1>0, <2>1, <2>2
  <2>6. ASSUME NEW i \in 1..(n + 1)
        PROVE  /\ committed'[i].id = i
               /\ <<committed'[i].agent, committed'[i].provider>> \in Accounts
               /\ committed'[i].at < (minute + 1) * PerMinute
               /\ \A d \in todo' : committed'[i].at <= minute * PerMinute + d.second
    <3>1. CASE i = n + 1
      BY <2>1, <2>2, <2>5, <3>1
    <3>2. CASE i # n + 1
      <4>1. i \in 1..n
        BY <2>2, <3>2
      <4>. QED BY <2>1, <2>3, <4>1
    <3>. QED BY <3>1, <3>2
  <2>7. ASSUME NEW i \in 1..(n + 1), NEW j \in 1..(n + 1), i < j
        PROVE  committed'[i].at <= committed'[j].at
    <3>1. i \in 1..n
      BY <2>2, <2>7
    <3>2. CASE j = n + 1
      BY <2>1, <2>3, <3>1, <3>2
    <3>3. CASE j # n + 1
      <4>1. j \in 1..n
        BY <2>2, <3>3
      <4>. QED BY <2>1, <2>4, <2>7, <3>1, <4>1
    <3>. QED BY <3>2, <3>3
  <2>8. Begun' = minute + 1 /\ minute' = minute
    BY <2>1, <2>2 DEF Begun
  <2>. QED BY <2>1, <2>6, <2>7, <2>8 DEF InOrder
<1>3. CASE AfterMinute
  BY <1>3 DEF AfterMinute, InOrder, Begun, simulated
<1>4. CASE Finish \/ ReplayNext \/ ReplayGiven \/ ReplayReset \/ UNCHANGED simulationVars
  BY <1>4 DEF Finish, ReplayNext, ReplayGiven, ReplayReset, simulationVars, InOrder, Begun,
              simulated, day
<1>. QED BY <1>1, <1>2, <1>3, <1>4 DEF SimulationNext

-----------------------------------------------------------------------------
(* The replay of the day.                                                  *)

\* What the ledger accepts next from the stream is the next commit: the order
\* of the stream, of the ids and of the commits is one.
LEMMA NextOfStream ==
  ASSUME IInv, DayTypes, InOrder, NEW n \in Nat, Replayed(n),
         NEW t \in ToSet(committed), ~KnownId(t),
         \A u \in {v \in ToSet(committed) : ~KnownId(v)} : ~Precedes(u, t)
  PROVE  n < Len(committed) /\ t = committed[n + 1]
<1>. DEFINE N == Len(committed)
<1>1. /\ N \in Nat /\ n <= N
      /\ \A i \in 1..N : committed[i].at \in Nat /\ committed[i].id = i
  <2>1. N \in Nat /\ \A i \in 1..N : committed[i] \in Transactions
    BY DEF DayTypes
  <2>2. n <= N /\ \A i \in 1..N : committed[i].id = i
    BY DEF InOrder, Replayed
  <2>. QED BY <2>1, <2>2, EventFields
<1>2. processedIds = {committed[i].id : i \in 1..n}
  <2>1. processedIds = {u.id : u \in journal}
    BY DEF IInv, ExactlyOnce
  <2>. QED BY <2>1 DEF Replayed
<1>3. \A i \in 1..N : KnownId(committed[i]) <=> i <= n
  <2>. TAKE i \in 1..N
  <2>1. KnownId(committed[i]) <=> \E j \in 1..n : committed[j].id = committed[i].id
    BY <1>2 DEF KnownId
  <2>2. \A j \in 1..n : j \in 1..N
    BY <1>1
  <2>. QED BY <1>1, <2>1, <2>2
<1>4. PICK k \in 1..N : t = committed[k]
  BY DEF ToSet, DayTypes
<1>5. k > n
  BY <1>1, <1>3, <1>4
<1>6. n + 1 \in 1..N
  BY <1>1, <1>5
<1>7. committed[n + 1] \in ToSet(committed) /\ ~KnownId(committed[n + 1])
  BY <1>1, <1>3, <1>6 DEF ToSet, DayTypes
<1>8. ~Precedes(committed[n + 1], t)
  BY <1>7
<1>9. k = n + 1
  <2>1. SUFFICES ASSUME n + 1 < k PROVE FALSE
    BY <1>1, <1>5
  <2>2. committed[n + 1].at <= committed[k].at /\ committed[n + 1].id < committed[k].id
    BY <1>1, <1>6, <2>1 DEF InOrder
  <2>. QED BY <1>1, <1>4, <1>6, <1>8, <2>2 DEF Precedes
<1>. QED BY <1>4, <1>6, <1>9

\* Applying the next commit gives the ledger the next balances of the trail.
LEMMA ApplyMoves ==
  ASSUME TypeOK, NEW t \in Transactions, ApplyTransaction(t)
  PROVE  [cash |-> cash', emoney |-> emoney'] = Moves([cash |-> cash, emoney |-> emoney], t)
<1>1. t.agent \in Agents /\ <<t.agent, t.provider>> \in Agents \X ProviderID
      /\ t.status \in {"SUCCESS", "FAILED"}
  BY EventFields, LedgerAssumption DEF LedgerAssumption, TransactionEvents
<1>2. cash \in [Agents -> Int] /\ emoney \in [Agents \X ProviderID -> Int]
  BY DEF TypeOK
<1>3. CASE IgnoreFailed(t)
  <2>1. t.status = "FAILED" /\ cash' = cash /\ emoney' = emoney
    BY <1>3 DEF IgnoreFailed
  <2>2. cash = [cash EXCEPT ![t.agent] = @ + 0]
    BY <1>1, <1>2
  <2>3. emoney = [emoney EXCEPT ![<<t.agent, t.provider>>] = @ - 0]
    BY <1>1, <1>2
  <2>. QED BY <2>1, <2>2, <2>3 DEF Moves
<1>4. CASE ApplySuccessful(t)
  BY <1>4 DEF ApplySuccessful, Moves
<1>. QED BY <1>3, <1>4 DEF ApplyTransaction

LEMMA PrefixKeeps ==
  ASSUME IInv, DayTypes, Quota, InOrder, TrailKept, PrefixReplayed,
         [SimulationNext]_simulationVars
  PROVE  PrefixReplayed'
<1>. DEFINE n == Cardinality(journal)
            N == Len(committed)
<1>0. N \in Nat
  BY DEF DayTypes
<1>1. ASSUME NEW c \in Candidates, NEW s \in {"SUCCESS", "FAILED"}, CommitTransaction(c, s)
      PROVE  PrefixReplayed'
  <2>1. /\ phase = "commit" /\ Len(committed') = N + 1
        /\ \A i \in 1..N : committed'[i] = committed[i]
    BY <1>1, CommitEvent
  <2>2. /\ UNCHANGED ledgerVars /\ phase' = phase
        /\ trail' = Append(trail, [cash |-> simCash', emoney |-> simEmoney'])
    BY <1>1 DEF CommitTransaction
  <2>3. journal = {} /\ IsFiniteSet(journal) /\ n = 0 /\ Replayed(n)
    BY <2>1, FS_EmptySet DEF PrefixReplayed
  <2>4. trail'[1] = trail[1] /\ journal' = journal /\ cash' = cash /\ emoney' = emoney
    <3>1. trail \in Seq(Balances) /\ Len(trail) = N + 1
      BY DEF DayTypes, TrailKept
    <3>2. [cash |-> simCash', emoney |-> simEmoney'] \in Balances
      BY <1>1, CommitMoves
    <3>. QED BY <1>0, <2>2, <3>1, <3>2 DEF ledgerVars
  <2>5. Replayed(0)'
    BY <1>0, <2>1, <2>3, <2>4 DEF Replayed
  <2>. QED BY <2>1, <2>2, <2>3, <2>4, <2>5 DEF PrefixReplayed
<1>2. CASE ReplayNext
  <2>. DEFINE ahead == {u \in ToSet(committed) : ~KnownId(u)}
  <2>1. /\ phase = "replay" /\ UNCHANGED <<simulated, phase>>
        /\ \E t \in ahead : (\A u \in ahead : ~Precedes(u, t)) /\ ApplyTransaction(t)
    BY <1>2 DEF ReplayNext
  <2>2. PICK t \in ahead : (\A u \in ahead : ~Precedes(u, t)) /\ ApplyTransaction(t)
    BY <2>1
  <2>0. IsFiniteSet(journal) /\ n \in Nat /\ Replayed(n)
    BY <2>1, FS_CardinalityType DEF PrefixReplayed
  <2>3. PICK k \in Nat : k = n /\ IsFiniteSet(journal) /\ Replayed(k)
    BY <2>0
  <2>. HIDE DEF n
  <2>4. k < N /\ t = committed[k + 1]
    BY <2>2, <2>3, NextOfStream
  <2>5. t \in Transactions
    BY <1>0, <2>3, <2>4 DEF DayTypes
  <2>6. Accept(t) /\ t \notin journal
    <3>1. Accept(t)
      BY <2>2 DEF ApplyTransaction, IgnoreFailed, ApplySuccessful
    <3>. QED BY <3>1 DEF Accept, KnownId, IInv, ExactlyOnce
  <2>7. journal' = journal \cup {t} /\ IsFiniteSet(journal') /\ Cardinality(journal') = k + 1
    <3>1. journal' = journal \cup {t}
      BY <2>6 DEF Accept
    <3>. QED BY <2>3, <2>6, <3>1, FS_AddElement DEF n
  <2>8. journal' = {committed[i] : i \in 1..(k + 1)}
    <3>1. \A i \in 1..(k + 1) : i \in 1..k \/ i = k + 1
      BY <2>3
    <3>2. k + 1 \in 1..(k + 1) /\ \A i \in 1..k : i \in 1..(k + 1)
      BY <2>3
    <3>. QED BY <2>3, <2>4, <2>7, <3>1, <3>2 DEF Replayed
  <2>9. [cash |-> cash', emoney |-> emoney'] = trail[k + 2]
    <3>1. [cash |-> cash', emoney |-> emoney'] = Moves([cash |-> cash, emoney |-> emoney], t)
      BY <2>2, <2>5, ApplyMoves DEF IInv
    <3>2. trail[(k + 1) + 1] = Moves(trail[k + 1], committed[k + 1])
      BY <1>0, <2>3, <2>4 DEF TrailKept
    <3>3. (k + 1) + 1 = k + 2
      BY <2>3
    <3>. QED BY <2>3, <2>4, <3>1, <3>2, <3>3 DEF Replayed
  <2>10. committed' = committed /\ trail' = trail /\ phase' = phase
    BY <2>1 DEF simulated
  <2>11. Replayed(k + 1)'
    <3>1. (k + 1) + 1 = k + 2 /\ k + 1 <= N
      BY <1>0, <2>3, <2>4
    <3>. QED BY <2>8, <2>9, <2>10, <3>1 DEF Replayed
  <2>. QED BY <2>1, <2>7, <2>10, <2>11 DEF PrefixReplayed
<1>3. CASE ReplayReset
  <2>1. /\ journal' = {} /\ cash' = OpeningCash /\ emoney' = OpeningEmoney
        /\ committed' = committed /\ trail' = trail
    BY <1>3 DEF ReplayReset, Initialize, simulated
  <2>2. IsFiniteSet(journal') /\ Cardinality(journal') = 0
    BY <2>1, FS_EmptySet
  <2>3. Replayed(0)'
    BY <1>0, <2>1 DEF Replayed, TrailKept
  <2>. QED BY <2>1, <2>2, <2>3 DEF PrefixReplayed
<1>4. CASE ReplayGiven
  BY <1>4 DEF ReplayGiven, PrefixReplayed
<1>5. CASE BeforeMinute \/ AfterMinute \/ Finish \/ UNCHANGED simulationVars
  <2>1. /\ journal' = journal /\ cash' = cash /\ emoney' = emoney
        /\ committed' = committed /\ trail' = trail
    BY <1>5 DEF BeforeMinute, AfterMinute, Finish, simulationVars, ledgerVars, simulated
  <2>2. /\ phase' \in {"before", "commit"} => phase \in {"before", "commit"}
        /\ phase' # "given" => phase # "given"
    BY <1>5 DEF BeforeMinute, AfterMinute, Finish, simulationVars, simulated
  <2>3. Replayed(Cardinality(journal)) <=> Replayed(Cardinality(journal))'
    BY <2>1 DEF Replayed
  <2>4. phase' # "given" =>
          IsFiniteSet(journal') /\ Replayed(Cardinality(journal))'
    BY <2>1, <2>2, <2>3 DEF PrefixReplayed
  <2>5. phase' \in {"before", "commit"} => journal' = {}
    BY <2>1, <2>2 DEF PrefixReplayed
  <2>. QED BY <2>4, <2>5 DEF PrefixReplayed
<1>. QED BY <1>1, <1>2, <1>3, <1>4, <1>5 DEF SimulationNext

-----------------------------------------------------------------------------
(* The delayed feed.                                                       *)

\* A feed that is down keeps silent: a heartbeat is of a minute that the delay
\* does not cover.
LEMMA HeartbeatOf ==
  ASSUME DayTypes, NEW e \in Heartbeats
  PROVE  /\ e.type = "HEARTBEAT" /\ e.at = minute * PerMinute + PerMinute - 1
         /\ ~(/\ e.account = delay.account
              /\ delay.start <= minute /\ minute < delay.end)
<1>1. PICK x \in Accounts : /\ ~Suppressed(x)
                            /\ e = FeedEvent("HEARTBEAT", x, SecondsPerMinute - 1, NotReported)
  BY DEF Heartbeats
<1>2. minute \in Nat /\ SecondsPerMinute - 1 \in Int /\ NotReported \in Int
  BY SimulationConstants DEF DayTypes, NotReported, PerMinute
<1>3. e.type = "HEARTBEAT" /\ e.account = x /\ e.at = minute * PerMinute + (SecondsPerMinute - 1)
  BY <1>1, <1>2, FeedEventType
<1>4. minute * PerMinute \in Nat /\ PerMinute \in Nat /\ PerMinute = SecondsPerMinute
  BY <1>2, SimulationConstants DEF PerMinute
<1>. QED BY <1>1, <1>3, <1>4 DEF Suppressed

LEMMA FeedsKeep ==
  ASSUME DayTypes, Quota, FeedsTimed, [SimulationNext]_simulationVars
  PROVE  FeedsTimed'
<1>. DEFINE OnTime(e, m) ==
       /\ e.type = "FEED_DELAY" => e.account = delay.account /\ e.at = delay.start * PerMinute
       /\ e.type = "HEARTBEAT" =>
            \E k \in Nat : /\ k < m /\ e.at = k * PerMinute + PerMinute - 1
                           /\ ~(/\ e.account = delay.account
                                /\ delay.start <= k /\ k < delay.end)
            Recovered(E) ==
              \E r \in E : /\ r.account = delay.account /\ r.type = "FEED_RECOVERED"
                           /\ r.at = delay.end * PerMinute
<1>0. /\ minute \in Nat /\ delay.account \in Accounts /\ delay.start \in Nat /\ delay.end \in Nat
      /\ 0 \in Int /\ NotReported \in Int
      /\ \A m \in Nat : m * PerMinute \in Nat /\ m * PerMinute + 0 = m * PerMinute
  BY SimulationConstants DEF DayTypes, NotReported
<1>1. CASE BeforeMinute
  <2>. DEFINE down == FeedEvent("FEED_DELAY", delay.account, 0, NotReported)
              up == FeedEvent("FEED_RECOVERED", delay.account, 0, NotReported)
  <2>1. /\ phase = "before" /\ phase' = "commit" /\ minute' = minute /\ delay' = delay
    BY <1>1 DEF BeforeMinute
  <2>2. ToSet(feedEvents') = ToSet(feedEvents)
           \cup (IF minute = delay.start THEN {down} ELSE {})
           \cup (IF minute = delay.end THEN {up} ELSE {})
    BY <1>1, BeforeFeeds
  <2>3. /\ down.type = "FEED_DELAY" /\ down.account = delay.account /\ down.at = minute * PerMinute
        /\ up.type = "FEED_RECOVERED" /\ up.account = delay.account /\ up.at = minute * PerMinute
    BY <1>0, FeedEventType
  <2>. HIDE DEF down, up
  <2>4. \A e \in ToSet(feedEvents) : OnTime(e, minute)
    BY DEF FeedsTimed
  <2>5. ASSUME NEW e \in ToSet(feedEvents') PROVE OnTime(e, minute)
    <3>1. CASE e \in ToSet(feedEvents)
      BY <2>4, <3>1
    <3>2. CASE minute = delay.start /\ e = down
      BY <2>3, <3>2
    <3>3. CASE minute = delay.end /\ e = up
      BY <2>3, <3>3
    <3>. QED BY <2>2, <3>1, <3>2, <3>3
  <2>6. delay.end < Begun' => Recovered(ToSet(feedEvents'))
    <3>1. CASE delay.end = minute
      BY <2>2, <2>3, <3>1
    <3>2. CASE delay.end < minute
      <4>1. Recovered(ToSet(feedEvents))
        BY <2>1, <3>2 DEF FeedsTimed, Begun
      <4>. QED BY <2>2, <4>1
    <3>. QED BY <1>0, <2>1, <3>1, <3>2 DEF Begun
  <2>. QED BY <2>1, <2>5, <2>6 DEF FeedsTimed
<1>2. CASE AfterMinute
  <2>1. /\ phase = "commit" /\ phase' = "before" /\ minute' = minute + 1 /\ delay' = delay
    BY <1>2 DEF AfterMinute
  <2>2. /\ \A e \in ToSet(feedEvents') :
             e \in ToSet(feedEvents) \/ e \in Heartbeats \/ e.type = "BALANCE_CONFLICT"
        /\ ToSet(feedEvents) \subseteq ToSet(feedEvents')
    BY <1>2, AfterFeeds
  <2>3. \A e \in ToSet(feedEvents) : OnTime(e, minute)
    BY DEF FeedsTimed
  <2>4. ASSUME NEW e \in ToSet(feedEvents') PROVE OnTime(e, minute + 1)
    <3>1. CASE e \in ToSet(feedEvents)
      <4>1. \A k \in Nat : k < minute => k < minute + 1
        BY <1>0
      <4>. QED BY <2>3, <3>1, <4>1
    <3>2. CASE e \in Heartbeats
      <4>1. minute \in Nat /\ minute < minute + 1
        BY <1>0
      <4>. QED BY <3>2, <4>1, HeartbeatOf
    <3>3. CASE e.type = "BALANCE_CONFLICT"
      BY <3>3
    <3>. QED BY <2>2, <3>1, <3>2, <3>3
  <2>5. Begun' = Begun
    BY <2>1 DEF Begun
  <2>6. delay.end < Begun' => Recovered(ToSet(feedEvents'))
    BY <2>2, <2>5 DEF FeedsTimed
  <2>. QED BY <2>1, <2>4, <2>6 DEF FeedsTimed
<1>3. CASE \/ Finish \/ ReplayNext \/ ReplayGiven \/ ReplayReset \/ UNCHANGED simulationVars
           \/ \E c \in Candidates, s \in {"SUCCESS", "FAILED"} : CommitTransaction(c, s)
  <2>1. minute' = minute /\ feedEvents' = feedEvents /\ delay' = delay /\ Begun' = Begun
    BY <1>3 DEF Finish, ReplayNext, ReplayGiven, ReplayReset, simulationVars, CommitTransaction,
                day, Begun
  <2>. QED BY <2>1 DEF FeedsTimed
<1>. QED BY <1>1, <1>2, <1>3 DEF SimulationNext

\* While a heartbeat comes after the start of the delay, the recovery came in
\* between.
LEMMA TimedFeedsSilent ==
  ASSUME DayTypes, FeedsTimed
  PROVE  DelayedFeedsSilent
<1>. DEFINE E == ToSet(feedEvents)
<1>. SUFFICES ASSUME NEW x \in Accounts,
                     NEW d \in E, d.account = x, d.type = "FEED_DELAY",
                     NEW h \in E, h.account = x, h.type = "HEARTBEAT", d.at <= h.at
              PROVE  \E r \in E : /\ r.account = x /\ r.type = "FEED_RECOVERED"
                                  /\ d.at < r.at /\ r.at <= h.at
  BY DEF DelayedFeedsSilent
<1>1. d.account = delay.account /\ d.at = delay.start * PerMinute
  BY DEF FeedsTimed
<1>2. PICK m \in Nat : /\ m < minute /\ h.at = m * PerMinute + PerMinute - 1
                       /\ ~(delay.start <= m /\ m < delay.end)
  BY <1>1 DEF FeedsTimed
<1>3. /\ delay.start \in Nat /\ delay.end \in Nat /\ PerMinute \in Nat /\ PerMinute > 0 /\ minute \in Nat
      /\ delay.start < delay.end /\ m * PerMinute \in Nat /\ delay.start * PerMinute \in Nat /\ delay.end * PerMinute \in Nat
  BY SimulationConstants DEF DayTypes
<1>4. delay.start <= m
  <2>1. SUFFICES ASSUME m < delay.start PROVE FALSE
    BY <1>3
  <2>2. m * PerMinute + PerMinute <= delay.start * PerMinute
    BY <1>3, <2>1, MinuteOrder
  <2>. QED BY <1>1, <1>2, <1>3, <2>2
<1>5. delay.end <= m
  BY <1>2, <1>3, <1>4
<1>6. delay.start * PerMinute + PerMinute <= delay.end * PerMinute
  BY <1>3, MinuteOrder
<1>7. delay.end * PerMinute <= m * PerMinute
  <2>1. CASE delay.end = m
    BY <1>3, <2>1
  <2>2. CASE delay.end < m
    <3>1. delay.end * PerMinute + PerMinute <= m * PerMinute
      BY <1>3, <2>2, MinuteOrder
    <3>. QED BY <1>3, <3>1
  <2>. QED BY <1>3, <1>5, <2>1, <2>2
<1>8. delay.end < Begun
  BY <1>2, <1>3, <1>5 DEF Begun
<1>9. PICK r \in E : r.account = delay.account /\ r.type = "FEED_RECOVERED" /\ r.at = delay.end * PerMinute
  BY <1>8 DEF FeedsTimed
<1>10. d.at < r.at /\ r.at <= h.at
  BY <1>1, <1>2, <1>3, <1>6, <1>7, <1>9
<1>. QED BY <1>1, <1>9, <1>10

-----------------------------------------------------------------------------
(* The theorems.                                                           *)

LEMMA SimulationInitInvariant == SimulationInit => SimulationInv
<1>. SUFFICES ASSUME SimulationInit PROVE SimulationInv
  OBVIOUS
<1>1. IInv
  BY OpeningInvariant DEF SimulationInit
<1>2. /\ OpeningCash \in [Agents -> Nat] /\ OpeningEmoney \in [Agents \X ProviderID -> Nat]
  BY LedgerAssumption DEF LedgerAssumption
<1>3. /\ phase \in {"before", "given"} /\ minute = 0 /\ todo = {} /\ simCash = OpeningCash
      /\ simEmoney = OpeningEmoney /\ committed = <<>> /\ feedEvents = <<>>
      /\ delay \in Delays /\ conflict \in Conflicts
      /\ trail = <<[cash |-> OpeningCash, emoney |-> OpeningEmoney]>>
      /\ journal = {} /\ cash = OpeningCash /\ emoney = OpeningEmoney
  BY DEF SimulationInit, Opening
<1>4. Begun = 0 /\ Begun <= Minutes
  BY <1>3, SimulationConstants DEF Begun
<1>. DEFINE b == [cash |-> OpeningCash, emoney |-> OpeningEmoney]
<1>5. b \in Balances /\ Solvent(b)
  BY <1>2 DEF Balances, Solvent
<1>6. /\ trail \in Seq(Balances) /\ Len(trail) = 1 /\ trail[1] = b
      /\ committed \in Seq(Transactions) /\ Len(committed) = 0
      /\ feedEvents \in Seq(FeedEvents) /\ ToSet(feedEvents) = {}
  <2>1. trail = <<b>>
    BY <1>3
  <2>. HIDE DEF b
  <2>2. trail \in Seq(Balances) /\ Len(trail) = 1 /\ trail[1] = b
    BY <1>5, <2>1
  <2>. QED BY <1>3, <2>2 DEF ToSet
<1>7. DayTypes
  <2>1. simCash \in [Agents -> Int] /\ simEmoney \in [Agents \X ProviderID -> Int]
    BY <1>2, <1>3
  <2>. QED BY <1>3, <1>4, <1>6, <2>1 DEF DayTypes
<1>8. Quota
  BY <1>3, <1>4, <1>6, FS_EmptySet, SimulationConstants DEF Quota
<1>9. InOrder
  BY <1>6 DEF InOrder
<1>10. TrailKept
  BY <1>3, <1>5, <1>6 DEF TrailKept
<1>11. PrefixReplayed
  <2>1. IsFiniteSet(journal) /\ Cardinality(journal) = 0
    BY <1>3, FS_EmptySet
  <2>2. Replayed(0)
    BY <1>3, <1>6 DEF Replayed
  <2>. QED BY <1>3, <2>1, <2>2 DEF PrefixReplayed
<1>12. FeedsTimed
  <2>1. ~(delay.end < Begun)
    BY <1>3, <1>4, SimulationConstants
  <2>. QED BY <1>6, <2>1 DEF FeedsTimed
<1>. QED BY <1>1, <1>7, <1>8, <1>9, <1>10, <1>11, <1>12 DEF SimulationInv

\* The ledger only gets events of Transactions, in one of its own steps.
LEMMA LedgerSteps ==
  ASSUME DayTypes, [SimulationNext]_simulationVars
  PROVE  [Next]_ledgerVars
<1>1. ToSet(committed) \subseteq Transactions /\ Given \subseteq Transactions
  BY SimulationAssumption DEF SimulationAssumption, DayTypes, ToSet
<1>2. CASE ReplayNext
  BY <1>1, <1>2 DEF ReplayNext, Next
<1>3. CASE ReplayGiven
  BY <1>1, <1>3 DEF ReplayGiven, Next
<1>4. CASE ReplayReset
  BY <1>4 DEF ReplayReset, Next
<1>5. CASE \/ BeforeMinute \/ AfterMinute \/ Finish \/ UNCHANGED simulationVars
           \/ \E c \in Candidates, s \in {"SUCCESS", "FAILED"} : CommitTransaction(c, s)
  <2>1. UNCHANGED ledgerVars
    BY <1>5 DEF BeforeMinute, AfterMinute, Finish, simulationVars, CommitTransaction
  <2>. QED BY <2>1
<1>. QED BY <1>2, <1>3, <1>4, <1>5 DEF SimulationNext

LEMMA SimulationNextInvariant ==
  SimulationInv /\ [SimulationNext]_simulationVars => SimulationInv'
<1>. SUFFICES ASSUME SimulationInv, [SimulationNext]_simulationVars PROVE SimulationInv'
  OBVIOUS
<1>. USE DEF SimulationInv
<1>1. IInv'
  BY LedgerSteps, NextInvariant
<1>2. DayTypes'
  BY DayTypesKeep
<1>3. Quota'
  BY QuotaKeeps
<1>4. InOrder'
  BY OrderKeeps
<1>5. TrailKept'
  BY TrailKeeps
<1>6. PrefixReplayed'
  BY PrefixKeeps
<1>7. FeedsTimed'
  BY FeedsKeep
<1>. QED BY <1>1, <1>2, <1>3, <1>4, <1>5, <1>6, <1>7

LEMMA SimulationInvariantHolds == SimulationSpec => []SimulationInv
BY SimulationInitInvariant, SimulationNextInvariant, PTL DEF SimulationSpec

\* A replayed day is a run of the balance engine: what holds of every run of the
\* ledger holds of it.
THEOREM ReplayUsesLedger == SimulationSpec => Spec
<1>1. SimulationInit => Opening
  BY DEF SimulationInit
<1>2. SimulationInv /\ [SimulationNext]_simulationVars => [Next]_ledgerVars
  BY LedgerSteps DEF SimulationInv
<1>. QED BY <1>1, <1>2, SimulationInvariantHolds, PTL DEF SimulationSpec, Spec

\* commit_candidates, the sort of the loaded day and BalanceEngine together: the
\* ledger goes through the balances the simulator had, commit by commit.
THEOREM ReplayRepeats == SimulationSpec => []ReplayRepeatsSimulation
<1>1. SimulationInv => ReplayRepeatsSimulation
  BY DEF SimulationInv, PrefixReplayed, Replayed, ReplayRepeatsSimulation
<1>. QED BY <1>1, SimulationInvariantHolds, PTL

\* commit_transaction: neither the generated day nor any point of its replay
\* overdraws a balance.
THEOREM NothingOverdrawn == SimulationSpec => []NoneOverdrawn
<1>1. SimulationInv => NoneOverdrawn
  <2>. SUFFICES ASSUME SimulationInv, phase # "given"
                PROVE  /\ NoNegativeBalance
                       /\ \A a \in Agents : cash[a] >= 0
                       /\ \A x \in Accounts : emoney[x] >= 0
    BY DEF NoneOverdrawn
  <2>1. Accounts \subseteq Agents \X ProviderID
    BY LedgerAssumption DEF LedgerAssumption
  <2>2. Len(trail) = Len(committed) + 1 /\ Len(committed) \in Nat
    BY DEF SimulationInv, DayTypes, TrailKept
  <2>3. Solvent([cash |-> simCash, emoney |-> simEmoney])
    <3>1. Len(trail) \in 1..Len(trail)
      BY <2>2
    <3>. QED BY <3>1 DEF SimulationInv, TrailKept
  <2>4. Solvent([cash |-> cash, emoney |-> emoney])
    <3>. DEFINE n == Cardinality(journal)
    <3>1. IsFiniteSet(journal) /\ Replayed(n)
      BY DEF SimulationInv, PrefixReplayed
    <3>2. n \in Nat /\ n <= Len(committed)
      BY <3>1, FS_CardinalityType DEF Replayed
    <3>3. [cash |-> cash, emoney |-> emoney] = trail[n + 1]
      BY <3>1 DEF Replayed
    <3>. HIDE DEF n
    <3>4. n + 1 \in 1..Len(trail)
      BY <2>2, <3>2
    <3>5. Solvent(trail[n + 1])
      BY <3>4 DEF SimulationInv, TrailKept
    <3>. QED BY <3>3, <3>5
  <2>. QED BY <2>1, <2>3, <2>4 DEF NoNegativeBalance, Solvent
<1>. QED BY <1>1, SimulationInvariantHolds, PTL

\* FeedDelayRecoveryScenario: no heartbeat of the delayed feed before its recovery.
THEOREM DelayedStaySilent == SimulationSpec => []DelayedFeedsSilent
<1>1. SimulationInv => DelayedFeedsSilent
  BY TimedFeedsSilent DEF SimulationInv
<1>. QED BY <1>1, SimulationInvariantHolds, PTL

-----------------------------------------------------------------------------
(* The flows of the liquidity forecast.                                    *)

\* The sum of the amounts of a set of events.
Volume(T) == MapThenSumSet(LAMBDA t : t.amount, T)

\* The fold over the amounts of a finite set of events is a sum.
LEMMA VolumeSum ==
  ASSUME NEW T, IsFiniteSet(T)
  PROVE  \E g : Sums(g, [t \in T |-> t.amount], SUBSET T) /\ Volume(T) = g[T]
<1>. DEFINE f == [t \in T |-> t.amount]
            P(g) == g = [s \in SUBSET T |->
                           IF s = {} THEN 0
                           ELSE (CHOOSE x \in s : TRUE).amount
                                  + g[s \ {CHOOSE x \in s : TRUE}]]
            iter == CHOOSE g : P(g)
<1>1. PICK h : Sums(h, f, SUBSET T)
  BY SumExists
<1>2. \A g : P(g) <=> Sums(g, f, SUBSET T)
  <2>1. \A s \in SUBSET T : s # {} => f[Next1(s)] = Next1(s).amount
    BY NextIsIn
  <2>. HIDE DEF f
  <2>2. ASSUME NEW g
        PROVE  [s \in SUBSET T |->
                  IF s = {} THEN 0
                  ELSE (CHOOSE x \in s : TRUE).amount
                         + g[s \ {CHOOSE x \in s : TRUE}]]
               = [s \in SUBSET T |->
                    IF s = {} THEN 0 ELSE f[Next1(s)] + g[s \ {Next1(s)}]]
    BY <2>1 DEF Next1
  <2>. QED BY <2>2 DEF Sums
<1>3. Volume(T) = iter[T]
  BY DEF Volume, MapThenSumSet, MapThenFoldSet
<1>4. P(iter)
  <2>1. P(h)
    <3>. HIDE DEF P, f
    <3>. QED BY <1>1, <1>2
  <2>. QED BY <2>1, Zenon
<1>. HIDE DEF P, iter
<1>. QED BY <1>2, <1>3, <1>4

LEMMA VolumeAdded ==
  ASSUME NEW T \in SUBSET Transactions, IsFiniteSet(T), NEW x \in Transactions, x \notin T
  PROVE  Volume(T) \in Int /\ Volume(T \cup {x}) = Volume(T) + x.amount
<1>. DEFINE V == T \cup {x}
            f == [t \in T |-> t.amount]
            e == [t \in V |-> t.amount]
<1>1. IsFiniteSet(V)
  BY FS_AddElement
<1>2. PICK g : Sums(g, f, SUBSET T) /\ Volume(T) = g[T]
  BY VolumeSum
<1>3. PICK h : Sums(h, e, SUBSET V) /\ Volume(V) = h[V]
  BY <1>1, VolumeSum
<1>4. Grown(T, x, V) /\ Agree(f, e, T) /\ Numbers(e, V)
  BY EventFields DEF Grown, Agree, Numbers
<1>5. e[x] = x.amount /\ x.amount \in Int
  BY EventFields
<1>. HIDE DEF V, f, e
<1>6. g[T] \in Int /\ h[V] = e[x] + g[T]
  BY <1>2, <1>3, <1>4, SumAdded
<1>. QED BY <1>2, <1>3, <1>5, <1>6 DEF V

LEMMA VolumeType ==
  ASSUME NEW T \in SUBSET Transactions, IsFiniteSet(T)
  PROVE  Volume(T) \in Int
<1>. DEFINE f == [t \in T |-> t.amount]
<1>1. PICK g : Sums(g, f, SUBSET T) /\ Volume(T) = g[T]
  BY VolumeSum
<1>2. Numbers(f, T)
  BY EventFields DEF Numbers
<1>. HIDE DEF f
<1>3. \A s \in SUBSET T : g[s] \in Int
  BY <1>1, <1>2, SumType
<1>. QED BY <1>1, <1>3

LEMMA VolumeOfNone == Volume({}) = 0
<1>. DEFINE f == [t \in {} |-> t.amount]
<1>1. PICK g : Sums(g, f, SUBSET {}) /\ Volume({}) = g[{}]
  BY FS_EmptySet, VolumeSum
<1>. HIDE DEF f
<1>2. {} \in SUBSET {}
  OBVIOUS
<1>. QED BY <1>1, <1>2, SumStep

LEMMA TotalIs ==
  \A R, type : Total(R, type) = Volume({t \in R : t.type = type})
BY DEF Total, Volume

\* The flow of one kind that one more event makes.
Flow(t, type) == IF t.type = type THEN t.amount ELSE 0

LEMMA TotalAdded ==
  ASSUME NEW R \in SUBSET Transactions, IsFiniteSet(R), NEW t \in Transactions, t \notin R,
         NEW type
  PROVE  Total(R, type) \in Int /\ Total(R \cup {t}, type) = Total(R, type) + Flow(t, type)
<1>. DEFINE T == {u \in R : u.type = type}
            V == {u \in R \cup {t} : u.type = type}
<1>1. T \in SUBSET Transactions /\ IsFiniteSet(T) /\ t \notin T
  BY FS_Subset
<1>2. V = IF t.type = type THEN T \cup {t} ELSE T
  OBVIOUS
<1>3. Total(R, type) = Volume(T) /\ Total(R \cup {t}, type) = Volume(V)
  BY TotalIs
<1>. HIDE DEF T, V
<1>4. Volume(T) \in Int /\ Volume(T \cup {t}) = Volume(T) + t.amount
  BY <1>1, VolumeAdded
<1>. QED BY <1>2, <1>3, <1>4 DEF Flow

LEMMA TotalType ==
  ASSUME NEW R \in SUBSET Transactions, IsFiniteSet(R), NEW type
  PROVE  Total(R, type) \in Int
<1>. DEFINE T == {u \in R : u.type = type}
<1>1. T \in SUBSET Transactions /\ IsFiniteSet(T)
  BY FS_Subset
<1>2. Total(R, type) = Volume(T)
  BY TotalIs
<1>. HIDE DEF T
<1>. QED BY <1>1, <1>2, VolumeType

\* What the flows of a set of events become with one event more.
LEMMA DepletionAdded ==
  ASSUME NEW R \in SUBSET Transactions, IsFiniteSet(R), NEW t \in Transactions, t \notin R
  PROVE  /\ CashDepletion(R) \in Int
         /\ CashDepletion(R \cup {t}) = CashDepletion(R) - CashDelta(t)
         /\ \A p : /\ EmoneyDepletion(R, p) \in Int
                   /\ EmoneyDepletion(R \cup {t}, p)
                        = IF p = t.provider THEN EmoneyDepletion(R, p) + CashDelta(t)
                          ELSE EmoneyDepletion(R, p)
<1>1. t.amount \in Int /\ t.type \in {"CASH_IN", "CASH_OUT"}
  BY LedgerAssumption DEF LedgerAssumption, TransactionEvents
<1>2. ASSUME NEW Q \in SUBSET Transactions, IsFiniteSet(Q), t \notin Q
      PROVE  /\ Total(Q, "CASH_IN") \in Int /\ Total(Q, "CASH_OUT") \in Int
             /\ Total(Q \cup {t}, "CASH_IN") = Total(Q, "CASH_IN") + Flow(t, "CASH_IN")
             /\ Total(Q \cup {t}, "CASH_OUT") = Total(Q, "CASH_OUT") + Flow(t, "CASH_OUT")
  BY <1>2, TotalAdded
<1>3. /\ Flow(t, "CASH_IN") \in Int /\ Flow(t, "CASH_OUT") \in Int
      /\ Flow(t, "CASH_IN") - Flow(t, "CASH_OUT") = CashDelta(t)
  BY <1>1 DEF Flow, CashDelta
<1>4. CashDepletion(R) \in Int /\ CashDepletion(R \cup {t}) = CashDepletion(R) - CashDelta(t)
  BY <1>2, <1>3 DEF CashDepletion
<1>5. ASSUME NEW p
      PROVE  /\ EmoneyDepletion(R, p) \in Int
             /\ EmoneyDepletion(R \cup {t}, p)
                  = IF p = t.provider THEN EmoneyDepletion(R, p) + CashDelta(t)
                    ELSE EmoneyDepletion(R, p)
  <2>. DEFINE Q == OfProvider(R, p)
  <2>1. Q \in SUBSET Transactions /\ IsFiniteSet(Q) /\ t \notin Q
    BY FS_Subset DEF OfProvider
  <2>2. OfProvider(R \cup {t}, p) = IF p = t.provider THEN Q \cup {t} ELSE Q
    BY DEF OfProvider
  <2>3. EmoneyDepletion(R, p) = Total(Q, "CASH_IN") - Total(Q, "CASH_OUT")
    BY DEF EmoneyDepletion
  <2>4. EmoneyDepletion(R \cup {t}, p)
          = Total(OfProvider(R \cup {t}, p), "CASH_IN")
              - Total(OfProvider(R \cup {t}, p), "CASH_OUT")
    BY DEF EmoneyDepletion
  <2>. HIDE DEF Q
  <2>5. /\ Total(Q, "CASH_IN") \in Int /\ Total(Q, "CASH_OUT") \in Int
        /\ Total(Q \cup {t}, "CASH_IN") = Total(Q, "CASH_IN") + Flow(t, "CASH_IN")
        /\ Total(Q \cup {t}, "CASH_OUT") = Total(Q, "CASH_OUT") + Flow(t, "CASH_OUT")
    BY <1>2, <2>1
  <2>6. PICK i, o \in Int : i = Total(Q, "CASH_IN") /\ o = Total(Q, "CASH_OUT")
    BY <2>5
  <2>7. EmoneyDepletion(R, p) = i - o
    BY <2>3, <2>6
  <2>8. CASE p = t.provider
    <3>1. EmoneyDepletion(R \cup {t}, p)
            = (i + Flow(t, "CASH_IN")) - (o + Flow(t, "CASH_OUT"))
      BY <2>2, <2>4, <2>5, <2>6, <2>8
    <3>. QED BY <1>3, <2>7, <2>8, <3>1
  <2>9. CASE p # t.provider
    <3>1. EmoneyDepletion(R \cup {t}, p) = i - o
      BY <2>2, <2>4, <2>6, <2>9
    <3>. QED BY <2>7, <2>9, <3>1
  <2>. QED BY <2>8, <2>9
<1>. QED BY <1>4, <1>5

LEMMA DepletionOfNone ==
  CashDepletion({}) = 0 /\ \A p : EmoneyDepletion({}, p) = 0
<1>1. \A type : Total({}, type) = 0
  <2>1. \A type : {t \in {} : t.type = type} = {}
    OBVIOUS
  <2>. QED BY <2>1, TotalIs, VolumeOfNone
<1>2. \A p : OfProvider({}, p) = {}
  BY DEF OfProvider
<1>. QED BY <1>1, <1>2 DEF CashDepletion, EmoneyDepletion

\* The successful events of an agent that the engine has recorded.
Own(a) == {t \in observed : t.agent = a}

LiquidityInv ==
  /\ IInv
  /\ observed \subseteq Transactions /\ IsFiniteSet(observed)
  /\ feeds \in [Accounts -> FeedViews]
  /\ now \in Nat
  /\ \A t \in observed : t.at <= now /\ t.id \in observedIds
  /\ \A a \in Agents :
       /\ CashDepletion(Own(a)) = OpeningCash[a] - cash[a]
       /\ \A p \in ProviderID :
            EmoneyDepletion(Own(a), p) = OpeningEmoney[<<a, p>>] - emoney[<<a, p>>]

LEMMA LiquidityOpens ==
  /\ LiquidityInit => LiquidityInv
  /\ Restart => LiquidityInv'
<1>0. /\ \A a \in Agents : {t \in {} : t.agent = a} = {}
      /\ \A a \in Agents : /\ OpeningCash[a] \in Nat
                           /\ OpeningCash[a] - OpeningCash[a] = 0
                           /\ \A p \in ProviderID :
                                OpeningEmoney[<<a, p>>] - OpeningEmoney[<<a, p>>] = 0
  BY LedgerAssumption DEF LedgerAssumption
<1>1. ASSUME LiquidityInit PROVE LiquidityInv
  <2>1. IInv
    BY <1>1, OpeningInvariant DEF LiquidityInit
  <2>2. cash = OpeningCash /\ emoney = OpeningEmoney
    BY <1>1 DEF LiquidityInit, Opening
  <2>3. observed = {} /\ now = 0 /\ feeds \in [Accounts -> FeedViews] /\ IsFiniteSet(observed)
    BY <1>1, FS_EmptySet DEF LiquidityInit
  <2>. QED BY <1>0, <2>1, <2>2, <2>3, DepletionOfNone DEF LiquidityInv, Own
<1>2. ASSUME Restart PROVE LiquidityInv'
  <2>1. IInv'
    BY <1>2, InitializeInvariant DEF Restart
  <2>2. cash' = OpeningCash /\ emoney' = OpeningEmoney
    BY <1>2 DEF Restart, Initialize
  <2>3. /\ observed' = {} /\ now' = 0 /\ feeds' \in [Accounts -> FeedViews]
        /\ IsFiniteSet(observed')
    BY <1>2, FS_EmptySet DEF Restart
  <2>. QED BY <1>0, <2>1, <2>2, <2>3, DepletionOfNone DEF LiquidityInv, Own
<1>. QED BY <1>1, <1>2

LEMMA ProcessKeeps ==
  ASSUME LiquidityInv, NEW t \in Transactions, Process(t)
  PROVE  LiquidityInv'
<1>1. IInv'
  BY NextInvariant DEF LiquidityInv, Process, Next
<1>2. t \notin observed /\ t.at \in Nat /\ t.agent \in Agents /\ t.provider \in ProviderID
      /\ CashDelta(t) \in Int
  BY EventFields DEF LiquidityInv, Process, RecordTransaction
<1>3. /\ observed' \subseteq Transactions /\ IsFiniteSet(observed')
      /\ feeds' \in [Accounts -> FeedViews] /\ now' \in Nat
      /\ \A u \in observed' : u.at <= now' /\ u.id \in observedIds'
  <2>1. observed' \subseteq observed \cup {t}
    BY DEF Process, RecordTransaction
  <2>2. IsFiniteSet(observed \cup {t})
    BY FS_AddElement DEF LiquidityInv
  <2>3. observed' \subseteq Transactions /\ IsFiniteSet(observed')
    BY <2>1, <2>2, FS_Subset DEF LiquidityInv
  <2>4. feeds' \in [Accounts -> FeedViews] /\ now' \in Nat /\ now <= now' /\ now \in Nat
    BY <1>2 DEF Process, LiquidityInv
  <2>5. ASSUME NEW u \in observed' PROVE u.at <= now' /\ u.id \in observedIds'
    <3>1. CASE u = t
      BY <1>2, <3>1 DEF Process, RecordTransaction
    <3>2. CASE u \in observed
      <4>1. u.at \in Nat /\ u.at <= now /\ u.id \in observedIds
        BY <2>3, EventFields, <3>2 DEF LiquidityInv
      <4>. QED BY <2>4, <4>1 DEF Process, RecordTransaction
    <3>. QED BY <2>1, <3>1, <3>2
  <2>. QED BY <2>3, <2>4, <2>5
<1>4. ASSUME NEW a \in Agents
      PROVE  /\ CashDepletion(Own(a))' = OpeningCash[a] - cash'[a]
             /\ \A p \in ProviderID :
                  EmoneyDepletion(Own(a), p)' = OpeningEmoney[<<a, p>>] - emoney'[<<a, p>>]
  <2>0. PICK R : R = Own(a)
    OBVIOUS
  <2>1. /\ R \in SUBSET Transactions /\ IsFiniteSet(R) /\ t \notin R
        /\ R = {u \in observed : u.agent = a}
    BY <1>2, <2>0, FS_Subset DEF LiquidityInv, Own
  <2>2. /\ CashDepletion(R) = OpeningCash[a] - cash[a]
        /\ \A p \in ProviderID :
             EmoneyDepletion(R, p) = OpeningEmoney[<<a, p>>] - emoney[<<a, p>>]
    BY <2>0 DEF LiquidityInv
  <2>3. /\ cash \in [Agents -> Int] /\ emoney \in [Agents \X ProviderID -> Int]
        /\ OpeningCash[a] \in Int /\ cash[a] \in Int
        /\ \A p \in ProviderID : OpeningEmoney[<<a, p>>] \in Int /\ emoney[<<a, p>>] \in Int
    BY LedgerAssumption DEF LiquidityInv, IInv, TypeOK, LedgerAssumption
  <2>4. /\ CashDepletion(Own(a))' = CashDepletion(Own(a)')
        /\ \A p \in ProviderID : EmoneyDepletion(Own(a), p)' = EmoneyDepletion(Own(a)', p)
    OBVIOUS
  <2>5. CASE IgnoreFailed(t) \/ (ApplySuccessful(t) /\ t.agent # a)
    <3>1. Own(a)' = R
      BY <2>1, <2>5 DEF Process, RecordTransaction, IgnoreFailed, ApplySuccessful, Own
    <3>2. cash'[a] = cash[a] /\ \A p \in ProviderID : emoney'[<<a, p>>] = emoney[<<a, p>>]
      BY <1>2, <2>3, <2>5 DEF IgnoreFailed, ApplySuccessful
    <3>. QED BY <2>2, <2>4, <3>1, <3>2
  <2>6. CASE ApplySuccessful(t) /\ t.agent = a
    <3>1. Own(a)' = R \cup {t}
      BY <2>1, <2>6 DEF Process, RecordTransaction, ApplySuccessful, Own
    <3>2. /\ cash'[a] = cash[a] + CashDelta(t)
          /\ \A p \in ProviderID :
               emoney'[<<a, p>>] = IF p = t.provider THEN emoney[<<a, p>>] - CashDelta(t)
                                   ELSE emoney[<<a, p>>]
      BY <1>2, <2>3, <2>6 DEF ApplySuccessful
    <3>3. /\ CashDepletion(R) \in Int
          /\ CashDepletion(R \cup {t}) = CashDepletion(R) - CashDelta(t)
          /\ \A p : /\ EmoneyDepletion(R, p) \in Int
                    /\ EmoneyDepletion(R \cup {t}, p)
                         = IF p = t.provider THEN EmoneyDepletion(R, p) + CashDelta(t)
                           ELSE EmoneyDepletion(R, p)
      BY <2>1, DepletionAdded
    <3>4. CashDepletion(R \cup {t}) = OpeningCash[a] - cash'[a]
      BY <1>2, <2>2, <2>3, <3>2, <3>3
    <3>5. ASSUME NEW p \in ProviderID
          PROVE  EmoneyDepletion(R \cup {t}, p) = OpeningEmoney[<<a, p>>] - emoney'[<<a, p>>]
      <4>1. /\ EmoneyDepletion(R, p) = OpeningEmoney[<<a, p>>] - emoney[<<a, p>>]
            /\ OpeningEmoney[<<a, p>>] \in Int /\ emoney[<<a, p>>] \in Int
        BY <2>2, <2>3
      <4>2. CASE p = t.provider
        <5>1. /\ EmoneyDepletion(R \cup {t}, p) = EmoneyDepletion(R, p) + CashDelta(t)
              /\ emoney'[<<a, p>>] = emoney[<<a, p>>] - CashDelta(t)
          BY <3>2, <3>3, <4>2
        <5>. QED BY <1>2, <4>1, <5>1
      <4>3. CASE p # t.provider
        BY <3>2, <3>3, <4>1, <4>3
      <4>. QED BY <4>2, <4>3
    <3>. QED BY <2>4, <3>1, <3>4, <3>5
  <2>. QED BY <2>5, <2>6 DEF Process, ApplyTransaction
<1>. QED BY <1>1, <1>3, <1>4 DEF LiquidityInv

LEMMA LiquidityKept == LiquidityInv /\ [LiquidityNext]_liquidityVars => LiquidityInv'
<1>. SUFFICES ASSUME LiquidityInv, [LiquidityNext]_liquidityVars PROVE LiquidityInv'
  OBVIOUS
<1>1. ASSUME NEW t \in Transactions, Process(t) PROVE LiquidityInv'
  BY <1>1, ProcessKeeps
<1>2. CASE Restart
  BY <1>2, LiquidityOpens
<1>3. ASSUME UNCHANGED <<ledgerVars, observed, observedIds>>,
             feeds' \in [Accounts -> FeedViews], now' \in Nat, now <= now'
      PROVE  LiquidityInv'
  <2>1. IInv'
    BY <1>3, NextInvariant DEF LiquidityInv
  <2>2. \A t \in observed : t.at \in Nat /\ t.at <= now /\ now \in Nat
    BY EventFields DEF LiquidityInv
  <2>3. \A t \in observed : t.at <= now'
    BY <1>3, <2>2
  <2>4. /\ observed' = observed /\ observedIds' = observedIds
        /\ cash' = cash /\ emoney' = emoney
    BY <1>3 DEF ledgerVars
  <2>5. \A a \in Agents : Own(a)' = Own(a)
    BY <2>4 DEF Own
  <2>6. ASSUME NEW a \in Agents
        PROVE  /\ CashDepletion(Own(a))' = CashDepletion(Own(a))
               /\ \A p \in ProviderID :
                    EmoneyDepletion(Own(a), p)' = EmoneyDepletion(Own(a), p)
    BY <2>5
  <2>. QED BY <1>3, <2>1, <2>3, <2>4, <2>6 DEF LiquidityInv
<1>4. ASSUME NEW x \in Accounts, NEW v \in FeedViews, FeedChanges(x, v)
      PROVE  LiquidityInv'
  <2>1. feeds' \in [Accounts -> FeedViews] /\ now' \in Nat /\ now <= now'
    BY <1>4 DEF LiquidityInv, FeedChanges
  <2>. QED BY <1>3, <1>4, <2>1 DEF FeedChanges
<1>5. CASE PassTime
  <2>1. feeds' \in [Accounts -> FeedViews] /\ now' \in Nat /\ now <= now'
    BY <1>5 DEF LiquidityInv, PassTime
  <2>. QED BY <1>3, <1>5, <2>1 DEF PassTime
<1>6. CASE UNCHANGED liquidityVars
  <2>1. feeds' \in [Accounts -> FeedViews] /\ now' \in Nat /\ now <= now'
    BY <1>6 DEF LiquidityInv, liquidityVars
  <2>. QED BY <1>3, <1>6, <2>1 DEF liquidityVars
<1>. QED BY <1>1, <1>2, <1>4, <1>5, <1>6 DEF LiquidityNext

LEMMA LiquidityInvHolds == LiquiditySpec => []LiquidityInv
BY LiquidityOpens, LiquidityKept, PTL DEF LiquiditySpec

\* _recent_transactions and the net flows: as long as the lookback window reaches
\* back to the opening, what the window has seen leave a resource is what the ledger
\* has taken from it, for every set of events.
THEOREM FlowsMatchBalances == LiquiditySpec => []NetMatchesLedger
<1>1. ASSUME LiquidityInv, now <= LookbackMinutes, NEW a \in Agents
      PROVE  Recent(observed, a, now) = Own(a)
  <2>1. LookbackMinutes \in Nat /\ now \in Nat
    BY <1>1, ForecastAssumption DEF ForecastAssumption, LiquidityInv
  <2>2. \A t \in observed : t.at \in Nat /\ t.at <= now
    BY <1>1, EventFields DEF LiquidityInv
  <2>3. \A t \in observed : t.at \in now - LookbackMinutes .. now
    BY <1>1, <2>1, <2>2
  <2>. QED BY <2>3 DEF Recent, Own
<1>2. LiquidityInv => NetMatchesLedger
  <2>. SUFFICES ASSUME LiquidityInv, now <= LookbackMinutes, NEW a \in Agents
                PROVE  LET R == Recent(observed, a, now)
                       IN  /\ CashDepletion(R) = OpeningCash[a] - cash[a]
                           /\ \A p \in ProvidersOf(a) :
                                EmoneyDepletion(R, p)
                                  = OpeningEmoney[<<a, p>>] - emoney[<<a, p>>]
    BY DEF NetMatchesLedger
  <2>1. Recent(observed, a, now) = Own(a)
    BY <1>1
  <2>. QED BY <2>1 DEF LiquidityInv, ProvidersOf
<1>. QED BY <1>2, LiquidityInvHolds, PTL

-----------------------------------------------------------------------------
(* What a forecast looks like.                                             *)

LEMMA NearestType ==
  ASSUME NEW n \in Nat, NEW d \in Nat, d > 0
  PROVE  Nearest(n, d) \in Nat
<1>1. 2 * n + d \in Nat /\ 2 * d \in Nat /\ 2 * d > 0
  OBVIOUS
<1>2. ASSUME NEW a \in Nat, NEW b \in Nat, b > 0 PROVE a \div b \in Nat
  BY <1>2
<1>. QED BY <1>1, <1>2 DEF Nearest

\* What _build_forecast may come to.
LEMMA ForecastCases ==
  ASSUME NEW x
  PROVE  \/ \E c : BuildForecast(x) = Gives("INSUFFICIENT_DATA", NoEta, c, FALSE)
         \/ \E c : BuildForecast(x) = Gives("DEPLETED", 0, c, x.healthy)
         \/ \E c : BuildForecast(x) = Gives("CRITICAL", 0, c, x.healthy)
         \/ \E c : BuildForecast(x) = Gives("SAFE", NoEta, c, x.healthy)
         \/ ~ (Margin(x) <= 0) /\ ~ (x.net <= 0) /\ BuildForecast(x) = Timed(x)
BY Zenon DEF BuildForecast

LEMMA TimedIs ==
  ASSUME NEW x
  PROVE  \E s \in {"CRITICAL", "WATCH", "SAFE"} : \E c :
           Timed(x) = Gives(s, Nearest(Margin(x) * x.observed, x.net), c, x.healthy)
BY DEF Timed

LEMMA GivesFields ==
  ASSUME NEW s, NEW e, NEW c, NEW b
  PROVE  /\ Gives(s, e, c, b).status = s /\ Gives(s, e, c, b).eta = e
         /\ Gives(s, e, c, b).strong = b
BY DEF Gives

\* _build_forecast: its status and its time are what they should be.
LEMMA ForecastBuilt ==
  ASSUME NEW x, x.balance \in Int, x.opening \in Nat, x.net \in Int, x.observed \in Nat
  PROVE  BuildForecast(x).status \in LiquidityStatuses /\ BuildForecast(x).eta \in Nat \cup {NoEta}
<1>1. ASSUME ~ (Margin(x) <= 0), ~ (x.net <= 0)
      PROVE  Timed(x).status \in LiquidityStatuses /\ Timed(x).eta \in Nat
  <2>1. Margin(x) \in Int
    BY ForecastAssumption DEF Margin, ForecastAssumption
  <2>2. PICK m \in Nat : m = Margin(x)
    BY <1>1, <2>1
  <2>3. m * x.observed \in Nat
    <3>1. \A k, l \in Nat : k * l \in Nat
      OBVIOUS
    <3>. QED BY <3>1
  <2>4. Nearest(m * x.observed, x.net) \in Nat
    BY <1>1, <2>3, NearestType
  <2>5. PICK s \in {"CRITICAL", "WATCH", "SAFE"} :
          \E c : Timed(x) = Gives(s, Nearest(Margin(x) * x.observed, x.net), c, x.healthy)
    BY TimedIs
  <2>6. PICK c : Timed(x) = Gives(s, Nearest(Margin(x) * x.observed, x.net), c, x.healthy)
    BY <2>5
  <2>7. Timed(x).status = s /\ Timed(x).eta = Nearest(m * x.observed, x.net)
    BY <2>2, <2>6, GivesFields
  <2>. QED BY <2>4, <2>5, <2>7 DEF LiquidityStatuses
<1>2. ASSUME NEW s \in LiquidityStatuses, NEW e \in Nat \cup {NoEta}, NEW c, NEW b,
             BuildForecast(x) = Gives(s, e, c, b)
      PROVE  BuildForecast(x).status \in LiquidityStatuses
             /\ BuildForecast(x).eta \in Nat \cup {NoEta}
  BY <1>2, GivesFields
<1>3. /\ {"SAFE", "WATCH", "CRITICAL", "DEPLETED", "INSUFFICIENT_DATA"} = LiquidityStatuses
      /\ 0 \in Nat
  BY DEF LiquidityStatuses
<1>. QED BY <1>1, <1>2, <1>3, ForecastCases

\* What is strong rests on healthy feeds and is not INSUFFICIENT_DATA.
LEMMA StrongFlag ==
  ASSUME NEW x
  PROVE  \/ BuildForecast(x).strong = FALSE
         \/ /\ BuildForecast(x).strong = x.healthy
            /\ BuildForecast(x).status \in {"DEPLETED", "CRITICAL", "SAFE", "WATCH"}
<1>1. ASSUME NEW s, NEW e, NEW c, NEW b, BuildForecast(x) = Gives(s, e, c, b)
      PROVE  BuildForecast(x).strong = b /\ BuildForecast(x).status = s
  BY <1>1, GivesFields
<1>2. ASSUME NEW c, BuildForecast(x) = Gives("INSUFFICIENT_DATA", NoEta, c, FALSE)
      PROVE  BuildForecast(x).strong = FALSE
  BY <1>1, <1>2
<1>3. ASSUME NEW s \in {"DEPLETED", "CRITICAL", "SAFE", "WATCH"}, NEW e, NEW c,
             BuildForecast(x) = Gives(s, e, c, x.healthy)
      PROVE  /\ BuildForecast(x).strong = x.healthy
             /\ BuildForecast(x).status \in {"DEPLETED", "CRITICAL", "SAFE", "WATCH"}
  BY <1>1, <1>3
<1>4. ASSUME BuildForecast(x) = Timed(x)
      PROVE  \E s \in {"DEPLETED", "CRITICAL", "SAFE", "WATCH"} : \E e, c :
               BuildForecast(x) = Gives(s, e, c, x.healthy)
  BY <1>4, TimedIs
<1>. QED BY <1>2, <1>3, <1>4, ForecastCases

LEMMA StrongIsHealthy ==
  ASSUME NEW x, BuildForecast(x).strong
  PROVE  x.healthy /\ BuildForecast(x).status # "INSUFFICIENT_DATA"
<1>1. BuildForecast(x).strong # FALSE
  BY Zenon
<1>2. /\ BuildForecast(x).strong = x.healthy
      /\ BuildForecast(x).status \in {"DEPLETED", "CRITICAL", "SAFE", "WATCH"}
  BY <1>1, StrongFlag, Zenon
<1>3. x.healthy
  BY <1>2, Zenon
<1>. QED BY <1>2, <1>3

LEMMA AgentForecastIs ==
  ASSUME NEW a
  PROVE  LET F == AgentForecast(a, feeds)
         IN  /\ DOMAIN F = {"CASH"} \cup ProvidersOf(a) /\ "CASH" \notin ProvidersOf(a)
             /\ F["CASH"] = CashForecast(a, feeds)
             /\ \A p \in ProvidersOf(a) : F[p] = ProviderForecast(a, p, feeds)
BY DEF AgentForecast, ProvidersOf, ProviderID

\* get_shared_cash_forecast and get_provider_forecast: a forecast that may carry a
\* strong recommendation rests on healthy feeds, all of them for the shared cash,
\* and never has the status INSUFFICIENT_DATA, whatever the feeds and the flows are.
THEOREM StrongIsEarned == LiquiditySpec => []StrongNeedsHealthyFeeds
<1>1. ASSUME NEW a \in Agents, NEW r \in DOMAIN AgentForecast(a, feeds),
             AgentForecast(a, feeds)[r].strong
      PROVE  /\ AgentForecast(a, feeds)[r].status # "INSUFFICIENT_DATA"
             /\ \A p \in ProvidersOf(a) :
                  r \in {"CASH", p} => feeds[<<a, p>>].status = "HEALTHY"
  <2>1. CASE r = "CASH"
    <3>1. AgentForecast(a, feeds)[r] = CashForecast(a, feeds)
      BY <2>1, AgentForecastIs
    <3>2. PICK x : CashForecast(a, feeds) = BuildForecast(x) /\ x.healthy = AllHealthy(a, feeds)
      BY DEF CashForecast
    <3>3. AllHealthy(a, feeds) /\ AgentForecast(a, feeds)[r].status # "INSUFFICIENT_DATA"
      BY <1>1, <3>1, <3>2, StrongIsHealthy
    <3>. QED BY <3>3 DEF AllHealthy
  <2>2. CASE r # "CASH"
    <3>1. r \in ProvidersOf(a) /\ AgentForecast(a, feeds)[r] = ProviderForecast(a, r, feeds)
      BY <2>2, AgentForecastIs
    <3>2. PICK x : /\ ProviderForecast(a, r, feeds) = BuildForecast(x)
                   /\ x.healthy = (feeds[<<a, r>>].status = "HEALTHY")
      BY DEF ProviderForecast
    <3>3. /\ feeds[<<a, r>>].status = "HEALTHY"
          /\ AgentForecast(a, feeds)[r].status # "INSUFFICIENT_DATA"
      <4>1. AgentForecast(a, feeds)[r] = BuildForecast(x)
        BY <3>1, <3>2
      <4>2. BuildForecast(x).strong
        BY <1>1, <4>1, Zenon
      <4>3. x.healthy /\ BuildForecast(x).status # "INSUFFICIENT_DATA"
        BY <4>2, StrongIsHealthy, Zenon
      <4>4. feeds[<<a, r>>].status = "HEALTHY"
        BY <3>2, <4>3, Zenon
      <4>. QED BY <4>1, <4>3, <4>4
    <3>. QED BY <2>2, <3>3
  <2>. QED BY <2>1, <2>2
<1>2. StrongNeedsHealthyFeeds
  BY <1>1 DEF StrongNeedsHealthyFeeds
<1>. QED BY <1>2, PTL

\* The minutes observed are a number of minutes.
LEMMA ObservedMinutes ==
  ASSUME LiquidityInv, NEW R \in SUBSET observed
  PROVE  ObservationMinutes(R, now) \in Nat
<1>1. CASE R = {}
  BY <1>1 DEF ObservationMinutes
<1>2. CASE R # {}
  <2>. DEFINE times == {t.at : t \in R}
              f == [t \in R |-> t.at]
  <2>1. \A t \in R : t.at \in Nat
    BY EventFields DEF LiquidityInv
  <2>2. IsFiniteSet(R)
    BY FS_Subset DEF LiquidityInv
  <2>3. IsFiniteSet(times)
    <3>1. f \in Surjection(R, times)
      BY DEF Surjection
    <3>. QED BY <2>2, <3>1, FS_Surjection
  <2>4. times \in SUBSET Int /\ times # {}
    BY <1>2, <2>1
  <2>. HIDE DEF times
  <2>5. PICK m : m = Min(times) /\ m \in Int
    BY <2>3, <2>4, FiniteMax
  <2>6. now - m \in Int /\ LookbackMinutes \in Int
    BY <2>5, ForecastAssumption DEF ForecastAssumption, LiquidityInv
  <2>7. PICK k \in Int : k = Min({LookbackMinutes, now - m})
    <3>1. CASE LookbackMinutes <= now - m
      BY <2>6, <3>1, MinIs
    <3>2. CASE now - m <= LookbackMinutes
      BY <2>6, <3>2, MinIs
    <3>. QED BY <2>6, <3>1, <3>2
  <2>8. Max({1, k}) \in Nat
    <3>1. CASE k <= 1
      BY <3>1, MaxIs
    <3>2. CASE 1 <= k
      BY <3>2, MaxIs
    <3>. QED BY <3>1, <3>2
  <2>. QED BY <1>2, <2>5, <2>7, <2>8 DEF ObservationMinutes, times
<1>. QED BY <1>1, <1>2

Timing(f) == f.status \in LiquidityStatuses /\ f.eta \in Nat \cup {NoEta}

LEMMA ForecastsTyped ==
  ASSUME LiquidityInv, NEW a \in Agents
  PROVE  LET F == AgentForecast(a, feeds) IN \A r \in DOMAIN F : Timing(F[r])
<1>. DEFINE R == Recent(observed, a, now)
<1>1. R \in SUBSET observed /\ R \in SUBSET Transactions /\ IsFiniteSet(R)
  BY FS_Subset DEF LiquidityInv, Recent
<1>2. \A p : /\ OfProvider(R, p) \in SUBSET observed
             /\ OfProvider(R, p) \in SUBSET Transactions /\ IsFiniteSet(OfProvider(R, p))
  BY <1>1, FS_Subset DEF OfProvider
<1>3. /\ cash[a] \in Int /\ OpeningCash[a] \in Nat
      /\ \A p \in ProviderID : emoney[<<a, p>>] \in Int /\ OpeningEmoney[<<a, p>>] \in Nat
  BY LedgerAssumption DEF LiquidityInv, IInv, TypeOK, LedgerAssumption
<1>. HIDE DEF R
<1>4. Timing(CashForecast(a, feeds))
  <2>1. CashDepletion(R) \in Int /\ ObservationMinutes(R, now) \in Nat
    <3>1. Total(R, "CASH_IN") \in Int /\ Total(R, "CASH_OUT") \in Int
      BY <1>1, TotalType
    <3>. QED BY <1>1, <3>1, ObservedMinutes DEF CashDepletion
  <2>2. PICK x : /\ CashForecast(a, feeds) = BuildForecast(x)
                 /\ x.balance = cash[a] /\ x.opening = OpeningCash[a]
                 /\ x.net = CashDepletion(R) /\ x.observed = ObservationMinutes(R, now)
    BY DEF CashForecast, R
  <2>. QED BY <1>3, <2>1, <2>2, ForecastBuilt DEF Timing
<1>5. ASSUME NEW p \in ProvidersOf(a) PROVE Timing(ProviderForecast(a, p, feeds))
  <2>. DEFINE Q == OfProvider(R, p)
  <2>0. p \in ProviderID
    BY DEF ProvidersOf
  <2>1. EmoneyDepletion(Q, p) \in Int /\ ObservationMinutes(Q, now) \in Nat
    <3>1. /\ OfProvider(Q, p) \in SUBSET Transactions /\ IsFiniteSet(OfProvider(Q, p))
          /\ Q \in SUBSET observed
      BY <1>2, FS_Subset DEF OfProvider
    <3>. HIDE DEF Q
    <3>2. Total(OfProvider(Q, p), "CASH_IN") \in Int /\ Total(OfProvider(Q, p), "CASH_OUT") \in Int
      BY <3>1, TotalType
    <3>. QED BY <3>1, <3>2, ObservedMinutes DEF EmoneyDepletion
  <2>2. \E x : /\ ProviderForecast(a, p, feeds) = BuildForecast(x)
               /\ x.balance = emoney[<<a, p>>] /\ x.opening = OpeningEmoney[<<a, p>>]
               /\ x.net \in Int /\ x.observed \in Nat
    BY <2>1 DEF ProviderForecast, R
  <2>3. PICK x : /\ ProviderForecast(a, p, feeds) = BuildForecast(x)
                 /\ x.balance = emoney[<<a, p>>] /\ x.opening = OpeningEmoney[<<a, p>>]
                 /\ x.net \in Int /\ x.observed \in Nat
    BY <2>2
  <2>. QED BY <1>3, <2>0, <2>3, ForecastBuilt DEF Timing
<1>. QED BY <1>4, <1>5, AgentForecastIs

\* r is kept by max() when it meets q.
Beats(F, r, q) ==
  ~MoreUrgent(F[q], F[r]) /\ (MoreUrgent(F[r], F[q]) \/ Place[r] < Place[q])

\* A nonempty set of forecasts has a most urgent one.
LEMMA MostUrgentIs ==
  ASSUME NEW F, DOMAIN F \subseteq {"CASH", "BKASH", "NAGAD", "ROCKET"}, DOMAIN F # {},
         \A r \in DOMAIN F : Timing(F[r])
  PROVE  /\ MostUrgent(F) \in DOMAIN F
         /\ \A q \in DOMAIN F \ {MostUrgent(F)} : Beats(F, MostUrgent(F), q)
<1>. DEFINE D == DOMAIN F
            R == {rq \in D \X D : Beats(F, rq[1], rq[2])}
<1>1. \A r, q \in D : <<r, q>> \in R <=> Beats(F, r, q)
  OBVIOUS
<1>2. \A r \in D : /\ F[r].eta \in Nat \cup {NoEta} /\ Severity[F[r].status] \in Nat
                   /\ Place[r] \in Nat /\ \A q \in D : q # r => Place[q] # Place[r]
  <2>1. \A s \in LiquidityStatuses : Severity[s] \in Nat
    BY DEF LiquidityStatuses, Severity
  <2>2. \A r, q \in {"CASH", "BKASH", "NAGAD", "ROCKET"} :
          Place[r] \in Nat /\ (q # r => Place[q] # Place[r])
    BY DEF Place
  <2>. QED BY <2>1, <2>2 DEF Timing
<1>3. IsFiniteSet(D)
  <2>1. IsFiniteSet({"CASH"})
    BY FS_Singleton
  <2>2. IsFiniteSet({"CASH"} \cup {"BKASH"})
    BY <2>1, FS_AddElement
  <2>3. IsFiniteSet(({"CASH"} \cup {"BKASH"}) \cup {"NAGAD"})
    BY <2>2, FS_AddElement
  <2>4. IsFiniteSet((({"CASH"} \cup {"BKASH"}) \cup {"NAGAD"}) \cup {"ROCKET"})
    BY <2>3, FS_AddElement
  <2>5. D \subseteq (({"CASH"} \cup {"BKASH"}) \cup {"NAGAD"}) \cup {"ROCKET"}
    OBVIOUS
  <2>. QED BY <2>4, <2>5, FS_Subset
<1>. HIDE DEF D, R
<1>4. \A r, q \in D : r # q => Beats(F, r, q) \/ Beats(F, q, r)
  <2>. SUFFICES ASSUME NEW r \in D, NEW q \in D, r # q PROVE Beats(F, r, q) \/ Beats(F, q, r)
    OBVIOUS
  <2>. QED BY <1>2, ForecastAssumption DEF Beats, MoreUrgent, SoonerThan, ForecastAssumption
<1>5. \A r, q, s \in D : Beats(F, r, q) /\ Beats(F, q, s) => Beats(F, r, s)
  <2>. SUFFICES ASSUME NEW r \in D, NEW q \in D, NEW s \in D, Beats(F, r, q), Beats(F, q, s)
                PROVE  Beats(F, r, s)
    OBVIOUS
  <2>. QED BY <1>2, ForecastAssumption DEF Beats, MoreUrgent, SoonerThan, ForecastAssumption
<1>6. \E r \in D : \A q \in D \ {r} : <<r, q>> \in R
  <2>1. D # {}
    BY DEF D
  <2>2. \A r, q \in D : r # q => <<r, q>> \in R \/ <<q, r>> \in R
    BY <1>1, <1>4
  <2>3. \A r, q, s \in D : <<r, q>> \in R /\ <<q, s>> \in R => <<r, s>> \in R
    BY <1>1, <1>5
  <2>. QED BY <1>3, <2>1, <2>2, <2>3, GreatestOf
<1>7. \E r \in DOMAIN F : \A q \in DOMAIN F \ {r} : Beats(F, r, q)
  BY <1>1, <1>6 DEF D
<1>8. MostUrgent(F) = CHOOSE r \in DOMAIN F : \A q \in DOMAIN F \ {r} : Beats(F, r, q)
  BY DEF MostUrgent, FirstMaximal, Beats
<1>. QED BY <1>7, <1>8

\* get_agent_forecast: a provider's shortage behind healthy shared cash is what the
\* forecast shows, and no risky resource hides behind one that is not, for every set
\* of events, feeds and providers.
THEOREM ShortageShows == LiquiditySpec => []HiddenShortageShown
<1>1. ASSUME LiquidityInv, NEW a \in Agents
      PROVE  LET F == AgentForecast(a, feeds)
             IN  /\ HiddenProviderShortage(F) =>
                      MostUrgent(F) # "CASH" /\ OverallStatus(F) \in Risky
                 /\ \A r \in DOMAIN F : F[r].status \in Risky => OverallStatus(F) \in Risky
  <2>0. PICK F : F = AgentForecast(a, feeds)
    OBVIOUS
  <2>1. /\ DOMAIN F \subseteq {"CASH", "BKASH", "NAGAD", "ROCKET"} /\ "CASH" \in DOMAIN F
        /\ \A r \in DOMAIN F : Timing(F[r])
    <3>1. DOMAIN F = {"CASH"} \cup ProvidersOf(a)
      BY <2>0, AgentForecastIs
    <3>2. ProvidersOf(a) \subseteq {"BKASH", "NAGAD", "ROCKET"}
      BY DEF ProvidersOf, ProviderID
    <3>. QED BY <1>1, <2>0, <3>1, <3>2, ForecastsTyped
  <2>. DEFINE m == MostUrgent(F)
  <2>2. m \in DOMAIN F /\ \A q \in DOMAIN F \ {m} : Beats(F, m, q)
    BY <2>1, MostUrgentIs
  <2>. HIDE DEF m
  <2>3. \A r \in DOMAIN F : F[r].status \in LiquidityStatuses
    BY <2>1 DEF Timing
  <2>4. /\ \A s \in Risky : Severity[s] \in Nat /\ Severity[s] >= 3
        /\ \A s \in LiquidityStatuses \ Risky : Severity[s] \in Nat /\ Severity[s] < 3
    BY DEF LiquidityStatuses, Risky, Severity
  <2>5. ASSUME NEW r \in DOMAIN F, F[r].status \in Risky PROVE F[m].status \in Risky
    <3>1. CASE r = m
      BY <2>5, <3>1
    <3>2. CASE r # m
      <4>1. ~ (Severity[F[r].status] > Severity[F[m].status])
        BY <2>2, <3>2 DEF Beats, MoreUrgent
      <4>. QED BY <2>2, <2>3, <2>4, <2>5, <4>1
    <3>. QED BY <3>1, <3>2
  <2>6. ASSUME HiddenProviderShortage(F) PROVE m # "CASH" /\ F[m].status \in Risky
    <3>1. F["CASH"].status = "SAFE" /\ \E p \in DOMAIN F : F[p].status \in Risky
      BY <2>6 DEF HiddenProviderShortage
    <3>2. "SAFE" \notin Risky
      BY DEF Risky
    <3>. QED BY <2>5, <3>1, <3>2
  <2>. QED BY <2>0, <2>5, <2>6 DEF m, OverallStatus
<1>2. LiquidityInv => HiddenShortageShown
  BY <1>1 DEF HiddenShortageShown
<1>. QED BY <1>2, LiquidityInvHolds, PTL
=============================================================================

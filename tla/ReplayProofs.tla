------------------------------ MODULE ReplayProofs ------------------------------
(***************************************************************************)
(* Theorems about Replay, for every stream, every set of events without an *)
(* account and every limit.                                                *)
(*                                                                         *)
(* The invariants are about the moments without a call, or about those of  *)
(* batches; IInv says for every place of a call how far each engine is, and *)
(* what is already forgotten.  Progress says how far a batch is from where *)
(* it began, which makes the end of a call a step of ReplayView.           *)
(***************************************************************************)
EXTENDS Replay, FiniteSetTheorems, WellFoundedInduction, TLAPS

\* s holds the events of a kind among the first n, each once and in stream order.
Recorded(s, kind, n) ==
  /\ s \in Seq(DOMAIN Events)
  /\ \A k, m \in DOMAIN s : k < m => s[k] < s[m]
  /\ {s[k] : k \in DOMAIN s} = OfKind(kind, 1..n)
  /\ Len(s) = Cardinality(OfKind(kind, 1..n))

\* Where the call is.
CallOK ==
  /\ call = Idle => pc = Nothing
  /\ call.op \in {"step", "advance"} => pc \in BatchPlaces
  /\ call.op = "reset" => pc \in ResetPlaces
  /\ pc \in {"liquidity", "anomaly"} => More /\ Event.kind = "TRANSACTION"
  /\ pc = "feed" => More /\ Event.kind = "FEED_EVENT"

\* How far each engine is.
LogOK ==
  call.op # "reset" =>
    LET ahead == Append(log["anomaly"], index + 1)
    IN  /\ Recorded(log["anomaly"], "TRANSACTION", index)
        /\ Recorded(log["feed"], "FEED_EVENT", index)
        /\ log["ledger"] = IF pc \in {"liquidity", "anomaly"} THEN ahead
                                                              ELSE log["anomaly"]
        /\ log["liquidity"] = IF pc = "anomaly" THEN ahead ELSE log["anomaly"]

TrustedOK ==
  call.op # "reset" =>
    /\ Len(trusted) = Len(log["feed"])
    /\ \A k \in DOMAIN trusted :
         trusted[k] = Cardinality(OfKind("TRANSACTION", 1..log["feed"][k]))

\* What a reset has forgotten.
ResetOK ==
  /\ pc \in ResetPlaces \ {"initialize ledger"} => log["ledger"] = <<>>
  /\ pc \in ResetPlaces \ {"initialize ledger", "initialize feed"} =>
       log["feed"] = <<>> /\ trusted = <<>>
  /\ pc \in {"initialize anomaly", "initialize fusion", "reset cases", "reset fields"} =>
       log["liquidity"] = <<>>
  /\ pc \in {"initialize fusion", "reset cases", "reset fields"} =>
       log["anomaly"] = <<>>
  /\ pc \in {"reset cases", "reset fields"} => fusedAt = Nothing
  /\ pc = "reset fields" => syncedAt = Nothing

ReportOK ==
  LET tried == IF pc = "feed" THEN 1 ELSE 0
      counted == Cardinality(OfKind("FEED_EVENT", 1..index)) + tried
  IN  /\ recent = [k \in 1..Earlier(index, RecentLimit) |->
                     index - Earlier(index, RecentLimit) + k]
      /\ transactions = Cardinality(OfKind("TRANSACTION", 1..index))
      /\ feeds >= counted
      /\ unaccounted = {} => feeds = counted

StatusOK ==
  /\ pc \in {"loop", "liquidity", "anomaly", "feed"} => status = "RUNNING"
  /\ pc \in {"fusion", "cases"} => status \in {"PAUSED", "COMPLETED"}
  /\ pc = "cases" => fusedAt = [time |-> time, index |-> index]
  /\ FusionFresh
  /\ Free /\ Complete => status \in {"PAUSED", "COMPLETED"}

IInv ==
  TypeOK /\ CallOK /\ LogOK /\ TrustedOK /\ ResetOK /\ ReportOK /\ StatusOK

-----------------------------------------------------------------------------
(* Sequences and counts.                                                   *)

\* The event after the n-th.
LEMMA EventIs ==
  ASSUME NEW n \in Nat, n < Len(Events)
  PROVE  /\ n + 1 \in DOMAIN Events /\ Events[n + 1] \in [kind : ReplayEventTypes, at : Nat]
         /\ Len(Events) \in Nat /\ DOMAIN Events = 1..Len(Events)
<1>. DEFINE R == [kind : ReplayEventTypes, at : Nat]
<1>1. Events \in Seq(R)
  BY ReplayAssumption
<1>. HIDE DEF R
<1>2. /\ Len(Events) \in Nat /\ DOMAIN Events = 1..Len(Events)
      /\ \A k \in DOMAIN Events : Events[k] \in R
  BY <1>1
<1>. QED BY <1>2 DEF R

\* The last event is the latest.
LEMMA EndIs ==
  /\ Len(Events) \in Nat \ {0} /\ End \in Nat
  /\ \A k \in DOMAIN Events : Events[k].at \in Nat /\ Events[k].at <= End
<1>. DEFINE R == [kind : ReplayEventTypes, at : Nat]
<1>1. Events \in Seq(R) /\ Events # <<>>
  BY ReplayAssumption
<1>. HIDE DEF R
<1>2. /\ Len(Events) \in Nat \ {0} /\ DOMAIN Events = 1..Len(Events)
      /\ \A k \in DOMAIN Events : Events[k] \in R
  BY <1>1
<1>3. \A k \in DOMAIN Events : Events[k].at \in Nat
  BY <1>2 DEF R
<1>4. \A k \in DOMAIN Events : Events[k].at <= End
  <2>. SUFFICES ASSUME NEW k \in DOMAIN Events
                PROVE  Events[k].at <= End
    OBVIOUS
  <2>1. CASE k = Len(Events)
    BY <1>2, <1>3, <2>1 DEF End
  <2>2. CASE k < Len(Events)
    BY <1>2, <2>2, ReplayAssumption DEF End
  <2>. QED BY <1>2, <2>1, <2>2
<1>. QED BY <1>2, <1>3, <1>4 DEF End

\* Counts of events are numbers.
LEMMA CountIs ==
  ASSUME NEW n \in Nat, NEW kind
  PROVE  Cardinality(OfKind(kind, 1..n)) \in Nat /\ Cardinality(OfKind(kind, 1..0)) = 0
<1>1. OfKind(kind, 1..n) \subseteq 1..n /\ IsFiniteSet(1..n)
  BY FS_Interval DEF OfKind
<1>2. OfKind(kind, 1..0) = {}
  BY DEF OfKind
<1>. QED BY <1>1, <1>2, FS_Subset, FS_CardinalityType, FS_EmptySet

\* Counting one event more.
LEMMA Counted ==
  ASSUME NEW n \in Nat, n < Len(Events), NEW kind
  PROVE  LET K == OfKind(kind, 1..n)
             L == OfKind(kind, 1..(n + 1))
         IN  /\ IsFiniteSet(K) /\ Cardinality(K) \in Nat
             /\ Events[n + 1].kind = kind =>
                  L = K \cup {n + 1} /\ Cardinality(L) = Cardinality(K) + 1
             /\ Events[n + 1].kind # kind => L = K
<1>. DEFINE K == OfKind(kind, 1..n)
            L == OfKind(kind, 1..(n + 1))
<1>1. K \subseteq 1..n /\ IsFiniteSet(1..n)
  BY FS_Interval DEF OfKind
<1>2. IsFiniteSet(K) /\ Cardinality(K) \in Nat
  BY <1>1, FS_Subset, FS_CardinalityType
<1>3. n + 1 \notin K
  BY <1>1
<1>4. Events[n + 1].kind = kind => L = K \cup {n + 1}
  BY DEF OfKind
<1>5. Events[n + 1].kind # kind => L = K
  BY DEF OfKind
<1>6. Cardinality(K \cup {n + 1}) = Cardinality(K) + 1
  BY <1>2, <1>3, FS_AddElement
<1>. QED BY <1>2, <1>4, <1>5, <1>6

\* Recording the next event, when it is of the kind, and passing it, when it is not.
LEMMA RecordedNext ==
  ASSUME NEW n \in Nat, n < Len(Events), NEW kind, NEW s, Recorded(s, kind, n)
  PROVE  /\ Events[n + 1].kind = kind => Recorded(Append(s, n + 1), kind, n + 1)
         /\ Events[n + 1].kind # kind => Recorded(s, kind, n + 1)
<1>. DEFINE t == Append(s, n + 1)
<1>1. /\ s \in Seq(DOMAIN Events) /\ n + 1 \in DOMAIN Events
      /\ t \in Seq(DOMAIN Events) /\ Len(t) = Len(s) + 1 /\ Len(s) \in Nat
      /\ DOMAIN s = 1..Len(s) /\ DOMAIN t = 1..(Len(s) + 1)
      /\ \A k \in DOMAIN s : t[k] = s[k]
      /\ t[Len(s) + 1] = n + 1
  BY EventIs DEF Recorded
<1>2. \A k \in DOMAIN s : s[k] \in 1..n
  <2>1. \A k \in DOMAIN s : s[k] \in {s[m] : m \in DOMAIN s}
    OBVIOUS
  <2>. QED BY <2>1 DEF Recorded, OfKind
<1>3. \A k, m \in DOMAIN t : k < m => t[k] < t[m]
  <2>. SUFFICES ASSUME NEW k \in DOMAIN t, NEW m \in DOMAIN t, k < m
                PROVE  t[k] < t[m]
    OBVIOUS
  <2>1. k \in DOMAIN s
    BY <1>1
  <2>2. CASE m \in DOMAIN s
    BY <1>1, <2>1, <2>2 DEF Recorded
  <2>3. CASE m = Len(s) + 1
    BY <1>1, <1>2, <2>1, <2>3
  <2>. QED BY <1>1, <2>2, <2>3
<1>4. {t[k] : k \in DOMAIN t} = {s[k] : k \in DOMAIN s} \cup {n + 1}
  <2>. HIDE DEF t
  <2>1. {t[k] : k \in DOMAIN t} \subseteq {s[k] : k \in DOMAIN s} \cup {n + 1}
    <3>. SUFFICES ASSUME NEW k \in DOMAIN t
                  PROVE  t[k] \in {s[m] : m \in DOMAIN s} \cup {n + 1}
      OBVIOUS
    <3>1. k \in DOMAIN s \/ k = Len(s) + 1
      BY <1>1
    <3>. QED BY <1>1, <3>1
  <2>2. {s[k] : k \in DOMAIN s} \subseteq {t[k] : k \in DOMAIN t}
    <3>. SUFFICES ASSUME NEW k \in DOMAIN s
                  PROVE  s[k] \in {t[m] : m \in DOMAIN t}
      OBVIOUS
    <3>1. k \in DOMAIN t
      BY <1>1
    <3>. QED BY <1>1, <3>1
  <2>3. n + 1 \in {t[k] : k \in DOMAIN t}
    <3>1. Len(s) + 1 \in DOMAIN t
      BY <1>1
    <3>. QED BY <1>1, <3>1
  <2>. QED BY <2>1, <2>2, <2>3
<1>5. CASE Events[n + 1].kind = kind
  <2>. HIDE DEF t
  <2>1. Recorded(t, kind, n + 1)
    BY <1>1, <1>3, <1>4, <1>5, Counted DEF Recorded
  <2>. QED BY <1>5, <2>1 DEF t
<1>6. CASE Events[n + 1].kind # kind
  BY <1>6, Counted DEF Recorded
<1>. QED BY <1>5, <1>6

\* Nothing is recorded of no events.
LEMMA NothingRecorded ==
  ASSUME NEW kind
  PROVE  Recorded(<<>>, kind, 0)
<1>1. OfKind(kind, 1..0) = {}
  BY DEF OfKind
<1>. QED BY <1>1, FS_EmptySet DEF Recorded

-----------------------------------------------------------------------------
(* Steps.                                                                  *)

\* The shape of the call, from its place.
LEMMA CallIs ==
  ASSUME TypeOK, CallOK
  PROVE  /\ pc \in BatchPlaces =>
              /\ call.before \in Views
              /\ \/ /\ call.op = "step" /\ call.left \in Nat
                    /\ call = [op |-> "step", left |-> call.left, before |-> call.before]
                 \/ /\ call.op = "advance" /\ call.target \in Nat
                    /\ call = [op |-> "advance", target |-> call.target,
                               before |-> call.before]
         /\ Free <=> pc = Nothing
         /\ call.op = "reset" <=> pc \in ResetPlaces
         /\ pc \in BatchPlaces \cup ResetPlaces \cup {Nothing}
         /\ Nothing \notin BatchPlaces \cup ResetPlaces
<1>1. call \in Calls
  BY DEF TypeOK
<1>2. \/ call = Idle
      \/ /\ call = [op |-> "step", left |-> call.left, before |-> call.before]
         /\ call.left \in Nat /\ call.before \in Views
      \/ /\ call = [op |-> "advance", target |-> call.target, before |-> call.before]
         /\ call.target \in Nat /\ call.before \in Views
      \/ call = [op |-> "reset", before |-> call.before]
  BY <1>1 DEF Calls
<1>3. Nothing \notin {"step", "advance", "reset"} \cup BatchPlaces \cup ResetPlaces
  BY ReplayAssumption
<1>4. BatchPlaces \cap ResetPlaces = {}
  BY DEF BatchPlaces, ResetPlaces
<1>5. CASE call = Idle
  <2>1. call.op = Nothing /\ pc = Nothing
    BY <1>5 DEF Idle, CallOK
  <2>. QED BY <1>3, <1>5, <2>1 DEF Free
<1>6. CASE call.op = "step" /\ call.left \in Nat /\ call.before \in Views
             /\ call = [op |-> "step", left |-> call.left, before |-> call.before]
  <2>1. call # Idle /\ pc \in BatchPlaces
    BY <1>3, <1>6 DEF Idle, CallOK
  <2>. QED BY <1>3, <1>4, <1>6, <2>1 DEF Free
<1>7. CASE call.op = "advance" /\ call.target \in Nat /\ call.before \in Views
             /\ call = [op |-> "advance", target |-> call.target, before |-> call.before]
  <2>1. call # Idle /\ pc \in BatchPlaces
    BY <1>3, <1>7 DEF Idle, CallOK
  <2>. QED BY <1>3, <1>4, <1>7, <2>1 DEF Free
<1>8. CASE call = [op |-> "reset", before |-> call.before]
  <2>1. call.op = "reset"
    BY <1>8
  <2>2. call # Idle /\ pc \in ResetPlaces
    BY <1>3, <2>1 DEF Idle, CallOK
  <2>. QED BY <1>3, <1>4, <2>1, <2>2 DEF Free
<1>. QED BY <1>2, <1>5, <1>6, <1>7, <1>8

\* What Record does.
LEMMA RecordIs ==
  ASSUME TypeOK, index < Len(Events), NEW e \in Engines, Record(e)
  PROVE  /\ log' \in [Engines -> Seq(DOMAIN Events)]
         /\ log'[e] = Append(log[e], index + 1)
         /\ \A f \in Engines \ {e} : log'[f] = log[f]
<1>. DEFINE D == DOMAIN Events
<1>1. index + 1 \in D /\ log \in [Engines -> Seq(D)]
  BY EventIs DEF TypeOK
<1>. HIDE DEF D
<1>2. Append(log[e], index + 1) \in Seq(D)
  BY <1>1
<1>. QED BY <1>1, <1>2 DEF Record, D

\* What becomes of the fields after an event.
LEMMA TakenIs ==
  ASSUME TypeOK, CallOK, ReportOK, pc \in BatchPlaces, More, Taken
  PROVE  /\ index' = index + 1 /\ index' \in 0..Len(Events)
         /\ time' \in Nat /\ call' \in Calls /\ call'.op = call.op /\ pc' = "loop"
         /\ call' # Idle /\ call'.before = call.before
         /\ call.op = "step" => call'.left = call.left - 1 /\ time' = Event.at
         /\ call.op = "advance" => call'.target = call.target /\ time' = time
         /\ recent' \in Seq(DOMAIN Events) /\ Len(recent') <= RecentLimit
         /\ recent' = [k \in 1..Earlier(index', RecentLimit) |->
                         index' - Earlier(index', RecentLimit) + k]
<1>. DEFINE D == DOMAIN Events
            r == Append(recent, index + 1)
            last(n) == Earlier(n, RecentLimit)
<1>1. /\ index \in Nat /\ index < Len(Events) /\ Len(Events) \in Nat
      /\ index + 1 \in D /\ Event.at \in Nat /\ RecentLimit \in Nat \ {0}
      /\ D = 1..Len(Events)
  BY EventIs, ReplayAssumption DEF TypeOK, More, Complete, Event
<1>2. index' = index + 1 /\ pc' = "loop" /\ index' \in 0..Len(Events)
  BY <1>1 DEF Taken
<1>3. /\ time' \in Nat /\ call' \in Calls /\ call'.op = call.op
      /\ call' # Idle /\ call'.before = call.before
      /\ call.op = "step" => call'.left = call.left - 1 /\ time' = Event.at
      /\ call.op = "advance" => call'.target = call.target /\ time' = time
  <2>1. CASE call.op = "step"
    <3>1. call = [op |-> "step", left |-> call.left, before |-> call.before] /\ call.left \in Nat
         /\ call.before \in Views
      BY <2>1, CallIs
    <3>2. call.left > 0
      BY <2>1 DEF More
    <3>3. call' = [op |-> "step", left |-> call.left - 1, before |-> call.before]
      BY <2>1, <3>1 DEF Taken
    <3>4. call' \in Calls
      BY <3>1, <3>2, <3>3 DEF Calls
    <3>. QED BY <1>1, <2>1, <3>3, <3>4, ReplayAssumption DEF Taken, Idle
  <2>2. CASE call.op = "advance"
    <3>1. call' = call /\ time' = time
      BY <2>2 DEF Taken
    <3>2. call # Idle
      BY CallIs DEF Free
    <3>. QED BY <2>2, <3>1, <3>2 DEF TypeOK
  <2>. QED BY <2>1, <2>2, CallIs
<1>4. /\ recent \in Seq(D) /\ recent = [k \in 1..last(index) |-> index - last(index) + k]
      /\ recent' = IF Len(r) > RecentLimit THEN Tail(r) ELSE r
  BY DEF TypeOK, ReportOK, Taken
<1>. HIDE DEF D
<1>5. /\ last(index) \in Nat /\ last(index) <= index
      /\ last(index) = IF index < RecentLimit THEN index ELSE RecentLimit
      /\ last(index + 1) = IF index < RecentLimit THEN index + 1 ELSE RecentLimit
  BY <1>1 DEF Earlier
<1>. HIDE DEF last
<1>6. Len(recent) = last(index)
  BY <1>4, <1>5
<1>7. r \in Seq(D) /\ Len(r) = last(index) + 1
  BY <1>1, <1>4, <1>5, <1>6
<1>8. \A k \in 1..Len(r) : r[k] = index - last(index) + k
  BY <1>1, <1>4, <1>5, <1>6, <1>7
<1>9. CASE index < RecentLimit
  <2>1. recent' = r
    BY <1>1, <1>4, <1>5, <1>7, <1>9
  <2>. HIDE DEF r
  <2>2. r = [k \in 1..last(index + 1) |-> index + 1 - last(index + 1) + k]
    BY <1>1, <1>5, <1>7, <1>8, <1>9
  <2>. QED BY <1>1, <1>2, <1>3, <1>5, <1>7, <1>9, <2>1, <2>2 DEF D, last
<1>10. CASE index >= RecentLimit
  <2>1. recent' = Tail(r)
    BY <1>1, <1>4, <1>5, <1>7, <1>10
  <2>. HIDE DEF r
  <2>2. /\ Tail(r) \in Seq(D) /\ Len(Tail(r)) = RecentLimit
        /\ \A k \in 1..RecentLimit : Tail(r)[k] = r[k + 1]
    BY <1>1, <1>5, <1>7, <1>10
  <2>3. \A k \in 1..RecentLimit : Tail(r)[k] = index' - RecentLimit + k
    BY <1>1, <1>2, <1>5, <1>7, <1>8, <1>10, <2>2
  <2>. DEFINE q == Tail(r)
  <2>. HIDE DEF q
  <2>4. q \in Seq(D) /\ Len(q) = RecentLimit
    BY <2>2 DEF q
  <2>5. q = [k \in 1..RecentLimit |-> q[k]]
    BY <1>1, <2>4
  <2>. DEFINE f(m) == [k \in 1..m |-> index' - m + k]
  <2>6. q = f(RecentLimit)
    BY <2>3, <2>5 DEF q
  <2>7. last(index + 1) = RecentLimit
    BY <1>1, <1>5, <1>10
  <2>8. Earlier(index', RecentLimit) = RecentLimit
    BY <1>2, <2>7 DEF last
  <2>. HIDE DEF f
  <2>9. recent' = f(Earlier(index', RecentLimit))
    BY <2>1, <2>6, <2>8 DEF q
  <2>10. recent' \in Seq(DOMAIN Events) /\ Len(recent') <= RecentLimit
    BY <1>1, <2>1, <2>4 DEF q, D
  <2>. QED BY <1>2, <1>3, <2>9, <2>10 DEF f
<1>. QED BY <1>1, <1>9, <1>10

\* The invariant across ApplyTransaction.
LEMMA ApplyTransactionStep ==
  ASSUME IInv, ApplyTransaction, UNCHANGED unaccounted
  PROVE  IInv'
<1>11. /\ index \in Nat /\ index < Len(Events) /\ index + 1 \in DOMAIN Events
      /\ log \in [Engines -> Seq(DOMAIN Events)]
  BY EventIs DEF IInv, TypeOK, ApplyTransaction, More, Complete
<1>8. /\ log' \in [Engines -> Seq(DOMAIN Events)]
      /\ log'["ledger"] = Append(log["ledger"], index + 1)
      /\ \A f \in Engines \ {"ledger"} : log'[f] = log[f]
  BY <1>11, RecordIs DEF IInv, ApplyTransaction, Engines
<1>1. TypeOK'
  BY <1>8 DEF IInv, ApplyTransaction, TypeOK
<1>2. CallOK'
  BY CallIs DEF IInv, ApplyTransaction, CallOK, More, Complete, Event, BatchPlaces, ResetPlaces
<1>3. LogOK'
  BY <1>8, CallIs DEF IInv, ApplyTransaction, LogOK, Engines, BatchPlaces
<1>4. TrustedOK'
  BY <1>8, CallIs DEF IInv, ApplyTransaction, TrustedOK, Engines, BatchPlaces
<1>5. ResetOK'
  BY CallIs DEF IInv, ApplyTransaction, ResetOK, BatchPlaces, ResetPlaces
<1>6. ReportOK'
  BY CallIs DEF IInv, ApplyTransaction, ReportOK, BatchPlaces, ResetPlaces
<1>7. StatusOK'
  BY CallIs DEF IInv, ApplyTransaction, StatusOK, FusionFresh, Free, Complete, BatchPlaces, ResetPlaces
<1>. QED BY <1>1, <1>2, <1>3, <1>4, <1>5, <1>6, <1>7 DEF IInv

\* The invariant across RecordLiquidity.
LEMMA RecordLiquidityStep ==
  ASSUME IInv, RecordLiquidity, UNCHANGED unaccounted
  PROVE  IInv'
<1>11. /\ index \in Nat /\ index < Len(Events) /\ index + 1 \in DOMAIN Events
      /\ log \in [Engines -> Seq(DOMAIN Events)]
  BY EventIs DEF IInv, TypeOK, CallOK, RecordLiquidity, More, Complete
<1>8. /\ log' \in [Engines -> Seq(DOMAIN Events)]
      /\ log'["liquidity"] = Append(log["liquidity"], index + 1)
      /\ \A f \in Engines \ {"liquidity"} : log'[f] = log[f]
  BY <1>11, RecordIs DEF IInv, RecordLiquidity, Engines
<1>1. TypeOK'
  BY <1>8 DEF IInv, RecordLiquidity, TypeOK
<1>2. CallOK'
  BY CallIs DEF IInv, RecordLiquidity, CallOK, More, Complete, Event, BatchPlaces, ResetPlaces
<1>3. LogOK'
  BY <1>8, CallIs DEF IInv, RecordLiquidity, LogOK, Engines, BatchPlaces
<1>4. TrustedOK'
  BY <1>8, CallIs DEF IInv, RecordLiquidity, TrustedOK, Engines, BatchPlaces
<1>5. ResetOK'
  BY CallIs DEF IInv, RecordLiquidity, ResetOK, BatchPlaces, ResetPlaces
<1>6. ReportOK'
  BY CallIs DEF IInv, RecordLiquidity, ReportOK, BatchPlaces, ResetPlaces
<1>7. StatusOK'
  BY CallIs DEF IInv, RecordLiquidity, StatusOK, FusionFresh, Free, Complete, BatchPlaces, ResetPlaces
<1>. QED BY <1>1, <1>2, <1>3, <1>4, <1>5, <1>6, <1>7 DEF IInv

\* The invariant across RecordAnomaly.
LEMMA RecordAnomalyStep ==
  ASSUME IInv, RecordAnomaly, UNCHANGED unaccounted
  PROVE  IInv'
<1>11. /\ index \in Nat /\ index < Len(Events) /\ index + 1 \in DOMAIN Events
      /\ log \in [Engines -> Seq(DOMAIN Events)]
  BY EventIs DEF IInv, TypeOK, CallOK, RecordAnomaly, More, Complete
<1>8. /\ log' \in [Engines -> Seq(DOMAIN Events)]
      /\ log'["anomaly"] = Append(log["anomaly"], index + 1)
      /\ \A f \in Engines \ {"anomaly"} : log'[f] = log[f]
  BY <1>11, RecordIs DEF IInv, RecordAnomaly, Engines
<1>9. /\ index' = index + 1 /\ index' \in 0..Len(Events)
      /\ time' \in Nat /\ call' \in Calls /\ call'.op = call.op /\ pc' = "loop"
      /\ call' # Idle
      /\ recent' \in Seq(DOMAIN Events) /\ Len(recent') <= RecentLimit
      /\ recent' = [k \in 1..Earlier(index', RecentLimit) |->
                      index' - Earlier(index', RecentLimit) + k]
  BY TakenIs DEF IInv, CallOK, RecordAnomaly, BatchPlaces
<1>10. Event.kind = "TRANSACTION" /\ call.op \in {"step", "advance"}
  BY CallIs DEF IInv, CallOK, RecordAnomaly, BatchPlaces
<1>1. TypeOK'
  <2>1. transactions' \in Nat
    BY DEF IInv, RecordAnomaly, TypeOK
  <2>. QED BY <1>8, <1>9, <2>1 DEF IInv, RecordAnomaly, TypeOK
<1>2. CallOK'
  BY <1>9, <1>10 DEF CallOK, BatchPlaces
<1>3. LogOK'
  <2>1. /\ Recorded(log["anomaly"], "TRANSACTION", index)
        /\ Recorded(log["feed"], "FEED_EVENT", index)
    BY <1>10 DEF IInv, LogOK
  <2>2. /\ Recorded(Append(log["anomaly"], index + 1), "TRANSACTION", index + 1)
        /\ Recorded(log["feed"], "FEED_EVENT", index + 1)
    BY <1>11, <1>10, <2>1, RecordedNext DEF Event
  <2>. QED BY <1>8, <1>9, <1>10, <2>2 DEF IInv, LogOK, RecordAnomaly, Engines
<1>4. TrustedOK'
  BY <1>11, <1>8, <1>9, <1>10 DEF IInv, RecordAnomaly, TrustedOK, Engines
<1>5. ResetOK'
  BY <1>9 DEF ResetOK, ResetPlaces
<1>6. ReportOK'
  <2>1. /\ Cardinality(OfKind("TRANSACTION", 1..index)) \in Nat
        /\ Cardinality(OfKind("FEED_EVENT", 1..index)) \in Nat
        /\ Cardinality(OfKind("TRANSACTION", 1..(index + 1))) =
             Cardinality(OfKind("TRANSACTION", 1..index)) + 1
        /\ OfKind("FEED_EVENT", 1..(index + 1)) = OfKind("FEED_EVENT", 1..index)
    BY <1>11, <1>10, Counted DEF Event
  <2>. QED BY <1>9, <2>1 DEF IInv, ReportOK, RecordAnomaly, TypeOK
<1>7. StatusOK'
  BY <1>9, <1>10 DEF IInv, RecordAnomaly, StatusOK, FusionFresh, Free
<1>. QED BY <1>1, <1>2, <1>3, <1>4, <1>5, <1>6, <1>7 DEF IInv

\* The invariant across RecordFeed.
LEMMA RecordFeedStep ==
  ASSUME IInv, RecordFeed, UNCHANGED unaccounted
  PROVE  IInv'
<1>11. /\ index \in Nat /\ index < Len(Events) /\ index + 1 \in DOMAIN Events
      /\ log \in [Engines -> Seq(DOMAIN Events)]
  BY EventIs DEF IInv, TypeOK, CallOK, RecordFeed, More, Complete
<1>8. /\ log' \in [Engines -> Seq(DOMAIN Events)]
      /\ log'["feed"] = Append(log["feed"], index + 1)
      /\ \A f \in Engines \ {"feed"} : log'[f] = log[f]
  BY <1>11, RecordIs DEF IInv, RecordFeed, Engines
<1>9. /\ index' = index + 1 /\ index' \in 0..Len(Events)
      /\ time' \in Nat /\ call' \in Calls /\ call'.op = call.op /\ pc' = "loop"
      /\ call' # Idle
      /\ recent' \in Seq(DOMAIN Events) /\ Len(recent') <= RecentLimit
      /\ recent' = [k \in 1..Earlier(index', RecentLimit) |->
                      index' - Earlier(index', RecentLimit) + k]
  BY TakenIs DEF IInv, CallOK, RecordFeed, BatchPlaces
<1>10. Event.kind = "FEED_EVENT" /\ call.op \in {"step", "advance"}
  BY CallIs DEF IInv, CallOK, RecordFeed, BatchPlaces
<1>1. TypeOK'
  <2>1. trusted' \in Seq(Nat)
    BY <1>11 DEF IInv, RecordFeed, TypeOK, Engines
  <2>. QED BY <1>8, <1>9, <2>1 DEF IInv, RecordFeed, TypeOK
<1>2. CallOK'
  BY <1>9, <1>10 DEF CallOK, BatchPlaces
<1>3. LogOK'
  <2>1. /\ Recorded(log["anomaly"], "TRANSACTION", index)
        /\ Recorded(log["feed"], "FEED_EVENT", index)
    BY <1>10 DEF IInv, LogOK
  <2>2. /\ Recorded(Append(log["feed"], index + 1), "FEED_EVENT", index + 1)
        /\ Recorded(log["anomaly"], "TRANSACTION", index + 1)
    BY <1>11, <1>10, <2>1, RecordedNext DEF Event
  <2>. QED BY <1>8, <1>9, <1>10, <2>2 DEF IInv, LogOK, RecordFeed, Engines
<1>4. TrustedOK'
  <2>1. /\ trusted \in Seq(Nat) /\ log["feed"] \in Seq(DOMAIN Events)
        /\ Len(log["ledger"]) \in Nat
    BY <1>11 DEF IInv, TypeOK, Engines
  <2>2. /\ Len(trusted) = Len(log["feed"])
        /\ \A k \in DOMAIN trusted :
             trusted[k] = Cardinality(OfKind("TRANSACTION", 1..log["feed"][k]))
    BY <1>10 DEF IInv, TrustedOK
  <2>3. Len(log["ledger"]) = Cardinality(OfKind("TRANSACTION", 1..index))
    BY <1>10 DEF IInv, LogOK, Recorded, RecordFeed
  <2>4. OfKind("TRANSACTION", 1..(index + 1)) = OfKind("TRANSACTION", 1..index)
    BY <1>10, <1>11, Counted DEF Event
  <2>5. /\ trusted' = Append(trusted, Len(log["ledger"]))
        /\ log'["feed"] = Append(log["feed"], index + 1)
    BY <1>8 DEF RecordFeed
  <2>6. DOMAIN trusted = 1..Len(trusted) /\ DOMAIN log["feed"] = 1..Len(trusted)
        /\ DOMAIN trusted' = 1..(Len(trusted) + 1) /\ Len(trusted) \in Nat
    BY <2>1, <2>2, <2>5
  <2>7. Len(trusted') = Len(log'["feed"])
    BY <1>11, <2>1, <2>2, <2>5
  <2>8. ASSUME NEW k \in DOMAIN trusted'
        PROVE  trusted'[k] = Cardinality(OfKind("TRANSACTION", 1..log'["feed"][k]))
    <3>1. CASE k \in DOMAIN trusted
      <4>1. trusted'[k] = trusted[k] /\ log'["feed"][k] = log["feed"][k]
        BY <1>11, <2>1, <2>2, <2>5, <2>6, <3>1
      <4>. QED BY <2>2, <3>1, <4>1
    <3>2. CASE k = Len(trusted) + 1
      <4>1. trusted'[k] = Len(log["ledger"]) /\ log'["feed"][k] = index + 1
        BY <1>11, <2>1, <2>2, <2>5, <2>6, <3>2
      <4>. QED BY <2>3, <2>4, <4>1
    <3>. QED BY <2>6, <3>1, <3>2
  <2>. QED BY <2>7, <2>8 DEF TrustedOK
<1>5. ResetOK'
  BY <1>9 DEF ResetOK, ResetPlaces
<1>6. ReportOK'
  <2>1. /\ Cardinality(OfKind("TRANSACTION", 1..index)) \in Nat
        /\ Cardinality(OfKind("FEED_EVENT", 1..index)) \in Nat
        /\ Cardinality(OfKind("FEED_EVENT", 1..(index + 1))) =
             Cardinality(OfKind("FEED_EVENT", 1..index)) + 1
        /\ OfKind("TRANSACTION", 1..(index + 1)) = OfKind("TRANSACTION", 1..index)
    BY <1>11, <1>10, Counted DEF Event
  <2>. QED BY <1>9, <2>1 DEF IInv, ReportOK, RecordFeed, TypeOK
<1>7. StatusOK'
  BY <1>9, <1>10 DEF IInv, RecordFeed, StatusOK, FusionFresh, Free
<1>. QED BY <1>1, <1>2, <1>3, <1>4, <1>5, <1>6, <1>7 DEF IInv

\* The invariant across CountFeed.
LEMMA CountFeedStep ==
  ASSUME IInv, CountFeed, UNCHANGED unaccounted
  PROVE  IInv'
<1>11. /\ index \in Nat /\ index < Len(Events) /\ index + 1 \in DOMAIN Events
      /\ log \in [Engines -> Seq(DOMAIN Events)]
  BY EventIs DEF IInv, TypeOK, CountFeed, More, Complete
<1>1. TypeOK'
  BY CallIs DEF IInv, CountFeed, LogUnchanged, TypeOK
<1>2. CallOK'
  BY CallIs DEF IInv, CountFeed, LogUnchanged, CallOK, More, Complete, Event, BatchPlaces, ResetPlaces
<1>3. LogOK'
  BY CallIs DEF IInv, CountFeed, LogUnchanged, LogOK, BatchPlaces, ResetPlaces
<1>4. TrustedOK'
  BY CallIs DEF IInv, CountFeed, LogUnchanged, TrustedOK, BatchPlaces, ResetPlaces
<1>5. ResetOK'
  BY CallIs DEF IInv, CountFeed, LogUnchanged, ResetOK, BatchPlaces, ResetPlaces
<1>6. ReportOK'
  <2>1. Cardinality(OfKind("FEED_EVENT", 1..index)) \in Nat
    BY <1>11, Counted
  <2>. QED BY <2>1, CallIs DEF IInv, CountFeed, ReportOK, CallOK, TypeOK, LogUnchanged, Raise, BatchPlaces
<1>7. StatusOK'
  BY CallIs DEF IInv, CountFeed, LogUnchanged, StatusOK, FusionFresh, Free, Complete, BatchPlaces, ResetPlaces
<1>. QED BY <1>1, <1>2, <1>3, <1>4, <1>5, <1>6, <1>7 DEF IInv

\* The invariant across TransactionRejected.
LEMMA TransactionRejectedStep ==
  ASSUME IInv, TransactionRejected, UNCHANGED unaccounted
  PROVE  IInv'
<1>1. TypeOK'
  BY DEF IInv, TransactionRejected, Raise, LogUnchanged, TypeOK, Calls
<1>2. CallOK'
  BY ReplayAssumption DEF TransactionRejected, Raise, CallOK, Idle, BatchPlaces
<1>3. LogOK'
  BY CallIs DEF IInv, TransactionRejected, Raise, LogUnchanged, LogOK, CallOK, BatchPlaces, ResetPlaces
<1>4. TrustedOK'
  BY CallIs DEF IInv, TransactionRejected, Raise, LogUnchanged, TrustedOK, BatchPlaces, ResetPlaces
<1>5. ResetOK'
  BY ReplayAssumption DEF TransactionRejected, Raise, ResetOK, ResetPlaces
<1>6. ReportOK'
  BY CallIs DEF IInv, TransactionRejected, Raise, ReportOK, BatchPlaces
<1>7. StatusOK'
  BY CallIs DEF IInv, TransactionRejected, Raise, StatusOK, More, FusionFresh, Free, Complete, BatchPlaces, Idle
<1>. QED BY <1>1, <1>2, <1>3, <1>4, <1>5, <1>6, <1>7 DEF IInv

\* The invariant across FeedRejected.
LEMMA FeedRejectedStep ==
  ASSUME IInv, FeedRejected, UNCHANGED unaccounted
  PROVE  IInv'
<1>11. /\ index \in Nat /\ index < Len(Events) /\ index + 1 \in DOMAIN Events
      /\ log \in [Engines -> Seq(DOMAIN Events)]
  BY EventIs DEF IInv, TypeOK, CallOK, FeedRejected, More, Complete
<1>1. TypeOK'
  BY DEF IInv, FeedRejected, Raise, LogUnchanged, TypeOK, Calls
<1>2. CallOK'
  BY ReplayAssumption DEF FeedRejected, Raise, CallOK, Idle, BatchPlaces
<1>3. LogOK'
  BY CallIs DEF IInv, FeedRejected, Raise, LogUnchanged, LogOK, CallOK, BatchPlaces, ResetPlaces
<1>4. TrustedOK'
  BY CallIs DEF IInv, FeedRejected, Raise, LogUnchanged, TrustedOK, BatchPlaces, ResetPlaces
<1>5. ResetOK'
  BY ReplayAssumption DEF FeedRejected, Raise, ResetOK, ResetPlaces
<1>6. ReportOK'
  <2>1. Cardinality(OfKind("FEED_EVENT", 1..index)) \in Nat
    BY <1>11, Counted
  <2>. QED BY <2>1, CallIs DEF IInv, FeedRejected, ReportOK, CallOK, TypeOK, LogUnchanged, Raise, BatchPlaces
<1>7. StatusOK'
  BY CallIs DEF IInv, FeedRejected, Raise, StatusOK, CallOK, More, FusionFresh, Free, Complete, BatchPlaces
<1>. QED BY <1>1, <1>2, <1>3, <1>4, <1>5, <1>6, <1>7 DEF IInv

\* The invariant across FinishBatch.
LEMMA FinishBatchStep ==
  ASSUME IInv, FinishBatch, UNCHANGED unaccounted
  PROVE  IInv'
<1>1. TypeOK'
  <2>1. End \in Nat
    BY EndIs
  <2>2. call.op = "advance" => call.target \in Nat
    BY CallIs DEF IInv, FinishBatch, BatchPlaces
  <2>. QED BY <2>1, <2>2 DEF IInv, FinishBatch, LogUnchanged, TypeOK
<1>2. CallOK'
  BY CallIs DEF IInv, FinishBatch, LogUnchanged, CallOK, More, Complete, Event, BatchPlaces, ResetPlaces
<1>3. LogOK'
  BY CallIs DEF IInv, FinishBatch, LogUnchanged, LogOK, BatchPlaces, ResetPlaces
<1>4. TrustedOK'
  BY CallIs DEF IInv, FinishBatch, LogUnchanged, TrustedOK, BatchPlaces, ResetPlaces
<1>5. ResetOK'
  BY CallIs DEF IInv, FinishBatch, LogUnchanged, ResetOK, BatchPlaces, ResetPlaces
<1>6. ReportOK'
  BY CallIs DEF IInv, FinishBatch, LogUnchanged, ReportOK, BatchPlaces, ResetPlaces
<1>7. StatusOK'
  BY CallIs DEF IInv, FinishBatch, LogUnchanged, StatusOK, FusionFresh, Free, Complete, BatchPlaces, ResetPlaces
<1>. QED BY <1>1, <1>2, <1>3, <1>4, <1>5, <1>6, <1>7 DEF IInv

\* The invariant across RefreshFusion.
LEMMA RefreshFusionStep ==
  ASSUME IInv, RefreshFusion, UNCHANGED unaccounted
  PROVE  IInv'
<1>1. TypeOK'
  BY CallIs DEF IInv, RefreshFusion, TypeOK
<1>2. CallOK'
  BY CallIs DEF IInv, RefreshFusion, CallOK, More, Complete, Event, BatchPlaces, ResetPlaces
<1>3. LogOK'
  BY CallIs DEF IInv, RefreshFusion, LogOK, BatchPlaces, ResetPlaces
<1>4. TrustedOK'
  BY CallIs DEF IInv, RefreshFusion, TrustedOK, BatchPlaces, ResetPlaces
<1>5. ResetOK'
  BY CallIs DEF IInv, RefreshFusion, ResetOK, BatchPlaces, ResetPlaces
<1>6. ReportOK'
  BY CallIs DEF IInv, RefreshFusion, ReportOK, BatchPlaces, ResetPlaces
<1>7. StatusOK'
  BY CallIs DEF IInv, RefreshFusion, StatusOK, FusionFresh, Free, Complete, BatchPlaces, ResetPlaces
<1>. QED BY <1>1, <1>2, <1>3, <1>4, <1>5, <1>6, <1>7 DEF IInv

\* The invariant across SyncCases.
LEMMA SyncCasesStep ==
  ASSUME IInv, SyncCases, UNCHANGED unaccounted
  PROVE  IInv'
<1>1. TypeOK'
  BY DEF IInv, SyncCases, TypeOK, Calls
<1>2. CallOK'
  BY ReplayAssumption DEF SyncCases, CallOK, Idle, BatchPlaces
<1>3. LogOK'
  BY CallIs DEF IInv, SyncCases, LogOK, CallOK, BatchPlaces, ResetPlaces
<1>4. TrustedOK'
  BY CallIs DEF IInv, SyncCases, TrustedOK, BatchPlaces, ResetPlaces
<1>5. ResetOK'
  BY ReplayAssumption DEF SyncCases, ResetOK, ResetPlaces
<1>6. ReportOK'
  BY CallIs DEF IInv, SyncCases, ReportOK, BatchPlaces, ResetPlaces
<1>7. StatusOK'
  BY CallIs DEF IInv, SyncCases, StatusOK, FusionFresh, Free, Complete, BatchPlaces, Idle
<1>. QED BY <1>1, <1>2, <1>3, <1>4, <1>5, <1>6, <1>7 DEF IInv
-----------------------------------------------------------------------------
(* Steps of a reset, and the calls.                                        *)

\* The empty log.
LEMMA EmptyIs ==
  ASSUME NEW S
  PROVE  <<>> \in Seq(S)
OBVIOUS

\* An engine is initialized.
LEMMA EmptiedIs ==
  ASSUME TypeOK, NEW e \in Engines, log' = [log EXCEPT ![e] = <<>>]
  PROVE  /\ log' \in [Engines -> Seq(DOMAIN Events)] /\ log'[e] = <<>>
         /\ \A f \in Engines \ {e} : log'[f] = log[f]
<1>. DEFINE S == Seq(DOMAIN Events)
<1>1. <<>> \in S /\ log \in [Engines -> S]
  BY DEF TypeOK
<1>. HIDE DEF S
<1>2. log' \in [Engines -> S] /\ log'[e] = <<>> /\ \A f \in Engines \ {e} : log'[f] = log[f]
  BY <1>1
<1>. QED BY <1>2 DEF S

\* The invariant across InitializeLedger.
LEMMA InitializeLedgerStep ==
  ASSUME IInv, InitializeEngine("initialize ledger", "ledger", "initialize feed"),
         UNCHANGED unaccounted
  PROVE  IInv'
<1>8. /\ log' \in [Engines -> Seq(DOMAIN Events)] /\ log'["ledger"] = <<>>
      /\ \A f \in Engines \ {"ledger"} : log'[f] = log[f]
  BY EmptiedIs DEF IInv, InitializeEngine, Engines
<1>1. TypeOK'
  BY <1>8 DEF IInv, InitializeEngine, TypeOK
<1>2. CallOK'
  BY CallIs DEF IInv, InitializeEngine, CallOK, More, Complete, Event, BatchPlaces, ResetPlaces
<1>3. LogOK'
  BY CallIs DEF IInv, InitializeEngine, LogOK, BatchPlaces, ResetPlaces
<1>4. TrustedOK'
  BY CallIs DEF IInv, InitializeEngine, TrustedOK, BatchPlaces, ResetPlaces
<1>5. ResetOK'
  BY <1>8 DEF IInv, InitializeEngine, ResetOK, ResetPlaces, Engines
<1>6. ReportOK'
  BY CallIs DEF IInv, InitializeEngine, ReportOK, BatchPlaces, ResetPlaces
<1>7. StatusOK'
  BY CallIs DEF IInv, InitializeEngine, StatusOK, FusionFresh, Free, Complete, BatchPlaces, ResetPlaces
<1>. QED BY <1>1, <1>2, <1>3, <1>4, <1>5, <1>6, <1>7 DEF IInv

\* The invariant across InitializeFeed.
LEMMA InitializeFeedStep ==
  ASSUME IInv, InitializeEngine("initialize feed", "feed", "initialize liquidity"),
         UNCHANGED unaccounted
  PROVE  IInv'
<1>8. /\ log' \in [Engines -> Seq(DOMAIN Events)] /\ log'["feed"] = <<>>
      /\ \A f \in Engines \ {"feed"} : log'[f] = log[f]
  BY EmptiedIs DEF IInv, InitializeEngine, Engines
<1>1. TypeOK'
  <2>1. /\ trusted' = <<>>
        /\ UNCHANGED <<call, index, time, status, transactions, feeds, recent,
                       fusedAt, syncedAt>>
    BY DEF InitializeEngine
  <2>2. <<>> \in Seq(Nat)
    BY EmptyIs
  <2>3. trusted' \in Seq(Nat)
    BY <2>1, <2>2
  <2>. QED BY <1>8, <2>1, <2>3 DEF IInv, TypeOK
<1>2. CallOK'
  BY CallIs DEF IInv, InitializeEngine, CallOK, More, Complete, Event, BatchPlaces, ResetPlaces
<1>3. LogOK'
  BY CallIs DEF IInv, InitializeEngine, LogOK, BatchPlaces, ResetPlaces
<1>4. TrustedOK'
  BY CallIs DEF IInv, InitializeEngine, TrustedOK, BatchPlaces, ResetPlaces
<1>5. ResetOK'
  BY <1>8 DEF IInv, InitializeEngine, ResetOK, ResetPlaces, Engines
<1>6. ReportOK'
  BY CallIs DEF IInv, InitializeEngine, ReportOK, BatchPlaces, ResetPlaces
<1>7. StatusOK'
  BY CallIs DEF IInv, InitializeEngine, StatusOK, FusionFresh, Free, Complete, BatchPlaces, ResetPlaces
<1>. QED BY <1>1, <1>2, <1>3, <1>4, <1>5, <1>6, <1>7 DEF IInv

\* The invariant across InitializeLiquidity.
LEMMA InitializeLiquidityStep ==
  ASSUME IInv, InitializeEngine("initialize liquidity", "liquidity", "initialize anomaly"),
         UNCHANGED unaccounted
  PROVE  IInv'
<1>8. /\ log' \in [Engines -> Seq(DOMAIN Events)] /\ log'["liquidity"] = <<>>
      /\ \A f \in Engines \ {"liquidity"} : log'[f] = log[f]
  BY EmptiedIs DEF IInv, InitializeEngine, Engines
<1>1. TypeOK'
  BY <1>8 DEF IInv, InitializeEngine, TypeOK
<1>2. CallOK'
  BY CallIs DEF IInv, InitializeEngine, CallOK, More, Complete, Event, BatchPlaces, ResetPlaces
<1>3. LogOK'
  BY CallIs DEF IInv, InitializeEngine, LogOK, BatchPlaces, ResetPlaces
<1>4. TrustedOK'
  BY CallIs DEF IInv, InitializeEngine, TrustedOK, BatchPlaces, ResetPlaces
<1>5. ResetOK'
  BY <1>8 DEF IInv, InitializeEngine, ResetOK, ResetPlaces, Engines
<1>6. ReportOK'
  BY CallIs DEF IInv, InitializeEngine, ReportOK, BatchPlaces, ResetPlaces
<1>7. StatusOK'
  BY CallIs DEF IInv, InitializeEngine, StatusOK, FusionFresh, Free, Complete, BatchPlaces, ResetPlaces
<1>. QED BY <1>1, <1>2, <1>3, <1>4, <1>5, <1>6, <1>7 DEF IInv

\* The invariant across InitializeAnomaly.
LEMMA InitializeAnomalyStep ==
  ASSUME IInv, InitializeEngine("initialize anomaly", "anomaly", "initialize fusion"),
         UNCHANGED unaccounted
  PROVE  IInv'
<1>8. /\ log' \in [Engines -> Seq(DOMAIN Events)] /\ log'["anomaly"] = <<>>
      /\ \A f \in Engines \ {"anomaly"} : log'[f] = log[f]
  BY EmptiedIs DEF IInv, InitializeEngine, Engines
<1>1. TypeOK'
  BY <1>8 DEF IInv, InitializeEngine, TypeOK
<1>2. CallOK'
  BY CallIs DEF IInv, InitializeEngine, CallOK, More, Complete, Event, BatchPlaces, ResetPlaces
<1>3. LogOK'
  BY CallIs DEF IInv, InitializeEngine, LogOK, BatchPlaces, ResetPlaces
<1>4. TrustedOK'
  BY CallIs DEF IInv, InitializeEngine, TrustedOK, BatchPlaces, ResetPlaces
<1>5. ResetOK'
  BY <1>8 DEF IInv, InitializeEngine, ResetOK, ResetPlaces, Engines
<1>6. ReportOK'
  BY CallIs DEF IInv, InitializeEngine, ReportOK, BatchPlaces, ResetPlaces
<1>7. StatusOK'
  BY CallIs DEF IInv, InitializeEngine, StatusOK, FusionFresh, Free, Complete, BatchPlaces, ResetPlaces
<1>. QED BY <1>1, <1>2, <1>3, <1>4, <1>5, <1>6, <1>7 DEF IInv

\* The invariant across InitializeFusion.
LEMMA InitializeFusionStep ==
  ASSUME IInv, InitializeFusion, UNCHANGED unaccounted
  PROVE  IInv'
<1>1. TypeOK'
  BY CallIs DEF IInv, InitializeFusion, TypeOK
<1>2. CallOK'
  BY CallIs DEF IInv, InitializeFusion, CallOK, More, Complete, Event, BatchPlaces, ResetPlaces
<1>3. LogOK'
  BY CallIs DEF IInv, InitializeFusion, LogOK, BatchPlaces, ResetPlaces
<1>4. TrustedOK'
  BY CallIs DEF IInv, InitializeFusion, TrustedOK, BatchPlaces, ResetPlaces
<1>5. ResetOK'
  BY CallIs DEF IInv, InitializeFusion, ResetOK, BatchPlaces, ResetPlaces
<1>6. ReportOK'
  BY CallIs DEF IInv, InitializeFusion, ReportOK, BatchPlaces, ResetPlaces
<1>7. StatusOK'
  BY CallIs DEF IInv, InitializeFusion, StatusOK, FusionFresh, Free, Complete, BatchPlaces, ResetPlaces
<1>. QED BY <1>1, <1>2, <1>3, <1>4, <1>5, <1>6, <1>7 DEF IInv

\* The invariant across ResetCases.
LEMMA ResetCasesStep ==
  ASSUME IInv, ResetCases, UNCHANGED unaccounted
  PROVE  IInv'
<1>1. TypeOK'
  BY CallIs DEF IInv, ResetCases, TypeOK
<1>2. CallOK'
  BY CallIs DEF IInv, ResetCases, CallOK, More, Complete, Event, BatchPlaces, ResetPlaces
<1>3. LogOK'
  BY CallIs DEF IInv, ResetCases, LogOK, BatchPlaces, ResetPlaces
<1>4. TrustedOK'
  BY CallIs DEF IInv, ResetCases, TrustedOK, BatchPlaces, ResetPlaces
<1>5. ResetOK'
  BY CallIs DEF IInv, ResetCases, ResetOK, BatchPlaces, ResetPlaces
<1>6. ReportOK'
  BY CallIs DEF IInv, ResetCases, ReportOK, BatchPlaces, ResetPlaces
<1>7. StatusOK'
  BY CallIs DEF IInv, ResetCases, StatusOK, FusionFresh, Free, Complete, BatchPlaces, ResetPlaces
<1>. QED BY <1>1, <1>2, <1>3, <1>4, <1>5, <1>6, <1>7 DEF IInv

\* The invariant across ResetFields.
LEMMA ResetFieldsStep ==
  ASSUME IInv, ResetFields, UNCHANGED unaccounted
  PROVE  IInv'
<1>1. TypeOK'
  <2>1. Len(Events) \in Nat /\ RecentLimit \in Nat /\ Start \in Nat
    BY EndIs, ReplayAssumption
  <2>2. /\ recent' = <<>> /\ call' = Idle /\ index' = 0 /\ transactions' = 0 /\ feeds' = 0
        /\ time' = Start /\ status' = "READY" /\ UNCHANGED <<log, trusted, fusedAt, syncedAt>>
    BY DEF ResetFields, LogUnchanged
  <2>3. Idle \in Calls
    BY DEF Calls
  <2>4. <<>> \in Seq(DOMAIN Events) /\ Len(<<>>) = 0
    OBVIOUS
  <2>. QED BY <2>1, <2>2, <2>3, <2>4 DEF IInv, TypeOK
<1>2. CallOK'
  BY ReplayAssumption DEF ResetFields, CallOK, Idle, BatchPlaces
<1>3. LogOK'
  <2>1. /\ log' = log /\ index' = 0 /\ pc' = Nothing
        /\ \A e \in Engines : log[e] = <<>>
    BY DEF IInv, ResetFields, LogUnchanged, ResetOK, ResetPlaces, Engines
  <2>. QED BY <2>1, NothingRecorded, ReplayAssumption DEF LogOK, BatchPlaces, Engines
<1>4. TrustedOK'
  <2>1. log'["feed"] = <<>> /\ trusted' = <<>>
    BY DEF IInv, ResetFields, LogUnchanged, ResetOK, ResetPlaces
  <2>. QED BY <2>1 DEF TrustedOK
<1>5. ResetOK'
  BY ReplayAssumption DEF ResetFields, ResetOK, ResetPlaces
<1>6. ReportOK'
  <2>1. /\ Cardinality(OfKind("TRANSACTION", 1..0)) = 0
        /\ Cardinality(OfKind("FEED_EVENT", 1..0)) = 0
    BY CountIs
  <2>2. Earlier(0, RecentLimit) = 0
    BY ReplayAssumption DEF Earlier
  <2>3. /\ index' = 0 /\ pc' # "feed" /\ recent' = <<>> /\ transactions' = 0 /\ feeds' = 0
    BY ReplayAssumption DEF ResetFields, BatchPlaces
  <2>4. recent' = [k \in 1..Earlier(index', RecentLimit) |->
                     index' - Earlier(index', RecentLimit) + k]
    BY <2>2, <2>3
  <2>. QED BY <2>1, <2>3, <2>4 DEF ReportOK
<1>7. StatusOK'
  <2>1. /\ pc' = Nothing /\ status' = "READY" /\ fusedAt' = Nothing /\ syncedAt' = Nothing
        /\ index' = 0
    BY DEF IInv, ResetFields, LogUnchanged, ResetOK, ResetPlaces
  <2>. QED BY <2>1, EndIs, ReplayAssumption DEF StatusOK, FusionFresh, Complete, BatchPlaces
<1>. QED BY <1>1, <1>2, <1>3, <1>4, <1>5, <1>6, <1>7 DEF IInv

\* The invariant across NothingLeft.
LEMMA NothingLeftStep ==
  ASSUME IInv, NothingLeft, UNCHANGED unaccounted
  PROVE  IInv'
<1>1. TypeOK'
  BY CallIs DEF IInv, NothingLeft, LogUnchanged, TypeOK
<1>2. CallOK'
  BY CallIs DEF IInv, NothingLeft, LogUnchanged, CallOK, More, Complete, Event, BatchPlaces, ResetPlaces
<1>3. LogOK'
  BY CallIs DEF IInv, NothingLeft, LogUnchanged, LogOK, BatchPlaces, ResetPlaces
<1>4. TrustedOK'
  BY CallIs DEF IInv, NothingLeft, LogUnchanged, TrustedOK, BatchPlaces, ResetPlaces
<1>5. ResetOK'
  BY CallIs DEF IInv, NothingLeft, LogUnchanged, ResetOK, BatchPlaces, ResetPlaces
<1>6. ReportOK'
  BY CallIs DEF IInv, NothingLeft, LogUnchanged, ReportOK, BatchPlaces, ResetPlaces
<1>7. StatusOK'
  BY CallIs DEF IInv, NothingLeft, LogUnchanged, StatusOK, FusionFresh, Free, Complete, BatchPlaces, ResetPlaces
<1>. QED BY <1>1, <1>2, <1>3, <1>4, <1>5, <1>6, <1>7 DEF IInv

\* The invariant across BeginReset.
LEMMA BeginResetStep ==
  ASSUME IInv, BeginReset, UNCHANGED unaccounted
  PROVE  IInv'
<1>8. Seen \in Views
  BY DEF IInv, TypeOK, Seen, Views
<1>1. TypeOK'
  BY <1>8 DEF IInv, BeginReset, LogUnchanged, TypeOK, Calls
<1>2. CallOK'
  BY ReplayAssumption DEF BeginReset, CallOK, Idle, BatchPlaces, ResetPlaces
<1>3. LogOK'
  BY DEF BeginReset, LogOK
<1>4. TrustedOK'
  BY DEF BeginReset, TrustedOK
<1>5. ResetOK'
  BY DEF BeginReset, ResetOK, ResetPlaces
<1>6. ReportOK'
  <2>1. pc # "feed" /\ pc' # "feed"
    BY CallIs DEF IInv, BeginReset, BatchPlaces
  <2>. QED BY <2>1 DEF IInv, BeginReset, ReportOK
<1>7. StatusOK'
  <2>1. ~Free'
    BY ReplayAssumption DEF BeginReset, Free, Idle
  <2>. QED BY <2>1 DEF BeginReset, StatusOK, FusionFresh
<1>. QED BY <1>1, <1>2, <1>3, <1>4, <1>5, <1>6, <1>7 DEF IInv

\* The invariant across BeginStep.
LEMMA BeginStepStep ==
  ASSUME IInv, NEW n \in Nat, BeginStep(n), UNCHANGED unaccounted
  PROVE  IInv'
<1>8. Seen \in Views
  BY DEF IInv, TypeOK, Seen, Views
<1>9. Begin([op |-> "step", left |-> n, before |-> Seen])
      /\ call' \in Calls /\ call'.op = "step" /\ ~Free'
  BY <1>8, ReplayAssumption DEF BeginStep, Begin, Calls, Free, Idle
<1>10. /\ pc \notin BatchPlaces /\ pc' = "loop" /\ call.op # "reset"
  BY <1>9, CallIs DEF IInv, Begin
<1>1. TypeOK'
  BY <1>8, <1>9 DEF IInv, Begin, LogUnchanged, TypeOK
<1>2. CallOK'
  BY <1>9, ReplayAssumption DEF Begin, CallOK, Idle, BatchPlaces
<1>3. LogOK'
  BY <1>9, <1>10 DEF IInv, BatchPlaces, Begin, LogUnchanged, LogOK
<1>4. TrustedOK'
  BY <1>9, <1>10 DEF IInv, BatchPlaces, Begin, LogUnchanged, TrustedOK
<1>5. ResetOK'
  BY <1>9 DEF Begin, ResetOK, ResetPlaces
<1>6. ReportOK'
  BY <1>9, <1>10 DEF IInv, BatchPlaces, Begin, ReportOK
<1>7. StatusOK'
  BY <1>9 DEF Begin, StatusOK, FusionFresh
<1>. QED BY <1>1, <1>2, <1>3, <1>4, <1>5, <1>6, <1>7 DEF IInv

\* The invariant across BeginAdvance.
LEMMA BeginAdvanceStep ==
  ASSUME IInv, NEW m \in Nat, BeginAdvance(m), UNCHANGED unaccounted
  PROVE  IInv'
<1>8. Seen \in Views
  BY DEF IInv, TypeOK, Seen, Views
<1>9. Begin([op |-> "advance", target |-> Earlier(time + m, End), before |-> Seen])
      /\ call' \in Calls /\ call'.op = "advance" /\ ~Free'
  <2>1. Earlier(time + m, End) \in Nat
    BY EndIs DEF IInv, TypeOK, Earlier
  <2>. QED BY <1>8, <2>1, ReplayAssumption DEF BeginAdvance, Begin, Calls, Free, Idle
<1>10. /\ pc \notin BatchPlaces /\ pc' = "loop" /\ call.op # "reset"
  BY <1>9, CallIs DEF IInv, Begin
<1>1. TypeOK'
  BY <1>8, <1>9 DEF IInv, Begin, LogUnchanged, TypeOK
<1>2. CallOK'
  BY <1>9, ReplayAssumption DEF Begin, CallOK, Idle, BatchPlaces
<1>3. LogOK'
  BY <1>9, <1>10 DEF IInv, BatchPlaces, Begin, LogUnchanged, LogOK
<1>4. TrustedOK'
  BY <1>9, <1>10 DEF IInv, BatchPlaces, Begin, LogUnchanged, TrustedOK
<1>5. ResetOK'
  BY <1>9 DEF Begin, ResetOK, ResetPlaces
<1>6. ReportOK'
  BY <1>9, <1>10 DEF IInv, BatchPlaces, Begin, ReportOK
<1>7. StatusOK'
  BY <1>9 DEF Begin, StatusOK, FusionFresh
<1>. QED BY <1>1, <1>2, <1>3, <1>4, <1>5, <1>6, <1>7 DEF IInv

\* The invariant at the start.
LEMMA InitIs ==
  ASSUME Init
  PROVE  IInv
<1>1. Len(Events) \in Nat \ {0} /\ RecentLimit \in Nat \ {0} /\ Start \in Nat
      /\ unaccounted \subseteq DOMAIN Events
  BY EndIs, ReplayAssumption DEF Init
<1>2. pc = Nothing /\ Nothing \notin BatchPlaces \cup ResetPlaces \cup {"step", "advance", "reset"}
      /\ call = Idle /\ call.op = Nothing
  BY ReplayAssumption DEF Init, Idle
<1>3. TypeOK
  BY <1>1 DEF Init, TypeOK, Calls
<1>4. CallOK
  BY <1>2 DEF CallOK, BatchPlaces
<1>5. LogOK
  <2>1. index = 0 /\ \A e \in Engines : log[e] = <<>>
    BY DEF Init
  <2>. QED BY <1>2, <2>1, NothingRecorded DEF LogOK, BatchPlaces, Engines
<1>6. TrustedOK
  BY DEF Init, TrustedOK, Engines
<1>7. ResetOK
  BY <1>2 DEF ResetOK, ResetPlaces
<1>8. ReportOK
  <2>1. /\ Cardinality(OfKind("TRANSACTION", 1..0)) = 0
        /\ Cardinality(OfKind("FEED_EVENT", 1..0)) = 0
    BY CountIs
  <2>2. Earlier(0, RecentLimit) = 0
    BY <1>1 DEF Earlier
  <2>3. recent = [k \in 1..Earlier(index, RecentLimit) |->
                    index - Earlier(index, RecentLimit) + k]
    BY <2>2 DEF Init
  <2>. QED BY <1>2, <2>1, <2>3 DEF Init, ReportOK, BatchPlaces
<1>9. StatusOK
  BY <1>1, <1>2 DEF Init, StatusOK, FusionFresh, Complete, BatchPlaces
<1>. QED BY <1>3, <1>4, <1>5, <1>6, <1>7, <1>8, <1>9 DEF IInv

\* A step that changes nothing.
LEMMA Stutters ==
  ASSUME IInv, UNCHANGED replayVars
  PROVE  IInv'
<1>1. TypeOK' /\ CallOK'
  BY DEF IInv, replayVars, TypeOK, CallOK, More, Complete, Event
<1>2. LogOK' /\ TrustedOK' /\ ResetOK' /\ ReportOK'
  BY DEF IInv, replayVars, LogOK, TrustedOK, ResetOK, ReportOK
<1>3. StatusOK'
  BY DEF IInv, replayVars, StatusOK, FusionFresh, Free, Complete
<1>. QED BY <1>1, <1>2, <1>3 DEF IInv

\* The invariant, step by step.
LEMMA NextIs ==
  ASSUME IInv, [Next]_replayVars
  PROVE  IInv'
<1>1. CASE BatchStep /\ UNCHANGED unaccounted
  BY <1>1, ApplyTransactionStep, RecordLiquidityStep, RecordAnomalyStep, CountFeedStep,
     RecordFeedStep, TransactionRejectedStep, FeedRejectedStep, FinishBatchStep,
     RefreshFusionStep, SyncCasesStep DEF BatchStep
<1>2. CASE ResetStep /\ UNCHANGED unaccounted
  BY <1>2, InitializeLedgerStep, InitializeFeedStep, InitializeLiquidityStep,
     InitializeAnomalyStep, InitializeFusionStep, ResetCasesStep, ResetFieldsStep DEF ResetStep
<1>3. CASE UNCHANGED unaccounted /\ \E n \in 1..MaxSteps : BeginStep(n)
  <2>1. PICK n \in 1..MaxSteps : BeginStep(n)
    BY <1>3
  <2>. QED BY <1>3, <2>1, BeginStepStep, ReplayAssumption
<1>4. CASE UNCHANGED unaccounted /\ \E m \in 1..MaxMinutes : BeginAdvance(m)
  <2>1. PICK m \in 1..MaxMinutes : BeginAdvance(m)
    BY <1>4
  <2>. QED BY <1>4, <2>1, BeginAdvanceStep, ReplayAssumption
<1>5. CASE UNCHANGED unaccounted /\ (NothingLeft \/ BeginReset)
  BY <1>5, NothingLeftStep, BeginResetStep
<1>6. CASE UNCHANGED replayVars
  BY <1>6, Stutters
<1>. QED BY <1>1, <1>2, <1>3, <1>4, <1>5, <1>6 DEF Next, Running

-----------------------------------------------------------------------------
(* Theorems.                                                               *)

\* IInv is an invariant.
LEMMA InvariantHolds == Spec => []IInv
<1>1. Init => IInv
  BY InitIs
<1>2. IInv /\ [Next]_replayVars => IInv'
  BY NextIs
<1>. QED BY <1>1, <1>2, PTL DEF Spec

\* The fields of the controller and the logs of the engines keep their types.
THEOREM ReplayTypes == Spec => []TypeOK
<1>1. IInv => TypeOK
  BY DEF IInv
<1>. QED BY <1>1, InvariantHolds, PTL

\* Between the calls every engine has recorded what the replay has passed, each event
\* once and in order, whatever was called before, raised or was repeated.
THEOREM EnginesFollow == Spec => []EnginesFollowIndex
<1>1. IInv => EnginesFollowIndex
  <2>. SUFFICES ASSUME IInv, Free, NEW e \in Engines
                PROVE  /\ \A k, m \in DOMAIN log[e] : k < m => log[e][k] < log[e][m]
                       /\ {log[e][k] : k \in DOMAIN log[e]} = OfKind(KindOf(e), 1..index)
    BY DEF EnginesFollowIndex
  <2>1. pc = Nothing /\ call.op # "reset" /\ Nothing \notin BatchPlaces
    BY CallIs DEF IInv
  <2>2. /\ Recorded(log["anomaly"], "TRANSACTION", index)
        /\ Recorded(log["feed"], "FEED_EVENT", index)
        /\ log["ledger"] = log["anomaly"] /\ log["liquidity"] = log["anomaly"]
    BY <2>1 DEF IInv, LogOK, BatchPlaces
  <2>3. Recorded(log[e], KindOf(e), index)
    BY <2>2 DEF Engines, KindOf
  <2>. QED BY <2>3 DEF Recorded
<1>. QED BY <1>1, InvariantHolds, PTL

\* Whoever reads the engines in the middle of a batch finds the analytics at most one
\* transaction behind the ledger.
THEOREM InStepHolds == Spec => []EnginesInStep
<1>1. IInv => EnginesInStep
  <2>. SUFFICES ASSUME IInv, call.op # "reset", NEW e \in {"liquidity", "anomaly"}
                PROVE  /\ Len(log["ledger"]) - Len(log[e]) \in {0, 1}
                       /\ log[e] = SubSeq(log["ledger"], 1, Len(log[e]))
    BY DEF EnginesInStep
  <2>. DEFINE s == log["anomaly"]
              D == DOMAIN Events
              t == Append(s, index + 1)
  <2>1. s \in Seq(D)
    BY DEF IInv, LogOK, Recorded
  <2>2. /\ log["ledger"] = s \/ (log["ledger"] = t /\ pc \in {"liquidity", "anomaly"})
        /\ log[e] = s \/ (log[e] = t /\ log["ledger"] = t)
    BY DEF IInv, LogOK
  <2>3. t \in Seq(D \cup {index + 1}) /\ Len(t) = Len(s) + 1 /\ Len(s) \in Nat
    BY <2>1
  <2>4. SubSeq(s, 1, Len(s)) = s /\ SubSeq(t, 1, Len(t)) = t /\ SubSeq(t, 1, Len(s)) = s
    BY <2>1, <2>3
  <2>. HIDE DEF s, t
  <2>. QED BY <2>2, <2>3, <2>4
<1>. QED BY <1>1, InvariantHolds, PTL

\* The balance a feed event is compared with counts exactly the transactions before it.
THEOREM FeedsSee == Spec => []FeedsSeeLedger
<1>1. IInv => FeedsSeeLedger
  BY CallIs DEF IInv, TrustedOK, FeedsSeeLedger
<1>. QED BY <1>1, InvariantHolds, PTL

\* The recent events and the counters fit the index.
THEOREM ReportMatches == Spec => []ReportMatchesIndex
<1>1. IInv => ReportMatchesIndex
  <2>. SUFFICES ASSUME IInv, Free
                PROVE  ReportMatchesIndex
    BY DEF ReportMatchesIndex
  <2>1. pc # "feed"
    BY CallIs DEF IInv, BatchPlaces
  <2>2. Cardinality(OfKind("FEED_EVENT", 1..index)) \in Nat /\ feeds \in Nat
    BY CountIs DEF IInv, TypeOK
  <2>. QED BY <2>1, <2>2 DEF IInv, ReportOK, ReportMatchesIndex
<1>. QED BY <1>1, InvariantHolds, PTL

\* Incidents and cases are never left older than the replay shows, unless a call raised.
THEOREM FreshHolds == Spec => []FusionFresh
<1>1. IInv => FusionFresh
  BY DEF IInv, StatusOK
<1>. QED BY <1>1, InvariantHolds, PTL

-----------------------------------------------------------------------------
(* What a client sees: every call happens at once.                         *)

\* The loop is over.
FinishPlaces == {"fusion", "cases"}
Finished == pc \in FinishPlaces
Done == (call.before.index + 1)..index

\* How far a batch is from where it began, event by event and in time.
StepProgress ==
  LET b == call.before
  IN  /\ index + call.left > b.index
      /\ time = IF index = b.index THEN b.time ELSE Events[index].at
      /\ Finished => Complete \/ call.left = 0

AdvanceProgress ==
  LET b == call.before
  IN  /\ \E m \in 1..MaxMinutes : call.target = Earlier(b.time + m, End)
      /\ \A k \in Done : Events[k].at <= call.target
      /\ time = IF Finished THEN call.target ELSE b.time
      /\ Finished => Complete \/ Event.at > call.target

BatchProgress ==
  LET b == call.before
      tried == IF pc = "feed" THEN 1 ELSE 0
  IN  /\ b.index < Len(Events) /\ b.index <= index
      /\ pc \in {"liquidity", "anomaly"} => index + 1 \notin unaccounted
      /\ Done \cap unaccounted = {}
      /\ feeds = b.feeds + Cardinality(OfKind("FEED_EVENT", Done)) + tried
      /\ Finished => status = IF Complete THEN "COMPLETED" ELSE "PAUSED"

Progress ==
  /\ Free /\ Complete => status = "COMPLETED"
  /\ pc \in BatchPlaces => BatchProgress
  /\ pc \in BatchPlaces /\ call.op = "step" => StepProgress
  /\ pc \in BatchPlaces /\ call.op = "advance" => AdvanceProgress

\* Intervals are finite.
LEMMA IntervalIs ==
  ASSUME NEW a \in Nat, NEW n \in Nat
  PROVE  IsFiniteSet((a + 1)..n)
<1>1. a + 1 \in Int /\ n \in Int
  OBVIOUS
<1>. QED BY <1>1, FS_Interval

\* Counting on from any event.
LEMMA CountedFrom ==
  ASSUME NEW a \in Nat, NEW n \in Nat, a <= n, n < Len(Events), NEW kind
  PROVE  LET K == OfKind(kind, (a + 1)..n)
             L == OfKind(kind, (a + 1)..(n + 1))
         IN  /\ Cardinality(K) \in Nat /\ Cardinality(OfKind(kind, (a + 1)..a)) = 0
             /\ Events[n + 1].kind = kind => Cardinality(L) = Cardinality(K) + 1
             /\ Events[n + 1].kind # kind => L = K
<1>. DEFINE K == OfKind(kind, (a + 1)..n)
            L == OfKind(kind, (a + 1)..(n + 1))
<1>1. K \subseteq (a + 1)..n /\ IsFiniteSet((a + 1)..n)
  BY IntervalIs DEF OfKind
<1>2. IsFiniteSet(K) /\ Cardinality(K) \in Nat
  BY <1>1, FS_Subset, FS_CardinalityType
<1>3. n + 1 \notin K
  BY <1>1
<1>4. Events[n + 1].kind = kind => L = K \cup {n + 1}
  BY DEF OfKind
<1>5. Events[n + 1].kind # kind => L = K
  BY DEF OfKind
<1>6. Cardinality(K \cup {n + 1}) = Cardinality(K) + 1
  BY <1>2, <1>3, FS_AddElement
<1>7. OfKind(kind, (a + 1)..a) = {}
  BY DEF OfKind
<1>. QED BY <1>2, <1>4, <1>5, <1>6, <1>7, FS_EmptySet

\* The types a batch works with.
LEMMA BatchIs ==
  ASSUME IInv, pc \in BatchPlaces
  PROVE  /\ call.before.index \in Nat /\ call.before.time \in Nat /\ call.before.feeds \in Nat
         /\ index \in Nat /\ index <= Len(Events) /\ Len(Events) \in Nat
         /\ time \in Nat /\ feeds \in Nat /\ ~Free
         /\ call.op = "step" \/ call.op = "advance"
         /\ call.op = "step" => call.left \in Nat
         /\ call.op = "advance" => call.target \in Nat
BY CallIs, EndIs DEF IInv, TypeOK, Views

\* Taking an event.
LEMMA TakenProgress ==
  ASSUME IInv, Progress, pc \in {"anomaly", "feed"}, More, Taken,
         index + 1 \notin unaccounted,
         UNCHANGED <<unaccounted, feeds, status>>,
         pc = "anomaly" => Event.kind = "TRANSACTION",
         pc = "feed" => Event.kind = "FEED_EVENT"
  PROVE  Progress'
<1>1. pc \in BatchPlaces
  BY DEF BatchPlaces
<1>. DEFINE b == call.before
<1>2. /\ b.index \in Nat /\ b.time \in Nat /\ b.feeds \in Nat
      /\ index \in Nat /\ index < Len(Events) /\ Len(Events) \in Nat /\ time \in Nat /\ feeds \in Nat
      /\ call.op = "step" \/ call.op = "advance"
      /\ call.op = "step" => call.left \in Nat /\ call.left > 0
      /\ call.op = "advance" => call.target \in Nat /\ Event.at <= call.target
  BY <1>1, BatchIs DEF More, Complete
<1>3. /\ index' = index + 1 /\ pc' = "loop" /\ call'.op = call.op
      /\ call' # Idle /\ call'.before = b
      /\ call.op = "step" => call'.left = call.left - 1 /\ time' = Event.at
      /\ call.op = "advance" => call'.target = call.target /\ time' = time
  BY <1>1, TakenIs DEF IInv
<1>4. BatchProgress
  BY <1>1 DEF Progress
<1>5. /\ Done' = (b.index + 1)..(index + 1) /\ Done' = Done \cup {index + 1}
      /\ Done = (b.index + 1)..index
  BY <1>2, <1>3, <1>4 DEF Done, BatchProgress
<1>6. Cardinality(OfKind("FEED_EVENT", Done')) =
        Cardinality(OfKind("FEED_EVENT", Done)) + (IF pc = "feed" THEN 1 ELSE 0)
  <2>1. b.index <= index
    BY <1>4 DEF BatchProgress
  <2>2. pc = "feed" => Event.kind = "FEED_EVENT"
    OBVIOUS
  <2>3. pc # "feed" => Event.kind # "FEED_EVENT"
    OBVIOUS
  <2>4. Cardinality(OfKind("FEED_EVENT", Done)) \in Nat
    BY <1>2, <1>5, <2>1, CountedFrom
  <2>. QED BY <1>2, <1>5, <2>1, <2>2, <2>3, <2>4, CountedFrom DEF Event
<1>7. ~Finished /\ ~Finished'
  BY <1>3 DEF Finished, FinishPlaces
<1>8. BatchProgress'
  <2>1. Cardinality(OfKind("FEED_EVENT", Done)) \in Nat
    BY <1>2, <1>4, <1>5, CountedFrom DEF BatchProgress
  <2>. QED BY <1>2, <1>3, <1>4, <1>5, <1>6, <1>7, <2>1 DEF BatchProgress
<1>9. CASE call.op = "step"
  <2>1. StepProgress'
    BY <1>1, <1>2, <1>3, <1>4, <1>7, <1>9 DEF Progress, StepProgress, BatchProgress, Event
  <2>. QED BY <1>3, <1>8, <1>9, <2>1 DEF Progress, Free, Idle
<1>10. CASE call.op = "advance"
  <2>1. AdvanceProgress
    BY <1>1, <1>10 DEF Progress
  <2>2. AdvanceProgress'
    BY <1>2, <1>3, <1>5, <1>7, <1>10, <2>1 DEF AdvanceProgress, Event
  <2>. QED BY <1>3, <1>8, <1>10, <2>2 DEF Progress, Free, Idle
<1>. QED BY <1>2, <1>9, <1>10

\* Moving on inside the batch.
LEMMA MovesProgress ==
  ASSUME IInv, IInv', Progress, UNCHANGED <<unaccounted, call, index, time, status>>,
         pc \in BatchPlaces, pc' \in BatchPlaces, Finished' = Finished,
         feeds' = feeds + (IF pc' = "feed" THEN 1 ELSE 0) - (IF pc = "feed" THEN 1 ELSE 0),
         pc' \in {"liquidity", "anomaly"} => index + 1 \notin unaccounted
  PROVE  Progress'
<1>1. Done' = Done /\ ~Free /\ ~Free' /\ feeds \in Nat
  BY BatchIs DEF Done, Free
<1>2. /\ call.before.index \in Nat /\ call.before.feeds \in Nat /\ index \in Nat
      /\ index <= Len(Events) /\ Len(Events) \in Nat
  BY BatchIs
<1>3. BatchProgress
  BY DEF Progress
<1>4. Cardinality(OfKind("FEED_EVENT", Done)) \in Nat
  <2>1. OfKind("FEED_EVENT", Done) \subseteq Done /\ IsFiniteSet(Done)
    BY <1>2, IntervalIs DEF OfKind, Done
  <2>. QED BY <2>1, FS_Subset, FS_CardinalityType
<1>5. BatchProgress'
  BY <1>1, <1>2, <1>3, <1>4 DEF BatchProgress, Complete
<1>6. call.op = "step" => StepProgress'
  BY DEF Progress, StepProgress, Complete
<1>7. call.op = "advance" => AdvanceProgress'
  BY <1>1 DEF Progress, AdvanceProgress, Complete, Event
<1>. QED BY <1>1, <1>5, <1>6, <1>7 DEF Progress

\* The loop ends.
LEMMA FinishProgress ==
  ASSUME IInv, Progress, FinishBatch, UNCHANGED unaccounted
  PROVE  Progress'
<1>. DEFINE b == call.before
<1>1. pc \in BatchPlaces /\ pc' = "fusion" /\ call' = call /\ index' = index /\ feeds' = feeds
      /\ ~Finished /\ Finished' /\ pc # "feed"
  BY DEF FinishBatch, BatchPlaces, Finished, FinishPlaces
<1>2. /\ b.index \in Nat /\ b.time \in Nat
      /\ index \in Nat /\ index <= Len(Events) /\ Len(Events) \in Nat /\ time \in Nat /\ ~Free
      /\ call.op = "step" \/ call.op = "advance"
      /\ call.op = "step" => call.left \in Nat
      /\ call.op = "advance" => call.target \in Nat
  BY <1>1, BatchIs
<1>3. BatchProgress /\ Done' = Done /\ Complete' = Complete /\ ~Free'
  BY <1>1, <1>2 DEF Progress, Done, Complete, Free
<1>4. BatchProgress'
  BY <1>1, <1>3 DEF BatchProgress, FinishBatch
<1>5. Complete => index = Len(Events) /\ index \in Done /\ End \in Nat
  BY <1>2, <1>3, EndIs DEF Complete, Done, BatchProgress
<1>6. CASE call.op = "step"
  <2>1. StepProgress
    BY <1>1, <1>6 DEF Progress
  <2>2. Complete \/ call.left = 0
    BY <1>2, <1>6 DEF FinishBatch, More
  <2>3. time' = time
    BY <1>2, <1>3, <1>5, <1>6, <2>1 DEF FinishBatch, StepProgress, End, BatchProgress
  <2>4. StepProgress'
    BY <1>1, <1>3, <2>1, <2>2, <2>3 DEF StepProgress
  <2>. QED BY <1>1, <1>3, <1>4, <1>6, <2>4 DEF Progress
<1>7. CASE call.op = "advance"
  <2>1. AdvanceProgress
    BY <1>1, <1>7 DEF Progress
  <2>2. Complete \/ Event.at > call.target
    <3>1. ~Complete => Event.at \in Nat
      BY <1>2, EventIs DEF Complete, Event
    <3>. QED BY <1>2, <1>7, <3>1 DEF FinishBatch, More
  <2>3. time' = call.target
    <3>1. CASE ~Complete
      BY <1>7, <3>1 DEF FinishBatch
    <3>2. CASE Complete
      <4>1. call.target <= End
        <5>1. PICK m \in 1..MaxMinutes : call.target = Earlier(b.time + m, End)
          BY <2>1 DEF AdvanceProgress
        <5>2. b.time + m \in Nat
          BY <1>2, ReplayAssumption
        <5>. QED BY <1>5, <3>2, <5>1, <5>2 DEF Earlier
      <4>2. End <= call.target
        BY <1>5, <2>1, <3>2 DEF AdvanceProgress, End
      <4>. QED BY <1>2, <1>5, <1>7, <3>2, <4>1, <4>2 DEF FinishBatch
    <3>. QED BY <3>1, <3>2
  <2>4. AdvanceProgress'
    BY <1>1, <1>3, <2>1, <2>2, <2>3 DEF AdvanceProgress, Event
  <2>. QED BY <1>1, <1>3, <1>4, <1>7, <2>4 DEF Progress
<1>. QED BY <1>2, <1>6, <1>7

\* The beginning of a batch.
LEMMA BeginProgress ==
  ASSUME IInv, NEW c, Begin(c), UNCHANGED unaccounted, c.before = Seen, c # Idle,
         \/ c.op = "step" /\ c.left \in Nat \ {0}
         \/ /\ c.op = "advance"
            /\ \E m \in 1..MaxMinutes : c.target = Earlier(time + m, End)
  PROVE  Progress'
<1>1. /\ call' = c /\ pc' = "loop" /\ index' = index /\ time' = time /\ feeds' = feeds
      /\ index \in Nat /\ index < Len(Events) /\ Len(Events) \in Nat /\ feeds \in Nat
      /\ c.before.index = index /\ c.before.time = time /\ c.before.feeds = feeds
      /\ ~Free' /\ ~Finished'
  BY EndIs DEF IInv, TypeOK, Begin, Complete, Seen, Free, Finished, FinishPlaces
<1>2. Done' = (index + 1)..index
  BY <1>1 DEF Done
<1>3. Done' = {} /\ Cardinality(OfKind("FEED_EVENT", Done')) = 0
  BY <1>1, <1>2, CountedFrom
<1>4. BatchProgress'
  BY <1>1, <1>3 DEF BatchProgress
<1>5. c.op = "step" => StepProgress'
  BY <1>1 DEF StepProgress
<1>6. c.op = "advance" => AdvanceProgress'
  BY <1>1, <1>3 DEF AdvanceProgress
<1>. QED BY <1>1, <1>4, <1>5, <1>6 DEF Progress

\* No batch is left: the replay is not complete, or its status says so.
LEMMA RestProgress ==
  ASSUME pc' \notin BatchPlaces, Free' /\ Complete' => status' = "COMPLETED"
  PROVE  Progress'
BY DEF Progress

\* The loaded data stay.
LEMMA UnaccountedStays ==
  ASSUME [Next]_replayVars
  PROVE  UNCHANGED unaccounted
BY DEF Next, Running, replayVars

\* Progress, action by action.
LEMMA NextProgress ==
  ASSUME IInv, IInv', Progress, [Next]_replayVars
  PROVE  Progress'
<1>1. Nothing \notin BatchPlaces \cup ResetPlaces \cup {"step", "advance", "reset"}
  BY ReplayAssumption
<1>2. UNCHANGED unaccounted
  BY UnaccountedStays
<1>3. CASE ApplyTransaction \/ RecordLiquidity \/ CountFeed \/ RefreshFusion
  <2>1. /\ UNCHANGED <<call, index, time, status>>
        /\ pc \in BatchPlaces /\ pc' \in BatchPlaces /\ Finished' = Finished
        /\ feeds' = feeds + (IF pc' = "feed" THEN 1 ELSE 0) - (IF pc = "feed" THEN 1 ELSE 0)
    <3>1. feeds \in Nat
      BY DEF IInv, TypeOK
    <3>. QED BY <1>3, <3>1 DEF ApplyTransaction, RecordLiquidity, CountFeed, RefreshFusion,
                         BatchPlaces, Finished, FinishPlaces, LogUnchanged
  <2>2. pc' \in {"liquidity", "anomaly"} => index + 1 \notin unaccounted
    BY <1>3, <2>1 DEF Progress, BatchProgress, ApplyTransaction, RecordLiquidity,
                      CountFeed, RefreshFusion
  <2>. QED BY <1>2, <2>1, <2>2, MovesProgress
<1>4. CASE RecordAnomaly \/ RecordFeed
  <2>1. /\ pc \in {"anomaly", "feed"} /\ Taken /\ UNCHANGED <<feeds, status>>
        /\ RecordFeed => index + 1 \notin unaccounted
    BY <1>4 DEF RecordAnomaly, RecordFeed
  <2>2. /\ More
        /\ pc = "anomaly" => Event.kind = "TRANSACTION"
        /\ pc = "feed" => Event.kind = "FEED_EVENT"
    BY <2>1 DEF IInv, CallOK
  <2>3. index + 1 \notin unaccounted
    BY <1>4, <2>1 DEF RecordAnomaly, Progress, BatchProgress, BatchPlaces
  <2>. QED BY <1>2, <2>1, <2>2, <2>3, TakenProgress
<1>5. CASE FinishBatch
  BY <1>2, <1>5, FinishProgress
<1>6. CASE TransactionRejected \/ FeedRejected
  <2>1. More /\ pc' = Nothing /\ index' = index
    BY <1>6 DEF TransactionRejected, FeedRejected, Raise, IInv, CallOK
  <2>. QED BY <1>1, <2>1, RestProgress DEF More, Complete
<1>7. CASE SyncCases
  <2>1. /\ pc' = Nothing /\ index' = index /\ status' = status
        /\ pc \in BatchPlaces /\ Finished
    BY <1>7 DEF SyncCases, BatchPlaces, Finished, FinishPlaces
  <2>. QED BY <1>1, <2>1, RestProgress DEF Progress, BatchProgress, Complete
<1>8. CASE ResetStep
  <2>1. pc' \in ResetPlaces \cup {Nothing}
    BY <1>8 DEF ResetStep, InitializeEngine, InitializeFusion, ResetCases, ResetFields, ResetPlaces
  <2>2. pc' \in ResetPlaces \/ index' = 0
    BY <1>8 DEF ResetStep, InitializeEngine, InitializeFusion, ResetCases, ResetFields, ResetPlaces
  <2>3. pc' \in ResetPlaces => ~ Free'
    BY <1>1 DEF IInv, CallOK, Free
  <2>4. index' = 0 => ~ Complete'
    BY EndIs DEF Complete
  <2>5. BatchPlaces \cap ResetPlaces = {}
    BY DEF BatchPlaces, ResetPlaces
  <2>. QED BY <1>1, <2>1, <2>2, <2>3, <2>4, <2>5, RestProgress
<1>9. CASE \E n \in 1..MaxSteps : BeginStep(n)
  <2>1. PICK n \in 1..MaxSteps : BeginStep(n)
    BY <1>9
  <2>. DEFINE c == [op |-> "step", left |-> n, before |-> Seen]
  <2>2. /\ Begin(c) /\ c.before = Seen /\ c.op = "step" /\ c.left = n
        /\ n \in Nat \ {0}
    BY <2>1, ReplayAssumption DEF BeginStep
  <2>3. c # Idle
    <3>1. Idle.op = Nothing /\ c.op # Nothing
      BY <1>1 DEF Idle
    <3>. QED BY <3>1
  <2>. HIDE DEF c
  <2>. QED BY <1>2, <2>2, <2>3, BeginProgress
<1>10. CASE \E m \in 1..MaxMinutes : BeginAdvance(m)
  <2>1. PICK m \in 1..MaxMinutes : BeginAdvance(m)
    BY <1>10
  <2>. DEFINE c == [op |-> "advance", target |-> Earlier(time + m, End), before |-> Seen]
  <2>2. /\ Begin(c) /\ c.before = Seen /\ c.op = "advance"
        /\ c.target = Earlier(time + m, End)
    BY <2>1 DEF BeginAdvance
  <2>3. c # Idle
    <3>1. Idle.op = Nothing /\ c.op # Nothing
      BY <1>1 DEF Idle
    <3>. QED BY <3>1
  <2>. HIDE DEF c
  <2>. QED BY <1>2, <2>2, <2>3, BeginProgress
<1>11. CASE NothingLeft
  <2>1. pc' = pc /\ pc = Nothing /\ status' = "COMPLETED"
    BY <1>11, CallIs DEF IInv, NothingLeft
  <2>. QED BY <1>1, <2>1, RestProgress
<1>12. CASE BeginReset
  <2>1. pc' = "initialize ledger" /\ pc' \in ResetPlaces /\ pc' \notin BatchPlaces
    BY <1>12 DEF BeginReset, BatchPlaces, ResetPlaces
  <2>2. ~ Free'
    BY <1>1, <2>1 DEF IInv, CallOK, Free
  <2>. QED BY <2>1, <2>2, RestProgress
<1>13. CASE UNCHANGED replayVars
  BY <1>13 DEF replayVars, Progress, BatchProgress, StepProgress, AdvanceProgress, Finished,
               Done, Free, Complete, Event
<1>. QED BY <1>3, <1>4, <1>5, <1>6, <1>7, <1>8, <1>9, <1>10, <1>11, <1>12, <1>13
         DEF Next, Running, BatchStep

\* No batch has begun.
LEMMA InitProgress == Init => Progress
<1>1. Nothing \notin BatchPlaces
  BY ReplayAssumption
<1>2. Len(Events) \in Nat \ {0}
  BY EndIs
<1>. QED BY <1>1, <1>2 DEF Init, Progress, Complete

-----------------------------------------------------------------------------
(* The calls as they are seen: all at once.                                *)

\* A bounded set of numbers has a greatest member.
LEMMA GreatestExists ==
  ASSUME NEW n \in Nat, NEW S \in SUBSET (0..n), S # {}
  PROVE  \E x \in S : \A y \in S : x >= y
<1>. DEFINE R == OpToRel(<, Nat)
            T == {m \in Nat : n - m \in S}
<1>1. \A x, y \in Nat : <<x, y>> \in R <=> x < y
  BY DEF OpToRel
<1>2. IsWellFoundedOn(R, Nat)
  BY NatLessThanWellFounded
<1>3. T \subseteq Nat /\ T # {}
  <2>1. PICK x \in S : TRUE
    OBVIOUS
  <2>2. n - x \in Nat /\ n - (n - x) = x
    OBVIOUS
  <2>3. n - x \in T
    BY <2>2
  <2>. QED BY <2>3
<1>. HIDE DEF R, T
<1>4. PICK x \in T : \A y \in T : ~ (<<y, x>> \in R)
  BY <1>2, <1>3, WFMin
<1>5. x \in Nat /\ n - x \in S
  BY <1>4 DEF T
<1>6. ASSUME NEW y \in S PROVE n - x >= y
  <2>1. n - y \in T
    <3>1. n - y \in Nat /\ n - (n - y) = y
      OBVIOUS
    <3>. QED BY <3>1 DEF T
  <2>2. ~(n - y < x)
    BY <1>1, <1>3, <1>4, <1>5, <2>1
  <2>. QED BY <1>5, <2>2
<1>. QED BY <1>5, <1>6

\* Min and Max of the view are what they are called.
LEMMA LeastIs ==
  ASSUME NEW S \in SUBSET Int, NEW x \in S, \A y \in S : x <= y
  PROVE  View!Min(S) = x
<1>1. \A z \in S : (\A y \in S : z <= y) => z = x
  OBVIOUS
<1>. QED BY <1>1 DEF View!Min

\* The greatest member is Max of the view.
LEMMA GreatestIs ==
  ASSUME NEW S \in SUBSET Int, NEW x \in S, \A y \in S : x >= y
  PROVE  View!Max(S) = x
<1>1. \A z \in S : (\A y \in S : z >= y) => z = x
  OBVIOUS
<1>. QED BY <1>1 DEF View!Max

\* What a client is shown, and the operators of the view.
Shown == IF Free THEN Seen ELSE call.before

\* The view counts as the replay does.
LEMMA CardinalityIs ==
  ASSUME NEW S
  PROVE  View!Cardinality(S) = Cardinality(S)
BY DEF View!Cardinality, Cardinality

\* The last event of the view.
LEMMA LastIs == View!Last = Len(Events) /\ View!End = End
<1>1. Len(Events) \in Nat \ {0} /\ DOMAIN Events = 1..Len(Events)
  BY EndIs, EventIs
<1>2. Len(Events) \in Int /\ 1 \in Int
  BY <1>1
<1>3. Cardinality(1..Len(Events)) = Len(Events)
  BY <1>1, <1>2, FS_Interval
<1>. QED BY <1>1, <1>3, CardinalityIs DEF View!Last, View!End, End

\* The feed events of the view.
LEMMA FeedsIs ==
  ASSUME NEW K
  PROVE  View!Feeds(K) = Cardinality(OfKind("FEED_EVENT", K))
BY CardinalityIs DEF View!Feeds, OfKind

\* A batch that ran to its end.
LEMMA RanOver ==
  ASSUME IInv, Progress, SyncCases, UNCHANGED unaccounted, NEW timeAt,
         NEW clock, clock = time
  PROVE  Shown' = View!Ran(index, clock, timeAt)
<1>. DEFINE b == call.before
<1>1. /\ pc = "cases" /\ pc \in BatchPlaces /\ Finished /\ call' = Idle
      /\ UNCHANGED <<index, time, status, feeds>>
  BY DEF SyncCases, BatchPlaces, Finished, FinishPlaces
<1>2. /\ BatchProgress /\ ~ Free /\ Free' /\ index \in Nat /\ b.index \in Nat
      /\ Len(Events) \in Nat /\ index <= Len(Events)
      /\ b.feeds \in Nat
  BY <1>1, BatchIs DEF Progress, Free
<1>3. unaccounted \cap (b.index + 1 .. index) = {}
  BY <1>2 DEF BatchProgress, Done
<1>4. Shown' = [index |-> index, time |-> time, status |-> status, feeds |-> feeds]
  BY <1>1, <1>2 DEF Shown, Seen
<1>5. status = IF index = Len(Events) THEN "COMPLETED" ELSE "PAUSED"
  BY <1>1, <1>2 DEF BatchProgress, Complete
<1>6. feeds = b.feeds + Cardinality(OfKind("FEED_EVENT", b.index + 1 .. index))
  <2>1. Cardinality(OfKind("FEED_EVENT", Done)) \in Nat
    <3>1. OfKind("FEED_EVENT", Done) \subseteq Done /\ IsFiniteSet(Done)
      BY <1>2, IntervalIs DEF OfKind, Done
    <3>. QED BY <3>1, FS_Subset, FS_CardinalityType
  <2>2. feeds = b.feeds + Cardinality(OfKind("FEED_EVENT", Done))
    BY <1>1, <1>2, <2>1 DEF BatchProgress
  <2>. QED BY <2>2 DEF Done
<1>. QED BY <1>2, <1>3, <1>4, <1>5, <1>6, LastIs, FeedsIs DEF View!Ran

\* A batch that broke off.
LEMMA BrokeOff ==
  ASSUME IInv, Progress, TransactionRejected \/ FeedRejected, UNCHANGED unaccounted,
         NEW n \in Nat, index < n, NEW timeAt, timeAt[index] = time, NEW clock
  PROVE  Shown' = View!Ran(n, clock, timeAt)
<1>. DEFINE b == call.before
            bad == unaccounted \cap (b.index + 1 .. n)
<1>1. /\ pc \in {"loop", "feed"} /\ pc \in BatchPlaces /\ call' = Idle /\ More
      /\ UNCHANGED <<index, time, status, feeds>>
      /\ index + 1 \in unaccounted
      /\ pc = "loop" => Event.kind # "FEED_EVENT"
      /\ pc = "feed" => Event.kind = "FEED_EVENT"
  BY DEF TransactionRejected, FeedRejected, Raise, BatchPlaces, IInv, CallOK
<1>2. /\ BatchProgress /\ ~ Free /\ Free' /\ index \in Nat /\ b.index \in Nat
      /\ Len(Events) \in Nat /\ index < Len(Events) /\ b.index <= index
      /\ b.feeds \in Nat /\ feeds \in Nat
  BY <1>1, BatchIs DEF Progress, Free, More, Complete, BatchProgress
<1>3. View!Min(bad) = index + 1 /\ bad # {}
  <2>1. bad \in SUBSET Int /\ index + 1 \in bad
    BY <1>1, <1>2
  <2>2. \A y \in bad : index + 1 <= y
    BY <1>2 DEF BatchProgress, Done
  <2>. HIDE DEF bad
  <2>. QED BY <2>1, <2>2, LeastIs
<1>4. Shown' = [index |-> index, time |-> time, status |-> "RUNNING", feeds |-> feeds]
  BY <1>1, <1>2 DEF Shown, Seen, IInv, StatusOK
<1>5. feeds = b.feeds + Cardinality(OfKind("FEED_EVENT", b.index + 1 .. index + 1))
  <2>. DEFINE K == OfKind("FEED_EVENT", (b.index + 1)..index)
              L == OfKind("FEED_EVENT", (b.index + 1)..(index + 1))
  <2>1. /\ Cardinality(K) \in Nat
        /\ Event.kind = "FEED_EVENT" => Cardinality(L) = Cardinality(K) + 1
        /\ Event.kind # "FEED_EVENT" => L = K
    BY <1>2, CountedFrom DEF Event
  <2>2. feeds = b.feeds + Cardinality(K) + (IF pc = "feed" THEN 1 ELSE 0)
    BY <1>2 DEF BatchProgress, Done
  <2>. HIDE DEF K, L
  <2>3. feeds = b.feeds + Cardinality(L)
    BY <1>1, <1>2, <2>1, <2>2
  <2>. QED BY <2>3 DEF L
<1>6. (index + 1) - 1 = index
  BY <1>2
<1>. HIDE DEF bad
<1>7. View!Ran(n, clock, timeAt) =
        [index |-> View!Min(bad) - 1, time |-> timeAt[View!Min(bad) - 1], status |-> "RUNNING",
         feeds |-> b.feeds + View!Feeds(b.index + 1 .. View!Min(bad))]
  BY <1>2, <1>3 DEF View!Ran, bad
<1>. QED BY <1>3, <1>4, <1>5, <1>6, <1>7, FeedsIs

\* How far a step reaches.
LEMMA StepReaches ==
  ASSUME NEW a \in Nat, NEW n \in Nat \ {0}, a + n <= Len(Events)
  PROVE  View!Min({a + n, View!Last}) = a + n
<1>1. Len(Events) \in Nat /\ View!Last = Len(Events)
  BY EndIs, LastIs
<1>. DEFINE S == {a + n, View!Last}
<1>2. S \in SUBSET Int /\ a + n \in S /\ \A y \in S : a + n <= y
  BY <1>1
<1>. HIDE DEF S
<1>3. View!Min(S) = a + n
  BY <1>2, LeastIs
<1>. QED BY <1>3 DEF S

\* Where the clock of an advance stops, and how far its loop reaches.
LEMMA EarlierIs ==
  ASSUME NEW x \in Nat, NEW y \in Nat
  PROVE  View!Min({x, y}) = Earlier(x, y)
<1>. DEFINE S == {x, y}
<1>1. S \in SUBSET Int /\ Earlier(x, y) \in S /\ \A z \in S : Earlier(x, y) <= z
  BY DEF Earlier
<1>. HIDE DEF S
<1>2. View!Min(S) = Earlier(x, y)
  BY <1>1, LeastIs
<1>. QED BY <1>2 DEF S

\* More minutes than are left are as good as all of them.
LEMMA AdvanceStops ==
  ASSUME IInv, Progress, pc \in BatchPlaces, call.op = "advance"
  PROVE  \E n \in 1..(View!Last + View!End) :
           View!Min({call.before.time + n, View!End}) = call.target
<1>. DEFINE t == call.before.time
            all == Len(Events) + End
<1>1. /\ t \in Nat /\ End \in Nat /\ Len(Events) \in Nat \ {0}
      /\ View!Last = Len(Events) /\ View!End = End
  BY BatchIs, EndIs, LastIs
<1>2. PICK m \in 1..MaxMinutes : call.target = Earlier(t + m, End)
  BY DEF Progress, AdvanceProgress
<1>3. m \in Nat \ {0} /\ t + m \in Nat
  BY <1>1, ReplayAssumption
<1>4. \E n \in 1..all : View!Min({t + n, End}) = call.target
  <2>1. CASE m <= all
    <3>1. m \in 1..all /\ View!Min({t + m, End}) = Earlier(t + m, End)
      BY <1>1, <1>3, <2>1, EarlierIs
    <3>. QED BY <1>2, <3>1
  <2>2. CASE all < m
    <3>1. all \in 1..all /\ t + all \in Nat
      BY <1>1
    <3>2. Earlier(t + all, End) = Earlier(t + m, End)
      BY <1>1, <1>3, <2>2 DEF Earlier
    <3>3. View!Min({t + all, End}) = Earlier(t + all, End)
      BY <1>1, <3>1, EarlierIs
    <3>. QED BY <1>2, <3>1, <3>2, <3>3
  <2>3. m <= all \/ all < m
    BY <1>1, <1>3
  <2>. QED BY <2>1, <2>2, <2>3
<1>. QED BY <1>1, <1>4

\* Every call that ends is a step of the view.
LEMMA SyncCasesSeen ==
  ASSUME IInv, Progress, SyncCases, UNCHANGED unaccounted
  PROVE  View!Next
<1>. DEFINE b == call.before
<1>1. pc = "cases" /\ pc \in BatchPlaces /\ Finished
  BY DEF SyncCases, BatchPlaces, Finished, FinishPlaces
<1>2. /\ ~ Free /\ b.index \in Nat /\ b.time \in Nat /\ index \in Nat /\ time \in Nat
      /\ index <= Len(Events) /\ Len(Events) \in Nat
      /\ BatchProgress /\ b.index < Len(Events) /\ b.index <= index
      /\ call.op = "step" \/ call.op = "advance"
      /\ call.op = "step" => call.left \in Nat
      /\ call.op = "advance" => call.target \in Nat
  BY <1>1, BatchIs DEF Progress, BatchProgress
<1>3. View!Last = Len(Events) /\ View!End = End /\ End \in Nat
  BY LastIs, EndIs
<1>4. CASE call.op = "step"
  <2>. DEFINE n == index - b.index
              timeAt == [k \in b.index..index |-> IF k = b.index THEN b.time ELSE Events[k].at]
  <2>1. StepProgress
    BY <1>1, <1>4 DEF Progress
  <2>2. n \in Nat \ {0} /\ b.index + n = index
    BY <1>1, <1>2, <1>4, <2>1 DEF StepProgress, Complete
  <2>3. View!Min({b.index + n, View!Last}) = index
    BY <1>2, <2>2, StepReaches
  <2>4. Events[index].at = time
    BY <1>2, <2>1, <2>2 DEF StepProgress
  <2>. HIDE DEF n, timeAt
  <2>5. Shown' = View!Ran(index, Events[index].at, timeAt)
    BY <2>4, RanOver
  <2>6. View!Step(n)
    BY <1>2, <1>3, <2>3, <2>5 DEF View!Step, Shown, timeAt
  <2>7. n \in 1..(View!Last + View!End)
    BY <1>2, <1>3, <2>2
  <2>. QED BY <2>6, <2>7 DEF View!Next
<1>5. CASE call.op = "advance"
  <2>. DEFINE S == {b.index} \cup {k \in DOMAIN Events : Events[k].at <= call.target}
              timeAt == [k \in b.index..index |-> b.time]
  <2>1. AdvanceProgress
    BY <1>1, <1>5 DEF Progress
  <2>2. PICK n \in 1..(View!Last + View!End) :
          View!Min({b.time + n, View!End}) = call.target
    BY <1>1, <1>5, AdvanceStops
  <2>3. time = call.target
    BY <1>1, <2>1 DEF AdvanceProgress
  <2>4. DOMAIN Events = 1..Len(Events) /\ \A k \in DOMAIN Events : Events[k].at \in Nat
    BY EndIs, EventIs
  <2>5. S \in SUBSET Int /\ index \in S
    BY <1>2, <2>1, <2>4 DEF AdvanceProgress, Done
  <2>6. \A k \in S : index >= k
    <3>. SUFFICES ASSUME NEW k \in DOMAIN Events, k > index
                  PROVE  ~(Events[k].at <= call.target)
      BY <1>2, <2>4
    <3>1. ~ Complete /\ index + 1 \in DOMAIN Events /\ index + 1 <= k
      BY <1>2, <2>4 DEF Complete
    <3>2. Event.at > call.target
      BY <1>1, <2>1, <3>1 DEF AdvanceProgress
    <3>3. Event.at \in Nat /\ Events[k].at \in Nat
      BY <2>4, <3>1 DEF Event
    <3>4. Event.at <= Events[k].at
      <4>1. \A j, m \in DOMAIN Events : j < m => Events[j].at <= Events[m].at
        BY ReplayAssumption
      <4>2. k = index + 1 \/ index + 1 < k
        BY <1>2, <2>4, <3>1
      <4>. QED BY <3>1, <3>3, <4>1, <4>2 DEF Event
    <3>. QED BY <1>2, <1>5, <3>2, <3>3, <3>4
  <2>. HIDE DEF S
  <2>7. View!Max(S) = index
    BY <2>5, <2>6, GreatestIs
  <2>. HIDE DEF timeAt
  <2>8. Shown' = View!Ran(index, call.target, timeAt)
    BY <2>3, RanOver
  <2>9. View!Advance(n)
    BY <1>2, <1>3, <2>2, <2>7, <2>8 DEF View!Advance, Shown, S, timeAt
  <2>. QED BY <2>9 DEF View!Next
<1>. QED BY <1>2, <1>4, <1>5

\* A call that raises is a step of the view.
LEMMA BrokenSeen ==
  ASSUME IInv, Progress, TransactionRejected \/ FeedRejected, UNCHANGED unaccounted
  PROVE  View!Next
<1>. DEFINE b == call.before
<1>1. pc \in BatchPlaces /\ ~ Finished /\ More
  BY DEF TransactionRejected, FeedRejected, BatchPlaces, Finished, FinishPlaces, IInv, CallOK
<1>2. /\ ~ Free /\ b.index \in Nat /\ b.time \in Nat /\ index \in Nat /\ time \in Nat
      /\ index < Len(Events) /\ Len(Events) \in Nat
      /\ BatchProgress /\ b.index <= index /\ b.index < Len(Events)
      /\ call.op = "step" \/ call.op = "advance"
      /\ call.op = "advance" => call.target \in Nat /\ Event.at <= call.target
  BY <1>1, BatchIs DEF Progress, BatchProgress, More, Complete
<1>3. View!Last = Len(Events) /\ View!End = End /\ End \in Nat
  BY LastIs, EndIs
<1>4. CASE call.op = "step"
  <2>. DEFINE n == index + 1 - b.index
              to == index + 1
              timeAt == [k \in b.index..to |-> IF k = b.index THEN b.time ELSE Events[k].at]
  <2>1. StepProgress
    BY <1>1, <1>4 DEF Progress
  <2>2. n \in Nat \ {0} /\ b.index + n = to
    BY <1>2
  <2>3. View!Min({b.index + n, View!Last}) = to
    BY <1>2, <2>2, StepReaches
  <2>4. timeAt[index] = time
    BY <1>2, <2>1 DEF StepProgress
  <2>5. to \in Nat /\ index < to
    BY <1>2
  <2>. HIDE DEF n, timeAt, to
  <2>6. Shown' = View!Ran(to, Events[to].at, timeAt)
    BY <2>4, <2>5, BrokeOff
  <2>7. View!Step(n)
    BY <1>2, <1>3, <2>3, <2>6 DEF View!Step, Shown, timeAt
  <2>8. n \in 1..(View!Last + View!End)
    BY <1>2, <1>3, <2>2 DEF to
  <2>. QED BY <2>7, <2>8 DEF View!Next
<1>5. CASE call.op = "advance"
  <2>. DEFINE S == {b.index} \cup {k \in DOMAIN Events : Events[k].at <= call.target}
              timeAt(to) == [k \in b.index..to |-> b.time]
  <2>1. AdvanceProgress
    BY <1>1, <1>5 DEF Progress
  <2>2. PICK n \in 1..(View!Last + View!End) :
          View!Min({b.time + n, View!End}) = call.target
    BY <1>1, <1>5, AdvanceStops
  <2>3. time = b.time
    BY <1>1, <2>1 DEF AdvanceProgress
  <2>4. DOMAIN Events = 1..Len(Events)
    BY <1>2, EventIs
  <2>5. S \in SUBSET (0..Len(Events)) /\ index + 1 \in S /\ S # {}
    BY <1>2, <1>5, <2>4 DEF Event
  <2>. HIDE DEF S
  <2>6. PICK to \in S : \A k \in S : to >= k
    BY <1>2, <2>5, GreatestExists
  <2>7. View!Max(S) = to
    <3>1. S \in SUBSET Int
      BY <2>5
    <3>. QED BY <2>6, <3>1, GreatestIs
  <2>8. to \in Nat /\ index < to
    BY <1>2, <2>5, <2>6
  <2>9. timeAt(to)[index] = time
    BY <1>2, <2>3, <2>8
  <2>. HIDE DEF timeAt
  <2>10. Shown' = View!Ran(to, call.target, timeAt(to))
    BY <2>8, <2>9, BrokeOff
  <2>11. View!Advance(n)
    BY <1>2, <1>3, <2>2, <2>7, <2>10 DEF View!Advance, Shown, S, timeAt
  <2>. QED BY <2>11 DEF View!Next
<1>. QED BY <1>2, <1>4, <1>5

\* The last step of a reset is the reset of the view.
LEMMA ResetSeen ==
  ASSUME ResetFields, UNCHANGED unaccounted
  PROVE  View!Next
<1>1. Shown' = [index |-> 0, time |-> Start, status |-> "READY", feeds |-> 0]
  BY DEF ResetFields, Shown, Free, Seen, Idle
<1>. QED BY <1>1 DEF View!Next, View!Reset, View!Opened, Shown

\* Every other step leaves what is shown alone.
LEMMA BeginsUnseen ==
  ASSUME IInv, Progress,
         \/ \E n \in 1..MaxSteps : BeginStep(n)
         \/ \E m \in 1..MaxMinutes : BeginAdvance(m)
         \/ NothingLeft \/ BeginReset
  PROVE  Shown' = Shown
<1>1. Free /\ UNCHANGED <<index, time, feeds>>
  BY DEF BeginStep, BeginAdvance, Begin, NothingLeft, BeginReset
<1>2. Shown = Seen
  BY <1>1 DEF Shown
<1>3. Nothing \notin {"step", "advance", "reset"}
  BY ReplayAssumption
<1>4. CASE NothingLeft
  BY <1>1, <1>2, <1>4 DEF NothingLeft, Progress, Shown, Seen, Free, Idle
<1>5. CASE ~ NothingLeft
  <2>1. call'.before = Seen /\ call'.op \in {"step", "advance", "reset"}
    <3>1. CASE \E n \in 1..MaxSteps : BeginStep(n)
      <4>1. PICK n \in 1..MaxSteps : BeginStep(n)
        BY <3>1
      <4>2. call' = [op |-> "step", left |-> n, before |-> Seen]
        BY <4>1 DEF BeginStep, Begin
      <4>. QED BY <4>2
    <3>2. CASE \E m \in 1..MaxMinutes : BeginAdvance(m)
      <4>1. PICK m \in 1..MaxMinutes : BeginAdvance(m)
        BY <3>2
      <4>2. call' = [op |-> "advance", target |-> Earlier(time + m, End), before |-> Seen]
        BY <4>1 DEF BeginAdvance, Begin
      <4>. QED BY <4>2
    <3>3. CASE BeginReset
      BY <3>3 DEF BeginReset
    <3>. QED BY <1>5, <3>1, <3>2, <3>3
  <2>2. ~ Free'
    BY <1>3, <2>1 DEF Free, Idle
  <2>. QED BY <1>2, <2>1, <2>2 DEF Shown
<1>. QED BY <1>4, <1>5

\* Nothing inside a call is seen.
LEMMA MovesUnseen ==
  ASSUME IInv,
         \/ ApplyTransaction \/ RecordLiquidity \/ RecordAnomaly \/ CountFeed
         \/ RecordFeed \/ FinishBatch \/ RefreshFusion
         \/ ResetStep /\ ~ ResetFields
  PROVE  Shown' = Shown
<1>1. ~ Free
  <2>1. pc \in BatchPlaces \cup ResetPlaces
    BY DEF BatchPlaces, ResetPlaces, ApplyTransaction, RecordLiquidity, RecordAnomaly,
           CountFeed, RecordFeed, FinishBatch, RefreshFusion, ResetStep, InitializeEngine,
           InitializeFusion, ResetCases
  <2>. QED BY <2>1, CallIs DEF IInv
<1>2. ~ Free' /\ call'.before = call.before
  <2>1. CASE RecordAnomaly \/ RecordFeed
    <3>1. More /\ Taken /\ pc \in BatchPlaces
      BY <2>1 DEF RecordAnomaly, RecordFeed, IInv, CallOK, BatchPlaces
    <3>. QED BY <3>1, TakenIs DEF IInv, Free
  <2>2. CASE ~ (RecordAnomaly \/ RecordFeed)
    <3>1. call' = call
      BY <2>2 DEF ApplyTransaction, RecordLiquidity, CountFeed, FinishBatch, RefreshFusion,
                  ResetStep, InitializeEngine, InitializeFusion, ResetCases
    <3>. QED BY <1>1, <3>1 DEF Free, Idle
  <2>. QED BY <2>1, <2>2
<1>. QED BY <1>1, <1>2 DEF Shown

\* Every step is a step of the view, or not seen.
LEMMA NextSeen ==
  ASSUME IInv, Progress, [Next]_replayVars
  PROVE  [View!Next]_<<Shown, unaccounted>>
<1>1. UNCHANGED unaccounted
  BY UnaccountedStays
<1>2. CASE UNCHANGED replayVars
  BY <1>2 DEF replayVars, Shown, Free, Seen, Idle
<1>3. CASE SyncCases
  BY <1>1, <1>3, SyncCasesSeen
<1>4. CASE TransactionRejected \/ FeedRejected
  BY <1>1, <1>4, BrokenSeen
<1>5. CASE ResetFields
  BY <1>1, <1>5, ResetSeen
<1>6. CASE Next /\ ~ (SyncCases \/ TransactionRejected \/ FeedRejected \/ ResetFields)
  BY <1>1, <1>6, BeginsUnseen, MovesUnseen DEF Next, Running, BatchStep
<1>. QED BY <1>2, <1>3, <1>4, <1>5, <1>6

\* What a client sees in get_state is what calls would show that happen all at once,
\* for every stream, every batch and every place where a call may raise.
THEOREM ViewImplemented == Spec => ViewRefinement
<1>1. Init => Progress
  BY InitProgress
<1>2. IInv /\ IInv' /\ Progress /\ [Next]_replayVars => Progress'
  BY NextProgress
<1>3. Init => View!Init
  BY DEF Init, View!Init, View!Opened, Seen, Free, Idle
<1>4. IInv /\ Progress /\ [Next]_replayVars
        => [View!Next]_<<IF Free THEN Seen ELSE call.before, unaccounted>>
  BY NextSeen DEF Shown
<1>. QED BY <1>1, <1>2, <1>3, <1>4, InvariantHolds, PTL DEF Spec, ViewRefinement, View!Spec
=============================================================================

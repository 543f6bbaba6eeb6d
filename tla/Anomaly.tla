-------------------------------- MODULE Anomaly --------------------------------
(***************************************************************************)
(* AnomalyDetectionEngine of app/intelligence/anomaly_detection.py: the    *)
(* transactions of the last minutes of an agent, compared with those of a  *)
(* longer baseline before them, give points for each pattern found; a      *)
(* known local demand event takes points off when activity is broad.       *)
(*                                                                         *)
(* The events of an agent are a bag: only the choice of _repeated_amount_  *)
(* cluster between clusters of the same size looks at their order, and     *)
(* here it may fall on each of them.  record_transaction raises, and       *)
(* changes nothing, for an unknown agent or an id it has seen; the events  *)
(* of the bag have ids of their own.  Ratios are exact where the code has  *)
(* floats.                                                                 *)
(***************************************************************************)
EXTENDS Integers, Bags, FiniteSetsExt, Functions

CONSTANTS
  Agents,
  Area,                 \* Agents -> areas
  Contexts,             \* known demand events: [area, start, end]
  Kinds,                \* transactions without their time
  WindowMinutes,        \* the recent window
  BaselineMinutes,      \* the baseline before it
  MinimumTransactions,
  TolerancePercent,     \* of near-identical amounts
  MediumThreshold,
  HighThreshold,
  MaxTime               \* bound on the clock

Providers == {"BKASH", "NAGAD", "ROCKET"}
AllProviders == "ALL"  \* provider_id is None
Views == Providers \cup {AllProviders}

ASSUME AnomalyAssumption ==
  /\ {WindowMinutes, BaselineMinutes, MinimumTransactions} \subseteq Nat \ {0}
  /\ BaselineMinutes > WindowMinutes
  /\ TolerancePercent \in Nat /\ MaxTime \in Nat
  /\ {MediumThreshold, HighThreshold} \subseteq 0..100
  /\ MediumThreshold < HighThreshold
  /\ \A k \in Kinds : /\ k.provider \in Providers
                      /\ k.amount \in Nat \ {0}
                      /\ k.status \in {"SUCCESS", "FAILED"}

VARIABLES
  transactions,  \* _transactions: agent -> bag of kinds with the time "at"
  now            \* as_of, the time of the replay

anomalyVars == <<transactions, now>>

At(k, t) == [account |-> k.account, provider |-> k.provider,
             amount |-> k.amount, status |-> k.status, at |-> t]

Init ==
  /\ transactions = [a \in Agents |-> EmptyBag]
  /\ now = 0

RecordTransaction(a, k) ==
  /\ transactions' = [transactions EXCEPT ![a] = @ (+) SetToBag({At(k, now)})]
  /\ UNCHANGED now

PassTime ==
  /\ now < MaxTime
  /\ now' = now + 1
  /\ UNCHANGED transactions

\* A replay reset.
Initialize ==
  /\ transactions' = [a \in Agents |-> EmptyBag]
  /\ now' = 0

Next ==
  \/ \E a \in Agents, k \in Kinds : RecordTransaction(a, k)
  \/ PassTime
  \/ Initialize

Spec == Init /\ [][Next]_anomalyVars

-----------------------------------------------------------------------------
(* What an assessment looks at.                                            *)

Select(a, view, times) ==
  Restrict(transactions[a],
           {t \in DOMAIN transactions[a] :
              t.at \in times /\ view \in {t.provider, AllProviders}})

WithStatus(b, s) == Restrict(b, {t \in DOMAIN b : t.status = s})
OfAccount(b, x) == Restrict(b, {t \in DOMAIN b : t.account = x})
AccountsOf(b) == {t.account : t \in DOMAIN b}
ProvidersOf(b) == {t.provider : t \in DOMAIN b}

\* The events of the busiest account, 0 without events.
Dominant(b) == Max({0} \cup {BagCardinality(OfAccount(b, x)) : x \in AccountsOf(b)})

NearIdentical(b, anchor) ==
  Restrict(b, {t \in DOMAIN b :
                 100 * Max({t.amount - anchor, anchor - t.amount}) <= TolerancePercent * anchor})

\* _repeated_amount_cluster: the first of the largest clusters around an event.
RepeatedClusters(b) ==
  LET C == {NearIdentical(b, t.amount) : t \in DOMAIN b}
  IN  IF C = {} THEN {EmptyBag}
      ELSE {c \in C : \A d \in C : BagCardinality(d) <= BagCardinality(c)}

\* _cross_provider_accounts, and their events.
Linked(b) ==
  Restrict(b, {t \in DOMAIN b : Cardinality(ProvidersOf(OfAccount(b, t.account))) >= 2})

\* Twice the median.
TwiceMedian(b) ==
  LET n == BagCardinality(b)
      UpTo(x) == BagCardinality(Restrict(b, {t \in DOMAIN b : t.amount <= x}))
      Place(i) == Min({x \in {t.amount : t \in DOMAIN b} : UpTo(x) >= i})
  IN  Place((n + 1) \div 2) + Place(n \div 2 + 1)

\* The recent window, its outcomes apart, and the baseline.  One for each
\* cluster that _repeated_amount_cluster may take.
Windows(a, view) ==
  LET recent == Select(a, view, (now - WindowMinutes)..now)
      baseline == Select(a, view, (now - WindowMinutes - BaselineMinutes)..(now - WindowMinutes - 1))
  IN  {[whole |-> view = AllProviders,
        recent |-> recent,
        successful |-> WithStatus(recent, "SUCCESS"),
        baseline |-> WithStatus(baseline, "SUCCESS"),
        repeated |-> c,
        contexts |-> {x \in Contexts : x.area = Area[a] /\ now \in x.start..x.end}] :
          c \in RepeatedClusters(WithStatus(recent, "SUCCESS"))}

-----------------------------------------------------------------------------
(* The factors.                                                            *)

Points == [TRANSACTION_VELOCITY |-> 30, NEAR_IDENTICAL_AMOUNTS |-> 25,
           ACCOUNT_CONCENTRATION |-> 20, CROSS_PROVIDER_LINK |-> 25,
           UNUSUAL_AMOUNT_LEVEL |-> 15, ABNORMAL_FAILURE_RATE |-> 15]

Velocity(w) ==
  LET n == BagCardinality(w.successful)
  IN  n >= 8 /\ n * BaselineMinutes >= 2 * BagCardinality(w.baseline) * WindowMinutes

\* A mutant of Identical: no minimum of transactions.
IdenticalOfAny(w) ==
  /\ w.successful # EmptyBag
  /\ 100 * BagCardinality(w.repeated) >= 65 * BagCardinality(w.successful)

Identical(w) ==
  /\ BagCardinality(w.successful) >= MinimumTransactions
  /\ 100 * BagCardinality(w.repeated) >= 65 * BagCardinality(w.successful)

Concentrated(w) ==
  /\ BagCardinality(w.repeated) >= MinimumTransactions
  /\ \/ Cardinality(AccountsOf(w.repeated)) <= 3
     \/ 2 * Dominant(w.repeated) >= BagCardinality(w.repeated)

CrossProvider(w) == w.whole /\ BagCardinality(Linked(w.successful)) >= 4

UnusualAmount(w) ==
  /\ w.successful # EmptyBag
  /\ BagCardinality(w.baseline) >= 5
  /\ 2 * TwiceMedian(w.successful) >= 5 * TwiceMedian(w.baseline)

Failures(w) ==
  LET failed == BagCardinality(WithStatus(w.recent, "FAILED"))
  IN  /\ BagCardinality(w.recent) >= 6
      /\ failed >= 3
      /\ 100 * failed >= 35 * BagCardinality(w.recent)

Factors(w) ==
  {f \in DOMAIN Points :
     \/ f = "TRANSACTION_VELOCITY" /\ Velocity(w)
     \/ f = "NEAR_IDENTICAL_AMOUNTS" /\ Identical(w)
     \/ f = "ACCOUNT_CONCENTRATION" /\ Concentrated(w)
     \/ f = "CROSS_PROVIDER_LINK" /\ CrossProvider(w)
     \/ f = "UNUSUAL_AMOUNT_LEVEL" /\ UnusualAmount(w)
     \/ f = "ABNORMAL_FAILURE_RATE" /\ Failures(w)}

Broad(w) ==
  LET n == BagCardinality(w.successful)
      accounts == Cardinality(AccountsOf(w.successful))
  IN  n >= 8 /\ accounts >= 6 /\ 10 * accounts >= 7 * n

\* Mutants of Adjusted: a demand event is enough; or it is never looked at.
AdjustedByContext(w) == w.contexts # {}
AdjustedNever(w) == FALSE

Adjusted(w) ==
  /\ w.contexts # {}
  /\ Broad(w)
  /\ Cardinality(ProvidersOf(w.successful)) >= 2
  /\ 2 * BagCardinality(w.repeated) < BagCardinality(w.successful)
  /\ 4 * Dominant(w.successful) < BagCardinality(w.successful)

Score(w) ==
  LET found == MapThenSumSet(LAMBDA f : Points[f], Factors(w))
  IN  Min({100, IF Adjusted(w) THEN Max({0, found - 35}) ELSE found})

Band(score) ==
  IF score >= HighThreshold THEN "HIGH"
  ELSE IF score >= MediumThreshold THEN "MEDIUM" ELSE "LOW"

Category(w) ==
  LET review == Score(w) >= MediumThreshold
  IN  CASE Adjusted(w) /\ ~review -> "LEGITIMATE_DEMAND_SPIKE"
        [] review /\ CrossProvider(w) -> "CROSS_PROVIDER_REVIEW"
        [] review /\ ~CrossProvider(w) -> "REQUIRES_REVIEW"
        [] OTHER -> "NORMAL_ACTIVITY"

Assessment(w, view) ==
  [score |-> Score(w),
   band |-> Band(Score(w)),
   category |-> Category(w),
   requiresHumanReview |-> Score(w) >= MediumThreshold,
   providerScope |-> IF view = AllProviders \/ w.recent # EmptyBag
                     THEN ProvidersOf(w.recent) ELSE {view}]

Assessments(a, view) == {Assessment(w, view) : w \in Windows(a, view)}

-----------------------------------------------------------------------------
(* What must hold.                                                         *)

\* The patterns that need few transactions do not add up to a high band: that
\* takes as many successful transactions as minimum_transactions asks for.
HighNeedsTransactions ==
  \A a \in Agents, view \in Views : \A w \in Windows(a, view) :
    Assessment(w, view).band = "HIGH" =>
      BagCardinality(w.successful) >= MinimumTransactions

\* Near-identical amounts of a few accounts require review, also during a
\* known demand event (RESPONSIBLE_DESIGN_NOTE.md:74): what takes points off
\* cannot apply to them.
RepeatedPatternReviewed ==
  \A a \in Agents, view \in Views : \A w \in Windows(a, view) :
    Identical(w) /\ Concentrated(w) => Assessment(w, view).requiresHumanReview

\* Nothing but volume in the window: everyone is served once, without
\* failures and with different amounts.
VolumeAlone(w) ==
  /\ \A x \in AccountsOf(w.recent) : BagCardinality(OfAccount(w.recent, x)) = 1
  /\ w.recent = w.successful
  /\ 2 * BagCardinality(w.repeated) < BagCardinality(w.successful)

\* High volume alone is not reviewed (RESPONSIBLE_DESIGN_NOTE.md:170), and
\* with a demand event in the area not even when amounts rise with it, as
\* long as enough customers of more than one provider are behind it.
DemandNotReviewed ==
  \A a \in Agents : \A w \in Windows(a, AllProviders) :
    VolumeAlone(w) /\ (UnusualAmount(w) /\ Velocity(w) =>
                         w.contexts # {} /\ Cardinality(ProvidersOf(w.recent)) >= 2)
      => ~Assessment(w, AllProviders).requiresHumanReview
=============================================================================

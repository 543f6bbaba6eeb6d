------------------------------- MODULE Forecasts -------------------------------
(***************************************************************************)
(* How app/intelligence/liquidity_forecast.py turns a balance, the recent  *)
(* successful transactions and the trust in the provider feeds into a      *)
(* forecast of one resource, and the forecasts of an agent's resources     *)
(* into one.  Money is in units, minutes are whole, minutes to a threshold *)
(* are in hundredths and confidences in thousandths, as the code rounds    *)
(* them.                                                                   *)
(***************************************************************************)
EXTENDS Integers, FiniteSets, FiniteSetsExt

CONSTANTS
  LookbackMinutes,      \* lookback_minutes
  SafetyBufferPercent,  \* safety_buffer_percent
  WatchMinutes,         \* watch_minutes
  CriticalMinutes,      \* critical_minutes
  MinTransactions,      \* min_successful_transactions
  NoEta                 \* minutes_to_safety_threshold = None

ASSUME ForecastAssumption ==
  /\ LookbackMinutes \in Nat \ {0}
  /\ SafetyBufferPercent \in 0..100
  /\ WatchMinutes \in Nat /\ CriticalMinutes \in Nat
  /\ CriticalMinutes < WatchMinutes
  /\ MinTransactions \in Nat \ {0}
  /\ NoEta \notin Nat

LiquidityStatuses == {"SAFE", "WATCH", "CRITICAL", "DEPLETED", "INSUFFICIENT_DATA"}
Risky == {"WATCH", "CRITICAL", "DEPLETED"}
SevereFeeds == {"MISSING", "CONFLICTING"}

Forecast == [status : LiquidityStatuses, eta : Nat \cup {NoEta},
             confidence : 0..1000, strong : BOOLEAN]

\* round(n / d) for n >= 0.
Nearest(n, d) == (2 * n + d) \div (2 * d)

-----------------------------------------------------------------------------
(* The rolling window.                                                     *)

\* _recent_transactions: both ends are inside.
Recent(T, agent, asOf) ==
  {t \in T : t.agent = agent /\ t.at \in asOf - LookbackMinutes .. asOf}

\* _observation_minutes.
ObservationMinutes(R, asOf) ==
  IF R = {} THEN 0
  ELSE Max({1, Min({LookbackMinutes, asOf - Min({t.at : t \in R})})})

Total(R, type) == MapThenSumSet(LAMBDA t : t.amount, {t \in R : t.type = type})

\* A mutant of CashDepletion: cash-in counts as an outflow too.
CashDepletionGross(R) == Total(R, "CASH_OUT") + Total(R, "CASH_IN")

\* What the shared cash has lost in the window; the e-money of a provider has
\* lost the opposite of the provider's part.
CashDepletion(R) == Total(R, "CASH_OUT") - Total(R, "CASH_IN")

OfProvider(R, p) == {t \in R : t.provider = p}

EmoneyDepletion(R, p) ==
  Total(OfProvider(R, p), "CASH_IN") - Total(OfProvider(R, p), "CASH_OUT")

\* _shared_cash_driver: which of several with the highest pressure is chosen
\* depends on the order of the transactions.
Drivers(R) ==
  {p \in {t.provider : t \in R} :
     /\ CashDepletion(OfProvider(R, p)) > 0
     /\ \A q \in {t.provider : t \in R} :
          CashDepletion(OfProvider(R, q)) <= CashDepletion(OfProvider(R, p))}

-----------------------------------------------------------------------------
(* _build_forecast: x has the balance, the opening balance, the count and  *)
(* net depletion of the window, the minutes observed, the trust in the     *)
(* feed (status and confidence), and whether all feeds are healthy.        *)

\* A hundred times what is left above the safety reserve.
Margin(x) == 100 * x.balance - SafetyBufferPercent * x.opening

WindowConfidence(x) ==
  Nearest(x.trust.confidence * (550 + 45 * Min({x.count, 10}))
            * (75 * LookbackMinutes + 25 * Min({x.observed, LookbackMinutes})),
          100000 * LookbackMinutes)

Gives(status, eta, confidence, strong) ==
  [status |-> status, eta |-> eta, confidence |-> confidence, strong |-> strong]

\* The balance falls, and will meet the reserve if the flow goes on.
Timed(x) ==
  LET left == Margin(x) * x.observed
      status == IF left <= CriticalMinutes * 100 * x.net THEN "CRITICAL"
                ELSE IF left <= WatchMinutes * 100 * x.net THEN "WATCH"
                ELSE "SAFE"
  IN  Gives(status, Nearest(left, x.net), WindowConfidence(x), x.healthy)

\* A mutant of BuildForecast: the balance is looked at before the feed.
BalanceBeforeFeed(x) ==
  IF x.balance <= 0
  THEN Gives("DEPLETED", 0, x.trust.confidence, x.healthy)
  ELSE IF x.trust.status \in SevereFeeds
  THEN Gives("INSUFFICIENT_DATA", NoEta, Min({x.trust.confidence, 350}), TRUE)
  ELSE IF Margin(x) <= 0
  THEN Gives("CRITICAL", 0, Nearest(4 * x.trust.confidence, 5), x.healthy)
  ELSE IF x.count < MinTransactions
  THEN Gives("INSUFFICIENT_DATA", NoEta,
             Nearest(x.trust.confidence * x.count, MinTransactions), FALSE)
  ELSE IF x.net <= 0
  THEN Gives("SAFE", NoEta, WindowConfidence(x), x.healthy)
  ELSE Timed(x)

BuildForecast(x) ==
  IF x.trust.status \in SevereFeeds
  THEN Gives("INSUFFICIENT_DATA", NoEta, Min({x.trust.confidence, 350}), FALSE)
  ELSE IF x.balance <= 0
  THEN Gives("DEPLETED", 0, x.trust.confidence, x.healthy)
  ELSE IF Margin(x) <= 0
  THEN Gives("CRITICAL", 0, Nearest(4 * x.trust.confidence, 5), x.healthy)
  ELSE IF x.count < MinTransactions
  THEN Gives("INSUFFICIENT_DATA", NoEta,
             Nearest(x.trust.confidence * x.count, MinTransactions), FALSE)
  ELSE IF x.net <= 0
  THEN Gives("SAFE", NoEta, WindowConfidence(x), x.healthy)
  ELSE Timed(x)

-----------------------------------------------------------------------------
(* get_agent_forecast: F maps "CASH" and the provider ids to forecasts.    *)

Severity == [SAFE |-> 1, INSUFFICIENT_DATA |-> 2, WATCH |-> 3, CRITICAL |-> 4,
             DEPLETED |-> 5]

Place == [CASH |-> 0, BKASH |-> 1, NAGAD |-> 2, ROCKET |-> 3]

\* _urgency_sort_key: the higher severity, then the shorter time.
SoonerThan(f, g) == f.eta # NoEta /\ (g.eta = NoEta \/ f.eta < g.eta)

MoreUrgent(f, g) ==
  \/ Severity[f.status] > Severity[g.status]
  \/ Severity[f.status] = Severity[g.status] /\ SoonerThan(f, g)

\* max() keeps the first of several that are equally urgent.
FirstMaximal(F, Before(_, _)) ==
  CHOOSE r \in DOMAIN F : \A q \in DOMAIN F \ {r} :
    ~Before(F[q], F[r]) /\ (Before(F[r], F[q]) \/ Place[r] < Place[q])

\* A mutant of MostUrgent: only the e-money is looked at when there is any.
MostUrgentProvider(F) == FirstMaximal([p \in DOMAIN F \ {"CASH"} |-> F[p]], MoreUrgent)

MostUrgent(F) == FirstMaximal(F, MoreUrgent)

OverallStatus(F) == F[MostUrgent(F)].status

HiddenProviderShortage(F) ==
  /\ F["CASH"].status = "SAFE"
  /\ \E p \in DOMAIN F \ {"CASH"} : F[p].status \in Risky

AggregateConfidence(F) == Min({F[r].confidence : r \in DOMAIN F})
=============================================================================

--------------------------- MODULE LiquidityForecast ---------------------------
(***************************************************************************)
(* LiquidityForecastEngine with the engines it asks: balances come from    *)
(* the ledger, flows from the transactions it has recorded itself, trust   *)
(* from the feeds.  The replay hands every transaction to the ledger and   *)
(* then to this engine; a transaction the ledger refuses does not arrive.  *)
(***************************************************************************)
EXTENDS Ledger, Forecasts

CONSTANTS
  FeedViews,  \* status and confidence a feed may show
  MaxTime     \* bound on the clock

ASSUME LiquidityAssumption ==
  /\ FeedViews \subseteq [status : {"HEALTHY", "STALE"} \cup SevereFeeds,
                          confidence : 0..1000]
  /\ MaxTime \in Nat
  /\ \A a \in Agents : \E p \in ProviderID : <<a, p>> \in Accounts

VARIABLES
  observed,     \* _transactions: the successful ones
  observedIds,  \* _recorded_transaction_ids
  feeds,        \* what the feed-health engine says of each account's feed
  now           \* as_of

liquidityVars == <<ledgerVars, observed, observedIds, feeds, now>>

LiquidityInit ==
  /\ Opening
  /\ observed = {}
  /\ observedIds = {}
  /\ feeds \in [Accounts -> {v \in FeedViews : v.status = "HEALTHY"}]
  /\ now = 0

RecordTransaction(t) ==
  /\ t.id \notin observedIds
  /\ observedIds' = observedIds \cup {t.id}
  /\ observed' = IF t.status = "SUCCESS" THEN observed \cup {t} ELSE observed

\* One transaction event of the replay, which is in the order of time.
Process(t) ==
  /\ t.at >= now
  /\ ApplyTransaction(t)
  /\ RecordTransaction(t)
  /\ now' = t.at
  /\ UNCHANGED feeds

FeedChanges(x, v) ==
  /\ feeds' = [feeds EXCEPT ![x] = v]
  /\ UNCHANGED <<ledgerVars, observed, observedIds, now>>

PassTime ==
  /\ now < MaxTime
  /\ now' = now + 1
  /\ UNCHANGED <<ledgerVars, observed, observedIds, feeds>>

\* A replay reset.
Restart ==
  /\ Initialize
  /\ observed' = {}
  /\ observedIds' = {}
  /\ feeds' \in [Accounts -> {v \in FeedViews : v.status = "HEALTHY"}]
  /\ now' = 0

LiquidityNext ==
  \/ \E t \in Transactions : Process(t)
  \/ \E x \in Accounts, v \in FeedViews : FeedChanges(x, v)
  \/ PassTime
  \/ Restart

LiquiditySpec == LiquidityInit /\ [][LiquidityNext]_liquidityVars

-----------------------------------------------------------------------------
(* The queries.                                                            *)

ProvidersOf(a) == {p \in ProviderID : <<a, p>> \in Accounts}

FeedSeverity == [HEALTHY |-> 1, STALE |-> 2, MISSING |-> 3, CONFLICTING |-> 4]

\* _weakest_feed, with the lowest confidence of all.
WeakestTrust(a, trust) ==
  LET V == {trust[<<a, p>>] : p \in ProvidersOf(a)}
  IN  [status |-> (CHOOSE v \in V : \A w \in V :
                     FeedSeverity[w.status] <= FeedSeverity[v.status]).status,
       confidence |-> Min({v.confidence : v \in V})]

AllHealthy(a, trust) ==
  \A p \in ProvidersOf(a) : trust[<<a, p>>].status = "HEALTHY"

\* A mutant of CashForecast: one healthy feed is enough.
CashForecastAnyFeed(a, trust) ==
  LET R == Recent(observed, a, now)
  IN  BuildForecast([balance |-> cash[a], opening |-> OpeningCash[a],
                     count |-> Cardinality(R), net |-> CashDepletion(R),
                     observed |-> ObservationMinutes(R, now),
                     trust |-> WeakestTrust(a, trust),
                     healthy |-> \E p \in ProvidersOf(a) :
                                   trust[<<a, p>>].status = "HEALTHY"])

\* get_shared_cash_forecast
CashForecast(a, trust) ==
  LET R == Recent(observed, a, now)
  IN  BuildForecast([balance |-> cash[a], opening |-> OpeningCash[a],
                     count |-> Cardinality(R), net |-> CashDepletion(R),
                     observed |-> ObservationMinutes(R, now),
                     trust |-> WeakestTrust(a, trust),
                     healthy |-> AllHealthy(a, trust)])

\* get_provider_forecast
ProviderForecast(a, p, trust) ==
  LET R == OfProvider(Recent(observed, a, now), p)
  IN  BuildForecast([balance |-> emoney[<<a, p>>],
                     opening |-> OpeningEmoney[<<a, p>>],
                     count |-> Cardinality(R), net |-> EmoneyDepletion(R, p),
                     observed |-> ObservationMinutes(R, now),
                     trust |-> trust[<<a, p>>],
                     healthy |-> trust[<<a, p>>].status = "HEALTHY"])

\* get_agent_forecast
AgentForecast(a, trust) ==
  [r \in {"CASH"} \cup ProvidersOf(a) |->
     IF r = "CASH" THEN CashForecast(a, trust) ELSE ProviderForecast(a, r, trust)]

-----------------------------------------------------------------------------
(* Properties.                                                             *)

\* As long as the window reaches back to the opening, the net depletion of
\* every resource is what its balance has lost: the engine's signs for cash-in
\* and cash-out agree with those of the ledger, in every resource.
NetMatchesLedger ==
  now <= LookbackMinutes =>
    \A a \in Agents :
      LET R == Recent(observed, a, now)
      IN  /\ CashDepletion(R) = OpeningCash[a] - cash[a]
          /\ \A p \in ProvidersOf(a) :
               EmoneyDepletion(R, p) = OpeningEmoney[<<a, p>>] - emoney[<<a, p>>]

\* A forecast that may carry a strong recommendation rests on healthy feeds,
\* all of the agent's when it is about the shared cash, and never says that the
\* data are insufficient.  (A balance that is low already is strong without any.)
StrongNeedsHealthyFeeds ==
  \A a \in Agents :
    LET F == AgentForecast(a, feeds)
    IN  \A r \in DOMAIN F : F[r].strong =>
          /\ F[r].status # "INSUFFICIENT_DATA"
          /\ \A p \in ProvidersOf(a) :
               r \in {"CASH", p} => feeds[<<a, p>>].status = "HEALTHY"

\* A provider's shortage behind healthy shared cash is what the agent's
\* forecast shows: as its status and its most urgent resource.
HiddenShortageShown ==
  \A a \in Agents :
    LET F == AgentForecast(a, feeds)
    IN  /\ HiddenProviderShortage(F) =>
             MostUrgent(F) # "CASH" /\ OverallStatus(F) \in Risky
        /\ \A r \in DOMAIN F : F[r].status \in Risky => OverallStatus(F) \in Risky
=============================================================================

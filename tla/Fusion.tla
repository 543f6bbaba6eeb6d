--------------------------------- MODULE Fusion ---------------------------------
(***************************************************************************)
(* DecisionFusionEngine of app/intelligence/fusion.py: what the liquidity, *)
(* anomaly and feed-health engines say of an agent becomes operational     *)
(* incidents, one per agent, type and provider scope, which are raised,    *)
(* updated, cleared and raised again as the signals come and go.           *)
(*                                                                         *)
(* The engine calls refresh_all inside the controller's lock, so what it   *)
(* reads of the three engines belongs together: the inputs of a refresh    *)
(* are any that those engines can return together.                         *)
(***************************************************************************)
EXTENDS Forecasts

CONSTANTS
  Agents,
  Providers,  \* the provider ids with an account, the same for all agents
  Etas,       \* minutes_to_safety_threshold that occur
  Signals,    \* the inputs the engine is refreshed with
  NoTime,     \* cleared_at = None
  MaxRefreshes  \* bound on the refreshes after initialize

ASSUME FusionAssumption ==
  /\ Providers \subseteq {"BKASH", "NAGAD", "ROCKET"}
  /\ Providers # {}
  /\ Etas \subseteq Nat \ {0}
  /\ NoTime \notin Nat \cup Signals
  /\ MaxRefreshes \in Nat

VARIABLES
  incidents,  \* _incidents, by key
  now,        \* as_of of the last refresh
  inputs,     \* history: what each agent was last refreshed with
  raised,     \* history: how often each incident went from not active to active
  refreshes   \* refreshes since initialize

fusionVars == <<incidents, now, inputs, raised, refreshes>>

IncidentTypes == {"LIQUIDITY_PRESSURE", "UNUSUAL_ACTIVITY", "COMBINED_PRIORITY",
                  "DATA_QUALITY"}
FeedStatuses == {"HEALTHY", "STALE"} \cup SevereFeeds
Resources == {"CASH"} \cup Providers

\* _candidate_key; the incident id is its digest.
Keys == [agent : Agents, type : IncidentTypes, scope : SUBSET Providers]

-----------------------------------------------------------------------------
(* What the other engines can say of an agent.                             *)

\* A forecast of a resource that needs the feeds of the providers P.
ForecastsOf(P, trust) ==
  {f \in [status : LiquidityStatuses, eta : Etas \cup {0, NoEta}, strong : BOOLEAN] :
     /\ f.status = "INSUFFICIENT_DATA" => f.eta = NoEta
     /\ f.eta = NoEta => f.status \in {"SAFE", "INSUFFICIENT_DATA"}
     /\ f.status = "DEPLETED" => f.eta = 0
     /\ f.status \in {"SAFE", "WATCH"} => f.eta # 0
     /\ f.strong <=>
          f.status # "INSUFFICIENT_DATA" /\ \A p \in P : trust[p] = "HEALTHY"
     /\ (\E p \in P : trust[p] \in SevereFeeds) => f.status = "INSUFFICIENT_DATA"}

Assessments ==
  [band : {"MEDIUM", "HIGH"}, scope : SUBSET Providers \ {{}}]
    \cup [band : {"LOW"}, scope : {{}}]

\* What may be refreshed with, for one state of the feeds.
InputsWith(trust) ==
  LET F == {f \in [Resources -> UNION {ForecastsOf(P, trust) : P \in
                     {Providers} \cup {{p} : p \in Providers}}] :
              \A r \in Resources :
                f[r] \in ForecastsOf(IF r = "CASH" THEN Providers ELSE {r}, trust)}
  IN  [trust : {trust}, forecast : F, anomaly : Assessments]

ASSUME SignalAssumption ==
  Signals \subseteq UNION {InputsWith(trust) : trust \in [Providers -> FeedStatuses]}

\* requires_human_review
Review(in) == in.anomaly.band # "LOW"

LiquidityRisk(in) == OverallStatus(in.forecast) \in Risky

-----------------------------------------------------------------------------
(* Candidates.                                                             *)

ScopeOfResource(r) == {r} \ {"CASH"}

\* The forecast fusion takes evidence from: the first of the most severe ones,
\* whatever their times.
UrgentForecast(F) ==
  FirstMaximal(F, LAMBDA f, g : Severity[f.status] > Severity[g.status])

Candidate(type, scope, priority, strong, evidence, anomalous) ==
  [type |-> type, scope |-> scope, priority |-> priority, strong |-> strong,
   evidence |-> evidence, anomalous |-> anomalous]

DataQualityCandidates(in) ==
  {Candidate("DATA_QUALITY", {p}, IF in.trust[p] \in SevereFeeds THEN "P2" ELSE "P3",
             FALSE, {p}, FALSE) :
     p \in {q \in Providers : in.trust[q] # "HEALTHY"}}

CombinedCandidate(in) ==
  LET urgent == UrgentForecast(in.forecast)
  IN  Candidate("COMBINED_PRIORITY",
        in.anomaly.scope \cup ScopeOfResource(MostUrgent(in.forecast)),
        IF OverallStatus(in.forecast) \in {"CRITICAL", "DEPLETED"}
             /\ in.anomaly.band = "HIGH" THEN "P1" ELSE "P2",
        in.forecast[urgent].strong, {urgent}, TRUE)

\* A mutant of LiquidityCandidate: strong when any forecast is.
LiquidityAnyStrong(in) ==
  LET urgent == UrgentForecast(in.forecast)
      status == in.forecast[urgent].status
  IN  Candidate("LIQUIDITY_PRESSURE", ScopeOfResource(urgent),
        IF status = "DEPLETED" THEN "P1" ELSE IF status = "CRITICAL" THEN "P2"
        ELSE "P3",
        \E r \in Resources : in.forecast[r].strong, {urgent}, FALSE)

LiquidityCandidate(in) ==
  LET urgent == UrgentForecast(in.forecast)
      status == in.forecast[urgent].status
  IN  Candidate("LIQUIDITY_PRESSURE", ScopeOfResource(urgent),
        IF status = "DEPLETED" THEN "P1" ELSE IF status = "CRITICAL" THEN "P2"
        ELSE "P3",
        in.forecast[urgent].strong, {urgent}, FALSE)

AnomalyCandidate(in) ==
  Candidate("UNUSUAL_ACTIVITY", in.anomaly.scope,
            IF in.anomaly.band = "HIGH" THEN "P2" ELSE "P3", FALSE, {}, TRUE)

SignalCandidates(in) ==
  LET severe == \E p \in Providers : in.trust[p] \in SevereFeeds
  IN  IF LiquidityRisk(in) /\ Review(in) /\ ~severe THEN {CombinedCandidate(in)}
      ELSE IF LiquidityRisk(in) THEN {LiquidityCandidate(in)}
      ELSE IF Review(in) THEN {AnomalyCandidate(in)}
      ELSE {}

Candidates(in) == DataQualityCandidates(in) \cup SignalCandidates(in)

KeyOf(a, c) == [agent |-> a, type |-> c.type, scope |-> c.scope]

-----------------------------------------------------------------------------
(* The incidents.                                                          *)

None == [status |-> "NONE"]
Exists(k) == incidents[k] # None
Active(k) == incidents[k].status = "ACTIVE"

Init ==
  /\ incidents = [k \in Keys |-> None]
  /\ now = 0
  /\ inputs = [a \in Agents |-> NoTime]
  /\ raised = [k \in Keys |-> 0]
  /\ refreshes = 0

Raise(c, t) ==
  [status |-> "ACTIVE", seen |-> c, created |-> t, updated |-> t,
   cleared |-> NoTime, occurrences |-> 1]

\* Mutants of Renew: the fields of the first alert are kept; every update counts as
\* an occurrence.
RenewKeepsFields(i, c, t) ==
  [i EXCEPT !.status = "ACTIVE", !.updated = t, !.cleared = NoTime,
            !.occurrences = @ + (IF i.status = "CLEARED" THEN 1 ELSE 0)]
RenewCountsUpdates(i, c, t) ==
  [i EXCEPT !.status = "ACTIVE", !.seen = c, !.updated = t,
            !.cleared = NoTime, !.occurrences = @ + 1]

Renew(i, c, t) ==
  [i EXCEPT !.status = "ACTIVE", !.seen = c, !.updated = t, !.cleared = NoTime,
            !.occurrences = @ + (IF i.status = "CLEARED" THEN 1 ELSE 0)]

Clear(i, t) == [i EXCEPT !.status = "CLEARED", !.updated = t, !.cleared = t]

\* refresh_agent with _synchronize_incidents
Refresh(a, in, t) ==
  LET C == Candidates(in)
      keys == {KeyOf(a, c) : c \in C}
      Wanted(k) == CHOOSE c \in C : KeyOf(a, c) = k
  IN  /\ refreshes' = refreshes + 1
      /\ incidents' = [k \in Keys |->
           IF k \in keys
           THEN IF Exists(k) THEN Renew(incidents[k], Wanted(k), t)
                             ELSE Raise(Wanted(k), t)
           ELSE IF k.agent = a /\ Active(k) THEN Clear(incidents[k], t)
           ELSE incidents[k]]
      /\ raised' = [k \in Keys |->
           raised[k] + (IF k \in keys /\ ~Active(k) THEN 1 ELSE 0)]
      /\ inputs' = [inputs EXCEPT ![a] = in]
      /\ now' = t

\* initialize, in a replay reset.
Initialize ==
  /\ incidents' = [k \in Keys |-> None]
  /\ now' = 0
  /\ inputs' = [a \in Agents |-> NoTime]
  /\ raised' = [k \in Keys |-> 0]
  /\ refreshes' = 0

Next ==
  \/ /\ refreshes < MaxRefreshes
     /\ \E a \in Agents, in \in Signals, t \in {now, now + 1} : Refresh(a, in, t)
  \/ Initialize

Spec == Init /\ [][Next]_fusionVars

-----------------------------------------------------------------------------
(* Properties.                                                             *)

Incidents ==
  [status : {"ACTIVE", "CLEARED"}, created : Nat, updated : Nat,
   cleared : Nat \cup {NoTime}, occurrences : Nat \ {0},
   seen : [type : IncidentTypes, scope : SUBSET Providers,
           priority : {"P1", "P2", "P3"}, strong : BOOLEAN,
           evidence : SUBSET Resources, anomalous : BOOLEAN]]

FusionTypeOK ==
  /\ incidents \in [Keys -> Incidents \cup {None}]
  /\ now \in Nat
  /\ raised \in [Keys -> Nat]
  /\ refreshes \in Nat

\* What an incident says of its own past is true, however often it was cleared and
\* raised again: its key is that of what it shows, its dates are in order, it has a
\* clearing date exactly while it is cleared, and its occurrences are how often the
\* problem came up, not how often it was seen.
IncidentHistory ==
  \A k \in Keys :
    LET i == incidents[k]
    IN  IF ~Exists(k) THEN raised[k] = 0
        ELSE /\ KeyOf(k.agent, i.seen) = k
             /\ i.created <= i.updated /\ i.updated <= now
             /\ i.status = "ACTIVE" <=> i.cleared = NoTime
             /\ i.status = "CLEARED" => i.cleared = i.updated
             /\ i.occurrences = raised[k]

ActiveOf(a) == {k \in Keys : k.agent = a /\ Active(k)}

\* The active incidents of an agent are what its last signals call for, no
\* more, no less, and show those signals: nothing of an earlier occurrence
\* survives in an incident that is raised again.
ActiveMatchesSignals ==
  \A a \in Agents :
    IF inputs[a] = NoTime THEN ActiveOf(a) = {}
    ELSE {incidents[k].seen : k \in ActiveOf(a)} = Candidates(inputs[a])

\* Only an incident that rests on healthy feeds may carry a strong
\* recommendation: the feeds of the resource its evidence is about, all of
\* them when that is the shared cash.
StrongNeedsHealthyEvidence ==
  \A a \in Agents : \A k \in ActiveOf(a) :
    incidents[k].seen.strong =>
      /\ k.type \in {"LIQUIDITY_PRESSURE", "COMBINED_PRIORITY"}
      /\ \A r \in incidents[k].seen.evidence, p \in Providers :
           r \in {"CASH", p} => inputs[a].trust[p] = "HEALTHY"
=============================================================================

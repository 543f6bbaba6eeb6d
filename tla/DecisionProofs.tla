---------------------------- MODULE DecisionProofs ----------------------------
(***************************************************************************)
(* Proofs about decision fusion and about the explanations of what it      *)
(* found, for every set of agents, providers, signals, workers and         *)
(* requests, over any number of refreshes and resets.                      *)
(*                                                                         *)
(* The incidents are what the signals call for, and tell their own history *)
(* truly.  The forecasts an incident rests on are maxima of the forecasts  *)
(* of an agent (FirstMaximal); that there is a maximum is shown by adding  *)
(* one resource after the other.                                           *)
(*                                                                         *)
(* An explanation is of one state its incident had while it was asked for, *)
(* and keeps the boundaries between providers, whatever the language model *)
(* answers.  Beside the requests the fusion engine takes its own steps, so *)
(* all that is proved of the incidents holds there too.                    *)
(***************************************************************************)
EXTENDS Explanations, TLAPS

\* What a refresh reads of a forecast.
Timing == [status : LiquidityStatuses, eta : Nat \cup {NoEta}, strong : BOOLEAN]

-----------------------------------------------------------------------------
(* The most urgent forecast.                                               *)

MoreSevere(f, g) == Severity[f.status] > Severity[g.status]

\* r is kept by max() when it meets q, for each of the two orders.
Beats(F, r, q) ==
  ~MoreUrgent(F[q], F[r]) /\ (MoreUrgent(F[r], F[q]) \/ Place[r] < Place[q])

Outranks(F, r, q) ==
  ~MoreSevere(F[q], F[r]) /\ (MoreSevere(F[r], F[q]) \/ Place[r] < Place[q])

LEMMA ResourcesPlaced ==
  /\ Resources \subseteq {"CASH", "BKASH", "NAGAD", "ROCKET"} /\ "CASH" \in Resources
  /\ \A r \in Resources : Place[r] \in Nat
  /\ \A r, q \in Resources : Place[r] = Place[q] => r = q
BY FusionAssumption DEF Resources, Place, FusionAssumption

LEMMA SeverityIsNat == \A s \in LiquidityStatuses : Severity[s] \in Nat
BY DEF LiquidityStatuses, Severity

\* Both orders are total and transitive.
LEMMA BeatsOrders ==
  ASSUME NEW F \in [Resources -> Timing], NEW r \in Resources, NEW q \in Resources,
         NEW s \in Resources
  PROVE  /\ r # q => Beats(F, r, q) \/ Beats(F, q, r)
         /\ Beats(F, r, q) /\ Beats(F, q, s) => Beats(F, r, s)
<1>1. /\ F[r] \in Timing /\ F[q] \in Timing /\ F[s] \in Timing
  OBVIOUS
<1>2. /\ Severity[F[r].status] \in Nat /\ Severity[F[q].status] \in Nat
      /\ Severity[F[s].status] \in Nat
  BY <1>1, SeverityIsNat DEF Timing
<1>3. /\ F[r].eta \in Nat \cup {NoEta} /\ F[q].eta \in Nat \cup {NoEta}
      /\ F[s].eta \in Nat \cup {NoEta}
  BY <1>1 DEF Timing
<1>4. /\ Place[r] \in Nat /\ Place[q] \in Nat /\ Place[s] \in Nat
      /\ r # q => Place[r] # Place[q]
  BY ResourcesPlaced
<1>. QED BY <1>2, <1>3, <1>4, ForecastAssumption
        DEF Beats, MoreUrgent, SoonerThan, ForecastAssumption

LEMMA OutranksOrders ==
  ASSUME NEW F \in [Resources -> Timing], NEW r \in Resources, NEW q \in Resources,
         NEW s \in Resources
  PROVE  /\ r # q => Outranks(F, r, q) \/ Outranks(F, q, r)
         /\ Outranks(F, r, q) /\ Outranks(F, q, s) => Outranks(F, r, s)
<1>1. /\ F[r] \in Timing /\ F[q] \in Timing /\ F[s] \in Timing
  OBVIOUS
<1>2. /\ Severity[F[r].status] \in Nat /\ Severity[F[q].status] \in Nat
      /\ Severity[F[s].status] \in Nat
  BY <1>1, SeverityIsNat DEF Timing
<1>3. /\ Place[r] \in Nat /\ Place[q] \in Nat /\ Place[s] \in Nat
      /\ r # q => Place[r] # Place[q]
  BY ResourcesPlaced
<1>. QED BY <1>2, <1>3 DEF Outranks, MoreSevere

\* The best of the resources in S.
Best(F, S) == \E r \in S : \A q \in S \ {r} : Beats(F, r, q)
Highest(F, S) == \E r \in S : \A q \in S \ {r} : Outranks(F, r, q)

LEMMA OneMore ==
  ASSUME NEW F \in [Resources -> Timing], NEW S \in SUBSET Resources,
         NEW x \in Resources, x \notin S
  PROVE  /\ Best(F, S) => Best(F, S \cup {x})
         /\ Highest(F, S) => Highest(F, S \cup {x})
<1>1. ASSUME Best(F, S) PROVE Best(F, S \cup {x})
  <2>1. PICK r \in S : \A q \in S \ {r} : Beats(F, r, q)
    BY <1>1 DEF Best
  <2>2. CASE Beats(F, r, x)
    BY <2>1, <2>2 DEF Best
  <2>3. CASE Beats(F, x, r)
    <3>1. \A q \in S : Beats(F, x, q)
      BY <2>1, <2>3, BeatsOrders
    <3>. QED BY <3>1 DEF Best
  <2>. QED BY <2>2, <2>3, BeatsOrders
<1>2. ASSUME Highest(F, S) PROVE Highest(F, S \cup {x})
  <2>1. PICK r \in S : \A q \in S \ {r} : Outranks(F, r, q)
    BY <1>2 DEF Highest
  <2>2. CASE Outranks(F, r, x)
    BY <2>1, <2>2 DEF Highest
  <2>3. CASE Outranks(F, x, r)
    <3>1. \A q \in S : Outranks(F, x, q)
      BY <2>1, <2>3, OutranksOrders
    <3>. QED BY <3>1 DEF Highest
  <2>. QED BY <2>2, <2>3, OutranksOrders
<1>. QED BY <1>1, <1>2

LEMMA BestOfAll ==
  ASSUME NEW F \in [Resources -> Timing]
  PROVE  Best(F, Resources) /\ Highest(F, Resources)
<1>. DEFINE With(S, p) == IF p \in Providers THEN S \cup {p} ELSE S
            A == {"CASH"}
            B == With(A, "BKASH")
            C == With(B, "NAGAD")
            D == With(C, "ROCKET")
            Good(S) == Best(F, S) /\ Highest(F, S)
<1>1. /\ A \subseteq Resources /\ B \subseteq Resources /\ C \subseteq Resources
      /\ "BKASH" \notin A /\ "NAGAD" \notin B /\ "ROCKET" \notin C
  BY DEF Resources
<1>2. D = Resources
  BY FusionAssumption DEF Resources, FusionAssumption
<1>3. Good(A)
  BY DEF Best, Highest
<1>4. Good(A) => Good(B)
  BY <1>1, OneMore DEF Resources
<1>5. Good(B) => Good(C)
  BY <1>1, OneMore DEF Resources
<1>6. Good(C) => Good(D)
  BY <1>1, OneMore DEF Resources
<1>. HIDE DEF A, B, C, D
<1>. QED BY <1>2, <1>3, <1>4, <1>5, <1>6

LEMMA UrgentIsResource ==
  ASSUME NEW F \in [Resources -> Timing]
  PROVE  MostUrgent(F) \in Resources /\ UrgentForecast(F) \in Resources
<1>1. \E r \in Resources : \A q \in Resources \ {r} : Beats(F, r, q)
  BY BestOfAll DEF Best
<1>2. \E r \in Resources : \A q \in Resources \ {r} : Outranks(F, r, q)
  BY BestOfAll DEF Highest
<1>3. MostUrgent(F) = CHOOSE r \in Resources : \A q \in Resources \ {r} : Beats(F, r, q)
  BY DEF MostUrgent, FirstMaximal, Beats
<1>4. UrgentForecast(F)
        = CHOOSE r \in Resources : \A q \in Resources \ {r} : Outranks(F, r, q)
  BY DEF UrgentForecast, FirstMaximal, Outranks, MoreSevere
<1>. QED BY <1>1, <1>2, <1>3, <1>4

-----------------------------------------------------------------------------
(* What a refresh is given, and what it calls for.                         *)

LEMMA InputIs ==
  ASSUME NEW in \in Signals
  PROVE  /\ in.trust \in [Providers -> FeedStatuses]
         /\ in.forecast \in [Resources -> Timing]
         /\ \A r \in Resources, p \in Providers :
              in.forecast[r].strong /\ r \in {"CASH", p} => in.trust[p] = "HEALTHY"
         /\ in.anomaly.scope \in SUBSET Providers
<1>1. PICK trust \in [Providers -> FeedStatuses] : in \in InputsWith(trust)
  BY SignalAssumption
<1>2. /\ in.trust = trust /\ in.anomaly \in Assessments
      /\ DOMAIN in.forecast = Resources
      /\ \A r \in Resources :
           in.forecast[r] \in ForecastsOf(IF r = "CASH" THEN Providers ELSE {r}, trust)
      /\ in.forecast = [r \in Resources |-> in.forecast[r]]
  BY <1>1 DEF InputsWith
<1>3. ASSUME NEW r \in Resources
      PROVE  /\ in.forecast[r] \in Timing
             /\ \A p \in Providers :
                  in.forecast[r].strong /\ r \in {"CASH", p} => in.trust[p] = "HEALTHY"
  <2>. DEFINE P == IF r = "CASH" THEN Providers ELSE {r}
              f == in.forecast[r]
  <2>1. f \in ForecastsOf(P, trust)
    BY <1>2
  <2>. HIDE DEF P, f
  <2>2. /\ f \in [status : LiquidityStatuses, eta : Etas \cup {0, NoEta}, strong : BOOLEAN]
        /\ f.strong =>
             f.status # "INSUFFICIENT_DATA" /\ \A p \in P : trust[p] = "HEALTHY"
    BY <2>1, Zenon DEF ForecastsOf
  <2>3. f \in Timing
    <3>. DEFINE E == Etas \cup {0, NoEta}
    <3>1. f \in [status : LiquidityStatuses, eta : E, strong : BOOLEAN]
      BY <2>2
    <3>2. Etas \subseteq Nat
      BY FusionAssumption, Zenon DEF FusionAssumption
    <3>3. E \subseteq Nat \cup {NoEta}
      <4>1. 0 \in Nat
        OBVIOUS
      <4>. QED BY <3>2, <4>1, Zenon
    <3>. HIDE DEF E
    <3>. QED BY <3>1, <3>3 DEF Timing
  <2>4. \A p \in Providers : r \in {"CASH", p} => p \in P
    BY DEF P
  <2>5. \A p \in Providers : f.strong /\ r \in {"CASH", p} => trust[p] = "HEALTHY"
    BY <2>2, <2>4
  <2>. QED BY <1>2, <2>3, <2>5 DEF f
<1>4. in.anomaly.scope \in SUBSET Providers
  BY <1>2 DEF Assessments
<1>. QED BY <1>2, <1>3, <1>4

\* A strong candidate rests on healthy feeds.
RestsOnHealthy(in, c) ==
  c.strong =>
    /\ c.type \in {"LIQUIDITY_PRESSURE", "COMBINED_PRIORITY"}
    /\ \A r \in c.evidence, p \in Providers : r \in {"CASH", p} => in.trust[p] = "HEALTHY"

\* What an explanation shows of a candidate: something it rests on; the title of a
\* data-quality incident names the one provider of its scope.
Grounded(c) ==
  /\ c.evidence = {} => c.anomalous
  /\ c.type = "DATA_QUALITY" => \E p \in Providers : c.scope = {p}

SeenRecords ==
  [type : IncidentTypes, scope : SUBSET Providers, priority : {"P1", "P2", "P3"},
   strong : BOOLEAN, evidence : SUBSET Resources, anomalous : BOOLEAN]

LEMMA DataQualityIs ==
  ASSUME NEW in \in Signals, NEW c \in DataQualityCandidates(in)
  PROVE  c \in SeenRecords /\ RestsOnHealthy(in, c) /\ Grounded(c) /\ c.type = "DATA_QUALITY"
         /\ \A d \in DataQualityCandidates(in) : c.scope = d.scope => c = d
<1>1. PICK p \in Providers :
        c = Candidate("DATA_QUALITY", {p}, IF in.trust[p] \in SevereFeeds THEN "P2" ELSE "P3",
                      FALSE, {p}, FALSE)
  BY DEF DataQualityCandidates
<1>2. c \in SeenRecords /\ RestsOnHealthy(in, c) /\ Grounded(c) /\ c.type = "DATA_QUALITY"
  BY <1>1 DEF Candidate, SeenRecords, IncidentTypes, Resources, RestsOnHealthy, Grounded
<1>3. ASSUME NEW d \in DataQualityCandidates(in), c.scope = d.scope PROVE c = d
  <2>1. PICK q \in Providers :
          d = Candidate("DATA_QUALITY", {q}, IF in.trust[q] \in SevereFeeds THEN "P2" ELSE "P3",
                        FALSE, {q}, FALSE)
    BY DEF DataQualityCandidates
  <2>2. {p} = {q}
    BY <1>1, <1>3, <2>1 DEF Candidate
  <2>. QED BY <1>1, <2>1, <2>2
<1>. QED BY <1>2, <1>3

LEMMA SignalIs ==
  ASSUME NEW in \in Signals, NEW c \in SignalCandidates(in)
  PROVE  c \in SeenRecords /\ RestsOnHealthy(in, c) /\ Grounded(c) /\ c.type # "DATA_QUALITY"
         /\ \A d \in SignalCandidates(in) : c = d
<1>. DEFINE F == in.forecast
            u == UrgentForecast(F)
            m == MostUrgent(F)
<1>1. /\ in.anomaly.scope \in SUBSET Providers /\ F \in [Resources -> Timing]
      /\ u \in Resources /\ m \in Resources
  BY InputIs, UrgentIsResource
<1>2. /\ ScopeOfResource(m) \in SUBSET Providers /\ ScopeOfResource(u) \in SUBSET Providers
      /\ F[u].strong \in BOOLEAN
  BY <1>1 DEF ScopeOfResource, Resources, Timing
<1>3. \A p \in Providers : F[u].strong /\ u \in {"CASH", p} => in.trust[p] = "HEALTHY"
  BY <1>1, InputIs
<1>4. c \in {CombinedCandidate(in), LiquidityCandidate(in), AnomalyCandidate(in)}
      /\ \A d \in SignalCandidates(in) : c = d
  BY DEF SignalCandidates
<1>. HIDE DEF u, m
<1>5. CASE c = CombinedCandidate(in)
  <2>1. c \in SeenRecords /\ c.strong = F[u].strong /\ c.evidence = {u}
        /\ c.type = "COMBINED_PRIORITY"
    BY <1>1, <1>2, <1>5 DEF CombinedCandidate, Candidate, SeenRecords, IncidentTypes, u, m
  <2>. QED BY <1>3, <1>4, <2>1 DEF RestsOnHealthy, Grounded
<1>6. CASE c = LiquidityCandidate(in)
  <2>1. c \in SeenRecords /\ c.strong = F[u].strong /\ c.evidence = {u}
        /\ c.type = "LIQUIDITY_PRESSURE"
    BY <1>1, <1>2, <1>6 DEF LiquidityCandidate, Candidate, SeenRecords, IncidentTypes, u
  <2>. QED BY <1>3, <1>4, <2>1 DEF RestsOnHealthy, Grounded
<1>7. CASE c = AnomalyCandidate(in)
  <2>1. c \in SeenRecords /\ ~c.strong /\ c.anomalous /\ c.type = "UNUSUAL_ACTIVITY"
    BY <1>1, <1>7 DEF AnomalyCandidate, Candidate, SeenRecords, IncidentTypes
  <2>. QED BY <1>4, <2>1 DEF RestsOnHealthy, Grounded
<1>. QED BY <1>4, <1>5, <1>6, <1>7

LEMMA CandidatesAre ==
  ASSUME NEW in \in Signals, NEW a \in Agents
  PROVE  /\ \A c \in Candidates(in) :
              c \in SeenRecords /\ RestsOnHealthy(in, c) /\ Grounded(c) /\ KeyOf(a, c) \in Keys
         /\ \A c, d \in Candidates(in) : KeyOf(a, c) = KeyOf(a, d) => c = d
<1>1. ASSUME NEW c \in Candidates(in)
      PROVE  c \in SeenRecords /\ RestsOnHealthy(in, c) /\ Grounded(c) /\ KeyOf(a, c) \in Keys
  <2>1. c \in SeenRecords /\ RestsOnHealthy(in, c) /\ Grounded(c)
    BY DataQualityIs, SignalIs DEF Candidates
  <2>. QED BY <2>1 DEF SeenRecords, KeyOf, Keys
<1>2. ASSUME NEW c \in Candidates(in), NEW d \in Candidates(in), KeyOf(a, c) = KeyOf(a, d)
      PROVE  c = d
  <2>1. c.type = d.type /\ c.scope = d.scope
    BY <1>2 DEF KeyOf
  <2>. QED BY <2>1, DataQualityIs, SignalIs DEF Candidates
<1>. QED BY <1>1, <1>2

-----------------------------------------------------------------------------
(* The invariant.                                                          *)

InputsOK == inputs \in [Agents -> Signals \cup {NoTime}]

SeenGrounded == \A k \in Keys : Exists(k) => Grounded(incidents[k].seen)

IInv ==
  FusionTypeOK /\ InputsOK /\ IncidentHistory /\ ActiveMatchesSignals /\ SeenGrounded

LEMMA InitHolds == Init => IInv
<1>. SUFFICES ASSUME Init PROVE IInv
  OBVIOUS
<1>1. \A k \in Keys : incidents[k] = None /\ raised[k] = 0 /\ ~Active(k) /\ ~Exists(k)
  BY DEF Init, None, Active, Exists
<1>2. FusionTypeOK /\ InputsOK
  BY DEF Init, FusionTypeOK, InputsOK
<1>3. IncidentHistory
  BY <1>1 DEF IncidentHistory
<1>4. ActiveMatchesSignals
  BY <1>1 DEF Init, ActiveMatchesSignals, ActiveOf
<1>. QED BY <1>1, <1>2, <1>3, <1>4 DEF IInv, SeenGrounded

\* What a refresh of a makes of each incident.
LEMMA Refreshed ==
  ASSUME IInv, NEW a \in Agents, NEW in \in Signals, NEW t \in {now, now + 1},
         Refresh(a, in, t), NEW k \in Keys
  PROVE  \/ \E c \in Candidates(in) :
              /\ KeyOf(a, c) = k
              /\ incidents'[k] = IF Exists(k) THEN Renew(incidents[k], c, t) ELSE Raise(c, t)
              /\ raised'[k] = raised[k] + (IF Active(k) THEN 0 ELSE 1)
         \/ /\ ~\E c \in Candidates(in) : KeyOf(a, c) = k
            /\ incidents'[k] = IF k.agent = a /\ Active(k) THEN Clear(incidents[k], t)
                               ELSE incidents[k]
            /\ raised'[k] = raised[k]
<1>. DEFINE C == Candidates(in)
            keys == {KeyOf(a, c) : c \in C}
            Wanted(l) == CHOOSE c \in C : KeyOf(a, c) = l
<1>1. /\ incidents' = [l \in Keys |->
             IF l \in keys
             THEN IF Exists(l) THEN Renew(incidents[l], Wanted(l), t) ELSE Raise(Wanted(l), t)
             ELSE IF l.agent = a /\ Active(l) THEN Clear(incidents[l], t)
             ELSE incidents[l]]
      /\ raised' = [l \in Keys |->
             raised[l] + (IF l \in keys /\ ~Active(l) THEN 1 ELSE 0)]
  BY DEF Refresh
<1>2. raised[k] \in Nat
  BY DEF IInv, FusionTypeOK
<1>. HIDE DEF C
<1>3. CASE k \in keys
  <2>1. Wanted(k) \in C /\ KeyOf(a, Wanted(k)) = k
    BY <1>3
  <2>2. /\ incidents'[k] = IF Exists(k) THEN Renew(incidents[k], Wanted(k), t)
                           ELSE Raise(Wanted(k), t)
        /\ raised'[k] = raised[k] + (IF Active(k) THEN 0 ELSE 1)
    BY <1>1, <1>2, <1>3
  <2>. HIDE DEF Wanted
  <2>. QED BY <2>1, <2>2 DEF C
<1>4. CASE k \notin keys
  <2>1. /\ incidents'[k] = IF k.agent = a /\ Active(k) THEN Clear(incidents[k], t)
                           ELSE incidents[k]
        /\ raised'[k] = raised[k]
    BY <1>1, <1>2, <1>4
  <2>. QED BY <1>4, <2>1 DEF C
<1>. QED BY <1>3, <1>4

\* The three things that happen to an incident.
LEMMA RecordsAre ==
  ASSUME NEW i \in Incidents, NEW c \in SeenRecords, NEW t \in Nat
  PROVE  /\ Raise(c, t) \in Incidents
         /\ Renew(i, c, t) \in Incidents
         /\ Clear(i, t) \in Incidents
<1>1. i.occurrences + (IF i.status = "CLEARED" THEN 1 ELSE 0) \in Nat \ {0}
  BY DEF Incidents
<1>2. Raise(c, t) \in Incidents
  BY DEF Raise, Incidents, SeenRecords
<1>3. Renew(i, c, t) \in Incidents
  BY <1>1 DEF Renew, Incidents, SeenRecords
<1>4. Clear(i, t) \in Incidents
  BY DEF Clear, Incidents
<1>. QED BY <1>2, <1>3, <1>4

LEMMA NoneIsNot == None \notin Incidents /\ None.status = "NONE"
BY DEF None, Incidents

\* What an incident and the number of its occurrences say of each other.
HistoryOf(k, i, n, t) ==
  IF i = None THEN n = 0
  ELSE /\ KeyOf(k.agent, i.seen) = k
       /\ i.created <= i.updated /\ i.updated <= t
       /\ i.status = "ACTIVE" <=> i.cleared = NoTime
       /\ i.status = "CLEARED" => i.cleared = i.updated
       /\ i.occurrences = n

LEMMA OneIncident ==
  ASSUME IInv, NEW a \in Agents, NEW in \in Signals, NEW t \in {now, now + 1},
         Refresh(a, in, t), NEW k \in Keys
  PROVE  /\ incidents'[k] \in Incidents \cup {None} /\ raised'[k] \in Nat
         /\ HistoryOf(k, incidents'[k], raised'[k], t)
         /\ incidents'[k] # None => Grounded(incidents'[k].seen)
         /\ k.agent # a => incidents'[k] = incidents[k]
         /\ k.agent = a /\ incidents'[k].status = "ACTIVE" =>
              incidents'[k].seen \in Candidates(in)
         /\ \A c \in Candidates(in) :
              KeyOf(a, c) = k => incidents'[k].status = "ACTIVE" /\ incidents'[k].seen = c
<1>. DEFINE i == incidents[k]
            n == raised[k]
<1>1. /\ i \in Incidents \cup {None} /\ n \in Nat /\ now \in Nat /\ t \in Nat /\ now <= t
      /\ NoTime \notin Nat
  BY FusionAssumption DEF IInv, FusionTypeOK, FusionAssumption
<1>2. HistoryOf(k, i, n, now) /\ (i # None => Grounded(i.seen))
  BY DEF IInv, IncidentHistory, HistoryOf, Exists, SeenGrounded
<1>3. i \in Incidents =>
        /\ i.status \in {"ACTIVE", "CLEARED"} /\ i.created \in Nat /\ i.updated \in Nat
        /\ i.occurrences \in Nat /\ i # None
  BY NoneIsNot DEF Incidents
<1>4. \A c \in Candidates(in) : KeyOf(a, c).agent = a
  BY DEF KeyOf
<1>5. CASE ~\E c \in Candidates(in) : KeyOf(a, c) = k
  <2>1. /\ incidents'[k] = IF k.agent = a /\ i.status = "ACTIVE" THEN Clear(i, t) ELSE i
        /\ raised'[k] = n
    BY <1>5, Refreshed DEF Active
  <2>2. CASE k.agent = a /\ i.status = "ACTIVE"
    <3>1. i \in Incidents
      BY <1>1, <2>2, NoneIsNot
    <3>2. Clear(i, t) \in Incidents /\ Clear(i, t).status = "CLEARED"
          /\ Clear(i, t).updated = t /\ Clear(i, t).cleared = t
          /\ Clear(i, t).created = i.created /\ Clear(i, t).seen = i.seen
          /\ Clear(i, t).occurrences = i.occurrences
      BY <1>1, <3>1 DEF Clear, Incidents
    <3>3. HistoryOf(k, Clear(i, t), n, t)
      BY <1>1, <1>2, <1>3, <3>1, <3>2, NoneIsNot DEF HistoryOf
    <3>. QED BY <1>1, <1>2, <1>3, <1>5, <2>1, <2>2, <3>1, <3>2, <3>3
  <2>3. CASE ~(k.agent = a /\ i.status = "ACTIVE")
    <3>1. HistoryOf(k, i, n, t)
      BY <1>1, <1>2, <1>3 DEF HistoryOf
    <3>. QED BY <1>1, <1>2, <1>5, <2>1, <2>3, <3>1
  <2>. QED BY <2>2, <2>3
<1>6. ASSUME NEW c \in Candidates(in), KeyOf(a, c) = k
      PROVE  /\ incidents'[k] \in Incidents /\ raised'[k] \in Nat
             /\ HistoryOf(k, incidents'[k], raised'[k], t)
             /\ incidents'[k].status = "ACTIVE" /\ incidents'[k].seen = c /\ Grounded(c)
  <2>1. \A d \in Candidates(in) : KeyOf(a, d) = k => c = d
    BY <1>6, CandidatesAre
  <2>2. /\ incidents'[k] = IF i # None THEN Renew(i, c, t) ELSE Raise(c, t)
        /\ raised'[k] = n + (IF i.status = "ACTIVE" THEN 0 ELSE 1)
    BY <1>6, <2>1, Refreshed DEF Exists, Active
  <2>3. c \in SeenRecords /\ k.agent = a /\ Grounded(c)
    BY <1>4, <1>6, CandidatesAre
  <2>4. CASE i # None
    <3>1. i \in Incidents
      BY <1>1, <2>4
    <3>2. Renew(i, c, t) \in Incidents
      BY <1>1, <2>3, <3>1, RecordsAre
    <3>3. /\ Renew(i, c, t).status = "ACTIVE" /\ Renew(i, c, t).seen = c
          /\ Renew(i, c, t).created = i.created /\ Renew(i, c, t).updated = t
          /\ Renew(i, c, t).cleared = NoTime
          /\ Renew(i, c, t).occurrences
               = i.occurrences + (IF i.status = "CLEARED" THEN 1 ELSE 0)
      BY <3>1 DEF Renew, Incidents
    <3>4. raised'[k] = Renew(i, c, t).occurrences /\ raised'[k] \in Nat
      BY <1>1, <1>2, <1>3, <2>2, <2>4, <3>1, <3>3 DEF HistoryOf
    <3>5. i.created <= t
      BY <1>1, <1>2, <1>3, <2>4, <3>1 DEF HistoryOf
    <3>6. HistoryOf(k, Renew(i, c, t), raised'[k], t)
      BY <1>1, <1>6, <2>3, <3>2, <3>3, <3>4, <3>5, NoneIsNot DEF HistoryOf
    <3>. QED BY <2>2, <2>3, <2>4, <3>2, <3>3, <3>4, <3>6
  <2>5. CASE i = None
    <3>1. Raise(c, t) \in Incidents
      BY <1>1, <2>3 DEF Raise, Incidents, SeenRecords
    <3>2. /\ Raise(c, t).status = "ACTIVE" /\ Raise(c, t).seen = c
          /\ Raise(c, t).created = t /\ Raise(c, t).updated = t
          /\ Raise(c, t).cleared = NoTime /\ Raise(c, t).occurrences = 1
      BY DEF Raise
    <3>3. raised'[k] = 1
      BY <1>1, <1>2, <2>2, <2>5, NoneIsNot DEF HistoryOf
    <3>4. HistoryOf(k, Raise(c, t), 1, t)
      BY <1>1, <1>6, <2>3, <3>1, <3>2, NoneIsNot DEF HistoryOf
    <3>. QED BY <2>2, <2>3, <2>5, <3>1, <3>2, <3>3, <3>4
  <2>. QED BY <2>4, <2>5
<1>7. CASE \E c \in Candidates(in) : KeyOf(a, c) = k
  <2>1. PICK c \in Candidates(in) : KeyOf(a, c) = k
    BY <1>7
  <2>. QED BY <1>4, <1>6, <2>1
<1>. QED BY <1>5, <1>7

LEMMA RefreshKeeps ==
  ASSUME IInv, NEW a \in Agents, NEW in \in Signals, NEW t \in {now, now + 1},
         Refresh(a, in, t)
  PROVE  IInv'
<1>1. /\ now \in Nat /\ t \in Nat /\ refreshes \in Nat /\ InputsOK
      /\ now' = t /\ refreshes' = refreshes + 1 /\ inputs' = [inputs EXCEPT ![a] = in]
      /\ incidents' = [k \in Keys |-> incidents'[k]] /\ raised' = [k \in Keys |-> raised'[k]]
  BY DEF IInv, FusionTypeOK, Refresh
<1>2. FusionTypeOK'
  <2>1. \A k \in Keys : incidents'[k] \in Incidents \cup {None} /\ raised'[k] \in Nat
    BY OneIncident
  <2>2. incidents' \in [Keys -> Incidents \cup {None}] /\ raised' \in [Keys -> Nat]
    BY <1>1, <2>1
  <2>. QED BY <1>1, <2>2 DEF FusionTypeOK
<1>3. InputsOK'
  BY <1>1 DEF InputsOK
<1>4. IncidentHistory'
  <2>1. \A k \in Keys : HistoryOf(k, incidents'[k], raised'[k], now')
    BY <1>1, OneIncident
  <2>. QED BY <2>1 DEF IncidentHistory, HistoryOf, Exists
<1>5. ActiveMatchesSignals'
  <2>. SUFFICES ASSUME NEW b \in Agents
                PROVE  IF inputs'[b] = NoTime THEN ActiveOf(b)' = {}
                       ELSE {incidents'[k].seen : k \in ActiveOf(b)'} = Candidates(inputs'[b])
    BY DEF ActiveMatchesSignals
  <2>1. ActiveOf(b)' = {k \in Keys : k.agent = b /\ incidents'[k].status = "ACTIVE"}
    BY DEF ActiveOf, Active
  <2>2. CASE b = a
    <3>1. inputs'[b] = in /\ in # NoTime
      BY <1>1, <2>2, FusionAssumption DEF InputsOK, FusionAssumption
    <3>2. \A k \in ActiveOf(b)' : incidents'[k].seen \in Candidates(in)
      BY <2>1, <2>2, OneIncident
    <3>3. ASSUME NEW c \in Candidates(in)
          PROVE  c \in {incidents'[k].seen : k \in ActiveOf(b)'}
      <4>. DEFINE k == KeyOf(a, c)
      <4>1. k \in Keys /\ k.agent = b
        BY <2>2, CandidatesAre DEF KeyOf
      <4>2. incidents'[k].status = "ACTIVE" /\ incidents'[k].seen = c
        BY <4>1, OneIncident
      <4>. HIDE DEF k
      <4>3. k \in ActiveOf(b)'
        BY <2>1, <4>1, <4>2
      <4>. QED BY <4>2, <4>3
    <3>. QED BY <3>1, <3>2, <3>3
  <2>3. CASE b # a
    <3>1. inputs'[b] = inputs[b]
      BY <1>1, <2>3 DEF InputsOK
    <3>2. \A k \in Keys : k.agent = b => incidents'[k] = incidents[k]
      BY <2>3, OneIncident
    <3>3. ActiveOf(b)' = ActiveOf(b)
      BY <2>1, <3>2 DEF ActiveOf, Active
    <3>4. {incidents'[k].seen : k \in ActiveOf(b)'} = {incidents[k].seen : k \in ActiveOf(b)}
      BY <3>2, <3>3 DEF ActiveOf
    <3>5. IF inputs[b] = NoTime THEN ActiveOf(b) = {}
          ELSE {incidents[k].seen : k \in ActiveOf(b)} = Candidates(inputs[b])
      BY DEF IInv, ActiveMatchesSignals
    <3>. QED BY <3>1, <3>3, <3>4, <3>5
  <2>. QED BY <2>2, <2>3
<1>6. SeenGrounded'
  BY OneIncident DEF SeenGrounded, Exists
<1>. QED BY <1>2, <1>3, <1>4, <1>5, <1>6 DEF IInv

LEMMA NextHolds == IInv /\ [Next]_fusionVars => IInv'
<1>. SUFFICES ASSUME IInv, [Next]_fusionVars PROVE IInv'
  OBVIOUS
<1>1. CASE \E a \in Agents, in \in Signals, t \in {now, now + 1} : Refresh(a, in, t)
  BY <1>1, RefreshKeeps
<1>2. CASE Initialize
  <2>1. Init'
    BY <1>2 DEF Initialize, Init
  <2>. QED BY <2>1, InitHolds, PTL
<1>3. CASE UNCHANGED fusionVars
  BY <1>3 DEF fusionVars, IInv, FusionTypeOK, InputsOK, IncidentHistory, Exists,
              ActiveMatchesSignals, ActiveOf, Active, SeenGrounded
<1>. QED BY <1>1, <1>2, <1>3 DEF Next

LEMMA InvariantHolds == Spec => []IInv
BY InitHolds, NextHolds, PTL DEF Spec

-----------------------------------------------------------------------------
(* What the invariant says.                                                *)

\* The incident table, the clock and the counters keep their types.
THEOREM FusionTypes == Spec => []FusionTypeOK
BY InvariantHolds, PTL DEF IInv

\* The dates, the status and the number of occurrences of every incident are true of
\* what happened to it since initialize.
THEOREM HistoryHolds == Spec => []IncidentHistory
BY InvariantHolds, PTL DEF IInv

\* After every refresh the active incidents of an agent show its last signals: none is
\* left over, missing, or shows what an earlier refresh saw.
THEOREM ActiveHolds == Spec => []ActiveMatchesSignals
BY InvariantHolds, PTL DEF IInv

\* No incident carries a strong recommendation while a feed its evidence needs is not
\* healthy.
THEOREM StrongHolds == Spec => []StrongNeedsHealthyEvidence
<1>1. IInv => StrongNeedsHealthyEvidence
  <2>. SUFFICES ASSUME IInv, NEW a \in Agents, NEW k \in ActiveOf(a)
                PROVE  RestsOnHealthy(inputs[a], incidents[k].seen) /\ k.type = incidents[k].seen.type
    BY DEF StrongNeedsHealthyEvidence, RestsOnHealthy
  <2>1. inputs[a] # NoTime /\ inputs[a] \in Signals
    BY DEF IInv, ActiveMatchesSignals, InputsOK
  <2>2. incidents[k].seen \in Candidates(inputs[a])
    BY <2>1 DEF IInv, ActiveMatchesSignals
  <2>3. KeyOf(k.agent, incidents[k].seen) = k
    <3>1. k \in Keys /\ incidents[k].status = "ACTIVE"
      BY DEF ActiveOf, Active
    <3>2. Exists(k)
      BY <3>1, NoneIsNot DEF Exists
    <3>. QED BY <3>1, <3>2 DEF IInv, IncidentHistory
  <2>4. k.type = incidents[k].seen.type
    BY <2>3 DEF KeyOf
  <2>. QED BY <2>1, <2>2, <2>4, CandidatesAre
<1>. QED BY <1>1, InvariantHolds, PTL

-----------------------------------------------------------------------------
(* The explanations.                                                       *)

ExplanationTypeOK ==
  /\ held \in [Workers -> SUBSET (Incidents \cup {None})]
  /\ DOMAIN calls = Workers

\* What a request has read belongs to its key, and was so during the request.
IncidentRead(c, states) ==
  /\ c.incident \in states /\ c.incident \in Incidents
  /\ KeyOf(c.key.agent, c.incident.seen) = c.key
  /\ Grounded(c.incident.seen)

\* All that may be told of an incident.
Things(i) ==
  i.seen.evidence \cup (IF i.seen.anomalous THEN {"ACTIVITY", "TRANSACTIONS"} ELSE {})

\* OneIncidentExplained and BoundariesKept, of one answer.
AnswerOfOne(c, states) ==
  \E i \in states \ {None} :
    /\ KeyOf(c.key.agent, i.seen) = c.key
    /\ c.answer.title = i.updated
    /\ FiguresFound(c.answer.figures) \subseteq AllFigures(i)

AnswerInBounds(c) ==
  /\ c.request.audience = "PROVIDER_OPERATIONS" =>
       /\ c.key.scope = {} \/ c.request.viewer \in c.key.scope
       /\ NamesFound(c.answer.names) \subseteq {c.request.viewer}
  /\ NamesFound(c.answer.names) \subseteq c.key.scope \cup {c.request.viewer}
  /\ c.request.audience # "RISK_REVIEWER" =>
       \A f \in FiguresFound(c.answer.figures) : f.of # "TRANSACTIONS"

FigureSets ==
  SUBSET [of : Resources \cup {"ACTIVITY", "TRANSACTIONS"}, at : Nat, free : BOOLEAN]

Texts ==
  [status : {"ok"}, source : {"OPENAI", "TEMPLATE_FALLBACK"}, figures : FigureSets,
   names : SUBSET Names, title : Nat, redacted : BOOLEAN]

Answers == [status : {"none", "403", "404"}] \cup Texts

CallRecords ==
  [stage : {"case", "incident", "asking", "answered"}, key : Keys, request : Requests,
   incident : Incidents \cup {None}, attempts : Nat, answer : Answers]

\* One request, and the states its incident had.
CallOK(c, states) ==
  \/ c = Idle
  \/ /\ c \in CallRecords
     /\ c.stage \in {"case", "asking"} => IncidentRead(c, states)
     /\ c.stage = "asking" => ~Forbidden(c.request, c.key.scope)
     /\ c.stage = "answered" /\ c.answer.status = "ok" =>
          AnswerOfOne(c, states) /\ AnswerInBounds(c)

Current(w) == calls[w].stage \in {"idle", "answered"} \/ incidents[calls[w].key] \in held[w]

ExplanationInv ==
  /\ IInv
  /\ ExplanationTypeOK
  /\ \A w \in Workers : CallOK(calls[w], held[w]) /\ Current(w)

-----------------------------------------------------------------------------
(* The answers.                                                            *)

LEMMA KeyIs ==
  ASSUME NEW k \in Keys
  PROVE  k.agent \in Agents /\ k.type \in IncidentTypes /\ k.scope \in SUBSET Providers
         /\ Providers \subseteq ProviderIDs
BY FusionAssumption DEF Keys, FusionAssumption, ProviderIDs

LEMMA SeenIs ==
  ASSUME NEW i \in Incidents
  PROVE  /\ i.seen.evidence \in SUBSET Resources /\ i.seen.anomalous \in BOOLEAN
         /\ i.seen.scope \in SUBSET Providers /\ i.updated \in Nat
         /\ i.seen.type \in IncidentTypes
         /\ "TRANSACTIONS" \notin i.seen.evidence
<1>1. i.seen \in SeenRecords /\ i.updated \in Nat
  BY DEF Incidents, SeenRecords
<1>2. i.seen.evidence \in SUBSET Resources
  BY <1>1 DEF SeenRecords
<1>. QED BY <1>1, <1>2, ResourcesPlaced DEF SeenRecords

\* What Answer makes of a call.
LEMMA AnswerIs ==
  ASSUME NEW c \in CallRecords, NEW source \in {"OPENAI", "TEMPLATE_FALLBACK"},
         NEW figures \in FigureSets, NEW names \in SUBSET Names,
         NEW i, i.updated \in Nat
  PROVE  LET n == Answer(c, source, figures, names, i)
         IN  /\ n.stage = "answered" /\ n.key = c.key /\ n.request = c.request
             /\ n.incident = c.incident /\ n.attempts = c.attempts
             /\ n.answer = [status |-> "ok", source |-> source, figures |-> figures,
                            names |-> names, title |-> i.updated,
                            redacted |-> Redacted(c.request, c.key.scope)]
             /\ n \in CallRecords
<1>. DEFINE x == [status |-> "ok", source |-> source, figures |-> figures, names |-> names,
                  title |-> i.updated, redacted |-> Redacted(c.request, c.key.scope)]
            n == [c EXCEPT !.stage = "answered", !.answer = x]
<1>1. Redacted(c.request, c.key.scope) \in BOOLEAN
  BY DEF Redacted
<1>2. x \in Answers
  BY <1>1 DEF Texts, Answers
<1>. HIDE DEF x
<1>3. /\ n.stage = "answered" /\ n.key = c.key /\ n.request = c.request
      /\ n.incident = c.incident /\ n.attempts = c.attempts /\ n.answer = x
      /\ n \in CallRecords
  BY <1>2 DEF CallRecords
<1>4. Answer(c, source, figures, names, i) = n
  BY DEF Answer, x
<1>. QED BY <1>3, <1>4 DEF x

\* The figures of an incident are of the things told of it, and more things have more.
LEMMA FiguresGrow ==
  ASSUME NEW i, NEW S, NEW T, S \subseteq T
  PROVE  /\ Figures(S, i) \subseteq Figures(T, i)
         /\ \A f \in Figures(S, i) : f.of \in S
BY DEF Figures

LEMMA AllFiguresAre ==
  ASSUME NEW i
  PROVE  AllFigures(i) = Figures(Things(i), i)
BY DEF AllFigures, Things

LEMMA TemplateOK ==
  ASSUME NEW c \in CallRecords, NEW states \in SUBSET (Incidents \cup {None}),
         IncidentRead(c, states), ~Forbidden(c.request, c.key.scope)
  PROVE  CallOK(Template(c), states)
<1>. DEFINE i == c.incident
            n == Template(c)
            figures == Figures(Shown(i), i)
            names == Named(i)
<1>1. /\ i \in states /\ i \in Incidents /\ i # None
      /\ KeyOf(c.key.agent, i.seen) = c.key /\ Grounded(i.seen)
  BY NoneIsNot DEF IncidentRead
<1>2. /\ i.seen.evidence \in SUBSET Resources /\ i.seen.anomalous \in BOOLEAN
      /\ i.seen.scope \in SUBSET Providers /\ i.updated \in Nat
      /\ "TRANSACTIONS" \notin i.seen.evidence
  BY <1>1, SeenIs
<1>3. /\ c.key \in Keys /\ c.request \in Requests /\ c.key.scope = i.seen.scope
      /\ c.key.type = i.seen.type
  BY <1>1 DEF CallRecords, KeyOf
<1>4. /\ Shown(i) \subseteq i.seen.evidence
           \cup (IF i.seen.anomalous THEN {"ACTIVITY", "TRANSACTIONS"} ELSE {})
      /\ Shown(i) \subseteq Resources \cup {"ACTIVITY"} /\ "TRANSACTIONS" \notin Shown(i)
  BY <1>1, <1>2 DEF Shown, Grounded
<1>5. NamesFound(names) \subseteq c.key.scope /\ names \subseteq Names
  BY <1>2, <1>3, KeyIs DEF Named, NamesFound, Names
<1>6. c.request.audience = "PROVIDER_OPERATIONS" =>
        /\ c.key.scope = {} \/ c.request.viewer \in c.key.scope
        /\ NamesFound(names) \subseteq {c.request.viewer}
  <2>1. c.request.audience = "PROVIDER_OPERATIONS" =>
          c.key.scope = {} \/ c.request.viewer \in c.key.scope
    BY DEF Forbidden
  <2>2. names = {} \/ \E p \in Providers : c.key.scope = {p}
    BY <1>1, <1>3 DEF Named, Grounded
  <2>3. names = {} => NamesFound(names) = {}
    BY DEF NamesFound
  <2>. HIDE DEF names
  <2>. QED BY <1>5, <2>1, <2>2, <2>3
<1>. HIDE DEF names, figures
<1>7. figures \subseteq Figures(Shown(i), i) /\ FiguresFound(figures) \subseteq figures
  BY DEF figures, FiguresFound
<1>8. /\ figures \in FigureSets
      /\ \A f \in FiguresFound(figures) : f.of # "TRANSACTIONS"
      /\ FiguresFound(figures) \subseteq AllFigures(i)
  <2>1. figures \subseteq [of : Shown(i), at : {i.updated}, free : {TRUE}]
    BY <1>7 DEF Figures
  <2>2. figures \in FigureSets
    BY <1>2, <1>4, <2>1 DEF FigureSets
  <2>3. Shown(i) \subseteq Things(i)
    BY <1>4 DEF Things
  <2>4. figures \subseteq AllFigures(i) /\ \A f \in figures : f.of \in Shown(i)
    BY <1>7, <2>3, FiguresGrow, AllFiguresAre
  <2>. QED BY <1>4, <1>7, <2>2, <2>4
<1>9. n = Answer(c, "TEMPLATE_FALLBACK", figures, names, i)
  BY DEF Template, names, figures
<1>. HIDE DEF n
<1>10. /\ n.stage = "answered" /\ n.key = c.key /\ n.request = c.request
       /\ n.answer = [status |-> "ok", source |-> "TEMPLATE_FALLBACK", figures |-> figures,
                      names |-> names, title |-> i.updated,
                      redacted |-> Redacted(c.request, c.key.scope)]
       /\ n \in CallRecords
  <2>1. names \in SUBSET Names
    BY <1>5
  <2>. QED BY <1>2, <1>8, <1>9, <2>1, AnswerIs
<1>11. AnswerOfOne(n, states)
  BY <1>1, <1>8, <1>10 DEF AnswerOfOne
<1>12. AnswerInBounds(n)
  BY <1>5, <1>6, <1>8, <1>10 DEF AnswerInBounds
<1>13. CallOK(n, states)
  BY <1>10, <1>11, <1>12 DEF CallOK
<1>. QED BY <1>13 DEF n

LEMMA DraftOK ==
  ASSUME NEW c \in CallRecords, NEW states \in SUBSET (Incidents \cup {None}),
         IncidentRead(c, states), ~Forbidden(c.request, c.key.scope),
         NEW d \in Drafts, Accepted(d, c), now \in Nat
  PROVE  /\ CallOK(Answer(c, "OPENAI", d.figures, d.names, c.incident), states)
         /\ Answer(c, "OPENAI", d.figures, d.names, c.incident).stage = "answered"
<1>. DEFINE i == c.incident
            q == c.request
            figures == d.figures
            names == d.names
            n == Answer(c, "OPENAI", figures, names, i)
            things == i.seen.evidence
                        \cup (IF i.seen.anomalous THEN {"ACTIVITY"} ELSE {})
                        \cup (IF i.seen.anomalous /\ q.audience = "RISK_REVIEWER"
                              THEN {"TRANSACTIONS"} ELSE {})
<1>1. /\ i \in states /\ i \in Incidents /\ i # None
      /\ KeyOf(c.key.agent, i.seen) = c.key
  BY NoneIsNot DEF IncidentRead
<1>2. /\ i.seen.evidence \in SUBSET Resources /\ i.seen.anomalous \in BOOLEAN
      /\ i.updated \in Nat /\ "TRANSACTIONS" \notin i.seen.evidence
  BY <1>1, SeenIs
<1>3. /\ things \subseteq i.seen.evidence
           \cup (IF i.seen.anomalous THEN {"ACTIVITY", "TRANSACTIONS"} ELSE {})
      /\ things \subseteq Resources \cup {"ACTIVITY", "TRANSACTIONS"}
      /\ q.audience # "RISK_REVIEWER" => "TRANSACTIONS" \notin things
  BY <1>2
<1>4. /\ FiguresFound(figures) \subseteq PayloadFigures(q, i)
      /\ NamesFound(names) \subseteq AllowedNames(q, c.key.scope)
      /\ names \in SUBSET Names
      /\ figures \in SUBSET [of : Resources \cup {"ACTIVITY", "TRANSACTIONS"}, at : 0..now,
                             free : BOOLEAN]
  BY DEF Accepted, Drafts
<1>5. PayloadFigures(q, i) = Figures(things, i)
  BY DEF PayloadFigures
<1>. HIDE DEF things, figures, names
<1>6. FiguresFound(figures) \subseteq Figures(things, i)
  BY <1>4, <1>5
<1>7. /\ figures \in FigureSets
      /\ q.audience # "RISK_REVIEWER" =>
           \A f \in FiguresFound(figures) : f.of # "TRANSACTIONS"
      /\ FiguresFound(figures) \subseteq AllFigures(i)
  <2>1. figures \in FigureSets
    BY <1>4 DEF FigureSets
  <2>2. things \subseteq Things(i)
    BY <1>3 DEF Things
  <2>3. /\ Figures(things, i) \subseteq AllFigures(i)
        /\ \A f \in Figures(things, i) : f.of \in things
    BY <2>2, FiguresGrow, AllFiguresAre
  <2>. QED BY <1>3, <1>6, <2>1, <2>3
<1>8. /\ q.audience = "PROVIDER_OPERATIONS" =>
           /\ c.key.scope = {} \/ q.viewer \in c.key.scope
           /\ NamesFound(names) \subseteq {q.viewer}
      /\ NamesFound(names) \subseteq c.key.scope \cup {q.viewer}
  BY <1>4 DEF Forbidden, AllowedNames, VisibleScope
<1>. HIDE DEF n
<1>9. /\ n.stage = "answered" /\ n.key = c.key /\ n.request = c.request
      /\ n.answer = [status |-> "ok", source |-> "OPENAI", figures |-> figures,
                     names |-> names, title |-> i.updated,
                     redacted |-> Redacted(c.request, c.key.scope)]
      /\ n \in CallRecords
  BY <1>2, <1>4, <1>7, AnswerIs DEF n
<1>10. AnswerOfOne(n, states)
  BY <1>1, <1>7, <1>9 DEF AnswerOfOne
<1>11. AnswerInBounds(n)
  BY <1>7, <1>8, <1>9 DEF AnswerInBounds
<1>12. CallOK(n, states)
  BY <1>9, <1>10, <1>11 DEF CallOK
<1>. QED BY <1>9, <1>12 DEF n, figures, names

LEMMA RefuseOK ==
  ASSUME NEW c \in CallRecords, NEW states, NEW status \in {"403", "404"}
  PROVE  /\ CallOK(Refuse(c, status), states)
         /\ Refuse(c, status).stage = "answered" /\ Refuse(c, status).key = c.key
<1>. DEFINE x == [status |-> status]
            n == Refuse(c, status)
<1>1. x \in Answers /\ x.status # "ok"
  BY DEF Answers
<1>. HIDE DEF x
<1>2. n \in CallRecords /\ n.stage = "answered" /\ n.key = c.key /\ n.answer = x
  <2>1. n = [c EXCEPT !.stage = "answered", !.answer = x]
    BY DEF Refuse, x
  <2>. QED BY <1>1, <2>1 DEF CallRecords
<1>. HIDE DEF n
<1>3. CallOK(n, states)
  BY <1>1, <1>2 DEF CallOK
<1>. QED BY <1>2, <1>3 DEF n

LEMMA GenerateOK ==
  ASSUME NEW c \in CallRecords, NEW states \in SUBSET (Incidents \cup {None}),
         IncidentRead(c, states)
  PROVE  /\ CallOK(Generate(c), states)
         /\ \/ Generate(c).stage = "answered"
            \/ Generate(c).stage = "asking" /\ Generate(c).key = c.key
<1>1. CASE Forbidden(c.request, c.key.scope)
  BY <1>1, RefuseOK DEF Generate
<1>2. CASE ~Forbidden(c.request, c.key.scope) /\ c.request.ai /\ AIConfigured
  <2>. DEFINE n == [c EXCEPT !.stage = "asking"]
  <2>1. /\ n \in CallRecords /\ n.stage = "asking" /\ n.key = c.key
        /\ n.request = c.request /\ n.incident = c.incident
    BY DEF CallRecords
  <2>2. Generate(c) = n
    BY <1>2 DEF Generate
  <2>. HIDE DEF n
  <2>. QED BY <1>2, <2>1, <2>2 DEF CallOK, IncidentRead
<1>3. CASE ~Forbidden(c.request, c.key.scope) /\ ~(c.request.ai /\ AIConfigured)
  <2>1. Generate(c) = Template(c)
    BY <1>3 DEF Generate
  <2>2. Template(c).stage = "answered"
    BY DEF Template, Answer, CallRecords
  <2>. QED BY <1>3, <2>1, <2>2, TemplateOK
<1>. QED BY <1>1, <1>2, <1>3

-----------------------------------------------------------------------------
(* Steps.                                                                  *)

LEMMA IncidentIs ==
  ASSUME IInv, NEW k \in Keys, Exists(k)
  PROVE  /\ incidents[k] \in Incidents /\ KeyOf(k.agent, incidents[k].seen) = k
         /\ Grounded(incidents[k].seen)
BY DEF IInv, FusionTypeOK, IncidentHistory, SeenGrounded, Exists

LEMMA CallIs ==
  ASSUME NEW stage \in {"case", "incident"}, NEW k \in Keys, NEW q \in Requests,
         NEW i \in Incidents \cup {None}
  PROVE  /\ Call(stage, k, q, i) \in CallRecords
         /\ Call(stage, k, q, i).key = k /\ Call(stage, k, q, i).incident = i
         /\ Call(stage, k, q, i).stage = stage
<1>1. [status |-> "none"] \in Answers
  BY DEF Answers
<1>. QED BY <1>1 DEF Call, CallRecords

LEMMA FusionUnchanged ==
  ASSUME IInv, UNCHANGED fusionVars
  PROVE  IInv'
BY NextHolds

LEMMA BeginKeeps ==
  ASSUME ExplanationInv, NEW w \in Workers, NEW k \in Keys, NEW c,
         CallOK(c, {incidents[k]}), c.key = k, Begin(w, k, c)
  PROVE  ExplanationInv'
<1>1. /\ calls' = [calls EXCEPT ![w] = c] /\ held' = [held EXCEPT ![w] = {incidents[k]}]
      /\ UNCHANGED fusionVars /\ incidents' = incidents
  BY DEF Begin, fusionVars
<1>2. IInv'
  BY <1>1, FusionUnchanged DEF ExplanationInv
<1>3. incidents[k] \in Incidents \cup {None}
  BY DEF ExplanationInv, IInv, FusionTypeOK
<1>4. ExplanationTypeOK'
  BY <1>1, <1>3 DEF ExplanationInv, ExplanationTypeOK
<1>5. ASSUME NEW v \in Workers
      PROVE  CallOK(calls'[v], held'[v])
             /\ (calls'[v].stage \in {"idle", "answered"} \/ incidents'[calls'[v].key] \in held'[v])
  BY <1>1 DEF ExplanationInv, ExplanationTypeOK, Current
<1>. QED BY <1>2, <1>4, <1>5 DEF ExplanationInv, Current

LEMMA ServeKeeps ==
  ASSUME ExplanationInv, NEW w \in Workers, NEW n,
         calls[w].stage \notin {"idle", "answered"}, CallOK(n, held[w]),
         n.stage = "answered" \/ n.key = calls[w].key, Serve(w, n)
  PROVE  ExplanationInv'
<1>1. /\ calls' = [calls EXCEPT ![w] = n] /\ held' = held
      /\ UNCHANGED fusionVars /\ incidents' = incidents
  BY DEF Serve, fusionVars
<1>2. IInv'
  BY <1>1, FusionUnchanged DEF ExplanationInv
<1>3. ExplanationTypeOK'
  BY <1>1 DEF ExplanationInv, ExplanationTypeOK
<1>4. ASSUME NEW v \in Workers
      PROVE  CallOK(calls'[v], held'[v])
             /\ (calls'[v].stage \in {"idle", "answered"} \/ incidents'[calls'[v].key] \in held'[v])
  BY <1>1 DEF ExplanationInv, ExplanationTypeOK, Current
<1>. QED BY <1>2, <1>3, <1>4 DEF ExplanationInv, Current

LEMMA RequestKeeps ==
  ASSUME ExplanationInv, NEW w \in Workers, NEW k \in Keys, NEW q \in Requests,
         ExplainIncident(w, k, q) \/ ExplainCase(w, k, q)
  PROVE  ExplanationInv'
<1>1. IInv /\ incidents[k] \in Incidents \cup {None}
  BY DEF ExplanationInv, IInv, FusionTypeOK
<1>2. CASE ExplainIncident(w, k, q)
  <2>. DEFINE c == Call("case", k, q, incidents[k])
  <2>1. c \in CallRecords /\ c.key = k /\ c.incident = incidents[k] /\ c.stage = "case"
    BY <1>1, CallIs
  <2>. HIDE DEF c
  <2>2. CASE Exists(k)
    <3>1. IncidentRead(c, {incidents[k]})
      BY <1>1, <2>1, <2>2, IncidentIs DEF IncidentRead
    <3>2. CallOK(c, {incidents[k]})
      BY <2>1, <3>1 DEF CallOK
    <3>3. Begin(w, k, c)
      BY <1>2, <2>2 DEF ExplainIncident, c
    <3>. QED BY <2>1, <3>2, <3>3, BeginKeeps
  <2>3. CASE ~Exists(k)
    <3>1. Begin(w, k, Refuse(c, "404"))
      BY <1>2, <2>3 DEF ExplainIncident, c
    <3>2. CallOK(Refuse(c, "404"), {incidents[k]}) /\ Refuse(c, "404").key = k
      BY <2>1, RefuseOK
    <3>. QED BY <3>1, <3>2, BeginKeeps
  <2>. QED BY <2>2, <2>3
<1>3. CASE ExplainCase(w, k, q)
  <2>. DEFINE c == Call("incident", k, q, None)
  <2>1. c \in CallRecords /\ c.key = k /\ c.stage = "incident"
    BY CallIs
  <2>. HIDE DEF c
  <2>2. CASE k \in cased
    <3>1. CallOK(c, {incidents[k]})
      BY <2>1 DEF CallOK
    <3>2. Begin(w, k, c)
      BY <1>3, <2>2 DEF ExplainCase, c
    <3>. QED BY <2>1, <3>1, <3>2, BeginKeeps
  <2>3. CASE k \notin cased
    <3>1. Begin(w, k, Refuse(c, "404"))
      BY <1>3, <2>3 DEF ExplainCase, c
    <3>2. CallOK(Refuse(c, "404"), {incidents[k]}) /\ Refuse(c, "404").key = k
      BY <2>1, RefuseOK
    <3>. QED BY <3>1, <3>2, BeginKeeps
  <2>. QED BY <2>2, <2>3
<1>. QED BY <1>2, <1>3

LEMMA WorkerKeeps ==
  ASSUME ExplanationInv, NEW w \in Workers, WorkerStep(w)
  PROVE  ExplanationInv'
<1>. DEFINE c == calls[w]
            states == held[w]
<1>1. c.stage \in {"case", "incident", "asking"}
  BY DEF WorkerStep, ReadCase, ReadIncident, ModelAnswers, AttemptFails
<1>2. /\ c \in CallRecords /\ states \in SUBSET (Incidents \cup {None})
      /\ c.stage \in {"case", "asking"} => IncidentRead(c, states)
      /\ c.stage = "asking" => ~Forbidden(c.request, c.key.scope)
      /\ incidents[c.key] \in states /\ IInv
      /\ c.key \in Keys
  <2>1. CallOK(c, states) /\ Current(w) /\ c # Idle
    BY <1>1 DEF ExplanationInv, Idle
  <2>2. c \in CallRecords
    BY <2>1 DEF CallOK
  <2>3. c.key \in Keys
    BY <2>2 DEF CallRecords
  <2>. QED BY <1>1, <2>1, <2>2, <2>3 DEF CallOK, Current, ExplanationInv, ExplanationTypeOK
<1>. HIDE DEF states
<1>3. CASE ReadCase(w)
  <2>1. Serve(w, Generate(c)) /\ c.stage = "case"
    BY <1>3 DEF ReadCase
  <2>2. /\ CallOK(Generate(c), states)
        /\ Generate(c).stage = "answered" \/ Generate(c).key = c.key
    BY <1>2, <2>1, GenerateOK
  <2>. QED BY <1>1, <2>1, <2>2, ServeKeeps DEF states
<1>4. CASE ReadIncident(w)
  <2>. DEFINE d == [c EXCEPT !.incident = incidents[c.key]]
  <2>1. incidents[c.key] \in Incidents \cup {None}
    BY <1>2 DEF IInv, FusionTypeOK
  <2>2. /\ d \in CallRecords /\ d.key = c.key /\ d.incident = incidents[c.key]
        /\ d.stage = c.stage /\ d.request = c.request
    BY <1>2, <2>1 DEF CallRecords
  <2>3. Serve(w, IF d.incident = None THEN Refuse(d, "404") ELSE Generate(d))
    BY <1>4 DEF ReadIncident
  <2>. HIDE DEF d
  <2>4. CASE d.incident = None
    <3>1. CallOK(Refuse(d, "404"), states) /\ Refuse(d, "404").stage = "answered"
      BY <2>2, RefuseOK
    <3>2. Serve(w, Refuse(d, "404"))
      BY <2>3, <2>4
    <3>. QED BY <1>1, <3>1, <3>2, ServeKeeps DEF states
  <2>5. CASE d.incident # None
    <3>1. Exists(d.key)
      BY <2>2, <2>5 DEF Exists
    <3>2. IncidentRead(d, states)
      BY <1>2, <2>2, <3>1, IncidentIs DEF IncidentRead
    <3>3. /\ CallOK(Generate(d), states)
          /\ Generate(d).stage = "answered" \/ Generate(d).key = c.key
      BY <1>2, <2>2, <3>2, GenerateOK
    <3>4. Serve(w, Generate(d))
      BY <2>3, <2>5
    <3>. QED BY <1>1, <3>3, <3>4, ServeKeeps DEF states
  <2>. QED BY <2>4, <2>5
<1>5. CASE ModelAnswers(w)
  <2>1. c.stage = "asking"
    BY <1>5 DEF ModelAnswers
  <2>2. PICK d \in Drafts :
          Serve(w, IF Accepted(d, c) THEN Answer(c, "OPENAI", d.figures, d.names, c.incident)
                                     ELSE Template(c))
    BY <1>5 DEF ModelAnswers
  <2>3. CASE Accepted(d, c)
    <3>. DEFINE n == Answer(c, "OPENAI", d.figures, d.names, c.incident)
    <3>1. CallOK(n, states) /\ n.stage = "answered"
      <4>1. now \in Nat
        BY DEF ExplanationInv, IInv, FusionTypeOK
      <4>. QED BY <1>2, <2>1, <2>3, <4>1, DraftOK
    <3>2. Serve(w, n)
      BY <2>2, <2>3
    <3>. HIDE DEF n
    <3>. QED BY <1>1, <3>1, <3>2, ServeKeeps DEF states
  <2>4. CASE ~Accepted(d, c)
    <3>1. CallOK(Template(c), states) /\ Template(c).stage = "answered"
      BY <1>2, <2>1, TemplateOK DEF Template, Answer, CallRecords
    <3>2. Serve(w, Template(c))
      BY <2>2, <2>4
    <3>. QED BY <1>1, <3>1, <3>2, ServeKeeps DEF states
  <2>. QED BY <2>3, <2>4
<1>6. CASE AttemptFails(w)
  <2>. DEFINE d == [c EXCEPT !.attempts = @ + 1]
  <2>1. c.stage = "asking"
    BY <1>6 DEF AttemptFails
  <2>2. /\ d \in CallRecords /\ d.key = c.key /\ d.incident = c.incident
        /\ d.stage = c.stage /\ d.request = c.request
    BY <1>2 DEF CallRecords
  <2>3. Serve(w, IF d.attempts = MaxAttempts THEN Template(d) ELSE d)
    BY <1>6 DEF AttemptFails
  <2>. HIDE DEF d
  <2>4. IncidentRead(d, states) /\ ~Forbidden(d.request, d.key.scope)
    BY <1>2, <2>1, <2>2 DEF IncidentRead
  <2>5. CASE d.attempts = MaxAttempts
    <3>1. CallOK(Template(d), states) /\ Template(d).stage = "answered"
      BY <1>2, <2>2, <2>4, TemplateOK DEF Template, Answer, CallRecords
    <3>2. Serve(w, Template(d))
      BY <2>3, <2>5
    <3>. QED BY <1>1, <3>1, <3>2, ServeKeeps DEF states
  <2>6. CASE d.attempts # MaxAttempts
    <3>1. CallOK(d, states)
      BY <2>1, <2>2, <2>4 DEF CallOK
    <3>2. Serve(w, d)
      BY <2>3, <2>6
    <3>. QED BY <1>1, <2>2, <3>1, <3>2, ServeKeeps DEF states
  <2>. QED BY <2>5, <2>6
<1>. QED BY <1>3, <1>4, <1>5, <1>6 DEF WorkerStep

\* A call that was fine stays fine when its incident has had one more state.
LEMMA MoreStates ==
  ASSUME NEW c, NEW S, NEW T, CallOK(c, S), S \subseteq T
  PROVE  CallOK(c, T)
BY DEF CallOK, IncidentRead, AnswerOfOne

LEMMA ReplayKeeps ==
  ASSUME ExplanationInv, [Next]_fusionVars, Hold, calls' = calls
  PROVE  ExplanationInv'
<1>1. IInv'
  BY NextHolds DEF ExplanationInv
<1>2. ASSUME NEW w \in Workers
      PROVE  /\ held[w] \subseteq held'[w] /\ held'[w] \in SUBSET (Incidents \cup {None})
             /\ calls[w].stage \in {"idle", "answered"} \/ incidents'[calls[w].key] \in held'[w]
  <2>1. held[w] \in SUBSET (Incidents \cup {None}) /\ CallOK(calls[w], held[w])
    BY DEF ExplanationInv, ExplanationTypeOK
  <2>2. CASE calls[w].stage \in {"idle", "answered"}
    BY <2>1, <2>2 DEF Hold
  <2>3. CASE calls[w].stage \notin {"idle", "answered"}
    <3>1. calls[w] \in CallRecords
      BY <2>1, <2>3 DEF CallOK, Idle
    <3>2. calls[w].key \in Keys
      BY <3>1 DEF CallRecords
    <3>3. incidents'[calls[w].key] \in Incidents \cup {None}
      BY <1>1, <3>2 DEF IInv, FusionTypeOK
    <3>4. held'[w] = held[w] \cup {incidents'[calls[w].key]}
      BY <2>3 DEF Hold
    <3>. QED BY <2>1, <3>3, <3>4
  <2>. QED BY <2>2, <2>3
<1>3. ExplanationTypeOK'
  <2>1. held' = [w \in Workers |-> held'[w]]
    BY DEF Hold
  <2>2. held' \in [Workers -> SUBSET (Incidents \cup {None})]
    BY <1>2, <2>1
  <2>. QED BY <2>2 DEF ExplanationInv, ExplanationTypeOK
<1>4. \A w \in Workers : CallOK(calls[w], held'[w])
  BY <1>2, MoreStates DEF ExplanationInv
<1>. QED BY <1>1, <1>2, <1>3, <1>4 DEF ExplanationInv, Current

LEMMA CasesKeep ==
  ASSUME ExplanationInv, UNCHANGED <<fusionVars, calls, held>>
  PROVE  ExplanationInv'
<1>1. IInv'
  BY FusionUnchanged DEF ExplanationInv
<1>. QED BY <1>1 DEF ExplanationInv, ExplanationTypeOK, Current, fusionVars

LEMMA ExplanationInitHolds == ExplanationInit => ExplanationInv
<1>. SUFFICES ASSUME ExplanationInit PROVE ExplanationInv
  OBVIOUS
<1>1. IInv
  BY InitHolds DEF ExplanationInit
<1>2. \A w \in Workers : calls[w] = Idle /\ held[w] = {}
  BY DEF ExplanationInit
<1>3. ExplanationTypeOK
  BY DEF ExplanationInit, ExplanationTypeOK
<1>. QED BY <1>1, <1>2, <1>3 DEF ExplanationInv, CallOK, Current, Idle

\* The incidents change as the fusion engine changes them.
LEMMA ReplaySteps ==
  ASSUME ReplayStep
  PROVE  \/ [Next]_fusionVars /\ Hold /\ calls' = calls
         \/ UNCHANGED <<fusionVars, calls, held>>
BY DEF ReplayStep, ReplayRefresh, ReplayInitialize, SyncCases, ResetCases, Next

LEMMA ExplanationNextHolds ==
  ExplanationInv /\ [ExplanationNext]_explanationVars => ExplanationInv'
<1>. SUFFICES ASSUME ExplanationInv, [ExplanationNext]_explanationVars PROVE ExplanationInv'
  OBVIOUS
<1>1. CASE ReplayStep
  BY <1>1, ReplaySteps, ReplayKeeps, CasesKeep
<1>2. CASE \E w \in Workers, k \in Keys, q \in Requests :
             ExplainIncident(w, k, q) \/ ExplainCase(w, k, q)
  BY <1>2, RequestKeeps
<1>3. CASE \E w \in Workers : WorkerStep(w)
  BY <1>3, WorkerKeeps
<1>4. CASE UNCHANGED explanationVars
  BY <1>4, CasesKeep DEF explanationVars
<1>. QED BY <1>1, <1>2, <1>3, <1>4 DEF ExplanationNext

LEMMA ExplanationHolds == ExplanationSpec => []ExplanationInv
BY ExplanationInitHolds, ExplanationNextHolds, PTL DEF ExplanationSpec

-----------------------------------------------------------------------------
(* What the invariant says.                                                *)

\* Serving explanations leaves the fusion engine alone: what is proved of its incidents
\* above holds while they are explained.
THEOREM FusionImplemented == ExplanationSpec => Spec
<1>1. ExplanationInit => Init
  BY DEF ExplanationInit
<1>2. [ExplanationNext]_explanationVars => [Next]_fusionVars
  BY DEF ExplanationNext, ReplayStep, ReplayRefresh, ReplayInitialize, SyncCases, ResetCases,
         ExplainIncident, ExplainCase, Begin, WorkerStep, ReadCase, ReadIncident,
         ModelAnswers, AttemptFails, Serve, explanationVars, Next
<1>. QED BY <1>1, <1>2, PTL DEF ExplanationSpec, Spec

\* Every explanation given is of one state its incident had during the request: its
\* title, and every figure in it that the number check can find.
THEOREM OneIncidentHolds == ExplanationSpec => []OneIncidentExplained
<1>1. ExplanationInv => OneIncidentExplained
  BY DEF ExplanationInv, CallOK, Idle, OneIncidentExplained, Explained, AnswerOfOne
<1>. QED BY <1>1, ExplanationHolds, PTL

\* No explanation names a provider by its id to another one, or shows the ids of
\* transactions as free figures to anyone but a risk reviewer.
THEOREM BoundariesHold == ExplanationSpec => []BoundariesKept
<1>1. ExplanationInv => BoundariesKept
  BY DEF ExplanationInv, CallOK, Idle, BoundariesKept, Explained, AnswerInBounds
<1>. QED BY <1>1, ExplanationHolds, PTL
=============================================================================

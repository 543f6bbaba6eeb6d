---------------------------- MODULE MCExplanations ----------------------------
(* One agent with two providers.  Some combinations of signals, which share  *)
(* incidents, come in sequences, and are explained on the way; all of them   *)
(* are looked at once.                                                       *)
EXTENDS Explanations
MCEtas == {1, 2}

MCAllSignals == UNION {InputsWith(trust) : trust \in [Providers -> FeedStatuses]}

Says(status, eta, strong) == [status |-> status, eta |-> eta, strong |-> strong]

\* The signals of BKASH, while NAGAD's feed has a status.
SignalsOf(bkash, nagadFeed, band) ==
  LET trust == [BKASH |-> "HEALTHY", NAGAD |-> nagadFeed]
      all == nagadFeed = "HEALTHY"
      unknown == Says("INSUFFICIENT_DATA", NoEta, FALSE)
  IN  [trust |-> trust,
       forecast |-> [CASH |-> IF nagadFeed \in SevereFeeds THEN unknown
                              ELSE Says("SAFE", NoEta, all),
                     BKASH |-> bkash,
                     NAGAD |-> IF nagadFeed \in SevereFeeds THEN unknown
                               ELSE Says("SAFE", NoEta, all)],
       anomaly |-> [band |-> band, scope |-> IF band = "LOW" THEN {} ELSE {"BKASH"}]]

\* The activity is of both providers.
Shared(in) == [in EXCEPT !.anomaly.scope = Providers]

MCSignals ==
  LET safe == Says("SAFE", NoEta, TRUE)
      watch == Says("WATCH", 2, TRUE)
      critical == Says("CRITICAL", 1, TRUE)
  IN  {SignalsOf(safe, "HEALTHY", "LOW"), SignalsOf(watch, "HEALTHY", "LOW"),
       SignalsOf(critical, "HEALTHY", "LOW"), Shared(SignalsOf(critical, "HEALTHY", "HIGH")),
       SignalsOf(safe, "HEALTHY", "MEDIUM"), SignalsOf(safe, "STALE", "LOW"),
       SignalsOf(critical, "CONFLICTING", "HIGH"),
       [SignalsOf(safe, "STALE", "LOW") EXCEPT !.forecast["CASH"] = Says("WATCH", 2, FALSE)]}

MCRequests ==
  {[audience |-> "FIELD_OFFICER", viewer |-> Nobody, ai |-> TRUE],
   [audience |-> "AGENT", viewer |-> "ROCKET", ai |-> FALSE],
   [audience |-> "RISK_REVIEWER", viewer |-> Nobody, ai |-> TRUE],
   [audience |-> "PROVIDER_OPERATIONS", viewer |-> Nobody, ai |-> TRUE],
   [audience |-> "PROVIDER_OPERATIONS", viewer |-> "BKASH", ai |-> TRUE],
   [audience |-> "PROVIDER_OPERATIONS", viewer |-> "NAGAD", ai |-> FALSE]}

\* Incidents of four types and three scopes.
ExplainedSignals ==
  {in \in MCSignals : in.forecast["BKASH"].status = "CRITICAL" \/ in.anomaly.band = "MEDIUM"}

\* No request, or one that is not answered yet.
Open == \A w \in Workers : calls[w].stage # "answered"
Untouched == calls = [w \in Workers |-> Idle]
Alone == Untouched /\ cased = {}
Early == \A w \in Workers : Cardinality(held[w]) < 2

\* Every combination of signals is the first one of some behaviour; behaviours
\* that start with one of Signals go on with any of Signals.  One request is made
\* after one or two refreshes, of an incident or a case there is or of one there is
\* not; until it is answered the replay goes on by one refresh, or by a reset.
MCNext ==
  \/ /\ refreshes = 0 /\ Alone
     /\ \E a \in Agents, in \in MCAllSignals, t \in {0, 1} : ReplayRefresh(a, in, t)
  \/ /\ refreshes \in 1..(MaxRefreshes - 1) /\ Alone
     /\ \A a \in Agents : inputs[a] \in Signals
     /\ \E a \in Agents, in \in Signals, t \in {now, now + 1} : ReplayRefresh(a, in, t)
  \/ /\ refreshes < 2 /\ Open /\ ~Alone /\ Early
     /\ \E a \in Agents, in \in ExplainedSignals : ReplayRefresh(a, in, now + 1)
  \/ /\ refreshes = 1 /\ Untouched
     /\ \A a \in Agents : inputs[a] \in ExplainedSignals
     /\ SyncCases
  \/ /\ Open /\ Early
     /\ ReplayInitialize
  \/ /\ Open
     /\ ResetCases
  \/ /\ refreshes \in 1..2 /\ Untouched
     /\ \A a \in Agents : inputs[a] \in ExplainedSignals
     /\ \E w \in Workers, q \in Requests, k \in Keys :
          /\ \/ Exists(k)
             \/ k.scope = Providers /\ k.type = "DATA_QUALITY"
          /\ \/ ExplainIncident(w, k, q)
             \/ ExplainCase(w, k, q)
  \/ \E w \in Workers : WorkerStep(w)

MCSpec == ExplanationInit /\ [][MCNext]_explanationVars /\ Fairness
=============================================================================

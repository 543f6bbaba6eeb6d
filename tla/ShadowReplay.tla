----------------------------- MODULE ShadowReplay -----------------------------
(***************************************************************************)
(* ShadowReplayValidator of app/evaluation/shadow_replay.py: having read   *)
(* the files, it replays the day once more, asks the engines about every   *)
(* scenario after every event, keeps what it saw in a tracker per scenario *)
(* and says at the end whether the day passed.                             *)
(*                                                                         *)
(* What the engines say is modelled elsewhere.  Here they may answer       *)
(* anything: the evaluator has to judge them right whatever they say.      *)
(***************************************************************************)
EXTENDS SyntheticFiles, SequencesExt, FiniteSetsExt

CONSTANTS
  Never,    \* first_detected_at = None
  NoReport

ScenarioKinds == {"HIDDEN_PROVIDER_SHORTAGE", "REPEATED_CASH_OUT_CLUSTER",
  "LEGITIMATE_DEMAND_SPIKE", "CROSS_PROVIDER_LINKED_ACTIVITY", "FEED_DELAY_RECOVERY",
  "BALANCE_CONFLICT"}
AnomalyKinds == {"REPEATED_CASH_OUT_CLUSTER", "CROSS_PROVIDER_LINKED_ACTIVITY"}
DataQualityKinds == {"FEED_DELAY_RECOVERY", "BALANCE_CONFLICT"}

\* What the loader parses the rows into, and the kinds of scenario the generator labels.
ASSUME ShadowAssumption ==
  /\ Never \notin Nat
  /\ \A r \in Runs, f \in {"transactions", "feed_events", "scenario_labels"} :
       Day[r][f] \in Seq(Range(Day[r][f]))
  /\ \A r \in Runs, f \in {"transactions", "feed_events"} :
       \A row \in Range(Day[r][f]) : {row.id, row.at} \subseteq Nat
  /\ \A r \in Runs : \A s \in Range(Day[r]["scenario_labels"]) :
       s.label \in ScenarioKinds /\ s.end \in Nat

VARIABLES
  phase,     \* where run() is
  played,    \* the events replayed
  trackers,  \* a ScenarioTracker for each scenario
  answers,   \* history: what the engines said after each event
  report

evaluationVars == <<phase, played, trackers, answers, report>>
shadowVars == <<filesVars, evaluationVars>>

\* The scenarios that were read, in the order of their ids.
Scenarios == Rows("scenario_labels")

-----------------------------------------------------------------------------
(* The stream of events.                                                   *)

Events == [kind : {0}, row : RowSet("feed_events")]
            \cup [kind : {1}, row : RowSet("transactions")]

\* Feed events come before the transactions of their time.
Precedes(e, f) ==
  \/ e.row.at < f.row.at
  \/ e.row.at = f.row.at /\ e.kind < f.kind
  \/ e.row.at = f.row.at /\ e.kind = f.kind /\ e.row.id < f.row.id

\* The event that n others come before.
EventAfter(n) == CHOOSE e \in Events : Cardinality({f \in Events : Precedes(f, e)}) = n

\* The engines refuse an event of an account they were not opened with.
HasAccount(agent, provider) ==
  \E o \in RowSet("opening_balances") : o.agent = agent /\ o.resource = provider

-----------------------------------------------------------------------------
(* Observing a scenario.                                                   *)

\* Whether _observe_scenario asks an engine about s at time t.
Asked(s, t) ==
  /\ t >= s.start
  /\ s.label \in {"HIDDEN_PROVIDER_SHORTAGE"} \cup DataQualityKinds => s.provider # "NONE"
  /\ s.label = "LEGITIMATE_DEMAND_SPIKE" => t >= s.after

\* The call raises for an agent, or a feed, that the engines do not know.
Unknown(s) ==
  \/ s.agent \notin AgentsSeen
  \/ s.label \in DataQualityKinds /\ ~HasAccount(s.agent, s.provider)

\* What an engine may say about a scenario.  A demand spike is never reviewed.
Findings(s) ==
  CASE s.label = "HIDDEN_PROVIDER_SHORTAGE" ->
         IF HasAccount(s.agent, s.provider) THEN SUBSET {"risky", "hidden"} ELSE {{}}
    [] s.label = "REPEATED_CASH_OUT_CLUSTER" -> SUBSET {"near", "concentrated", "review"}
    [] s.label = "LEGITIMATE_DEMAND_SPIKE" -> {{}, {"review"}, {"spike"}}
    [] s.label = "CROSS_PROVIDER_LINKED_ACTIVITY" -> SUBSET {"linked", "review"}
    [] OTHER -> {{"HEALTHY"}, {"STALE"}, {"MISSING"}, {"CONFLICTING"}}

\* The flags an answer a at time t adds to those of the tracker k.  After its end a
\* demand spike is assessed once more, as of its end; a review does not count then.
RaisedFlags(s, t, a, k) ==
  CASE s.label = "HIDDEN_PROVIDER_SHORTAGE" -> IF "risky" \in a THEN a ELSE {}
    [] s.label = "REPEATED_CASH_OUT_CLUSTER" ->
         IF a = {"near", "concentrated", "review"} THEN a ELSE a \ {"review"}
    [] s.label = "LEGITIMATE_DEMAND_SPIKE" ->
         IF t <= s.end THEN a
         ELSE IF "final" \in k.flags THEN {} ELSE {"final"} \cup (a \ {"review"})
    [] s.label = "CROSS_PROVIDER_LINKED_ACTIVITY" ->
         IF a = {"linked", "review"} THEN {"linked"} ELSE {}
    [] s.label = "FEED_DELAY_RECOVERY" ->
         IF t < s.end THEN a \cap {"STALE", "MISSING"} ELSE a \cap {"HEALTHY"}
    [] s.label = "BALANCE_CONFLICT" -> a \cap {"CONFLICTING"}

\* The flags that count as the detection of a scenario.
Detecting(s) ==
  CASE s.label = "HIDDEN_PROVIDER_SHORTAGE" -> {"risky"}
    [] s.label \in {"REPEATED_CASH_OUT_CLUSTER", "LEGITIMATE_DEMAND_SPIKE"} -> {"review"}
    [] s.label = "CROSS_PROVIDER_LINKED_ACTIVITY" -> {"linked"}
    [] s.label = "FEED_DELAY_RECOVERY" -> {"STALE", "MISSING"}
    [] s.label = "BALANCE_CONFLICT" -> {"CONFLICTING"}

\* Where the observations are those of the first detection, not of the last event.
Frozen(s) == s.label \in {"HIDDEN_PROVIDER_SHORTAGE"} \cup AnomalyKinds

EmptyTracker == [first |-> Never, flags |-> {}, shown |-> {}]

\* A mutant of Observe: the observations go on after the detection.
ObserveToTheEnd(s, t, a, k) ==
  LET raised == RaisedFlags(s, t, a, k)
  IN  [first |-> IF k.first = Never /\ raised \cap Detecting(s) # {} THEN t ELSE k.first,
       flags |-> k.flags \cup raised,
       shown |-> a]

Observe(s, t, a, k) ==
  LET raised == RaisedFlags(s, t, a, k)
  IN  [first |-> IF k.first = Never /\ raised \cap Detecting(s) # {} THEN t ELSE k.first,
       flags |-> k.flags \cup raised,
       shown |-> IF Frozen(s) /\ k.first # Never THEN k.shown ELSE a]

\* What may be said of the scenarios at t; nothing of those not asked about.
AnswersAt(t) ==
  FoldLeft(LAMBDA said, s : {Append(a, f) : a \in said, f \in IF Asked(s, t) THEN Findings(s)
                                                              ELSE {{}}},
           {<<>>}, Scenarios)

-----------------------------------------------------------------------------
(* The verdict.                                                            *)

\* The flags each scenario has to show.
Needed(s) ==
  CASE s.label = "HIDDEN_PROVIDER_SHORTAGE" -> {{"risky"}, {"hidden"}}
    [] s.label = "REPEATED_CASH_OUT_CLUSTER" -> {{"near"}, {"concentrated"}, {"review"}}
    [] s.label = "LEGITIMATE_DEMAND_SPIKE" -> {{"spike"}}
    [] s.label = "CROSS_PROVIDER_LINKED_ACTIVITY" -> {{"linked"}}
    [] s.label = "FEED_DELAY_RECOVERY" -> {{"STALE", "MISSING"}, {"HEALTHY"}}
    [] s.label = "BALANCE_CONFLICT" -> {{"CONFLICTING"}}

FalsePositive(i) ==
  Scenarios[i].label = "LEGITIMATE_DEMAND_SPIKE" /\ "review" \in trackers[i].flags

\* _build_scenario_result
ScenarioPassed(i) ==
  /\ \A N \in Needed(Scenarios[i]) : N \cap trackers[i].flags # {}
  /\ ~FalsePositive(i)

OfKinds(K) == {i \in DOMAIN Scenarios : Scenarios[i].label \in K}
PassedOf(K) == {i \in OfKinds(K) : ScenarioPassed(i)}

\* _validate_public_data.  The ids were checked by the loader, and the manifest of
\* every export says that the invariants of the simulation held.
PublicDataValid ==
  LET txns == Rows("transactions")
  IN  /\ \A i, j \in DOMAIN txns : i < j =>
           \/ txns[i].at < txns[j].at
           \/ txns[i].at = txns[j].at /\ txns[i].id < txns[j].id
      /\ \A i \in DOMAIN Scenarios : Scenarios[i].txns \subseteq {t.id : t \in Range(txns)}

\* In percent.  What was missed is counted against the two kinds, not against the
\* scenarios there are.
Recall ==
  LET hits == Cardinality(PassedOf(AnomalyKinds))
      missed == Cardinality(AnomalyKinds) - hits
  IN  (100 * hits) \div (hits + missed)

\* The false reviews of the first demand spike only.
FalsePositives ==
  LET spikes == OfKinds({"LEGITIMATE_DEMAND_SPIKE"})
  IN  IF spikes # {} /\ FalsePositive(Min(spikes)) THEN 1 ELSE 0

Precision ==
  LET hits == Cardinality(PassedOf(AnomalyKinds))
  IN  IF hits + FalsePositives = 0 THEN 100 ELSE (100 * hits) \div (hits + FalsePositives)

\* A mutant of QualityCovered: a day without such a scenario counts as covered.
QualityCoveredByNone == PassedOf(DataQualityKinds) = OfKinds(DataQualityKinds)

QualityCovered ==
  /\ OfKinds(DataQualityKinds) # {}
  /\ PassedOf(DataQualityKinds) = OfKinds(DataQualityKinds)

\* by_label keeps the last scenario of a label.
LiquidityCovered ==
  LET shortages == OfKinds({"HIDDEN_PROVIDER_SHORTAGE"})
  IN  shortages # {} /\ ScenarioPassed(Max(shortages))

\* covered: that the incidents are explained, and have cases.
Report(covered) ==
  [run |-> exports[seen["scenario_manifest"]],
   recall |-> Recall,
   passed |-> PassedOf(ScenarioKinds),
   overall |-> /\ PublicDataValid
               /\ PassedOf(ScenarioKinds) = DOMAIN Scenarios
               /\ Precision >= 80 /\ Recall >= 80 /\ FalsePositives = 0
               /\ QualityCovered /\ LiquidityCovered /\ covered]

-----------------------------------------------------------------------------
(* run().                                                                  *)

ShadowInit ==
  /\ FilesInit
  /\ phase = "idle"
  /\ played = 0
  /\ trackers = <<>>
  /\ answers = <<>>
  /\ report = NoReport

\* The ground truth and the public files were accepted.
StartReplay ==
  /\ phase = "idle"
  /\ reader = "accepted"
  /\ seen["scenario_manifest"] # 0
  /\ phase' = "replaying"
  /\ trackers' = [i \in DOMAIN Scenarios |-> EmptyTracker]
  /\ UNCHANGED <<filesVars, played, answers, report>>

\* replay.step(1), then every scenario is observed.
PlayEvent ==
  LET e == EventAfter(played).row
      t == e.at
  IN  /\ phase = "replaying"
      /\ played < Cardinality(Events)
      /\ HasAccount(e.agent, e.provider)
      /\ \A i \in DOMAIN Scenarios : Asked(Scenarios[i], t) => ~Unknown(Scenarios[i])
      /\ \E a \in AnswersAt(t) :
           /\ trackers' = [i \in DOMAIN Scenarios |->
                             IF Asked(Scenarios[i], t)
                             THEN Observe(Scenarios[i], t, a[i], trackers[i])
                             ELSE trackers[i]]
           /\ answers' = Append(answers, [at |-> t, to |-> a])
      /\ played' = played + 1
      /\ UNCHANGED <<filesVars, phase, report>>

\* An engine raises, and with it run(): there is no report.
PlayRaises ==
  LET e == EventAfter(played).row
  IN  /\ phase = "replaying"
      /\ played < Cardinality(Events)
      /\ \/ ~HasAccount(e.agent, e.provider)
         \/ \E i \in DOMAIN Scenarios : Asked(Scenarios[i], e.at) /\ Unknown(Scenarios[i])
      /\ phase' = "raised"
      /\ UNCHANGED <<filesVars, played, trackers, answers, report>>

\* The scenarios are observed again at the last time: the answers are the same and
\* change nothing.
MakeReport ==
  /\ phase = "replaying"
  /\ played = Cardinality(Events)
  /\ \E covered \in BOOLEAN : report' = Report(covered)
  /\ phase' = "reported"
  /\ UNCHANGED <<filesVars, played, trackers, answers>>

\* The next reading is of another process, which knows nothing of this one.
ReadAgain ==
  /\ phase # "replaying"
  /\ ReadStep
  /\ phase' = "idle"
  /\ played' = 0
  /\ trackers' = <<>>
  /\ answers' = <<>>
  /\ report' = NoReport

Evaluate == StartReplay \/ PlayEvent \/ PlayRaises \/ MakeReport

ShadowNext == (ExportStep /\ UNCHANGED evaluationVars) \/ ReadAgain \/ Evaluate

ShadowSpec == ShadowInit /\ [][ShadowNext]_shadowVars

-----------------------------------------------------------------------------
(* Properties.                                                             *)

\* The events after which scenario i was asked about, and those of them up to its end.
AskedOf(i) == {n \in DOMAIN answers : Asked(Scenarios[i], answers[n].at)}
AskedDuring(i) == {n \in AskedOf(i) : answers[n].at <= Scenarios[i].end}

\* A tracker says no more and no less than what the engines said while its scenario
\* was watched: the first detection is the earliest answer that detects it, the
\* observations are the ones of that moment, a demand spike is judged by the answers
\* up to its end and one assessment after it, and a feed recovers only after the end.
TrackersSummarizeAnswers ==
  phase # "idle" => \A i \in DOMAIN Scenarios :
    LET s == Scenarios[i]
        k == trackers[i]
        said(n) == answers[n].to[i]
        asked == AskedOf(i)
        during == AskedDuring(i)
        Detects(n) ==
          CASE s.label = "HIDDEN_PROVIDER_SHORTAGE" -> "risky" \in said(n)
            [] s.label = "REPEATED_CASH_OUT_CLUSTER" ->
                 {"near", "concentrated", "review"} \subseteq said(n)
            [] s.label = "CROSS_PROVIDER_LINKED_ACTIVITY" -> {"linked", "review"} \subseteq said(n)
            [] s.label = "LEGITIMATE_DEMAND_SPIKE" -> n \in during /\ "review" \in said(n)
            [] s.label = "FEED_DELAY_RECOVERY" ->
                 answers[n].at < s.end /\ said(n) \cap {"STALE", "MISSING"} # {}
            [] s.label = "BALANCE_CONFLICT" -> "CONFLICTING" \in said(n)
        detections == {n \in asked : Detects(n)}
    IN  /\ k.first = IF detections = {} THEN Never ELSE answers[Min(detections)].at
        /\ Frozen(s) /\ detections # {} => k.shown = said(Min(detections))
        /\ Frozen(s) /\ detections = {} /\ asked # {} => k.shown = said(Max(asked))
        /\ "hidden" \in k.flags <=> \E n \in detections : "hidden" \in said(n)
        /\ s.label = "LEGITIMATE_DEMAND_SPIKE" =>
             /\ "final" \in k.flags <=> asked # during
             /\ "spike" \in k.flags <=>
                  \E n \in during \cup (IF asked = during THEN {} ELSE {Min(asked \ during)}) :
                    "spike" \in said(n)
        /\ "HEALTHY" \in k.flags <=>
             /\ s.label = "FEED_DELAY_RECOVERY"
             /\ \E n \in asked : answers[n].at >= s.end /\ said(n) = {"HEALTHY"}

\* A day only passes on evidence: at least two anomaly scenarios, a shortage and a
\* data-quality scenario were injected, each was detected by an answer after it had
\* started, no demand spike was sent to review while it lasted, and every labelled
\* transaction is one of those replayed.
PassIsEarned ==
  report # NoReport /\ report.overall =>
    /\ Cardinality(OfKinds(AnomalyKinds)) >= 2
    /\ OfKinds({"HIDDEN_PROVIDER_SHORTAGE"}) # {} /\ OfKinds(DataQualityKinds) # {}
    /\ \A i \in DOMAIN Scenarios :
         LET s == Scenarios[i]
             said == {answers[n].to[i] : n \in AskedOf(i)}
         IN  /\ s.txns \subseteq {t.id : t \in RowSet("transactions")}
             /\ s.label = "LEGITIMATE_DEMAND_SPIKE" =>
                  \A n \in AskedDuring(i) : "review" \notin answers[n].to[i]
             /\ s.label = "REPEATED_CASH_OUT_CLUSTER" =>
                  {"near", "concentrated", "review"} \in said
             /\ s.label = "CROSS_PROVIDER_LINKED_ACTIVITY" => {"linked", "review"} \in said
             /\ s.label = "HIDDEN_PROVIDER_SHORTAGE" => {"risky", "hidden"} \in said
             /\ s.label = "BALANCE_CONFLICT" => {"CONFLICTING"} \in said
             /\ s.label = "FEED_DELAY_RECOVERY" =>
                  \E m, n \in DOMAIN answers :
                    /\ answers[m].at < s.end /\ answers[n].at >= s.end
                    /\ answers[m].to[i] \in {{"STALE"}, {"MISSING"}}
                    /\ answers[n].to[i] = {"HEALTHY"}

\* What the report and VALIDATION_EVIDENCE.md call recall: the share of the injected
\* anomaly scenarios that were detected.
RecallIsShare ==
  report # NoReport =>
    report.recall * Cardinality(OfKinds(AnomalyKinds))
      = 100 * Cardinality(PassedOf(AnomalyKinds))
=============================================================================

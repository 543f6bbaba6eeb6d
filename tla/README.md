# A verification project for the super-agent backend

The backend replays the events of a trading day (transactions and feed events
of mobile-money agents), keeps balances, judges data quality, forecasts
liquidity, scores unusual activity, fuses these signals into incidents and
lets people coordinate the incidents as cases. This directory specifies its
core in TLA+, model-checks the specifications with TLC and proves every one of
its invariants, its action properties and its refinements with TLAPS.

Source paths below are relative to `src/app/`.

## 1. Inventory

| Component | State it keeps | Operations that change it | Called by |
|---|---|---|---|
| Replay controller (`replay/controller.py`) | index, simulation time, status, counters, the last events | `step`, `advance`, `reset` | `/replay` endpoints |
| Balance ledger (`ledger/balance_engine.py`) | cash per agent, e-money per account, ids seen, counts | `initialize`, `apply_transaction` | controller |
| Feed health (`data_quality/trust_score.py`) | per feed: last signal, delay, conflict, balances | `initialize`, `record_event`, `resolve_conflict` | controller; nobody calls `resolve_conflict` |
| Liquidity forecast (`intelligence/liquidity_forecast.py`) | opening balances, successful transactions, ids | `initialize`, `record_transaction` | controller; queried by fusion and endpoints |
| Anomaly detection (`intelligence/anomaly_detection.py`) | transactions, ids, contexts | `initialize`, `record_transaction` | controller; queried by fusion and endpoints |
| Decision fusion (`intelligence/fusion.py`) | incidents by key | `initialize`, `refresh_all` | controller, at the end of a batch |
| Case coordination (`cases/service.py`) | cases, audit and note counters | `sync_incidents`, `reset`; seven operations of people | controller; `/cases` endpoints |
| Explanations (`explanations/service.py`, `api/v1/explanations.py`) | none; a request holds the incident it took while it waits for a language model | `explain_incident`, `explain_case` | `/explanations` endpoints |
| Simulation, scenarios (`simulation/`) | balances of the simulated day, its events | offline generation | scripts |
| Exporter (`simulation/exporter.py`) | eight files in two directories | `export` | the generator's script |
| Data loader (`replay/loader.py`, `evaluation/ground_truth.py`) | none; a bundle | `load`, `build_event_stream`, `load_ground_truth` | application start-up, evaluation |
| Evaluation (`evaluation/shadow_replay.py`) | a tracker per scenario | `run`: replays the day with the real engines and reports | script |

**How they interact.** One controller object drives everything by direct calls
inside its `RLock`: per transaction the ledger, then liquidity, then anomaly;
per feed event the ledger (a read) and the feed engine; per batch fusion, then
cases. Every engine has an `RLock` of its own. FastAPI runs the (synchronous)
endpoints in worker threads: the replay endpoints queue at the controller's
lock, the query endpoints read the engines without it, the case endpoints
first read the time from the controller and then call the case service, and the
explanation endpoints take an incident (and a case) and then hold no lock while
a language model is asked. Generator, evaluator and application are processes
of their own, which meet in the directories of the generated day.

**What is hard.** Requests between the steps of a batch or a reset; a time that
is stale when it is used; batches that raise half way and are tried again;
engines that must forget the last run together; incidents that clear and come
back under people's hands; a model that answers late, wrongly or not at all
while the incident it was asked about is renewed or forgotten; an export that
is broken off, or read while it runs, and leaves files of two days side by
side; an evaluator that must judge engines right whatever they say; thresholds,
rounding and tie-breaks that several components must agree on. `PROJECT.json`
lists each hazard at its line with the properties that are about it.

## 2. Modules

| Module | Models | Composes |
|---|---|---|
| `CaseAuditLog` | what the case service promises an auditor: one append-only log of legal moves | |
| `CaseCoordination` | the case service, every operation | implements `CaseAuditLog` |
| `CaseApi` | case endpoints in worker threads, batches and resets of the controller | `CaseCoordination` |
| `CaseProofs` | theorems about the service, that it implements the log, and about the endpoints | `CaseApi` |
| `ReplayView` | what `get_state` shows if every call happened at once | |
| `Replay` | the controller's calls, one action per engine call | implements `ReplayView` |
| `ReplayProofs` | theorems about it, that refinement among them | |
| `Ledger` | the balance engine | |
| `Simulation` | the generator of a day, and the ledger that replays it | `Ledger` |
| `SyntheticFiles` | the exporter, the directories and their readers | |
| `ShadowReplay`, `EvaluationProofs` | the offline validation of a day that was read, and theorems about the files and it | `SyntheticFiles` |
| `FeedHealth`, `FeedHealthProofs` | the feed engine, its statuses and confidences, and theorems about it | |
| `Forecasts` | the forecast of one resource, and of an agent, as operators | |
| `LiquidityForecast` | the liquidity engine fed with what the ledger accepts | `Ledger`, `Forecasts` |
| `MoneyProofs` | theorems about the ledger, the simulation and the liquidity engine | `Simulation`, `LiquidityForecast` |
| `Anomaly`, `AnomalyProofs` | the anomaly engine: windows, factors, context adjustment, bands; and theorems about it | |
| `Fusion` | candidates and incidents | `Forecasts` |
| `Explanations` | requests for explanations beside the fusion engine | `Fusion` |
| `DecisionProofs` | theorems about the incidents and their explanations | `Explanations` |
| `SumTheorems` | lemmas about finite sums, folds, bags and greatest elements, for the other proofs | |

`MC*` modules give the constants of a run their values.

### How state and actions correspond to the code

* **CaseCoordination.** `cases[i]` is the case of incident `i` (the case id is a
  digest of the incident id; `_incident_to_case` is this indexing). A public
  method is one action because it holds the service's lock; one that raises is
  disabled. What a case copies from its incident is one record, `source`, and
  the audit entry keeps who, from, to, when and the detail (owner, note number,
  role) the properties need. `_sync_existing_case` compares fields one by one;
  `Differs` does so on the record. The provider scope is part of the key an
  incident id is digested from, so it cannot change and is the constant
  `ScopeOf`.
* **CaseApi.** `Receive` is the arrival of a request, at any moment; `ReadTime`
  its call of `get_state`, which waits for the controller's lock (`phase`), and
  `Execute` and `Refuse` its call of the service, which does not. `Batch`
  replaces the incidents by any that fusion may give (an incident once
  raised stays, a new one is active); `SyncOne` is one turn of the loop of
  `sync_incidents`, in any order. `reset` is three steps: fusion
  forgets its incidents (`BeginReset`), the service its cases (`ResetCases`), and
  the clock goes back (`EndReset`). Requests reach the service between any of
  them, so people may work for a moment on cases whose incidents are forgotten.
* **Replay.** `pc` is where the call that holds the lock is. An engine is the
  sequence of the events it has recorded, which is all that the order of calls
  decides. `unaccounted` are the events whose account has no opening balance:
  the loader does not look for them, and the ledger raises for them.
* **Ledger.** `journal` is a history variable; the rest are the fields of the
  engine. Accounts that do not exist have 0 e-money forever.
* **Simulation.** One action per method of the generator's loop, `Finish` for what
  follows it. Random draws (candidates of a minute, network failures) are free
  choices. `commit_candidates` sorts by time and then by names; only the time is
  kept, ties go in any order. Ids are the places in `committed`, since they are
  padded with zeros. Files and their loading carry the events over unchanged.
  `trail` is a history variable. A day whose events were not generated
  (`data/synthetic`) is the phase `given`, where the ledger takes any event.
* **FeedHealth.** `past` is a history variable. Minutes are whole; confidences
  are in thousandths, rounded as the code rounds.
* **Forecasts / LiquidityForecast.** Money is in whole units, times to a
  threshold in hundredths of a minute. The branches of `_build_forecast` are in
  the code's order. What feeds look like is free (`FeedChanges`), because
  `FeedHealth` can bring them to any status at any time.
* **Anomaly.** The transactions of an agent are a bag of kinds with their times;
  ids are not kept, as a call with a known id raises and changes nothing. `now`
  is both the time of the next event and `as_of`. The code takes the first of
  the largest clusters of near-identical amounts; the order of the events is
  not in the bag, so `Windows` has one window for each cluster of a tie, and
  what is claimed is claimed for all of them. The thresholds and points that
  are literals in the code are literals in the factors.
* **Fusion.** The inputs of a refresh are all those that the forecast and
  anomaly engines can return for a state of the feeds (`InputsWith`).
  Confidence, texts and routing of incidents are left out.
* **SyntheticFiles.** A file is the number of the export that wrote it, and
  whether it is whole; `disk` are the files in their places, `temp` those with
  suffix `.tmp`. `_write_csv` and `_write_json` open, write and replace in three
  actions; `WriteFails` is the handler that removes the temporary file, `Crash`
  the end of the process, which does not. The order of files is that of the
  code: the manifest of the ground truth last, the labels before it. `reader` is
  one process that reads: the evaluator begins at the manifest, the application
  at the agents (`BeginStartUp`); `seen` is what it got. `ValidBundle` and the
  row checks are those of the loader. `exports`, `finished` and `quiet` are
  history variables.
* **ShadowReplay.** `run()` with the files read before it. The engines answer
  anything they could say about a scenario (`Findings`), since the evaluator has
  to judge them right whatever they say; `trackers` are the `ScenarioTracker`s,
  a set of flags for their booleans, and `answers` is the history of what was
  said. `Report` is the verdict with its metrics. `PlayRaises` is a day the
  checks of the loader let pass and the engines refuse. `ReadAgain` is a new
  process, which forgets.
* **Explanations.** `calls[w]` is the request worker `w` serves: `case` and
  `incident` are the reads before the model is asked, `asking` the wait for it,
  `answered` the end. No lock is held at any of them, so refreshes and resets of
  `Fusion` go on in between. A text is what it can be judged by: figures (of
  something, at a time), provider names, whether something forbidden is said,
  whether uncertainty is. A figure is its digits: `_validate_numbers` compares
  them with every number of the payload, ids of transactions included, and does
  not look at what the text says the number is. Digits right behind a letter
  (`BDT5000`) are not found by its pattern (`free` is FALSE), and a provider in
  Bengali script not by the search for the three ids (`latin` is FALSE): such
  figures and names pass, and what is claimed of a text is claimed of
  `FiguresFound` and `NamesFound`. The model is external: it may write any such text, or
  fail, and `_validate_ai_draft` is `Accepted`. `held` is a history variable: the
  states the incident had while the request was open.

## 3. What the runs check

| Run | States | Question |
|---|---|---|
| `case_coordination` | 4e4 | is every audit trail complete, well numbered and legal, and the provider boundary kept, in every history; is the service one append-only log? |
| `case_api` | 2e5 | do concurrent requests, batches and resets lose a change, leave a case that fits no incident (but in the middle of a reset), or leave a request unanswered? |
| `case_timeline` | - | is the audit timeline in order of time? **No**, see below |
| `simulation` | 4e5 | does a generated day replay as it was simulated, without overdrawing anything; does the order or repetition of events matter; does a delayed feed send no heartbeat? |
| `replay` | 1e3 | do the engines agree with the index after any calls, also ones that raise; is what a client sees atomic; do calls end? |
| `feed_health` | 3e5 | is the summary kept per feed equivalent to its history; is a feed trusted exactly when that history has no open conflict, silence or announced delay; is trust never gained by waiting? |
| `liquidity` | 1e4 | do flows agree with the ledger, are strong recommendations backed, are shortages shown? |
| `anomaly` | 4e4 | is a high band backed by enough data, a repeated pattern always reviewed, honest demand not? |
| `validation` | 8e4 | whatever export fails, crashes or is read half way: are files never older than their manifest, and readings neither; does the evaluator sum up what it was told, and is a pass earned? |
| `validation_recall` | - | is anomaly recall the share of injected anomaly scenarios detected? **No** |
| `explanations` | 7e5 | do incidents match the last signals and tell the truth about their past; is an explanation about one state of one incident, inside the provider boundary, as far as the checks of a draft can see, and always given? |
| `explanation_scope` | - | does a redacted explanation keep the figures of other providers back? **No** |

### Bounds, and why they are enough

* `case_coordination`: two incidents (one scoped, one shared), a field officer
  without a provider and an operator of a foreign provider, five audit entries.
  Five entries reach every operation on one case except closing after an
  escalation, and interleave two cases at the shared counters. The theorems
  have no bound.
* `case_api`: one incident, two threads, three requests, two times, four audit
  entries. Two threads, each before, between or behind the two locks, with a
  batch and a reset at any of their steps, is the smallest setting of every race.
  Four entries are a case, one sync and two changes by people, or three changes,
  and with a third request one after the reset; the service treats cases independently but for the
  counters, which `case_coordination` covers. `RoomForBatch` keeps batches from
  using up the audit bound, so that the bound never refuses a request.
* `replay`: seven events with ties and a gap, a recent list of three, steps of
  up to three events and minutes, three datasets (none, a feed event or a
  transaction without an account). `MaxFeeds` bounds the repeated tries.
* `simulation`: three minutes of three seconds (the first, the one of the conflict,
  the last), two of five candidates a minute, with ties, both directions and
  amounts that the opening balances cover once. A second minute is needed for
  ids and times to disagree between minutes, a third for a recovery inside the
  day. The given day has a repeated id with another amount, failures and a
  missing account, in any order.
* `feed_health`: thresholds of 3 and 6 keep the 1 : 2 of the defaults 15 and
  30; three events are what a conflict, a delay and a recovery need.
* `liquidity`: window and thresholds 2 : 4 : 8 for 30 : 60 : 120; transactions
  include a failed one and one with an id seen before.
* `anomaly`: the sizes of the code (eight transactions for velocity, six for a
  cluster, four linked ones) are kept, so a busy window takes up to fourteen:
  two accounts that repeat an amount at two providers, eight customers who come
  once, a failing kind. That reaches every factor, a score over 100, both sides
  of the adjustment and ties between clusters. The baseline is empty or the
  five transactions that its median needs. The durations are 1 and 2 minutes
  for 15 and 180, which keeps both edges of the window; velocity then compares
  with a baseline of twice the window instead of twelve times.
* `validation`: two exports are enough for files of two days side by side, and
  one reading for every place it can be overtaken at; a third export only adds
  newer files, and the theorems have no bound. Of the eight days two are small
  and may be written over each other, broken off and read at any moment; the
  other six (`Alone`) are exported once and undisturbed, because what is asked
  of them is the verdict: days the loader refuses, scenarios of all six kinds,
  one without a data-quality scenario, one with a single anomaly scenario. `InTurn`
  says so, and that the replay, which opens no file, comes after the exports.
* `explanations`: `MCNext` takes every combination of signals as the first one
  of some behaviour; the behaviours that start with one of eight, chosen to
  share keys, go on with any of the eight, in sequences of four refreshes. One
  request is made, after one or two refreshes, about the incidents of
  `ExplainedSignals` (four types, three scopes) or one that does not exist, and
  until it is answered the replay goes on by one refresh or one reset: workers
  share nothing, and what can happen to a request is that its incident changes,
  clears or is forgotten once. The theorems have no bound.

### Fairness

`Replay`: weak fairness of the running call: a thread inside the lock runs on,
nobody need ever call. `CaseApi`: weak fairness of the steps of a batch, of a
reset and of a worker which has read the time: none of them waits for anything
but a lock which is held for one step. A worker that waits for the controller's
lock meets it free again and again, as each batch and each reset is a request of
its own that ends; that it gets the lock in the end is strong fairness of
`ReadTime`. No fairness is assumed of people or of batches.
`Explanations`: weak fairness of the reads of a worker, and of the client's
timeout, which the code sets; that the language model answers is not assumed,
and no refresh need come. `SyntheticFiles` and `ShadowReplay` assume nothing: a
process may be stopped at any step, and only safety is claimed of them. (That an
evaluation that is never stopped ends in a report or an error is a loop over a
list, and is not worth a property.)

`CHECK_DEADLOCK` is `FALSE` for `explanations`, `explanation_scope`, `validation`
and `validation_recall`: the one request is answered, the exports and the
reading are used up and the report is made, so the system really stops. The
other runs check deadlock.

### Where code and documents disagree

* `case_timeline`: README.md:494 promises consistent audit timelines. A request
  that read the time before a batch writes an older time after a newer one.
* `validation_recall`: VALIDATION_EVIDENCE.md:123-128 defines anomaly recall as
  detected over all injected anomaly scenarios. The code counts what was missed
  against the two kinds of anomaly there are: a day with one such scenario,
  detected, has a recall of 50 % and does not pass.
* `explanation_scope`: README.md:887 promises a provider-scoped viewer an
  indication without another provider's confidential details. The scope is
  redacted, the evidence is not: the explanation shows the balance and the flows
  of the most urgent resource, which may be the e-money of another provider.
* Not a run: README.md:1399 says that a draft that invents unsupported numbers
  is rejected. The checks see less than a reader does: a number of the payload
  may be said to be any other, `BDT5000` is no number to them, and a provider in
  Bengali script, which the Bangla output asks for, is no name.
  `OneIncidentExplained` and `BoundariesKept` claim nothing of these.
* Not a run: README.md:640 promises lower confidence when data quality degrades.
  A forecast with few transactions has less confidence than one whose feed is
  lost, and a conflicting feed (0.30) more than a missing one (0.20).
* Not a run: RESPONSIBLE_DESIGN_NOTE.md:319 promises provider-scoped evidence.
  Scope (by status and time) and evidence (by status alone) of a combined
  incident choose the most urgent resource by different keys, so they can be
  about different providers.
* Not a run: README.md:1294 promises a combined incident for liquidity pressure
  with unusual behaviour. A severe feed problem drops the behaviour.
* Not a run: README.md draws `ValidateGeneratedRun` as a step of the generation.
  The exporter asks for agents, balances and transactions; a day without context
  events, or with one provider, is exported and then refused by the loader
  (`no_context` and `one_provider` of `MCShadowReplay`).
* Not a run: the report of the evaluator notes that hidden labels were loaded
  "after public event ingestion" (evaluation/shadow_replay.py:311); `run` loads
  the ground truth before the public data. Nothing depends on the order but what
  a reading that meets an export finds.
* Not a run: the templates are not validated. The Bangla next step of an unusual
  activity contains one of the forbidden phrases (in a negation), as would any
  text of the model that repeats it; that text would be refused.
* Not runs, but reachable in `anomaly`: with a demand event the adjustment turns
  70 points (velocity, link and amounts) into 35, which is no review; and a
  window that is a legitimate spike for the agent can require review in the
  view of one provider, where the adjustment, which needs two, never applies.
  No document says otherwise.
* Not a run: DATA_AND_SIMULATION_NOTE.md:500 says that a recovery heartbeat is
  emitted later. A delay scenario may end with the day (the configuration allows
  it), and then `before_minute` never meets its end: no recovery is emitted.
* Not a run: the balance that a conflict scenario reports at second 58 includes
  candidates of second 59, which the replay processes after it.
* Not a run: the case lifecycle in README.md draws fewer transitions than the
  service allows (assigning and resolving an escalated case, for example).
  `AllowedFrom` has what the service does.

## 4. What is proved

Every theorem is for all values of the constants, under the named assumptions of
the modules, which TLC evaluates on every run. No theorem has a bound on how
many incidents, agents, events, exports or workers there are, or how long a
behaviour is, other than the limits that are constants of the module themselves.

* `MoneyProofs`, the ledger: `TypesHold`, `AppliedOnce` (`ExactlyOnce`),
  `ValueStays` (`ValueConserved`) and `OrderDoesNotMatter` (`OrderIrrelevant`).
  `ValueConserved` is inductive together with the types: each transaction
  changes one cash and one e-money entry of one agent by opposite amounts.
  `ExactlyOnce` carries that the ids seen are those of the journal. For the
  last one, each balance is its opening plus a sum over the journal, and a sum
  over a finite set does not depend on the order it is taken in.
* `MoneyProofs`, the simulated day: `ReplayUsesLedger` (a day and its replay
  take steps of the ledger only, so the theorems above hold there),
  `ReplayRepeats` (`ReplayRepeatsSimulation`), `NothingOverdrawn`
  (`NoneOverdrawn`) and `DelayedStaySilent` (`DelayedFeedsSilent`, which is about
  heartbeats: a conflict may still be reported during a delay). The
  invariant says that the replay has applied a prefix of what was committed, in
  the order of ids and of times, and that the ledger stands where `trail` stood
  at that commit. The ledger checks no cover; that nothing is overdrawn is
  inherited from the generator, which does.
* `MoneyProofs`, the forecasts: `FlowsMatchBalances` (`NetMatchesLedger`),
  `StrongIsEarned` (`StrongNeedsHealthyFeeds`) and `ShortageShows`
  (`HiddenShortageShown`). A strong forecast may rest on no transaction at all,
  when a balance is depleted or critical already; it never has the status
  INSUFFICIENT_DATA. The flow of a forecast and the loss of a balance are
  sums over the same set of events. The other two go through every branch of
  `_build_forecast` and the maximum that makes the overall status.
* `CaseProofs`, the service: `TypesHold`, `ChainsHold` (`HistoryChained`),
  `NumbersHold` (`AuditNumbering`), `BoundaryHolds` (`ProviderBoundary`),
  `FieldsHold` (`FieldsFollowHistory`) and `ReplayMovesNoCase`. The operations
  differ in guards and fields, but all of them append one entry, numbered by the
  counter and starting from the status the case has, to one case. `StepsExtend`
  proves that shape once per action; the invariant `IInv` is then preserved by
  the shape alone. `AuditNumbering` is inductive only with the bound that no id
  exceeds the counter, which is the third conjunct, an equality, and needs the
  chain to know which entry is last.
* `CaseProofs`, the refinement: `LogImplemented` (`LogRefinement`): a case
  service is one append-only log. The log of the refinement is all entries in
  the order of their numbers; the numbering theorem says that these are exactly
  the numbers up to the counter, so one more entry is one append, and the chain
  says that the move it makes starts where the case is.
* `CaseProofs`, the endpoints: `ApiUsesService` (whatever workers, batches and
  resets do, the service takes its own steps), hence `ApiKeepsLog`
  (`LogRefinement` under concurrency); `MirrorHolds` (`CasesMirrorIncidents`)
  and `UpdatesStay` (`NoLostUpdate`). The invariant adds which incidents a
  running batch has still to hand over, and that between fusion's and the
  service's part of a reset no incident is known (`NothingKnown`), so that the
  cases, once emptied, mirror them again. In that moment itself the cases outlive
  their incidents, and `CasesMirrorIncidents` claims nothing. A call that was
  answered left an entry, and entries are only ever appended.
* `ReplayProofs`: `ReplayTypes`, `EnginesFollow`, `InStepHolds`, `FeedsSee`,
  `ReportMatches`, `FreshHolds` and `ViewImplemented` (`ViewRefinement`). The
  invariants speak of the moments without a call. `IInv` says for each place of
  a call how far each engine is (one event ahead of the index between two engine
  calls), and what a reset has already forgotten; that makes it inductive over
  batches that raise anywhere. For the refinement, `Progress` relates a running
  batch to what was shown when it began: which events it has taken, none of them
  without an account, how many feed events it has counted, and where the clock
  is. At the end of the call this is the step of `ReplayView`: the number of
  events taken, or the target reached, is the argument that the view takes, and
  more minutes than the stream has are as good as all of them. Every other step
  is unseen.
* `FeedHealthProofs`: `FeedTypes`, `SummaryHolds` (`StateSummarizesPast`),
  `NoSilentTrustHolds` and `WaitingNeverHelpsHolds` (`WaitingNeverHelps`, an
  action property). `NoSilentTrust` is an equivalence: a strong recommendation is
  possible exactly when the history of the feed has no open conflict, no silence
  of `StaleMinutes` and no delay of `StaleMinutes` announced since the feed last
  worked. What the fields kept say about the last signal, delay or
  conflict of a history is a statement about its last event of a kind; the proof
  appends one event and asks whether it is of the kind. That waiting never
  helps is proved through the rounding of the code: division is monotone, so a
  larger age gives no larger confidence, and the formulas meet at the
  thresholds.
* `AnomalyProofs`: `HighIsEarned` (`HighNeedsTransactions`), `PatternIsReviewed`
  (`RepeatedPatternReviewed`) and `DemandIsNotReviewed` (`DemandNotReviewed`).
  These promises depend on how points and thresholds are calibrated, so each
  theorem names what it needs: at most 8 transactions asked for and a high band
  above 55 points; a review from at most 45 points; clusters of at least 4 and a
  review above 30 points. The defaults of the engine (6, 40, 70) meet all of
  them, and so do the constants of the run. The proofs bound the score by the
  factors that can apply together, and relate the sizes of a window, its
  clusters and its accounts as sums over bags.
* `DecisionProofs`, the incidents: `FusionTypes`, `HistoryHolds`
  (`IncidentHistory`), `ActiveHolds` (`ActiveMatchesSignals`) and `StrongHolds`
  (`StrongNeedsHealthyEvidence`). A refresh replaces or clears all incidents of
  an agent, so the active ones are the candidates of the last signals. The last
  theorem needs that the most urgent of a finite set of resources exists and is
  one of them, and that its forecast is only strong on a healthy feed.
* `DecisionProofs`, the explanations: `FusionImplemented` (the composed system
  is a behaviour of fusion, so the theorems above hold of it), `OneIncidentHolds`
  (`OneIncidentExplained`) and `BoundariesHold` (`BoundariesKept`). The
  invariant says of an open request that the incident it took is among those
  held, fits its key, and passed the provider boundary before the model was
  asked; of what the model answers, the figures that the checks find are
  in the payload, and the names are of the visible scope or the viewer.
* `EvaluationProofs`, the files: `TypesHold`, `ManifestCommits` (`FilesFollowManifest`),
  `ReadingsFollow` (`ReadsFollowManifest`) and `FinishedExportRepairs`. Because
  the manifest is written last, in the middle of an export the files before the
  one at hand are of it and the manifest is of an older one, wherever earlier
  exports broke off; a finished export leaves only its own files. Because the
  manifest is read first, and files never get older, no file read later is
  older than it.
* `EvaluationProofs`, the evaluation: `EvaluatorOnlyReads` (every behaviour of
  `ShadowReplay` is one of `SyntheticFiles`), `TrackersTell`
  (`TrackersSummarizeAnswers`) and `PassHolds` (`PassIsEarned`). The invariant
  says that an accepted reading got every file, that only legal days were
  exported, and of every scenario that its tracker `Tells` the answers so far:
  the first detection is the least index of an answer that detects, the flags are
  the union of what each answer is worth on its own, and those of a demand spike,
  which is assessed once more after its end, go by the least answer behind it.
  One answer more is one step of each (`FirstOn`, `ShownOn`, `FlagsOn`,
  `SpikeOn`). Lemmas of their own say that each place in the order of the events
  is somebody's (`EventAfter` picks it) and that a combination of answers has one
  finding per scenario (`AnswersAt` folds over the scenarios). A verdict is then
  read back from the flags to the answers.

**Assumptions.** The constants are what the code's validation makes them. The
amounts, times, delays and minutes are natural numbers (pydantic fields with
`ge=0`, parsed timestamps); the sets of accounts and of the candidates of a
minute are finite; the event that `EventOf` builds of a candidate is one the
ledger may be handed; times of requests are times of the replay. Thresholds
are ordered as the validators of the settings ask. The rows of a day are what the
loader parses, numbered and timed, and the labels the kinds the generator has
(`ShadowAssumption`); `Never` is no time.

**Sums.** `SumTheorems` says of the folds that the models are written with what
they compute for every finite set: that a sum grows by what is added, is
monotone, and does not depend on the order; that a product of sets holds the
sequences of their elements; and that a finite total order has a greatest element
and one for every place. The induction theorems that take an
operator cannot be instantiated by the installed provers; `WFMin` of
`WellFoundedInduction` takes a set, so an induction over finite sets is the
proof that the set of its counterexamples has no least element.

**Only model-checked.** Liveness under fairness (`RequestsAnswered`,
`LockReleased`, `ExplanationAnswered`), which is out of the prover's reach.
Every invariant and every safety property that a passing run checks is proved.

## 5. What is not modelled

* Texts: titles, summaries and recommendations in three languages, reasons and
  fallbacks of a feed, notes and resolutions. `Explanations` has what a text may
  be refused for.
* Routing and confidence of incidents, confidence of anomaly assessments,
  projected dates, sort orders and summaries of lists (they read only).
* The demand models and the scenarios that add transactions, whose draws are free
  choices in `Simulation`; context events, labels and the manifest's fields. That
  a generated scenario is detected is a statistical matter and is not claimed.
* Latencies and lead times of the evaluation's report.
* Settings, routes, logging and the database session, in which no state of the
  system is kept; the modules that are empty at this commit.

## 6. What is left

1. Routing and confidence of incidents in `Fusion`, once a property about them is
   found that does not restate a table.
2. The composition of `ShadowReplay` with `Replay` in place of engines that
   answer freely, which needs days small enough for both.

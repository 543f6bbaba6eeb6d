--------------------------------- MODULE Replay ---------------------------------
(***************************************************************************)
(* ReplayController of app/replay/controller.py, and how it drives the     *)
(* engines of the run.                                                     *)
(*                                                                         *)
(* step, advance and reset hold the controller's lock from begin to end,   *)
(* and call one engine after the other, each under the engine's own lock.  *)
(* Queries read the engines without the controller's lock, so what a call  *)
(* does is one action per engine.  An engine is the sequence of the events *)
(* it has recorded since it was initialized.                               *)
(***************************************************************************)
EXTENDS Naturals, Sequences, FiniteSets

CONSTANTS
  Events,       \* the stream after the constructor sorted it
  Datasets,     \* sets of events whose account has no opening balance
  Start,        \* _simulation_start, the first opening balance
  RecentLimit,  \* maxlen of _recent_events
  MaxSteps,     \* bound on event_count
  MaxMinutes,   \* bound on minutes
  MaxFeeds,     \* bound on _processed_feed_events when a call begins
  Nothing       \* no batch, no refresh

ReplayEventTypes == {"TRANSACTION", "FEED_EVENT"}

\* Where a batch, and where a reset can be.
BatchPlaces == {"loop", "liquidity", "anomaly", "feed", "fusion", "cases"}
ResetPlaces == {"initialize ledger", "initialize feed", "initialize liquidity",
                "initialize anomaly", "initialize fusion", "reset cases", "reset fields"}

ASSUME ReplayAssumption ==
  /\ Events \in Seq([kind : ReplayEventTypes, at : Nat])
  /\ Events # <<>>
  /\ \A k, m \in DOMAIN Events : k < m => Events[k].at <= Events[m].at
  /\ Datasets \subseteq SUBSET DOMAIN Events
  /\ Start \in Nat
  /\ Start <= Events[1].at
  /\ RecentLimit \in Nat \ {0}
  /\ MaxSteps \in Nat /\ MaxMinutes \in Nat /\ MaxFeeds \in Nat
  /\ Nothing \notin {"step", "advance", "reset"} \cup BatchPlaces \cup ResetPlaces

Engines == {"ledger", "liquidity", "anomaly", "feed"}

VARIABLES
  unaccounted,  \* events of the loaded data without an account
  call,      \* the call that holds the lock, with what get_state showed before
  pc,        \* where that call is
  index,     \* _current_index
  time,      \* _simulation_time
  status,    \* _status
  transactions,  \* _processed_transactions
  feeds,     \* _processed_feed_events
  recent,    \* _recent_events
  log,       \* per engine, the events it has recorded
  trusted,   \* per feed event, the transactions its calculated balance counts
  fusedAt,   \* as_of and index of the last refresh_all
  syncedAt   \* as_of of the last sync_incidents

replayVars == <<unaccounted, call, pc, index, time, status, transactions,
                feeds, recent, log, trusted, fusedAt, syncedAt>>

End == Events[Len(Events)].at
Complete == index >= Len(Events)
Event == Events[index + 1]

\* get_state, as far as it is not derived from the index.
Seen == [index |-> index, time |-> time, status |-> status, feeds |-> feeds]

Idle == [op |-> Nothing]
Free == call = Idle
LogUnchanged == UNCHANGED <<log, trusted, fusedAt, syncedAt>>

Init ==
  /\ unaccounted \in Datasets
  /\ call = Idle
  /\ pc = Nothing
  /\ index = 0
  /\ time = Start
  /\ status = "READY"
  /\ transactions = 0
  /\ feeds = 0
  /\ recent = <<>>
  /\ log = [e \in Engines |-> <<>>]
  /\ trusted = <<>>
  /\ fusedAt = Nothing
  /\ syncedAt = Nothing

-----------------------------------------------------------------------------
(* The batch: step and advance.                                            *)

Begin(c) ==
  /\ Free
  /\ ~Complete
  /\ feeds <= MaxFeeds
  /\ call' = c
  /\ pc' = "loop"
  /\ status' = "RUNNING"
  /\ UNCHANGED <<index, time, transactions, feeds, recent>>
  /\ LogUnchanged

BeginStep(n) == Begin([op |-> "step", left |-> n, before |-> Seen])

Earlier(x, y) == IF x < y THEN x ELSE y

BeginAdvance(m) ==
  Begin([op |-> "advance", target |-> Earlier(time + m, End), before |-> Seen])

\* A batch asked of a complete replay.
NothingLeft ==
  /\ Free
  /\ Complete
  /\ status' = "COMPLETED"
  /\ UNCHANGED <<call, pc, index, time, transactions, feeds, recent>>
  /\ LogUnchanged

\* The condition of the loop.
More == /\ ~Complete
        /\ IF call.op = "step" THEN call.left > 0 ELSE Event.at <= call.target

Record(e) == log' = [log EXCEPT ![e] = Append(@, index + 1)]

\* The loop body after _process_event.
Taken ==
  /\ recent' = LET r == Append(recent, index + 1)
               IN  IF Len(r) > RecentLimit THEN Tail(r) ELSE r
  /\ index' = index + 1
  /\ IF call.op = "step"
     THEN /\ call' = [call EXCEPT !.left = @ - 1]
          /\ time' = Event.at
     ELSE UNCHANGED <<call, time>>
  /\ pc' = "loop"

\* Mutants of Raise: the lock is kept; the batch is given out as a normal pause.
RaiseKeepsLock ==
  /\ pc' = "raised"
  /\ UNCHANGED <<call, index, time, status, transactions, recent>>
  /\ LogUnchanged
RaisePauses ==
  /\ call' = Idle
  /\ pc' = Nothing
  /\ status' = "PAUSED"
  /\ UNCHANGED <<index, time, transactions, recent>>
  /\ LogUnchanged

\* The call raises: the lock is released and nothing is undone.
Raise ==
  /\ call' = Idle
  /\ pc' = Nothing
  /\ UNCHANGED <<index, time, status, transactions, recent>>
  /\ LogUnchanged

\* apply_transaction finds no account.
TransactionRejected ==
  /\ pc = "loop" /\ More /\ Event.kind = "TRANSACTION"
  /\ index + 1 \in unaccounted
  /\ Raise
  /\ UNCHANGED feeds

ApplyTransaction ==
  /\ pc = "loop" /\ More /\ Event.kind = "TRANSACTION"
  /\ index + 1 \notin unaccounted
  /\ Record("ledger")
  /\ pc' = "liquidity"
  /\ UNCHANGED <<call, index, time, status, transactions, feeds, recent,
                 trusted, fusedAt, syncedAt>>

RecordLiquidity ==
  /\ pc = "liquidity"
  /\ Record("liquidity")
  /\ pc' = "anomaly"
  /\ UNCHANGED <<call, index, time, status, transactions, feeds, recent,
                 trusted, fusedAt, syncedAt>>

RecordAnomaly ==
  /\ pc = "anomaly"
  /\ Record("anomaly")
  /\ transactions' = transactions + 1
  /\ Taken
  /\ UNCHANGED <<status, feeds, trusted, fusedAt, syncedAt>>

\* A feed event is counted before the ledger is asked for the balance.
CountFeed ==
  /\ pc = "loop" /\ More /\ Event.kind = "FEED_EVENT"
  /\ feeds' = feeds + 1
  /\ pc' = "feed"
  /\ UNCHANGED <<call, index, time, status, transactions, recent>>
  /\ LogUnchanged

\* get_provider_balance finds no account.
FeedRejected ==
  /\ pc = "feed"
  /\ index + 1 \in unaccounted
  /\ Raise
  /\ UNCHANGED feeds

RecordFeed ==
  /\ pc = "feed"
  /\ index + 1 \notin unaccounted
  /\ Record("feed")
  /\ trusted' = Append(trusted, Len(log["ledger"]))
  /\ Taken
  /\ UNCHANGED <<status, transactions, feeds, fusedAt, syncedAt>>

\* A mutant of FinishBatch: advance leaves the clock to the events.
FinishWithoutClock ==
  /\ pc = "loop"
  /\ ~More
  /\ status' = IF Complete THEN "COMPLETED" ELSE "PAUSED"
  /\ pc' = "fusion"
  /\ UNCHANGED <<call, index, time, transactions, feeds, recent>>
  /\ LogUnchanged

\* After the loop: advance moves the clock to its target, _finish_batch sets
\* the status, and the last event's time when it was processed.
FinishBatch ==
  /\ pc = "loop"
  /\ ~More
  /\ time' = IF Complete THEN End
             ELSE IF call.op = "advance" THEN call.target ELSE time
  /\ status' = IF Complete THEN "COMPLETED" ELSE "PAUSED"
  /\ pc' = "fusion"
  /\ UNCHANGED <<call, index, transactions, feeds, recent>>
  /\ LogUnchanged

RefreshFusion ==
  /\ pc = "fusion"
  /\ fusedAt' = [time |-> time, index |-> index]
  /\ pc' = "cases"
  /\ UNCHANGED <<call, index, time, status, transactions, feeds, recent, log,
                 trusted, syncedAt>>

SyncCases ==
  /\ pc = "cases"
  /\ syncedAt' = time
  /\ call' = Idle
  /\ pc' = Nothing
  /\ UNCHANGED <<index, time, status, transactions, feeds, recent, log,
                 trusted, fusedAt>>

-----------------------------------------------------------------------------
(* reset: engine after engine, the controller's own fields last.           *)

BeginReset ==
  /\ Free
  /\ call' = [op |-> "reset", before |-> Seen]
  /\ pc' = "initialize ledger"
  /\ UNCHANGED <<index, time, status, transactions, feeds, recent>>
  /\ LogUnchanged

InitializeEngine(at, e, next) ==
  /\ pc = at
  /\ log' = [log EXCEPT ![e] = <<>>]
  /\ trusted' = IF e = "feed" THEN <<>> ELSE trusted
  /\ pc' = next
  /\ UNCHANGED <<call, index, time, status, transactions, feeds, recent,
                 fusedAt, syncedAt>>

InitializeFusion ==
  /\ pc = "initialize fusion"
  /\ fusedAt' = Nothing
  /\ pc' = "reset cases"
  /\ UNCHANGED <<call, index, time, status, transactions, feeds, recent, log,
                 trusted, syncedAt>>

ResetCases ==
  /\ pc = "reset cases"
  /\ syncedAt' = Nothing
  /\ pc' = "reset fields"
  /\ UNCHANGED <<call, index, time, status, transactions, feeds, recent, log,
                 trusted, fusedAt>>

\* A mutant of ResetFields: what was reported about the last run stays.
ResetFieldsKeepReport ==
  /\ pc = "reset fields"
  /\ index' = 0
  /\ time' = Start
  /\ status' = "READY"
  /\ transactions' = 0
  /\ UNCHANGED <<feeds, recent>>
  /\ call' = Idle
  /\ pc' = Nothing
  /\ LogUnchanged

ResetFields ==
  /\ pc = "reset fields"
  /\ index' = 0
  /\ time' = Start
  /\ status' = "READY"
  /\ transactions' = 0
  /\ feeds' = 0
  /\ recent' = <<>>
  /\ call' = Idle
  /\ pc' = Nothing
  /\ LogUnchanged

\* A mutant of ResetStep: the ledger and the liquidity engine keep their events.
ResetStepPartial ==
  \/ InitializeEngine("initialize ledger", "feed", "initialize anomaly")
  \/ InitializeEngine("initialize anomaly", "anomaly", "initialize fusion")
  \/ InitializeFusion
  \/ ResetCases
  \/ ResetFields

ResetStep ==
  \/ InitializeEngine("initialize ledger", "ledger", "initialize feed")
  \/ InitializeEngine("initialize feed", "feed", "initialize liquidity")
  \/ InitializeEngine("initialize liquidity", "liquidity", "initialize anomaly")
  \/ InitializeEngine("initialize anomaly", "anomaly", "initialize fusion")
  \/ InitializeFusion
  \/ ResetCases
  \/ ResetFields

BatchStep ==
  \/ TransactionRejected \/ ApplyTransaction \/ RecordLiquidity \/ RecordAnomaly
  \/ CountFeed \/ FeedRejected \/ RecordFeed
  \/ FinishBatch \/ RefreshFusion \/ SyncCases

Running == (BatchStep \/ ResetStep) /\ UNCHANGED unaccounted

Next ==
  \/ /\ \/ \E n \in 1..MaxSteps : BeginStep(n)
        \/ \E m \in 1..MaxMinutes : BeginAdvance(m)
        \/ NothingLeft
        \/ BeginReset
     /\ UNCHANGED unaccounted
  \/ Running

\* A thread inside the lock runs on; nobody need ever call the replay.
Spec == Init /\ [][Next]_replayVars /\ WF_replayVars(Running)

-----------------------------------------------------------------------------
(* Properties.                                                             *)

Views == [index : Nat, time : Nat, feeds : Nat,
          status : {"READY", "RUNNING", "PAUSED", "COMPLETED"}]
Calls == {Idle} \cup [op : {"step"}, left : Nat, before : Views]
                \cup [op : {"advance"}, target : Nat, before : Views]
                \cup [op : {"reset"}, before : Views]

TypeOK ==
  /\ unaccounted \subseteq DOMAIN Events
  /\ call \in Calls
  /\ index \in 0..Len(Events)
  /\ time \in Nat
  /\ status \in {"READY", "RUNNING", "PAUSED", "COMPLETED"}
  /\ transactions \in Nat /\ feeds \in Nat
  /\ recent \in Seq(DOMAIN Events) /\ Len(recent) <= RecentLimit
  /\ log \in [Engines -> Seq(DOMAIN Events)]
  /\ trusted \in Seq(Nat)
  /\ fusedAt \in {Nothing} \cup [time : Nat, index : Nat]
  /\ syncedAt \in {Nothing} \cup Nat

KindOf(e) == IF e = "feed" THEN "FEED_EVENT" ELSE "TRANSACTION"
OfKind(kind, K) == {k \in K : Events[k].kind = kind}

\* When no call is running every engine has recorded exactly the events of its
\* kind the replay has passed, each once and in stream order: after batches of
\* any sizes, after calls that raised and were repeated, after resets.
EnginesFollowIndex ==
  Free => \A e \in Engines :
    /\ \A k, m \in DOMAIN log[e] : k < m => log[e][k] < log[e][m]
    /\ {log[e][k] : k \in DOMAIN log[e]} = OfKind(KindOf(e), 1..index)

\* A query reads the engines without the controller's lock.  Unless it meets a
\* reset, it finds the analytics at most one transaction behind the ledger and
\* otherwise in agreement with it.
EnginesInStep ==
  call.op # "reset" =>
    \A e \in {"liquidity", "anomaly"} :
      /\ Len(log["ledger"]) - Len(log[e]) \in {0, 1}
      /\ log[e] = SubSeq(log["ledger"], 1, Len(log[e]))

\* The balance a feed event is compared with counts exactly the transactions
\* replayed before it.
FeedsSeeLedger ==
  Free =>
    /\ Len(trusted) = Len(log["feed"])
    /\ \A k \in DOMAIN trusted :
         trusted[k] = Cardinality(OfKind("TRANSACTION", 1..log["feed"][k]))

\* What get_state reports fits the index: the recent events are the last ones
\* replayed, in order, up to the limit, and the counters split the processed
\* events by kind; only feed events that were tried and raised make the feed
\* counter run ahead.
ReportMatchesIndex ==
  Free =>
    /\ recent = [k \in 1..Earlier(index, RecentLimit) |->
                   index - Earlier(index, RecentLimit) + k]
    /\ transactions = Cardinality(OfKind("TRANSACTION", 1..index))
    /\ feeds >= Cardinality(OfKind("FEED_EVENT", 1..index))
    /\ unaccounted = {} => feeds = Cardinality(OfKind("FEED_EVENT", 1..index))

\* Incidents and cases were refreshed at the time the replay shows, with every
\* event it counts, unless the last call raised; after a reset there are none.
FusionFresh ==
  Free =>
    /\ status \in {"PAUSED", "COMPLETED"} =>
         fusedAt = [time |-> time, index |-> index] /\ syncedAt = time
    /\ status = "READY" => fusedAt = Nothing /\ syncedAt = Nothing
    /\ status = "RUNNING" => unaccounted # {}

\* Every call gives the lock back, also one that raises.
LockReleased == ~Free ~> Free

\* What get_state shows, call by call.
View == INSTANCE ReplayView WITH view <- IF Free THEN Seen ELSE call.before
ViewRefinement == View!Spec
=============================================================================

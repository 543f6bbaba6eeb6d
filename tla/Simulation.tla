------------------------------ MODULE Simulation ------------------------------
(***************************************************************************)
(* The generator of a day (app/simulation: generator, runtime, state) and  *)
(* the ledger that later replays it.  Per minute the generator draws       *)
(* candidates, commits them one by one against live balances, and emits    *)
(* feed events; the day is written to files, loaded, sorted and replayed.  *)
(* A day may also be given by other means (data/synthetic); the ledger     *)
(* then takes whatever comes.                                              *)
(*                                                                         *)
(* Random draws are free choices.  Candidates stay inside their minute, as *)
(* those of the baseline and of the scenarios do up to 45 per minute.      *)
(***************************************************************************)
EXTENDS Ledger, SequencesExt

CONSTANTS
  Minutes,            \* of the day
  SecondsPerMinute,
  HeartbeatInterval,
  Candidates,         \* what may be drawn in a minute, with its second
  MaxCandidates,      \* bound on the candidates of a minute
  Delays,             \* FEED_DELAY_RECOVERY scenarios: [account, start, end]
  Conflicts,          \* BALANCE_CONFLICT scenarios: [account, start, offset]
  Given               \* events of a day that was not generated

\* The n-th transaction, made of candidate c in minute m.
EventOf(c, n, m, status) ==
  [id |-> n, agent |-> c.agent, provider |-> c.provider, amount |-> c.amount,
   type |-> c.type, status |-> status, at |-> m * SecondsPerMinute + c.second]

ASSUME SimulationAssumption ==
  /\ {Minutes, SecondsPerMinute, HeartbeatInterval} \subseteq Nat \ {0}
  /\ MaxCandidates \in Nat
  /\ IsFiniteSet(Accounts) /\ IsFiniteSet(Candidates)
  /\ Given \subseteq Transactions
  /\ \A c \in Candidates : /\ <<c.agent, c.provider>> \in Accounts
                           /\ c.second \in 0..(SecondsPerMinute - 1)
                           /\ c.amount > 0
  /\ \A c \in Candidates, n \in 1..(Minutes * MaxCandidates), m \in 0..(Minutes - 1),
        s \in {"SUCCESS", "FAILED"} : EventOf(c, n, m, s) \in Transactions
  /\ \A d \in Delays : /\ d.account \in Accounts /\ {d.start, d.end} \subseteq Nat
                       /\ d.start < d.end /\ d.end <= Minutes
  /\ \A x \in Conflicts : /\ x.account \in Accounts /\ x.start \in Nat /\ x.offset \in Int
                          /\ x.start < Minutes

VARIABLES
  phase,       \* before, commit, replay or given
  minute,
  todo,        \* candidates of this minute that are not committed yet
  simCash,     \* SimulationState._shared_cash
  simEmoney,   \* SimulationState._provider_emoney
  committed,   \* runtime.transactions
  feedEvents,  \* runtime.feed_events
  delay,       \* the scenarios of the day
  conflict,
  trail        \* history: the simulated balances, before and after each commit

simulated == <<simCash, simEmoney, committed, trail>>
day == <<minute, todo, feedEvents, delay, conflict>>
simulationVars == <<ledgerVars, simulated, day, phase>>

SimulationInit ==
  /\ Opening
  /\ phase \in {"before", "given"}
  /\ minute = 0
  /\ todo = {}
  /\ simCash = OpeningCash
  /\ simEmoney = OpeningEmoney
  /\ committed = <<>>
  /\ feedEvents = <<>>
  /\ delay \in Delays
  /\ conflict \in Conflicts
  /\ trail = <<[cash |-> OpeningCash, emoney |-> OpeningEmoney]>>

FeedEvent(type, account, second, reported) ==
  [type |-> type, account |-> account, at |-> minute * SecondsPerMinute + second,
   reported |-> reported]

NotReported == 0

\* before_minute of the delay scenario, then the candidates of the minute.
BeforeMinute ==
  /\ phase = "before"
  /\ minute < Minutes
  /\ feedEvents' = feedEvents
       \o (IF minute = delay.start
           THEN <<FeedEvent("FEED_DELAY", delay.account, 0, NotReported)>> ELSE <<>>)
       \o (IF minute = delay.end
           THEN <<FeedEvent("FEED_RECOVERED", delay.account, 0, NotReported)>> ELSE <<>>)
  /\ todo' \in {S \in SUBSET Candidates : Cardinality(S) <= MaxCandidates}
  /\ phase' = "commit"
  /\ UNCHANGED <<ledgerVars, simulated, minute, delay, conflict>>

\* A mutant of Covered: cash-in is also checked against the shared cash.
CoveredByCash(c) == c.amount <= simCash[c.agent]

Covered(c) ==
  \/ c.type = "CASH_OUT" /\ c.amount <= simCash[c.agent]
  \/ c.type = "CASH_IN" /\ c.amount <= simEmoney[<<c.agent, c.provider>>]

\* A mutant of Foremost: candidates are committed in the order they come.
AnyCandidate(c) == c \in todo

\* commit_candidates takes them in order of time; what else it sorts by only
\* matters between candidates of the same second.
Foremost(c) == c \in todo /\ \A d \in todo : c.second <= d.second

\* commit_transaction: the network may fail, or the balance may be too low.
CommitTransaction(c, status) ==
  /\ phase = "commit"
  /\ Foremost(c)
  /\ \/ status = "FAILED" /\ c.network
     \/ status = IF Covered(c) THEN "SUCCESS" ELSE "FAILED"
  /\ LET t == EventOf(c, Len(committed) + 1, minute, status)
         moved == IF status = "SUCCESS" THEN CashDelta(t) ELSE 0
     IN  /\ committed' = Append(committed, t)
         /\ simCash' = [simCash EXCEPT ![c.agent] = @ + moved]
         /\ simEmoney' = [simEmoney EXCEPT ![<<c.agent, c.provider>>] = @ - moved]
  /\ trail' = Append(trail, [cash |-> simCash', emoney |-> simEmoney'])
  /\ todo' = todo \ {c}
  /\ UNCHANGED <<ledgerVars, minute, feedEvents, delay, conflict, phase>>

\* A mutant of Suppressed: the first minute of the delay is missed.
SuppressedLate(x) == x = delay.account /\ delay.start < minute /\ minute < delay.end

\* suppress_heartbeat
Suppressed(x) == x = delay.account /\ delay.start <= minute /\ minute < delay.end

Heartbeats ==
  IF minute % HeartbeatInterval # 0 THEN {}
  ELSE {FeedEvent("HEARTBEAT", x, SecondsPerMinute - 1, NotReported) :
          x \in {y \in Accounts : ~Suppressed(y)}}

\* Heartbeats, then after_minute of the conflict scenario.
AfterMinute ==
  /\ phase = "commit"
  /\ todo = {}
  /\ feedEvents' = feedEvents \o SetToSeq(Heartbeats)
       \o (IF minute = conflict.start
           THEN <<FeedEvent("BALANCE_CONFLICT", conflict.account, SecondsPerMinute - 2,
                            simEmoney[conflict.account] + conflict.offset)>>
           ELSE <<>>)
  /\ minute' = minute + 1
  /\ phase' = "before"
  /\ UNCHANGED <<ledgerVars, simulated, todo, delay, conflict>>

\* assert_invariants
NoNegativeBalance ==
  /\ \A a \in Agents : simCash[a] >= 0
  /\ \A x \in Accounts : simEmoney[x] >= 0

\* The day is over: what was generated is exported, loaded and replayed.
Finish ==
  /\ phase = "before"
  /\ minute = Minutes
  /\ NoNegativeBalance
  /\ phase' = "replay"
  /\ UNCHANGED <<ledgerVars, simulated, day>>

\* A mutant of Precedes: the stream is in order of time only.
PrecedesByTime(t, u) == t.at < u.at

\* The order of the stream: time, then id.  Ids are padded with zeros.
Precedes(t, u) == t.at < u.at \/ (t.at = u.at /\ t.id < u.id)

\* The next transaction of the stream reaches the ledger.
ReplayNext ==
  /\ phase = "replay"
  /\ LET ahead == {t \in ToSet(committed) : ~KnownId(t)}
     IN  \E t \in ahead : /\ \A u \in ahead : ~Precedes(u, t)
                          /\ ApplyTransaction(t)
  /\ UNCHANGED <<simulated, day, phase>>

ReplayGiven ==
  /\ phase = "given"
  /\ \E t \in Given : ApplyTransaction(t)
  /\ UNCHANGED <<simulated, day, phase>>

ReplayReset ==
  /\ phase \in {"replay", "given"}
  /\ Initialize
  /\ UNCHANGED <<simulated, day, phase>>

SimulationNext ==
  \/ BeforeMinute
  \/ \E c \in Candidates, s \in {"SUCCESS", "FAILED"} : CommitTransaction(c, s)
  \/ AfterMinute
  \/ Finish
  \/ ReplayNext
  \/ ReplayGiven
  \/ ReplayReset

SimulationSpec == SimulationInit /\ [][SimulationNext]_simulationVars

-----------------------------------------------------------------------------
(* Properties.                                                             *)

\* The replay of a generated day repeats the simulation: after each event the
\* ledger has the balances that the simulator had after the same commit, and
\* at the end those of its final_state.  The orders of commit, of ids and of
\* the stream have to agree for that.
ReplayRepeatsSimulation ==
  phase = "replay" =>
    LET n == Cardinality(journal)
    IN  /\ journal = {committed[i] : i \in 1..n}
        /\ [cash |-> cash, emoney |-> emoney] = trail[n + 1]

\* A generated day overdraws nothing (README.md:1665), neither while it is
\* generated nor at any point of its replay, though the ledger never looks
\* whether a balance covers a transaction.
NoneOverdrawn ==
  phase # "given" =>
    /\ NoNegativeBalance
    /\ \A a \in Agents : cash[a] >= 0
    /\ \A x \in Accounts : emoney[x] >= 0

\* A feed that is delayed sends no heartbeat until it has recovered.
DelayedFeedsSilent ==
  LET E == ToSet(feedEvents)
      Of(x, type) == {e \in E : e.account = x /\ e.type = type}
  IN  \A x \in Accounts : \A d \in Of(x, "FEED_DELAY"), h \in Of(x, "HEARTBEAT") :
        d.at <= h.at => \E r \in Of(x, "FEED_RECOVERED") : d.at < r.at /\ r.at <= h.at
=============================================================================

------------------------------- MODULE FeedHealth -------------------------------
(***************************************************************************)
(* FeedHealthEngine of app/data_quality/trust_score.py: how far the data   *)
(* of each provider feed can be trusted.  A feed's state is a summary of   *)
(* the events it sent; status and confidence are computed from it and the  *)
(* time of the question.                                                   *)
(***************************************************************************)
EXTENDS Integers, Sequences, FiniteSets

CONSTANTS
  FeedKeys,        \* agent and provider pairs with an opening balance
  StaleMinutes,    \* stale_minutes
  MissingMinutes,  \* missing_minutes
  Delays,          \* values of delay_minutes
  Balances,        \* amounts of e-money
  NoBalance,       \* reported_balance = None
  MaxTime,         \* bound on the clock
  MaxEvents        \* bound on the events of a feed

ASSUME FeedAssumption ==
  /\ StaleMinutes \in Nat \ {0}
  /\ MissingMinutes \in Nat
  /\ MissingMinutes > StaleMinutes
  /\ Delays \subseteq Nat \ {0}
  /\ Balances \subseteq Nat
  /\ NoBalance \notin Nat
  /\ MaxTime \in Nat /\ MaxEvents \in Nat

VARIABLES
  feed,   \* _states
  now,    \* the time of the replay, or of a question
  past    \* history: per feed, the events since initialize

feedVars == <<feed, now, past>>

FeedEventTypes == {"HEARTBEAT", "FEED_DELAY", "FEED_RECOVERED", "BALANCE_CONFLICT"}

FeedStates == [signal : Nat, delay : Nat, conflict : BOOLEAN,
               reported : Nat \cup {NoBalance}, calculated : Nat]

PastEvents == [type : FeedEventTypes \cup {"RESOLVED"}, at : Nat, delay : Nat]

Larger(x, y) == IF x < y THEN y ELSE x

-----------------------------------------------------------------------------
(* What a feed is worth: _evaluate_state.                                  *)

\* A mutant of EffectiveAge: an announced delay does not age the feed.
AgeOfSignal(s, t) == Larger(0, t - s.signal)

EffectiveAge(s, t) == Larger(Larger(0, t - s.signal), s.delay)

Status(s, t) ==
  IF s.conflict THEN "CONFLICTING"
  ELSE IF EffectiveAge(s, t) >= MissingMinutes THEN "MISSING"
  ELSE IF EffectiveAge(s, t) >= StaleMinutes THEN "STALE"
  ELSE "HEALTHY"

\* round(n / d), for the rounding of confidences to thousandths.
Rounded(n, d) == (2 * n + d) \div (2 * d)

\* A mutant of Confidence: a stale feed's progress is counted from the far end.
ConfidenceFromFarEnd(s, t) ==
  LET age == EffectiveAge(s, t)
      status == Status(s, t)
  IN  IF status = "CONFLICTING" THEN 300
      ELSE IF status = "MISSING" THEN 200
      ELSE IF status = "STALE"
           THEN 650 - Rounded(250 * (MissingMinutes - age), MissingMinutes - StaleMinutes)
      ELSE 1000 - Rounded(200 * age, StaleMinutes)

\* In thousandths: down to 0.8 while healthy, from 0.65 to 0.4 while stale.
Confidence(s, t) ==
  LET age == EffectiveAge(s, t)
      status == Status(s, t)
  IN  IF status = "CONFLICTING" THEN 300
      ELSE IF status = "MISSING" THEN 200
      ELSE IF status = "STALE"
           THEN 650 - Rounded(250 * (age - StaleMinutes), MissingMinutes - StaleMinutes)
      ELSE 1000 - Rounded(200 * age, StaleMinutes)

CanIssueStrong(s, t) == Status(s, t) = "HEALTHY"

Difference(s) ==
  IF s.reported = NoBalance THEN NoBalance
  ELSE IF s.reported > s.calculated THEN s.reported - s.calculated
  ELSE s.calculated - s.reported

-----------------------------------------------------------------------------
(* The engine.                                                             *)

Opened(at, balance) == [signal |-> at, delay |-> 0, conflict |-> FALSE,
                        reported |-> NoBalance, calculated |-> balance]

Init ==
  /\ now = 0
  /\ feed \in [FeedKeys -> {Opened(0, b) : b \in Balances}]
  /\ past = [f \in FeedKeys |-> <<>>]

Remember(f, type, delay) ==
  /\ Len(past[f]) < MaxEvents
  /\ past' = [past EXCEPT ![f] = Append(@, [type |-> type, at |-> now, delay |-> delay])]

\* A mutant of SignalArrives: a recovered feed has no conflict any more.
RecoveryEndsConflict(s, type) ==
  [s EXCEPT !.signal = now, !.delay = 0,
            !.conflict = @ /\ type # "FEED_RECOVERED"]

\* HEARTBEAT and FEED_RECOVERED.
SignalArrives(s, type) == [s EXCEPT !.signal = now, !.delay = 0]

\* FEED_DELAY is no signal, and the longest delay counts.
DelayReported(s, minutes) == [s EXCEPT !.delay = Larger(@, minutes)]

\* BALANCE_CONFLICT is a signal and leaves a delay alone.
ConflictReported(s, balance) ==
  [s EXCEPT !.signal = now, !.conflict = TRUE, !.reported = balance]

\* record_event; the calculated balance comes from the ledger.
RecordEvent(f, calculated) ==
  LET s == [feed[f] EXCEPT !.calculated = calculated]
  IN  /\ \/ \E type \in {"HEARTBEAT", "FEED_RECOVERED"} :
              /\ feed' = [feed EXCEPT ![f] = SignalArrives(s, type)]
              /\ Remember(f, type, 0)
         \/ \E minutes \in Delays :
              /\ feed' = [feed EXCEPT ![f] = DelayReported(s, minutes)]
              /\ Remember(f, "FEED_DELAY", minutes)
         \/ \E balance \in Balances :
              /\ feed' = [feed EXCEPT ![f] = ConflictReported(s, balance)]
              /\ Remember(f, "BALANCE_CONFLICT", 0)
      /\ UNCHANGED now

\* resolve_conflict: a verified balance is a signal; a delay stays.
ResolveConflict(f, calculated) ==
  /\ feed' = [feed EXCEPT ![f].conflict = FALSE, ![f].reported = NoBalance,
                          ![f].signal = now, ![f].calculated = calculated]
  /\ Remember(f, "RESOLVED", 0)
  /\ UNCHANGED now

Tick ==
  /\ now < MaxTime
  /\ now' = now + 1
  /\ UNCHANGED <<feed, past>>

\* initialize, when the replay starts again.
Initialize ==
  /\ now' = 0
  /\ feed' \in [FeedKeys -> {Opened(0, b) : b \in Balances}]
  /\ past' = [f \in FeedKeys |-> <<>>]

Next ==
  \/ \E f \in FeedKeys, calculated \in Balances :
       RecordEvent(f, calculated) \/ ResolveConflict(f, calculated)
  \/ Tick
  \/ Initialize

Spec == Init /\ [][Next]_feedVars

-----------------------------------------------------------------------------
(* Properties.                                                             *)

TypeOK ==
  /\ now \in Nat
  /\ feed \in [FeedKeys -> FeedStates]
  /\ past \in [FeedKeys -> Seq(PastEvents)]
  /\ \A f \in FeedKeys : feed[f].signal <= now

Indices(f, types) == {k \in DOMAIN past[f] : past[f][k].type \in types}

\* The position of the last event of one of the types, 0 when there is none.
LastOf(f, types) ==
  IF Indices(f, types) = {} THEN 0
  ELSE CHOOSE k \in Indices(f, types) : \A m \in Indices(f, types) : m <= k

Signals == {"HEARTBEAT", "FEED_RECOVERED", "BALANCE_CONFLICT", "RESOLVED"}
Fresh == {"HEARTBEAT", "FEED_RECOVERED"}

\* The few fields kept per feed say the same as the whole list of its events:
\* a conflict lasts until a person resolves it whatever arrives in between, and
\* as long as it lasts a reported balance and its difference are shown, the
\* delay is the longest one reported since the last fresh signal, and the age
\* counts from the last signal of any kind.
StateSummarizesPast ==
  \A f \in FeedKeys :
    LET last == LastOf(f, Signals)
        since == {k \in Indices(f, {"FEED_DELAY"}) : k > LastOf(f, Fresh)}
    IN  /\ feed[f].signal = IF last = 0 THEN 0 ELSE past[f][last].at
        /\ feed[f].conflict
             <=> LastOf(f, {"BALANCE_CONFLICT"}) > LastOf(f, {"RESOLVED"})
        /\ feed[f].conflict <=> Difference(feed[f]) # NoBalance
        /\ \A k \in since : past[f][k].delay <= feed[f].delay
        /\ feed[f].delay = 0 \/ \E k \in since : past[f][k].delay = feed[f].delay

\* The statuses of a feed without a conflict, from good to bad.
Severity == [HEALTHY |-> 1, STALE |-> 2, MISSING |-> 3]

\* While nothing arrives a feed is trusted less and less: neither its status
\* nor its confidence gets better by waiting, not at any threshold.
WaitingNeverHelps ==
  [][Tick => \A f \in FeedKeys :
       LET s == feed[f]
       IN  ~s.conflict =>
             /\ Severity[Status(s, now)] <= Severity[Status(s, now')]
             /\ Confidence(s, now') <= Confidence(s, now)]_feedVars

\* Since when a feed has said nothing, and the delays it has announced since it
\* last worked: a reported conflict is a sign of life and no end of a delay.
LastHeard(f) ==
  IF LastOf(f, Signals) = 0 THEN 0 ELSE past[f][LastOf(f, Signals)].at
Announced(f) ==
  {past[f][k].delay : k \in {m \in Indices(f, {"FEED_DELAY"}) : m > LastOf(f, Fresh)}}

\* Too late by one of the thresholds: by silence or by its own announcement.
Overdue(f, minutes) ==
  now - LastHeard(f) >= minutes \/ \E d \in Announced(f) : d >= minutes

\* A strong recommendation rests on a feed exactly when its events give no reason
\* for doubt: no conflict a person has not resolved, no silence of stale_minutes
\* since its last sign of life, whatever that was, and no delay of stale_minutes
\* announced since it last worked, whatever came after.  A conflict is what is
\* shown first, and missing_minutes of silence or of delay show as MISSING.
NoSilentTrust ==
  \A f \in FeedKeys :
    LET disputed == LastOf(f, {"BALANCE_CONFLICT"}) > LastOf(f, {"RESOLVED"})
    IN  /\ CanIssueStrong(feed[f], now) <=> ~disputed /\ ~Overdue(f, StaleMinutes)
        /\ disputed => Status(feed[f], now) = "CONFLICTING"
        /\ ~disputed => (Status(feed[f], now) = "MISSING" <=> Overdue(f, MissingMinutes))
=============================================================================

---------------------------- MODULE FeedHealthProofs ----------------------------
(***************************************************************************)
(* What the feed health engine keeps per feed is a summary of the events   *)
(* the feed sent, for every set of feeds, every threshold and every        *)
(* history.  Last speaks of the maximum of a set of positions; that there  *)
(* is one is a part of the invariant (LastExists), kept because a step     *)
(* appends at most one event.                                              *)
(***************************************************************************)
EXTENDS FeedHealth, TLAPS

Types == FeedEventTypes \cup {"RESOLVED"}

\* Indices, LastOf and StateSummarizesPast, of one list of events.
Positions(p, T) == {k \in DOMAIN p : p[k].type \in T}

Last(p, T) ==
  IF Positions(p, T) = {} THEN 0
  ELSE CHOOSE k \in Positions(p, T) : \A m \in Positions(p, T) : m <= k

LastExists(p) ==
  \A T \in SUBSET Types :
    Positions(p, T) = {} \/ \E k \in Positions(p, T) : \A m \in Positions(p, T) : m <= k

DelaysSince(p) == {k \in Positions(p, {"FEED_DELAY"}) : k > Last(p, Fresh)}

LastSignalAt(p) == IF Last(p, Signals) = 0 THEN 0 ELSE p[Last(p, Signals)].at

Summary(s, p) ==
  /\ s.signal = LastSignalAt(p)
  /\ s.conflict <=> Last(p, {"BALANCE_CONFLICT"}) > Last(p, {"RESOLVED"})
  /\ s.conflict <=> s.reported # NoBalance
  /\ \A k \in DelaysSince(p) : p[k].delay <= s.delay
  /\ s.delay = 0 \/ \E k \in DelaysSince(p) : p[k].delay = s.delay

IInv ==
  /\ TypeOK
  /\ \A f \in FeedKeys : LastExists(past[f]) /\ Summary(feed[f], past[f])

-----------------------------------------------------------------------------
(* Lists of events.                                                        *)

LEMMA PositionsGrow ==
  ASSUME NEW p \in Seq(PastEvents), NEW e \in PastEvents, NEW T
  PROVE  /\ e.type \in T => Positions(Append(p, e), T) = Positions(p, T) \cup {Len(p) + 1}
         /\ e.type \notin T => Positions(Append(p, e), T) = Positions(p, T)
<1>1. /\ DOMAIN Append(p, e) = 1..(Len(p) + 1) /\ DOMAIN p = 1..Len(p) /\ Len(p) \in Nat
      /\ Append(p, e)[Len(p) + 1] = e
      /\ \A k \in 1..Len(p) : Append(p, e)[k] = p[k]
  OBVIOUS
<1>2. DOMAIN Append(p, e) = DOMAIN p \cup {Len(p) + 1} /\ Len(p) + 1 \notin DOMAIN p
  BY <1>1
<1>. QED BY <1>1, <1>2 DEF Positions

LEMMA LastIs ==
  ASSUME NEW p \in Seq(PastEvents), LastExists(p), NEW T \in SUBSET Types
  PROVE  /\ Positions(p, T) \subseteq 1..Len(p) /\ Last(p, T) \in 0..Len(p)
         /\ Last(p, T) = 0 <=> Positions(p, T) = {}
         /\ Last(p, T) # 0 => Last(p, T) \in Positions(p, T)
<1>1. Positions(p, T) \subseteq 1..Len(p) /\ Len(p) \in Nat
  BY DEF Positions
<1>2. CASE Positions(p, T) = {}
  BY <1>1, <1>2 DEF Last
<1>3. CASE Positions(p, T) # {}
  <2>1. \E k \in Positions(p, T) : \A m \in Positions(p, T) : m <= k
    BY <1>3 DEF LastExists
  <2>2. Last(p, T) \in Positions(p, T)
    BY <1>3, <2>1 DEF Last
  <2>. QED BY <1>1, <1>3, <2>2
<1>. QED BY <1>2, <1>3

LEMMA LastGrows ==
  ASSUME NEW p \in Seq(PastEvents), LastExists(p), NEW e \in PastEvents,
         NEW T \in SUBSET Types
  PROVE  Last(Append(p, e), T) = IF e.type \in T THEN Len(p) + 1 ELSE Last(p, T)
<1>1. Positions(p, T) \subseteq 1..Len(p) /\ Len(p) \in Nat
  BY LastIs
<1>2. CASE e.type \in T
  <2>. DEFINE P == Positions(Append(p, e), T)
              n == Len(p) + 1
  <2>1. P = Positions(p, T) \cup {n}
    BY <1>2, PositionsGrow
  <2>2. n \in P /\ P \subseteq Nat /\ \A m \in P : m <= n
    BY <1>1, <2>1
  <2>3. Last(Append(p, e), T) = CHOOSE k \in P : \A m \in P : m <= k
    BY <2>2 DEF Last
  <2>. HIDE DEF P, n
  <2>. DEFINE c == CHOOSE k \in P : \A m \in P : m <= k
  <2>5. c \in P /\ \A m \in P : m <= c
    BY <2>2, Zenon
  <2>. HIDE DEF c
  <2>6. c = n
    BY <2>2, <2>5
  <2>4. (CHOOSE k \in P : \A m \in P : m <= k) = n
    BY <2>6 DEF c
  <2>. QED BY <1>2, <2>3, <2>4 DEF n
<1>3. CASE e.type \notin T
  <2>1. Positions(Append(p, e), T) = Positions(p, T)
    BY <1>3, PositionsGrow
  <2>. QED BY <1>3, <2>1 DEF Last
<1>. QED BY <1>2, <1>3

LEMMA LastStillExists ==
  ASSUME NEW p \in Seq(PastEvents), LastExists(p), NEW e \in PastEvents
  PROVE  LastExists(Append(p, e))
<1>. SUFFICES ASSUME NEW T \in SUBSET Types,
                     Positions(Append(p, e), T) # {}
              PROVE  \E k \in Positions(Append(p, e), T) :
                       \A m \in Positions(Append(p, e), T) : m <= k
  BY DEF LastExists
<1>1. Positions(p, T) \subseteq 1..Len(p) /\ Len(p) \in Nat
  BY LastIs
<1>2. CASE e.type \in T
  <2>. DEFINE n == Len(p) + 1
  <2>1. Positions(Append(p, e), T) = Positions(p, T) \cup {n}
    BY <1>2, PositionsGrow
  <2>2. n \in Positions(Append(p, e), T) /\ \A m \in Positions(Append(p, e), T) : m <= n
    BY <1>1, <2>1
  <2>. QED BY <2>2
<1>3. CASE e.type \notin T
  BY <1>3, PositionsGrow DEF LastExists
<1>. QED BY <1>2, <1>3

-----------------------------------------------------------------------------
(* One event of one feed.                                                  *)

LEMMA Kinds ==
  /\ Fresh \in SUBSET Types /\ Signals \in SUBSET Types
  /\ {"FEED_DELAY"} \in SUBSET Types
  /\ {"BALANCE_CONFLICT"} \in SUBSET Types /\ {"RESOLVED"} \in SUBSET Types
BY DEF Fresh, Signals, Types, FeedEventTypes

\* An event that is no delay is a signal: the summary dates from it.
LEMMA SignalDates ==
  ASSUME NEW p \in Seq(PastEvents), LastExists(p), NEW e \in PastEvents,
         e.type \in Signals
  PROVE  LastSignalAt(Append(p, e)) = e.at
<1>1. Last(Append(p, e), Signals) = Len(p) + 1 /\ Len(p) \in Nat
  BY LastGrows, Kinds
<1>2. Append(p, e)[Len(p) + 1] = e
  OBVIOUS
<1>. QED BY <1>1, <1>2 DEF LastSignalAt

LEMMA DelayDates ==
  ASSUME NEW p \in Seq(PastEvents), LastExists(p), NEW e \in PastEvents,
         e.type = "FEED_DELAY"
  PROVE  LastSignalAt(Append(p, e)) = LastSignalAt(p)
<1>1. Last(Append(p, e), Signals) = Last(p, Signals)
  BY LastGrows, Kinds DEF Signals
<1>2. Last(p, Signals) # 0 => Last(p, Signals) \in 1..Len(p)
  BY LastIs, Kinds
<1>3. \A k \in 1..Len(p) : Append(p, e)[k] = p[k]
  OBVIOUS
<1>. QED BY <1>1, <1>2, <1>3 DEF LastSignalAt

\* The delays that count: none after a fresh signal, one more after a delay.
LEMMA DelaysCounted ==
  ASSUME NEW p \in Seq(PastEvents), LastExists(p), NEW e \in PastEvents
  PROVE  DelaysSince(Append(p, e)) =
           IF e.type \in Fresh THEN {}
           ELSE IF e.type = "FEED_DELAY" THEN DelaysSince(p) \cup {Len(p) + 1}
           ELSE DelaysSince(p)
<1>1. /\ Positions(p, {"FEED_DELAY"}) \subseteq 1..Len(p) /\ Len(p) \in Nat
      /\ Last(p, Fresh) \in 0..Len(p)
  BY LastIs, Kinds
<1>2. Last(Append(p, e), Fresh) = IF e.type \in Fresh THEN Len(p) + 1 ELSE Last(p, Fresh)
  BY LastGrows, Kinds
<1>3. Positions(Append(p, e), {"FEED_DELAY"})
        = IF e.type = "FEED_DELAY" THEN Positions(p, {"FEED_DELAY"}) \cup {Len(p) + 1}
          ELSE Positions(p, {"FEED_DELAY"})
  BY PositionsGrow
<1>4. "FEED_DELAY" \notin Fresh
  BY DEF Fresh
<1>5. CASE e.type \in Fresh
  BY <1>1, <1>2, <1>3, <1>4, <1>5 DEF DelaysSince
<1>6. CASE e.type = "FEED_DELAY"
  BY <1>1, <1>2, <1>3, <1>4, <1>6 DEF DelaysSince
<1>7. CASE e.type \notin Fresh /\ e.type # "FEED_DELAY"
  BY <1>1, <1>2, <1>3, <1>7 DEF DelaysSince
<1>. QED BY <1>4, <1>5, <1>6, <1>7

LEMMA DelaysAre ==
  ASSUME NEW p \in Seq(PastEvents), LastExists(p), NEW e \in PastEvents
  PROVE  /\ Len(p) \in Nat /\ DelaysSince(p) \subseteq 1..Len(p)
         /\ \A k \in 1..Len(p) : p[k].delay \in Nat /\ Append(p, e)[k] = p[k]
         /\ Append(p, e)[Len(p) + 1] = e /\ e.delay \in Nat
<1>1. \A k \in 1..Len(p) : p[k] \in PastEvents /\ Append(p, e)[k] = p[k]
  OBVIOUS
<1>2. DelaysSince(p) \subseteq 1..Len(p)
  BY DEF DelaysSince, Positions
<1>. QED BY <1>1, <1>2 DEF PastEvents

\* What a feed becomes when e is the next of its events.
Answers(s, e, n) ==
  /\ n \in FeedStates
  /\ n.signal = IF e.type \in Signals THEN e.at ELSE s.signal
  /\ n.conflict = CASE e.type = "BALANCE_CONFLICT" -> TRUE
                    [] e.type = "RESOLVED" -> FALSE
                    [] OTHER -> s.conflict
  /\ n.reported = NoBalance <=>
       CASE e.type = "BALANCE_CONFLICT" -> FALSE
         [] e.type = "RESOLVED" -> TRUE
         [] OTHER -> s.reported = NoBalance
  /\ n.delay = CASE e.type \in Fresh -> 0
                 [] e.type = "FEED_DELAY" -> Larger(s.delay, e.delay)
                 [] OTHER -> s.delay

LEMMA SummaryFollows ==
  ASSUME NEW p \in Seq(PastEvents), LastExists(p), NEW s \in FeedStates, Summary(s, p),
         NEW e \in PastEvents, NEW n, Answers(s, e, n)
  PROVE  Summary(n, Append(p, e))
<1>. DEFINE q == Append(p, e)
<1>1. n.signal = LastSignalAt(q)
  <2>1. e.type = "FEED_DELAY" \/ e.type \in Signals
    BY DEF PastEvents, FeedEventTypes, Signals
  <2>2. "FEED_DELAY" \notin Signals
    BY DEF Signals
  <2>. QED BY <2>1, <2>2, SignalDates, DelayDates DEF Answers, Summary
<1>2. n.conflict <=> Last(q, {"BALANCE_CONFLICT"}) > Last(q, {"RESOLVED"})
  <2>1. /\ Last(p, {"BALANCE_CONFLICT"}) \in 0..Len(p) /\ Last(p, {"RESOLVED"}) \in 0..Len(p)
        /\ Len(p) \in Nat
    BY LastIs, Kinds
  <2>2. /\ Last(q, {"BALANCE_CONFLICT"})
             = IF e.type = "BALANCE_CONFLICT" THEN Len(p) + 1 ELSE Last(p, {"BALANCE_CONFLICT"})
        /\ Last(q, {"RESOLVED"})
             = IF e.type = "RESOLVED" THEN Len(p) + 1 ELSE Last(p, {"RESOLVED"})
    BY LastGrows, Kinds
  <2>3. CASE e.type = "BALANCE_CONFLICT"
    BY <2>1, <2>2, <2>3 DEF Answers
  <2>4. CASE e.type = "RESOLVED"
    BY <2>1, <2>2, <2>4 DEF Answers
  <2>5. CASE e.type \notin {"BALANCE_CONFLICT", "RESOLVED"}
    BY <2>2, <2>5 DEF Answers, Summary
  <2>. QED BY <2>3, <2>4, <2>5
<1>3. n.conflict <=> n.reported # NoBalance
  BY DEF Answers, Summary
<1>4. /\ \A k \in DelaysSince(q) : q[k].delay <= n.delay
      /\ n.delay = 0 \/ \E k \in DelaysSince(q) : q[k].delay = n.delay
  <2>1. s.delay \in Nat
    BY DEF FeedStates
  <2>2. CASE e.type \in Fresh
    <3>1. n.delay = 0 /\ DelaysSince(q) = {}
      BY <2>2, DelaysCounted DEF Answers, Fresh
    <3>. QED BY <3>1
  <2>3. CASE e.type = "FEED_DELAY"
    <3>1. n.delay = Larger(s.delay, e.delay) /\ e.type \notin Fresh
      BY <2>3 DEF Answers, Fresh
    <3>2. DelaysSince(q) = DelaysSince(p) \cup {Len(p) + 1}
      BY <2>3, <3>1, DelaysCounted
    <3>. QED BY <2>1, <3>1, <3>2, DelaysAre DEF Summary, Larger
  <2>4. CASE e.type \notin Fresh \cup {"FEED_DELAY"}
    <3>1. n.delay = s.delay /\ DelaysSince(q) = DelaysSince(p)
      BY <2>4, DelaysCounted DEF Answers
    <3>. QED BY <3>1, DelaysAre DEF Summary
  <2>. QED BY <2>2, <2>3, <2>4
<1>. HIDE DEF q
<1>5. Summary(n, q)
  BY <1>1, <1>2, <1>3, <1>4 DEF Summary
<1>. QED BY <1>5 DEF q

-----------------------------------------------------------------------------
(* Steps.                                                                  *)

LEMMA Empty ==
  ASSUME NEW b \in Balances
  PROVE  /\ Opened(0, b) \in FeedStates
         /\ <<>> \in Seq(PastEvents) /\ LastExists(<<>>) /\ Summary(Opened(0, b), <<>>)
<1>1. \A T : Positions(<<>>, T) = {}
  BY DEF Positions
<1>2. \A T : Last(<<>>, T) = 0
  BY <1>1 DEF Last
<1>3. LastExists(<<>>)
  BY <1>1 DEF LastExists
<1>4. Opened(0, b) \in FeedStates
  BY FeedAssumption DEF Opened, FeedStates, FeedAssumption
<1>5. Summary(Opened(0, b), <<>>)
  BY <1>2 DEF Opened, Summary, LastSignalAt, DelaysSince, Positions
<1>. QED BY <1>3, <1>4, <1>5

LEMMA InitHolds == Init => IInv
<1>. SUFFICES ASSUME now = 0, feed \in [FeedKeys -> {Opened(0, b) : b \in Balances}],
                     past = [f \in FeedKeys |-> <<>>]
              PROVE  IInv
  BY DEF Init
<1>1. ASSUME NEW f \in FeedKeys
      PROVE  /\ feed[f] \in FeedStates /\ feed[f].signal = 0
             /\ past[f] \in Seq(PastEvents) /\ LastExists(past[f])
             /\ Summary(feed[f], past[f])
  <2>1. PICK b \in Balances : feed[f] = Opened(0, b)
    OBVIOUS
  <2>2. past[f] = <<>> /\ Opened(0, b).signal = 0
    BY DEF Opened
  <2>. QED BY <2>1, <2>2, Empty
<1>2. TypeOK
  BY <1>1 DEF TypeOK
<1>. QED BY <1>1, <1>2 DEF IInv

LEMMA EventKeeps ==
  ASSUME IInv, NEW f \in FeedKeys, NEW e \in PastEvents, e.at = now,
         NEW n \in FeedStates, Answers(feed[f], e, n),
         feed' = [feed EXCEPT ![f] = n],
         past' = [past EXCEPT ![f] = Append(@, e)], now' = now
  PROVE  IInv'
<1>1. /\ now \in Nat /\ feed \in [FeedKeys -> FeedStates] /\ past \in [FeedKeys -> Seq(PastEvents)]
      /\ \A g \in FeedKeys : feed[g].signal <= now
      /\ \A g \in FeedKeys : LastExists(past[g]) /\ Summary(feed[g], past[g])
  BY DEF IInv, TypeOK
<1>2. feed'[f] = n /\ past'[f] = Append(past[f], e)
  BY <1>1
<1>3. ASSUME NEW g \in FeedKeys, g # f
      PROVE  feed'[g] = feed[g] /\ past'[g] = past[g]
  BY <1>1, <1>3
<1>4. n.signal <= now
  BY <1>1 DEF Answers
<1>5. Append(past[f], e) \in Seq(PastEvents)
  BY <1>1
<1>6. TypeOK'
  BY <1>1, <1>2, <1>3, <1>4, <1>5 DEF TypeOK
<1>7. LastExists(Append(past[f], e)) /\ Summary(n, Append(past[f], e))
  BY <1>1, LastStillExists, SummaryFollows
<1>8. \A g \in FeedKeys : LastExists(past'[g]) /\ Summary(feed'[g], past'[g])
  BY <1>1, <1>2, <1>3, <1>7
<1>. QED BY <1>6, <1>8 DEF IInv

LEMMA RecordKeeps ==
  ASSUME IInv, NEW f \in FeedKeys, NEW calculated \in Balances, RecordEvent(f, calculated)
  PROVE  IInv'
<1>. DEFINE s == [feed[f] EXCEPT !.calculated = calculated]
<1>1. /\ feed[f] \in FeedStates /\ now \in Nat /\ now' = now /\ calculated \in Nat
      /\ Delays \subseteq Nat /\ Balances \subseteq Nat /\ NoBalance \notin Nat
  BY FeedAssumption DEF IInv, TypeOK, RecordEvent, FeedAssumption
<1>2. ASSUME NEW type \in {"HEARTBEAT", "FEED_RECOVERED"},
             feed' = [feed EXCEPT ![f] = SignalArrives(s, type)], Remember(f, type, 0)
      PROVE  IInv'
  <2>. DEFINE e == [type |-> type, at |-> now, delay |-> 0]
              n == SignalArrives(s, type)
  <2>1. e \in PastEvents /\ e.at = now
    BY <1>1 DEF PastEvents, FeedEventTypes
  <2>2. n \in FeedStates
    BY <1>1 DEF SignalArrives, FeedStates
  <2>3. Answers(feed[f], e, n)
    BY <1>1, <2>2 DEF SignalArrives, Answers, FeedStates, Fresh, Signals
  <2>4. past' = [past EXCEPT ![f] = Append(@, e)]
    BY <1>2 DEF Remember
  <2>. QED BY <1>1, <1>2, <2>1, <2>2, <2>3, <2>4, EventKeeps
<1>3. ASSUME NEW minutes \in Delays,
             feed' = [feed EXCEPT ![f] = DelayReported(s, minutes)],
             Remember(f, "FEED_DELAY", minutes)
      PROVE  IInv'
  <2>. DEFINE e == [type |-> "FEED_DELAY", at |-> now, delay |-> minutes]
              n == DelayReported(s, minutes)
  <2>1. e \in PastEvents /\ e.at = now
    BY <1>1 DEF PastEvents, FeedEventTypes
  <2>2. n \in FeedStates
    BY <1>1 DEF DelayReported, FeedStates, Larger
  <2>3. Answers(feed[f], e, n)
    BY <1>1, <2>2 DEF DelayReported, Answers, FeedStates, Fresh, Signals
  <2>4. past' = [past EXCEPT ![f] = Append(@, e)]
    BY <1>3 DEF Remember
  <2>. QED BY <1>1, <1>3, <2>1, <2>2, <2>3, <2>4, EventKeeps
<1>4. ASSUME NEW balance \in Balances,
             feed' = [feed EXCEPT ![f] = ConflictReported(s, balance)],
             Remember(f, "BALANCE_CONFLICT", 0)
      PROVE  IInv'
  <2>. DEFINE e == [type |-> "BALANCE_CONFLICT", at |-> now, delay |-> 0]
              n == ConflictReported(s, balance)
  <2>1. e \in PastEvents /\ e.at = now
    BY <1>1 DEF PastEvents, FeedEventTypes
  <2>2. n \in FeedStates
    BY <1>1 DEF ConflictReported, FeedStates
  <2>3. Answers(feed[f], e, n)
    BY <1>1, <2>2 DEF ConflictReported, Answers, FeedStates, Fresh, Signals
  <2>4. past' = [past EXCEPT ![f] = Append(@, e)]
    BY <1>4 DEF Remember
  <2>. QED BY <1>1, <1>4, <2>1, <2>2, <2>3, <2>4, EventKeeps
<1>. QED BY <1>2, <1>3, <1>4 DEF RecordEvent

LEMMA ResolveKeeps ==
  ASSUME IInv, NEW f \in FeedKeys, NEW calculated \in Balances, ResolveConflict(f, calculated)
  PROVE  IInv'
<1>. DEFINE e == [type |-> "RESOLVED", at |-> now, delay |-> 0]
            n == [feed[f] EXCEPT !.conflict = FALSE, !.reported = NoBalance,
                                 !.signal = now, !.calculated = calculated]
<1>1. /\ feed \in [FeedKeys -> FeedStates] /\ now \in Nat /\ now' = now
      /\ calculated \in Nat
  BY FeedAssumption DEF IInv, TypeOK, ResolveConflict, FeedAssumption
<1>2. e \in PastEvents /\ e.at = now
  BY <1>1 DEF PastEvents
<1>3. n \in FeedStates
  BY <1>1 DEF FeedStates
<1>4. Answers(feed[f], e, n)
  BY <1>1, <1>3 DEF Answers, FeedStates, Fresh, Signals
<1>5. feed' = [feed EXCEPT ![f] = n] /\ past' = [past EXCEPT ![f] = Append(@, e)]
  BY <1>1 DEF ResolveConflict, Remember
<1>. QED BY <1>1, <1>2, <1>3, <1>4, <1>5, EventKeeps

LEMMA NextHolds == IInv /\ [Next]_feedVars => IInv'
<1>. SUFFICES ASSUME IInv, [Next]_feedVars PROVE IInv'
  OBVIOUS
<1>1. CASE \E f \in FeedKeys, calculated \in Balances :
             RecordEvent(f, calculated) \/ ResolveConflict(f, calculated)
  BY <1>1, RecordKeeps, ResolveKeeps
<1>2. CASE Tick
  <2>1. feed' = feed /\ past' = past /\ now' = now + 1
    BY <1>2 DEF Tick
  <2>2. \A f \in FeedKeys : feed[f].signal \in Nat
    BY DEF IInv, TypeOK, FeedStates
  <2>3. TypeOK'
    BY <2>1, <2>2 DEF IInv, TypeOK
  <2>. QED BY <2>1, <2>3 DEF IInv
<1>3. CASE Initialize
  <2>1. Init'
    BY <1>3 DEF Initialize, Init
  <2>. QED BY <2>1, InitHolds, PTL
<1>4. CASE UNCHANGED feedVars
  BY <1>4 DEF feedVars, IInv, TypeOK
<1>. QED BY <1>1, <1>2, <1>3, <1>4 DEF Next

LEMMA InvariantHolds == Spec => []IInv
BY InitHolds, NextHolds, PTL DEF Spec

-----------------------------------------------------------------------------
(* What the invariant says.                                                *)

\* The lists of an engine are the lists of the lemmas.
LEMMA SamePositions ==
  ASSUME NEW f, NEW T
  PROVE  Indices(f, T) = Positions(past[f], T) /\ LastOf(f, T) = Last(past[f], T)
BY DEF Indices, Positions, LastOf, Last

LEMMA DifferenceKnown ==
  ASSUME NEW s \in FeedStates
  PROVE  Difference(s) # NoBalance <=> s.reported # NoBalance
<1>1. s.calculated \in Nat /\ (s.reported = NoBalance \/ s.reported \in Nat)
  BY DEF FeedStates
<1>2. CASE s.reported = NoBalance
  BY <1>2 DEF Difference
<1>3. CASE s.reported # NoBalance
  <2>1. Difference(s) \in Nat
    BY <1>1, <1>3 DEF Difference
  <2>. QED BY <1>3, <2>1, FeedAssumption DEF FeedAssumption
<1>. QED BY <1>2, <1>3

\* The clock, the fields of every feed and the lists keep their types, and no feed
\* has a signal from the future.
THEOREM FeedTypes == Spec => []TypeOK
BY InvariantHolds, PTL DEF IInv

\* The fields the engine keeps per feed say the same as all events of that feed
\* since initialize, whatever came in which order, for every threshold and amount.
THEOREM SummaryHolds == Spec => []StateSummarizesPast
<1>1. IInv => StateSummarizesPast
  <2>. SUFFICES ASSUME IInv, NEW f \in FeedKeys
                PROVE  LET last == LastOf(f, Signals)
                           since == {k \in Indices(f, {"FEED_DELAY"}) : k > LastOf(f, Fresh)}
                       IN  /\ feed[f].signal = IF last = 0 THEN 0 ELSE past[f][last].at
                           /\ feed[f].conflict
                                <=> LastOf(f, {"BALANCE_CONFLICT"}) > LastOf(f, {"RESOLVED"})
                           /\ feed[f].conflict <=> Difference(feed[f]) # NoBalance
                           /\ \A k \in since : past[f][k].delay <= feed[f].delay
                           /\ \/ feed[f].delay = 0
                              \/ \E k \in since : past[f][k].delay = feed[f].delay
    BY DEF StateSummarizesPast
  <2>1. Summary(feed[f], past[f]) /\ feed[f] \in FeedStates
    BY DEF IInv, TypeOK
  <2>2. {k \in Indices(f, {"FEED_DELAY"}) : k > LastOf(f, Fresh)} = DelaysSince(past[f])
    BY SamePositions DEF DelaysSince
  <2>. QED BY <2>1, <2>2, SamePositions, DifferenceKnown DEF Summary, LastSignalAt
<1>. QED BY <1>1, InvariantHolds, PTL

\* The age of a feed passes a threshold exactly when the feed is overdue by it.
LEMMA AgeIsOverdue ==
  ASSUME IInv, NEW f \in FeedKeys, NEW m \in Nat \ {0}
  PROVE  EffectiveAge(feed[f], now) >= m <=> Overdue(f, m)
<1>. DEFINE s == feed[f]
            D == DelaysSince(past[f])
<1>1. s \in FeedStates /\ s.signal \in Nat /\ s.delay \in Nat /\ now \in Nat /\ s.signal <= now
  BY DEF IInv, TypeOK, FeedStates
<1>2. /\ LastHeard(f) = s.signal
      /\ Announced(f) = {past[f][k].delay : k \in D}
  BY SamePositions DEF IInv, Summary, LastSignalAt, LastHeard, Announced, DelaysSince
<1>3. /\ \A k \in D : past[f][k].delay <= s.delay
      /\ s.delay = 0 \/ \E k \in D : past[f][k].delay = s.delay
  BY DEF IInv, Summary
<1>4. \A k \in D : past[f][k].delay \in Nat
  <2>1. past[f] \in Seq(PastEvents) /\ D \subseteq DOMAIN past[f]
    BY DEF IInv, TypeOK, DelaysSince, Positions
  <2>2. \A k \in DOMAIN past[f] : past[f][k] \in PastEvents
    BY <2>1
  <2>. QED BY <2>1, <2>2 DEF PastEvents
<1>. HIDE DEF s, D
<1>5. (\E d \in Announced(f) : d >= m) <=> s.delay >= m
  BY <1>1, <1>2, <1>3, <1>4
<1>6. EffectiveAge(s, now) >= m <=> (now - s.signal >= m \/ s.delay >= m)
  BY <1>1 DEF EffectiveAge, Larger
<1>. QED BY <1>2, <1>5, <1>6 DEF Overdue, s

\* A feed carries a strong recommendation exactly when its events leave no conflict
\* open, no silence and no announced delay of stale_minutes.
THEOREM NoSilentTrustHolds == Spec => []NoSilentTrust
<1>1. ASSUME IInv, NEW f \in FeedKeys
      PROVE  LET disputed == LastOf(f, {"BALANCE_CONFLICT"}) > LastOf(f, {"RESOLVED"})
             IN  /\ CanIssueStrong(feed[f], now) <=> ~disputed /\ ~Overdue(f, StaleMinutes)
                 /\ disputed => Status(feed[f], now) = "CONFLICTING"
                 /\ ~disputed => (Status(feed[f], now) = "MISSING"
                                    <=> Overdue(f, MissingMinutes))
  <2>1. feed[f].conflict <=> LastOf(f, {"BALANCE_CONFLICT"}) > LastOf(f, {"RESOLVED"})
    BY <1>1, SamePositions DEF IInv, Summary
  <2>2. /\ StaleMinutes \in Nat \ {0} /\ MissingMinutes \in Nat \ {0}
        /\ MissingMinutes > StaleMinutes
    BY FeedAssumption DEF FeedAssumption
  <2>3. /\ EffectiveAge(feed[f], now) >= StaleMinutes <=> Overdue(f, StaleMinutes)
        /\ EffectiveAge(feed[f], now) >= MissingMinutes <=> Overdue(f, MissingMinutes)
    BY <1>1, <2>2, AgeIsOverdue
  <2>4. EffectiveAge(feed[f], now) \in Nat
    BY <1>1 DEF IInv, TypeOK, FeedStates, EffectiveAge, Larger
  <2>. QED BY <2>1, <2>2, <2>3, <2>4 DEF CanIssueStrong, Status
<1>2. IInv => NoSilentTrust
  BY <1>1 DEF NoSilentTrust
<1>. QED BY <1>2, InvariantHolds, PTL

-----------------------------------------------------------------------------
(* Waiting.                                                                *)

\* The rounding of confidences is monotone.
LEMMA RoundedMonotone ==
  ASSUME NEW m \in Nat, NEW n \in Nat, NEW d \in Nat \ {0}, m <= n
  PROVE  /\ Rounded(m, d) \in Nat /\ Rounded(m, d) <= Rounded(n, d)
         /\ \A b \in Nat : n <= b * d => Rounded(n, d) <= b
<1>. DEFINE x == 2 * m + d
            y == 2 * n + d
            z == 2 * d
            p == x \div z
            q == y \div z
<1>1. x \in Nat /\ y \in Nat /\ z \in Nat \ {0} /\ x <= y
  OBVIOUS
<1>. HIDE DEF x, y, z
<1>2. p \in Nat /\ q \in Nat /\ z * p <= x /\ x < z * (p + 1) /\ z * q <= y /\ y < z * (q + 1)
  BY <1>1
<1>. HIDE DEF p, q
<1>3. p <= q
  <2>1. SUFFICES ASSUME q + 1 <= p PROVE FALSE
    BY <1>2
  <2>2. z * (q + 1) <= z * p
    BY <1>1, <1>2, <2>1
  <2>. QED BY <1>1, <1>2, <2>2
<1>4. ASSUME NEW b \in Nat, n <= b * d PROVE q <= b
  <2>1. SUFFICES ASSUME b + 1 <= q PROVE FALSE
    BY <1>2
  <2>2. z * (b + 1) <= z * q
    BY <1>1, <1>2, <2>1
  <2>3. z * (b + 1) = 2 * (b * d) + 2 * d
    BY DEF z
  <2>4. y <= 2 * (b * d) + d
    BY <1>4 DEF y
  <2>. QED BY <1>1, <1>2, <2>2, <2>3, <2>4
<1>. QED BY <1>2, <1>3, <1>4 DEF Rounded, p, q, x, y, z

LEMMA RoundedBounded ==
  ASSUME NEW n \in Nat, NEW d \in Nat \ {0}, NEW b \in Nat, n <= b * d
  PROVE  Rounded(n, d) \in 0..b
<1>1. n <= n
  OBVIOUS
<1>2. Rounded(n, d) \in Nat /\ Rounded(n, d) <= b
  BY <1>1, RoundedMonotone
<1>. QED BY <1>2

\* The age at t, without the case of a conflict.
LEMMA ConfidenceByAge ==
  ASSUME NEW s \in FeedStates, ~s.conflict, NEW t \in Nat
  PROVE  LET age == EffectiveAge(s, t)
         IN  /\ age \in Nat
             /\ age < StaleMinutes =>
                  /\ Status(s, t) = "HEALTHY"
                  /\ Confidence(s, t) = 1000 - Rounded(200 * age, StaleMinutes)
                  /\ Confidence(s, t) \in 800..1000
             /\ age >= StaleMinutes /\ age < MissingMinutes =>
                  /\ Status(s, t) = "STALE"
                  /\ Confidence(s, t)
                       = 650 - Rounded(250 * (age - StaleMinutes), MissingMinutes - StaleMinutes)
                  /\ Confidence(s, t) \in 400..650
             /\ age >= MissingMinutes => Status(s, t) = "MISSING" /\ Confidence(s, t) = 200
<1>. DEFINE age == EffectiveAge(s, t)
<1>1. /\ StaleMinutes \in Nat \ {0} /\ MissingMinutes \in Nat
      /\ MissingMinutes - StaleMinutes \in Nat \ {0}
  BY FeedAssumption DEF FeedAssumption
<1>2. age \in Nat
  BY DEF EffectiveAge, Larger, FeedStates
<1>. HIDE DEF age
<1>3. ASSUME age < StaleMinutes
      PROVE  Rounded(200 * age, StaleMinutes) \in 0..200
  <2>1. 200 * age \in Nat /\ 200 * age <= 200 * StaleMinutes /\ 200 \in Nat
    BY <1>1, <1>2, <1>3
  <2>. QED BY <1>1, <2>1, RoundedBounded
<1>4. ASSUME age >= StaleMinutes, age < MissingMinutes
      PROVE  Rounded(250 * (age - StaleMinutes), MissingMinutes - StaleMinutes) \in 0..250
  <2>. DEFINE n == 250 * (age - StaleMinutes)
              d == MissingMinutes - StaleMinutes
  <2>1. n \in Nat /\ n <= 250 * d /\ 250 \in Nat /\ d \in Nat \ {0}
    BY <1>1, <1>2, <1>4
  <2>. HIDE DEF n, d
  <2>2. Rounded(n, d) \in 0..250
    BY <2>1, RoundedBounded
  <2>. QED BY <2>2 DEF n, d
<1>5. age < StaleMinutes =>
        /\ Status(s, t) = "HEALTHY"
        /\ Confidence(s, t) = 1000 - Rounded(200 * age, StaleMinutes)
  BY <1>1, <1>2 DEF Status, Confidence, age
<1>6. age >= StaleMinutes /\ age < MissingMinutes =>
        /\ Status(s, t) = "STALE"
        /\ Confidence(s, t)
             = 650 - Rounded(250 * (age - StaleMinutes), MissingMinutes - StaleMinutes)
  BY <1>1, <1>2 DEF Status, Confidence, age
<1>7. age >= MissingMinutes => Status(s, t) = "MISSING" /\ Confidence(s, t) = 200
  BY <1>1, <1>2 DEF Status, Confidence, age
<1>. QED BY <1>2, <1>3, <1>4, <1>5, <1>6, <1>7 DEF age

\* While nothing arrives neither the status of a feed nor its confidence gets
\* better, for every pair of thresholds.
THEOREM WaitingNeverHelpsHolds == Spec => WaitingNeverHelps
<1>1. ASSUME IInv, Tick, NEW f \in FeedKeys, ~feed[f].conflict
      PROVE  /\ Severity[Status(feed[f], now)] <= Severity[Status(feed[f], now')]
             /\ Confidence(feed[f], now') <= Confidence(feed[f], now)
  <2>. DEFINE s == feed[f]
              a == EffectiveAge(s, now)
              b == EffectiveAge(s, now')
  <2>1. s \in FeedStates /\ now \in Nat /\ now' = now + 1 /\ now' \in Nat
    BY <1>1 DEF IInv, TypeOK, Tick
  <2>2. a \in Nat /\ b \in Nat /\ a <= b
    BY <2>1 DEF EffectiveAge, Larger, FeedStates
  <2>3. /\ StaleMinutes \in Nat \ {0} /\ MissingMinutes \in Nat
        /\ MissingMinutes - StaleMinutes \in Nat \ {0}
    BY FeedAssumption DEF FeedAssumption
  <2>4. Severity["HEALTHY"] = 1 /\ Severity["STALE"] = 2 /\ Severity["MISSING"] = 3
    BY DEF Severity
  <2>5. /\ a < StaleMinutes =>
             /\ Status(s, now) = "HEALTHY"
             /\ Confidence(s, now) = 1000 - Rounded(200 * a, StaleMinutes)
             /\ Confidence(s, now) \in 800..1000
        /\ a >= StaleMinutes /\ a < MissingMinutes =>
             /\ Status(s, now) = "STALE"
             /\ Confidence(s, now)
                  = 650 - Rounded(250 * (a - StaleMinutes), MissingMinutes - StaleMinutes)
             /\ Confidence(s, now) \in 400..650
        /\ a >= MissingMinutes => Status(s, now) = "MISSING" /\ Confidence(s, now) = 200
    BY <1>1, <2>1, ConfidenceByAge
  <2>6. /\ b < StaleMinutes =>
             /\ Status(s, now') = "HEALTHY"
             /\ Confidence(s, now') = 1000 - Rounded(200 * b, StaleMinutes)
             /\ Confidence(s, now') \in 800..1000
        /\ b >= StaleMinutes /\ b < MissingMinutes =>
             /\ Status(s, now') = "STALE"
             /\ Confidence(s, now')
                  = 650 - Rounded(250 * (b - StaleMinutes), MissingMinutes - StaleMinutes)
             /\ Confidence(s, now') \in 400..650
        /\ b >= MissingMinutes => Status(s, now') = "MISSING" /\ Confidence(s, now') = 200
    BY <1>1, <2>1, ConfidenceByAge
  <2>. HIDE DEF a, b, s
  <2>7. CASE b < StaleMinutes
    <3>1. 200 * a \in Nat /\ 200 * b \in Nat /\ 200 * a <= 200 * b
      BY <2>2
    <3>2. /\ Rounded(200 * a, StaleMinutes) <= Rounded(200 * b, StaleMinutes)
          /\ Rounded(200 * a, StaleMinutes) \in Nat /\ Rounded(200 * b, StaleMinutes) \in Nat
      BY <2>3, <3>1, RoundedMonotone
    <3>. QED BY <2>2, <2>3, <2>4, <2>5, <2>6, <2>7, <3>2 DEF s
  <2>8. CASE a >= StaleMinutes /\ b < MissingMinutes
    <3>. DEFINE m == 250 * (a - StaleMinutes)
                n == 250 * (b - StaleMinutes)
                d == MissingMinutes - StaleMinutes
    <3>1. m \in Nat /\ n \in Nat /\ m <= n /\ d \in Nat \ {0}
      BY <2>2, <2>3, <2>8
    <3>. HIDE DEF m, n, d
    <3>2. Rounded(m, d) <= Rounded(n, d) /\ Rounded(m, d) \in Nat /\ Rounded(n, d) \in Nat
      BY <3>1, RoundedMonotone
    <3>. QED BY <2>2, <2>3, <2>4, <2>5, <2>6, <2>8, <3>2 DEF s, m, n, d
  <2>9. CASE (a < StaleMinutes /\ b >= StaleMinutes) \/ b >= MissingMinutes
    BY <2>2, <2>3, <2>4, <2>5, <2>6, <2>9 DEF s
  <2>. QED BY <2>2, <2>3, <2>7, <2>8, <2>9
<1>2. IInv /\ [Next]_feedVars =>
        [Tick => \A f \in FeedKeys :
           LET s == feed[f]
           IN  ~s.conflict =>
                 /\ Severity[Status(s, now)] <= Severity[Status(s, now')]
                 /\ Confidence(s, now') <= Confidence(s, now)]_feedVars
  BY <1>1
<1>. QED BY <1>2, InvariantHolds, PTL DEF Spec, WaitingNeverHelps
=============================================================================

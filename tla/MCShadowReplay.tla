---------------------------- MODULE MCShadowReplay ----------------------------
\* Eight generated days.  Two small ones may be exported over each other, broken
\* off and read at any moment; a day without context events and one of a single
\* provider are legal and cannot be loaded; on the others an export, a reading and
\* the replay follow each other, and the engines answer freely.
EXTENDS ShadowReplay

Opening(a, r) == [agent |-> a, resource |-> r]
OpeningsOf(a) == <<Opening(a, "CASH"), Opening(a, "BKASH"), Opening(a, "NAGAD")>>
Txn(n, a, t) == [id |-> n, agent |-> a, provider |-> "BKASH", at |-> t]
\* The ids of transactions and of feed events begin with different letters.
Feed(n, t) == [id |-> n, agent |-> "A1", provider |-> "BKASH", at |-> t]

\* A scenario of agent A1 from time 1 to 2, to be detected from 1 on.
Scenario(label) ==
  [label |-> label, agent |-> "A1", provider |-> "BKASH", start |-> 1, end |-> 2,
   after |-> 1, txns |-> {}]

\* A day of agent A1 with a feed event at 0 and transactions at the given times.
DayOf(times, labels) ==
  [agents |-> <<"A1">>, opening_balances |-> OpeningsOf("A1"),
   transactions |-> [n \in DOMAIN times |-> Txn(n, "A1", times[n])],
   feed_events |-> <<Feed(11, 0)>>, context_events |-> <<"demand">>,
   scenario_labels |-> labels]

Small == DayOf(<<1>>, <<[Scenario("BALANCE_CONFLICT") EXCEPT !.txns = {1}]>>)

\* Another agent, another provider, and ids that are counted from one again.
SmallToo ==
  [agents |-> <<"A1", "A2">>,
   opening_balances |->
     OpeningsOf("A1") \o <<Opening("A1", "ROCKET")>>
       \o OpeningsOf("A2") \o <<Opening("A2", "ROCKET")>>,
   transactions |-> <<Txn(1, "A1", 0), [Txn(2, "A1", 1) EXCEPT !.provider = "ROCKET"]>>,
   feed_events |-> <<Feed(11, 0)>>, context_events |-> <<"demand">>,
   scenario_labels |->
     <<[Scenario("FEED_DELAY_RECOVERY") EXCEPT !.agent = "A2", !.txns = {2}]>>]

MCDay ==
  [small |-> Small, small_too |-> SmallToo,
   no_context |-> [Small EXCEPT !.context_events = <<>>],
   one_provider |-> [Small EXCEPT !.opening_balances = SubSeq(@, 1, 2)],
   five |-> DayOf(<<1>>,
     <<Scenario("HIDDEN_PROVIDER_SHORTAGE"), Scenario("REPEATED_CASH_OUT_CLUSTER"),
       Scenario("CROSS_PROVIDER_LINKED_ACTIVITY"), Scenario("BALANCE_CONFLICT"),
       Scenario("LEGITIMATE_DEMAND_SPIKE")>>),
   unwatched |-> DayOf(<<1>>,
     <<Scenario("HIDDEN_PROVIDER_SHORTAGE"), Scenario("REPEATED_CASH_OUT_CLUSTER"),
       Scenario("CROSS_PROVIDER_LINKED_ACTIVITY")>>),
   feeds |-> DayOf(<<1, 2, 3>>,
     <<Scenario("FEED_DELAY_RECOVERY"), [Scenario("LEGITIMATE_DEMAND_SPIKE") EXCEPT !.end = 1],
       [Scenario("HIDDEN_PROVIDER_SHORTAGE") EXCEPT !.provider = "NONE"]>>),
   linked |-> DayOf(<<1, 2, 3>>,
     <<Scenario("HIDDEN_PROVIDER_SHORTAGE"), Scenario("CROSS_PROVIDER_LINKED_ACTIVITY")>>)]

MCRuns == DOMAIN MCDay
Alone == {"no_context", "one_provider", "five", "unwatched", "feeds", "linked"}

\* A day of Alone is exported once, undisturbed, and then read, for the evaluator.
\* A day is exported over another one.  The replay, which opens no file again, is
\* the last thing to happen, after the exports that fell into the reading.
InTurn ==
  /\ Range(exports') \cap Alone # {} =>
       /\ Len(exports') = 1
       /\ writer' = "idle" => finished' = 1
       /\ reader' # reader => finished = 1 /\ (reader' = "reading" => passed' = 0)
  /\ Len(exports') = 2 => exports'[1] # exports'[2]
  /\ phase # "idle" => UNCHANGED filesVars
  /\ phase' # "idle" => writer = "idle" /\ finished = Len(exports)

MCNext == ShadowNext /\ InTurn

MCSpec == ShadowInit /\ [][MCNext]_shadowVars
=============================================================================

------------------------------- MODULE MCAnomaly -------------------------------
(* One agent: normal traffic first, then a window in which a few accounts   *)
(* repeat an amount at two providers, among customers who come once each,   *)
(* with some failures; then time passes over it.                            *)
EXTENDS Anomaly

CONSTANTS MaxRecent  \* bound on the transactions of the busy window

MCArea == [a \in Agents |-> "MARKET"]

Busy == 3   \* the time of the busy window

MCContexts == {[area |-> "MARKET", start |-> Busy, end |-> Busy],
               [area |-> "STATION", start |-> 0, end |-> MaxTime]}

Kind(account, provider, amount, status) ==
  [account |-> account, provider |-> provider, amount |-> amount, status |-> status]

Normal == Kind("B", "BKASH", 40, "SUCCESS")
Declined == Kind("X2", "NAGAD", 500, "FAILED")
Repeating == {Kind("X1", "BKASH", 100, "SUCCESS"), Kind("X1", "NAGAD", 101, "SUCCESS"),
              Kind("X2", "BKASH", 100, "SUCCESS"), Kind("X2", "NAGAD", 102, "SUCCESS")}

\* The i-th customer who comes once.
Customer(i) == Kind(<<"C1", "C2", "C3", "C4", "C5", "C6", "C7", "C8">>[i],
                    IF i % 2 = 0 THEN "BKASH" ELSE "NAGAD", 100 + 50 * i, "SUCCESS")

MCKinds == {Normal, Declined} \cup Repeating \cup {Customer(i) : i \in 1..8}

Copies(a, k) == CopiesIn(At(k, now), transactions[a])

\* What comes next at a time.
Comes(a, k) ==
  \/ now = 0 /\ k = Normal /\ Copies(a, k) < 5
  \/ /\ now = Busy
     /\ BagCardinality(Select(a, AllProviders, {Busy})) < MaxRecent
     /\ \/ k \in Repeating /\ Copies(a, k) < 3
        \/ k = Declined /\ Copies(a, k) < 3
        \/ \E i \in 1..8 : /\ k = Customer(i) /\ Copies(a, k) = 0
                           /\ i > 1 => Copies(a, Customer(i - 1)) = 1

MCNext ==
  \/ \E a \in Agents, k \in Kinds : Comes(a, k) /\ RecordTransaction(a, k)
  \/ PassTime /\ \A a \in Agents : now = 0 => BagCardinality(transactions[a]) \in {0, 5}
  \/ Initialize

MCSpec == Init /\ [][MCNext]_anomalyVars
=============================================================================

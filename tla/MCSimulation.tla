----------------------------- MODULE MCSimulation -----------------------------
(* A day of three minutes of three seconds, for one agent with little cash   *)
(* and little e-money at two providers; and a given day.                     *)
EXTENDS Simulation

MCAgents == {"A1", "A2"}
MCAccounts == ({"A1"} \X {"BKASH", "NAGAD"}) \cup {<<"A2", "ROCKET">>}
MCOpeningCash == [a \in MCAgents |-> IF a = "A1" THEN 3 ELSE 1]
MCOpeningEmoney == [x \in MCAgents \X ProviderID |-> IF x \in MCAccounts THEN 2 ELSE 0]

Event(n, a, p, type, amount, status, at) ==
  [id |-> n, agent |-> a, provider |-> p, type |-> type, amount |-> amount,
   status |-> status, at |-> at]

\* Two agents, the second without a NAGAD account; one event comes a second
\* time with another amount, and one is for the missing account.
MCGiven == {
  Event(1, "A1", "BKASH", "CASH_IN", 2, "SUCCESS", 1),
  Event(1, "A1", "BKASH", "CASH_IN", 1, "SUCCESS", 4),
  Event(2, "A1", "NAGAD", "CASH_OUT", 3, "SUCCESS", 2),
  Event(3, "A1", "BKASH", "CASH_OUT", 1, "FAILED", 3),
  Event(4, "A2", "ROCKET", "CASH_OUT", 2, "SUCCESS", 3),
  Event(5, "A2", "ROCKET", "CASH_IN", 1, "SUCCESS", 2),
  Event(6, "A2", "NAGAD", "CASH_IN", 1, "SUCCESS", 5),
  Event(7, "A2", "ROCKET", "CASH_IN", 1, "FAILED", 1),
  Event(8, "A1", "NAGAD", "CASH_IN", 4, "SUCCESS", 5)}

Draw(p, type, amount, second, network) ==
  [agent |-> "A1", provider |-> p, type |-> type, amount |-> amount,
   second |-> second, network |-> network]

MCCandidates == {
  Draw("BKASH", "CASH_OUT", 3, 0, FALSE),
  Draw("BKASH", "CASH_IN", 2, 2, TRUE),
  Draw("NAGAD", "CASH_IN", 2, 0, FALSE),
  Draw("NAGAD", "CASH_OUT", 1, 2, FALSE),
  Draw("BKASH", "CASH_IN", 4, 1, TRUE)}

MCTransactions ==
  MCGiven \cup
  {EventOf(c, n, m, s) :
     n \in 1..(Minutes * MaxCandidates), c \in MCCandidates, m \in 0..(Minutes - 1),
     s \in {"SUCCESS", "FAILED"}}

\* Within the day, or up to its end.
MCDelays == {[account |-> <<"A1", "NAGAD">>, start |-> d[1], end |-> d[2]] :
               d \in {<<0, 1>>, <<1, 2>>, <<1, 3>>}}
MCConflicts == {[account |-> <<"A1", "BKASH">>, start |-> 1, offset |-> 5]}
=============================================================================

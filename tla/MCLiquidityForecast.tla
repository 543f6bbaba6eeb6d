-------------------------- MODULE MCLiquidityForecast --------------------------
(* One agent with two providers.  The window and the two thresholds keep the *)
(* proportions 1 : 2 : 4 of the defaults of 30, 60 and 120 minutes.          *)
EXTENDS LiquidityForecast

MCAgents == {"A1"}
MCAccounts == {"A1"} \X {"BKASH", "NAGAD"}
MCOpeningCash == [a \in MCAgents |-> 40]
MCOpeningEmoney == [x \in MCAgents \X ProviderID |->
  IF x = <<"A1", "BKASH">> THEN 20 ELSE IF x = <<"A1", "NAGAD">> THEN 12 ELSE 0]

MCTransactions ==
  LET T(n, p, type, amount, status, at) ==
        [id |-> n, agent |-> "A1", provider |-> p, type |-> type,
         amount |-> amount, status |-> status, at |-> at]
  IN  {T(1, "BKASH", "CASH_IN", 6, "SUCCESS", 1),
       T(2, "NAGAD", "CASH_OUT", 9, "SUCCESS", 1),
       T(3, "BKASH", "CASH_IN", 3, "SUCCESS", 2),
       T(4, "NAGAD", "CASH_IN", 12, "SUCCESS", 2),
       T(5, "BKASH", "CASH_OUT", 2, "FAILED", 2),
       T(6, "NAGAD", "CASH_OUT", 7, "SUCCESS", 3),
       T(7, "BKASH", "CASH_IN", 8, "SUCCESS", 3),
       T(8, "BKASH", "CASH_OUT", 36, "SUCCESS", 4),
       T(8, "NAGAD", "CASH_IN", 1, "SUCCESS", 4)}

View(status, confidence) == [status |-> status, confidence |-> confidence]
MCFeedViews == {View("HEALTHY", 1000), View("STALE", 400), View("MISSING", 200),
                View("CONFLICTING", 300)}
=============================================================================

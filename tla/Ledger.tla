-------------------------------- MODULE Ledger --------------------------------
(***************************************************************************)
(* BalanceEngine of app/ledger/balance_engine.py: per agent one shared     *)
(* cash balance and one e-money balance per provider account, changed by   *)
(* transaction events that are applied at most once each.                  *)
(*                                                                         *)
(* Every method holds the engine's lock.  A call that raises (unknown      *)
(* account, id seen before) changes nothing.  The engine does not look at  *)
(* whether a balance covers a transaction: that is the simulator's part.   *)
(***************************************************************************)
EXTENDS Integers, FiniteSetsExt

CONSTANTS
  Agents,
  Accounts,       \* <<agent, provider>> pairs with an opening balance
  OpeningCash,    \* Agents -> Nat
  OpeningEmoney,  \* Agents \X ProviderID -> Nat, 0 without an account
  Transactions    \* transaction events that may be handed to the engine

ProviderID == {"BKASH", "NAGAD", "ROCKET"}

TransactionEvents ==
  [id : Nat, agent : Agents, provider : ProviderID, amount : Nat,
   type : {"CASH_IN", "CASH_OUT"}, status : {"SUCCESS", "FAILED"}, at : Nat]

ASSUME LedgerAssumption ==
  /\ Accounts \subseteq Agents \X ProviderID
  /\ OpeningCash \in [Agents -> Nat]
  /\ OpeningEmoney \in [Agents \X ProviderID -> Nat]
  /\ \A a \in Agents, p \in ProviderID :
       <<a, p>> \notin Accounts => OpeningEmoney[<<a, p>>] = 0
  /\ Transactions \subseteq TransactionEvents

VARIABLES
  cash,           \* _shared_cash
  emoney,         \* _provider_emoney
  processedIds,   \* _processed_transaction_ids
  processed,      \* _processed_count
  ignored,        \* _ignored_failed_count
  updatedAt,      \* _last_updated_at
  journal         \* history: the events accepted since the last initialize

ledgerVars == <<cash, emoney, processedIds, processed, ignored, updatedAt, journal>>

Opening ==
  /\ cash = OpeningCash
  /\ emoney = OpeningEmoney
  /\ processedIds = {}
  /\ processed = [a \in Agents |-> 0]
  /\ ignored = [a \in Agents |-> 0]
  /\ updatedAt = [a \in Agents |-> 0]
  /\ journal = {}

\* A mutant of KnownId.
KnownIdNever(t) == FALSE

\* _calculate_transaction_deltas: the e-money moves by the opposite amount.
CashDelta(t) == IF t.type = "CASH_IN" THEN t.amount ELSE -t.amount

KnownId(t) == t.id \in processedIds

Later(x, y) == IF y > x THEN y ELSE x

Accept(t) ==
  /\ <<t.agent, t.provider>> \in Accounts
  /\ ~KnownId(t)
  /\ processedIds' = processedIds \cup {t.id}
  /\ updatedAt' = [updatedAt EXCEPT ![t.agent] = Later(@, t.at)]
  /\ journal' = journal \cup {t}

\* A mutant of IgnoreFailed: the failed attempt is counted as a processed one.
IgnoreMiscounted(t) ==
  /\ Accept(t)
  /\ t.status = "FAILED"
  /\ processed' = [processed EXCEPT ![t.agent] = @ + 1]
  /\ UNCHANGED <<cash, emoney, ignored>>

\* A failed transaction only leaves its id and its time.
IgnoreFailed(t) ==
  /\ Accept(t)
  /\ t.status = "FAILED"
  /\ ignored' = [ignored EXCEPT ![t.agent] = @ + 1]
  /\ UNCHANGED <<cash, emoney, processed>>

\* A mutant of ApplySuccessful: both balances move the same way.
ApplySameSign(t) ==
  /\ Accept(t)
  /\ t.status = "SUCCESS"
  /\ cash' = [cash EXCEPT ![t.agent] = @ + CashDelta(t)]
  /\ emoney' = [emoney EXCEPT ![<<t.agent, t.provider>>] = @ + CashDelta(t)]
  /\ processed' = [processed EXCEPT ![t.agent] = @ + 1]
  /\ UNCHANGED ignored

ApplySuccessful(t) ==
  /\ Accept(t)
  /\ t.status = "SUCCESS"
  /\ cash' = [cash EXCEPT ![t.agent] = @ + CashDelta(t)]
  /\ emoney' = [emoney EXCEPT ![<<t.agent, t.provider>>] = @ - CashDelta(t)]
  /\ processed' = [processed EXCEPT ![t.agent] = @ + 1]
  /\ UNCHANGED ignored

ApplyTransaction(t) == IgnoreFailed(t) \/ ApplySuccessful(t)

\* initialize with the opening balances of the run, as a replay reset does.
Initialize ==
  /\ cash' = OpeningCash
  /\ emoney' = OpeningEmoney
  /\ processedIds' = {}
  /\ processed' = [a \in Agents |-> 0]
  /\ ignored' = [a \in Agents |-> 0]
  /\ updatedAt' = [a \in Agents |-> 0]
  /\ journal' = {}

Next ==
  \/ \E t \in Transactions : ApplyTransaction(t)
  \/ Initialize

Spec == Opening /\ [][Next]_ledgerVars

-----------------------------------------------------------------------------
(* Properties.                                                             *)

TypeOK ==
  /\ cash \in [Agents -> Int]
  /\ emoney \in [Agents \X ProviderID -> Int]
  /\ processedIds \subseteq Nat
  /\ processed \in [Agents -> Nat]
  /\ ignored \in [Agents -> Nat]
  /\ updatedAt \in [Agents -> Nat]
  /\ journal \subseteq Transactions

\* total_operational_value of an agent: cash and e-money together.
Value(c, e, a) ==
  c[a] + e[<<a, "BKASH">>] + e[<<a, "NAGAD">>] + e[<<a, "ROCKET">>]

\* Cash-in and cash-out only exchange cash for e-money of the same agent: the
\* total value of every agent stays what it was when the run opened.
ValueConserved ==
  \A a \in Agents : Value(cash, emoney, a) = Value(OpeningCash, OpeningEmoney, a)

\* No transaction id takes effect twice, however often its event is handed in
\* and whatever else the repeated event says.
ExactlyOnce ==
  /\ processedIds = {t.id : t \in journal}
  /\ \A t, u \in journal : t.id = u.id => t = u

\* The counts, times and balances of an agent are a function of the set of
\* events accepted, not of the order they arrived in.
OrderIrrelevant ==
  \A a \in Agents :
    LET mine == {t \in journal : t.agent = a}
        done == {t \in mine : t.status = "SUCCESS"}
    IN  /\ processed[a] = Cardinality(done)
        /\ ignored[a] = Cardinality(mine \ done)
        /\ updatedAt[a] = Max({0} \cup {t.at : t \in mine})
        /\ cash[a] = OpeningCash[a] + MapThenSumSet(CashDelta, done)
        /\ \A p \in ProviderID :
             emoney[<<a, p>>] = OpeningEmoney[<<a, p>>]
               - MapThenSumSet(CashDelta, {t \in done : t.provider = p})
=============================================================================

------------------------------- MODULE MCReplay -------------------------------
(* A day of seven events, with events of both kinds at the same time and an  *)
(* hour without any; in one of the datasets a feed event, in another a        *)
(* transaction has no account.                                               *)
EXTENDS Replay

MCEvents ==
  LET txn(t) == [kind |-> "TRANSACTION", at |-> t]
      feed(t) == [kind |-> "FEED_EVENT", at |-> t]
  IN  <<txn(1), feed(1), txn(1), feed(2), txn(4), txn(5), feed(5)>>
MCDatasets == {{}, {4}, {5}}
=============================================================================

----------------------------- MODULE MCFeedHealth -----------------------------
(* One feed; the thresholds keep the 1 : 2 proportion of the defaults of 15  *)
(* and 30 minutes.  A delay below, between and above them.                   *)
EXTENDS FeedHealth

MCDelays == {1, 4, 6}
=============================================================================

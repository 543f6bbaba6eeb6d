------------------------------- MODULE ReplayView -------------------------------
(***************************************************************************)
(* What a client of the replay sees in get_state: every call of the        *)
(* controller happens at once.  A call that meets an event of an unknown   *)
(* provider account raises: the events before it stay processed, and the   *)
(* status stays at RUNNING.                                                *)
(***************************************************************************)
EXTENDS Naturals, FiniteSetsExt

CONSTANTS
  Events,       \* the stream, in the order it is replayed
  Datasets,     \* sets of events whose account has no opening balance
  Start         \* _simulation_start

VARIABLES
  view,
  unaccounted  \* events of the loaded data without an account

Last == Cardinality(DOMAIN Events)
End == Events[Last].at

Feeds(K) == Cardinality({k \in K : Events[k].kind = "FEED_EVENT"})

Opened == [index |-> 0, time |-> Start, status |-> "READY", feeds |-> 0]

\* The loop took the events up to n, or broke off at the first of them that
\* raises; time is the clock after event k of a loop that broke off.
Ran(n, clock, time) ==
  LET bad == unaccounted \cap (view.index + 1 .. n)
  IN  IF bad = {}
      THEN [index |-> n, time |-> clock,
            status |-> IF n = Last THEN "COMPLETED" ELSE "PAUSED",
            feeds |-> view.feeds + Feeds(view.index + 1 .. n)]
      ELSE [index |-> Min(bad) - 1, time |-> time[Min(bad) - 1],
            status |-> "RUNNING",
            feeds |-> view.feeds + Feeds(view.index + 1 .. Min(bad))]

Step(n) ==
  /\ view.index < Last
  /\ LET to == Min({view.index + n, Last})
         timeAt == [k \in view.index..to |->
                      IF k = view.index THEN view.time ELSE Events[k].at]
     IN  view' = Ran(to, Events[to].at, timeAt)

Advance(m) ==
  /\ view.index < Last
  /\ LET target == Min({view.time + m, End})
         to == Max({view.index} \cup {k \in DOMAIN Events : Events[k].at <= target})
     IN  view' = Ran(to, target, [k \in view.index..to |-> view.time])

Reset == view' = Opened

Init == view = Opened /\ unaccounted \in Datasets

\* More events than are left, or more minutes, are as good as all of them.
Next ==
  /\ (\E n \in 1..(Last + End) : Step(n) \/ Advance(n)) \/ Reset
  /\ UNCHANGED unaccounted

Spec == Init /\ [][Next]_<<view, unaccounted>>
=============================================================================

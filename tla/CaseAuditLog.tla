----------------------------- MODULE CaseAuditLog -----------------------------
(***************************************************************************)
(* What the coordination service promises an auditor: one log for all      *)
(* cases, which grows by one entry at a time; an entry continues its case  *)
(* from the status the case is in; people move cases along the workflow,   *)
(* the replay opens them and records changes of their incident, and moves  *)
(* none of them; a closed case gets no more work.                          *)
(***************************************************************************)
EXTENDS Naturals, Sequences

CONSTANTS Incidents, Actors, Nobody

VARIABLE log

Live == {"OPEN", "ACKNOWLEDGED", "ASSIGNED", "IN_REVIEW", "ESCALATED",
         "RESOLVED"}

\* The moves each action makes: pairs of the status left and the one entered.
PeopleMoves ==
  [ACKNOWLEDGED   |-> {"OPEN"} \X {"ACKNOWLEDGED"},
   ASSIGNED       |-> {"ACKNOWLEDGED", "ASSIGNED", "ESCALATED"} \X {"ASSIGNED"},
   REVIEW_STARTED |-> {"ASSIGNED", "ESCALATED"} \X {"IN_REVIEW"},
   NOTE_ADDED     |-> {<<s, s>> : s \in Live},
   ESCALATED      |-> {"ACKNOWLEDGED", "ASSIGNED", "IN_REVIEW"} \X {"ESCALATED"},
   RESOLVED       |-> {"ASSIGNED", "IN_REVIEW", "ESCALATED"} \X {"RESOLVED"},
   CLOSED         |-> {"RESOLVED"} \X {"CLOSED"}]

ReplayMoves ==
  [CASE_CREATED    |-> {<<"NONE", "OPEN">>},
   INCIDENT_SYNCED |-> {<<s, s>> : s \in Live \cup {"CLOSED"}}]

\* The status the log leaves a case in.
StatusOf(i) ==
  LET K == {k \in DOMAIN log : log[k].case = i}
  IN  IF K = {} THEN "NONE"
      ELSE log[CHOOSE k \in K : \A m \in K : m <= k].to

Record(i, action, actor, move) ==
  /\ move[1] = StatusOf(i)
  /\ log' = Append(log, [case |-> i, action |-> action, actor |-> actor,
                         from |-> move[1], to |-> move[2]])

Clear == log' = <<>>

Init == log = <<>>

Next ==
  \/ \E i \in Incidents :
       \/ \E action \in DOMAIN PeopleMoves, a \in Actors :
            \E move \in PeopleMoves[action] : Record(i, action, a, move)
       \/ \E action \in DOMAIN ReplayMoves :
            \E move \in ReplayMoves[action] : Record(i, action, Nobody, move)
  \/ Clear

Spec == Init /\ [][Next]_log
=============================================================================

------------------------------- MODULE CaseApi -------------------------------
(***************************************************************************)
(* The case endpoints of app/api/v1/cases.py and the replay controller at  *)
(* work on one coordination service.                                       *)
(*                                                                         *)
(* An endpoint runs in a worker thread.  It first asks the controller for  *)
(* the simulation time (get_state, under the controller's lock) and then   *)
(* calls the service with it (under the service's lock): two steps, with   *)
(* anything before, between and after them.  The controller holds its own  *)
(* lock through a batch and through a reset.  In a batch it hands the      *)
(* incidents to the service, which takes its lock once per incident; in a  *)
(* reset fusion forgets its incidents, then the service its cases, then    *)
(* the clock goes back.                                                    *)
(***************************************************************************)
EXTENDS CaseCoordination

CONSTANTS
  Workers,      \* threads serving case requests
  Idle,         \* no request
  Unread,       \* the time of a request that still waits for the controller
  MaxTime,      \* bound on the simulation time
  MaxRequests   \* bound on the requests served

ASSUME ApiAssumption ==
  /\ MaxTime \in Nat
  /\ 0..MaxTime \subseteq Times
  /\ MaxRequests \in Nat
  /\ Unread \notin Nat
  /\ Idle \notin [op : DOMAIN AllowedFrom, case : Incidents, actor : Actors,
                  arg : Actors \cup Roles \cup Visibilities \cup {Nobody},
                  at : Nat \cup {Unread}]

VARIABLES
  now,        \* the controller's _simulation_time
  phase,      \* who holds the controller's lock: "free", "batch", or a reset
              \* that comes to the cases ("forgetting"), to the clock ("reset")
  incidents,  \* fusion's incidents: the snapshot of each one raised so far
  todo,       \* incidents of the batch still to be handed to the service
  pending,    \* per worker, the request it serves
  served,     \* requests received so far
  answered    \* <<incident, audit number>> of each call that returned a case

apiVars == <<cases, auditCounter, noteCounter, now, phase, incidents, todo,
             pending, served, answered>>

Known == {i \in Incidents : incidents[i] # Nobody}

ApiInit ==
  /\ Init
  /\ now = 0
  /\ phase = "free"
  /\ incidents = [i \in Incidents |-> Nobody]
  /\ todo = {}
  /\ pending = [w \in Workers |-> Idle]
  /\ served = 0
  /\ answered = {}

-----------------------------------------------------------------------------
(* The controller.                                                         *)

\* Bounds the batches so that MaxAudit never stops a request.
RoomForBatch ==
  auditCounter + Cardinality(Incidents) + (MaxRequests - served)
    + Cardinality({w \in Workers : pending[w] # Idle}) <= MaxAudit

\* step or advance: events are processed, the time moves on, fusion is
\* refreshed; an incident once raised is never forgotten.
Batch(t) ==
  /\ phase = "free"
  /\ t \in now..MaxTime
  /\ RoomForBatch
  /\ now' = t
  /\ phase' = "batch"
  /\ incidents' \in {f \in [Incidents -> Snapshots \cup {Nobody}] :
       /\ \A i \in Known : f[i] # Nobody
       /\ \A i \in Incidents \ Known :
            f[i] = Nobody \/ f[i].status = "ACTIVE"}
  /\ todo' = {i \in Incidents : incidents'[i] # Nobody}
  /\ UNCHANGED <<caseVars, pending, served, answered>>

\* One turn of the loop in sync_incidents; an unchanged incident leaves its
\* case alone, one that cleared before it had a case gets none.
SyncOne(i) ==
  /\ phase = "batch"
  /\ i \in todo
  /\ todo' = todo \ {i}
  /\ \/ SyncIncident(i, incidents[i], now)
     \/ /\ IF HasCase(i) THEN ~Differs(cases[i], incidents[i])
                         ELSE incidents[i].status # "ACTIVE"
        /\ UNCHANGED caseVars
  /\ UNCHANGED <<now, phase, incidents, pending, served, answered>>

EndBatch ==
  /\ phase = "batch"
  /\ todo = {}
  /\ phase' = "free"
  /\ UNCHANGED <<caseVars, now, incidents, todo, pending, served, answered>>

\* A mutant of BeginReset: the controller's lock is not taken.
BeginResetUnlocked ==
  /\ phase' = "forgetting"
  /\ incidents' = [i \in Incidents |-> Nobody]
  /\ UNCHANGED <<caseVars, now, todo, pending, served, answered>>

\* reset: fusion forgets its incidents ...
BeginReset ==
  /\ phase = "free"
  /\ phase' = "forgetting"
  /\ incidents' = [i \in Incidents |-> Nobody]
  /\ UNCHANGED <<caseVars, now, todo, pending, served, answered>>

\* ... then the service its cases, under its own lock ...
ResetCases ==
  /\ phase = "forgetting"
  /\ phase' = "reset"
  /\ Reset
  /\ answered' = {}
  /\ UNCHANGED <<now, incidents, todo, pending, served>>

\* ... and only then does the clock go back.
EndReset ==
  /\ phase = "reset"
  /\ phase' = "free"
  /\ now' = 0
  /\ UNCHANGED <<caseVars, incidents, todo, pending, served, answered>>

-----------------------------------------------------------------------------
(* The workers.                                                            *)

\* What a request of each kind carries besides its case and its actor: the
\* owner to assign, the visibility of the note, the role to escalate to.
Arguments(op) ==
  CASE op = "ASSIGNED"   -> Actors
    [] op = "NOTE_ADDED" -> Visibilities
    [] op = "ESCALATED"  -> Roles
    [] OTHER             -> {Nobody}

\* A request may arrive at any moment, also during a batch or a reset.
Receive(w, op, i, a) ==
  /\ pending[w] = Idle
  /\ served < MaxRequests
  /\ served' = served + 1
  /\ \E x \in Arguments(op) :
       pending' = [pending EXCEPT ![w] = [op |-> op, case |-> i, actor |-> a,
                                          arg |-> x, at |-> Unread]]
  /\ UNCHANGED <<caseVars, now, phase, incidents, todo, answered>>

\* replay.get_state().simulation_time waits for the controller's lock.
ReadTime(w) ==
  /\ pending[w] # Idle
  /\ pending[w].at = Unread
  /\ phase = "free"
  /\ pending' = [pending EXCEPT ![w].at = now]
  /\ UNCHANGED <<caseVars, now, phase, incidents, todo, served, answered>>

\* The worker has the time and is about to call the service.
Timed(w) == pending[w] # Idle /\ pending[w].at # Unread

Call(r) ==
  \/ r.op = "ACKNOWLEDGED" /\ Acknowledge(r.case, r.actor, r.at)
  \/ r.op = "ASSIGNED" /\ Assign(r.case, r.actor, r.arg, r.at)
  \/ r.op = "REVIEW_STARTED" /\ StartReview(r.case, r.actor, r.at)
  \/ r.op = "NOTE_ADDED" /\ AddNote(r.case, r.actor, r.arg, r.at)
  \/ r.op = "ESCALATED" /\ Escalate(r.case, r.actor, r.arg, r.at)
  \/ r.op = "RESOLVED" /\ Resolve(r.case, r.actor, r.at)
  \/ r.op = "CLOSED" /\ Close(r.case, r.actor, r.at)

\* What the service raises for.
Refused(r) ==
  \/ ~MayAct(r.case, r.actor, r.op)
  \/ r.op = "ASSIGNED" /\ ~InScope(r.case, r.arg)
  \/ r.op = "NOTE_ADDED" /\ r.arg = "PROVIDER_SCOPED" /\ ProviderOf[r.actor] = NoProvider
  \/ r.op = "ESCALATED" /\ r.arg = AgentRole

\* The service accepts the call, the worker returns the case.
Execute(w) ==
  /\ Timed(w)
  /\ Call(pending[w])
  /\ answered' = answered \cup {<<pending[w].case, auditCounter'>>}
  /\ pending' = [pending EXCEPT ![w] = Idle]
  /\ UNCHANGED <<now, phase, incidents, todo, served>>

\* A mutant of Refuse: only a missing case is translated to an answer.
RefuseMissing(w) ==
  /\ Timed(w)
  /\ ~HasCase(pending[w].case)
  /\ pending' = [pending EXCEPT ![w] = Idle]
  /\ UNCHANGED <<caseVars, now, phase, incidents, todo, served, answered>>

\* The service raises, raise_case_http_error answers 400, 403, 404 or 409.
Refuse(w) ==
  /\ Timed(w)
  /\ Refused(pending[w])
  /\ pending' = [pending EXCEPT ![w] = Idle]
  /\ UNCHANGED <<caseVars, now, phase, incidents, todo, served, answered>>

ApiNext ==
  \/ \E t \in 0..MaxTime : Batch(t)
  \/ \E i \in Incidents : SyncOne(i)
  \/ EndBatch
  \/ BeginReset
  \/ ResetCases
  \/ EndReset
  \/ \E w \in Workers :
       \/ \E op \in DOMAIN AllowedFrom, i \in Incidents, a \in Actors :
            Receive(w, op, i, a)
       \/ ReadTime(w)
       \/ Execute(w)
       \/ Refuse(w)

\* A thread that holds a lock runs on.  One that waits for the controller's
\* lock gets it in the end even if batches and resets take it again and again:
\* each of them is a request of its own, which gives the lock up when it ends.
\* Nobody need ever send a request or move the replay.
ApiFairness ==
  /\ WF_apiVars(EndBatch)
  /\ WF_apiVars(ResetCases)
  /\ WF_apiVars(EndReset)
  /\ \A i \in Incidents : WF_apiVars(SyncOne(i))
  /\ \A w \in Workers : SF_apiVars(ReadTime(w))
  /\ \A w \in Workers : WF_apiVars(Execute(w) \/ Refuse(w))

ApiSpec == ApiInit /\ [][ApiNext]_apiVars /\ ApiFairness

-----------------------------------------------------------------------------
(* Properties.                                                             *)

\* The cases mirror the incidents, but for those a running batch has still to
\* hand over and for the moment of a reset between fusion's and the service's:
\* every active incident has a case, and every case shows an incident fusion
\* knows as fusion has it, whatever people did to the cases meanwhile, in that
\* moment too, and however often the replay was reset.
CasesMirrorIncidents ==
  /\ todo \subseteq Known
  /\ phase # "forgetting" =>
       \A i \in Incidents \ todo :
         /\ HasCase(i) => i \in Known /\ cases[i].source = incidents[i]
         /\ i \in Known /\ incidents[i].status = "ACTIVE" => HasCase(i)

\* A call the API answered with success is in the case's audit trail until the
\* next reset: no other worker and no batch overwrites it.
NoLostUpdate == \A r \in answered : r[2] \in AuditIds(r[1])

\* README.md promises "consistent audit timelines": the entries of a case are
\* in the order of their times.  A request that read the time before a batch
\* and reaches the service after it writes an older time after a newer one.
AuditTimeline ==
  \A i \in Incidents : \A k, m \in DOMAIN cases[i].history :
    k < m => cases[i].history[k].at <= cases[i].history[m].at

\* Every request is answered: it may arrive in the middle of a batch or a reset
\* and wait for the controller's lock, and when it comes to the service, its case
\* may have moved on or be gone, which is answered as well.
RequestsAnswered ==
  \A w \in Workers : pending[w] # Idle ~> pending[w] = Idle
=============================================================================

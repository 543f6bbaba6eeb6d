--------------------------- MODULE CaseCoordination ---------------------------
(***************************************************************************)
(* The coordination cases of app/cases/service.py: one case per incident,  *)
(* moved through its workflow by people, refreshed from the incident by    *)
(* the replay, with an audit trail numbered by one counter for all cases.  *)
(*                                                                         *)
(* Every public method runs under the service's RLock, so each is one      *)
(* action; a method that raises changes nothing and is a disabled action.  *)
(* The case id is a digest of the incident id, so a case is named by its   *)
(* incident.  The provider scope is part of the key an incident id is      *)
(* digested from (fusion._candidate_key): it is a constant of the incident.*)
(***************************************************************************)
EXTENDS Naturals, Sequences, FiniteSets

CONSTANTS
  Incidents,    \* incident ids
  Actors,       \* principals (CasePrincipal)
  Providers,
  NoProvider,   \* provider_id = None
  ProviderOf,   \* Actors -> Providers or NoProvider
  ScopeOf,      \* Incidents -> set of providers, {} when shared
  Roles,        \* routing roles
  AgentRole,    \* RoutingRole.AGENT
  Advice,       \* priority and recommended_next_step of an incident
  Times,        \* timezone-aware timestamps
  Nobody,       \* Python's None
  MaxAudit      \* bound on _audit_counter

ASSUME CaseAssumption ==
  /\ ProviderOf \in [Actors -> Providers \cup {NoProvider}]
  /\ ScopeOf \in [Incidents -> SUBSET Providers]
  /\ NoProvider \notin Providers
  /\ Nobody \notin Actors \cup Roles
  /\ Times \subseteq Nat
  /\ MaxAudit \in Nat

VARIABLES
  cases,         \* _cases, indexed by incident
  auditCounter,  \* _audit_counter
  noteCounter    \* _note_counter

caseVars == <<cases, auditCounter, noteCounter>>

Statuses == {"OPEN", "ACKNOWLEDGED", "ASSIGNED", "IN_REVIEW", "ESCALATED",
             "RESOLVED", "CLOSED"}
\* CROSS_PROVIDER_REDACTED is treated by the service as INTERNAL is.
Visibilities == {"INTERNAL", "PROVIDER_SCOPED"}
ActionTypes == {"CASE_CREATED", "INCIDENT_SYNCED", "ACKNOWLEDGED", "ASSIGNED",
                "REVIEW_STARTED", "NOTE_ADDED", "ESCALATED", "RESOLVED",
                "CLOSED"}

\* What a case copies from its incident.
Snapshots == [status : {"ACTIVE", "CLEARED"}, advice : Advice, strong : BOOLEAN]

\* One CaseAuditEntry; detail is the owner, note number or target role.
Entries == [id : Nat, action : ActionTypes, actor : Actors \cup {Nobody},
            from : Statuses \cup {"NONE"}, to : Statuses,
            detail : Actors \cup Roles \cup Nat \cup {Nobody}, at : Nat]

Notes == [id : Nat, author : Actors, visibility : Visibilities, at : Nat]

Cases == [status : Statuses \cup {"NONE"}, source : Snapshots \cup {Nobody},
          owner : Actors \cup {Nobody}, ackBy : Actors \cup {Nobody},
          target : Roles \cup {Nobody}, resolvedBy : Actors \cup {Nobody},
          notes : Seq(Notes), history : Seq(Entries), updated : Nat]

\* An incident without a case.
NoCase == [status |-> "NONE", source |-> Nobody, owner |-> Nobody,
           ackBy |-> Nobody, target |-> Nobody, resolvedBy |-> Nobody,
           notes |-> <<>>, history |-> <<>>, updated |-> 0]

HasCase(i) == cases[i].status # "NONE"

-----------------------------------------------------------------------------
(* Guards and effects the handlers share.                                  *)

\* Mutants of InScope and Numbered.
ScopeIgnored(i, a) == TRUE
NotNumbered == UNCHANGED auditCounter

\* _validate_actor_scope: a case without a provider scope, or an actor
\* without a provider, is never refused.
InScope(i, a) == \/ ScopeOf[i] = {}
                 \/ ProviderOf[a] \in ScopeOf[i] \cup {NoProvider}

\* _new_audit takes the next number of the shared counter.
Numbered == auditCounter' = auditCounter + 1

Audit(i, action, actor, to, detail, at) ==
  [id |-> auditCounter + 1, action |-> action, actor |-> actor,
   from |-> cases[i].status, to |-> to, detail |-> detail, at |-> at]

\* Mutants of Audited.
AuditedForgetful(c, e) ==
  [c EXCEPT !.status = e.to, !.updated = e.at, !.history = <<e>>]
AuditedUnmoved(c, e) ==
  [c EXCEPT !.updated = e.at, !.history = Append(@, e)]

\* model_copy(update = status, updated_at, history + [audit]).
Audited(c, e) ==
  [c EXCEPT !.status = e.to, !.updated = e.at, !.history = Append(@, e)]

Store(i, c) ==
  /\ auditCounter < MaxAudit
  /\ cases' = [cases EXCEPT ![i] = c]
  /\ Numbered

\* The statuses each operation of a person starts from.
AllowedFrom ==
  [ACKNOWLEDGED   |-> {"OPEN"},
   ASSIGNED       |-> {"ACKNOWLEDGED", "ASSIGNED", "ESCALATED"},
   REVIEW_STARTED |-> {"ASSIGNED", "ESCALATED"},
   NOTE_ADDED     |-> Statuses \ {"CLOSED"},
   ESCALATED      |-> {"ACKNOWLEDGED", "ASSIGNED", "IN_REVIEW"},
   RESOLVED       |-> {"ASSIGNED", "IN_REVIEW", "ESCALATED"},
   CLOSED         |-> {"RESOLVED"}]

MayAct(i, a, action) == /\ HasCase(i)
                        /\ InScope(i, a)
                        /\ cases[i].status \in AllowedFrom[action]

Moved(i, action, actor, to, detail, at) ==
  Audited(cases[i], Audit(i, action, actor, to, detail, at))

-----------------------------------------------------------------------------
(* The replay's side: sync_incidents, per incident.                        *)

\* A mutant of Differs.
DiffersInStatus(c, s) == s.status # c.source.status

\* The snapshot is compared field by field: status, priority, scope, next
\* step, fallback.
Differs(c, s) == s # c.source

CreateCase(i, s, at) ==
  /\ ~HasCase(i)
  /\ s.status = "ACTIVE"
  /\ Store(i, [Audited(NoCase, Audit(i, "CASE_CREATED", Nobody, "OPEN",
                                     Nobody, at)) EXCEPT !.source = s])
  /\ UNCHANGED noteCounter

\* A mutant of SyncExisting: a cleared incident resolves its case.
SyncAutoResolves(i, s, at) ==
  /\ HasCase(i)
  /\ Differs(cases[i], s)
  /\ Store(i, [Moved(i, "INCIDENT_SYNCED", Nobody,
                     IF s.status = "CLEARED" THEN "RESOLVED"
                                             ELSE cases[i].status,
                     Nobody, at) EXCEPT !.source = s])
  /\ UNCHANGED noteCounter

\* The workflow status, the owner, the notes and the history stay.
SyncExisting(i, s, at) ==
  /\ HasCase(i)
  /\ Differs(cases[i], s)
  /\ Store(i, [Moved(i, "INCIDENT_SYNCED", Nobody, cases[i].status, Nobody, at)
                 EXCEPT !.source = s])
  /\ UNCHANGED noteCounter

SyncIncident(i, s, at) == CreateCase(i, s, at) \/ SyncExisting(i, s, at)

-----------------------------------------------------------------------------
(* People's side.                                                          *)

Acknowledge(i, a, at) ==
  /\ MayAct(i, a, "ACKNOWLEDGED")
  /\ Store(i, [Moved(i, "ACKNOWLEDGED", a, "ACKNOWLEDGED", Nobody, at)
                 EXCEPT !.ackBy = a])
  /\ UNCHANGED noteCounter

\* A mutant of Assign: the new owner's provider is not looked at.
AssignAnyOwner(i, a, owner, at) ==
  /\ MayAct(i, a, "ASSIGNED")
  /\ Store(i, [Moved(i, "ASSIGNED", a, "ASSIGNED", owner, at)
                 EXCEPT !.owner = owner])
  /\ UNCHANGED noteCounter

Assign(i, a, owner, at) ==
  /\ MayAct(i, a, "ASSIGNED")
  /\ InScope(i, owner)
  /\ Store(i, [Moved(i, "ASSIGNED", a, "ASSIGNED", owner, at)
                 EXCEPT !.owner = owner])
  /\ UNCHANGED noteCounter

StartReview(i, a, at) ==
  /\ MayAct(i, a, "REVIEW_STARTED")
  /\ Store(i, Moved(i, "REVIEW_STARTED", a, "IN_REVIEW", Nobody, at))
  /\ UNCHANGED noteCounter

AddNote(i, a, visibility, at) ==
  /\ MayAct(i, a, "NOTE_ADDED")
  /\ visibility = "PROVIDER_SCOPED" => ProviderOf[a] # NoProvider
  /\ Store(i, [Moved(i, "NOTE_ADDED", a, cases[i].status, noteCounter + 1, at)
                 EXCEPT !.notes = Append(@, [id |-> noteCounter + 1, author |-> a,
                                    visibility |-> visibility, at |-> at])])
  /\ noteCounter' = noteCounter + 1

Escalate(i, a, role, at) ==
  /\ role # AgentRole
  /\ MayAct(i, a, "ESCALATED")
  /\ Store(i, [Moved(i, "ESCALATED", a, "ESCALATED", role, at)
                 EXCEPT !.target = role])
  /\ UNCHANGED noteCounter

Resolve(i, a, at) ==
  /\ MayAct(i, a, "RESOLVED")
  /\ Store(i, [Moved(i, "RESOLVED", a, "RESOLVED", Nobody, at)
                 EXCEPT !.resolvedBy = a])
  /\ UNCHANGED noteCounter

Close(i, a, at) ==
  /\ MayAct(i, a, "CLOSED")
  /\ Store(i, Moved(i, "CLOSED", a, "CLOSED", Nobody, at))
  /\ UNCHANGED noteCounter

\* A mutant of Reset: the counters survive.
ResetKeepsCounters ==
  /\ cases' = [i \in Incidents |-> NoCase]
  /\ UNCHANGED <<auditCounter, noteCounter>>

\* reset, called when the replay starts again.
Reset ==
  /\ cases' = [i \in Incidents |-> NoCase]
  /\ auditCounter' = 0
  /\ noteCounter' = 0

PersonActs(i, a, at) ==
  \/ Acknowledge(i, a, at)
  \/ \E owner \in Actors : Assign(i, a, owner, at)
  \/ StartReview(i, a, at)
  \/ \E v \in Visibilities : AddNote(i, a, v, at)
  \/ \E role \in Roles : Escalate(i, a, role, at)
  \/ Resolve(i, a, at)
  \/ Close(i, a, at)

Init ==
  /\ cases = [i \in Incidents |-> NoCase]
  /\ auditCounter = 0
  /\ noteCounter = 0

Next ==
  \/ \E i \in Incidents, at \in Times :
       \/ \E s \in Snapshots : SyncIncident(i, s, at)
       \/ \E a \in Actors : PersonActs(i, a, at)
  \/ Reset

Spec == Init /\ [][Next]_caseVars

-----------------------------------------------------------------------------
(* Properties.                                                             *)

TypeOK ==
  /\ cases \in [Incidents -> Cases]
  /\ auditCounter \in Nat
  /\ noteCounter \in Nat

\* The history of a case tells its whole life: it starts with the creation,
\* every entry takes up the status the one before it left, and the last one
\* leaves the status the case has now.
HistoryChained ==
  \A i \in Incidents :
    LET h == cases[i].history
    IN  /\ HasCase(i) <=> h # <<>>
        /\ \A k \in DOMAIN h :
             /\ h[k].from = IF k = 1 THEN "NONE" ELSE h[k - 1].to
             /\ (h[k].action = "CASE_CREATED") <=> (k = 1)
        /\ HasCase(i) => cases[i].status = h[Len(h)].to

AuditIds(i) == {cases[i].history[k].id : k \in DOMAIN cases[i].history}

\* One counter numbers the audit entries of all cases: no number is given
\* twice, none is lost by a refused call, and a case's numbers rise.
AuditNumbering ==
  /\ \A i \in Incidents : \A k, m \in DOMAIN cases[i].history :
       k < m => cases[i].history[k].id < cases[i].history[m].id
  /\ \A i, j \in Incidents : i # j => AuditIds(i) \cap AuditIds(j) = {}
  /\ UNION {AuditIds(i) : i \in Incidents} = 1..auditCounter

\* v is what the last entry of h with this action says in field f, or
\* nothing when there is no such entry.
LastSays(h, action, f, v) ==
  LET K == {k \in DOMAIN h : h[k].action = action}
  IN  IF K = {} THEN v = Nobody
      ELSE \E k \in K : h[k][f] = v /\ \A m \in K : m <= k

\* The current owner, acknowledger, escalation target, resolver and update
\* time of a case are those its audit trail gives: no handler changes the
\* case without leaving the trail that explains it.
FieldsFollowHistory ==
  \A i \in Incidents :
    LET c == cases[i]
    IN  HasCase(i) =>
          /\ LastSays(c.history, "ASSIGNED", "detail", c.owner)
          /\ LastSays(c.history, "ACKNOWLEDGED", "actor", c.ackBy)
          /\ LastSays(c.history, "ESCALATED", "detail", c.target)
          /\ LastSays(c.history, "RESOLVED", "actor", c.resolvedBy)
          /\ c.updated = c.history[Len(c.history)].at

\* Nobody of a provider outside a case's scope ever acted on it, wrote a note
\* to it, or was made its owner, at any time in its history.
ProviderBoundary ==
  \A i \in Incidents :
    /\ cases[i].owner = Nobody \/ InScope(i, cases[i].owner)
    /\ \A k \in DOMAIN cases[i].history :
         LET e == cases[i].history[k]
         IN  /\ e.actor = Nobody \/ InScope(i, e.actor)
             /\ e.action = "ASSIGNED" => InScope(i, e.detail)

\* The replay alone never moves a case through its workflow: a cleared
\* incident does not resolve or close it (docstring of sync_incidents).
OnlyPeopleMoveCases ==
  \A i \in Incidents : \A k \in DOMAIN cases[i].history :
    LET e == cases[i].history[k]
    IN  e.actor = Nobody /\ k > 1 => e.from = e.to

\* The histories of all cases, merged by audit number, are one log ...
Merged ==
  LET all == UNION {{[case |-> i, action |-> cases[i].history[k].action,
                      actor |-> cases[i].history[k].actor,
                      from |-> cases[i].history[k].from,
                      to |-> cases[i].history[k].to,
                      id |-> cases[i].history[k].id]
                     : k \in DOMAIN cases[i].history} : i \in Incidents}
      At(n) == CHOOSE e \in all : e.id = n
  IN  [n \in 1..auditCounter |->
         [case |-> At(n).case, action |-> At(n).action, actor |-> At(n).actor,
          from |-> At(n).from, to |-> At(n).to]]

\* ... and that log is the one the abstract specification promises: it grows
\* by one legal entry at a time and is only ever cleared as a whole.
AuditLog == INSTANCE CaseAuditLog WITH log <- Merged
LogRefinement == AuditLog!Spec
=============================================================================

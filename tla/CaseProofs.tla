------------------------------ MODULE CaseProofs ------------------------------
(***************************************************************************)
(* Proofs about the coordination cases, for every set of incidents,        *)
(* actors, providers, scopes and roles and any bound on the audit trail,   *)
(* and about the endpoints and the replay on one case service, for any     *)
(* number of workers, requests and batches.                                *)
(*                                                                         *)
(* All handlers have one shape: they append one entry to the history of    *)
(* one case and take that entry's status.  The shape is proved of each     *)
(* handler once (StepsExtend), the invariants are proved of the shape.     *)
(*                                                                         *)
(* The service cannot tell the API from its own specification: every step  *)
(* of the API is a step of it, or leaves its variables alone (ApiSteps).   *)
(* What was proved of the service therefore holds under the API, and the   *)
(* invariant there only adds what the API knows: which incidents fusion    *)
(* has raised, which of them a batch still has to hand over, and which     *)
(* calls were answered.                                                    *)
(***************************************************************************)
EXTENDS CaseApi, SequenceTheorems, TLAPS

\* What an entry may say of the actor and the move, as the audit log has it.
Legal(e) ==
  \/ /\ e.actor \in Actors
     /\ e.action \in DOMAIN AuditLog!PeopleMoves
     /\ <<e.from, e.to>> \in AuditLog!PeopleMoves[e.action]
  \/ /\ e.actor = Nobody
     /\ e.action \in DOMAIN AuditLog!ReplayMoves
     /\ <<e.from, e.to>> \in AuditLog!ReplayMoves[e.action]

\* The fields an entry explains are b's, or what the entry says.
Follows(b, c, e) ==
  /\ c.updated = e.at
  /\ c.owner = IF e.action = "ASSIGNED" THEN e.detail ELSE b.owner
  /\ c.ackBy = IF e.action = "ACKNOWLEDGED" THEN e.actor ELSE b.ackBy
  /\ c.target = IF e.action = "ESCALATED" THEN e.detail ELSE b.target
  /\ c.resolvedBy = IF e.action = "RESOLVED" THEN e.actor ELSE b.resolvedBy

SameFields(b, c) ==
  c.owner = b.owner /\ c.ackBy = b.ackBy /\ c.target = b.target /\ c.resolvedBy = b.resolvedBy

\* Case i becomes c by the audit entry e.
Extends(i, c, e) ==
  /\ cases' = [cases EXCEPT ![i] = c]
  /\ auditCounter' = auditCounter + 1
  /\ noteCounter' \in Nat
  /\ c \in Cases /\ e \in Entries
  /\ c.history = Append(cases[i].history, e)
  /\ c.status = e.to
  /\ e.from = cases[i].status
  /\ e.id = auditCounter + 1
  /\ e.action = "CASE_CREATED" <=> ~HasCase(i)
  /\ e.actor = Nobody /\ HasCase(i) => e.from = e.to
  /\ e.actor = Nobody \/ InScope(i, e.actor)
  /\ e.action = "ASSIGNED" => InScope(i, e.detail)
  /\ Legal(e)
  /\ Follows(cases[i], c, e)

\* An incident without a case has nothing left of an earlier one.
NoCaseEmpty == \A i \in Incidents : ~HasCase(i) => cases[i] = NoCase

ExtendsSome(i) == \E c, e : Extends(i, c, e)

LEMMA EntryType ==
  ASSUME TypeOK, NEW i \in Incidents, NEW action \in ActionTypes,
         NEW actor \in Actors \cup {Nobody}, NEW to \in Statuses,
         NEW detail \in Actors \cup Roles \cup Nat \cup {Nobody}, NEW at \in Times
  PROVE  Audit(i, action, actor, to, detail, at) \in Entries
BY CaseAssumption DEF TypeOK, Cases, Entries, Audit, CaseAssumption

LEMMA AuditedType ==
  ASSUME NEW c \in Cases, NEW e \in Entries
  PROVE  /\ Audited(c, e) \in Cases
         /\ Audited(c, e).history = Append(c.history, e)
         /\ Audited(c, e).status = e.to
         /\ Audited(c, e).updated = e.at
         /\ SameFields(c, Audited(c, e))
         /\ Audited(c, e).notes = c.notes
         /\ Audited(c, e).source = c.source
<1>1. Append(c.history, e) \in Seq(Entries)
  BY DEF Cases
<1>2. e.to \in Statuses /\ e.at \in Nat
  BY DEF Entries
<1>. QED BY <1>1, <1>2 DEF Audited, Cases, SameFields

\* What the person's handlers share: an entry by an actor in scope, on a case
\* that exists, and a case that differs from the moved one at most in the field
\* that the entry explains, and in its notes.
LEMMA PersonExtends ==
  ASSUME TypeOK, NEW i \in Incidents, NEW a \in Actors, NEW op \in DOMAIN AllowedFrom,
         MayAct(i, a, op), NEW to \in Statuses,
         NEW detail \in Actors \cup Roles \cup Nat \cup {Nobody}, NEW at \in Times,
         op = "ASSIGNED" => InScope(i, detail),
         NEW c \in Cases, Store(i, c), noteCounter' \in Nat,
         c.history = Moved(i, op, a, to, detail, at).history,
         c.status = to,
         <<cases[i].status, to>> \in AuditLog!PeopleMoves[op],
         Follows(cases[i], c, Audit(i, op, a, to, detail, at))
  PROVE  ExtendsSome(i)
<1>. DEFINE e == Audit(i, op, a, to, detail, at)
<1>1. op \in ActionTypes /\ op # "CASE_CREATED"
  BY DEF AllowedFrom, ActionTypes
<1>2. e \in Entries
  BY <1>1, EntryType
<1>3. cases[i] \in Cases
  BY DEF TypeOK
<1>4. c.history = Append(cases[i].history, e)
  BY <1>2, <1>3, AuditedType DEF Moved
<1>5. /\ e.id = auditCounter + 1 /\ e.action = op /\ e.actor = a
      /\ e.from = cases[i].status /\ e.to = to /\ e.detail = detail
  BY DEF Audit
<1>6. HasCase(i) /\ InScope(i, a) /\ a # Nobody
  BY CaseAssumption DEF MayAct, CaseAssumption
<1>7. cases' = [cases EXCEPT ![i] = c] /\ auditCounter' = auditCounter + 1
  BY DEF Store, Numbered
<1>8. Legal(e)
  <2>1. op \in DOMAIN AuditLog!PeopleMoves
    BY DEF AllowedFrom, AuditLog!PeopleMoves
  <2>. QED BY <1>5, <2>1 DEF Legal
<1>9. Extends(i, c, e)
  BY <1>1, <1>2, <1>4, <1>5, <1>6, <1>7, <1>8 DEF Extends
<1>. QED BY <1>9 DEF ExtendsSome

\* What an entry is moved to, in the form the handlers write it.
LEMMA MovedType ==
  ASSUME TypeOK, NEW i \in Incidents, NEW action \in ActionTypes,
         NEW actor \in Actors \cup {Nobody}, NEW to \in Statuses,
         NEW detail \in Actors \cup Roles \cup Nat \cup {Nobody}, NEW at \in Times
  PROVE  /\ Moved(i, action, actor, to, detail, at) \in Cases
         /\ Moved(i, action, actor, to, detail, at).status = to
         /\ Moved(i, action, actor, to, detail, at).updated = at
         /\ SameFields(cases[i], Moved(i, action, actor, to, detail, at))
         /\ Moved(i, action, actor, to, detail, at).notes = cases[i].notes
         /\ Moved(i, action, actor, to, detail, at).source = cases[i].source
<1>. DEFINE e == Audit(i, action, actor, to, detail, at)
<1>1. e \in Entries /\ e.to = to /\ e.at = at
  BY EntryType DEF Audit
<1>2. cases[i] \in Cases
  BY DEF TypeOK
<1>. QED BY <1>1, <1>2, AuditedType DEF Moved

LEMMA AcknowledgeExtends ==
  ASSUME TypeOK, NEW i \in Incidents, NEW a \in Actors, NEW at \in Times,
         Acknowledge(i, a, at)
  PROVE  ExtendsSome(i)
<1>. DEFINE m == Moved(i, "ACKNOWLEDGED", a, "ACKNOWLEDGED", Nobody, at)
            c == [m EXCEPT !.ackBy = a]
<1>1. /\ "ACKNOWLEDGED" \in ActionTypes /\ "ACKNOWLEDGED" \in Statuses
      /\ a \in Actors \cup {Nobody}
      /\ Nobody \in Actors \cup Roles \cup Nat \cup {Nobody}
  BY DEF ActionTypes, Statuses
<1>2. /\ m \in Cases /\ m.status = "ACKNOWLEDGED"
      /\ m.updated = at /\ SameFields(cases[i], m)
  BY <1>1, MovedType
<1>3. MayAct(i, a, "ACKNOWLEDGED") /\ Store(i, c) /\ noteCounter' \in Nat
  BY DEF Acknowledge, TypeOK
<1>. HIDE DEF m
<1>4. /\ c \in Cases /\ c.history = m.history /\ c.status = m.status
      /\ Follows(cases[i], c, Audit(i, "ACKNOWLEDGED", a, "ACKNOWLEDGED", Nobody, at))
  BY <1>2 DEF Cases, SameFields, Follows, Audit
<1>5. /\ "ACKNOWLEDGED" \in DOMAIN AllowedFrom
      /\ <<cases[i].status, "ACKNOWLEDGED">> \in AuditLog!PeopleMoves["ACKNOWLEDGED"]
  BY <1>3 DEF MayAct, AllowedFrom, AuditLog!PeopleMoves
<1>. HIDE DEF c
<1>. QED BY <1>1, <1>2, <1>3, <1>4, <1>5, PersonExtends DEF m

LEMMA AssignExtends ==
  ASSUME TypeOK, NEW i \in Incidents, NEW a \in Actors, NEW at \in Times,
         NEW owner \in Actors,
         Assign(i, a, owner, at)
  PROVE  ExtendsSome(i)
<1>. DEFINE m == Moved(i, "ASSIGNED", a, "ASSIGNED", owner, at)
            c == [m EXCEPT !.owner = owner]
<1>1. /\ "ASSIGNED" \in ActionTypes /\ "ASSIGNED" \in Statuses
      /\ a \in Actors \cup {Nobody}
      /\ owner \in Actors \cup Roles \cup Nat \cup {Nobody}
  BY DEF ActionTypes, Statuses
<1>2. /\ m \in Cases /\ m.status = "ASSIGNED"
      /\ m.updated = at /\ SameFields(cases[i], m)
  BY <1>1, MovedType
<1>3. /\ MayAct(i, a, "ASSIGNED") /\ Store(i, c) /\ noteCounter' \in Nat
      /\ InScope(i, owner)
  BY DEF Assign, TypeOK
<1>. HIDE DEF m
<1>4. /\ c \in Cases /\ c.history = m.history /\ c.status = m.status
      /\ Follows(cases[i], c, Audit(i, "ASSIGNED", a, "ASSIGNED", owner, at))
  BY <1>2 DEF Cases, SameFields, Follows, Audit
<1>5. /\ "ASSIGNED" \in DOMAIN AllowedFrom
      /\ <<cases[i].status, "ASSIGNED">> \in AuditLog!PeopleMoves["ASSIGNED"]
  BY <1>3 DEF MayAct, AllowedFrom, AuditLog!PeopleMoves
<1>. HIDE DEF c
<1>. QED BY <1>1, <1>2, <1>3, <1>4, <1>5, PersonExtends DEF m

LEMMA StartReviewExtends ==
  ASSUME TypeOK, NEW i \in Incidents, NEW a \in Actors, NEW at \in Times,
         StartReview(i, a, at)
  PROVE  ExtendsSome(i)
<1>. DEFINE m == Moved(i, "REVIEW_STARTED", a, "IN_REVIEW", Nobody, at)
            c == m
<1>1. /\ "REVIEW_STARTED" \in ActionTypes /\ "IN_REVIEW" \in Statuses
      /\ a \in Actors \cup {Nobody}
      /\ Nobody \in Actors \cup Roles \cup Nat \cup {Nobody}
  BY DEF ActionTypes, Statuses
<1>2. /\ m \in Cases /\ m.status = "IN_REVIEW"
      /\ m.updated = at /\ SameFields(cases[i], m)
  BY <1>1, MovedType
<1>3. MayAct(i, a, "REVIEW_STARTED") /\ Store(i, c) /\ noteCounter' \in Nat
  BY DEF StartReview, TypeOK
<1>. HIDE DEF m
<1>4. /\ c \in Cases /\ c.history = m.history /\ c.status = m.status
      /\ Follows(cases[i], c, Audit(i, "REVIEW_STARTED", a, "IN_REVIEW", Nobody, at))
  BY <1>2 DEF Cases, SameFields, Follows, Audit
<1>5. /\ "REVIEW_STARTED" \in DOMAIN AllowedFrom
      /\ <<cases[i].status, "IN_REVIEW">> \in AuditLog!PeopleMoves["REVIEW_STARTED"]
  BY <1>3 DEF MayAct, AllowedFrom, AuditLog!PeopleMoves
<1>. HIDE DEF c
<1>. QED BY <1>1, <1>2, <1>3, <1>4, <1>5, PersonExtends DEF m

LEMMA EscalateExtends ==
  ASSUME TypeOK, NEW i \in Incidents, NEW a \in Actors, NEW at \in Times,
         NEW role \in Roles,
         Escalate(i, a, role, at)
  PROVE  ExtendsSome(i)
<1>. DEFINE m == Moved(i, "ESCALATED", a, "ESCALATED", role, at)
            c == [m EXCEPT !.target = role]
<1>1. /\ "ESCALATED" \in ActionTypes /\ "ESCALATED" \in Statuses
      /\ a \in Actors \cup {Nobody}
      /\ role \in Actors \cup Roles \cup Nat \cup {Nobody}
  BY DEF ActionTypes, Statuses
<1>2. /\ m \in Cases /\ m.status = "ESCALATED"
      /\ m.updated = at /\ SameFields(cases[i], m)
  BY <1>1, MovedType
<1>3. MayAct(i, a, "ESCALATED") /\ Store(i, c) /\ noteCounter' \in Nat
  BY DEF Escalate, TypeOK
<1>. HIDE DEF m
<1>4. /\ c \in Cases /\ c.history = m.history /\ c.status = m.status
      /\ Follows(cases[i], c, Audit(i, "ESCALATED", a, "ESCALATED", role, at))
  BY <1>2 DEF Cases, SameFields, Follows, Audit
<1>5. /\ "ESCALATED" \in DOMAIN AllowedFrom
      /\ <<cases[i].status, "ESCALATED">> \in AuditLog!PeopleMoves["ESCALATED"]
  BY <1>3 DEF MayAct, AllowedFrom, AuditLog!PeopleMoves
<1>. HIDE DEF c
<1>. QED BY <1>1, <1>2, <1>3, <1>4, <1>5, PersonExtends DEF m

LEMMA ResolveExtends ==
  ASSUME TypeOK, NEW i \in Incidents, NEW a \in Actors, NEW at \in Times,
         Resolve(i, a, at)
  PROVE  ExtendsSome(i)
<1>. DEFINE m == Moved(i, "RESOLVED", a, "RESOLVED", Nobody, at)
            c == [m EXCEPT !.resolvedBy = a]
<1>1. /\ "RESOLVED" \in ActionTypes /\ "RESOLVED" \in Statuses
      /\ a \in Actors \cup {Nobody}
      /\ Nobody \in Actors \cup Roles \cup Nat \cup {Nobody}
  BY DEF ActionTypes, Statuses
<1>2. /\ m \in Cases /\ m.status = "RESOLVED"
      /\ m.updated = at /\ SameFields(cases[i], m)
  BY <1>1, MovedType
<1>3. MayAct(i, a, "RESOLVED") /\ Store(i, c) /\ noteCounter' \in Nat
  BY DEF Resolve, TypeOK
<1>. HIDE DEF m
<1>4. /\ c \in Cases /\ c.history = m.history /\ c.status = m.status
      /\ Follows(cases[i], c, Audit(i, "RESOLVED", a, "RESOLVED", Nobody, at))
  BY <1>2 DEF Cases, SameFields, Follows, Audit
<1>5. /\ "RESOLVED" \in DOMAIN AllowedFrom
      /\ <<cases[i].status, "RESOLVED">> \in AuditLog!PeopleMoves["RESOLVED"]
  BY <1>3 DEF MayAct, AllowedFrom, AuditLog!PeopleMoves
<1>. HIDE DEF c
<1>. QED BY <1>1, <1>2, <1>3, <1>4, <1>5, PersonExtends DEF m

LEMMA CloseExtends ==
  ASSUME TypeOK, NEW i \in Incidents, NEW a \in Actors, NEW at \in Times,
         Close(i, a, at)
  PROVE  ExtendsSome(i)
<1>. DEFINE m == Moved(i, "CLOSED", a, "CLOSED", Nobody, at)
            c == m
<1>1. /\ "CLOSED" \in ActionTypes /\ "CLOSED" \in Statuses
      /\ a \in Actors \cup {Nobody}
      /\ Nobody \in Actors \cup Roles \cup Nat \cup {Nobody}
  BY DEF ActionTypes, Statuses
<1>2. /\ m \in Cases /\ m.status = "CLOSED"
      /\ m.updated = at /\ SameFields(cases[i], m)
  BY <1>1, MovedType
<1>3. MayAct(i, a, "CLOSED") /\ Store(i, c) /\ noteCounter' \in Nat
  BY DEF Close, TypeOK
<1>. HIDE DEF m
<1>4. /\ c \in Cases /\ c.history = m.history /\ c.status = m.status
      /\ Follows(cases[i], c, Audit(i, "CLOSED", a, "CLOSED", Nobody, at))
  BY <1>2 DEF Cases, SameFields, Follows, Audit
<1>5. /\ "CLOSED" \in DOMAIN AllowedFrom
      /\ <<cases[i].status, "CLOSED">> \in AuditLog!PeopleMoves["CLOSED"]
  BY <1>3 DEF MayAct, AllowedFrom, AuditLog!PeopleMoves
<1>. HIDE DEF c
<1>. QED BY <1>1, <1>2, <1>3, <1>4, <1>5, PersonExtends DEF m


LEMMA AddNoteExtends ==
  ASSUME TypeOK, NEW i \in Incidents, NEW a \in Actors, NEW at \in Times,
         NEW visibility \in Visibilities, AddNote(i, a, visibility, at)
  PROVE  ExtendsSome(i)
<1>. DEFINE to == cases[i].status
            m == Moved(i, "NOTE_ADDED", a, to, noteCounter + 1, at)
            note == [id |-> noteCounter + 1, author |-> a,
                     visibility |-> visibility, at |-> at]
            c == [m EXCEPT !.notes = Append(@, note)]
<1>1. /\ MayAct(i, a, "NOTE_ADDED") /\ Store(i, c) /\ noteCounter' = noteCounter + 1
      /\ noteCounter \in Nat
  BY DEF AddNote, TypeOK
<1>2. to \in Statuses
  BY <1>1 DEF MayAct, AllowedFrom
<1>3. /\ "NOTE_ADDED" \in ActionTypes /\ "NOTE_ADDED" \in DOMAIN AllowedFrom
      /\ a \in Actors \cup {Nobody}
      /\ noteCounter + 1 \in Actors \cup Roles \cup Nat \cup {Nobody}
  BY <1>1 DEF ActionTypes, AllowedFrom
<1>. HIDE DEF to
<1>4. m \in Cases /\ m.status = to /\ m.updated = at /\ SameFields(cases[i], m)
  BY <1>2, <1>3, MovedType
<1>5. note \in Notes
  BY <1>1, CaseAssumption DEF Notes, CaseAssumption
<1>. HIDE DEF m, note
<1>6. Append(m.notes, note) \in Seq(Notes)
  BY <1>4, <1>5 DEF Cases
<1>7. /\ c \in Cases /\ c.history = m.history /\ c.status = m.status
      /\ Follows(cases[i], c, Audit(i, "NOTE_ADDED", a, to, noteCounter + 1, at))
  BY <1>4, <1>6 DEF Cases, SameFields, Follows, Audit
<1>. HIDE DEF c
<1>8. <<cases[i].status, to>> \in AuditLog!PeopleMoves["NOTE_ADDED"]
  BY <1>1 DEF MayAct, AllowedFrom, AuditLog!PeopleMoves, AuditLog!Live, Statuses, to
<1>9. MayAct(i, a, "NOTE_ADDED") /\ Store(i, c) /\ noteCounter' \in Nat
  BY <1>1
<1>10. /\ c.history = Moved(i, "NOTE_ADDED", a, to, noteCounter + 1, at).history
       /\ c.status = to
  BY <1>4, <1>7 DEF m
<1>. QED BY <1>2, <1>3, <1>7, <1>8, <1>9, <1>10, PersonExtends

\* The replay's handlers: an entry of nobody that creates the case ...
LEMMA CreateExtends ==
  ASSUME TypeOK, NoCaseEmpty, NEW i \in Incidents, NEW s \in Snapshots,
         NEW at \in Times, CreateCase(i, s, at)
  PROVE  ExtendsSome(i)
<1>. DEFINE e == Audit(i, "CASE_CREATED", Nobody, "OPEN", Nobody, at)
            m == Audited(NoCase, e)
            c == [m EXCEPT !.source = s]
<1>1. /\ "CASE_CREATED" \in ActionTypes /\ "OPEN" \in Statuses
      /\ Nobody \in Actors \cup Roles \cup Nat \cup {Nobody}
      /\ Nobody \in Actors \cup {Nobody}
  BY DEF ActionTypes, Statuses
<1>2. ~HasCase(i) /\ Store(i, c) /\ noteCounter' \in Nat /\ cases[i] = NoCase
  BY DEF CreateCase, TypeOK, NoCaseEmpty
<1>3. e \in Entries
  BY <1>1, EntryType
<1>4. /\ e.id = auditCounter + 1 /\ e.action = "CASE_CREATED"
      /\ e.actor = Nobody /\ e.from = cases[i].status /\ e.to = "OPEN"
  BY DEF Audit
<1>. HIDE DEF e
<1>5. NoCase \in Cases /\ NoCase.history = <<>> /\ NoCase.status = "NONE"
  BY DEF NoCase, Cases
<1>6. /\ m \in Cases /\ m.history = Append(<<>>, e)
      /\ m.status = "OPEN" /\ m.updated = e.at /\ SameFields(NoCase, m)
  BY <1>3, <1>4, <1>5, AuditedType
<1>. HIDE DEF m
<1>7. /\ c \in Cases /\ c.history = m.history /\ c.status = m.status
      /\ Follows(NoCase, c, e)
  BY <1>4, <1>6 DEF Cases, SameFields, Follows
<1>. HIDE DEF c
<1>8. Legal(e)
  BY <1>2, <1>4, <1>5 DEF Legal, AuditLog!ReplayMoves
<1>9. Extends(i, c, e)
  BY <1>1, <1>2, <1>3, <1>4, <1>5, <1>6, <1>7, <1>8 DEF Extends, Store, Numbered
<1>. QED BY <1>9 DEF ExtendsSome

\* ... or leaves its status.
LEMMA SyncExtends ==
  ASSUME TypeOK, NEW i \in Incidents, NEW s \in Snapshots, NEW at \in Times,
         SyncExisting(i, s, at)
  PROVE  ExtendsSome(i)
<1>. DEFINE to == cases[i].status
            e == Audit(i, "INCIDENT_SYNCED", Nobody, to, Nobody, at)
            m == Moved(i, "INCIDENT_SYNCED", Nobody, to, Nobody, at)
            c == [m EXCEPT !.source = s]
<1>1. /\ "INCIDENT_SYNCED" \in ActionTypes
      /\ Nobody \in Actors \cup Roles \cup Nat \cup {Nobody}
      /\ Nobody \in Actors \cup {Nobody}
  BY DEF ActionTypes
<1>2. HasCase(i) /\ Store(i, c) /\ noteCounter' \in Nat /\ cases[i] \in Cases
  BY DEF SyncExisting, TypeOK
<1>3. to \in Statuses
  BY <1>2 DEF HasCase, Cases
<1>4. e \in Entries
  BY <1>1, <1>3, EntryType
<1>5. /\ e.id = auditCounter + 1 /\ e.action = "INCIDENT_SYNCED"
      /\ e.actor = Nobody /\ e.from = cases[i].status /\ e.to = cases[i].status
  BY DEF Audit
<1>6. m = Audited(cases[i], e)
  BY DEF Moved
<1>. HIDE DEF to, e, m
<1>7. /\ m \in Cases /\ m.history = Append(cases[i].history, e)
      /\ m.status = cases[i].status /\ m.updated = e.at /\ SameFields(cases[i], m)
  BY <1>2, <1>4, <1>5, <1>6, AuditedType
<1>8. /\ c \in Cases /\ c.history = m.history /\ c.status = m.status
      /\ Follows(cases[i], c, e)
  BY <1>5, <1>7 DEF Cases, SameFields, Follows
<1>. HIDE DEF c
<1>9. Legal(e)
  BY <1>3, <1>5 DEF Legal, AuditLog!ReplayMoves, AuditLog!Live, Statuses, to
<1>10. Extends(i, c, e)
  BY <1>2, <1>4, <1>5, <1>7, <1>8, <1>9 DEF Extends, Store, Numbered
<1>. QED BY <1>10 DEF ExtendsSome

\* Whatever a person does extends the history of one case.
LEMMA PersonExtendsCase ==
  ASSUME TypeOK, NEW i \in Incidents, NEW at \in Times, NEW a \in Actors,
         PersonActs(i, a, at)
  PROVE  ExtendsSome(i)
<1>1. CASE Acknowledge(i, a, at)
  BY <1>1, AcknowledgeExtends
<1>2. CASE \E owner \in Actors : Assign(i, a, owner, at)
  BY <1>2, AssignExtends
<1>3. CASE StartReview(i, a, at)
  BY <1>3, StartReviewExtends
<1>4. CASE \E v \in Visibilities : AddNote(i, a, v, at)
  BY <1>4, AddNoteExtends
<1>5. CASE \E role \in Roles : Escalate(i, a, role, at)
  BY <1>5, EscalateExtends
<1>6. CASE Resolve(i, a, at)
  BY <1>6, ResolveExtends
<1>7. CASE Close(i, a, at)
  BY <1>7, CloseExtends
<1>. QED BY <1>1, <1>2, <1>3, <1>4, <1>5, <1>6, <1>7 DEF PersonActs

\* Every step extends the history of one case, clears all of them, or stutters.
LEMMA StepsExtend ==
  ASSUME TypeOK, NoCaseEmpty, [Next]_caseVars
  PROVE  (\E i \in Incidents : ExtendsSome(i)) \/ Reset \/ UNCHANGED caseVars
<1>1. ASSUME NEW i \in Incidents, NEW at \in Times, NEW s \in Snapshots,
             SyncIncident(i, s, at)
      PROVE  ExtendsSome(i)
  BY <1>1, CreateExtends, SyncExtends DEF SyncIncident
<1>2. ASSUME NEW i \in Incidents, NEW at \in Times, NEW a \in Actors,
             PersonActs(i, a, at)
      PROVE  ExtendsSome(i)
  BY <1>2, PersonExtendsCase
<1>. QED BY <1>1, <1>2 DEF Next

-----------------------------------------------------------------------------
(* The invariants, one at a time.                                          *)

IInv ==
  /\ TypeOK
  /\ NoCaseEmpty
  /\ HistoryChained
  /\ AuditNumbering
  /\ OnlyPeopleMoveCases
  /\ ProviderBoundary
  /\ FieldsFollowHistory

\* A history that grows by one entry.
LEMMA Grown ==
  ASSUME TypeOK, NEW i \in Incidents, NEW c, NEW e, Extends(i, c, e)
  PROVE  LET h == cases[i].history
             n == Len(h) + 1
         IN  /\ h \in Seq(Entries) /\ Len(h) \in Nat
             /\ c.history \in Seq(Entries) /\ Len(c.history) = n
             /\ DOMAIN h = 1..Len(h) /\ DOMAIN c.history = 1..n
             /\ c.history[n] = e
             /\ \A k \in 1..Len(h) : c.history[k] = h[k]
             /\ cases'[i] = c
             /\ \A j \in Incidents : j # i => cases'[j] = cases[j]
<1>1. cases[i] \in Cases /\ cases[i].history \in Seq(Entries) /\ e \in Entries
  BY DEF TypeOK, Cases, Extends
<1>2. c.history = Append(cases[i].history, e)
  BY DEF Extends
<1>3. cases'[i] = c /\ \A j \in Incidents : j # i => cases'[j] = cases[j]
  BY DEF Extends, TypeOK
<1>. QED BY <1>1, <1>2, <1>3

LEMMA ExtendsKeepsTypes ==
  ASSUME TypeOK, NEW i \in Incidents, NEW c, NEW e, Extends(i, c, e)
  PROVE  TypeOK'
BY DEF TypeOK, Extends

LEMMA ExtendsKeepsEmpty ==
  ASSUME TypeOK, NoCaseEmpty, NEW i \in Incidents, NEW c, NEW e, Extends(i, c, e)
  PROVE  NoCaseEmpty'
<1>1. c.status # "NONE"
  BY DEF Extends, Entries, Statuses
<1>2. cases'[i] = c /\ \A j \in Incidents : j # i => cases'[j] = cases[j]
  BY Grown
<1>. QED BY <1>1, <1>2 DEF NoCaseEmpty, HasCase

LEMMA ExtendsKeepsChain ==
  ASSUME TypeOK, HistoryChained, NEW i \in Incidents, NEW c, NEW e, Extends(i, c, e)
  PROVE  HistoryChained'
<1>. DEFINE h == cases[i].history
            n == Len(h) + 1
<1>1. /\ h \in Seq(Entries) /\ Len(h) \in Nat /\ n \in Nat
      /\ Len(c.history) = n /\ DOMAIN h = 1..Len(h) /\ DOMAIN c.history = 1..n
      /\ c.history[n] = e /\ \A k \in 1..Len(h) : c.history[k] = h[k]
      /\ cases'[i] = c /\ \A j \in Incidents : j # i => cases'[j] = cases[j]
  BY Grown
<1>2. /\ e.from = cases[i].status /\ c.status = e.to /\ c.status \in Statuses
      /\ e.action = "CASE_CREATED" <=> ~HasCase(i)
  BY DEF Extends, Entries
<1>3. c.status # "NONE"
  BY <1>2 DEF Statuses
<1>4. /\ HasCase(i) <=> h # <<>>
      /\ \A k \in DOMAIN h : /\ h[k].from = IF k = 1 THEN "NONE" ELSE h[k - 1].to
                             /\ (h[k].action = "CASE_CREATED") <=> (k = 1)
      /\ HasCase(i) => cases[i].status = h[Len(h)].to
  BY DEF HistoryChained
<1>5. h # <<>> <=> Len(h) # 0
  BY <1>1
<1>6. e.from = IF n = 1 THEN "NONE" ELSE h[n - 1].to
  BY <1>1, <1>2, <1>4, <1>5 DEF HasCase
<1>7. (e.action = "CASE_CREATED") <=> (n = 1)
  BY <1>1, <1>2, <1>4, <1>5
<1>. HIDE DEF h, n
<1>8. \A k \in 1..n :
        /\ c.history[k].from = IF k = 1 THEN "NONE" ELSE c.history[k - 1].to
        /\ (c.history[k].action = "CASE_CREATED") <=> (k = 1)
  <2>. TAKE k \in 1..n
  <2>1. CASE k = n
    BY <1>1, <1>6, <1>7, <2>1 DEF n
  <2>2. CASE k # n
    <3>1. k \in 1..Len(h) /\ c.history[k] = h[k]
      BY <1>1, <2>2 DEF n
    <3>2. k # 1 => c.history[k - 1] = h[k - 1]
      BY <1>1, <3>1
    <3>. QED BY <1>1, <1>4, <3>1, <3>2
  <2>. QED BY <2>1, <2>2
<1>9. c.history # <<>>
  BY <1>1 DEF n
<1>10. ASSUME NEW j \in Incidents
       PROVE  LET g == cases'[j].history
              IN  /\ cases'[j].status # "NONE" <=> g # <<>>
                  /\ \A k \in DOMAIN g :
                       /\ g[k].from = IF k = 1 THEN "NONE" ELSE g[k - 1].to
                       /\ (g[k].action = "CASE_CREATED") <=> (k = 1)
                  /\ cases'[j].status # "NONE" => cases'[j].status = g[Len(g)].to
  <2>1. CASE j = i
    BY <1>1, <1>2, <1>3, <1>8, <1>9, <2>1
  <2>2. CASE j # i
    BY <1>1, <2>2 DEF HistoryChained, HasCase
  <2>. QED BY <2>1, <2>2
<1>. QED BY <1>10 DEF HistoryChained, HasCase

LEMMA ExtendsKeepsNumbers ==
  ASSUME TypeOK, AuditNumbering, NEW i \in Incidents, NEW c, NEW e, Extends(i, c, e)
  PROVE  AuditNumbering'
<1>. DEFINE h == cases[i].history
            n == Len(h) + 1
            Ids(j) == AuditIds(j)
            NewIds(j) == AuditIds(j)'
<1>1. /\ h \in Seq(Entries) /\ Len(h) \in Nat /\ n \in Nat
      /\ Len(c.history) = n /\ DOMAIN h = 1..Len(h) /\ DOMAIN c.history = 1..n
      /\ c.history[n] = e /\ \A k \in 1..Len(h) : c.history[k] = h[k]
      /\ cases'[i] = c /\ \A j \in Incidents : j # i => cases'[j] = cases[j]
  BY Grown
<1>2. auditCounter \in Nat /\ e.id = auditCounter + 1 /\ auditCounter' = auditCounter + 1
  BY DEF Extends, TypeOK
<1>3. \A j \in Incidents : Ids(j) \subseteq 1..auditCounter
  BY DEF AuditNumbering
<1>4. \A k \in 1..Len(h) : h[k].id \in 1..auditCounter
  BY <1>1, <1>3 DEF AuditIds
<1>5. \A j \in Incidents : j # i => NewIds(j) = Ids(j)
  BY <1>1 DEF AuditIds
<1>. HIDE DEF h, n
<1>6. NewIds(i) = Ids(i) \cup {auditCounter + 1}
  <2>1. NewIds(i) = {c.history[k].id : k \in 1..n}
    BY <1>1 DEF AuditIds
  <2>2. Ids(i) = {h[k].id : k \in 1..Len(h)}
    BY <1>1 DEF AuditIds, h
  <2>3. \A k \in 1..n : k \in 1..Len(h) \/ k = n
    BY <1>1 DEF n
  <2>4. n \in 1..n /\ \A k \in 1..Len(h) : k \in 1..n
    BY <1>1 DEF n
  <2>. QED BY <1>1, <1>2, <2>1, <2>2, <2>3, <2>4
<1>7. ASSUME NEW j \in Incidents, NEW k \in DOMAIN cases'[j].history,
             NEW m \in DOMAIN cases'[j].history, k < m
      PROVE  cases'[j].history[k].id < cases'[j].history[m].id
  <2>1. CASE j # i
    BY <1>1, <1>7, <2>1 DEF AuditNumbering
  <2>2. CASE j = i /\ m = n
    <3>1. k \in 1..Len(h) /\ cases'[j].history[k] = h[k] /\ cases'[j].history[m] = e
      BY <1>1, <1>7, <2>2 DEF n
    <3>. QED BY <1>2, <1>4, <3>1
  <2>3. CASE j = i /\ m # n
    <3>1. k \in DOMAIN h /\ m \in DOMAIN h
      BY <1>1, <1>7, <2>3 DEF n
    <3>2. h[k].id < h[m].id
      BY <1>7, <3>1 DEF AuditNumbering, h
    <3>. QED BY <1>1, <2>3, <3>1, <3>2
  <2>. QED BY <2>1, <2>2, <2>3
<1>8. ASSUME NEW j \in Incidents, NEW l \in Incidents, j # l
      PROVE  NewIds(j) \cap NewIds(l) = {}
  <2>1. Ids(j) \cap Ids(l) = {}
    BY <1>8 DEF AuditNumbering
  <2>2. auditCounter + 1 \notin Ids(j) /\ auditCounter + 1 \notin Ids(l)
    BY <1>2, <1>3
  <2>. HIDE DEF Ids, NewIds
  <2>. QED BY <1>5, <1>6, <1>8, <2>1, <2>2
<1>9. UNION {NewIds(j) : j \in Incidents} = 1..(auditCounter + 1)
  <2>1. UNION {Ids(j) : j \in Incidents} = 1..auditCounter
    BY DEF AuditNumbering
  <2>. HIDE DEF Ids, NewIds
  <2>2. UNION {NewIds(j) : j \in Incidents}
          = (UNION {Ids(j) : j \in Incidents}) \cup {auditCounter + 1}
    BY <1>5, <1>6
  <2>. QED BY <1>2, <2>1, <2>2
<1>. QED BY <1>2, <1>7, <1>8, <1>9 DEF AuditNumbering

LEMMA ExtendsKeepsMoves ==
  ASSUME TypeOK, HistoryChained, OnlyPeopleMoveCases,
         NEW i \in Incidents, NEW c, NEW e, Extends(i, c, e)
  PROVE  OnlyPeopleMoveCases'
<1>. DEFINE h == cases[i].history
            n == Len(h) + 1
<1>1. /\ Len(h) \in Nat /\ DOMAIN h = 1..Len(h) /\ DOMAIN c.history = 1..n
      /\ c.history[n] = e /\ \A k \in 1..Len(h) : c.history[k] = h[k]
      /\ cases'[i] = c /\ \A j \in Incidents : j # i => cases'[j] = cases[j]
  BY Grown
<1>2. n > 1 => HasCase(i)
  BY <1>1 DEF HistoryChained
<1>3. e.actor = Nobody /\ n > 1 => e.from = e.to
  BY <1>2 DEF Extends
<1>. HIDE DEF n
<1>4. ASSUME NEW j \in Incidents, NEW k \in DOMAIN cases'[j].history,
             cases'[j].history[k].actor = Nobody, k > 1
      PROVE  cases'[j].history[k].from = cases'[j].history[k].to
  <2>1. CASE j # i
    BY <1>1, <1>4, <2>1 DEF OnlyPeopleMoveCases
  <2>2. CASE j = i /\ k = n
    BY <1>1, <1>3, <1>4, <2>2
  <2>3. CASE j = i /\ k # n
    <3>1. k \in DOMAIN h /\ c.history[k] = h[k]
      BY <1>1, <2>3 DEF n
    <3>. QED BY <1>1, <1>4, <2>3, <3>1 DEF OnlyPeopleMoveCases
  <2>. QED BY <2>1, <2>2, <2>3
<1>. QED BY <1>4 DEF OnlyPeopleMoveCases

LEMMA ExtendsKeepsBoundary ==
  ASSUME TypeOK, ProviderBoundary, NEW i \in Incidents, NEW c, NEW e, Extends(i, c, e)
  PROVE  ProviderBoundary'
<1>. DEFINE h == cases[i].history
            n == Len(h) + 1
<1>1. /\ Len(h) \in Nat /\ DOMAIN h = 1..Len(h) /\ DOMAIN c.history = 1..n
      /\ c.history[n] = e /\ \A k \in 1..Len(h) : c.history[k] = h[k]
      /\ cases'[i] = c /\ \A j \in Incidents : j # i => cases'[j] = cases[j]
  BY Grown
<1>2. /\ e.actor = Nobody \/ InScope(i, e.actor)
      /\ e.action = "ASSIGNED" => InScope(i, e.detail)
      /\ c.owner \in {cases[i].owner, e.detail}
      /\ e.action # "ASSIGNED" => c.owner = cases[i].owner
  BY DEF Extends, Follows
<1>3. c.owner = Nobody \/ InScope(i, c.owner)
  BY <1>2 DEF ProviderBoundary
<1>. HIDE DEF n
<1>4. ASSUME NEW j \in Incidents, NEW k \in DOMAIN cases'[j].history
      PROVE  LET x == cases'[j].history[k]
             IN  /\ x.actor = Nobody \/ InScope(j, x.actor)
                 /\ x.action = "ASSIGNED" => InScope(j, x.detail)
  <2>1. CASE j # i
    BY <1>1, <2>1 DEF ProviderBoundary
  <2>2. CASE j = i /\ k = n
    BY <1>1, <1>2, <2>2
  <2>3. CASE j = i /\ k # n
    <3>1. k \in DOMAIN h /\ c.history[k] = h[k]
      BY <1>1, <2>3 DEF n
    <3>. QED BY <1>1, <2>3, <3>1 DEF ProviderBoundary
  <2>. QED BY <2>1, <2>2, <2>3
<1>5. \A j \in Incidents : cases'[j].owner = Nobody \/ InScope(j, cases'[j].owner)
  BY <1>1, <1>3 DEF ProviderBoundary
<1>. QED BY <1>4, <1>5 DEF ProviderBoundary, InScope

\* What the last entry of a kind says, when one more entry is written.
LEMMA LastSaysGrown ==
  ASSUME NEW h \in Seq(Entries), NEW e \in Entries,
         NEW action, NEW f \in {"actor", "detail"}, NEW v, LastSays(h, action, f, v)
  PROVE  LastSays(Append(h, e), action, f, IF e.action = action THEN e[f] ELSE v)
<1>. DEFINE g == Append(h, e)
            n == Len(h) + 1
            K == {k \in DOMAIN h : h[k].action = action}
            L == {k \in DOMAIN g : g[k].action = action}
<1>1. /\ Len(h) \in Nat /\ n \in Nat /\ DOMAIN h = 1..Len(h) /\ DOMAIN g = 1..n
      /\ g[n] = e /\ \A k \in 1..Len(h) : g[k] = h[k]
  OBVIOUS
<1>2. CASE e.action = action
  <2>1. n \in L /\ g[n][f] = e[f]
    BY <1>1, <1>2
  <2>2. \A m \in L : m <= n
    BY <1>1
  <2>. QED BY <1>2, <2>1, <2>2 DEF LastSays
<1>3. CASE e.action # action
  <2>1. L = K
    BY <1>1, <1>3
  <2>2. \A k \in K : g[k] = h[k]
    BY <1>1
  <2>. HIDE DEF K, L
  <2>. QED BY <1>3, <2>1, <2>2 DEF LastSays, K, L
<1>. QED BY <1>2, <1>3

LEMMA ExtendsKeepsFields ==
  ASSUME TypeOK, NoCaseEmpty, FieldsFollowHistory,
         NEW i \in Incidents, NEW c, NEW e, Extends(i, c, e)
  PROVE  FieldsFollowHistory'
<1>. DEFINE h == cases[i].history
<1>1. /\ h \in Seq(Entries) /\ Len(c.history) = Len(h) + 1
      /\ c.history[Len(h) + 1] = e
      /\ cases'[i] = c /\ \A j \in Incidents : j # i => cases'[j] = cases[j]
  BY Grown
<1>2. /\ c.history = Append(h, e) /\ e \in Entries /\ Follows(cases[i], c, e)
  BY DEF Extends
<1>3. /\ LastSays(h, "ASSIGNED", "detail", cases[i].owner)
      /\ LastSays(h, "ACKNOWLEDGED", "actor", cases[i].ackBy)
      /\ LastSays(h, "ESCALATED", "detail", cases[i].target)
      /\ LastSays(h, "RESOLVED", "actor", cases[i].resolvedBy)
  <2>1. CASE HasCase(i)
    BY <2>1 DEF FieldsFollowHistory
  <2>2. CASE ~HasCase(i)
    BY <2>2 DEF NoCaseEmpty, NoCase, LastSays
  <2>. QED BY <2>1, <2>2
<1>. HIDE DEF h
<1>4. ASSUME NEW action, NEW f \in {"actor", "detail"}, NEW v, LastSays(h, action, f, v)
      PROVE  LastSays(c.history, action, f, IF e.action = action THEN e[f] ELSE v)
  <2>1. LastSays(Append(h, e), action, f, IF e.action = action THEN e[f] ELSE v)
    BY <1>1, <1>2, <1>4, LastSaysGrown
  <2>. QED BY <1>2, <2>1
<1>5. /\ LastSays(c.history, "ASSIGNED", "detail", c.owner)
      /\ LastSays(c.history, "ACKNOWLEDGED", "actor", c.ackBy)
      /\ LastSays(c.history, "ESCALATED", "detail", c.target)
      /\ LastSays(c.history, "RESOLVED", "actor", c.resolvedBy)
  <2>1. LastSays(c.history, "ASSIGNED", "detail", c.owner)
    BY <1>2, <1>3, <1>4 DEF Follows
  <2>2. LastSays(c.history, "ACKNOWLEDGED", "actor", c.ackBy)
    BY <1>2, <1>3, <1>4 DEF Follows
  <2>3. LastSays(c.history, "ESCALATED", "detail", c.target)
    BY <1>2, <1>3, <1>4 DEF Follows
  <2>4. LastSays(c.history, "RESOLVED", "actor", c.resolvedBy)
    BY <1>2, <1>3, <1>4 DEF Follows
  <2>. QED BY <2>1, <2>2, <2>3, <2>4
<1>6. c.updated = c.history[Len(c.history)].at
  BY <1>1, <1>2 DEF Follows
<1>. QED BY <1>1, <1>5, <1>6 DEF FieldsFollowHistory, HasCase

-----------------------------------------------------------------------------
(* The invariant of the specification.                                     *)

\* No cases and both counters at 0, at the start and after a reset.
LEMMA EmptyInvariant ==
  ASSUME cases = [i \in Incidents |-> NoCase], auditCounter = 0, noteCounter = 0
  PROVE  IInv
<1>1. \A i \in Incidents : /\ cases[i] = NoCase /\ cases[i].history = <<>>
                           /\ cases[i].status = "NONE" /\ cases[i].owner = Nobody
  BY DEF NoCase
<1>2. NoCase \in Cases
  BY DEF NoCase, Cases
<1>3. TypeOK
  BY <1>2 DEF TypeOK
<1>4. HistoryChained
  BY <1>1 DEF HistoryChained, HasCase
<1>5. AuditNumbering
  <2>1. \A i \in Incidents : AuditIds(i) = {}
    BY <1>1 DEF AuditIds
  <2>2. UNION {AuditIds(i) : i \in Incidents} = {}
    BY <2>1
  <2>3. 1..auditCounter = {}
    OBVIOUS
  <2>. QED BY <1>1, <2>1, <2>2, <2>3 DEF AuditNumbering
<1>6. OnlyPeopleMoveCases /\ ProviderBoundary
  BY <1>1 DEF OnlyPeopleMoveCases, ProviderBoundary
<1>7. NoCaseEmpty /\ FieldsFollowHistory
  BY <1>1 DEF NoCaseEmpty, FieldsFollowHistory, HasCase
<1>. QED BY <1>3, <1>4, <1>5, <1>6, <1>7 DEF IInv

LEMMA InitInvariant == Init => IInv
BY EmptyInvariant DEF Init

LEMMA ResetInvariant == Reset => IInv'
<1>. SUFFICES ASSUME Reset PROVE IInv'
  OBVIOUS
<1>1. \A i \in Incidents : /\ cases'[i] = NoCase /\ cases'[i].history = <<>>
                           /\ cases'[i].status = "NONE" /\ cases'[i].owner = Nobody
  BY DEF Reset, NoCase
<1>2. NoCase \in Cases
  BY DEF NoCase, Cases
<1>3. TypeOK'
  BY <1>2 DEF TypeOK, Reset
<1>4. HistoryChained'
  BY <1>1 DEF HistoryChained, HasCase
<1>5. AuditNumbering'
  <2>1. \A i \in Incidents : AuditIds(i)' = {}
    BY <1>1 DEF AuditIds
  <2>2. UNION {AuditIds(i)' : i \in Incidents} = {}
    BY <2>1
  <2>3. 1..auditCounter' = {}
    BY DEF Reset
  <2>. QED BY <1>1, <2>1, <2>2, <2>3 DEF AuditNumbering
<1>6. OnlyPeopleMoveCases' /\ ProviderBoundary'
  BY <1>1 DEF OnlyPeopleMoveCases, ProviderBoundary, InScope
<1>7. NoCaseEmpty' /\ FieldsFollowHistory'
  BY <1>1 DEF NoCaseEmpty, FieldsFollowHistory, HasCase
<1>. QED BY <1>3, <1>4, <1>5, <1>6, <1>7 DEF IInv

LEMMA ExtendsInvariant ==
  ASSUME IInv, NEW i \in Incidents, ExtendsSome(i)
  PROVE  IInv'
<1>. PICK c, e : Extends(i, c, e)
  BY DEF ExtendsSome
<1>1. TypeOK'
  BY ExtendsKeepsTypes DEF IInv
<1>2. HistoryChained'
  BY ExtendsKeepsChain DEF IInv
<1>3. AuditNumbering'
  BY ExtendsKeepsNumbers DEF IInv
<1>4. OnlyPeopleMoveCases'
  BY ExtendsKeepsMoves DEF IInv
<1>5. ProviderBoundary'
  BY ExtendsKeepsBoundary DEF IInv
<1>6. NoCaseEmpty'
  BY ExtendsKeepsEmpty DEF IInv
<1>7. FieldsFollowHistory'
  BY ExtendsKeepsFields DEF IInv
<1>. QED BY <1>1, <1>2, <1>3, <1>4, <1>5, <1>6, <1>7 DEF IInv

LEMMA NextInvariant == IInv /\ [Next]_caseVars => IInv'
<1>. SUFFICES ASSUME IInv, [Next]_caseVars PROVE IInv'
  OBVIOUS
<1>1. CASE \E i \in Incidents : ExtendsSome(i)
  BY <1>1, ExtendsInvariant
<1>2. CASE Reset
  BY <1>2, ResetInvariant
<1>3. CASE UNCHANGED caseVars
  <2>1. cases' = cases /\ auditCounter' = auditCounter /\ noteCounter' = noteCounter
    BY <1>3 DEF caseVars
  <2>2. TypeOK'
    BY <2>1 DEF IInv, TypeOK
  <2>3. HistoryChained'
    BY <2>1 DEF IInv, HistoryChained, HasCase
  <2>4. AuditNumbering'
    <3>1. \A i \in Incidents : AuditIds(i)' = AuditIds(i)
      BY <2>1 DEF AuditIds
    <3>2. UNION {AuditIds(i)' : i \in Incidents} = UNION {AuditIds(i) : i \in Incidents}
      BY <3>1
    <3>. QED BY <2>1, <3>1, <3>2 DEF IInv, AuditNumbering
  <2>5. OnlyPeopleMoveCases'
    BY <2>1 DEF IInv, OnlyPeopleMoveCases
  <2>6. ProviderBoundary'
    BY <2>1 DEF IInv, ProviderBoundary, InScope
  <2>7. NoCaseEmpty' /\ FieldsFollowHistory'
    BY <2>1 DEF IInv, NoCaseEmpty, FieldsFollowHistory, HasCase
  <2>. QED BY <2>2, <2>3, <2>4, <2>5, <2>6, <2>7 DEF IInv
<1>. QED BY <1>1, <1>2, <1>3, StepsExtend DEF IInv

LEMMA InvariantHolds == Spec => []IInv
BY InitInvariant, NextInvariant, PTL DEF Spec

\* The service's state keeps the types of the case schema.
THEOREM TypesHold == Spec => []TypeOK
<1>1. IInv => TypeOK
  BY DEF IInv
<1>. QED BY <1>1, InvariantHolds, PTL

\* CaseCoordinationService: the audit trail of a case is one unbroken chain
\* from its creation to the status it has.
THEOREM ChainsHold == Spec => []HistoryChained
<1>1. IInv => HistoryChained
  BY DEF IInv
<1>. QED BY <1>1, InvariantHolds, PTL

\* _new_audit: the audit numbers of all cases are one gapless sequence.
THEOREM NumbersHold == Spec => []AuditNumbering
<1>1. IInv => AuditNumbering
  BY DEF IInv
<1>. QED BY <1>1, InvariantHolds, PTL

\* Every handler: owner, acknowledger, escalation target, resolver and update time of
\* a case are what its audit trail says they are.
THEOREM FieldsHold == Spec => []FieldsFollowHistory
<1>1. IInv => FieldsFollowHistory
  BY DEF IInv
<1>. QED BY <1>1, InvariantHolds, PTL

\* sync_incidents never moves a case through its workflow.
THEOREM ReplayMovesNoCase == Spec => []OnlyPeopleMoveCases
<1>1. IInv => OnlyPeopleMoveCases
  BY DEF IInv
<1>. QED BY <1>1, InvariantHolds, PTL

\* _validate_actor_scope: nobody outside the scope of a case ever acts on it.
THEOREM BoundaryHolds == Spec => []ProviderBoundary
<1>1. IInv => ProviderBoundary
  BY DEF IInv
<1>. QED BY <1>1, InvariantHolds, PTL

-----------------------------------------------------------------------------
(* The histories of the cases, merged by audit number, are the append-only *)
(* log of CaseAuditLog: the case service keeps its promise to an auditor.  *)
(* That the merged log is well defined, and that a handler appends to it,  *)
(* rests on AuditNumbering; that the entry continues its case, on          *)
(* HistoryChained.                                                         *)

\* An audit entry of case i, as the log shows it.
LogEntry(i, e) ==
  [case |-> i, action |-> e.action, actor |-> e.actor, from |-> e.from, to |-> e.to]

\* The merged log has every entry at its number.
EntriesMerged ==
  /\ DOMAIN Merged = 1..auditCounter
  /\ \A i \in Incidents : \A k \in DOMAIN cases[i].history :
       LET e == cases[i].history[k]
       IN  e.id \in 1..auditCounter /\ Merged[e.id] = LogEntry(i, e)

\* Every number is that of an entry.
NumbersUsed ==
  \A n \in 1..auditCounter : \E i \in Incidents : \E k \in DOMAIN cases[i].history :
    cases[i].history[k].id = n

LEMMA GreatestIs ==
  ASSUME NEW K \in SUBSET Nat, NEW x \in K, \A m \in K : m <= x
  PROVE  (CHOOSE k \in K : \A m \in K : m <= k) = x
<1>. DEFINE y == CHOOSE k \in K : \A m \in K : m <= k
<1>1. y \in K /\ \A m \in K : m <= y
  OBVIOUS
<1>. HIDE DEF y
<1>2. y \in Nat /\ x \in Nat /\ x <= y /\ y <= x
  BY <1>1
<1>3. y = x
  BY <1>2
<1>. QED BY <1>3 DEF y

LEMMA NumberedEntries == IInv => EntriesMerged /\ NumbersUsed
<1>. SUFFICES ASSUME IInv PROVE EntriesMerged /\ NumbersUsed
  OBVIOUS
<1>1. TypeOK /\ AuditNumbering
  BY DEF IInv
<1>2. \A i \in Incidents : AuditIds(i) \subseteq 1..auditCounter
  BY <1>1 DEF AuditNumbering
<1>3. NumbersUsed
  BY <1>1 DEF AuditNumbering, NumbersUsed, AuditIds
<1>. DEFINE Row(i, k) == [case |-> i, action |-> cases[i].history[k].action,
                          actor |-> cases[i].history[k].actor,
                          from |-> cases[i].history[k].from,
                          to |-> cases[i].history[k].to,
                          id |-> cases[i].history[k].id]
            all == UNION {{Row(i, k) : k \in DOMAIN cases[i].history} : i \in Incidents}
            At(n) == CHOOSE x \in all : x.id = n
            log == [n \in 1..auditCounter |->
                      [case |-> At(n).case, action |-> At(n).action,
                       actor |-> At(n).actor, from |-> At(n).from, to |-> At(n).to]]
<1>4. Merged = log
  BY DEF Merged
<1>5. ASSUME NEW i \in Incidents, NEW k \in DOMAIN cases[i].history
      PROVE  /\ cases[i].history[k].id \in 1..auditCounter
             /\ log[cases[i].history[k].id] = LogEntry(i, cases[i].history[k])
  <2>. DEFINE e == cases[i].history[k]
  <2>1. e.id \in AuditIds(i)
    BY DEF AuditIds
  <2>2. e.id \in 1..auditCounter
    BY <1>2, <2>1
  <2>3. Row(i, k) \in all /\ Row(i, k).id = e.id
    OBVIOUS
  <2>4. ASSUME NEW x \in all, x.id = e.id
        PROVE  x = Row(i, k)
    <3>1. PICK j \in Incidents : x \in {Row(j, m) : m \in DOMAIN cases[j].history}
      OBVIOUS
    <3>2. PICK m \in DOMAIN cases[j].history : x = Row(j, m)
      BY <3>1
    <3>3. cases[j].history[m].id = e.id
      BY <2>4, <3>2
    <3>4. e.id \in AuditIds(j)
      BY <3>3 DEF AuditIds
    <3>5. j = i
      BY <1>1, <2>1, <3>4 DEF AuditNumbering
    <3>6. /\ k < m => cases[i].history[k].id < cases[i].history[m].id
          /\ m < k => cases[i].history[m].id < cases[i].history[k].id
      BY <1>1, <3>5 DEF AuditNumbering
    <3>7. k \in Nat /\ m \in Nat /\ e.id \in Nat
      BY <1>1, <2>2, <3>5 DEF TypeOK, Cases
    <3>8. m = k
      BY <3>3, <3>5, <3>6, <3>7
    <3>. QED BY <3>2, <3>5, <3>8
  <2>. HIDE DEF all
  <2>5. At(e.id) = Row(i, k)
    BY <2>3, <2>4
  <2>6. log[e.id] = LogEntry(i, e)
    BY <2>2, <2>5 DEF LogEntry
  <2>. QED BY <2>2, <2>6
<1>. HIDE DEF log
<1>6. DOMAIN Merged = 1..auditCounter
  BY <1>4 DEF log
<1>. QED BY <1>3, <1>4, <1>5, <1>6 DEF EntriesMerged

\* What the merged log has at the number of an entry.
LEMMA EntryAt ==
  ASSUME EntriesMerged, NEW i \in Incidents, NEW k \in DOMAIN cases[i].history
  PROVE  /\ cases[i].history[k].id \in DOMAIN Merged
         /\ Merged[cases[i].history[k].id].case = i
         /\ Merged[cases[i].history[k].id].to = cases[i].history[k].to
<1>. DEFINE e == cases[i].history[k]
<1>1. DOMAIN Merged = 1..auditCounter /\ e.id \in 1..auditCounter
      /\ Merged[e.id] = LogEntry(i, e)
  BY DEF EntriesMerged
<1>2. LogEntry(i, e).case = i /\ LogEntry(i, e).to = e.to
  BY DEF LogEntry
<1>. QED BY <1>1, <1>2

\* The status the log leaves a case in is the one the case has.
LEMMA LogKnowsStatus ==
  ASSUME IInv, NEW i \in Incidents
  PROVE  AuditLog!StatusOf(i) = cases[i].status
<1>. DEFINE h == cases[i].history
            K == {k \in DOMAIN Merged : Merged[k].case = i}
<1>1. TypeOK /\ HistoryChained /\ AuditNumbering /\ EntriesMerged /\ NumbersUsed
  BY NumberedEntries DEF IInv
<1>2. h \in Seq(Entries) /\ \A k \in DOMAIN h : h[k].id \in Nat
  <2>1. h \in Seq(Entries)
    BY <1>1 DEF TypeOK, Cases
  <2>2. ASSUME NEW k \in DOMAIN h PROVE h[k].id \in Nat
    <3>1. h[k] \in Entries
      BY <2>1
    <3>. QED BY <3>1 DEF Entries
  <2>. QED BY <2>1, <2>2
<1>3. K = {h[k].id : k \in DOMAIN h}
  <2>1. ASSUME NEW k \in DOMAIN h PROVE h[k].id \in K
    BY <1>1, <2>1, EntryAt
  <2>2. ASSUME NEW n \in K PROVE n \in {h[k].id : k \in DOMAIN h}
    <3>1. n \in 1..auditCounter /\ Merged[n].case = i
      BY <1>1, <2>2 DEF EntriesMerged
    <3>2. PICK j \in Incidents : \E k \in DOMAIN cases[j].history : cases[j].history[k].id = n
      BY <1>1, <3>1 DEF NumbersUsed
    <3>3. PICK k \in DOMAIN cases[j].history : cases[j].history[k].id = n
      BY <3>2
    <3>4. Merged[n].case = j
      BY <1>1, <3>3, EntryAt
    <3>. QED BY <3>1, <3>3, <3>4
  <2>. QED BY <2>1, <2>2
<1>4. CASE ~HasCase(i)
  <2>1. h = <<>>
    BY <1>1, <1>4 DEF HistoryChained
  <2>2. K = {}
    BY <1>3, <2>1
  <2>. QED BY <1>4, <2>2 DEF AuditLog!StatusOf, HasCase
<1>5. CASE HasCase(i)
  <2>. DEFINE n == Len(h)
  <2>1. h # <<>> /\ cases[i].status = h[n].to
    BY <1>1, <1>5 DEF HistoryChained
  <2>2. n \in DOMAIN h /\ DOMAIN h = 1..n /\ n \in Nat
    BY <1>2, <2>1
  <2>3. ASSUME NEW k \in DOMAIN h PROVE h[k].id <= h[n].id
    <3>1. k < n => h[k].id < h[n].id
      BY <1>1, <2>2, <2>3 DEF AuditNumbering
    <3>2. h[k].id \in Nat /\ h[n].id \in Nat
      BY <1>2, <2>2
    <3>. QED BY <2>2, <3>1, <3>2
  <2>4. h[n].id \in K /\ K \subseteq Nat /\ \A m \in K : m <= h[n].id
    BY <1>2, <1>3, <2>2, <2>3
  <2>5. Merged[h[n].id].to = h[n].to
    BY <1>1, <2>2, EntryAt
  <2>. HIDE DEF K, n
  <2>6. (CHOOSE k \in K : \A m \in K : m <= k) = h[n].id
    BY <2>4, GreatestIs
  <2>. QED BY <2>1, <2>4, <2>5, <2>6 DEF AuditLog!StatusOf, K
<1>. QED BY <1>4, <1>5

LEMMA MergedIsSequence ==
  ASSUME IInv
  PROVE  Merged \in Seq({Merged[n] : n \in DOMAIN Merged}) /\ Len(Merged) = auditCounter
<1>1. DOMAIN Merged = 1..auditCounter /\ auditCounter \in Nat
  BY NumberedEntries DEF IInv, EntriesMerged, TypeOK
<1>2. Merged = [n \in DOMAIN Merged |-> Merged[n]]
  BY DEF Merged
<1>. HIDE DEF Merged
<1>3. Merged \in [1..auditCounter -> {Merged[n] : n \in DOMAIN Merged}]
  BY <1>1, <1>2
<1>. QED BY <1>1, <1>3

\* What Append builds, element by element.
LEMMA AppendIs ==
  ASSUME NEW T, NEW s \in Seq(T), NEW x \in T
  PROVE  Append(s, x) = [n \in 1..(Len(s) + 1) |-> IF n = Len(s) + 1 THEN x ELSE s[n]]
<1>. DEFINE f == [n \in 1..(Len(s) + 1) |-> IF n = Len(s) + 1 THEN x ELSE s[n]]
<1>1. /\ Len(s) \in Nat /\ DOMAIN s = 1..Len(s)
      /\ \A n \in 1..Len(s) : s[n] \in T
  OBVIOUS
<1>2. f \in Seq(T) /\ Len(f) = Len(s) + 1
  BY <1>1
<1>3. /\ Append(s, x) \in Seq(T) /\ Len(Append(s, x)) = Len(s) + 1
      /\ \A n \in 1..Len(s) : Append(s, x)[n] = s[n]
      /\ Append(s, x)[Len(s) + 1] = x
  BY AppendProperties
<1>4. \A n \in 1..Len(f) : f[n] = Append(s, x)[n]
  BY <1>1, <1>2, <1>3
<1>. HIDE DEF f
<1>5. f = Append(s, x)
  BY <1>2, <1>3, <1>4, SeqEqual
<1>. QED BY <1>5 DEF f

\* A handler of the service appends the entry it writes to the log.
LEMMA ExtendsAppends ==
  ASSUME IInv, IInv', NEW i \in Incidents, NEW c, NEW e, Extends(i, c, e)
  PROVE  Merged' = Append(Merged, LogEntry(i, e))
<1>1. TypeOK /\ EntriesMerged /\ NumbersUsed
  BY NumberedEntries DEF IInv
<1>2. IInv' => EntriesMerged' /\ NumbersUsed'
  BY NumberedEntries, PTL
<1>3. EntriesMerged'
  BY <1>2
<1>4. auditCounter' = auditCounter + 1 /\ auditCounter \in Nat /\ e.id = auditCounter + 1
  BY <1>1 DEF Extends, TypeOK
<1>5. DOMAIN Merged' = 1..(auditCounter + 1) /\ DOMAIN Merged = 1..auditCounter
  BY <1>1, <1>3, <1>4 DEF EntriesMerged
<1>6. Merged'[auditCounter + 1] = LogEntry(i, e)
  <2>1. /\ cases'[i] = c /\ c.history[Len(cases[i].history) + 1] = e
        /\ Len(cases[i].history) + 1 \in DOMAIN c.history
    BY <1>1, Grown
  <2>. QED BY <1>3, <1>4, <2>1 DEF EntriesMerged, LogEntry
<1>7. ASSUME NEW n \in 1..auditCounter PROVE Merged'[n] = Merged[n]
  <2>5. PICK j \in Incidents : \E k \in DOMAIN cases[j].history : cases[j].history[k].id = n
    BY <1>1 DEF NumbersUsed
  <2>1. PICK k \in DOMAIN cases[j].history : cases[j].history[k].id = n
    BY <2>5
  <2>2. k \in DOMAIN cases'[j].history /\ cases'[j].history[k] = cases[j].history[k]
    <3>1. CASE j = i
      <4>. DEFINE h == cases[i].history
      <4>1. /\ DOMAIN h = 1..Len(h) /\ DOMAIN c.history = 1..(Len(h) + 1) /\ Len(h) \in Nat
            /\ \A m \in 1..Len(h) : c.history[m] = h[m]
            /\ cases'[i] = c
        BY <1>1, Grown
      <4>2. k \in DOMAIN c.history
        BY <3>1, <4>1
      <4>. QED BY <3>1, <4>1, <4>2
    <3>2. CASE j # i
      BY <1>1, <2>1, <3>2, Grown
    <3>. QED BY <3>1, <3>2
  <2>3. Merged[n] = LogEntry(j, cases[j].history[k])
    BY <1>1, <2>1 DEF EntriesMerged
  <2>4. Merged'[n] = LogEntry(j, cases[j].history[k])
    BY <1>3, <2>1, <2>2 DEF EntriesMerged, LogEntry
  <2>. QED BY <2>3, <2>4
<1>8. Merged \in Seq({Merged[n] : n \in DOMAIN Merged}) /\ Len(Merged) = auditCounter
  BY MergedIsSequence
<1>9. Merged' = [n \in DOMAIN Merged' |-> Merged'[n]]
  BY DEF Merged
<1>. HIDE DEF Merged
<1>10. Append(Merged, LogEntry(i, e))
         = [n \in 1..(auditCounter + 1) |->
              IF n = auditCounter + 1 THEN LogEntry(i, e) ELSE Merged[n]]
  <2>. DEFINE x == LogEntry(i, e)
              T == {Merged[n] : n \in DOMAIN Merged} \cup {x}
  <2>1. Merged \in Seq(T) /\ x \in T /\ Len(Merged) = auditCounter
    BY <1>4, <1>8
  <2>. HIDE DEF x, T
  <2>. QED BY <2>1, AppendIs DEF x
<1>. QED BY <1>4, <1>5, <1>6, <1>7, <1>9, <1>10

\* The log without an entry.
LEMMA EmptyLog ==
  ASSUME NEW f, f = [n \in 1..0 |-> f[n]]
  PROVE  f = <<>>
OBVIOUS

LEMMA InitRefines == Init => AuditLog!Init
<1>. SUFFICES ASSUME Init PROVE Merged = <<>>
  BY DEF AuditLog!Init
<1>1. auditCounter = 0
  BY DEF Init
<1>. QED BY <1>1, EmptyLog DEF Merged

LEMMA NextRefines ==
  ASSUME IInv, IInv', [Next]_caseVars
  PROVE  [AuditLog!Next]_Merged
<1>1. CASE \E i \in Incidents : ExtendsSome(i)
  <2>1. PICK i \in Incidents : \E c, e : Extends(i, c, e)
    BY <1>1 DEF ExtendsSome
  <2>2. PICK c, e : Extends(i, c, e)
    BY <2>1
  <2>3. Merged' = Append(Merged, LogEntry(i, e))
    BY <2>2, ExtendsAppends
  <2>4. AuditLog!StatusOf(i) = e.from /\ Legal(e)
    BY <2>2, LogKnowsStatus DEF Extends
  <2>. DEFINE move == <<e.from, e.to>>
  <2>5. AuditLog!Record(i, e.action, e.actor, move)
    BY <2>3, <2>4 DEF AuditLog!Record, LogEntry
  <2>. HIDE DEF move
  <2>6. \/ /\ e.actor \in Actors /\ e.action \in DOMAIN AuditLog!PeopleMoves
           /\ move \in AuditLog!PeopleMoves[e.action]
        \/ /\ e.actor = Nobody /\ e.action \in DOMAIN AuditLog!ReplayMoves
           /\ move \in AuditLog!ReplayMoves[e.action]
    BY <2>4 DEF Legal, move
  <2>. QED BY <2>5, <2>6 DEF AuditLog!Next
<1>2. CASE Reset
  <2>1. auditCounter' = 0
    BY <1>2 DEF Reset
  <2>2. Merged' = <<>>
    BY <2>1, EmptyLog DEF Merged
  <2>. QED BY <2>2 DEF AuditLog!Next, AuditLog!Clear
<1>3. CASE UNCHANGED caseVars
  BY <1>3 DEF caseVars, Merged
<1>. QED BY <1>1, <1>2, <1>3, StepsExtend DEF IInv

\* CaseCoordinationService implements the audit log: its initial state is the empty
\* log, and every step of it appends one legal entry, clears the log, or leaves it.
THEOREM LogImplemented == Spec => LogRefinement
<1>1. IInv /\ IInv' /\ [Next]_caseVars => [AuditLog!Next]_Merged
  BY NextRefines
<1>. QED BY <1>1, InitRefines, InvariantHolds, PTL DEF Spec, LogRefinement, AuditLog!Spec

-----------------------------------------------------------------------------
(* The endpoints.                                                          *)

Requests ==
  {r \in [op : DOMAIN AllowedFrom, case : Incidents, actor : Actors,
          arg : Actors \cup Roles \cup Visibilities \cup {Nobody},
          at : 0..MaxTime \cup {Unread}] :
     r.arg \in Arguments(r.op)}

ApiTypes ==
  /\ now \in 0..MaxTime
  /\ phase \in {"free", "batch", "forgetting", "reset"}
  /\ incidents \in [Incidents -> Snapshots \cup {Nobody}]
  /\ todo \subseteq Incidents
  /\ pending \in [Workers -> Requests \cup {Idle}]
  /\ served \in Nat
  /\ \A r \in answered : r[1] \in Incidents

\* Only a batch, which holds the controller's lock, has incidents to hand over.
BatchOwnsTodo == todo # {} => phase = "batch"

\* Through the rest of a reset fusion knows no incident.
NothingKnown == phase \in {"forgetting", "reset"} => \A i \in Incidents : incidents[i] = Nobody

ApiInv ==
  /\ IInv
  /\ ApiTypes
  /\ BatchOwnsTodo
  /\ NothingKnown
  /\ CasesMirrorIncidents
  /\ NoLostUpdate

LEMMA RequestIsNotIdle == Idle \notin Requests
BY ApiAssumption, 0..MaxTime \subseteq Nat DEF ApiAssumption, Requests

\* A request that comes to the service carries a time it has read.
LEMMA TimedRequest ==
  ASSUME ApiTypes, NEW w \in Workers, Timed(w)
  PROVE  pending[w] \in Requests /\ pending[w].at \in 0..MaxTime
<1>1. pending[w] \in Requests
  BY DEF ApiTypes, Timed
<1>. QED BY <1>1 DEF Requests, Timed

\* The time a request or a batch carries is one the service's clock can show.
LEMMA ClockInTimes == \A t \in 0..MaxTime : t \in Times
BY ApiAssumption DEF ApiAssumption

-----------------------------------------------------------------------------
(* The API as a user of the service.                                       *)

\* A call is a person's act on the case at the time the request read.
LEMMA CallActs ==
  ASSUME NEW r \in Requests, Call(r)
  PROVE  PersonActs(r.case, r.actor, r.at)
<1>1. /\ r.op = "ASSIGNED" => r.arg \in Actors
      /\ r.op = "NOTE_ADDED" => r.arg \in Visibilities
      /\ r.op = "ESCALATED" => r.arg \in Roles
  BY DEF Requests, Arguments
<1>2. CASE r.op = "ACKNOWLEDGED" /\ Acknowledge(r.case, r.actor, r.at)
  BY <1>2 DEF PersonActs
<1>3. CASE r.op = "ASSIGNED" /\ Assign(r.case, r.actor, r.arg, r.at)
  BY <1>1, <1>3 DEF PersonActs
<1>4. CASE r.op = "REVIEW_STARTED" /\ StartReview(r.case, r.actor, r.at)
  BY <1>4 DEF PersonActs
<1>5. CASE r.op = "NOTE_ADDED" /\ AddNote(r.case, r.actor, r.arg, r.at)
  BY <1>1, <1>5 DEF PersonActs
<1>6. CASE r.op = "ESCALATED" /\ Escalate(r.case, r.actor, r.arg, r.at)
  BY <1>1, <1>6 DEF PersonActs
<1>7. CASE r.op = "RESOLVED" /\ Resolve(r.case, r.actor, r.at)
  BY <1>7 DEF PersonActs
<1>8. CASE r.op = "CLOSED" /\ Close(r.case, r.actor, r.at)
  BY <1>8 DEF PersonActs
<1>. QED BY <1>2, <1>3, <1>4, <1>5, <1>6, <1>7, <1>8 DEF Call

\* The kinds of steps: the service's state changes in a turn of sync_incidents,
\* in a call and in a reset, and in no other step.
LEMMA ApiSteps ==
  ASSUME ApiTypes, BatchOwnsTodo, CasesMirrorIncidents, [ApiNext]_apiVars
  PROVE  [Next]_caseVars
<1>1. ASSUME NEW i \in Incidents, SyncOne(i) PROVE [Next]_caseVars
  <2>1. CASE SyncIncident(i, incidents[i], now)
    <3>1. incidents[i] \in Snapshots
      BY <1>1 DEF SyncOne, CasesMirrorIncidents, Known, ApiTypes
    <3>2. now \in Times
      BY ClockInTimes DEF ApiTypes
    <3>. QED BY <2>1, <3>1, <3>2 DEF Next
  <2>2. CASE UNCHANGED caseVars
    BY <2>2
  <2>. QED BY <1>1, <2>1, <2>2 DEF SyncOne
<1>2. ASSUME NEW w \in Workers, Execute(w) PROVE [Next]_caseVars
  <2>. DEFINE r == pending[w]
  <2>1. r \in Requests /\ r.at \in 0..MaxTime
    BY <1>2, TimedRequest DEF Execute
  <2>2. PersonActs(r.case, r.actor, r.at)
    BY <1>2, <2>1, CallActs DEF Execute
  <2>3. r.case \in Incidents /\ r.actor \in Actors /\ r.at \in Times
    BY <2>1, ClockInTimes DEF Requests
  <2>. HIDE DEF r
  <2>. QED BY <2>2, <2>3 DEF Next
<1>3. CASE ResetCases
  BY <1>3 DEF ResetCases, Next
<1>4. CASE \/ \E t \in 0..MaxTime : Batch(t)
           \/ EndBatch \/ BeginReset \/ EndReset
           \/ \E w \in Workers :
                \/ \E op \in DOMAIN AllowedFrom, i \in Incidents, a \in Actors :
                     Receive(w, op, i, a)
                \/ ReadTime(w)
                \/ Refuse(w)
           \/ UNCHANGED apiVars
  <2>1. UNCHANGED caseVars
    BY <1>4 DEF Batch, EndBatch, BeginReset, EndReset, Receive, ReadTime, Refuse, apiVars,
                caseVars
  <2>. QED BY <2>1
<1>. QED BY <1>1, <1>2, <1>3, <1>4 DEF ApiNext

LEMMA ApiKeepsService ==
  ASSUME ApiInv, [ApiNext]_apiVars
  PROVE  IInv' /\ [Next]_caseVars
<1>1. [Next]_caseVars
  BY ApiSteps DEF ApiInv
<1>. QED BY <1>1, NextInvariant DEF ApiInv

-----------------------------------------------------------------------------
(* The invariant, one part at a time.                                      *)

LEMMA ApiKeepsTypes ==
  ASSUME ApiInv, [ApiNext]_apiVars
  PROVE  ApiTypes'
<1>. USE DEF ApiInv, ApiTypes
<1>1. ASSUME NEW t \in 0..MaxTime, Batch(t) PROVE ApiTypes'
  <2>1. t \in now..MaxTime /\ now' = t
    BY <1>1 DEF Batch
  <2>2. incidents' \in [Incidents -> Snapshots \cup {Nobody}] /\ todo' \subseteq Incidents
    BY <1>1 DEF Batch
  <2>. QED BY <1>1, <2>1, <2>2 DEF Batch
<1>2. ASSUME NEW i \in Incidents, SyncOne(i) PROVE ApiTypes'
  BY <1>2 DEF SyncOne
<1>3. CASE EndBatch
  BY <1>3 DEF EndBatch
<1>4. CASE BeginReset
  BY <1>4 DEF BeginReset
<1>5. CASE EndReset
  <2>1. 0 \in 0..MaxTime
    BY ApiAssumption DEF ApiAssumption
  <2>. QED BY <1>5, <2>1 DEF EndReset
<1>6. ASSUME NEW w \in Workers, NEW op \in DOMAIN AllowedFrom, NEW i \in Incidents,
             NEW a \in Actors, Receive(w, op, i, a)
      PROVE  ApiTypes'
  <2>1. PICK x \in Arguments(op) :
          pending' = [pending EXCEPT ![w] = [op |-> op, case |-> i, actor |-> a,
                                             arg |-> x, at |-> Unread]]
    BY <1>6 DEF Receive
  <2>. DEFINE r == [op |-> op, case |-> i, actor |-> a, arg |-> x, at |-> Unread]
  <2>2. x \in Actors \cup Roles \cup Visibilities \cup {Nobody}
    BY DEF Arguments
  <2>3. r \in Requests
    BY <2>2 DEF Requests
  <2>. HIDE DEF r
  <2>4. pending' \in [Workers -> Requests \cup {Idle}]
    BY <2>1, <2>3 DEF r
  <2>. QED BY <1>6, <2>4 DEF Receive
<1>7. ASSUME NEW w \in Workers, Execute(w) PROVE ApiTypes'
  <2>1. pending[w] \in Requests
    BY <1>7, TimedRequest DEF Execute
  <2>2. pending[w].case \in Incidents
    BY <2>1 DEF Requests
  <2>. QED BY <1>7, <2>2 DEF Execute
<1>8. ASSUME NEW w \in Workers, Refuse(w) PROVE ApiTypes'
  BY <1>8 DEF Refuse
<1>9. ASSUME NEW w \in Workers, ReadTime(w) PROVE ApiTypes'
  <2>1. pending[w] \in Requests
    BY <1>9 DEF ReadTime
  <2>2. [pending[w] EXCEPT !.at = now] \in Requests
    BY <2>1 DEF Requests
  <2>3. pending' \in [Workers -> Requests \cup {Idle}]
    BY <1>9, <2>2 DEF ReadTime
  <2>. QED BY <1>9, <2>3 DEF ReadTime
<1>10. CASE ResetCases
  BY <1>10 DEF ResetCases
<1>11. CASE UNCHANGED apiVars
  BY <1>11 DEF apiVars
<1>. QED BY <1>1, <1>2, <1>3, <1>4, <1>5, <1>6, <1>7, <1>8, <1>9, <1>10, <1>11 DEF ApiNext

LEMMA ApiKeepsTodo ==
  ASSUME ApiInv, [ApiNext]_apiVars
  PROVE  BatchOwnsTodo'
BY DEF ApiInv, BatchOwnsTodo, ApiNext, Batch, SyncOne, EndBatch, BeginReset, ResetCases,
       EndReset, Receive, ReadTime, Execute, Refuse, apiVars

LEMMA ApiKeepsNothingKnown ==
  ASSUME ApiInv, [ApiNext]_apiVars
  PROVE  NothingKnown'
BY DEF ApiInv, NothingKnown, ApiNext, Batch, SyncOne, EndBatch, BeginReset, ResetCases,
       EndReset, Receive, ReadTime, Execute, Refuse, apiVars

\* A person changes neither whether an incident has a case nor what the case
\* shows of it.
LEMMA ActKeepsSources ==
  ASSUME IInv, NEW i \in Incidents, NEW a \in Actors, NEW at \in Times,
         PersonActs(i, a, at)
  PROVE  \A j \in Incidents : /\ HasCase(j)' = HasCase(j)
                              /\ cases'[j].source = cases[j].source
<1>1. TypeOK /\ cases[i] \in Cases
  BY DEF IInv, TypeOK
<1>2. \E op \in DOMAIN AllowedFrom : MayAct(i, a, op)
  BY DEF PersonActs, Acknowledge, Assign, StartReview, AddNote, Escalate, Resolve, Close,
         AllowedFrom
<1>3. HasCase(i)
  BY <1>2 DEF MayAct
<1>4. /\ a \in Actors \cup {Nobody} /\ noteCounter + 1 \in Nat
      /\ Nobody \in Actors \cup Roles \cup Nat \cup {Nobody}
      /\ cases[i].status \in Statuses
  BY <1>1, <1>3 DEF IInv, TypeOK, HasCase, Cases
<1>5. ASSUME NEW c, Store(i, c), c.source = cases[i].source, c.status \in Statuses
      PROVE  \A j \in Incidents : /\ HasCase(j)' = HasCase(j)
                                  /\ cases'[j].source = cases[j].source
  BY <1>1, <1>3, <1>5 DEF TypeOK, HasCase, Statuses, Store
<1>6. CASE Acknowledge(i, a, at)
  <2>. DEFINE m == Moved(i, "ACKNOWLEDGED", a, "ACKNOWLEDGED", Nobody, at)
              c == [m EXCEPT !.ackBy = a]
  <2>0. "ACKNOWLEDGED" \in ActionTypes /\ "ACKNOWLEDGED" \in Statuses
    BY DEF ActionTypes, Statuses
  <2>1. m \in Cases /\ m.source = cases[i].source /\ m.status \in Statuses
    BY <1>1, <1>4, <2>0, MovedType
  <2>2. Store(i, c)
    BY <1>6 DEF Acknowledge
  <2>. HIDE DEF m
  <2>3. c.source = cases[i].source /\ c.status \in Statuses
    BY <2>1 DEF Cases
  <2>. HIDE DEF c
  <2>. QED BY <1>5, <2>2, <2>3
<1>7. ASSUME NEW owner \in Actors, Assign(i, a, owner, at)
      PROVE  \A j \in Incidents : /\ HasCase(j)' = HasCase(j)
                                  /\ cases'[j].source = cases[j].source
  <2>. DEFINE m == Moved(i, "ASSIGNED", a, "ASSIGNED", owner, at)
              c == [m EXCEPT !.owner = owner]
  <2>0. "ASSIGNED" \in ActionTypes /\ "ASSIGNED" \in Statuses
    BY DEF ActionTypes, Statuses
  <2>1. m \in Cases /\ m.source = cases[i].source /\ m.status \in Statuses
    BY <1>1, <1>4, <2>0, MovedType
  <2>2. Store(i, c)
    BY <1>7 DEF Assign
  <2>. HIDE DEF m
  <2>3. c.source = cases[i].source /\ c.status \in Statuses
    BY <2>1 DEF Cases
  <2>. HIDE DEF c
  <2>. QED BY <1>5, <2>2, <2>3
<1>8. CASE StartReview(i, a, at)
  <2>. DEFINE m == Moved(i, "REVIEW_STARTED", a, "IN_REVIEW", Nobody, at)
              c == m
  <2>0. "REVIEW_STARTED" \in ActionTypes /\ "IN_REVIEW" \in Statuses
    BY DEF ActionTypes, Statuses
  <2>1. m \in Cases /\ m.source = cases[i].source /\ m.status \in Statuses
    BY <1>1, <1>4, <2>0, MovedType
  <2>2. Store(i, c)
    BY <1>8 DEF StartReview
  <2>. HIDE DEF m
  <2>3. c.source = cases[i].source /\ c.status \in Statuses
    BY <2>1 DEF Cases
  <2>. HIDE DEF c
  <2>. QED BY <1>5, <2>2, <2>3
<1>9. ASSUME NEW v \in Visibilities, AddNote(i, a, v, at)
      PROVE  \A j \in Incidents : /\ HasCase(j)' = HasCase(j)
                                  /\ cases'[j].source = cases[j].source
  <2>. DEFINE m == Moved(i, "NOTE_ADDED", a, cases[i].status, noteCounter + 1, at)
              c == [m EXCEPT !.notes = Append(@, [id |-> noteCounter + 1, author |-> a,
                                                  visibility |-> v, at |-> at])]
  <2>0. "NOTE_ADDED" \in ActionTypes
    BY DEF ActionTypes, Statuses
  <2>1. m \in Cases /\ m.source = cases[i].source /\ m.status \in Statuses
    BY <1>1, <1>4, <2>0, MovedType
  <2>2. Store(i, c)
    BY <1>9 DEF AddNote
  <2>. HIDE DEF m
  <2>3. c.source = cases[i].source /\ c.status \in Statuses
    BY <2>1 DEF Cases
  <2>. HIDE DEF c
  <2>. QED BY <1>5, <2>2, <2>3
<1>10. ASSUME NEW role \in Roles, Escalate(i, a, role, at)
      PROVE  \A j \in Incidents : /\ HasCase(j)' = HasCase(j)
                                  /\ cases'[j].source = cases[j].source
  <2>. DEFINE m == Moved(i, "ESCALATED", a, "ESCALATED", role, at)
              c == [m EXCEPT !.target = role]
  <2>0. "ESCALATED" \in ActionTypes /\ "ESCALATED" \in Statuses
    BY DEF ActionTypes, Statuses
  <2>1. m \in Cases /\ m.source = cases[i].source /\ m.status \in Statuses
    BY <1>1, <1>4, <2>0, MovedType
  <2>2. Store(i, c)
    BY <1>10 DEF Escalate
  <2>. HIDE DEF m
  <2>3. c.source = cases[i].source /\ c.status \in Statuses
    BY <2>1 DEF Cases
  <2>. HIDE DEF c
  <2>. QED BY <1>5, <2>2, <2>3
<1>11. CASE Resolve(i, a, at)
  <2>. DEFINE m == Moved(i, "RESOLVED", a, "RESOLVED", Nobody, at)
              c == [m EXCEPT !.resolvedBy = a]
  <2>0. "RESOLVED" \in ActionTypes /\ "RESOLVED" \in Statuses
    BY DEF ActionTypes, Statuses
  <2>1. m \in Cases /\ m.source = cases[i].source /\ m.status \in Statuses
    BY <1>1, <1>4, <2>0, MovedType
  <2>2. Store(i, c)
    BY <1>11 DEF Resolve
  <2>. HIDE DEF m
  <2>3. c.source = cases[i].source /\ c.status \in Statuses
    BY <2>1 DEF Cases
  <2>. HIDE DEF c
  <2>. QED BY <1>5, <2>2, <2>3
<1>12. CASE Close(i, a, at)
  <2>. DEFINE m == Moved(i, "CLOSED", a, "CLOSED", Nobody, at)
              c == m
  <2>0. "CLOSED" \in ActionTypes /\ "CLOSED" \in Statuses
    BY DEF ActionTypes, Statuses
  <2>1. m \in Cases /\ m.source = cases[i].source /\ m.status \in Statuses
    BY <1>1, <1>4, <2>0, MovedType
  <2>2. Store(i, c)
    BY <1>12 DEF Close
  <2>. HIDE DEF m
  <2>3. c.source = cases[i].source /\ c.status \in Statuses
    BY <2>1 DEF Cases
  <2>. HIDE DEF c
  <2>. QED BY <1>5, <2>2, <2>3
<1>. QED BY <1>6, <1>7, <1>8, <1>9, <1>10, <1>11, <1>12 DEF PersonActs

\* After sync_incidents has seen an incident, its case shows it.
LEMMA SyncMirrors ==
  ASSUME IInv, NEW i \in Incidents, NEW s \in Snapshots, NEW at \in Times,
         SyncIncident(i, s, at)
  PROVE  /\ HasCase(i)' /\ cases'[i].source = s
         /\ \A j \in Incidents : j # i => cases'[j] = cases[j]
<1>1. TypeOK /\ cases \in [Incidents -> Cases] /\ cases[i] \in Cases
  BY DEF IInv, TypeOK
<1>2. /\ Nobody \in Actors \cup Roles \cup Nat \cup {Nobody}
      /\ Nobody \in Actors \cup {Nobody}
      /\ "OPEN" \in Statuses
      /\ "CASE_CREATED" \in ActionTypes /\ "INCIDENT_SYNCED" \in ActionTypes
  BY DEF Statuses, ActionTypes
<1>3. ASSUME NEW m \in Cases, m.status \in Statuses, Store(i, [m EXCEPT !.source = s])
      PROVE  /\ HasCase(i)' /\ cases'[i].source = s
             /\ \A j \in Incidents : j # i => cases'[j] = cases[j]
  BY <1>1, <1>3 DEF Store, Cases, HasCase, Statuses
<1>4. CASE CreateCase(i, s, at)
  <2>. DEFINE e == Audit(i, "CASE_CREATED", Nobody, "OPEN", Nobody, at)
              m == Audited(NoCase, e)
  <2>1. e \in Entries /\ e.to = "OPEN"
    BY <1>1, <1>2, EntryType DEF Audit
  <2>2. NoCase \in Cases
    BY DEF NoCase, Cases
  <2>. HIDE DEF e
  <2>3. m \in Cases /\ m.status \in Statuses
    BY <2>1, <2>2, AuditedType DEF Statuses
  <2>4. Store(i, [m EXCEPT !.source = s])
    BY <1>4 DEF CreateCase, e
  <2>. HIDE DEF m
  <2>. QED BY <1>3, <2>3, <2>4
<1>5. CASE SyncExisting(i, s, at)
  <2>. DEFINE e == Audit(i, "INCIDENT_SYNCED", Nobody, cases[i].status, Nobody, at)
              m == Audited(cases[i], e)
  <2>1. cases[i].status \in Statuses
    BY <1>1, <1>5 DEF SyncExisting, HasCase, Cases
  <2>2. e \in Entries
    BY <1>1, <1>2, <2>1, EntryType
  <2>3. e.to = cases[i].status
    BY DEF Audit
  <2>. HIDE DEF e
  <2>4. m \in Cases /\ m.status \in Statuses
    BY <1>1, <2>1, <2>2, <2>3, AuditedType
  <2>5. Store(i, [m EXCEPT !.source = s])
    BY <1>5 DEF SyncExisting, Moved, e
  <2>. HIDE DEF m
  <2>. QED BY <1>3, <2>4, <2>5
<1>. QED BY <1>4, <1>5 DEF SyncIncident

LEMMA ApiKeepsMirror ==
  ASSUME ApiInv, [ApiNext]_apiVars
  PROVE  CasesMirrorIncidents'
<1>1. /\ incidents \in [Incidents -> Snapshots \cup {Nobody}]
      /\ cases \in [Incidents -> Cases]
  BY DEF ApiInv, ApiTypes, IInv, TypeOK
<1>2. /\ todo \subseteq Known
      /\ phase # "forgetting" =>
           \A i \in Incidents \ todo :
             /\ HasCase(i) => i \in Known /\ cases[i].source = incidents[i]
             /\ i \in Known /\ incidents[i].status = "ACTIVE" => HasCase(i)
  BY DEF ApiInv, CasesMirrorIncidents
<1>3. ASSUME NEW t \in 0..MaxTime, Batch(t) PROVE CasesMirrorIncidents'
  <2>1. /\ todo = {} /\ cases' = cases /\ phase = "free"
        /\ todo' = {i \in Incidents : incidents'[i] # Nobody}
        /\ \A i \in Known : incidents'[i] # Nobody
    BY <1>3 DEF Batch, ApiInv, BatchOwnsTodo, caseVars
  <2>2. todo' = Known'
    BY <2>1 DEF Known
  <2>3. ASSUME NEW i \in Incidents \ todo' PROVE ~HasCase(i)' /\ i \notin Known'
    <3>1. i \notin Known' /\ i \notin Known
      BY <2>1, <2>2
    <3>2. ~HasCase(i)
      BY <1>2, <2>1, <3>1
    <3>. QED BY <2>1, <3>1, <3>2 DEF HasCase
  <2>. QED BY <2>2, <2>3 DEF CasesMirrorIncidents
<1>4. ASSUME NEW i \in Incidents, SyncOne(i) PROVE CasesMirrorIncidents'
  <2>1. /\ i \in todo /\ todo' = todo \ {i} /\ incidents' = incidents /\ Known' = Known
        /\ phase = "batch"
    BY <1>4 DEF SyncOne, Known
  <2>2. i \in Known /\ incidents[i] \in Snapshots
    BY <1>1, <1>2, <2>1 DEF Known
  <2>3. /\ \A j \in Incidents : j # i => cases'[j] = cases[j]
        /\ HasCase(i)' => cases'[i].source = incidents[i]
        /\ incidents[i].status = "ACTIVE" => HasCase(i)'
    <3>1. CASE SyncIncident(i, incidents[i], now)
      BY <2>2, <3>1, ClockInTimes, SyncMirrors DEF ApiInv, ApiTypes
    <3>2. CASE /\ IF HasCase(i) THEN ~Differs(cases[i], incidents[i])
                                ELSE incidents[i].status # "ACTIVE"
               /\ UNCHANGED caseVars
      <4>1. cases' = cases
        BY <3>2 DEF caseVars
      <4>. QED BY <3>2, <4>1 DEF Differs, HasCase
    <3>. QED BY <1>4, <3>1, <3>2 DEF SyncOne
  <2>4. ASSUME NEW j \in Incidents \ todo'
        PROVE  /\ HasCase(j)' => j \in Known' /\ cases'[j].source = incidents'[j]
               /\ j \in Known' /\ incidents'[j].status = "ACTIVE" => HasCase(j)'
    <3>1. CASE j = i
      BY <2>1, <2>2, <2>3, <3>1
    <3>2. CASE j # i
      <4>1. j \in Incidents \ todo /\ cases'[j] = cases[j]
        BY <2>1, <2>3, <3>2
      <4>. QED BY <1>2, <2>1, <4>1 DEF HasCase
    <3>. QED BY <3>1, <3>2
  <2>. QED BY <1>2, <2>1, <2>4 DEF CasesMirrorIncidents
<1>5. CASE BeginReset
  <2>1. phase' = "forgetting" /\ todo' = {}
    BY <1>5 DEF BeginReset, ApiInv, BatchOwnsTodo
  <2>. QED BY <2>1 DEF CasesMirrorIncidents
<1>6. CASE ResetCases
  <2>1. /\ \A i \in Incidents : cases'[i].status = "NONE"
        /\ incidents' = incidents /\ todo' = todo /\ todo = {}
    BY <1>6 DEF ResetCases, Reset, NoCase, ApiInv, BatchOwnsTodo
  <2>2. \A i \in Incidents : ~HasCase(i)' /\ incidents'[i] = Nobody
    BY <1>6, <2>1 DEF HasCase, ApiInv, NothingKnown, ResetCases
  <2>3. Known' = {}
    BY <2>2 DEF Known
  <2>. QED BY <2>1, <2>2, <2>3 DEF CasesMirrorIncidents
<1>7. ASSUME NEW w \in Workers, Execute(w) PROVE CasesMirrorIncidents'
  <2>. DEFINE r == pending[w]
  <2>1. /\ r \in Requests /\ Call(r) /\ incidents' = incidents /\ todo' = todo
        /\ r.at \in 0..MaxTime /\ phase' = phase
    BY <1>7, TimedRequest DEF Execute, ApiInv
  <2>2. r.case \in Incidents /\ r.actor \in Actors /\ r.at \in Times
    BY <2>1, ClockInTimes DEF Requests
  <2>. HIDE DEF r
  <2>3. \A j \in Incidents : /\ HasCase(j)' = HasCase(j)
                             /\ cases'[j].source = cases[j].source
    BY <2>1, <2>2, CallActs, ActKeepsSources DEF ApiInv
  <2>4. Known' = Known
    BY <2>1 DEF Known
  <2>. QED BY <1>2, <2>1, <2>3, <2>4 DEF CasesMirrorIncidents
<1>8. CASE \/ EndBatch \/ EndReset
           \/ \E w \in Workers :
                \/ \E op \in DOMAIN AllowedFrom, i \in Incidents, a \in Actors :
                     Receive(w, op, i, a)
                \/ ReadTime(w)
                \/ Refuse(w)
           \/ UNCHANGED apiVars
  <2>1. /\ cases' = cases /\ incidents' = incidents /\ todo' = todo
        /\ phase' # "forgetting" => phase # "forgetting"
    BY <1>8 DEF EndBatch, EndReset, Receive, ReadTime, Refuse, apiVars, caseVars
  <2>2. Known' = Known /\ \A j \in Incidents : HasCase(j)' = HasCase(j)
    BY <2>1 DEF Known, HasCase
  <2>. QED BY <1>2, <2>1, <2>2 DEF CasesMirrorIncidents
<1>. QED BY <1>3, <1>4, <1>5, <1>7, <1>8, <1>6 DEF ApiNext

\* But for a reset, no entry ever leaves a history.
LEMMA HistoriesGrow ==
  ASSUME IInv, [Next]_caseVars, ~Reset
  PROVE  \A i \in Incidents : AuditIds(i) \subseteq AuditIds(i)'
<1>1. ASSUME NEW i \in Incidents, NEW c, NEW e, Extends(i, c, e), NEW j \in Incidents
      PROVE  AuditIds(j) \subseteq AuditIds(j)'
  <2>. DEFINE h == cases[i].history
  <2>1. /\ Len(h) \in Nat /\ DOMAIN h = 1..Len(h) /\ DOMAIN c.history = 1..(Len(h) + 1)
        /\ \A k \in 1..Len(h) : c.history[k] = h[k]
        /\ cases'[i] = c /\ \A l \in Incidents : l # i => cases'[l] = cases[l]
    BY <1>1, Grown DEF IInv
  <2>2. CASE j # i
    BY <2>1, <2>2 DEF AuditIds
  <2>3. CASE j = i
    <3>1. DOMAIN h \subseteq DOMAIN c.history
      BY <2>1
    <3>2. \A k \in DOMAIN h : c.history[k].id = h[k].id
      BY <2>1
    <3>. HIDE DEF h
    <3>3. {h[k].id : k \in DOMAIN h} \subseteq {c.history[k].id : k \in DOMAIN c.history}
      BY <3>1, <3>2
    <3>. QED BY <2>1, <2>3, <3>3 DEF AuditIds, h
  <2>. QED BY <2>2, <2>3
<1>2. CASE UNCHANGED caseVars
  BY <1>2 DEF caseVars, AuditIds
<1>. QED BY <1>1, <1>2, StepsExtend DEF IInv, ExtendsSome

\* A call writes an entry with the next number to its own case.
LEMMA CallIsWritten ==
  ASSUME IInv, NEW i \in Incidents, NEW a \in Actors, NEW at \in Times,
         PersonActs(i, a, at)
  PROVE  auditCounter' \in AuditIds(i)' /\ ~Reset
<1>1. ExtendsSome(i)
  BY PersonExtendsCase DEF IInv
<1>. PICK c, e : Extends(i, c, e)
  BY <1>1 DEF ExtendsSome
<1>2. /\ c.history[Len(c.history)] = e /\ Len(c.history) \in DOMAIN c.history
      /\ cases'[i] = c
  BY Grown DEF IInv
<1>3. e.id = auditCounter' /\ auditCounter' = auditCounter + 1 /\ auditCounter \in Nat
  BY DEF Extends, IInv, TypeOK
<1>4. auditCounter' \in AuditIds(i)'
  BY <1>2, <1>3 DEF AuditIds
<1>. QED BY <1>3, <1>4 DEF Reset

LEMMA ApiKeepsUpdates ==
  ASSUME ApiInv, [ApiNext]_apiVars
  PROVE  NoLostUpdate'
<1>1. [Next]_caseVars
  BY ApiKeepsService
<1>2. CASE ResetCases
  BY <1>2 DEF ResetCases, NoLostUpdate
<1>3. ASSUME NEW w \in Workers, Execute(w) PROVE NoLostUpdate'
  <2>1. PICK r \in Requests :
          /\ Call(r) /\ r.at \in 0..MaxTime
          /\ answered' = answered \cup {<<r.case, auditCounter'>>}
    BY <1>3, TimedRequest DEF Execute, ApiInv
  <2>2. r.case \in Incidents /\ r.actor \in Actors /\ r.at \in Times
    BY <2>1, ClockInTimes DEF Requests
  <2>3. auditCounter' \in AuditIds(r.case)' /\ ~Reset
    BY <2>1, <2>2, CallActs, CallIsWritten DEF ApiInv
  <2>4. \A i \in Incidents : AuditIds(i) \subseteq AuditIds(i)'
    BY <1>1, <2>3, HistoriesGrow DEF ApiInv
  <2>5. ASSUME NEW q \in answered' PROVE q[2] \in AuditIds(q[1])'
    <3>1. CASE q = <<r.case, auditCounter'>>
      BY <2>3, <3>1
    <3>2. CASE q \in answered
      BY <2>4, <3>2 DEF ApiInv, ApiTypes, NoLostUpdate
    <3>. QED BY <2>1, <2>5, <3>1, <3>2
  <2>. QED BY <2>5 DEF NoLostUpdate
<1>4. ASSUME answered' = answered, ~Reset PROVE NoLostUpdate'
  <2>1. \A i \in Incidents : AuditIds(i) \subseteq AuditIds(i)'
    BY <1>1, <1>4, HistoriesGrow DEF ApiInv
  <2>. QED BY <1>4, <2>1 DEF ApiInv, ApiTypes, NoLostUpdate
<1>5. ASSUME UNCHANGED caseVars, answered' = answered PROVE NoLostUpdate'
  <2>1. \A i \in Incidents : AuditIds(i)' = AuditIds(i)
    BY <1>5 DEF AuditIds, caseVars
  <2>. QED BY <1>5, <2>1 DEF ApiInv, ApiTypes, NoLostUpdate
<1>6. ASSUME NEW i \in Incidents, SyncOne(i) PROVE NoLostUpdate'
  <2>1. answered' = answered
    BY <1>6 DEF SyncOne
  <2>2. CASE SyncIncident(i, incidents[i], now)
    <3>1. auditCounter' = auditCounter + 1 /\ auditCounter \in Nat
      BY <2>2 DEF SyncIncident, CreateCase, SyncExisting, Store, Numbered, ApiInv, IInv, TypeOK
    <3>2. ~Reset
      BY <3>1 DEF Reset
    <3>. QED BY <1>4, <2>1, <3>2
  <2>. QED BY <1>5, <1>6, <2>1, <2>2 DEF SyncOne
<1>7. CASE \/ \E t \in 0..MaxTime : Batch(t)
           \/ EndBatch \/ BeginReset \/ EndReset
           \/ \E w \in Workers :
                \/ \E op \in DOMAIN AllowedFrom, i \in Incidents, a \in Actors :
                     Receive(w, op, i, a)
                \/ ReadTime(w)
                \/ Refuse(w)
           \/ UNCHANGED apiVars
  <2>1. UNCHANGED caseVars /\ answered' = answered
    BY <1>7 DEF Batch, EndBatch, BeginReset, EndReset, Receive, ReadTime, Refuse, apiVars,
                caseVars
  <2>. QED BY <1>5, <2>1
<1>. QED BY <1>2, <1>3, <1>6, <1>7 DEF ApiNext

-----------------------------------------------------------------------------
(* The theorems.                                                           *)

LEMMA ApiInitInvariant == ApiInit => ApiInv
<1>. SUFFICES ASSUME ApiInit PROVE ApiInv
  OBVIOUS
<1>1. IInv
  BY InitInvariant DEF ApiInit
<1>2. ApiTypes
  BY ApiAssumption DEF ApiInit, ApiTypes, ApiAssumption
<1>3. CasesMirrorIncidents
  <2>1. Known = {} /\ \A i \in Incidents : ~HasCase(i)
    BY DEF ApiInit, Init, Known, HasCase, NoCase
  <2>. QED BY <2>1 DEF ApiInit, CasesMirrorIncidents
<1>. QED BY <1>1, <1>2, <1>3 DEF ApiInit, ApiInv, BatchOwnsTodo, NothingKnown, NoLostUpdate

LEMMA ApiNextInvariant == ApiInv /\ [ApiNext]_apiVars => ApiInv'
<1>. SUFFICES ASSUME ApiInv, [ApiNext]_apiVars PROVE ApiInv'
  OBVIOUS
<1>1. IInv'
  BY ApiKeepsService
<1>2. ApiTypes' /\ BatchOwnsTodo' /\ NothingKnown'
  BY ApiKeepsTypes, ApiKeepsTodo, ApiKeepsNothingKnown
<1>3. CasesMirrorIncidents' /\ NoLostUpdate'
  BY ApiKeepsMirror, ApiKeepsUpdates
<1>. QED BY <1>1, <1>2, <1>3 DEF ApiInv

LEMMA ApiInvariantHolds == ApiSpec => []ApiInv
BY ApiInitInvariant, ApiNextInvariant, PTL DEF ApiSpec

\* app/api/v1/cases.py and the replay controller use the service only as its
\* own specification lets anybody: all that holds of Spec holds of the API.
THEOREM ApiUsesService == ApiSpec => Spec
<1>1. ApiInit => Init
  BY DEF ApiInit
<1>2. ApiInv /\ [ApiNext]_apiVars => [Next]_caseVars
  BY ApiKeepsService
<1>. QED BY <1>1, <1>2, ApiInvariantHolds, PTL DEF ApiSpec, Spec

\* sync_incidents and reset under the API: outside a running batch, and but for the
\* moment of a reset between fusion and the service, the cases show exactly the
\* incidents, whatever requests and resets came between.
THEOREM MirrorHolds == ApiSpec => []CasesMirrorIncidents
<1>1. ApiInv => CasesMirrorIncidents
  BY DEF ApiInv
<1>. QED BY <1>1, ApiInvariantHolds, PTL

\* Every endpoint of cases.py: a call answered with a case stays in the trail of
\* that case until the next reset.
THEOREM UpdatesStay == ApiSpec => []NoLostUpdate
<1>1. ApiInv => NoLostUpdate
  BY DEF ApiInv
<1>. QED BY <1>1, ApiInvariantHolds, PTL

\* The whole API, with its concurrent requests, implements the auditor's log.
THEOREM ApiKeepsLog == ApiSpec => LogRefinement
BY ApiUsesService, LogImplemented, PTL
=============================================================================

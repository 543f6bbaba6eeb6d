----------------------------- MODULE Explanations -----------------------------
(***************************************************************************)
(* GroundedExplanationService of app/explanations/service.py and the two   *)
(* endpoints of app/api/v1/explanations.py, beside the fusion engine that  *)
(* they explain the incidents of.                                          *)
(*                                                                         *)
(* A request takes an incident as it finds it, asks a language model,      *)
(* which may take long, answer anything, or not answer, and puts its own   *)
(* text in the place of an answer that does not hold.  It holds no lock:   *)
(* the replay goes on, and is reset, in the meantime.                      *)
(*                                                                         *)
(* A text is what it can be judged by: the figures in it, the providers it *)
(* names, whether it says something forbidden, whether it says that it is  *)
(* uncertain.  A figure is the digits of a number: of something, at the    *)
(* time its incident was last updated.  What the text around it claims the *)
(* number to be is not looked at, neither by the code nor here, and the    *)
(* ids of transactions count as figures, as they do in _validate_numbers.  *)
(* The checks of a draft search for patterns: digits right behind a letter *)
(* (BDT5000) and providers in Bengali script are in the text all the same, *)
(* and are not found.                                                      *)
(***************************************************************************)
EXTENDS Fusion

CONSTANTS
  Workers,       \* threads serving requests
  Requests,      \* what is requested: audience, viewer and prefer_ai
  AIConfigured,  \* enabled, and there is a generator
  Nobody         \* viewer_provider_id = None

ProviderIDs == {"BKASH", "NAGAD", "ROCKET"}
Audiences == {"AGENT", "FIELD_OFFICER", "PROVIDER_OPERATIONS", "RISK_REVIEWER", "MANAGEMENT"}

ASSUME ExplanationAssumption ==
  /\ Nobody \notin ProviderIDs
  /\ Requests \subseteq [audience : Audiences, viewer : ProviderIDs \cup {Nobody},
                         ai : BOOLEAN]
  /\ AIConfigured \in BOOLEAN

VARIABLES
  cased,  \* the incidents the case service has a case of
  calls,  \* per worker, the request it serves, or has answered
  held    \* history: per worker, the states its incident had during the request

explanationVars == <<fusionVars, cased, calls, held>>

Idle == [stage |-> "idle"]

\* max_retries=1
MaxAttempts == 2

ExplanationInit ==
  /\ Init
  /\ cased = {}
  /\ calls = [w \in Workers |-> Idle]
  /\ held = [w \in Workers |-> {}]

-----------------------------------------------------------------------------
(* The grounding payload.                                                  *)

\* The provider boundary of a request q about an incident of scope S.
Forbidden(q, S) ==
  /\ q.audience = "PROVIDER_OPERATIONS"
  /\ S # {} \/ q.viewer = Nobody
  /\ q.viewer \notin S

\* The providers the payload names in its scope.
VisibleScope(q, S) == IF q.audience = "PROVIDER_OPERATIONS" THEN {q.viewer} ELSE S

Redacted(q, S) == q.audience = "PROVIDER_OPERATIONS" /\ S \ {q.viewer} # {}

\* The numbers of an incident that stand free, not behind a letter.
Figures(things, i) == [of : things, at : {i.updated}, free : {TRUE}]

\* All the evidence of the incident goes in, whoever it is about; only a risk
\* reviewer gets the transactions.
PayloadFigures(q, i) ==
  Figures(i.seen.evidence
            \cup (IF i.seen.anomalous THEN {"ACTIVITY"} ELSE {})
            \cup (IF i.seen.anomalous /\ q.audience = "RISK_REVIEWER"
                  THEN {"TRANSACTIONS"} ELSE {}),
          i)

-----------------------------------------------------------------------------
(* The texts.                                                              *)

\* A provider by its id, which has Latin letters, or by its Bengali name.
Names == [id : ProviderIDs, latin : BOOLEAN]

\* The model may write anything.  One figure and one name are enough to be wrong.
Drafts ==
  LET figures == [of : Resources \cup {"ACTIVITY", "TRANSACTIONS"}, at : 0..now,
                  free : BOOLEAN]
  IN  [forbidden : BOOLEAN, hedged : BOOLEAN,
       figures : {{}} \cup {{f} : f \in figures},
       names : {{}} \cup {{n} : n \in Names}]

\* A mutant of AllowedNames: the scope of the incident is taken, not the visible one.
NamesOfIncident(q, S) == S \cup ({q.viewer} \ {Nobody})

AllowedNames(q, S) == VisibleScope(q, S) \cup ({q.viewer} \ {Nobody})

\* What the number pattern and the search for ids find in a text.
FiguresFound(figures) == {f \in figures : f.free}
NamesFound(names) == {n.id : n \in {m \in names : m.latin}}

\* _validate_ai_draft
Accepted(d, c) ==
  /\ ~d.forbidden
  /\ FiguresFound(d.figures) \subseteq PayloadFigures(c.request, c.incident)
  /\ NamesFound(d.names) \subseteq AllowedNames(c.request, c.key.scope)
  /\ d.hedged

Answer(c, source, figures, names, i) ==
  [c EXCEPT !.stage = "answered",
            !.answer = [status |-> "ok", source |-> source, figures |-> figures,
                        names |-> names, title |-> i.updated,
                        redacted |-> Redacted(c.request, c.key.scope)]]

Refuse(c, status) == [c EXCEPT !.stage = "answered", !.answer = [status |-> status]]

\* The first four items of the evidence: it begins with the liquidity.
Shown(i) == IF i.seen.evidence # {} THEN i.seen.evidence ELSE {"ACTIVITY"}

\* The title of a data-quality incident names its provider; the texts in Bangla and
\* Banglish are fixed ones, which name nobody.
Named(i) ==
  IF i.seen.type = "DATA_QUALITY" THEN [id : i.seen.scope, latin : {TRUE}] ELSE {}

\* A mutant of Template: the title is taken from the incident as it is by now.
TemplateOfNow(c) ==
  Answer(c, "TEMPLATE_FALLBACK", Figures(Shown(c.incident), c.incident), Named(c.incident),
         IF Exists(c.key) THEN incidents[c.key] ELSE c.incident)

\* Title, summary and evidence of the incident; this text is not validated.
Template(c) ==
  Answer(c, "TEMPLATE_FALLBACK", Figures(Shown(c.incident), c.incident),
         Named(c.incident), c.incident)

-----------------------------------------------------------------------------
(* The requests.                                                           *)

\* generate_explanation, up to asking the model.
Generate(c) ==
  IF Forbidden(c.request, c.key.scope) THEN Refuse(c, "403")
  ELSE IF c.request.ai /\ AIConfigured THEN [c EXCEPT !.stage = "asking"]
  ELSE Template(c)

Call(stage, k, q, i) ==
  [stage |-> stage, key |-> k, request |-> q, incident |-> i, attempts |-> 0,
   answer |-> [status |-> "none"]]

Begin(w, k, c) ==
  /\ calls[w].stage \in {"idle", "answered"}
  /\ calls' = [calls EXCEPT ![w] = c]
  /\ held' = [held EXCEPT ![w] = {incidents[k]}]
  /\ UNCHANGED <<fusionVars, cased>>

Serve(w, c) ==
  /\ calls' = [calls EXCEPT ![w] = c]
  /\ UNCHANGED <<fusionVars, cased, held>>

\* explain_incident takes the incident first,
ExplainIncident(w, k, q) ==
  LET c == Call("case", k, q, incidents[k])
  IN  Begin(w, k, IF Exists(k) THEN c ELSE Refuse(c, "404"))

\* and goes on without a case when there is none.
ReadCase(w) ==
  /\ calls[w].stage = "case"
  /\ Serve(w, Generate(calls[w]))

\* explain_case takes the case first; the incident may be gone by then.
ExplainCase(w, k, q) ==
  LET c == Call("incident", k, q, None)
  IN  Begin(w, k, IF k \in cased THEN c ELSE Refuse(c, "404"))

ReadIncident(w) ==
  LET c == [calls[w] EXCEPT !.incident = incidents[calls[w].key]]
  IN  /\ calls[w].stage = "incident"
      /\ Serve(w, IF c.incident = None THEN Refuse(c, "404") ELSE Generate(c))

\* The model answers, in time.
ModelAnswers(w) ==
  /\ calls[w].stage = "asking"
  /\ \E d \in Drafts :
       LET c == calls[w]
       IN  Serve(w, IF Accepted(d, c) THEN Answer(c, "OPENAI", d.figures, d.names, c.incident)
                                      ELSE Template(c))

\* A mutant of AttemptFails: an attempt that failed is made again.
AttemptRepeats(w) ==
  LET c == calls[w]
  IN  /\ c.stage = "asking"
      /\ Serve(w, c)

\* The client waits no longer, or gets an error.
AttemptFails(w) ==
  LET c == [calls[w] EXCEPT !.attempts = @ + 1]
  IN  /\ calls[w].stage = "asking"
      /\ Serve(w, IF c.attempts = MaxAttempts THEN Template(c) ELSE c)

WorkerStep(w) == ReadCase(w) \/ ReadIncident(w) \/ ModelAnswers(w) \/ AttemptFails(w)

-----------------------------------------------------------------------------
(* The replay.                                                             *)

\* What an open request may have found its incident to be.
Hold ==
  held' = [w \in Workers |->
             IF calls[w].stage \in {"idle", "answered"} THEN held[w]
             ELSE held[w] \cup {incidents'[calls[w].key]}]

ReplayRefresh(a, in, t) == Refresh(a, in, t) /\ Hold /\ UNCHANGED <<cased, calls>>

\* sync_incidents: an incident that was cleared before gets no case.
SyncCases ==
  /\ cased' = cased \cup {k \in Keys : Active(k)}
  /\ UNCHANGED <<fusionVars, calls, held>>

\* reset initializes the fusion engine, and then empties the case service.
ReplayInitialize == Initialize /\ Hold /\ UNCHANGED <<cased, calls>>

ResetCases ==
  /\ refreshes = 0
  /\ cased' = {}
  /\ UNCHANGED <<fusionVars, calls, held>>

ReplayStep ==
  \/ /\ refreshes < MaxRefreshes
     /\ \E a \in Agents, in \in Signals, t \in {now, now + 1} : ReplayRefresh(a, in, t)
  \/ SyncCases \/ ReplayInitialize \/ ResetCases

ExplanationNext ==
  \/ ReplayStep
  \/ \E w \in Workers, k \in Keys, q \in Requests :
       ExplainIncident(w, k, q) \/ ExplainCase(w, k, q)
  \/ \E w \in Workers : WorkerStep(w)

\* A worker goes on, and the client does not wait for ever.  The model is external:
\* that it answers is not assumed.
Fairness ==
  \A w \in Workers :
    WF_explanationVars(ReadCase(w) \/ ReadIncident(w)) /\ WF_explanationVars(AttemptFails(w))

ExplanationSpec == ExplanationInit /\ [][ExplanationNext]_explanationVars /\ Fairness

-----------------------------------------------------------------------------
(* Properties.                                                             *)

Explained(w) == calls[w].stage = "answered" /\ calls[w].answer.status = "ok"

AllFigures(i) ==
  Figures(i.seen.evidence
            \cup (IF i.seen.anomalous THEN {"ACTIVITY", "TRANSACTIONS"} ELSE {}), i)

\* An explanation is of its incident as it was at one moment of the request, whoever
\* wrote it and however long that took: its title and every figure that the number
\* check can find are of one state; none of these is of another time or made up.
OneIncidentExplained ==
  \A w \in Workers : Explained(w) =>
    \E i \in held[w] \ {None} :
      /\ KeyOf(calls[w].key.agent, i.seen) = calls[w].key
      /\ calls[w].answer.title = i.updated
      /\ FiguresFound(calls[w].answer.figures) \subseteq AllFigures(i)

\* A provider operation is told of incidents its provider is in, or that are of no
\* provider; no other provider is named to it by its id, and the ids of transactions
\* are shown as free figures to risk reviewers only.
BoundariesKept ==
  \A w \in Workers : Explained(w) =>
    LET q == calls[w].request
        names == NamesFound(calls[w].answer.names)
    IN  /\ q.audience = "PROVIDER_OPERATIONS" =>
             /\ calls[w].key.scope = {} \/ q.viewer \in calls[w].key.scope
             /\ names \subseteq {q.viewer}
        /\ names \subseteq calls[w].key.scope \cup {q.viewer}
        /\ q.audience # "RISK_REVIEWER" =>
             \A f \in FiguresFound(calls[w].answer.figures) : f.of # "TRANSACTIONS"

\* Every request is answered, also when the model never does.
ExplanationAnswered ==
  \A w \in Workers : calls[w].stage \notin {"idle", "answered"} ~> calls[w].stage = "answered"

\* README.md: a provider-scoped viewer receives "a redacted indication that related
\* activity exists elsewhere, without receiving another provider's confidential
\* details".  The scope is redacted, the evidence is not: an explanation that is
\* marked as redacted shows the balance and the flows of the other provider.
RedactedFiguresAbsent ==
  \A w \in Workers : Explained(w) /\ calls[w].answer.redacted =>
    \A f \in FiguresFound(calls[w].answer.figures) :
      f.of \in {"CASH", "ACTIVITY", calls[w].request.viewer}
=============================================================================

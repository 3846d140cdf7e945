----------------------------- MODULE Interpretation -----------------------------
(* From the evidence catalog to the published briefing (agents/service.py, and *)
(* its call in services/analysis_service.py): the model is optional at every    *)
(* step, two attempts at a briefing, and the rules when there is none.         *)
EXTENDS Investigation, Briefing

CONSTANT Drafts      \* what the model may answer

ASSUME InterpretationAssumption == Drafts \subseteq ReportDraft

VARIABLES
  settings,    \* [key, model : BOOLEAN]: are they configured?
  reserved,    \* reserve_budget("llm:<day>") answered yes
  useModel,
  llm,         \* a model client exists
  phase,       \* "investigate", "brief", "write", "label", "done"
  attempt,
  feedback,    \* what the model is told about its previous answer
  reason,
  author,
  selection

bVars == <<settings, reserved, useModel, llm, phase, attempt, feedback, reason, author, selection>>
vars == <<iVars, bVars>>

NoSelection == [summary |-> <<>>, findings |-> <<>>, uncertainties |-> <<>>,
                actions |-> <<>>]

\* A model plan only adds value when there is something to prioritise.
FirstPlanner ==
  IF llm /\ Cardinality(Revocable(targets)) >= 2 THEN "model" ELSE "baseline"

\* The budget is only asked when key and model are configured; creating the
\* client may fail.
InterpretationInit ==
  /\ \E e \in Exposures : targets = Targets(e)
  /\ settings \in [key : BOOLEAN, model : BOOLEAN]
  /\ reserved \in BOOLEAN /\ (reserved => settings.key /\ settings.model)
  /\ useModel = (settings.key /\ settings.model /\ reserved)
  /\ llm \in BOOLEAN /\ (llm => useModel)
  /\ InvestigationInit(FirstPlanner)
  /\ phase = "investigate"
  /\ attempt = 1
  /\ feedback = "none"
  /\ reason = IF ~useModel THEN "no model configured"
              ELSE IF ~llm THEN "client failed" ELSE "none"
  /\ author = "none"
  /\ selection = NoSelection

Investigate ==
  /\ phase = "investigate"
  /\ InvestigationStep
  /\ UNCHANGED bVars

Investigated ==
  /\ phase = "investigate"
  /\ pc = "done"
  /\ phase' = IF llm THEN "brief" ELSE "write"
  /\ UNCHANGED <<iVars, settings, reserved, useModel, llm, attempt, feedback, reason, author, selection>>

\* Faulty variant: the attempts are not limited.
TryAgainForever == phase' = "brief" /\ attempt' = attempt + 1

\* The next attempt, or the baseline after the second.
TryAgain == phase' = (IF attempt < 2 THEN "brief" ELSE "write") /\ attempt' = attempt + 1

\* The model's draft passes validation.
Accept ==
  /\ phase = "brief"
  /\ \E draft \in Drafts :
       /\ ~Rejected(draft, targets, claims)
       /\ selection' = Selection(draft)
  /\ author' = "model"
  /\ phase' = "write"
  /\ UNCHANGED <<iVars, settings, reserved, useModel, llm, attempt, feedback, reason>>

\* Faulty variant: the draft is used although it was refused.
RejectUsing ==
  /\ phase = "brief"
  /\ \E draft \in Drafts : selection' = Selection(draft)
  /\ author' = "model"
  /\ phase' = "write"
  /\ UNCHANGED <<iVars, settings, reserved, useModel, llm, attempt, feedback, reason>>

\* SelectionRejected.
Reject ==
  /\ phase = "brief"
  /\ \E draft \in Drafts : Rejected(draft, targets, claims)
  /\ feedback' = "problems"
  /\ reason' = "rejected twice"
  /\ TryAgain
  /\ UNCHANGED <<iVars, settings, reserved, useModel, llm, author, selection>>

\* Faulty variant: the failure is not given as the reason.
FormatFailureSilent ==
  /\ phase = "brief"
  /\ feedback' = "schema"
  /\ TryAgain
  /\ UNCHANGED <<iVars, settings, reserved, useModel, llm, reason,
                 author, selection>>

\* A malformed answer is repairable.
FormatFailure ==
  /\ phase = "brief"
  /\ reason' = "format"
  /\ feedback' = "schema"
  /\ TryAgain
  /\ UNCHANGED <<iVars, settings, reserved, useModel, llm, author, selection>>

\* Credentials, availability, and timeouts are not.
ProviderFailure ==
  /\ phase = "brief"
  /\ reason' = "provider"
  /\ phase' = "write"
  /\ UNCHANGED <<iVars, settings, reserved, useModel, llm, attempt, feedback, author, selection>>

\* The Interpretation record, with the rules' briefing when there is no other.
\* validate_draft is applied to it too: were it refused, the job would fail.
Write ==
  /\ phase = "write"
  /\ \/ /\ author = "model"
        /\ reason' = "none"
        /\ UNCHANGED <<author, selection>>
     \/ /\ author # "model"
        /\ LET brief == BaselineBrief(targets, claims, facts)
           IN  ~Rejected(brief, targets, claims) /\ selection' = Selection(brief)
        /\ author' = "baseline"
        /\ UNCHANGED reason
  /\ phase' = "label"
  /\ UNCHANGED <<iVars, settings, reserved, useModel, llm, attempt, feedback>>

\* AnalysisService._analyze, after interpret: when the model was not used
\* although a key is configured, the budget is named as the reason.
Label ==
  /\ phase = "label"
  /\ phase' = "done"
  /\ reason' = IF ~useModel /\ settings.key THEN "daily budget" ELSE reason
  /\ UNCHANGED <<iVars, settings, reserved, useModel, llm, attempt, feedback, author, selection>>

BriefingStep ==
  \/ Investigated \/ Accept \/ Reject \/ FormatFailure \/ ProviderFailure
  \/ Write \/ Label

InterpretationNext ==
  \/ Investigate
  \/ BriefingStep
  \/ phase = "done" /\ UNCHANGED vars

InterpretationSpec == InterpretationInit /\ [][InterpretationNext]_vars

-------------------------------------------------------------------------------

InterpretationTypeOK ==
  /\ TypeOK
  /\ phase \in {"investigate", "brief", "write", "label", "done"}
  /\ attempt \in 1..3
  /\ author \in {"none", "model", "baseline"}
  /\ llm \in BOOLEAN
  /\ selection \in AgentSelection

Cited == ToSet(selection.summary) \cup ToSet(selection.findings)
         \cup ToSet(selection.uncertainties)
         \cup (UNION {ToSet(selection.actions[i].because) : i \in DOMAIN selection.actions})

(* Whoever wrote it: a published briefing cites claims of the catalog only,    *)
(* says something, and every action is about a permission the sender can       *)
(* revoke and cites a claim about that very permission.                        *)
Grounded ==
  phase = "done" =>
    /\ Cited \subseteq claims
    /\ selection.summary # <<>>
    /\ \A i \in DOMAIN selection.actions :
         LET act == selection.actions[i]
         IN  /\ targets[act.pid].state = "live"
             /\ targets[act.pid].role \in {"sender", "called_contract"}
             /\ \E claim \in ToSet(act.because) : claim.of = act.pid

(* The fallback cannot fail: whatever the catalog holds and whatever the tools *)
(* found, the rules' briefing passes the validator (SelectionRejected there    *)
(* would fail the whole analysis).                                             *)
BaselineIsValid ==
  phase = "write" => ~Rejected(BaselineBrief(targets, claims, facts), targets, claims)

(* A report without the model's briefing says why, one with it does not, and   *)
(* the model never writes one it was not configured and budgeted for.          *)
BaselineSaysWhy ==
  /\ phase = "done" => (author = "model" <=> reason = "none")
  /\ author = "model" => settings.key /\ settings.model /\ reserved

================================================================================

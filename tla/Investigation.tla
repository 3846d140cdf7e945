----------------------------- MODULE Investigation -----------------------------
(* The investigation of the live permissions (agents/investigator.py, with the *)
(* planners of planner.py and the tools of tools.py): plan, screen, run the     *)
(* accepted tools in parallel, observe, repeat, within a budget.               *)
EXTENDS Catalog

CONSTANTS
  Exposures,      \* what the report may be about: sequences of permissions
  Notes,          \* the optional transaction-wide claims it may have
  MaxCalls,       \* Budget.max_calls
  PerRound,       \* Budget.per_round
  ModelRounds,    \* MODEL_BUDGET.max_rounds
  BaselineRounds, \* BASELINE_BUDGET.max_rounds
  Plans,          \* what the model may request in a round: sequences of calls
  Profiles        \* what a spender may turn out to be

ToolNames == {"spender_profile", "upgrade_control", "known_spender"}
Controls == {"undetermined", "single_key", "contract"}
AllProfiles == {p \in [kind : {"eoa", "delegated", "contract"},
                       proxy : BOOLEAN,
                       drift : {"none", "unchanged", "code_changed", "upgraded"}] :
                p.proxy => p.kind = "contract"}

Call(tool, pid) == [tool |-> tool, pid |-> pid]

ASSUME InvestigationAssumption ==
  /\ MaxCalls \in Nat \ {0}
  /\ PerRound \in Nat \ {0}
  /\ ModelRounds \in Nat \ {0}
  /\ BaselineRounds \in Nat \ {0}
  /\ Exposures \subseteq Seq(Permission)
  /\ Notes \subseteq SUBSET ClaimKind
  /\ Plans \subseteq Seq([tool : ToolNames, pid : Nat])
  /\ Profiles \subseteq AllProfiles

\* BASELINE_BUDGET has a round more than it takes to make all the calls.
ASSUME BaselineBudgetAssumption == MaxCalls <= (BaselineRounds - 1) * PerRound

VARIABLES
  targets,     \* the catalog's permissions
  claims,      \* the catalog's claim ids
  pc,          \* "plan", "screen", "tools", "done"
  planner,     \* who plans the next round: "model" or "baseline"
  roundsLeft,
  callsLeft,
  requested,   \* the calls of the round not yet screened
  accepted,    \* the calls of the round to run, or running
  stepDone,    \* PlanStep.done
  ran,         \* state.done
  facts,       \* state.facts
  modelCalls   \* requests to the model for a plan

catalog == <<targets, claims>>
progress == <<roundsLeft, callsLeft, ran, facts>>
iVars == <<targets, claims, pc, planner, roundsLeft, callsLeft, requested,
           accepted, stepDone, ran, facts, modelCalls>>

Facts == [kind : {"none", "eoa", "delegated", "contract"}, proxy : BOOLEAN,
          drift : {"none", "unchanged", "code_changed", "upgraded"},
          control : {"none"} \cup Controls, known : BOOLEAN]

NoFacts == [kind |-> "none", proxy |-> FALSE, drift |-> "none",
            control |-> "none", known |-> FALSE]

InvestigationInit(by) ==
  /\ \E notes \in Notes : claims = CatalogClaims(targets, notes)
  /\ pc = IF Revocable(targets) = {} THEN "done" ELSE "plan"
  /\ planner = by
  /\ roundsLeft = IF by = "model" THEN ModelRounds ELSE BaselineRounds
  /\ callsLeft = MaxCalls
  /\ requested = <<>>
  /\ accepted = <<>>
  /\ stepDone = FALSE
  /\ ran = {}
  /\ facts = [pid \in DOMAIN targets |-> NoFacts]
  /\ modelCalls = 0

-------------------------------------------------------------------------------
(* Planning.                                                                  *)

RoundBudget == IF PerRound < callsLeft THEN PerRound ELSE callsLeft

\* The tools the baseline wants for a permission, whether they ran or not.
Wanted(pid) ==
  {Call("spender_profile", pid), Call("known_spender", pid)} \cup
  {call \in {Call("upgrade_control", pid)} : facts[pid].proxy}

ToolRank == [spender_profile |-> 1, known_spender |-> 2, upgrade_control |-> 3]

PendingCalls == (UNION {Wanted(pid) : pid \in Revocable(targets)}) \ ran

\* By permission, and in the order of its tools.
Pending ==
  InOrder(PendingCalls, {p \in PendingCalls \X PendingCalls :
    \/ p[1].pid < p[2].pid
    \/ p[1].pid = p[2].pid /\ ToolRank[p[1].tool] < ToolRank[p[2].tool]})

\* Faulty variant: done once everything known to be wanted fits this round.
BaselineStepEarly(calls, end) ==
  /\ calls = Take(RoundBudget, Pending)
  /\ end = (Len(Pending) <= RoundBudget)

\* BaselinePlanner.next.
BaselineStep(calls, end) ==
  /\ calls = Take(RoundBudget, Pending)
  /\ end = (Pending = <<>>)

\* ModelPlanner.next: the model may ask for anything the schema allows.
ModelStep(calls, end) == calls \in Plans /\ end \in BOOLEAN

Plan(calls, end) ==
  /\ pc = "plan"
  /\ requested' = calls
  /\ stepDone' = end
  /\ accepted' = <<>>
  /\ roundsLeft' = roundsLeft - 1
  /\ pc' = "screen"
  /\ UNCHANGED <<catalog, planner, callsLeft, ran, facts>>

PlanBaseline ==
  /\ planner = "baseline"
  /\ \E end \in BOOLEAN, calls \in {Take(RoundBudget, Pending)} :
       BaselineStep(calls, end) /\ Plan(calls, end)
  /\ UNCHANGED modelCalls

PlanModel ==
  /\ planner = "model"
  /\ \E end \in BOOLEAN, calls \in Plans :
       ModelStep(calls, end) /\ Plan(calls, end)
  /\ modelCalls' = modelCalls + 1

\* Faulty variant: the failed planner is asked again.
PlanFailsAgain ==
  /\ pc = "plan"
  /\ planner = "model"
  /\ modelCalls' = modelCalls + 1
  /\ UNCHANGED <<catalog, pc, planner, progress, requested, accepted, stepDone>>

\* A failed model planner degrades to the baseline; the round is not counted.
PlanFails ==
  /\ pc = "plan"
  /\ planner = "model"
  /\ planner' = "baseline"
  /\ modelCalls' = modelCalls + 1
  /\ UNCHANGED <<catalog, pc, progress, requested, accepted, stepDone>>

-------------------------------------------------------------------------------
(* Screening, and the tools.                                                  *)

\* Faulty variant: only earlier rounds are searched for duplicates.
MayRunTwice(call) ==
  /\ call.pid \in Revocable(targets)
  /\ call \notin ran
  /\ Len(accepted) < RoundBudget

\* screen returned None.
MayRun(call) ==
  /\ call.pid \in Revocable(targets)
  /\ call \notin ran
  /\ call \notin ToSet(accepted)
  /\ Len(accepted) < RoundBudget

Screen ==
  /\ pc = "screen"
  /\ requested # <<>>
  /\ requested' = Tail(requested)
  /\ accepted' = IF MayRun(Head(requested))
                 THEN Append(accepted, Head(requested)) ELSE accepted
  /\ UNCHANGED <<catalog, pc, planner, progress, stepDone, modelCalls>>

\* Every call was screened: run the accepted ones, or finish.
Screened ==
  /\ pc = "screen"
  /\ requested = <<>>
  /\ pc' = IF accepted = <<>> THEN "done" ELSE "tools"
  /\ UNCHANGED <<catalog, planner, progress, requested, accepted, stepDone, modelCalls>>

\* The result of the first accepted call is recorded.
Record(call) ==
  /\ pc = "tools"
  /\ accepted # <<>>
  /\ call = Head(accepted)
  /\ accepted' = Tail(accepted)
  /\ ran' = ran \cup {call}
  /\ callsLeft' = callsLeft - 1
  /\ UNCHANGED <<targets, pc, planner, roundsLeft, requested, stepDone,
                 modelCalls>>

AddClaims(pid, kinds) == claims' = claims \cup {Claim(pid, k) : k \in kinds}

\* The tool raised or took more than 20 s.
ToolFails ==
  /\ \E call \in ToSet(accepted) : Record(call)
  /\ UNCHANGED <<claims, facts>>

SpenderProfile ==
  \E call \in ToSet(accepted), p \in Profiles :
    /\ call.tool = "spender_profile"
    /\ Record(call)
    /\ facts' = [facts EXCEPT ![call.pid].kind = p.kind, ![call.pid].proxy = p.proxy,
                              ![call.pid].drift = p.drift]
    /\ AddClaims(call.pid, {"spender", "drift"})

UpgradeControl ==
  \E call \in ToSet(accepted), control \in Controls :
    /\ call.tool = "upgrade_control"
    /\ Record(call)
    /\ facts' = [facts EXCEPT ![call.pid].control = control]
    /\ AddClaims(call.pid, {"control"})

KnownSpender ==
  \E call \in ToSet(accepted), match \in BOOLEAN :
    /\ call.tool = "known_spender"
    /\ Record(call)
    /\ facts' = [facts EXCEPT ![call.pid].known = match]
    /\ AddClaims(call.pid, {"known"})

\* All results are in: the loop's condition, and step.done.
RoundEnds ==
  /\ pc = "tools"
  /\ accepted = <<>>
  /\ pc' = IF stepDone \/ roundsLeft = 0 \/ callsLeft = 0 THEN "done" ELSE "plan"
  /\ UNCHANGED <<catalog, planner, progress, requested, accepted, stepDone, modelCalls>>

InvestigationStep ==
  \/ PlanBaseline \/ PlanModel \/ PlanFails
  \/ Screen \/ Screened
  \/ ToolFails \/ SpenderProfile \/ UpgradeControl \/ KnownSpender
  \/ RoundEnds

InvestigationOver == pc = "done" /\ UNCHANGED iVars

Init ==
  /\ \E e \in Exposures : targets = Targets(e)
  /\ \E by \in {"model", "baseline"} : InvestigationInit(by)

Next == InvestigationStep \/ InvestigationOver

Spec == Init /\ [][Next]_iVars

-------------------------------------------------------------------------------

TypeOK ==
  /\ targets \in Seq(Permission)
  /\ claims \subseteq [of : 0..Len(targets), kind : ClaimKind]
  /\ pc \in {"plan", "screen", "tools", "done"}
  /\ planner \in {"model", "baseline"}
  /\ roundsLeft \in Nat
  /\ callsLeft \in Nat
  /\ requested \in Seq([tool : ToolNames, pid : Nat])
  /\ accepted \in Seq([tool : ToolNames, pid : Nat])
  /\ stepDone \in BOOLEAN
  /\ ran \subseteq [tool : ToolNames, pid : DOMAIN targets]
  /\ facts \in [DOMAIN targets -> Facts]
  /\ modelCalls \in Nat

(* Over all rounds and whatever the model asks for: the calls that ran and the *)
(* calls left are the budget (no call is paid for twice), and what was         *)
(* accepted can still be paid for.                                             *)
WithinBudget ==
  /\ Cardinality(ran) + callsLeft = MaxCalls
  /\ pc \in {"screen", "tools"} => Len(accepted) <= callsLeft

(* An investigation the baseline planned from the start never stops with a     *)
(* check it wants undone while it has calls left: the round budget is large    *)
(* enough for proxies found in the last but one round.                         *)
Thorough ==
  (pc = "done" /\ planner = "baseline" /\ modelCalls = 0) =>
    (Pending = <<>> \/ callsLeft = 0)

(* Permissions beyond MAX_TARGETS are cut off the report: never a live one the *)
(* sender granted while anything else stays.                                  *)
SendersLiveKept ==
  ran = {} =>
    \A e \in Exposures :
      targets = Targets(e) =>
        \A p \in ToSet(Distinct(e)) \ ToSet(targets) :
          (p.role = "sender" /\ p.state = "live") =>
            \A q \in ToSet(targets) : q.role = "sender" /\ q.state = "live"

(* The model is asked for a plan at most once per round, failures included:     *)
(* the loop ends although a failed planner costs it no round.                  *)
ModelCallsBounded == modelCalls <= ModelRounds
================================================================================

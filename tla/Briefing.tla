-------------------------------- MODULE Briefing --------------------------------
(* The briefing's two authors and its validator: the rules of the baseline     *)
(* (agents/reporter.py) and the check every draft passes before its claim ids   *)
(* are expanded (agents/validation.py).                                        *)
EXTENDS Catalog

ActionKind == {"consider_revoking", "verify_spender", "review_upgrade_control"}

\* What the model may answer, and what a report may hold.
ReportDraft ==
  [summary : Seq(ClaimId), findings : Seq(ClaimId), uncertainties : Seq(ClaimId),
   actions : Seq([pid : Nat, action : ActionKind, because : Seq(ClaimId)])]

PermissionAction ==
  {act \in [pid : Nat, action : ActionKind, because : Seq(ClaimId)] :
     Len(act.because) \in 1..4}

AgentSelection ==
  {sel \in [summary : Seq(ClaimId), findings : Seq(ClaimId), uncertainties : Seq(ClaimId),
            actions : Seq(PermissionAction)] :
     /\ Len(sel.summary) <= 5
     /\ Len(sel.findings) <= 12
     /\ Len(sel.uncertainties) <= 12
     /\ Len(sel.actions) <= 8}

\* A claim id is about a permission when it is its id or an id under it.
Belongs(claim, pid) == claim.of = pid

\* dict.fromkeys: the first occurrence of every element.
Unique(s) ==
  At(s, {i \in DOMAIN s : \A j \in 1..(i - 1) : s[j] # s[i]})

-------------------------------------------------------------------------------
(* validate_draft.                                                            *)

Because(pick) == Take(3, Unique(pick.because))

BadPick(pick, targets, claims) ==
  \/ pick.pid \notin Revocable(targets)
  \/ ~(ToSet(pick.because) \subseteq claims)
  \/ \A claim \in ToSet(Because(pick)) : ~Belongs(claim, pick.pid)

\* SelectionRejected is raised.
Rejected(draft, targets, claims) ==
  \/ ~(ToSet(draft.summary) \subseteq claims)
  \/ ~(ToSet(draft.findings) \subseteq claims)
  \/ ~(ToSet(draft.uncertainties) \subseteq claims)
  \/ draft.summary = <<>>
  \/ \E pick \in ToSet(draft.actions) : BadPick(pick, targets, claims)

\* The first pick of every (permission, action), with its reasons.
Actions(picks) ==
  LET firsts == At(picks, {i \in DOMAIN picks : \A j \in 1..(i - 1) :
                    <<picks[j].pid, picks[j].action>> # <<picks[i].pid, picks[i].action>>})
  IN  [n \in DOMAIN firsts |->
         [pid |-> firsts[n].pid, action |-> firsts[n].action,
          because |-> Because(firsts[n])]]

Selection(draft) ==
  [summary       |-> Take(2, Unique(draft.summary)),
   findings      |-> Take(4, Unique(draft.findings)),
   uncertainties |-> Take(3, Unique(draft.uncertainties)),
   actions       |-> Take(6, Actions(draft.actions))]

-------------------------------------------------------------------------------
(* baseline_brief.  seen is what the tools found out about the permission.    *)

IsRisky(seen) ==
  \/ seen.drift \in {"upgraded", "code_changed"}
  \/ seen.control = "single_key"
  \/ seen.kind \in {"eoa", "delegated"}

\* The kinds, in this order, for which the permission has a claim.
Present(pid, kinds, claims) ==
  LET have == At(kinds, {i \in DOMAIN kinds : Claim(pid, kinds[i]) \in claims})
  IN  [n \in DOMAIN have |-> Claim(pid, have[n])]

\* spender_profile could not read the state at the approval block.
Unverifiable(pid, seen, claims) ==
  Claim(pid, "drift") \in claims /\ seen.drift = "none"

VerifiedDrift(pid, seen, claims) ==
  IF Unverifiable(pid, seen, claims) THEN <<>> ELSE <<"drift">>

AdviceFor(permission, seen) ==
  CASE IsRisky(seen) -> "revoke_risky"
    [] ~IsRisky(seen) /\ (permission.unlimited \/ permission.unlimitedNow) -> "revoke_unlimited"
    [] OTHER -> IF ~seen.known THEN "verify"
                ELSE IF seen.proxy /\ seen.control # "contract" THEN "review"
                ELSE "none"

ActionOf == [revoke_risky     |-> "consider_revoking",
             revoke_unlimited |-> "consider_revoking",
             verify           |-> "verify_spender",
             review           |-> "review_upgrade_control"]

\* Faulty variant: the permission's own claim is not cited.
ReasonsWithoutSelf(pid, advice, seen, claims) ==
  Take(3, Present(pid, <<"control", "spender", "reach", "known">>, claims))

Reasons(pid, advice, seen, claims) ==
  LET kinds == CASE advice = "revoke_risky" ->
                      VerifiedDrift(pid, seen, claims) \o <<"control", "spender">>
                 [] advice = "revoke_unlimited" -> <<"reach", "known">>
                 [] advice = "verify" -> <<"known", "drift">>
                 [] advice = "review" -> <<"control", "spender">>
  IN  Take(3, <<Claim(pid, "self")>> \o Present(pid, kinds, claims))

Picks(targets, claims, facts) ==
  LET live == Actionable(targets)
      advice(pid) == AdviceFor(targets[pid], facts[pid])
      advised == At(live, {n \in DOMAIN live : advice(live[n]) # "none"})
  IN  [n \in DOMAIN advised |->
         [pid     |-> advised[n],
          action  |-> ActionOf[advice(advised[n])],
          because |-> Reasons(advised[n], advice(advised[n]), facts[advised[n]], claims)]]

\* What the tools found about risky spenders, about any, and the risk claims.
RiskyFindings(targets, claims, facts) ==
  {Claim(pid, kind) : pid \in {p \in Revocable(targets) : IsRisky(facts[p])},
                      kind \in {"drift", "control", "spender"}} \cap claims

ContextFindings(targets, claims, facts) ==
  {c \in {Claim(pid, kind) : pid \in Revocable(targets),
                             kind \in {"known", "drift", "spender"}} \cap claims :
     c.kind = "drift" => ~Unverifiable(c.of, facts[c.of], claims)}

FindingKinds == [known |-> 1, drift |-> 2, control |-> 3, spender |-> 4]

ByPermission(S) ==
  InOrder(S, {p \in S \X S :
    \/ p[1].of < p[2].of
    \/ p[1].of = p[2].of /\ FindingKinds[p[1].kind] < FindingKinds[p[2].kind]})

Findings(targets, claims, facts) ==
  LET risky   == RiskyFindings(targets, claims, facts)
      context == ContextFindings(targets, claims, facts)
  IN  ByPermission(risky) \o ByPermission(context \ risky)
        \o Present(0, <<"risk", "note">>, claims)

Uncertainties(targets, claims, facts) ==
  LET live    == Actionable(targets)
      drifted == At(live, {n \in DOMAIN live : Unverifiable(live[n], facts[live[n]], claims)})
  IN  [n \in DOMAIN drifted |-> Claim(drifted[n], "drift")]
        \o Present(0, <<"gap">>, claims)

\* What can be acted on leads, then the sender's own permission, then the
\* transaction.
Summary(targets, claims) ==
  LET owned == Ascending({i \in DOMAIN targets : targets[i].role # "other"})
      focus == Take(1, IF Actionable(targets) # <<>> THEN Actionable(targets) ELSE owned)
  IN  IF focus # <<>> THEN Present(focus[1], <<"self", "reach">>, claims)
      ELSE Take(1, Present(0, <<"approvals", "status">>, claims))

BaselineBrief(targets, claims, facts) ==
  [summary       |-> Take(2, Summary(targets, claims)),
   findings      |-> Take(4, Findings(targets, claims, facts)),
   uncertainties |-> Take(3, Uncertainties(targets, claims, facts)),
   actions       |-> Take(6, Picks(targets, claims, facts))]
================================================================================

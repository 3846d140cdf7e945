---------------------------- MODULE MCInterpretation ----------------------------
(* Two permissions at most with every kind of spender, up to five with the     *)
(* real budgets; plans a model may ask for, with duplicates, dead or foreign   *)
(* permissions and unknown ids; and drafts it may write: a good one and one of *)
(* each way of being wrong.                                                    *)
EXTENDS Interpretation

Perm(k, role, state, unlimited) ==
  [key |-> k, role |-> role, state |-> state, unlimited |-> unlimited,
   unlimitedNow |-> FALSE, balance |-> TRUE]

MCExposures ==
  {<<>>,
   <<Perm(1, "sender", "inactive", FALSE), Perm(2, "other", "live", TRUE)>>,
   <<Perm(1, "other", "live", FALSE), Perm(2, "sender", "live", FALSE), Perm(3, "sender", "live", FALSE)>>,
   [n \in 1..5 |-> Perm(n, "sender", CASE n <= 3 -> "inactive" [] n = 4 -> "unknown"
                                        [] n = 5 -> "live", FALSE)],
   <<Perm(1, "other", "unknown", FALSE)>>,
   <<Perm(1, "sender", "live", TRUE), Perm(1, "sender", "live", FALSE)>>,
   <<[Perm(1, "called_contract", "live", FALSE) EXCEPT !.balance = FALSE],
     Perm(2, "sender", "live", TRUE)>>}

MCNotes == {{}, {"approvals", "risk", "note", "gap"}}
MCPlans == {<<>>, <<Call("spender_profile", 1), Call("spender_profile", 2)>>,
            <<Call("spender_profile", 1), Call("spender_profile", 1), Call("known_spender", 2)>>,
            <<Call("spender_profile", 2), Call("known_spender", 9)>>,
            [n \in 1..5 |-> Call("spender_profile", n)]}
MCProfiles ==
  {[kind |-> "contract", proxy |-> TRUE, drift |-> "unchanged"],
   [kind |-> "contract", proxy |-> TRUE, drift |-> "upgraded"],
   [kind |-> "contract", proxy |-> FALSE, drift |-> "none"],
   [kind |-> "eoa", proxy |-> FALSE, drift |-> "none"],
   [kind |-> "delegated", proxy |-> FALSE, drift |-> "code_changed"]}

Self(pid) == Claim(pid, "self")
Draft(summary, findings, actions) ==
  [summary |-> summary, findings |-> findings, uncertainties |-> <<>>,
   actions |-> actions]
Pick(pid, because) == [pid |-> pid, action |-> "consider_revoking", because |-> because]

MCDrafts ==
  {Draft(<<TxWide("status")>>, <<>>, <<>>),
   Draft(<<Self(1)>>, <<Claim(1, "drift")>>,
         <<Pick(1, <<Self(1)>>), Pick(1, <<Self(1), Claim(1, "spender")>>)>>),
   Draft(<<>>, <<Self(1)>>, <<>>),
   Draft(<<TxWide("status")>>, <<>>, <<Pick(2, <<Self(1), TxWide("status"), Self(1), Self(2)>>)>>),
   Draft(<<TxWide("status")>>, <<>>,
         <<Pick(1, <<TxWide("status"), TxWide("risk"), TxWide("note"), Self(1)>>)>>)}
================================================================================

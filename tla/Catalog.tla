-------------------------------- MODULE Catalog --------------------------------
(* The evidence catalog (agents/catalog.py): the permissions the report is     *)
(* about, in order, and the ids of the sentences a briefing may use.  The       *)
(* texts are left out: a claim is the permission it is about and its kind.      *)
EXTENDS Naturals, Sequences, FiniteSets, SequencesExt

CONSTANT MaxTargets      \* MAX_TARGETS

ASSUME CatalogAssumption == MaxTargets \in Nat

Roles == {"sender", "called_contract", "other"}
Liveness == {"live", "unknown", "inactive"}

\* What the catalog reads of a PersistentExposure.
Permission == [key : Nat, role : Roles, state : Liveness,
               unlimited : BOOLEAN,      \* by the approval event
               unlimitedNow : BOOLEAN,   \* by the current allowance
               balance : BOOLEAN]        \* the owner's balance was read

Take(n, s) == SubSeq(s, 1, IF n < Len(s) THEN n ELSE Len(s))

\* sorted: the elements of a finite set, in the strict total order R on it.
InOrder(S, R) ==
  LET place == [x \in S |-> Cardinality({y \in S : <<y, x>> \in R}) + 1]
  IN  [n \in 1..Cardinality(S) |-> CHOOSE x \in S : place[x] = n]

Ascending(I) == InOrder(I, {p \in I \X I : p[1] < p[2]})

\* A comprehension with a condition: the elements of s at the positions I.
At(s, I) == LET at == Ascending(I) IN [n \in DOMAIN at |-> s[at[n]]]

\* The positions where a key is seen for the first time.
FirstSeen(perms) ==
  Ascending({i \in DOMAIN perms : \A j \in 1..(i - 1) : perms[j].key # perms[i].key})

\* The last event of the i-th permission's key.
LastEvent(perms, i) ==
  CHOOSE p \in ToSet(perms) :
    \E j \in DOMAIN perms :
      /\ p = perms[j]
      /\ p.key = perms[i].key
      /\ \A l \in (j + 1)..Len(perms) : perms[l].key # p.key

RoleRank == [r \in Roles |-> CASE r = "sender" -> 0
                              [] r = "called_contract" -> 1
                              [] r = "other" -> 2]
StateRank == [s \in Liveness |-> CASE s = "live" -> 0
                                  [] s = "unknown" -> 1
                                  [] s = "inactive" -> 2]

\* Faulty variant: a failed check ranks as low as an inactive permission's.
AheadByRole(p, q) ==
  \/ RoleRank[p.role] < RoleRank[q.role]
  \/ RoleRank[p.role] = RoleRank[q.role] /\ p.unlimited /\ ~q.unlimited

\* The sort key of distinct_permissions.
Ahead(p, q) ==
  LET role(x) == RoleRank[x.role]
      state(x) == StateRank[x.state]
  IN  \/ role(p) < role(q)
      \/ role(p) = role(q) /\ state(p) < state(q)
      \/ /\ role(p) = role(q)
         /\ state(p) = state(q)
         /\ p.unlimited /\ ~q.unlimited

\* The sort is stable: of two that rank equally, the first seen stays first.
Before(s) ==
  {p \in (DOMAIN s) \X (DOMAIN s) :
     \/ Ahead(s[p[1]], s[p[2]])
     \/ ~Ahead(s[p[2]], s[p[1]]) /\ p[1] < p[2]}

Latest(perms) ==
  LET firsts == FirstSeen(perms)
  IN  [n \in DOMAIN firsts |-> LastEvent(perms, firsts[n])]

Distinct(perms) ==
  LET latest == Latest(perms)
      order  == InOrder(DOMAIN latest, Before(latest))
  IN  [n \in DOMAIN order |-> latest[order[n]]]

\* The permissions that get an id; the id is the position.
Targets(perms) == Take(MaxTargets, Distinct(perms))

\* Live, and the sender can revoke it.
IsActionable(p) == p.state = "live" /\ p.role # "other"

Revocable(targets) == {i \in DOMAIN targets : IsActionable(targets[i])}
Actionable(targets) == Ascending(Revocable(targets))

-------------------------------------------------------------------------------
(* Claims.  The ids of transaction-wide claims have of = 0.                   *)

\* The kinds of the transaction's claims, of a permission's, of the tools'.
ClaimKind == {"status", "approvals", "risk", "note", "contract", "gap"} \cup
             {"self", "reach"} \cup {"spender", "drift", "control", "known"}

ClaimId == [of : Nat, kind : ClaimKind]
Claim(of, kind) == [of |-> of, kind |-> kind]
TxWide(kind) == Claim(0, kind)

PermissionClaims(targets) ==
  {Claim(i, "self") : i \in DOMAIN targets} \cup
  {Claim(i, "reach") : i \in {j \in DOMAIN targets :
                                targets[j].state = "live" /\ targets[j].balance}}

\* build_catalog; notes says which of the optional transaction-wide claims
\* ("approvals", "risk", "note", "contract", "gap") this transaction has.
CatalogClaims(targets, notes) ==
  {TxWide("status")} \cup {TxWide(kind) : kind \in notes}
    \cup PermissionClaims(targets)
================================================================================

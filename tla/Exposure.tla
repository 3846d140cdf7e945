------------------------------- MODULE Exposure -------------------------------
(* Comparison of the approvals a transaction emitted with the allowances in   *)
(* force now (blockchain/exposure_analyzer.py).  The provider's chain moves    *)
(* while the analysis reads it: the reads are pinned to the hash of one block  *)
(* and the block is looked up again once they have all come back.             *)
EXTENDS Naturals, Sequences, FiniteSets, SequencesExt

CONSTANTS
  Keys,        \* (token, owner, spender) triples
  Role,        \* ROLE_ORDER of the key's owner: 0 for the sender
  Hashes,      \* block hashes
  NoBlock,
  Chains,      \* the chains the provider may serve: sequences of hashes
  TxBlock,     \* height of the analysed transaction
  Ledgers,     \* allowance of every key at every block
  Unknown,     \* allowance_raw is None
  Inputs,      \* approvals of a transaction: sequences of [key, amount]
  Fields,      \* values read for a key, "allowance" among them
  ReadLimit    \* keys[:16]

ASSUME ExposureAssumption ==
  /\ Role \in [Keys -> Nat]
  /\ NoBlock \notin Hashes
  /\ Chains \subseteq Seq(Hashes) \ {<<>>}
  /\ TxBlock \in Nat
  /\ Ledgers \subseteq [Hashes -> [Keys -> Nat]]
  /\ Unknown \notin Nat \cup BOOLEAN
  /\ Inputs \subseteq Seq([key : Keys, amount : Nat])
  /\ "allowance" \in Fields
  /\ ReadLimit \in Nat

VARIABLES
  chain,       \* the provider's canonical chain; the last block is "latest"
  ledger,
  approvals,   \* the ERC-20 approvals decoded from the receipt
  pc,          \* "latest", "reads", "recheck", "done"
  block,       \* the reference block
  answers,     \* outcome of every read: "pending", "ok" or "failed"
  allowance,   \* allowance_raw of every key
  states,      \* the keys that have an observed state
  evidence     \* ids of the evidence items: the block's hash and keys

provider == <<chain, ledger>>
vars == <<chain, ledger, approvals, pc, block, answers, allowance, states,
          evidence>>

-------------------------------------------------------------------------------
(* Which keys are read.                                                       *)

KeysOf == {approvals[i].key : i \in DOMAIN approvals}
First(k) == CHOOSE i \in DOMAIN approvals :
              /\ approvals[i].key = k
              /\ \A j \in 1..(i - 1) : approvals[j].key # k

\* Faulty variant: the keys keep the order of their events.
BeforeUnsorted(j, k) == First(j) < First(k)

\* Read order: by owner role, then by first appearance (a stable sort).
Before(j, k) ==
  \/ Role[j] < Role[k]
  \/ Role[j] = Role[k] /\ First(j) < First(k)

Inspected == {k \in KeysOf :
                Cardinality({j \in KeysOf : Before(j, k)}) < ReadLimit}

-------------------------------------------------------------------------------
(* What is reported once the reads are over.                                  *)

\* Faulty variant: every event is taken for the last one of its key.
IsSupersededNever(i) == FALSE

\* A later Approval event of the transaction replaced this one's amount.
IsSuperseded(i) == \E j \in DOMAIN approvals :
                     j > i /\ approvals[j].key = approvals[i].key

\* Faulty variant: a missing observation counts as no allowance.
NowDefaulted(k) ==
  IF k \in states /\ allowance[k] # Unknown THEN allowance[k] ELSE 0

\* Faulty variant: an unobserved permission is taken to be still active.
NowAssumed(k) ==
  IF k \in states /\ allowance[k] # Unknown THEN allowance[k] ELSE 1

\* The allowance of the key's CurrentPermissionState.
Now(k) == IF k \in states THEN allowance[k] ELSE Unknown

\* compare_permission, of two known amounts.
Compare(now, before) ==
  CASE now = 0                 -> "REVOKED"
    [] 0 < now /\ now < before -> "PARTIALLY_ACTIVE"
    [] now > before            -> "SUPERSEDED"
    [] OTHER                   -> "ACTIVE"

Status(i) ==
  LET now == Now(approvals[i].key)
  IN  IF IsSuperseded(i) THEN "SUPERSEDED"
      ELSE IF now = Unknown THEN "UNKNOWN"
      ELSE Compare(now, approvals[i].amount)

Active(i) == LET now == Now(approvals[i].key)
             IN  IF now = Unknown THEN Unknown ELSE now > 0

\* The evidence a permission's current state refers to.
Cites(k) == IF k \in states THEN {block, k} ELSE {}

\* The tag of the investigation's reads: the block of the first observed
\* permission, "latest" (here NoBlock) when there is none.
SnapshotTag == IF KeysOf \cap states # {} THEN block ELSE NoBlock

HasErrors(k) == k \notin states \/ \E f \in Fields : answers[k][f] = "failed"

Full == \A k \in KeysOf : ~HasErrors(k)

Coverage ==
  CASE approvals = <<>>              -> "not_applicable"
    [] approvals # <<>> /\ Full      -> "available"
    [] approvals # <<>> /\ ~Full     ->
         IF \E k \in KeysOf : Now(k) # Unknown THEN "partial" ELSE "unavailable"

-------------------------------------------------------------------------------

Init ==
  /\ chain \in Chains
  /\ ledger \in Ledgers
  /\ approvals \in Inputs
  /\ pc = IF approvals = <<>> THEN "done" ELSE "latest"
  /\ block = NoBlock
  /\ answers = [k \in Keys |-> [f \in Fields |-> "pending"]]
  /\ allowance = [k \in Keys |-> Unknown]
  /\ states = {}
  /\ evidence = {}

\* The provider's chain grows or is reorganized.
ChainMoves ==
  /\ pc # "done"
  /\ chain' \in Chains \ {chain}
  /\ UNCHANGED <<ledger, approvals, pc, block, answers, allowance, states,
                 evidence>>

\* Faulty variant: the observations survive the failure.
DiscardEvidenceOnly ==
  /\ pc' = "done"
  /\ evidence' = {}
  /\ UNCHANGED <<provider, approvals, answers, allowance, block, states>>

\* The except clause of analyze_exposure, for every error that reaches it.
Discard ==
  /\ pc' = "done"
  /\ states' = {}
  /\ evidence' = {}
  /\ block' = NoBlock
  /\ UNCHANGED <<provider, approvals, answers, allowance>>

\* eth_getBlockByNumber("latest"), and the block it returns is usable.
ReadLatest ==
  /\ pc = "latest"
  /\ Len(chain) >= TxBlock
  /\ block' = Last(chain)
  /\ evidence' = {Last(chain)}
  /\ pc' = "reads"
  /\ UNCHANGED <<provider, approvals, answers, allowance, states>>

\* Faulty variant: the reads name "latest" instead of the block's hash.
ReadUnpinned(k, f) ==
  /\ pc = "reads"
  /\ k \in Inspected
  /\ answers[k][f] = "pending"
  /\ answers' = [answers EXCEPT ![k][f] = "ok"]
  /\ allowance' = IF f = "allowance"
                  THEN [allowance EXCEPT ![k] = ledger[Last(chain)][k]]
                  ELSE allowance
  /\ UNCHANGED <<provider, approvals, pc, block, states, evidence>>

\* A read is answered: by the pinned block, while it is canonical.
ReadOk(k, f) ==
  /\ pc = "reads"
  /\ k \in Inspected
  /\ answers[k][f] = "pending"
  /\ block \in ToSet(chain)
  /\ answers' = [answers EXCEPT ![k][f] = "ok"]
  /\ allowance' = IF f = "allowance"
                  THEN [allowance EXCEPT ![k] = ledger[block][k]]
                  ELSE allowance
  /\ UNCHANGED <<provider, approvals, pc, block, states, evidence>>

\* A read fails: the provider, the block is gone, or a non-standard answer.
ReadFails(k, f) ==
  /\ pc = "reads"
  /\ k \in Inspected
  /\ answers[k][f] = "pending"
  /\ answers' = [answers EXCEPT ![k][f] = "failed"]
  /\ UNCHANGED <<provider, approvals, pc, block, allowance, states, evidence>>

\* Both gather calls have returned: the observations are collected.
Collect ==
  /\ pc = "reads"
  /\ \A k \in Inspected, f \in Fields : answers[k][f] # "pending"
  /\ states' = Inspected
  /\ evidence' = evidence \cup Inspected
  /\ pc' = "recheck"
  /\ UNCHANGED <<provider, approvals, block, answers, allowance>>

\* eth_getBlockByNumber(number) still returns the reference block.
Recheck ==
  /\ pc = "recheck"
  /\ block \in ToSet(chain)
  /\ pc' = "done"
  /\ UNCHANGED <<provider, approvals, block, answers, allowance, states,
                 evidence>>

\* An RpcError, a bad or too old block, a changed block, or the 30 s timeout.
GiveUp ==
  /\ pc # "done"
  /\ Discard

Next ==
  \/ ChainMoves
  \/ ReadLatest
  \/ \E k \in Keys, f \in Fields : ReadOk(k, f) \/ ReadFails(k, f)
  \/ Collect
  \/ Recheck
  \/ GiveUp
  \/ pc = "done" /\ UNCHANGED vars

Spec == Init /\ [][Next]_vars

-------------------------------------------------------------------------------

TypeOK ==
  /\ chain \in Chains
  /\ ledger \in Ledgers
  /\ approvals \in Inputs
  /\ pc \in {"latest", "reads", "recheck", "done"}
  /\ block \in Hashes \cup {NoBlock}
  /\ answers \in [Keys -> [Fields -> {"pending", "ok", "failed"}]]
  /\ allowance \in [Keys -> Nat \cup {Unknown}]
  /\ states \subseteq Keys
  /\ evidence \subseteq Hashes \cup Keys

(* What the report says of a permission is true of the provider's chain at    *)
(* the moment the block was looked up again: the observed block is canonical  *)
(* there, a permission called inactive has no allowance in it, one called     *)
(* active has one, and ACTIVE means the very amount that was approved.        *)
VerdictsHold ==
  [][(pc # "done" /\ pc' = "done") =>
       \A i \in DOMAIN approvals :
         (Active(i)' # Unknown) =>
           LET now == ledger[block'][approvals[i].key]
           IN  /\ block' \in ToSet(chain)
               /\ Active(i)' <=> now > 0
               /\ (Status(i)' = "ACTIVE") => now = approvals[i].amount
               /\ (Status(i)' = "REVOKED") => now = 0
    ]_vars

(* Every evidence id a published permission refers to is published with it,   *)
(* also when the observations were thrown away after a reorganization.        *)
CitedIsPublished ==
  pc = "done" => \A k \in KeysOf : Cites(k) \subseteq evidence

(* The read limit never leaves out a permission of the sender while one of    *)
(* another owner is read.                                                     *)
SenderFirst ==
  \A j \in KeysOf \ states, k \in states : Role[j] >= Role[k]

(* Follow-up reads observe the exposure snapshot's block: wherever there is a   *)
(* live permission to follow up, there is a block to pin the reads to.         *)
ToolsArePinned ==
  (pc = "done" /\ \E i \in DOMAIN approvals : Active(i) = TRUE) =>
    SnapshotTag \in Hashes

(* Of the events of one (token, owner, spender) only the last one speaks of   *)
(* the allowance in force, and what it says is true of the block looked up    *)
(* again; it keeps silent only where the allowance exceeds its amount.        *)
LastEventSpeaks ==
  [][(pc # "done" /\ pc' = "done") =>
       \A i \in DOMAIN approvals :
         (Active(i)' # Unknown) =>
           LET now == ledger[block'][approvals[i].key]
               before == approvals[i].amount
               last == \A j \in DOMAIN approvals :
                         approvals[j].key = approvals[i].key => j <= i
           IN  /\ (Status(i)' = "REVOKED") <=> last /\ now = 0
               /\ (Status(i)' = "PARTIALLY_ACTIVE") <=> last /\ 0 < now /\ now < before
               /\ (Status(i)' = "ACTIVE") <=> last /\ 0 < now /\ now = before
    ]_vars

(* Missing data is never shown as safety: an unobserved allowance is neither  *)
(* active nor inactive, and coverage "available" means all were observed.     *)
GapsAreShown ==
  pc = "done" =>
    /\ \A i \in DOMAIN approvals :
         (approvals[i].key \notin states \/
          answers[approvals[i].key]["allowance"] # "ok") =>
            /\ Active(i) = Unknown
            /\ Status(i) \in {"UNKNOWN", "SUPERSEDED"}
    /\ Coverage = "available" =>
         \A i \in DOMAIN approvals : Active(i) \in BOOLEAN
================================================================================

------------------------ MODULE ContractInspection ------------------------
(***************************************************************************)
(* From the fetched transaction to the drift of a spender: decoding,       *)
(* inspect_contract (blockchain/contract_inspector.py) for one address,    *)
(* the historical risk, and spender_profile (agents/tools.py) comparing    *)
(* what was recorded then with what the chain has at the snapshot.         *)
(*                                                                         *)
(* Every read is a step of its own and sees the view the provider serves   *)
(* at that moment: at the transaction's block number (whatever block has   *)
(* that number now), at "latest", or pinned to the hash of the snapshot.   *)
(* Inspections of several addresses share no state, hence one Subject.     *)
(***************************************************************************)
EXTENDS TransactionFetcher, Risk

CONSTANTS Subject, \* the inspected address
          None     \* no address, no value

(* world.account[v] is the account of the Subject in view v, at the        *)
(* transaction's height (then) and at the head (latest): its code, the     *)
(* delegate that the code designates, the implementation slot, whether the *)
(* beacon slot is set and the implementation behind it.                    *)
(* world.tx is the transaction; world.beyond says that the Subject comes   *)
(* after the first sixteen addresses.                                      *)
ASSUME InspectionAssumption ==
    \A w \in Worlds : \A u, v \in Views :
        w.chain[u].hash = w.chain[v].hash => w.account[u].then = w.account[v].then

VARIABLES contract,  \* the Contract record, with the code kept in its evidence
          block,     \* the block tag of the inspector's reads
          codeAt, implAt, beaconAt, \* the views in which they were answered
          evidence,  \* ids of published evidence
          coverage,  \* pairs of an area and a status
          risk,      \* the assessment: signals and score
          pin,       \* the view of the exposure snapshot, if there is one
          toolAt, toolSlotAt,       \* the views of the tool's two reads
          drift      \* facts["drift"], "unverifiable" if it says so

inspection == <<contract, block, codeAt, implAt, beaconAt>>
later == <<risk, pin, toolAt, toolSlotAt, drift>>
provider == <<world, now, moves, reads>>
vars == <<fetchVars, inspection, evidence, coverage, later>>

KindOf(a) == IF a.delegate # None THEN "delegated_eoa"
             ELSE IF a.code = "0x" THEN "no_code" ELSE "contract"

Target == IF world.tx.recipient # None THEN world.tx.recipient ELSE world.tx.created
Spends == {a \in Approvals(world.tx) : a.spender = Subject}

(* The account as a read with the inspector's tag sees it now; a number    *)
(* without a block is an error.                                            *)
Seen == IF block = "latest" THEN world.account[now].latest ELSE world.account[now].then
Readable == block = "latest" \/ Hash(now) # NoHash

Cover(area, status) == coverage' = coverage \cup {<<area, status>>}
Publish(id) == evidence' = evidence \cup {<<"contract", id>>}

Pcs == {"gather", "block", "fetched", "unavailable", "error", "code", "slots", "beacon",
        "failed", "explorer", "evaluate", "snapshot", "tool", "toolslot", "compare", "done"}

TypeOK ==
    /\ FetchTypeOK
    /\ pc \in Pcs
    /\ contract.kind \in {"unread", "unknown", "no_code", "delegated_eoa", "contract"}
    /\ contract.state \in {"historical", "current"}
    /\ contract.proxy \in {"unknown", "not_detected", "eip1967", "beacon"}
    /\ contract.verification \in {"verified", "unverified", "unavailable"}
    /\ block \in {"number", "latest"}
    /\ {codeAt, implAt, beaconAt, pin, toolAt, toolSlotAt} \subseteq Views \cup {NoView}
    /\ evidence \subseteq {"contract"} \X {"code", "proxy", "explorer"}
    /\ drift \in {"none", "unverifiable", "upgraded", "code_changed", "unchanged"}

Init ==
    /\ FetchInit
    /\ contract = [kind |-> "unread", code |-> None, state |-> "historical",
                   implementation |-> None, proxy |-> "unknown",
                   verification |-> "unavailable"]
    /\ block = "number"
    /\ codeAt = NoView /\ implAt = NoView /\ beaconAt = NoView
    /\ evidence = {} /\ coverage = {}
    /\ risk = [signals |-> {}, score |-> 0]
    /\ pin = NoView /\ toolAt = NoView /\ toolSlotAt = NoView
    /\ drift = "none"

---------------------------------------------------------------------------
(* decode_transaction.                                                     *)

Inspects == ~world.beyond /\ (Target = Subject \/ Spends # {})

(* A receipt without a status is refused; an address beyond the sixteenth  *)
(* is left out, and the coverage says so.                                  *)
Decode ==
    /\ pc = "fetched"
    /\ IF world.tx.status = "missing"
         THEN pc' = "error" /\ UNCHANGED coverage
         ELSE /\ pc' = IF Inspects THEN "code" ELSE "evaluate"
              /\ coverage' = {<<"events", EventCoverage(world.tx)>>}
                             \cup (IF world.beyond THEN {<<"contracts", "partial">>} ELSE {})
    /\ UNCHANGED <<provider, inspection, evidence, later>>

---------------------------------------------------------------------------
(* inspect_contract.                                                       *)

(* eth_getCode: an account without contract code is done.                  *)
ReadCode ==
    /\ pc = "code" /\ Readable
    /\ codeAt' = now
    /\ contract' = [contract EXCEPT
           !.kind = KindOf(Seen), !.code = Seen.code, !.implementation = Seen.delegate]
    /\ Publish("code")
    /\ coverage' = coverage
           \cup (IF block = "latest" THEN {<<"state", "partial">>} ELSE {})
           \cup (IF KindOf(Seen) # "contract" THEN {<<"contract", "available">>} ELSE {})
    /\ pc' = IF KindOf(Seen) = "contract" THEN "slots" ELSE "evaluate"
    /\ UNCHANGED <<provider, block, implAt, beaconAt, later>>

(* Faulty variant: a contract whose code could not be read is left out.    *)
CodeFailsSilently ==
    /\ pc = "code"
    /\ \/ /\ block = "number"
          /\ block' = "latest"
          /\ contract' = [contract EXCEPT !.state = "current"]
          /\ UNCHANGED pc
       \/ /\ block = "latest"
          /\ contract' = [contract EXCEPT !.kind = "unknown", !.state = "historical"]
          /\ pc' = "evaluate"
          /\ UNCHANGED block
    /\ UNCHANGED <<provider, codeAt, implAt, beaconAt, evidence, coverage, later>>

(* The provider has pruned that state, or fails: the current state is read *)
(* and labelled; if that fails too, the contract is unknown (with the      *)
(* default label, as no state was read).                                   *)
CodeFails ==
    /\ pc = "code"
    /\ \/ /\ block = "number"
          /\ block' = "latest"
          /\ contract' = [contract EXCEPT !.state = "current"]
          /\ UNCHANGED <<pc, coverage>>
       \/ /\ block = "latest"
          /\ contract' = [contract EXCEPT !.kind = "unknown", !.state = "historical"]
          /\ Cover("contract", "unavailable")
          /\ pc' = "evaluate"
          /\ UNCHANGED block
    /\ UNCHANGED <<provider, codeAt, implAt, beaconAt, evidence, later>>

(* The implementation and the beacon slot, under gather.                   *)
ReadSlots ==
    /\ pc = "slots" /\ Readable
    /\ \/ implAt = NoView /\ implAt' = now /\ UNCHANGED beaconAt
       \/ beaconAt = NoView /\ beaconAt' = now /\ UNCHANGED implAt
    /\ UNCHANGED <<provider, pc, contract, block, codeAt, evidence, coverage, later>>

AccountAt(v) == IF block = "latest" THEN world.account[v].latest ELSE world.account[v].then

(* Both words are there: proxy, implementation, and a beacon to resolve.   *)
Detect ==
    /\ pc = "slots" /\ implAt # NoView /\ beaconAt # NoView
    /\ LET implementation == AccountAt(implAt).impl
           behindBeacon == implementation = None /\ AccountAt(beaconAt).beacon
       IN  /\ contract' = [contract EXCEPT
                  !.implementation = implementation,
                  !.proxy = IF behindBeacon THEN "beacon"
                            ELSE IF implementation # None THEN "eip1967" ELSE "not_detected"]
           /\ IF behindBeacon
                THEN pc' = "beacon" /\ UNCHANGED <<evidence, coverage>>
                ELSE pc' = "explorer" /\ Publish("proxy") /\ Cover("proxy", "partial")
    /\ UNCHANGED <<provider, block, codeAt, implAt, beaconAt, later>>

(* implementation() of the beacon contract.                                *)
Resolve ==
    /\ pc = "beacon" /\ Readable
    /\ contract' = [contract EXCEPT !.implementation = Seen.behind]
    /\ pc' = "explorer" /\ Publish("proxy") /\ Cover("proxy", "partial")
    /\ UNCHANGED <<provider, block, codeAt, implAt, beaconAt, later>>

(* RpcError or a malformed word, in the slots or in the beacon's answer:   *)
(* what was found before stays in the record, without evidence.            *)
SlotsFail ==
    /\ pc \in {"slots", "beacon"}
    /\ pc' = "explorer" /\ Cover("proxy", "unavailable")
    /\ UNCHANGED <<provider, inspection, evidence, later>>

(* A null in place of a word raises TypeError, which only run() catches:   *)
(* there is no report.                                                     *)
NullWord ==
    /\ pc \in {"slots", "beacon"} /\ Readable
    /\ pc' = "failed"
    /\ UNCHANGED <<provider, inspection, evidence, coverage, later>>

(* Faulty variant: only a verified source is kept as evidence.             *)
ExploreUncited ==
    /\ pc = "explorer"
    /\ \E answer \in {"verified", "unverified", "unavailable"} :
          /\ contract' = [contract EXCEPT !.verification = answer]
          /\ IF answer = "verified"
               THEN Cover("explorer", "available") /\ Publish("explorer")
               ELSE Cover("explorer", "unavailable") /\ UNCHANGED evidence
    /\ pc' = "evaluate"
    /\ UNCHANGED <<provider, block, codeAt, implAt, beaconAt, later>>

(* The explorer: its answer, or no key, an error, an unparsable ABI.       *)
Explore ==
    /\ pc = "explorer"
    /\ \E answer \in {"verified", "unverified", "unavailable"} :
          /\ contract' = [contract EXCEPT !.verification = answer]
          /\ IF answer = "unavailable"
               THEN Cover("explorer", "unavailable") /\ UNCHANGED evidence
               ELSE Cover("explorer", "available") /\ Publish("explorer")
    /\ pc' = "evaluate"
    /\ UNCHANGED <<provider, block, codeAt, implAt, beaconAt, later>>

Inspect == ReadCode \/ CodeFails \/ ReadSlots \/ Detect \/ Resolve \/ SlotsFail \/ NullWord
           \/ Explore

---------------------------------------------------------------------------
(* evaluate, then the tool.                                                *)

Contracts == IF contract.kind = "unread" THEN {}
             ELSE {[address |-> Subject, kind |-> contract.kind, proxy |-> contract.proxy,
                    verification |-> contract.verification, cites |-> evidence]}

Assess ==
    /\ pc = "evaluate"
    /\ LET signals == Evaluate(Approvals(world.tx), Contracts, Target)
       IN  risk' = [signals |-> signals, score |-> Score(signals)]
    /\ pc' = "snapshot"
    /\ UNCHANGED <<provider, inspection, evidence, coverage, pin, toolAt, toolSlotAt, drift>>

(* The exposure analysis has a snapshot or not; the sender's spenders are  *)
(* looked at.                                                              *)
Snapshot ==
    /\ pc = "snapshot"
    /\ pin' \in {NoView, now}
    /\ pc' = IF \E a \in Spends : a.role = "sender" THEN "tool" ELSE "done"
    /\ UNCHANGED <<provider, inspection, evidence, coverage, risk, toolAt, toolSlotAt, drift>>

(* A pinned read with requireCanonical needs its block on the chain.       *)
ToolReads == pin = NoView \/ now = pin

ToolCode ==
    /\ pc = "tool" /\ ToolReads
    /\ toolAt' = now
    /\ pc' = IF KindOf(world.account[now].latest) = "contract" THEN "toolslot" ELSE "compare"
    /\ UNCHANGED <<provider, inspection, evidence, coverage, risk, pin, toolSlotAt, drift>>

ToolSlot ==
    /\ pc = "toolslot" /\ ToolReads
    /\ toolSlotAt' = now
    /\ pc' = "compare"
    /\ UNCHANGED <<provider, inspection, evidence, coverage, risk, pin, toolAt, drift>>

ToolFails ==
    /\ pc \in {"tool", "toolslot"}
    /\ pc' = "done"
    /\ UNCHANGED <<provider, inspection, evidence, coverage, later>>

(* Faulty variant: the label is not looked at.                             *)
RecordedAnyState == contract.kind \notin {"unread", "unknown"}

(* _historical_record.                                                     *)
Recorded == contract.kind \notin {"unread", "unknown"} /\ contract.state = "historical"

CodeNow == world.account[toolAt].latest.code
ImplementationNow == IF toolSlotAt = NoView THEN None ELSE world.account[toolSlotAt].latest.impl

(* Faulty variant: only the bytecode is compared.                          *)
DriftOfCode ==
    IF ~Recorded THEN "unverifiable"
    ELSE IF contract.code # CodeNow THEN "code_changed" ELSE "unchanged"

Drift ==
    IF ~Recorded THEN "unverifiable"
    ELSE IF contract.implementation # ImplementationNow THEN "upgraded"
    ELSE IF contract.code # CodeNow THEN "code_changed" ELSE "unchanged"

Compare ==
    /\ pc = "compare"
    /\ drift' = Drift
    /\ pc' = "done"
    /\ UNCHANGED <<provider, inspection, evidence, coverage, risk, pin, toolAt, toolSlotAt>>

Investigate == Snapshot \/ ToolCode \/ ToolSlot \/ ToolFails \/ Compare

Finished == pc \in {"error", "unavailable", "failed", "done"} /\ UNCHANGED vars

Next == \/ FetchNext /\ UNCHANGED <<inspection, evidence, coverage, later>>
        \/ ProviderMoves /\ UNCHANGED <<inspection, evidence, coverage, later>>
        \/ Decode \/ Inspect \/ Assess \/ Investigate
        \/ Finished

Spec == Init /\ [][Next]_vars

---------------------------------------------------------------------------
(* The block of the report was still at its height when v was read.        *)
SameBlock(v) == v # NoView /\ Hash(v) = Hash(blockAt)

Read == contract.kind \in {"no_code", "delegated_eoa", "contract"}

(* The Subject in the block that the transaction was found in.             *)
Then == world.account[txAt].then

(* What the report shows of a contract is what its label says: code and    *)
(* implementation slot of the transaction's own block unless that block    *)
(* was replaced after the fetch, or else of the head at the moment of each *)
(* read, although the transaction, the receipt, the block and the state    *)
(* are read one after the other.                                           *)
LabelIsTrue ==
    /\ Read /\ contract.state = "historical" /\ SameBlock(codeAt) =>
          contract.code = Then.code
    /\ contract.proxy = "eip1967" /\ contract.state = "historical" /\ SameBlock(implAt) =>
          contract.implementation = Then.impl
    /\ Read /\ contract.state = "current" =>
          contract.code = world.account[codeAt].latest.code
    /\ contract.proxy = "eip1967" /\ contract.state = "current" =>
          contract.implementation = world.account[implAt].latest.impl

(* The coverage of a report owns up to every read that failed or fell back *)
(* to another block, to every log that was not understood, and claims no   *)
(* explorer answer without evidence.                                       *)
GapsAreCovered ==
    pc \in {"snapshot", "tool", "toolslot", "compare", "done"} =>
        /\ contract.kind = "unknown" => <<"contract", "unavailable">> \in coverage
        /\ Read /\ contract.state = "current" => <<"state", "partial">> \in coverage
        /\ contract.kind = "contract" /\ <<"contract", "proxy">> \notin evidence =>
              <<"proxy", "unavailable">> \in coverage
        /\ <<"explorer", "available">> \in coverage => <<"contract", "explorer">> \in evidence
        /\ <<"events", "available">> \in coverage =>
              \A n \in DOMAIN Logs(world.tx) : Decodes(Logs(world.tx)[n])
        /\ contract.kind = "unread" /\ Spends # {} => <<"contracts", "partial">> \in coverage

(* Every risk signal cites evidence that the report contains, except that  *)
(* of a beacon which could not be resolved: its reads are not published,   *)
(* and the coverage says that the proxy lookup was unavailable.            *)
SignalsAreCited ==
    \A s \in risk.signals :
        /\ s.cites \subseteq evidence \cup LogIds(world.tx) \cup TxIds
        /\ s.cites = {} =>
              s.code = "PROXY_DETECTED" /\ <<"proxy", "unavailable">> \in coverage

(* The score is the sum of the points of the distinct rules that fired:    *)
(* repeated logs, several spenders and both roles of an address (target    *)
(* and spender) do not add up.                                             *)
ScoreCountsRulesOnce ==
    LET fired == {s.code : s \in risk.signals}
    IN  risk.score = MapThenSumSet(LAMBDA code : Points[code], fired)

(* An upgrade is never reported as unchanged: with this verdict the code   *)
(* of the transaction's block is the code at the checked block, and so is  *)
(* the implementation slot, if the slots were read and no beacon was set.  *)
NoFalseReassurance ==
    drift = "unchanged" /\ SameBlock(codeAt) =>
        /\ Then.code = CodeNow
        /\ contract.proxy \in {"eip1967", "not_detected"} /\ SameBlock(implAt) =>
              Then.impl = ImplementationNow

(* A verdict that the code changed is never a misread of two blocks.       *)
ChangeIsReal ==
    drift = "code_changed" /\ SameBlock(codeAt) => Then.code # CodeNow

(* The account whose code runs when the Subject is called.                 *)
Logic(a) == IF a.delegate # None THEN a.delegate
            ELSE IF a.impl # None THEN a.impl
            ELSE IF a.beacon THEN a.behind ELSE None

(* "pruned providers keep working, but those checks are reported as        *)
(* unverifiable" (docs/deployment.md:41): a spender that is said to be     *)
(* upgraded does run other code.                                           *)
UpgradeIsReal ==
    drift = "upgraded" /\ SameBlock(codeAt) =>
        \/ Then.code # CodeNow
        \/ toolSlotAt # NoView /\ Logic(Then) # Logic(world.account[toolSlotAt].latest)
===========================================================================

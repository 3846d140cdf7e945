---------------------- MODULE ContractInspectionProofs ----------------------
(***************************************************************************)
(* Theorems about ContractInspection, for every set of worlds (every chain *)
(* and every change of views, every account, every transaction) and every  *)
(* set of views.                                                           *)
(***************************************************************************)
EXTENDS ContractInspection, FiniteSetTheorems, WellFoundedInduction, TLAPS

(* Where nothing has been inspected yet.                                   *)
Reading == {"gather", "block", "fetched", "unavailable", "error"}

(* Where the inspection is over.                                           *)
Assessing == {"evaluate", "snapshot", "tool", "toolslot", "compare", "done"}

Basics ==
  /\ world \in Worlds /\ now \in Views /\ pc \in Pcs
  /\ {txAt, receiptAt, blockAt, codeAt, implAt, beaconAt} \subseteq Views \cup {NoView}
  /\ block \in {"number", "latest"} /\ network \in {"unread", "right", "wrong"}
  /\ contract = [kind |-> contract.kind, code |-> contract.code, state |-> contract.state,
                 implementation |-> contract.implementation, proxy |-> contract.proxy,
                 verification |-> contract.verification]

(* The block goes into the report only if it was the transaction's when    *)
(* both were read.                                                         *)
SameHash ==
  /\ pc = "block" => txAt \in Views /\ receiptAt \in Views
  /\ pc \notin Reading \/ pc = "fetched" =>
       txAt \in Views /\ blockAt \in Views /\ Hash(txAt) = Hash(blockAt)

(* What is known of the contract at each point.                            *)
Progress ==
  /\ pc \in Reading => block = "number"
  /\ pc \in Reading \cup {"code"} =>
       contract.kind = "unread" /\ contract.verification = "unavailable"
  /\ pc \in Reading \cup {"code", "slots"} => contract.proxy = "unknown"
  /\ pc \in {"slots", "beacon", "explorer"} => contract.kind = "contract"
  /\ pc = "beacon" => contract.proxy = "beacon"
  /\ contract.kind \in {"unread", "unknown", "no_code", "delegated_eoa", "contract"}
  /\ contract.proxy # "unknown" => contract.kind = "contract"

(* The label is the block tag of the reads, and the record is what those   *)
(* reads saw.                                                              *)
Labelled ==
  /\ contract.state = IF block = "number" \/ contract.kind = "unknown"
                      THEN "historical" ELSE "current"
  /\ Read => codeAt \in Views /\ contract.code = AccountAt(codeAt).code
  /\ contract.proxy \in {"eip1967", "not_detected"} =>
       implAt \in Views /\ contract.implementation = AccountAt(implAt).impl

(* The coverage, from the step on at which each gap appears.               *)
CodeCovered ==
  /\ contract.kind = "unknown" => <<"contract", "unavailable">> \in coverage
  /\ Read /\ block = "latest" => <<"state", "partial">> \in coverage

SlotsCovered ==
  contract.kind = "contract" /\ pc \notin {"slots", "beacon", "failed"} =>
    <<"contract", "proxy">> \in evidence \/ <<"proxy", "unavailable">> \in coverage

ExplorerCovered ==
  /\ <<"explorer", "available">> \in coverage => <<"contract", "explorer">> \in evidence
  /\ contract.verification = "unverified" => <<"contract", "explorer">> \in evidence

EventsCovered ==
  /\ <<"events", "available">> \in coverage => EventCoverage(world.tx) = "available"
  /\ pc \in Assessing /\ contract.kind = "unread" =>
       ~Inspects /\ (world.beyond => <<"contracts", "partial">> \in coverage)

(* The verdict is the comparison of what stays in the report.              *)
Verdict == drift # "none" => pc = "done" /\ drift = Drift

(* The signals come after the evidence.                                    *)
Assessed == pc \in Assessing \ {"evaluate"} \/ risk.signals = {}

IInv == /\ Basics /\ SameHash /\ Progress /\ Labelled
        /\ CodeCovered /\ SlotsCovered /\ ExplorerCovered /\ EventsCovered
        /\ Verdict /\ Assessed /\ SignalsAreCited /\ RefundIsDue

---------------------------------------------------------------------------
(* The fetch and the provider.                                             *)

LEMMA FetchKeeps ==
  ASSUME IInv, FetchNext, UNCHANGED <<inspection, evidence, coverage, later>>
  PROVE  IInv'
<1>1. /\ pc \in {"gather", "block"} /\ pc' \in Reading
      /\ UNCHANGED <<world, now>>
  BY DEF FetchNext, ReadNetwork, ReadTransaction, ReadReceipt, FetchFails, Gathered,
         ReadBlock, Reading, reads
<1>2. Basics'
  BY <1>1 DEF IInv, Basics, Pcs, Reading, inspection, FetchNext, ReadNetwork,
              ReadTransaction, ReadReceipt, FetchFails, Gathered, ReadBlock, reads
<1>3. SameHash'
  <2>1. CASE Gathered
    <3>1. pc' = "block" => txAt \in Views /\ receiptAt \in Views
      BY <2>1 DEF Gathered, Answered, IInv, Basics
    <3> QED
      BY <2>1, <3>1 DEF Gathered, SameHash, Reading, reads
  <2>2. CASE ReadBlock
    BY <2>2 DEF ReadBlock, SameHash, Reading, Hash, IInv, Basics
  <2>3. CASE ReadNetwork \/ ReadTransaction \/ ReadReceipt \/ FetchFails
    BY <2>3 DEF ReadNetwork, ReadTransaction, ReadReceipt, FetchFails, SameHash, Reading,
                IInv, Hash, reads
  <2> QED
    BY <2>1, <2>2, <2>3 DEF FetchNext
<1>4. Progress' /\ Labelled'
  BY <1>1 DEF IInv, Progress, Labelled, Read, AccountAt, Reading, inspection
<1>5. CodeCovered' /\ SlotsCovered' /\ ExplorerCovered' /\ EventsCovered'
  BY <1>1 DEF IInv, Progress, CodeCovered, SlotsCovered, ExplorerCovered, EventsCovered,
              Read, Reading, Assessing, inspection
<1>6. Verdict' /\ Assessed' /\ SignalsAreCited'
  BY <1>1 DEF IInv, Verdict, Assessed, SignalsAreCited, Reading, Assessing, later
<1>7. RefundIsDue'
  <2>1. CASE Gathered
    <3>1. pc' = "unavailable" => network = "right" /\ Missing
      <4>1. network \in {"right", "wrong"}
        BY <2>1 DEF Gathered, Answered, IInv, Basics
      <4> QED
        BY <2>1, <4>1 DEF Gathered
    <3> QED
      BY <2>1, <3>1 DEF Gathered, RefundIsDue, Missing, Tx, reads
  <2>2. CASE ~Gathered
    BY <2>2 DEF FetchNext, ReadNetwork, ReadTransaction, ReadReceipt, FetchFails, ReadBlock,
                RefundIsDue
  <2> QED
    BY <2>1, <2>2
<1> QED
  BY <1>2, <1>3, <1>4, <1>5, <1>6, <1>7 DEF IInv

(* The invariant speaks of what was read, not of what a read would see.    *)
LEMMA MovesKeep ==
  ASSUME IInv, ProviderMoves, UNCHANGED <<inspection, evidence, coverage, later>>
  PROVE  IInv'
<1>1. now' \in Views /\ UNCHANGED <<world, pc, reads>>
  BY DEF ProviderMoves
<1>2. Basics' /\ SameHash' /\ Progress' /\ RefundIsDue'
  BY <1>1 DEF IInv, Basics, SameHash, Progress, RefundIsDue, Hash, Tx, inspection, reads
<1>3. Labelled' /\ CodeCovered' /\ SlotsCovered' /\ ExplorerCovered'
  BY <1>1 DEF IInv, Labelled, CodeCovered, SlotsCovered, ExplorerCovered, Read, AccountAt,
              inspection
<1>4. EventsCovered' /\ Assessed' /\ SignalsAreCited'
  BY <1>1 DEF IInv, EventsCovered, Inspects, Spends, Target, Assessed, SignalsAreCited,
              inspection, later
<1>5. Verdict'
  BY <1>1 DEF IInv, Verdict, Drift, Recorded, CodeNow, ImplementationNow, inspection, later
<1> QED
  BY <1>2, <1>3, <1>4, <1>5 DEF IInv

---------------------------------------------------------------------------
(* The inspection.                                                         *)

(* What no step of decoding and inspection touches.                        *)
LEMMA InspectionFrame ==
  ASSUME IInv, Decode \/ Inspect
  PROVE  /\ UNCHANGED provider /\ UNCHANGED later
         /\ SameHash' /\ RefundIsDue' /\ Verdict' /\ Assessed' /\ SignalsAreCited'
         /\ pc \in {"fetched", "code", "slots", "beacon", "explorer"}
         /\ pc' \in {"error", "failed", "code", "slots", "beacon", "explorer", "evaluate"}
<1>1. /\ UNCHANGED provider /\ UNCHANGED later
      /\ pc \in {"fetched", "code", "slots", "beacon", "explorer"}
      /\ pc' \in {"error", "failed", "code", "slots", "beacon", "explorer", "evaluate"}
  <2>1. CASE Decode
    BY <2>1 DEF Decode
  <2>2. CASE Inspect
    BY <2>2 DEF Inspect, ReadCode, CodeFails, ReadSlots, Detect, Resolve, SlotsFail, NullWord, Explore
  <2> QED
    BY <2>1, <2>2
<1>2. SameHash' /\ RefundIsDue'
  BY <1>1 DEF IInv, SameHash, RefundIsDue, Reading, Hash, provider, reads
<1>3. Verdict' /\ Assessed' /\ SignalsAreCited'
  BY <1>1 DEF IInv, Verdict, Assessed, SignalsAreCited, Assessing, later
<1> QED
  BY <1>1, <1>2, <1>3

LEMMA DecodeKeeps == ASSUME IInv, Decode PROVE IInv'
<1>1. UNCHANGED <<inspection, evidence, world, now, txAt, receiptAt, blockAt>>
  BY DEF Decode, provider, reads
<1>2. Basics' /\ Progress' /\ Labelled'
  <2>1. pc = "fetched" /\ pc' \in {"error", "code", "evaluate"}
    BY DEF Decode
  <2>2. Basics'
    BY <1>1, <2>1, InspectionFrame DEF IInv, Basics, Pcs, inspection, provider, reads
  <2>3. Progress' /\ Labelled'
    BY <1>1, <2>1 DEF IInv, Progress, Labelled, Reading, Read, AccountAt, inspection
  <2> QED
    BY <2>2, <2>3
<1>3. CodeCovered' /\ SlotsCovered'
  BY <1>1 DEF IInv, Decode, Progress, CodeCovered, SlotsCovered, Reading, Read, inspection
<1>4. ExplorerCovered' /\ EventsCovered'
  <2>1. UNCHANGED <<Inspects, EventCoverage(world.tx), world.beyond>>
    BY <1>1 DEF Inspects, Spends, Target
  <2>2. CASE world.tx.status = "missing"
    BY <1>1, <2>1, <2>2
    DEF IInv, Decode, Progress, ExplorerCovered, EventsCovered, Assessing, inspection
  <2>3. CASE world.tx.status # "missing"
    BY <1>1, <2>1, <2>3 DEF IInv, Decode, Progress, ExplorerCovered, EventsCovered, Reading,
                            Assessing, inspection
  <2> QED
    BY <2>2, <2>3
<1> QED
  BY <1>2, <1>3, <1>4, InspectionFrame DEF IInv

LEMMA ReadCodeKeeps == ASSUME IInv, ReadCode PROVE IInv'
<1>1. /\ contract'.kind = KindOf(Seen) /\ contract'.code = Seen.code
      /\ contract'.state = contract.state /\ contract'.proxy = contract.proxy
      /\ contract'.verification = contract.verification
  BY DEF IInv, Basics, ReadCode
<1>2. KindOf(Seen) \in {"no_code", "delegated_eoa", "contract"}
  BY DEF KindOf
<1>3. Basics' /\ Progress'
  <2>1. Basics'
    BY DEF IInv, Basics, ReadCode, Pcs, provider, reads
  <2>2. Progress'
    BY <1>1, <1>2 DEF IInv, Progress, ReadCode, Reading
  <2> QED
    BY <2>1, <2>2
<1>4. Labelled'
  <2>1. contract.kind = "unread" /\ contract.proxy = "unknown"
    BY DEF IInv, Progress, ReadCode
  <2>2. UNCHANGED <<block, world>> /\ codeAt' = now /\ now \in Views
    BY DEF IInv, Basics, ReadCode, provider
  <2> QED
    BY <1>1, <1>2, <2>1, <2>2 DEF IInv, Labelled, Read, AccountAt, Seen
<1>5. CodeCovered' /\ SlotsCovered' /\ ExplorerCovered'
  BY <1>1, <1>2 DEF IInv, ReadCode, Publish, Progress, CodeCovered, SlotsCovered,
                    ExplorerCovered, Reading, Read
<1>6. EventsCovered'
  BY <1>1, <1>2 DEF IInv, ReadCode, EventsCovered, provider
<1> QED
  BY <1>3, <1>4, <1>5, <1>6, InspectionFrame DEF IInv, Inspect

LEMMA CodeFailsKeeps == ASSUME IInv, CodeFails PROVE IInv'
<1>1. /\ pc = "code" /\ UNCHANGED <<provider, codeAt, implAt, beaconAt, evidence, later>>
      /\ contract.kind = "unread" /\ contract.proxy = "unknown"
      /\ contract.verification = "unavailable"
  BY DEF CodeFails, IInv, Progress
<1>2. CASE block = "number"
  <2>1. /\ block' = "latest" /\ contract'.state = "current" /\ UNCHANGED <<pc, coverage>>
        /\ contract'.kind = "unread" /\ contract'.proxy = "unknown"
        /\ contract'.verification = "unavailable"
    BY <1>1, <1>2 DEF CodeFails, IInv, Basics
  <2>2. Basics'
    BY <1>1, <1>2 DEF IInv, Basics, CodeFails, Pcs, provider, reads
  <2>3. Progress' /\ Labelled'
    BY <1>1, <2>1 DEF IInv, Progress, Labelled, Reading, Read
  <2>4. CodeCovered' /\ SlotsCovered' /\ ExplorerCovered' /\ EventsCovered'
    BY <1>1, <2>1 DEF IInv, CodeCovered, SlotsCovered, ExplorerCovered, EventsCovered, Read,
                      Assessing, provider
  <2> QED
    BY <2>2, <2>3, <2>4, InspectionFrame DEF IInv, Inspect
<1>3. CASE block = "latest"
  <2>1. /\ pc' = "evaluate" /\ contract'.state = "historical" /\ UNCHANGED block
        /\ contract'.kind = "unknown" /\ contract'.proxy = "unknown"
        /\ contract'.verification = "unavailable"
        /\ coverage' = coverage \cup {<<"contract", "unavailable">>}
    BY <1>1, <1>3 DEF CodeFails, Cover, IInv, Basics
  <2>2. Basics'
    BY <1>1, <1>3 DEF IInv, Basics, CodeFails, Pcs, provider, reads
  <2>3. Progress' /\ Labelled'
    BY <1>1, <2>1 DEF IInv, Progress, Labelled, Reading, Read
  <2>4. CodeCovered' /\ SlotsCovered' /\ ExplorerCovered' /\ EventsCovered'
    BY <1>1, <2>1 DEF IInv, CodeCovered, SlotsCovered, ExplorerCovered, EventsCovered, Read,
                      provider
  <2> QED
    BY <2>2, <2>3, <2>4, InspectionFrame DEF IInv, Inspect
<1> QED
  BY <1>2, <1>3 DEF IInv, Basics

LEMMA ReadSlotsKeeps == ASSUME IInv, ReadSlots PROVE IInv'
<1>1. /\ pc = "slots" /\ contract.proxy = "unknown"
      /\ UNCHANGED <<provider, pc, contract, block, codeAt, evidence, coverage, later>>
  BY DEF ReadSlots, IInv, Progress
<1>2. Basics' /\ Progress'
  BY <1>1 DEF IInv, Basics, Progress, ReadSlots, provider, reads
<1>3. Labelled'
  BY <1>1 DEF IInv, Labelled, Read, AccountAt, provider
<1>4. CodeCovered' /\ SlotsCovered' /\ ExplorerCovered' /\ EventsCovered'
  BY <1>1 DEF IInv, CodeCovered, SlotsCovered, ExplorerCovered, EventsCovered, Read,
              Inspects, Spends, Target, provider
<1> QED
  BY <1>2, <1>3, <1>4, InspectionFrame DEF IInv, Inspect

(* Whatever the slots say becomes the record's, and is either published    *)
(* at once or waits for the beacon.                                        *)
LEMMA DetectKeeps == ASSUME IInv, Detect PROVE IInv'
<1>1. /\ pc = "slots" /\ contract.kind = "contract" /\ contract.proxy = "unknown"
      /\ UNCHANGED <<provider, block, codeAt, implAt, beaconAt, later>>
  BY DEF Detect, IInv, Progress
<1>2. /\ contract'.kind = "contract" /\ contract'.state = contract.state
      /\ contract'.code = contract.code /\ contract'.verification = contract.verification
      /\ contract'.implementation = AccountAt(implAt).impl
      /\ implAt \in Views
  BY <1>1 DEF Detect, IInv, Basics
<1>3. \/ contract'.proxy = "beacon" /\ pc' = "beacon" /\ UNCHANGED <<evidence, coverage>>
      \/ /\ pc' = "explorer"
         /\ evidence' = evidence \cup {<<"contract", "proxy">>}
         /\ coverage' = coverage \cup {<<"proxy", "partial">>}
  <2> DEFINE behindBeacon == AccountAt(implAt).impl = None /\ AccountAt(beaconAt).beacon
  <2>1. CASE behindBeacon
    BY <2>1 DEF Detect, IInv, Basics
  <2>2. CASE ~behindBeacon
    BY <2>2 DEF Detect, Publish, Cover
  <2> QED
    BY <2>1, <2>2
<1>4. Basics'
  <2>1. contract' = [kind |-> contract'.kind, code |-> contract'.code,
                     state |-> contract'.state, implementation |-> contract'.implementation,
                     proxy |-> contract'.proxy, verification |-> contract'.verification]
    BY DEF Detect, IInv, Basics
  <2> QED
    BY <1>1, <1>3, <2>1 DEF IInv, Basics, Pcs, provider, reads
<1>5. Progress'
  BY <1>1, <1>2, <1>3 DEF IInv, Progress, Reading
<1>6. Labelled'
  BY <1>1, <1>2 DEF IInv, Labelled, Read, AccountAt, provider
<1>7. CodeCovered' /\ SlotsCovered' /\ ExplorerCovered' /\ EventsCovered'
  BY <1>1, <1>2, <1>3 DEF IInv, CodeCovered, SlotsCovered, ExplorerCovered, EventsCovered,
                          Read, provider
<1> QED
  BY <1>4, <1>5, <1>6, <1>7, InspectionFrame DEF IInv, Inspect

LEMMA ResolveKeeps == ASSUME IInv, Resolve PROVE IInv'
<1>1. /\ pc = "beacon" /\ pc' = "explorer"
      /\ contract.kind = "contract" /\ contract.proxy = "beacon"
      /\ UNCHANGED <<provider, block, codeAt, implAt, beaconAt, later>>
      /\ evidence' = evidence \cup {<<"contract", "proxy">>}
      /\ coverage' = coverage \cup {<<"proxy", "partial">>}
  BY DEF Resolve, Publish, Cover, IInv, Progress
<1>2. /\ contract'.kind = contract.kind /\ contract'.state = contract.state
      /\ contract'.code = contract.code /\ contract'.verification = contract.verification
      /\ contract'.proxy = contract.proxy
  BY DEF Resolve, IInv, Basics
<1>3. Basics'
  BY <1>1 DEF IInv, Basics, Resolve, Pcs, provider, reads
<1>4. Progress' /\ Labelled'
  BY <1>1, <1>2 DEF IInv, Progress, Labelled, Reading, Read, AccountAt, provider
<1>5. CodeCovered' /\ SlotsCovered' /\ ExplorerCovered' /\ EventsCovered'
  BY <1>1, <1>2 DEF IInv, CodeCovered, SlotsCovered, ExplorerCovered, EventsCovered, Read,
                    provider
<1> QED
  BY <1>3, <1>4, <1>5, InspectionFrame DEF IInv, Inspect

LEMMA SlotsFailKeeps == ASSUME IInv, SlotsFail PROVE IInv'
<1>1. /\ pc' = "explorer" /\ contract.kind = "contract"
      /\ UNCHANGED <<provider, inspection, evidence, later>>
      /\ coverage' = coverage \cup {<<"proxy", "unavailable">>}
  BY DEF SlotsFail, Cover, IInv, Progress
<1>2. Basics' /\ Progress' /\ Labelled'
  BY <1>1 DEF IInv, Basics, Progress, Labelled, SlotsFail, Pcs, Reading, Read, AccountAt,
              inspection, provider, reads
<1>3. CodeCovered' /\ SlotsCovered' /\ ExplorerCovered' /\ EventsCovered'
  BY <1>1 DEF IInv, CodeCovered, SlotsCovered, ExplorerCovered, EventsCovered, Read,
              inspection, provider
<1> QED
  BY <1>2, <1>3, InspectionFrame DEF IInv, Inspect

LEMMA NullWordKeeps == ASSUME IInv, NullWord PROVE IInv'
<1>1. /\ pc' = "failed" /\ UNCHANGED <<provider, inspection, evidence, coverage, later>>
      /\ contract.kind = "contract"
  BY DEF NullWord, IInv, Progress
<1>2. Basics' /\ Progress' /\ Labelled'
  BY <1>1 DEF IInv, Basics, Progress, Labelled, NullWord, Pcs, Reading, Read, AccountAt,
              inspection, provider, reads
<1>3. CodeCovered' /\ SlotsCovered' /\ ExplorerCovered' /\ EventsCovered'
  BY <1>1 DEF IInv, CodeCovered, SlotsCovered, ExplorerCovered, EventsCovered, Read,
              inspection, provider
<1> QED
  BY <1>2, <1>3, InspectionFrame DEF IInv, Inspect

LEMMA ExploreKeeps == ASSUME IInv, Explore PROVE IInv'
<1>1. /\ pc = "explorer" /\ pc' = "evaluate" /\ contract.kind = "contract"
      /\ UNCHANGED <<provider, block, codeAt, implAt, beaconAt, later>>
  BY DEF Explore, IInv, Progress
<1>2. PICK answer \in {"verified", "unverified", "unavailable"} :
        /\ contract' = [contract EXCEPT !.verification = answer]
        /\ IF answer = "unavailable"
             THEN Cover("explorer", "unavailable") /\ UNCHANGED evidence
             ELSE Cover("explorer", "available") /\ Publish("explorer")
  BY DEF Explore
<1>3. /\ contract'.kind = contract.kind /\ contract'.state = contract.state
      /\ contract'.code = contract.code /\ contract'.proxy = contract.proxy
      /\ contract'.implementation = contract.implementation
      /\ contract'.verification = answer
  BY <1>2 DEF IInv, Basics
<1>4. Basics'
  BY <1>1, <1>2 DEF IInv, Basics, Pcs, provider, reads
<1>5. Progress' /\ Labelled'
  BY <1>1, <1>3 DEF IInv, Progress, Labelled, Reading, Read, AccountAt, provider
<1>6. CodeCovered' /\ SlotsCovered' /\ ExplorerCovered' /\ EventsCovered'
  BY <1>1, <1>2, <1>3 DEF IInv, CodeCovered, SlotsCovered, ExplorerCovered, EventsCovered,
                          Cover, Publish, Read, provider
<1> QED
  BY <1>4, <1>5, <1>6, InspectionFrame DEF IInv, Inspect

---------------------------------------------------------------------------
(* The signals, the tool and its verdict.                                  *)

(* Where a signal comes from.                                              *)
LEMMA SignalSource ==
  ASSUME NEW approvals, NEW contracts, NEW target,
         NEW s \in Evaluate(approvals, contracts, target)
  PROVE  \/ \E a \in Own(approvals) :
               s \in ApprovalSignals(a) \/ s \in SpenderSignals(a, contracts)
         \/ s \in OtherOwners(approvals)
         \/ \E c \in contracts : s \in TargetSignals(c, target) \/ s \in ProxySignals(c)
         \/ s = Signal("EXECUTION_STATUS", {<<"tx", "receipt">>})
<1> DEFINE ofApprovals == UNION {ApprovalSignals(a) \cup SpenderSignals(a, contracts) :
                                    a \in Own(approvals)}
           ofContracts == UNION {TargetSignals(c, target) \cup ProxySignals(c) : c \in contracts}
           ofStatus == Signal("EXECUTION_STATUS", {<<"tx", "receipt">>})
<1>1. Evaluate(approvals, contracts, target) =
        ofApprovals \cup OtherOwners(approvals) \cup ofContracts \cup {ofStatus}
  BY Zenon DEF Evaluate
<1>2. s \in ofApprovals => \E a \in Own(approvals) :
        s \in ApprovalSignals(a) \/ s \in SpenderSignals(a, contracts)
  OBVIOUS
<1>3. s \in ofContracts => \E c \in contracts :
        s \in TargetSignals(c, target) \/ s \in ProxySignals(c)
  OBVIOUS
<1> HIDE DEF ofApprovals, ofContracts, ofStatus
<1>4. s \in ofApprovals \/ s \in OtherOwners(approvals) \/ s \in ofContracts \/ s = ofStatus
  BY <1>1
<1> QED
  BY <1>2, <1>3, <1>4 DEF ofStatus

(* Every signal cites what the report has, and only the one of a proxy may *)
(* cite nothing.                                                           *)
LEMMA SignalsCite ==
  ASSUME IInv, pc = "evaluate", NEW s \in Evaluate(Approvals(world.tx), Contracts, Target)
  PROVE  /\ s.cites \subseteq evidence \cup LogIds(world.tx) \cup TxIds
         /\ s.cites = {} => s.code = "PROXY_DETECTED" /\ <<"proxy", "unavailable">> \in coverage
<1> DEFINE approvals == Approvals(world.tx)
<1>1. ASSUME NEW a \in approvals
      PROVE  a.cites \subseteq LogIds(world.tx) /\ a.cites # {}
  BY <1>1 DEF Approvals, ApprovalOf, LogIds
<1>2. ASSUME NEW c \in Contracts
      PROVE  /\ c.kind = contract.kind /\ c.proxy = contract.proxy /\ c.cites = evidence
             /\ c.verification = contract.verification
  BY <1>2 DEF Contracts
<1>3. CASE \E a \in Own(approvals) : s \in ApprovalSignals(a)
  <2>1. PICK a \in approvals : s \in ApprovalSignals(a)
    BY <1>3 DEF Own
  <2>2. s.cites = a.cites
    BY <2>1 DEF ApprovalSignals, Signal
  <2> QED
    BY <1>1, <2>2
<1>4. CASE \E a \in Own(approvals) : s \in SpenderSignals(a, Contracts)
  <2>1. PICK a \in approvals : s \in SpenderSignals(a, Contracts)
    BY <1>4 DEF Own
  <2>2. PICK c \in Contracts : s.cites = a.cites \cup ({<<"contract", "code">>} \cap c.cites)
    BY <2>1 DEF SpenderSignals, Signal
  <2> QED
    BY <1>1, <1>2, <2>2
<1>5. CASE s \in OtherOwners(approvals)
  <2>1. /\ Elsewhere(approvals) # {}
        /\ s.cites = UNION {a.cites : a \in Elsewhere(approvals)}
    BY <1>5 DEF OtherOwners, Signal
  <2>2. Elsewhere(approvals) \subseteq approvals
    BY DEF Elsewhere
  <2> QED
    BY <1>1, <2>1, <2>2
<1>6. CASE \E c \in Contracts : s \in TargetSignals(c, Target)
  <2>1. PICK c \in Contracts : s \in TargetSignals(c, Target)
    BY <1>6
  <2>2. /\ c.verification = "unverified"
        /\ s.cites = {<<"contract", "explorer">>} \cap c.cites
    BY <2>1 DEF TargetSignals, Signal
  <2>3. <<"contract", "explorer">> \in evidence
    BY <1>2, <2>2 DEF IInv, ExplorerCovered
  <2> QED
    BY <1>2, <2>2, <2>3
<1>7. CASE \E c \in Contracts : s \in ProxySignals(c)
  <2>1. PICK c \in Contracts : s \in ProxySignals(c)
    BY <1>7
  <2>2. /\ c.proxy \in {"eip1967", "beacon"} /\ s.code = "PROXY_DETECTED"
        /\ s.cites = {<<"contract", "proxy">>} \cap c.cites
    BY <2>1 DEF ProxySignals, Signal
  <2>3. <<"contract", "proxy">> \in evidence \/ <<"proxy", "unavailable">> \in coverage
    BY <1>2, <2>2 DEF IInv, Progress, SlotsCovered
  <2> QED
    BY <1>2, <2>2, <2>3
<1>8. CASE s = Signal("EXECUTION_STATUS", {<<"tx", "receipt">>})
  BY <1>8 DEF Signal, TxIds
<1> QED
  BY <1>3, <1>4, <1>5, <1>6, <1>7, <1>8, SignalSource

LEMMA AssessKeeps == ASSUME IInv, Assess PROVE IInv'
<1>1. /\ pc = "evaluate" /\ pc' = "snapshot"
      /\ UNCHANGED <<provider, inspection, evidence, coverage, pin, toolAt, toolSlotAt, drift>>
      /\ risk'.signals = Evaluate(Approvals(world.tx), Contracts, Target)
  BY DEF Assess
<1>2. Basics' /\ SameHash' /\ Progress' /\ Labelled' /\ RefundIsDue'
  <2>1. Basics' /\ SameHash' /\ RefundIsDue'
    BY <1>1 DEF IInv, Basics, SameHash, RefundIsDue, Pcs, Reading, Hash, provider, reads,
                inspection
  <2>2. Progress' /\ Labelled'
    BY <1>1 DEF IInv, Progress, Labelled, Reading, Read, AccountAt, provider, inspection
  <2> QED
    BY <2>1, <2>2
<1>3. CodeCovered' /\ SlotsCovered' /\ ExplorerCovered' /\ EventsCovered'
  BY <1>1 DEF IInv, CodeCovered, SlotsCovered, ExplorerCovered, EventsCovered, Assessing,
              Read, Inspects, Spends, Target, provider, inspection
<1>4. Verdict' /\ Assessed'
  BY <1>1 DEF IInv, Verdict, Assessed, Assessing
<1>5. SignalsAreCited'
  <2>1. UNCHANGED <<evidence, coverage, world>>
    BY <1>1 DEF provider
  <2> QED
    BY <1>1, <2>1, SignalsCite DEF SignalsAreCited
<1> QED
  BY <1>2, <1>3, <1>4, <1>5 DEF IInv

LEMMA InvestigateKeeps == ASSUME IInv, Investigate PROVE IInv'
<1>1. /\ {pc, pc'} \subseteq Assessing \ {"evaluate"} /\ pc # "done"
      /\ UNCHANGED <<provider, inspection, evidence, coverage, risk>>
  BY DEF Investigate, Snapshot, ToolCode, ToolSlot, ToolFails, Compare, Assessing, later
<1>2. Basics' /\ SameHash' /\ RefundIsDue'
  BY <1>1 DEF IInv, Basics, SameHash, RefundIsDue, Assessing, Pcs, Reading, Hash, provider,
              reads, inspection
<1>3. Progress' /\ Labelled'
  BY <1>1 DEF IInv, Progress, Labelled, Assessing, Reading, Read, AccountAt, provider,
              inspection
<1>4. CodeCovered' /\ SlotsCovered' /\ ExplorerCovered' /\ EventsCovered'
  BY <1>1 DEF IInv, CodeCovered, SlotsCovered, ExplorerCovered, EventsCovered, Assessing,
              Read, Inspects, Spends, Target, provider, inspection
<1>5. Assessed' /\ SignalsAreCited'
  BY <1>1 DEF IInv, Assessed, SignalsAreCited, provider
<1>6. Verdict'
  <2>1. drift = "none"
    BY <1>1 DEF IInv, Verdict
  <2>2. CASE Compare
    BY <1>1, <2>2
    DEF Compare, Verdict, Drift, Recorded, CodeNow, ImplementationNow, provider, inspection
  <2>3. CASE Snapshot \/ ToolCode \/ ToolSlot \/ ToolFails
    BY <2>1, <2>3 DEF Snapshot, ToolCode, ToolSlot, ToolFails, Verdict, later
  <2> QED
    BY <2>2, <2>3 DEF Investigate
<1> QED
  BY <1>2, <1>3, <1>4, <1>5, <1>6 DEF IInv

---------------------------------------------------------------------------

LEMMA InitIInv == Init => IInv
<1> SUFFICES ASSUME Init PROVE IInv
  OBVIOUS
<1>1. /\ pc = "gather" /\ drift = "none" /\ risk.signals = {} /\ coverage = {} /\ evidence = {}
      /\ contract.kind = "unread" /\ contract.proxy = "unknown" /\ contract.state = "historical"
      /\ contract.verification = "unavailable" /\ block = "number"
  BY DEF Init, FetchInit
<1>2. Basics
  BY DEF Init, FetchInit, Basics, Pcs
<1>3. SameHash /\ Progress /\ Labelled /\ RefundIsDue
  BY <1>1 DEF SameHash, Progress, Labelled, RefundIsDue, Reading, Read
<1>4. CodeCovered /\ SlotsCovered /\ ExplorerCovered /\ EventsCovered
  BY <1>1 DEF CodeCovered, SlotsCovered, ExplorerCovered, EventsCovered, Assessing, Read
<1>5. Verdict /\ Assessed /\ SignalsAreCited
  BY <1>1 DEF Verdict, Assessed, SignalsAreCited
<1> QED
  BY <1>2, <1>3, <1>4, <1>5 DEF IInv

LEMMA StepIInv == IInv /\ [Next]_vars => IInv'
<1> SUFFICES ASSUME IInv, [Next]_vars PROVE IInv'
  OBVIOUS
<1>1. CASE FetchNext /\ UNCHANGED <<inspection, evidence, coverage, later>>
  BY <1>1, FetchKeeps
<1>2. CASE ProviderMoves /\ UNCHANGED <<inspection, evidence, coverage, later>>
  BY <1>2, MovesKeep
<1>3. CASE Decode
  BY <1>3, DecodeKeeps
<1>4. CASE Inspect
  BY <1>4, ReadCodeKeeps, CodeFailsKeeps, ReadSlotsKeeps, DetectKeeps, ResolveKeeps,
     SlotsFailKeeps, NullWordKeeps, ExploreKeeps DEF Inspect
<1>5. CASE Assess
  BY <1>5, AssessKeeps
<1>6. CASE Investigate
  BY <1>6, InvestigateKeeps
<1>7. CASE UNCHANGED vars
  <2>1. UNCHANGED <<provider, inspection, evidence, coverage, later, pc>>
    BY <1>7 DEF vars, fetchVars, provider
  <2>2. Basics' /\ SameHash' /\ RefundIsDue'
    BY <2>1 DEF IInv, Basics, SameHash, RefundIsDue, Hash, Tx, provider, reads, inspection
  <2>3. Progress' /\ Labelled'
    BY <2>1 DEF IInv, Progress, Labelled, Read, AccountAt, provider, inspection
  <2>4. CodeCovered' /\ SlotsCovered' /\ ExplorerCovered' /\ EventsCovered'
    BY <2>1 DEF IInv, CodeCovered, SlotsCovered, ExplorerCovered, EventsCovered, Read,
                Inspects, Spends, Target, provider, inspection
  <2>5. Verdict' /\ Assessed' /\ SignalsAreCited'
    BY <2>1 DEF IInv, Verdict, Drift, Recorded, CodeNow, ImplementationNow, Assessed,
                SignalsAreCited, provider, inspection, later
  <2> QED
    BY <2>2, <2>3, <2>4, <2>5 DEF IInv
<1> QED
  BY <1>1, <1>2, <1>3, <1>4, <1>5, <1>6, <1>7 DEF Next, Finished

LEMMA Invariant == Spec => []IInv
BY InitIInv, StepIInv, PTL DEF Spec

(* Equal hashes are equal blocks: a view that still has the transaction's  *)
(* block at its height has its state.                                      *)
LEMMA SameAccount ==
  ASSUME IInv, NEW v \in Views \cup {NoView}, SameBlock(v), Read
  PROVE  world.account[v].then = Then
<1>1. v \in Views /\ world \in Worlds
  BY DEF SameBlock, IInv, Basics
<1>2. txAt \in Views /\ Hash(v) = Hash(txAt)
  BY DEF SameBlock, IInv, Progress, SameHash, Read, Reading, Basics, Pcs
<1> QED
  BY <1>1, <1>2, InspectionAssumption DEF Hash, Then

LEMMA RecordIsTrue == IInv => LabelIsTrue
<1> SUFFICES ASSUME IInv PROVE LabelIsTrue
  OBVIOUS
<1>1. codeAt \in Views \cup {NoView} /\ implAt \in Views \cup {NoView}
  BY DEF IInv, Basics
<1>2. contract.proxy # "unknown" => Read /\ contract.kind # "unknown"
  BY DEF IInv, Progress, Read
<1>3. Read => contract.kind # "unknown"
  BY DEF Read
<1>4. block \in {"number", "latest"}
  BY DEF IInv, Basics
<1> QED
  BY <1>1, <1>2, <1>3, <1>4, SameAccount DEF IInv, Labelled, LabelIsTrue, AccountAt

(* LabelIsTrue holds: nothing in a report is labelled with a block in      *)
(* which it was not true, if that block is still the one of the report.    *)
THEOREM LabelsAreTrue == Spec => []LabelIsTrue
BY Invariant, RecordIsTrue, PTL

(* RefundIsDue holds: only a transaction that is missing is unavailable.   *)
THEOREM RefundsAreDue == Spec => []RefundIsDue
<1>1. IInv => RefundIsDue
  BY DEF IInv
<1> QED
  BY <1>1, Invariant, PTL

(* SignalsAreCited holds: what a signal cites is in the report.            *)
THEOREM SignalsCiteTheReport == Spec => []SignalsAreCited
<1>1. IInv => SignalsAreCited
  BY DEF IInv
<1> QED
  BY <1>1, Invariant, PTL

(* GapsAreCovered holds: the coverage owns up to whatever was not read.    *)
THEOREM CoverageOwnsUp == Spec => []GapsAreCovered
<1>1. IInv => GapsAreCovered
  <2> SUFFICES ASSUME IInv, pc \in {"snapshot", "tool", "toolslot", "compare", "done"}
               PROVE  GapsAreCovered
    BY DEF GapsAreCovered
  <2>1. /\ contract.kind = "unknown" => <<"contract", "unavailable">> \in coverage
        /\ Read /\ contract.state = "current" => <<"state", "partial">> \in coverage
    BY DEF IInv, Basics, CodeCovered, Labelled, Read
  <2>2. /\ contract.kind = "contract" /\ <<"contract", "proxy">> \notin evidence =>
             <<"proxy", "unavailable">> \in coverage
        /\ <<"explorer", "available">> \in coverage => <<"contract", "explorer">> \in evidence
    BY DEF IInv, SlotsCovered, ExplorerCovered
  <2>3. <<"events", "available">> \in coverage =>
             \A n \in DOMAIN Logs(world.tx) : Decodes(Logs(world.tx)[n])
    BY DEF IInv, EventsCovered, EventCoverage
  <2>4. contract.kind = "unread" /\ Spends # {} => <<"contracts", "partial">> \in coverage
    BY DEF IInv, EventsCovered, Assessing, Inspects
  <2> QED
    BY <2>1, <2>2, <2>3, <2>4 DEF GapsAreCovered
<1> QED
  BY <1>1, Invariant, PTL

(* What a verdict compares is what the transaction's block has.            *)
LEMMA ComparesThen ==
  ASSUME IInv, drift \in {"unchanged", "code_changed"}
  PROVE  /\ drift = Drift /\ Recorded
         /\ SameBlock(codeAt) => contract.code = Then.code
         /\ contract.proxy \in {"eip1967", "not_detected"} /\ SameBlock(implAt) =>
              contract.implementation = Then.impl
<1>1. drift = Drift /\ Recorded
  BY DEF IInv, Verdict, Drift
<1>2. Read /\ block = "number"
  BY <1>1 DEF Recorded, Read, IInv, Progress, Labelled
<1>3. codeAt \in Views \cup {NoView} /\ implAt \in Views \cup {NoView}
  BY DEF IInv, Basics
<1> QED
  BY <1>1, <1>2, <1>3, SameAccount DEF IInv, Labelled, AccountAt

(* NoFalseReassurance holds: "unchanged" is said only of what is.          *)
THEOREM UnchangedIsTrue == Spec => []NoFalseReassurance
<1>1. IInv => NoFalseReassurance
  <2> SUFFICES ASSUME IInv, drift = "unchanged", SameBlock(codeAt)
               PROVE  NoFalseReassurance
    BY DEF NoFalseReassurance
  <2>1. contract.implementation = ImplementationNow /\ contract.code = CodeNow
    BY ComparesThen DEF Drift
  <2> QED
    BY <2>1, ComparesThen DEF NoFalseReassurance
<1> QED
  BY <1>1, Invariant, PTL

(* ChangeIsReal holds: "code_changed" is never a misread of two blocks.    *)
THEOREM ChangedIsTrue == Spec => []ChangeIsReal
<1>1. IInv => ChangeIsReal
  <2> SUFFICES ASSUME IInv, drift = "code_changed", SameBlock(codeAt)
               PROVE  Then.code # CodeNow
    BY DEF ChangeIsReal
  <2>1. contract.code # CodeNow
    BY ComparesThen DEF Drift
  <2> QED
    BY <2>1, ComparesThen
<1> QED
  BY <1>1, Invariant, PTL

---------------------------------------------------------------------------
(* The types, action by action.                                            *)
LEMMA TypesKept == IInv /\ TypeOK /\ [Next]_vars => TypeOK'
<1> SUFFICES ASSUME IInv, TypeOK, [Next]_vars PROVE TypeOK'
  OBVIOUS
<1>0. Basics /\ world.moves \in Nat
  BY FetchAssumption DEF IInv, Basics
<1> USE DEF TypeOK, FetchTypeOK, Pcs
<1>1. CASE FetchNext /\ UNCHANGED <<inspection, evidence, coverage, later>>
  <2> USE <1>1 DEF inspection, later
  <2>1. CASE ReadNetwork \/ ReadTransaction \/ ReadReceipt
    BY <2>1 DEF ReadNetwork, ReadTransaction, ReadReceipt
  <2>2. CASE FetchFails \/ Gathered
    BY <2>2 DEF FetchFails, Gathered, reads
  <2>3. CASE ReadBlock
    BY <2>3 DEF ReadBlock
  <2> QED
    BY <1>1, <2>1, <2>2, <2>3 DEF FetchNext
<1>2. CASE ProviderMoves /\ UNCHANGED <<inspection, evidence, coverage, later>>
  BY <1>0, <1>2 DEF ProviderMoves, inspection, later, reads
<1>3. CASE Decode
  BY <1>3 DEF Decode, inspection, later, provider, reads
<1>4. CASE Inspect
  <2> USE <1>0 DEF Basics, Publish, provider, reads, later
  <2>1. CASE ReadCode
    BY <2>1 DEF ReadCode, KindOf
  <2>2. CASE CodeFails
    BY <2>2 DEF CodeFails, Cover
  <2>3. CASE ReadSlots
    BY <2>3 DEF ReadSlots
  <2>4. CASE Detect
    BY <2>4 DEF Detect
  <2>5. CASE Resolve
    BY <2>5 DEF Resolve
  <2>6. CASE SlotsFail
    BY <2>6 DEF SlotsFail, inspection
  <2>8. CASE NullWord
    BY <2>8 DEF NullWord, inspection
  <2>7. CASE Explore
    BY <2>7 DEF Explore
  <2> QED
    BY <1>4, <2>1, <2>2, <2>3, <2>4, <2>5, <2>6, <2>7, <2>8 DEF Inspect
<1>5. CASE Assess
  BY <1>5 DEF Assess, provider, reads, inspection
<1>6. CASE Investigate
  BY <1>6
  DEF Investigate, Snapshot, ToolCode, ToolSlot, ToolFails, Compare, Drift, provider, reads,
      inspection, later
<1>7. CASE UNCHANGED vars
  BY <1>7 DEF vars, fetchVars, reads, inspection, later
<1> QED
  BY <1>1, <1>2, <1>3, <1>4, <1>5, <1>6, <1>7 DEF Next, Finished

(* Every field has one of the values the code gives it.                    *)
THEOREM InspectionTypeCorrect == Spec => []TypeOK
<1>1. Init => TypeOK
  BY FetchAssumption DEF Init, FetchInit, TypeOK, FetchTypeOK, Pcs
<1> QED
  BY <1>1, Invariant, TypesKept, PTL DEF Spec

---------------------------------------------------------------------------
(* The score.                                                              *)

(* The sum of the points of a set of rule codes, written out.              *)
Of(S, code) == IF code \in S THEN Points[code] ELSE 0
Total(S) == Of(S, "UNLIMITED_TOKEN_APPROVAL") + Of(S, "NFT_OPERATOR_APPROVAL")
            + Of(S, "TOKEN_APPROVAL") + Of(S, "CONTRACT_SPENDER") + Of(S, "UNVERIFIED_TARGET")

(* The code the fold takes next.                                           *)
Some(s) == CHOOSE x \in s : TRUE

(* Taking a code away takes its points away; all the codes together stay   *)
(* below the cap of the score.                                             *)
LEMMA TotalStep ==
  ASSUME NEW S \in SUBSET DOMAIN Points, NEW x \in S
  PROVE  Total(S) = Points[x] + Total(S \ {x})
BY DEF Total, Of, Points

LEMMA TotalBound ==
  ASSUME NEW S \in SUBSET DOMAIN Points
  PROVE  Total(S) \in 0..92 /\ Total({}) = 0
BY DEF Total, Of, Points

(* Total obeys the recursion of the fold.                                  *)
LEMMA TotalAdds ==
  ASSUME NEW s \in SUBSET DOMAIN Points
  PROVE  Total(s) = IF s = {} THEN 0 ELSE Points[Some(s)] + Total(s \ {Some(s)})
<1>1. CASE s = {}
  BY <1>1, TotalBound
<1>2. CASE s # {}
  BY <1>2, TotalStep DEF Some
<1> QED
  BY <1>1, <1>2

(* There are finitely many codes.                                          *)
LEMMA CodesAreFinite == IsFiniteSet(DOMAIN Points)
<1> DEFINE A == {"UNLIMITED_TOKEN_APPROVAL", "NFT_OPERATOR_APPROVAL", "TOKEN_APPROVAL"}
           B == {"CONTRACT_SPENDER", "UNVERIFIED_TARGET", "APPROVAL_BY_OTHER_OWNER"}
           C == {"PROXY_DETECTED", "EXECUTION_STATUS"}
<1>1. DOMAIN Points = A \cup (B \cup C)
  BY DEF Points
<1>2. \A x, y, z : {x, y, z} = ((({} \cup {x}) \cup {y}) \cup {z})
  OBVIOUS
<1>3. \A x, y, z : IsFiniteSet({x, y, z})
  <2> TAKE x, y, z
  <2>1. IsFiniteSet({} \cup {x})
    BY FS_EmptySet, FS_AddElement
  <2>2. IsFiniteSet(({} \cup {x}) \cup {y})
    BY <2>1, FS_AddElement
  <2>3. IsFiniteSet((({} \cup {x}) \cup {y}) \cup {z})
    BY <2>2, FS_AddElement
  <2> QED
    BY <1>2, <2>3
<1>4. C = {"PROXY_DETECTED", "EXECUTION_STATUS", "EXECUTION_STATUS"}
  OBVIOUS
<1>5. IsFiniteSet(A) /\ IsFiniteSet(B) /\ IsFiniteSet(C)
  BY <1>3, <1>4
<1> HIDE DEF A, B, C
<1> QED
  BY <1>1, <1>5, FS_Union

(* And it is the only function that does.                                  *)
LEMMA OnlyTotalAdds ==
  ASSUME NEW S \in SUBSET DOMAIN Points, NEW sum,
         \A s \in SUBSET S :
           sum[s] = IF s = {} THEN 0 ELSE Points[Some(s)] + sum[s \ {Some(s)}]
  PROVE  sum[S] = Total(S)
<1> DEFINE bad == {s \in SUBSET S : sum[s] # Total(s)}
<1> SUFFICES ASSUME bad # {} PROVE FALSE
  OBVIOUS
<1>1. IsWellFoundedOn(StrictSubsetOrdering(S), SUBSET S)
  BY CodesAreFinite, FS_Subset, FS_StrictSubsetOrderingWellFounded, FS_FiniteSubsetsOfFinite
<1>2. bad \subseteq SUBSET S
  OBVIOUS
<1>3. PICK m \in bad : \A s \in bad : <<s, m>> \notin StrictSubsetOrdering(S)
  <2> HIDE DEF bad
  <2> QED
    BY <1>1, <1>2, WFMin
<1> DEFINE rest == m \ {Some(m)}
<1>4. m # {}
  BY TotalBound
<1>5. Some(m) \in m
  BY <1>4 DEF Some
<1>6. rest \in SUBSET S /\ rest # m /\ rest \subseteq m
  BY <1>5
<1>7. <<rest, m>> \in StrictSubsetOrdering(S)
  <2> HIDE DEF rest
  <2> QED
    BY <1>6 DEF StrictSubsetOrdering
<1>8. sum[rest] = Total(rest)
  BY <1>3, <1>6, <1>7
<1>9. sum[m] = Points[Some(m)] + sum[rest] /\ Total(m) = Points[Some(m)] + Total(rest)
  BY <1>4, TotalAdds
<1> QED
  BY <1>3, <1>8, <1>9

(* The sum of the points, as the fold computes it.                         *)
LEMMA SumOfPoints ==
  ASSUME NEW S \in SUBSET DOMAIN Points
  PROVE  MapThenSumSet(LAMBDA code : Points[code], S) = Total(S)
<1> DEFINE Adds(f) == f = [s \in SUBSET S |->
                             IF s = {} THEN 0 ELSE Points[Some(s)] + f[s \ {Some(s)}]]
           totals == [s \in SUBSET S |-> Total(s)]
           sum == CHOOSE f : Adds(f)
<1>1. MapThenSumSet(LAMBDA code : Points[code], S) = sum[S]
  BY DEF MapThenSumSet, MapThenFoldSet, Some
<1>2. Adds(totals)
  <2>1. \A s \in SUBSET S : s # {} => s \ {Some(s)} \in SUBSET S
    OBVIOUS
  <2> QED
    BY <2>1, TotalAdds
<1>3. Adds(sum)
  <2> HIDE DEF Adds, totals
  <2> QED
    BY <1>2, Zenon
<1> HIDE DEF sum
<1>4. sum[S] = Total(S)
  BY <1>3, OnlyTotalAdds
<1> QED
  BY <1>1, <1>4

(* The weight of a code is its points.                                     *)
LEMMA WeightIsPoints ==
  ASSUME NEW signals, \A s \in signals : s.code \in DOMAIN Points /\ s.score = Points[s.code],
         NEW code \in {s.code : s \in signals}
  PROVE  Weight(signals, code) = Points[code]
<1> DEFINE scores == {s.score : s \in {t \in signals : t.code = code}}
<1>1. scores = {Points[code]}
  OBVIOUS
<1>2. Points[code] \in Nat
  BY DEF Points
<1> QED
  BY <1>1, <1>2 DEF Weight, Max

(* The score of such signals is the sum of the points of their codes.      *)
LEMMA ScoreIsTotal ==
  ASSUME NEW signals, \A s \in signals : s.code \in DOMAIN Points /\ s.score = Points[s.code]
  PROVE  Score(signals) = Total({s.code : s \in signals})
<1> DEFINE S == {s.code : s \in signals}
           Adds(f) == f = [s \in SUBSET S |->
                         IF s = {} THEN 0 ELSE Weight(signals, Some(s)) + f[s \ {Some(s)}]]
           totals == [s \in SUBSET S |-> Total(s)]
           sum == CHOOSE f : Adds(f)
<1>1. MapThenSumSet(LAMBDA code : Weight(signals, code), S) = sum[S]
  BY Zenon DEF MapThenSumSet, MapThenFoldSet, Some
<1>2. S \in SUBSET DOMAIN Points
  OBVIOUS
<1>3. \A code \in S : Weight(signals, code) = Points[code]
  BY WeightIsPoints
<1> HIDE DEF S
<1>4. \A s \in SUBSET S : s # {} => Some(s) \in S /\ s \ {Some(s)} \in SUBSET S
  BY DEF Some
<1>5. Adds(totals)
  BY <1>2, <1>3, <1>4, TotalAdds
<1>6. Adds(sum)
  <2> HIDE DEF Adds, totals
  <2> QED
    BY <1>5, Zenon
<1> HIDE DEF sum
<1>7. \A s \in SUBSET S :
        sum[s] = IF s = {} THEN 0 ELSE Points[Some(s)] + sum[s \ {Some(s)}]
  BY <1>3, <1>4, <1>6
<1>8. sum[S] = Total(S)
  BY <1>2, <1>7, OnlyTotalAdds
<1> HIDE DEF Adds
<1>9. Score(signals) = IF sum[S] < 100 THEN sum[S] ELSE 100
  BY <1>1, Zenon DEF Score, S
<1> QED
  BY <1>2, <1>8, <1>9, TotalBound DEF S

(* Every signal has a rule's code and its points.                          *)
LEMMA SignalsScore ==
  ASSUME NEW approvals, NEW contracts, NEW target,
         NEW s \in Evaluate(approvals, contracts, target)
  PROVE  s.code \in DOMAIN Points /\ s.score = Points[s.code]
<1>1. ASSUME NEW code \in DOMAIN Points, NEW cites, s = Signal(code, cites)
      PROVE  s.code \in DOMAIN Points /\ s.score = Points[s.code]
  <2> HIDE DEF Points
  <2> QED
    BY <1>1 DEF Signal
<1>2. \E code \in DOMAIN Points : \E cites : s = Signal(code, cites)
  <2>1. {"UNLIMITED_TOKEN_APPROVAL", "NFT_OPERATOR_APPROVAL", "TOKEN_APPROVAL",
         "CONTRACT_SPENDER", "UNVERIFIED_TARGET", "APPROVAL_BY_OTHER_OWNER",
         "PROXY_DETECTED", "EXECUTION_STATUS"} \subseteq DOMAIN Points
    BY DEF Points
  <2>2. ASSUME NEW a, s \in ApprovalSignals(a)
        PROVE  \E code \in DOMAIN Points : \E cites : s = Signal(code, cites)
    BY <2>1, <2>2 DEF ApprovalSignals
  <2>3. ASSUME NEW a, s \in SpenderSignals(a, contracts)
        PROVE  \E code \in DOMAIN Points : \E cites : s = Signal(code, cites)
    BY <2>1, <2>3 DEF SpenderSignals
  <2>4. ASSUME s \in OtherOwners(approvals)
        PROVE  \E code \in DOMAIN Points : \E cites : s = Signal(code, cites)
    BY <2>1, <2>4 DEF OtherOwners
  <2>5. ASSUME NEW c, s \in TargetSignals(c, target) \/ s \in ProxySignals(c)
        PROVE  \E code \in DOMAIN Points : \E cites : s = Signal(code, cites)
    BY <2>1, <2>5 DEF TargetSignals, ProxySignals
  <2> QED
    BY <2>1, <2>2, <2>3, <2>4, <2>5, SignalSource
<1> QED
  BY <1>1, <1>2

(* What is inductive: the signals in the report are the rules', and the    *)
(* score is the sum of the points of the rules that fired.                 *)
Scored ==
  /\ \A s \in risk.signals : s.code \in DOMAIN Points /\ s.score = Points[s.code]
  /\ risk.score = Total({s.code : s \in risk.signals})

(* Only the assessment writes the risk, and it writes such a one.          *)
LEMMA StepScored == Scored /\ [Next]_vars => Scored'
<1> SUFFICES ASSUME Scored, [Next]_vars PROVE Scored'
  OBVIOUS
<1>1. CASE Assess
  <2> DEFINE signals == Evaluate(Approvals(world.tx), Contracts, Target)
  <2>1. risk' = [signals |-> signals, score |-> Score(signals)]
    BY <1>1, Zenon DEF Assess
  <2>2. \A s \in signals : s.code \in DOMAIN Points /\ s.score = Points[s.code]
    BY SignalsScore
  <2> HIDE DEF signals
  <2>3. Score(signals) = Total({s.code : s \in signals})
    BY <2>2, ScoreIsTotal
  <2> QED
    BY <2>1, <2>2, <2>3 DEF Scored
<1>2. CASE UNCHANGED risk
  BY <1>2 DEF Scored
<1>3. Assess \/ UNCHANGED risk
  <2>1. Decode \/ Inspect => UNCHANGED risk
    BY DEF Decode, Inspect, ReadCode, CodeFails, ReadSlots, Detect, Resolve, SlotsFail, NullWord, Explore,
           later
  <2>2. Investigate => UNCHANGED risk
    BY DEF Investigate, Snapshot, ToolCode, ToolSlot, ToolFails, Compare, later
  <2> QED
    BY <2>1, <2>2 DEF Next, Finished, vars, later
<1> QED
  BY <1>1, <1>2, <1>3

(* The score is the sum of the points of the distinct rules that fired,    *)
(* whatever the receipt repeats: the points of all rules together stay     *)
(* below 100, and min(100, ...) never takes anything away.                 *)
THEOREM ScoreIsOfRules == Spec => []ScoreCountsRulesOnce
<1>1. Init => Scored
  <2>1. ASSUME Init PROVE risk = [signals |-> {}, score |-> 0]
    BY <2>1 DEF Init
  <2>2. {s.code : s \in {}} = {}
    OBVIOUS
  <2> QED
    BY <2>1, <2>2, TotalBound DEF Scored
<1>2. Scored => ScoreCountsRulesOnce
  <2> SUFFICES ASSUME Scored PROVE ScoreCountsRulesOnce
    OBVIOUS
  <2> DEFINE fired == {s.code : s \in risk.signals}
  <2>1. fired \in SUBSET DOMAIN Points
    BY DEF Scored
  <2>2. risk.score = Total(fired)
    BY DEF Scored
  <2> HIDE DEF fired
  <2>3. MapThenSumSet(LAMBDA code : Points[code], fired) = Total(fired)
    BY <2>1, SumOfPoints
  <2>4. risk.score = MapThenSumSet(LAMBDA code : Points[code], fired)
    BY <2>2, <2>3
  <2> QED
    BY <2>4, Zenon DEF ScoreCountsRulesOnce, fired
<1> QED
  BY <1>1, <1>2, StepScored, PTL DEF Spec
=============================================================================

---------------------------- MODULE ExposureProofs ----------------------------
(***************************************************************************)
(* Theorems about Exposure, for every chain the provider may serve, every  *)
(* ledger, every set of approvals and every limit on the reads.            *)
(***************************************************************************)
EXTENDS Exposure, FiniteSetTheorems, SequenceTheorems, TLAPS

(* The block is chosen before anything is read; from then on it is the     *)
(* block every observation was made in, and it is part of the evidence.    *)
Pinned ==
  /\ pc = "latest" => block = NoBlock
  /\ pc \in {"reads", "recheck"} => block \in Hashes /\ block \in evidence

(* Whatever was read of an allowance was read in the reference block.      *)
ReadInBlock ==
  pc # "done" =>
    \A k \in Keys : allowance[k] # Unknown =>
      block \in Hashes /\ allowance[k] = ledger[block][k]

(* Observations exist only together with their block and their evidence,   *)
(* and they are those of the keys chosen by the read order.                *)
Observed ==
  /\ pc \in {"latest", "reads"} => states = {}
  /\ states \in {{}, Inspected}
  /\ states # {} => block \in Hashes /\ block \in evidence /\ states \subseteq evidence

(* An allowance is known exactly when its read was answered, and the reads *)
(* of an observed key are over.                                            *)
Answered ==
  /\ \A k \in Keys : allowance[k] # Unknown <=> answers[k]["allowance"] = "ok"
  /\ \A k \in states, f \in Fields : answers[k][f] # "pending"

IInv == TypeOK /\ Pinned /\ ReadInBlock /\ Observed /\ Answered

(* The last block of a chain is a block hash.                              *)
LEMMA LastIsBlock == ASSUME TypeOK PROVE Last(chain) \in Hashes
BY ExposureAssumption DEF TypeOK, Last

(* An approval has a key and an amount.                                    *)
LEMMA ApprovalType ==
  ASSUME TypeOK, NEW i \in DOMAIN approvals
  PROVE  /\ approvals[i].key \in Keys /\ approvals[i].amount \in Nat
         /\ approvals[i].key \in KeysOf
<1>1. approvals \in Seq([key : Keys, amount : Nat])
  BY ExposureAssumption DEF TypeOK
<1>2. approvals[i] \in [key : Keys, amount : Nat]
  <2>1. i \in 1..Len(approvals)
    BY <1>1
  <2> QED
    BY <1>1, <2>1, ElementOfSeq
<1> QED
  BY <1>2 DEF KeysOf

(* The keys of the approvals are keys, and finitely many.                  *)
LEMMA KeysOfFinite == ASSUME TypeOK PROVE KeysOf \subseteq Keys /\ IsFiniteSet(KeysOf)
<1> DEFINE f == [i \in DOMAIN approvals |-> approvals[i].key]
<1>1. approvals \in Seq([key : Keys, amount : Nat])
  BY ExposureAssumption DEF TypeOK
<1>2. IsFiniteSet(DOMAIN approvals)
  BY <1>1, FS_Interval
<1>3. f \in Surjection(DOMAIN approvals, KeysOf)
  BY DEF Surjection, KeysOf
<1>4. IsFiniteSet(KeysOf)
  BY <1>2, <1>3, FS_Surjection
<1>5. KeysOf \subseteq Keys
  <2> SUFFICES ASSUME NEW k \in KeysOf PROVE k \in Keys
    OBVIOUS
  <2>1. PICK i \in DOMAIN approvals : k = approvals[i].key
    BY DEF KeysOf
  <2> QED
    BY <2>1, ApprovalType
<1> QED
  BY <1>4, <1>5

(* The read order puts everything before j also before k, when j's owner   *)
(* comes first: a key that is read is never read instead of it.            *)
LEMMA EarlierIsRead ==
  ASSUME TypeOK, NEW j \in KeysOf, NEW k \in Inspected, Role[j] < Role[k]
  PROVE  j \in Inspected
<1> DEFINE Ahead(x) == {i \in KeysOf : Before(i, x)}
<1>1. KeysOf \subseteq Keys /\ IsFiniteSet(KeysOf)
  BY KeysOfFinite
<1>2. k \in KeysOf /\ Cardinality(Ahead(k)) < ReadLimit
  BY DEF Inspected
<1>3. Ahead(j) \subseteq Ahead(k)
  <2> SUFFICES ASSUME NEW i \in KeysOf, Before(i, j) PROVE Before(i, k)
    OBVIOUS
  <2>1. Role[i] \in Nat /\ Role[j] \in Nat /\ Role[k] \in Nat
    BY <1>1, <1>2, ExposureAssumption
  <2>2. Role[i] <= Role[j]
    BY <2>1 DEF Before
  <2> QED
    BY <2>1, <2>2 DEF Before
<1>4. IsFiniteSet(Ahead(k)) /\ Ahead(j) \in SUBSET Ahead(k)
  BY <1>1, <1>3, FS_Subset
<1>5. /\ Cardinality(Ahead(j)) <= Cardinality(Ahead(k))
      /\ Cardinality(Ahead(j)) \in Nat /\ Cardinality(Ahead(k)) \in Nat
  BY <1>4, FS_Subset, FS_CardinalityType
<1>6. Cardinality(Ahead(j)) < ReadLimit
  BY <1>2, <1>5, ExposureAssumption
<1> QED
  BY <1>6 DEF Inspected

(* What the comparison of two known amounts says of the present one.       *)
LEMMA CompareMeans ==
  ASSUME NEW now \in Nat, NEW before \in Nat
  PROVE  /\ Compare(now, before) = "REVOKED" <=> now = 0
         /\ Compare(now, before) = "PARTIALLY_ACTIVE" <=> 0 < now /\ now < before
         /\ Compare(now, before) = "ACTIVE" <=> 0 < now /\ now = before
<1>1. CASE now = 0
  <2>1. Compare(now, before) = "REVOKED"
    <3>1. ~(0 < now /\ now < before) /\ ~(now > before)
      BY <1>1
    <3> QED
      BY <1>1, <3>1, Zenon DEF Compare
  <2> QED
    BY <1>1, <2>1
<1>2. CASE 0 < now /\ now < before
  <2>1. Compare(now, before) = "PARTIALLY_ACTIVE"
    <3>1. now # 0 /\ ~(now > before)
      BY <1>2
    <3> QED
      BY <1>2, <3>1, Zenon DEF Compare
  <2> QED
    BY <1>2, <2>1
<1>3. CASE now > before
  <2>1. Compare(now, before) = "SUPERSEDED"
    <3>1. now # 0 /\ ~(0 < now /\ now < before)
      BY <1>3
    <3> QED
      BY <1>3, <3>1, Zenon DEF Compare
  <2> QED
    BY <1>3, <2>1
<1>4. CASE 0 < now /\ now = before
  <2>1. Compare(now, before) = "ACTIVE"
    <3>1. now # 0 /\ ~(0 < now /\ now < before) /\ ~(now > before)
      BY <1>4
    <3> QED
      BY <1>4, <3>1, Zenon DEF Compare
  <2> QED
    BY <1>4, <2>1
<1> QED
  BY <1>1, <1>2, <1>3, <1>4

---------------------------------------------------------------------------

(* The initial state satisfies the invariant.                              *)
LEMMA InitIInv == Init => IInv
<1> SUFFICES ASSUME Init PROVE IInv
  OBVIOUS
<1> QED
  BY ExposureAssumption
  DEF Init, IInv, TypeOK, Pinned, ReadInBlock, Observed, Answered

(* Every step preserves it.                                                *)
LEMMA NextIInv == IInv /\ [Next]_vars => IInv'
<1> SUFFICES ASSUME IInv, [Next]_vars PROVE IInv'
  OBVIOUS
<1> USE ExposureAssumption DEF IInv, provider
<1>0. ASSUME UNCHANGED <<approvals>> PROVE Inspected' = Inspected
  BY <1>0 DEF Inspected, KeysOf, Before, First
<1>1. CASE ChainMoves
  BY <1>0, <1>1 DEF ChainMoves, TypeOK, Pinned, ReadInBlock, Observed, Answered
<1>2. CASE ReadLatest
  <2>1. TypeOK'
    BY <1>2, LastIsBlock DEF ReadLatest, TypeOK
  <2>2. Pinned' /\ Observed'
    BY <1>0, <1>2, LastIsBlock DEF ReadLatest, Pinned, Observed
  <2>3. ReadInBlock'
    <3>1. \A k \in Keys : allowance[k] = Unknown
      BY <1>2 DEF ReadLatest, ReadInBlock, Pinned
    <3> QED
      BY <1>2, <3>1 DEF ReadLatest, ReadInBlock
  <2>4. Answered'
    BY <1>2 DEF ReadLatest, Answered
  <2> QED
    BY <2>1, <2>2, <2>3, <2>4
<1>3. ASSUME NEW k \in Keys, NEW f \in Fields, ReadOk(k, f)
      PROVE IInv'
  <2>1. block \in Hashes /\ ledger[block][k] \in Nat
    BY <1>3 DEF ReadOk, Pinned, TypeOK
  <2>2. TypeOK'
    BY <1>3, <2>1 DEF ReadOk, TypeOK
  <2>3. Pinned' /\ Observed'
    BY <1>0, <1>3 DEF ReadOk, Pinned, Observed
  <2>4. ReadInBlock'
    BY <1>3, <2>1 DEF ReadOk, ReadInBlock, TypeOK
  <2>5. Answered'
    BY <1>3, <2>1 DEF ReadOk, Answered, TypeOK
  <2> QED
    BY <2>2, <2>3, <2>4, <2>5
<1>4. ASSUME NEW k \in Keys, NEW f \in Fields, ReadFails(k, f)
      PROVE IInv'
  <2>1. TypeOK' /\ ReadInBlock'
    BY <1>4 DEF ReadFails, TypeOK, ReadInBlock
  <2>2. Pinned' /\ Observed'
    BY <1>0, <1>4 DEF ReadFails, Pinned, Observed
  <2>3. Answered'
    BY <1>4 DEF ReadFails, Answered, TypeOK
  <2> QED
    BY <2>1, <2>2, <2>3
<1>5. CASE Collect
  <2>1. Inspected \subseteq Keys
    BY KeysOfFinite DEF Inspected
  <2> QED
    BY <1>0, <1>5, <2>1
    DEF Collect, TypeOK, Pinned, ReadInBlock, Observed, Answered
<1>6. CASE Recheck
  BY <1>0, <1>6 DEF Recheck, TypeOK, Pinned, ReadInBlock, Observed, Answered
<1>7. CASE GiveUp
  BY <1>0, <1>7 DEF GiveUp, Discard, TypeOK, Pinned, ReadInBlock, Observed, Answered
<1>8. CASE UNCHANGED vars
  BY <1>0, <1>8 DEF vars, TypeOK, Pinned, ReadInBlock, Observed, Answered
<1> QED
  BY <1>1, <1>2, <1>3, <1>4, <1>5, <1>6, <1>7, <1>8 DEF Next

(* The analysis of the approvals keeps its invariant.                      *)
THEOREM ExposureInvariant == Spec => []IInv
BY InitIInv, NextIInv, PTL DEF Spec

---------------------------------------------------------------------------

(* The states of an analysis have the types of the code's variables.       *)
THEOREM ExposureTypeCorrect == Spec => []TypeOK
<1>1. IInv => TypeOK
  BY DEF IInv
<1> QED
  BY <1>1, ExposureInvariant, PTL

(* A published permission refers to published evidence only, also when the *)
(* observations were discarded.                                            *)
THEOREM EvidenceIsPublished == Spec => []CitedIsPublished
<1>1. IInv => CitedIsPublished
  BY DEF IInv, Observed, CitedIsPublished, Cites
<1> QED
  BY <1>1, ExposureInvariant, PTL

(* Whatever the limit on the reads, the sender's permissions come first.   *)
THEOREM SenderIsReadFirst == Spec => []SenderFirst
<1>1. IInv => SenderFirst
  <2> SUFFICES ASSUME IInv, NEW j \in KeysOf \ states, NEW k \in states
               PROVE  Role[j] >= Role[k]
    BY DEF SenderFirst
  <2>1. states = Inspected /\ k \in Inspected /\ j \notin Inspected
    BY DEF IInv, Observed
  <2>2. ~(Role[j] < Role[k])
    BY <2>1, EarlierIsRead DEF IInv
  <2>3. Role[j] \in Nat /\ Role[k] \in Nat
    BY <2>1, KeysOfFinite, ExposureAssumption DEF IInv, Inspected
  <2> QED
    BY <2>2, <2>3
<1> QED
  BY <1>1, ExposureInvariant, PTL

(* The follow-up reads of a live permission have a block to be pinned to.  *)
THEOREM FollowUpsArePinned == Spec => []ToolsArePinned
<1>1. IInv => ToolsArePinned
  <2> SUFFICES ASSUME IInv, NEW i \in DOMAIN approvals, Active(i) = TRUE
               PROVE  SnapshotTag \in Hashes
    BY DEF ToolsArePinned
  <2>1. approvals[i].key \in KeysOf
    BY ApprovalType DEF IInv
  <2>2. approvals[i].key \in states
    BY ExposureAssumption DEF Active, Now
  <2> QED
    BY <2>1, <2>2 DEF SnapshotTag, IInv, Observed
<1> QED
  BY <1>1, ExposureInvariant, PTL

(* Coverage "available" is only claimed when nothing failed.               *)
LEMMA AvailableMeansFull == Coverage = "available" => Full
<1> SUFFICES ASSUME ~Full PROVE Coverage # "available"
  OBVIOUS
<1>1. CASE approvals = <<>>
  <2>1. Coverage = "not_applicable"
    BY <1>1, Zenon DEF Coverage
  <2> QED
    BY <2>1
<1>2. CASE approvals # <<>>
  <2>1. Coverage = IF \E k \in KeysOf : Now(k) # Unknown
                   THEN "partial" ELSE "unavailable"
    BY <1>2, Zenon DEF Coverage
  <2> QED
    BY <2>1
<1> QED
  BY <1>1, <1>2

(* Missing data is never shown as safety, whatever reads failed.           *)
THEOREM MissingDataShows == Spec => []GapsAreShown
<1>1. IInv => GapsAreShown
  <2> SUFFICES ASSUME IInv, NEW i \in DOMAIN approvals
               PROVE  /\ (approvals[i].key \notin states \/
                          answers[approvals[i].key]["allowance"] # "ok") =>
                            /\ Active(i) = Unknown
                            /\ Status(i) \in {"UNKNOWN", "SUPERSEDED"}
                      /\ (Coverage = "available") => Active(i) \in BOOLEAN
    BY DEF GapsAreShown
  <2> DEFINE k == approvals[i].key
  <2>1. k \in Keys /\ k \in KeysOf
    BY ApprovalType DEF IInv
  <2>2. ASSUME k \notin states \/ answers[k]["allowance"] # "ok"
        PROVE  Active(i) = Unknown /\ Status(i) \in {"UNKNOWN", "SUPERSEDED"}
    <3>1. Now(k) = Unknown
      BY <2>1, <2>2 DEF Now, IInv, Answered
    <3> QED
      BY <3>1 DEF Active, Status
  <2>3. ASSUME Coverage = "available"
        PROVE  Active(i) \in BOOLEAN
    <3>1. k \in states /\ answers[k]["allowance"] # "failed"
      BY <2>1, <2>3, AvailableMeansFull, ExposureAssumption DEF Full, HasErrors
    <3>2. answers[k]["allowance"] = "ok"
      <4>1. answers[k] \in [Fields -> {"pending", "ok", "failed"}]
        BY <2>1 DEF IInv, TypeOK
      <4>2. answers[k]["allowance"] # "pending"
        BY <3>1, ExposureAssumption DEF IInv, Answered
      <4> QED
        BY <3>1, <4>1, <4>2, ExposureAssumption
    <3>3. Now(k) \in Nat
      <4>1. allowance[k] # Unknown /\ allowance[k] \in Nat \cup {Unknown}
        BY <2>1, <3>2 DEF IInv, TypeOK, Answered
      <4> QED
        BY <3>1, <4>1 DEF Now
    <3> QED
      <4>1. Now(k) # Unknown
        BY <3>3, ExposureAssumption
      <4>2. Active(i) = (Now(k) > 0)
        BY <4>1, Zenon DEF Active
      <4>3. (Now(k) > 0) \in BOOLEAN
        BY <3>3
      <4> QED
        BY <4>2, <4>3
  <2> QED
    BY <2>2, <2>3
<1> QED
  BY <1>1, ExposureInvariant, PTL

(* What is reported of a permission is true of the chain at the moment the *)
(* reference block was looked up again, however it moved before.           *)
THEOREM VerdictsAreTrue == Spec => VerdictsHold
<1> DEFINE Report ==
      (pc # "done" /\ pc' = "done") =>
       \A i \in DOMAIN approvals :
         (Active(i)' # Unknown) =>
           LET now == ledger[block'][approvals[i].key]
           IN  /\ block' \in ToSet(chain)
               /\ Active(i)' <=> now > 0
               /\ (Status(i)' = "ACTIVE") => now = approvals[i].amount
               /\ (Status(i)' = "REVOKED") => now = 0
<1>1. IInv /\ [Next]_vars => [Report]_vars
  <2> SUFFICES ASSUME IInv, Next, pc # "done", pc' = "done",
                      NEW i \in DOMAIN approvals, Active(i)' # Unknown
               PROVE  LET now == ledger[block'][approvals[i].key]
                      IN  /\ block' \in ToSet(chain)
                          /\ Active(i)' <=> now > 0
                          /\ (Status(i)' = "ACTIVE") => now = approvals[i].amount
                          /\ (Status(i)' = "REVOKED") => now = 0
    OBVIOUS
  <2> DEFINE k == approvals[i].key
  <2>1. k \in Keys /\ k \in KeysOf /\ approvals[i].amount \in Nat
    BY ApprovalType DEF IInv
  <2>2. CASE GiveUp
    <3>1. Active(i)' = Unknown
      BY <2>2 DEF GiveUp, Discard, Active, Now, provider
    <3> QED
      BY <3>1
  <2>3. CASE Recheck
    <3>1. k \in states /\ allowance[k] # Unknown
      BY <2>3 DEF Recheck, Active, Now
    <3>2. block \in Hashes /\ allowance[k] = ledger[block][k] /\ ledger[block][k] \in Nat
      BY <2>1, <2>3, <3>1, ExposureAssumption DEF Recheck, IInv, ReadInBlock, TypeOK
    <3>3. /\ block' = block /\ approvals' = approvals /\ block \in ToSet(chain)
          /\ Now(k)' = ledger[block][k]
      BY <2>3, <3>1, <3>2 DEF Recheck, Now
    <3>4. Active(i)' = (ledger[block][k] > 0)
      BY <3>2, <3>3, ExposureAssumption DEF Active
    <3>5. Status(i)' \in {"ACTIVE", "REVOKED"} =>
            Status(i)' = Compare(ledger[block][k], approvals[i].amount)
      BY <3>2, <3>3, ExposureAssumption DEF Status
    <3> QED
      BY <2>1, <3>2, <3>3, <3>4, <3>5, CompareMeans
  <2> QED
    BY <2>2, <2>3
    DEF Next, ChainMoves, ReadLatest, ReadOk, ReadFails, Collect
<1> QED
  BY <1>1, ExposureInvariant, PTL DEF Spec, VerdictsHold

(* Only the last event of a key says what is in force, and what it says is *)
(* the comparison of its amount with the allowance at the block that was   *)
(* looked up again: the allowance read is that of the pinned block.        *)
THEOREM OnlyTheLastSpeaks == Spec => LastEventSpeaks
<1> DEFINE IsLast(i) == \A j \in DOMAIN approvals :
                          approvals[j].key = approvals[i].key => j <= i
           Speech(i, now) ==
             /\ (Status(i)' = "REVOKED") <=> IsLast(i) /\ now = 0
             /\ (Status(i)' = "PARTIALLY_ACTIVE")
                  <=> IsLast(i) /\ 0 < now /\ now < approvals[i].amount
             /\ (Status(i)' = "ACTIVE")
                  <=> IsLast(i) /\ 0 < now /\ now = approvals[i].amount
           Report ==
             (pc # "done" /\ pc' = "done") =>
               \A i \in DOMAIN approvals :
                 (Active(i)' # Unknown) => Speech(i, ledger[block'][approvals[i].key])
<1>1. IInv /\ [Next]_vars => [Report]_vars
  <2> SUFFICES ASSUME IInv, Next, pc # "done", pc' = "done",
                      NEW i \in DOMAIN approvals, Active(i)' # Unknown
               PROVE  Speech(i, ledger[block'][approvals[i].key])
    OBVIOUS
  <2> DEFINE k == approvals[i].key
  <2>1. k \in Keys /\ k \in KeysOf /\ approvals[i].amount \in Nat
    BY ApprovalType DEF IInv
  <2>2. CASE GiveUp
    <3>1. Active(i)' = Unknown
      BY <2>2 DEF GiveUp, Discard, Active, Now, provider
    <3> QED
      BY <3>1
  <2>3. CASE Recheck
    <3>1. k \in states /\ allowance[k] # Unknown
      BY <2>3 DEF Recheck, Active, Now
    <3>2. allowance[k] = ledger[block][k] /\ ledger[block][k] \in Nat
      BY <2>1, <2>3, <3>1, ExposureAssumption DEF Recheck, IInv, ReadInBlock, TypeOK
    <3>3. /\ block' = block /\ approvals' = approvals
          /\ Now(k)' = ledger[block][k] /\ Now(k)' # Unknown
      BY <2>3, <3>1, <3>2 DEF Recheck, Now
    <3>4. IsSuperseded(i)' <=> ~IsLast(i)
      <4>1. approvals \in Seq([key : Keys, amount : Nat])
        BY ExposureAssumption DEF IInv, TypeOK
      <4>2. DOMAIN approvals = 1..Len(approvals) /\ Len(approvals) \in Nat
        BY <4>1
      <4> QED
        BY <3>3, <4>2 DEF IsSuperseded
    <3>5. CASE IsLast(i)
      <4>1. Status(i)' = Compare(ledger[block][k], approvals[i].amount)
        BY <3>3, <3>4, <3>5, Zenon DEF Status
      <4> QED
        BY <2>1, <3>2, <3>3, <3>5, <4>1, CompareMeans
    <3>6. CASE ~IsLast(i)
      <4>1. Status(i)' = "SUPERSEDED"
        BY <3>4, <3>6, Zenon DEF Status
      <4> QED
        BY <3>6, <4>1
    <3> QED
      BY <3>5, <3>6
  <2> QED
    BY <2>2, <2>3
    DEF Next, ChainMoves, ReadLatest, ReadOk, ReadFails, Collect
<1> QED
  BY <1>1, ExposureInvariant, PTL DEF Spec, LastEventSpeaks
================================================================================

-------------------------- MODULE JobStoreProofs --------------------------
(***************************************************************************)
(* Theorems about the job store, for every set of jobs, keys and workers   *)
(* and every lease length.                                                 *)
(***************************************************************************)
EXTENDS JobStore, TLAPS

(* The initial tables are well typed.                                      *)
LEMMA StoreInitType == StoreInit => StoreTypeOK
BY LeaseAssumption DEF StoreInit, StoreTypeOK, Statuses

(* Every transaction keeps the columns in their types.                     *)
LEMMA StoreNextType == StoreTypeOK /\ [StoreNext]_storeVars => StoreTypeOK'
<1> SUFFICES ASSUME StoreTypeOK, [StoreNext]_storeVars PROVE StoreTypeOK'
  OBVIOUS
<1> USE LeaseAssumption
<1>1. ASSUME NEW w \in Workers, NEW j \in Jobs, NEW k \in Keys, Insert(w, j, k)
      PROVE StoreTypeOK'
  BY <1>1 DEF Insert, StoreTypeOK, Statuses
<1>2. ASSUME NEW w \in Workers, NEW j \in Jobs,
             NEW new \in {"running", "complete", "failed"}, Advance(w, j, new)
      PROVE StoreTypeOK'
  BY <1>2 DEF Advance, UpdateJob, StoreTypeOK, Statuses
<1>3. ASSUME NEW j \in Jobs, SaveReport(j)
      PROVE StoreTypeOK'
  BY <1>3 DEF SaveReport, jobs, StoreTypeOK
<1>4. ASSUME NEW w \in Workers, RenewLeases(w)
      PROVE StoreTypeOK'
  BY <1>4 DEF RenewLeases, StoreTypeOK
<1>5. ASSUME NEW S, Interrupt(S)
      PROVE StoreTypeOK'
  BY <1>5 DEF Interrupt, StoreTypeOK, Statuses
<1>6. ASSUME Elapse
      PROVE StoreTypeOK'
  BY <1>6 DEF Elapse, Expired, StoreTypeOK
<1>7. CASE UNCHANGED storeVars
  BY <1>7 DEF storeVars, StoreTypeOK
<1> QED
  BY <1>1, <1>2, <1>3, <1>4, <1>5, <1>6, <1>7
  DEF StoreNext, ReleaseOwned, RecoverInterrupted

(* The tables of every run are well typed.                                 *)
THEOREM StoreTypeCorrect == StoreSpec => []StoreTypeOK
BY StoreInitType, StoreNextType, PTL DEF StoreSpec

---------------------------------------------------------------------------
(* No transaction breaks the key discipline: an insertion takes a free     *)
(* key, and whatever fails a row clears its key.                           *)
LEMMA NextKeyDiscipline ==
    StoreTypeOK /\ KeyDiscipline /\ [StoreNext]_storeVars => KeyDiscipline'
<1> SUFFICES ASSUME StoreTypeOK, KeyDiscipline, [StoreNext]_storeVars
             PROVE KeyDiscipline'
  OBVIOUS
<1>1. ASSUME NEW w \in Workers, NEW j \in Jobs, NEW k \in Keys, Insert(w, j, k)
      PROVE KeyDiscipline'
  BY <1>1, NoKeyAssumption DEF Insert, KeyFree, StoreTypeOK, KeyDiscipline
<1>2. ASSUME NEW w \in Workers, NEW j \in Jobs,
             NEW new \in {"running", "complete", "failed"}, Advance(w, j, new)
      PROVE KeyDiscipline'
  <2>1. status[j] \in {"queued", "running", "complete"}
    BY <1>2 DEF Advance, UpdateJob, CanUpdate, Live
  <2> QED
    BY <1>2, <2>1 DEF Advance, UpdateJob, StoreTypeOK, KeyDiscipline
<1>3. ASSUME NEW S, S \subseteq {j \in Jobs : Live(j)}, Interrupt(S)
      PROVE KeyDiscipline'
  BY <1>3 DEF Interrupt, Live, StoreTypeOK, KeyDiscipline
<1>4. CASE UNCHANGED <<status, key>>
  BY <1>4 DEF KeyDiscipline
<1> QED
  BY <1>1, <1>2, <1>3, <1>4
  DEF StoreNext, ReleaseOwned, RecoverInterrupted, Owned, Abandoned,
      SaveReport, jobs, RenewLeases, Elapse, storeVars

(* At most one job holds a cache key, and exactly the jobs that are live   *)
(* or complete hold one, so a failure always lets the next submission in.  *)
THEOREM StoreKeyDiscipline == StoreSpec => []KeyDiscipline
<1>1. StoreInit => KeyDiscipline
  BY DEF StoreInit, KeyDiscipline
<1> QED
  BY <1>1, NextKeyDiscipline, StoreTypeCorrect, PTL DEF StoreSpec

---------------------------------------------------------------------------
(* What one step may do to the status of a row.                            *)
LEMMA StepKeepsFinal ==
    ASSUME StoreTypeOK, [StoreNext]_storeVars, NEW j \in Jobs
    PROVE  /\ status[j] = "failed" => status'[j] = "failed"
           /\ status[j] = "complete" => status'[j] \in {"complete", "failed"}
<1>1. ASSUME NEW w \in Workers, NEW i \in Jobs, NEW k \in Keys, Insert(w, i, k)
      PROVE /\ status[j] = "failed" => status'[j] = "failed"
            /\ status[j] = "complete" => status'[j] \in {"complete", "failed"}
  BY <1>1 DEF Insert, StoreTypeOK
<1>2. ASSUME NEW w \in Workers, NEW i \in Jobs,
             NEW new \in {"running", "complete", "failed"}, Advance(w, i, new)
      PROVE /\ status[j] = "failed" => status'[j] = "failed"
            /\ status[j] = "complete" => status'[j] \in {"complete", "failed"}
  BY <1>2 DEF Advance, UpdateJob, CanUpdate, Live, StoreTypeOK
<1>3. ASSUME NEW S, Interrupt(S)
      PROVE /\ status[j] = "failed" => status'[j] = "failed"
            /\ status[j] = "complete" => status'[j] \in {"complete", "failed"}
  BY <1>3 DEF Interrupt
<1> QED
  BY <1>1, <1>2, <1>3
  DEF StoreNext, ReleaseOwned, RecoverInterrupted, SaveReport, jobs, RenewLeases,
      Elapse, storeVars

(* A failed job never comes back and a complete one can only fail,         *)
(* whatever process writes and however late.                               *)
THEOREM StoreFailedIsFinal == StoreSpec => FailedIsFinal
<1>1. ASSUME StoreTypeOK, KeyDiscipline', [StoreNext]_storeVars
      PROVE [\A j \in Jobs :
                /\ status[j] = "failed" => status'[j] = "failed" /\ key'[j] = NoKey
                /\ status[j] = "complete" => status'[j] \in {"complete", "failed"}
            ]_storeVars
  BY <1>1, StepKeepsFinal DEF KeyDiscipline
<1> QED
  BY <1>1, StoreTypeCorrect, StoreKeyDiscipline, PTL DEF StoreSpec, FailedIsFinal

---------------------------------------------------------------------------
(* The jobs that hold key k, as a client sees them.                        *)
Holders(k) == {j \in Jobs : key[j] = k}

(* An insertion is an acceptance under a free key.                         *)
LEMMA InsertAccepts ==
    ASSUME StoreTypeOK, KeyDiscipline,
           NEW w \in Workers, NEW j \in Jobs, NEW k \in Keys, Insert(w, j, k)
    PROVE  Lifecycle!Accept(j, k)
<1>1. Holders(k) = {}
  BY DEF Insert, KeyFree, Holders
<1>2. key[j] = NoKey
  BY DEF Insert, KeyDiscipline
<1>3. ASSUME NEW h \in Keys
      PROVE Holders(h)' = IF h = k THEN {j} ELSE Holders(h)
  <2>1. ASSUME NEW i \in Jobs
        PROVE key'[i] = h <=> IF h = k THEN i = j ELSE key[i] = h
    BY <1>2, NoKeyAssumption DEF Insert, KeyFree, StoreTypeOK
  <2> QED
    BY <2>1 DEF Holders
<1> QED
  BY <1>1, <1>3 DEF Insert, Lifecycle!Accept, Holders

(* Failing a set of live or complete jobs, keys cleared, is a failure.     *)
LEMMA ClearingFails ==
    ASSUME StoreTypeOK, NEW S \in SUBSET Jobs,
           \A j \in S : status[j] \in {"queued", "running", "complete"},
           status' = [j \in Jobs |-> IF j \in S THEN "failed" ELSE status[j]],
           key' = [j \in Jobs |-> IF j \in S THEN NoKey ELSE key[j]]
    PROVE  Lifecycle!Fail(S)
<1>1. ASSUME NEW k \in Keys
      PROVE Holders(k)' = Holders(k) \ S
  BY NoKeyAssumption DEF Holders
<1> QED
  BY <1>1 DEF Lifecycle!Fail, Holders

(* An update is a start, a completion, a failure or nothing to a client.   *)
LEMMA UpdateMoves ==
    ASSUME StoreTypeOK, NEW w \in Workers, NEW j \in Jobs,
           NEW new \in {"running", "complete", "failed"}, Advance(w, j, new)
    PROVE  [Lifecycle!Next]_(Lifecycle!vars)
<1>1. CASE new = "running"
  <2>1. key' = key /\ status[j] \in {"queued", "running"}
    BY <1>1 DEF Advance, UpdateJob, CanUpdate, Live
  <2>2. CASE status[j] = "queued"
    <3>1. Lifecycle!Start(j)
      BY <1>1, <2>1, <2>2 DEF Advance, UpdateJob, Lifecycle!Start
    <3> QED
      BY <3>1 DEF Lifecycle!Next
  <2>3. CASE status[j] = "running"
    <3>1. status' = status
      BY <1>1, <2>3 DEF Advance, UpdateJob, StoreTypeOK
    <3> QED
      BY <2>1, <3>1 DEF Lifecycle!vars
  <2> QED
    BY <2>1, <2>2, <2>3
<1>2. CASE new = "complete"
  <2>1. key' = key /\ status[j] = "running"
    BY <1>2 DEF Advance, UpdateJob, CanUpdate, Live
  <2>2. Lifecycle!Complete(j)
    BY <1>2, <2>1 DEF Advance, UpdateJob, Lifecycle!Complete
  <2> QED
    BY <2>2 DEF Lifecycle!Next
<1>3. CASE new = "failed"
  <2>1. status[j] \in {"queued", "running", "complete"}
    BY DEF Advance, UpdateJob, CanUpdate, Live
  <2>2. status' = [i \in Jobs |-> IF i \in {j} THEN "failed" ELSE status[i]]
    BY <1>3 DEF Advance, UpdateJob, StoreTypeOK
  <2>3. key' = [i \in Jobs |-> IF i \in {j} THEN NoKey ELSE key[i]]
    BY <1>3 DEF Advance, UpdateJob, StoreTypeOK
  <2>4. Lifecycle!Fail({j})
    BY <2>1, <2>2, <2>3, ClearingFails
  <2> QED
    BY <2>4 DEF Lifecycle!Next
<1> QED
  BY <1>1, <1>2, <1>3

(* Every transaction is a step of the lifecycle or leaves it alone.        *)
LEMMA StepRefines ==
    ASSUME StoreTypeOK, KeyDiscipline, [StoreNext]_storeVars
    PROVE  [Lifecycle!Next]_(Lifecycle!vars)
<1>1. ASSUME NEW w \in Workers, NEW j \in Jobs, NEW k \in Keys, Insert(w, j, k)
      PROVE [Lifecycle!Next]_(Lifecycle!vars)
  BY <1>1, InsertAccepts DEF Lifecycle!Next
<1>2. ASSUME NEW S, S \subseteq {j \in Jobs : Live(j)}, Interrupt(S)
      PROVE [Lifecycle!Next]_(Lifecycle!vars)
  <2>1. Lifecycle!Fail(S)
    BY <1>2, ClearingFails DEF Interrupt, Live
  <2> QED
    BY <1>2, <2>1 DEF Lifecycle!Next
<1>3. CASE UNCHANGED <<status, key>>
  BY <1>3 DEF Lifecycle!vars
<1> QED
  BY <1>1, UpdateMoves, <1>2, <1>3
  DEF StoreNext, ReleaseOwned, RecoverInterrupted, Owned, Abandoned,
      SaveReport, jobs, RenewLeases, Elapse, storeVars

(* The job store implements the lifecycle a client relies on.              *)
THEOREM StoreRefinesLifecycle == StoreSpec => LifecycleSpec
<1>1. StoreInit => Lifecycle!Init
  BY NoKeyAssumption DEF StoreInit, Lifecycle!Init
<1> QED
  BY <1>1, StepRefines, StoreTypeCorrect, StoreKeyDiscipline, PTL
  DEF StoreSpec, LifecycleSpec, Lifecycle!Spec
===========================================================================

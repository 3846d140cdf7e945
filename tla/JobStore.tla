----------------------------- MODULE JobStore -----------------------------
(***************************************************************************)
(* The jobs and reports tables behind SqlReportRepository                  *)
(* (storage/sql_repository.py).  A variable is a column of the jobs table, *)
(* indexed by job id; an action is one transaction, with the WHERE clause  *)
(* as its guard.  Spec lets any process call any operation at any time, so *)
(* what holds here is guaranteed by the SQL conditions alone.              *)
(*                                                                         *)
(* lease[j] is lease_expires_at - now in ticks; the code compares with     *)
(* "lease_expires_at >= now", so 0 is still valid and every expired lease  *)
(* is -1.  Payload text other than the status is not kept.                 *)
(***************************************************************************)
EXTENDS Integers, FiniteSets

CONSTANTS Jobs,      \* job ids (uuid4 of a submission)
          Keys,      \* cache keys
          NoKey,     \* NULL in the cache_key column
          Workers,   \* owner ids: one per process incarnation
          NoWorker,  \* owner of a job that has no row
          Lease      \* lease length, 60 seconds in ticks

ASSUME LeaseAssumption == Lease \in Nat
ASSUME NoKeyAssumption == NoKey \notin Keys
ASSUME NoWorkerAssumption == NoWorker \notin Workers

VARIABLES status, key, owner, lease, reports

jobs == <<status, key, owner, lease>>
storeVars == <<status, key, owner, lease, reports>>

Statuses == {"absent", "queued", "running", "complete", "failed"}

StoreTypeOK ==
    /\ status \in [Jobs -> Statuses]
    /\ key \in [Jobs -> Keys \cup {NoKey}]
    /\ owner \in [Jobs -> Workers \cup {NoWorker}]
    /\ lease \in [Jobs -> -1 .. Lease]
    /\ reports \subseteq Jobs

StoreInit ==
    /\ status = [j \in Jobs |-> "absent"]
    /\ key = [j \in Jobs |-> NoKey]
    /\ owner = [j \in Jobs |-> NoWorker]
    /\ lease = [j \in Jobs |-> -1]
    /\ reports = {}

Live(j) == status[j] \in {"queued", "running"}
Expired(j) == lease[j] < 0
KeyFree(k) == \A i \in Jobs : key[i] # k

---------------------------------------------------------------------------
(* Faulty variant: no unique index, so two selects that both find nothing  *)
(* lead to two rows.                                                       *)
InsertWithoutIndex(w, j, k) ==
    /\ status[j] = "absent"
    /\ status' = [status EXCEPT ![j] = "queued"]
    /\ key' = [key EXCEPT ![j] = k]
    /\ owner' = [owner EXCEPT ![j] = w]
    /\ lease' = [lease EXCEPT ![j] = Lease]
    /\ UNCHANGED reports

(* submit: the row is inserted only if the unique index on cache_key lets  *)
(* it in; otherwise the caller is answered with the row that holds the key.*)
Insert(w, j, k) ==
    /\ status[j] = "absent"
    /\ KeyFree(k)
    /\ status' = [status EXCEPT ![j] = "queued"]
    /\ key' = [key EXCEPT ![j] = k]
    /\ owner' = [owner EXCEPT ![j] = w]
    /\ lease' = [lease EXCEPT ![j] = Lease]
    /\ UNCHANGED reports

(* The WHERE clause of update_job: the owner while its lease is valid, or  *)
(* anyone who fails a complete job.                                        *)
CanUpdate(w, j, new) ==
    \/ owner[j] = w /\ Live(j) /\ ~Expired(j)
    \/ status[j] = "complete" /\ new = "failed"

(* Faulty variant: a failed job keeps its cache key.                       *)
UpdateJobKeepingKey(w, j, new) ==
    /\ CanUpdate(w, j, new)
    /\ status' = [status EXCEPT ![j] = new]
    /\ UNCHANGED <<key, owner, lease, reports>>

(* update_job when the WHERE clause matches; the lease is not extended.    *)
UpdateJob(w, j, new) ==
    /\ CanUpdate(w, j, new)
    /\ status' = [status EXCEPT ![j] = new]
    /\ key' = IF new = "failed" THEN [key EXCEPT ![j] = NoKey] ELSE key
    /\ UNCHANGED <<owner, lease, reports>>

(* save_report: no condition but the primary key.                          *)
SaveReport(j) ==
    /\ j \notin reports
    /\ reports' = reports \cup {j}
    /\ UNCHANGED jobs

(* renew_leases reads OwnExpired first and updates in a later statement,   *)
(* whose WHERE clause does not look at the lease again.                    *)
OwnExpired(w) == \E j \in Jobs : owner[j] = w /\ Live(j) /\ Expired(j)

RenewLeases(w) ==
    /\ lease' = [j \in Jobs |-> IF owner[j] = w /\ Live(j) THEN Lease ELSE lease[j]]
    /\ UNCHANGED <<status, key, owner, reports>>

(* Faulty variant: recovery does not look at the lease.                    *)
AbandonedOrNot == {j \in Jobs : Live(j)}

(* _interrupt, for recover_interrupted and release_owned.                  *)
Abandoned == {j \in Jobs : Live(j) /\ Expired(j)}
Owned(w) == {j \in Jobs : Live(j) /\ owner[j] = w}

Interrupt(S) ==
    /\ status' = [j \in Jobs |-> IF j \in S THEN "failed" ELSE status[j]]
    /\ key' = [j \in Jobs |-> IF j \in S THEN NoKey ELSE key[j]]
    /\ UNCHANGED <<owner, lease, reports>>

RecoverInterrupted == Interrupt(Abandoned)
ReleaseOwned(w) == Interrupt(Owned(w))

(* One tick of time.                                                       *)
Elapse ==
    /\ lease' = [j \in Jobs |-> IF Expired(j) THEN -1 ELSE lease[j] - 1]
    /\ UNCHANGED <<status, key, owner, reports>>

---------------------------------------------------------------------------
(* What services/analysis_service.py asks of a row: running or failed from *)
(* a live status, complete only after running (the stages come first).     *)
Advance(w, j, new) ==
    /\ new = "complete" => status[j] # "queued"
    /\ UpdateJob(w, j, new)

StoreNext ==
    \/ \E w \in Workers, j \in Jobs, k \in Keys : Insert(w, j, k)
    \/ \E w \in Workers, j \in Jobs, new \in {"running", "complete", "failed"} :
           Advance(w, j, new)
    \/ \E j \in Jobs : SaveReport(j)
    \/ \E w \in Workers : RenewLeases(w) \/ ReleaseOwned(w)
    \/ RecoverInterrupted
    \/ Elapse

StoreSpec == StoreInit /\ [][StoreNext]_storeVars

---------------------------------------------------------------------------
(* A row holds a cache key exactly while it is live or complete, and no    *)
(* two rows hold the same one: the failed branch of update_job and         *)
(* _interrupt must both clear the column, or a retry would be answered     *)
(* with a dead job for the rest of the bucket.                             *)
KeyDiscipline ==
    /\ \A j \in Jobs : key[j] # NoKey <=> status[j] \in {"queued", "running", "complete"}
    /\ \A i, j \in Jobs : key[i] = key[j] /\ key[i] # NoKey => i = j

(* A job that a client has seen fail never changes again, and one seen     *)
(* complete can only become failed, whatever stale process still writes:   *)
(* update_job and _interrupt test the status they are about to replace.    *)
FailedIsFinal ==
    [][\A j \in Jobs :
        /\ status[j] = "failed" => status'[j] = "failed" /\ key'[j] = NoKey
        /\ status[j] = "complete" => status'[j] \in {"complete", "failed"}
      ]_storeVars

(* The lifecycle a client relies on.                                       *)
Lifecycle == INSTANCE JobLifecycle WITH
    held <- [k \in Keys |-> {j \in Jobs : key[j] = k}]

(* Every run of the store is a run of the lifecycle.                       *)
LifecycleSpec == Lifecycle!Spec
===========================================================================

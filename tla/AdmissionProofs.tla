-------------------------- MODULE AdmissionProofs --------------------------
(***************************************************************************)
(* Theorems about Admission, for any number of concurrent requests, clients*)
(* and days, any limits and any number of replaced blocks.                 *)
(***************************************************************************)
EXTENDS Admission, JobStoreProofs, FiniteSetTheorems

(* What is known of request r and of the row and task of its own job.      *)
RowOf(r) ==
  /\ pc[r] \in {"recover", "insert", "daily"} => budget[r] \in Days
  /\ pc[r] \in {"report", "block", "invalidate"} => found[r] \in Jobs
  /\ pc[r] = "daily" => found[r] = r /\ paid[r] = NoDay
  /\ pc[r] \in {"daily", "refuse", "refused"} =>
       status[r] \in {"queued", "failed"} /\ owner[r] = Self
  /\ pc[r] = "refused" => status[r] = "failed" \/ Expired(r)

TaskOf(r) ==
  /\ task[r] = "none" => paid[r] = NoDay
  /\ task[r] # "none" => pc[r] = "answered" /\ status[r] # "absent"
  /\ task[r] \in {"waiting", "refund", "saved"} => paid[r] = budget[r] /\ budget[r] \in Days
  /\ task[r] = "saved" => status[r] # "queued"

(* A complete row has its report.                                          *)
Reported == \A j \in Jobs : status[j] = "complete" => j \in reports

Rows == \A r \in Jobs : RowOf(r) /\ TaskOf(r)

(* The types of what is not in the tables.                                 *)
Types ==
  /\ pc \in [Jobs -> Ended \cup {"new", "capacity", "recover", "insert", "daily",
                                 "refuse", "report", "block", "invalidate"}]
  /\ task \in [Jobs -> {"none", "waiting", "refund", "failing", "saved", "done"}]
  /\ found \in [Jobs -> Jobs \cup {NoJob}]
  /\ budget \in [Jobs -> Days \cup {NoDay}]
  /\ paid \in [Jobs -> Days \cup {NoDay}]
  /\ hourly \in [Clients -> 0 .. HourlyLimit]
  /\ used \in [Days -> 0 .. DailyLimit]
  /\ day \in Days
  /\ tip \in 0 .. MaxReorgs
  /\ block \in [Jobs -> 0 .. MaxReorgs]

IInv == TypeOK /\ KeyDiscipline /\ Rows /\ Reported /\ NoFreeAnalysis

---------------------------------------------------------------------------
(* What a transaction may do to row j.                                     *)
Ages(j) ==
  status[j] # "absent" =>
    /\ status'[j] # "absent" /\ owner'[j] = owner[j] /\ (Expired(j) => lease'[j] < 0)
    /\ status[j] # "queued" => status'[j] # "queued"
    /\ status[j] = "failed" => status'[j] = "failed"

OnlyFails(j) == Ages(j) /\ status'[j] \in {status[j], "failed"}

(* A new row is queued and owned; the others may only fail.                *)
LEMMA InsertAges ==
  ASSUME StoreTypeOK, NEW r \in Jobs, NEW k \in Keys, Insert(Self, r, k)
  PROVE  /\ \A j \in Jobs : Ages(j) /\ (j # r => OnlyFails(j))
         /\ status'[r] = "queued" /\ owner'[r] = Self
BY DEF Insert, StoreTypeOK, Ages, OnlyFails, Expired

(* Only the row that is updated changes, and a failure stays one.          *)
LEMMA UpdateAges ==
  ASSUME StoreTypeOK, NEW i \in Jobs, NEW new \in {"running", "complete", "failed"},
         UpdateJob(Self, i, new)
  PROVE  /\ \A j \in Jobs : Ages(j) /\ (j # i \/ new = "failed" => OnlyFails(j))
         /\ status'[i] = new
<1>1. status[i] \in {"queued", "running", "complete"}
  BY DEF UpdateJob, CanUpdate, Live
<1> QED
  BY <1>1 DEF UpdateJob, StoreTypeOK, Ages, OnlyFails, Expired

(* Recovery only fails rows.                                               *)
LEMMA RecoverAges ==
  ASSUME StoreTypeOK, RecoverInterrupted
  PROVE  \A j \in Jobs : OnlyFails(j)
BY DEF RecoverInterrupted, Interrupt, Abandoned, StoreTypeOK, Ages, OnlyFails, Expired, Live

(* Time changes no status, and an expired lease stays expired.             *)
LEMMA ElapseAges ==
  ASSUME StoreTypeOK, Elapse
  PROVE  \A j \in Jobs : OnlyFails(j)
BY LeaseAssumption DEF Elapse, StoreTypeOK, Ages, OnlyFails, Expired

(* A step that leaves the tables alone fails no row.                       *)
LEMMA SameAges ==
  ASSUME UNCHANGED jobs
  PROVE  \A j \in Jobs : OnlyFails(j)
BY DEF jobs, Ages, OnlyFails, Expired

---------------------------------------------------------------------------
(* A step for request r leaves the other requests and their rows to       *)
(* themselves, except that it may fail a row.                              *)
Apart(r) ==
  \A j \in Jobs \ {r} :
    /\ OnlyFails(j)
    /\ UNCHANGED <<pc[j], task[j], found[j], budget[j], paid[j]>>

(* What every step for request r, and for the task of its job, keeps.      *)
Moved(r) ==
  /\ [StoreNext]_storeVars /\ Types'
  /\ Apart(r) /\ RowOf(r)' /\ TaskOf(r)'

(* So what is known of the other requests stays known.                     *)
LEMMA ApartKeepsRows ==
  ASSUME TypeOK, Rows, NEW r \in Jobs, Apart(r), NEW j \in Jobs \ {r}
  PROVE  RowOf(j)' /\ TaskOf(j)'
<1>1. RowOf(j) /\ TaskOf(j) /\ OnlyFails(j)
  BY DEF Rows, Apart
<1>2. UNCHANGED <<pc[j], task[j], found[j], budget[j], paid[j]>>
  BY DEF Apart
<1>3. RowOf(j)'
  BY <1>1, <1>2 DEF RowOf, OnlyFails, Ages, Expired
<1>4. TaskOf(j)'
  BY <1>1, <1>2 DEF TaskOf, OnlyFails, Ages
<1> QED
  BY <1>3, <1>4

(* The hourly budget counts up to its limit.                               *)
LEMMA PostKeeps ==
  ASSUME IInv, NEW r \in Jobs, NEW c \in Clients, Post(r, c)
  PROVE  Moved(r)
<1>0. StoreTypeOK /\ Types /\ RowOf(r) /\ TaskOf(r)
  BY DEF IInv, TypeOK, Types, Rows
<1>1. UNCHANGED storeVars /\ \A j \in Jobs : OnlyFails(j)
  BY SameAges DEF Post, storeVars, jobs
<1>2. Types'
  BY <1>0, AdmissionAssumption DEF Post, Goto, At, Types, Ended, chain, counts, RowOf
<1>3. Apart(r)
  BY <1>0, <1>1 DEF Post, Goto, At, Apart, Types, counts
<1>4. RowOf(r)' /\ TaskOf(r)'
  BY <1>0, <1>1 DEF Post, Goto, At, RowOf, TaskOf, Types, Ended, storeVars, Expired, counts
<1> QED
  BY <1>1, <1>2, <1>3, <1>4 DEF Moved

(* A request that enters has the day it will be counted on.                *)
LEMMA EnterKeeps ==
  ASSUME IInv, NEW r \in Jobs, Enter(r)
  PROVE  Moved(r)
<1>0. StoreTypeOK /\ Types /\ RowOf(r) /\ TaskOf(r)
  BY DEF IInv, TypeOK, Types, Rows
<1>1. UNCHANGED storeVars /\ \A j \in Jobs : OnlyFails(j)
  BY SameAges DEF Enter, storeVars, jobs
<1>2. Types'
  BY <1>0 DEF Enter, Goto, At, Types, Ended, chain, counts, RowOf
<1>3. Apart(r)
  BY <1>0, <1>1 DEF Enter, Goto, At, Apart, Types, counts
<1>4. RowOf(r)' /\ TaskOf(r)'
  BY <1>0, <1>1 DEF Enter, Goto, At, RowOf, TaskOf, Types, Ended, storeVars, Expired, counts
<1> QED
  BY <1>1, <1>2, <1>3, <1>4 DEF Moved

(* A cached job is looked up with its id in found.                         *)
LEMMA ReportKeeps ==
  ASSUME IInv, NEW r \in Jobs, Report(r)
  PROVE  Moved(r)
<1>0. StoreTypeOK /\ Types /\ RowOf(r) /\ TaskOf(r)
  BY DEF IInv, TypeOK, Types, Rows
<1>1. UNCHANGED storeVars /\ \A j \in Jobs : OnlyFails(j)
  BY SameAges DEF Report, storeVars, jobs
<1>2. Types'
  BY <1>0 DEF Report, Goto, At, Types, Ended, chain, counts, RowOf
<1>3. Apart(r)
  BY <1>0, <1>1 DEF Report, Goto, At, Apart, Types, counts
<1>4. RowOf(r)' /\ TaskOf(r)'
  BY <1>0, <1>1
  DEF Report, Goto, At, RowOf, TaskOf, Types, Ended, storeVars, Expired, counts
<1> QED
  BY <1>1, <1>2, <1>3, <1>4 DEF Moved

(* An invalidation has a job to fail.                                      *)
LEMMA RevalidateKeeps ==
  ASSUME IInv, NEW r \in Jobs, Revalidate(r)
  PROVE  Moved(r)
<1>0. StoreTypeOK /\ Types /\ RowOf(r) /\ TaskOf(r)
  BY DEF IInv, TypeOK, Types, Rows
<1>1. UNCHANGED storeVars /\ \A j \in Jobs : OnlyFails(j)
  BY SameAges DEF Revalidate, storeVars, jobs
<1>2. Types'
  BY <1>0 DEF Revalidate, Goto, At, Types, Ended, chain, counts, RowOf
<1>3. Apart(r)
  BY <1>0, <1>1 DEF Revalidate, Goto, At, Apart, Types, counts
<1>4. RowOf(r)' /\ TaskOf(r)'
  BY <1>0, <1>1
  DEF Revalidate, Goto, At, RowOf, TaskOf, Types, Ended, storeVars, Expired, counts
<1> QED
  BY <1>1, <1>2, <1>3, <1>4 DEF Moved

(* A lost acknowledgement counts within the limit.                         *)
LEMMA RequestErrorKeeps ==
  ASSUME IInv, NEW r \in Jobs, RequestError(r)
  PROVE  Moved(r)
<1>0. StoreTypeOK /\ Types /\ RowOf(r) /\ TaskOf(r)
  BY DEF IInv, TypeOK, Types, Rows
<1>1. UNCHANGED storeVars /\ \A j \in Jobs : OnlyFails(j)
  BY SameAges DEF RequestError, storeVars, jobs
<1>2. Types'
  BY <1>0, AdmissionAssumption
  DEF RequestError, Goto, At, Types, Ended, chain, counts, RowOf
<1>3. Apart(r)
  BY <1>0, <1>1 DEF RequestError, Goto, At, Apart, Types, counts
<1>4. RowOf(r)' /\ TaskOf(r)'
  BY <1>0, <1>1
  DEF RequestError, Goto, At, RowOf, TaskOf, Types, Ended, storeVars, Expired, counts
<1> QED
  BY <1>1, <1>2, <1>3, <1>4 DEF Moved

(* A charged request has a task and its day, within the limit.             *)
LEMMA ChargeKeeps ==
  ASSUME IInv, NEW r \in Jobs, Charge(r)
  PROVE  Moved(r)
<1>0. StoreTypeOK /\ Types /\ RowOf(r) /\ TaskOf(r)
  BY DEF IInv, TypeOK, Types, Rows
<1>1. UNCHANGED storeVars /\ \A j \in Jobs : OnlyFails(j)
  BY SameAges DEF Charge, storeVars, jobs
<1>2. Types'
  BY <1>0, AdmissionAssumption DEF Charge, Goto, At, Types, Ended, chain, counts, RowOf
<1>3. Apart(r)
  BY <1>0, <1>1 DEF Charge, Goto, At, Apart, Types, counts
<1>4. RowOf(r)' /\ TaskOf(r)'
  BY <1>0, <1>1
  DEF Charge, Goto, At, RowOf, TaskOf, Types, Ended, storeVars, Expired, counts
<1> QED
  BY <1>1, <1>2, <1>3, <1>4 DEF Moved

(* A task that will be refunded is still charged.                          *)
LEMMA UnavailableKeeps ==
  ASSUME IInv, NEW r \in Jobs, Unavailable(r)
  PROVE  Moved(r)
<1>0. StoreTypeOK /\ Types /\ RowOf(r) /\ TaskOf(r)
  BY DEF IInv, TypeOK, Types, Rows
<1>1. UNCHANGED storeVars /\ \A j \in Jobs : OnlyFails(j)
  BY SameAges DEF Unavailable, storeVars, jobs
<1>2. Types'
  BY <1>0 DEF Unavailable, Step, Types, Ended, chain, counts, RowOf
<1>3. Apart(r)
  BY <1>0, <1>1 DEF Unavailable, Step, Apart, Types, counts
<1>4. RowOf(r)' /\ TaskOf(r)'
  BY <1>0, <1>1
  DEF Unavailable, Step, RowOf, TaskOf, Types, Ended, storeVars, Expired, counts
<1> QED
  BY <1>1, <1>2, <1>3, <1>4 DEF Moved

(* A refund never takes a counter below zero.                              *)
LEMMA RefundKeeps ==
  ASSUME IInv, NEW r \in Jobs, Refund(r)
  PROVE  Moved(r)
<1>0. StoreTypeOK /\ Types /\ RowOf(r) /\ TaskOf(r)
  BY DEF IInv, TypeOK, Types, Rows
<1>1. UNCHANGED storeVars /\ \A j \in Jobs : OnlyFails(j)
  BY SameAges DEF Refund, storeVars, jobs
<1>2. Types'
  <2>1. budget[r] \in Days /\ used[budget[r]] \in 0 .. DailyLimit
    BY <1>0 DEF Refund, Step, TaskOf, Types
  <2>2. (IF used[budget[r]] > 0 THEN used[budget[r]] - 1 ELSE 0) \in 0 .. DailyLimit
    BY <2>1, AdmissionAssumption
  <2>3. used' \in [Days -> 0 .. DailyLimit]
    BY <1>0, <2>2 DEF Refund, Types
  <2> QED
    BY <1>0, <2>3 DEF Refund, Step, Types, chain
<1>3. Apart(r)
  BY <1>0, <1>1 DEF Refund, Step, Apart, Types, counts
<1>4. RowOf(r)' /\ TaskOf(r)'
  BY <1>0, <1>1 DEF Refund, Step, RowOf, TaskOf, Types, Ended, storeVars, Expired, counts
<1> QED
  BY <1>1, <1>2, <1>3, <1>4 DEF Moved

(* A request may recover rows before it stores its own.                    *)
LEMMA RecoverKeeps ==
  ASSUME IInv, NEW r \in Jobs, Recover(r)
  PROVE  Moved(r)
<1>0. StoreTypeOK /\ Types /\ RowOf(r) /\ TaskOf(r)
  BY DEF IInv, TypeOK, Types, Rows
<1>1. [StoreNext]_storeVars
  BY <1>0, AdmissionAssumption DEF Recover, Goto, At, StoreNext, Advance, TaskOf, RowOf
<1>2. Types'
  BY <1>0 DEF Recover, Goto, At, Types, Ended, chain, counts
<1>3. Apart(r)
  BY <1>0, RecoverAges DEF Recover, Goto, At, Apart, Types, counts, storeVars, jobs, RowOf
<1>4. RowOf(r)'
  BY <1>0, RecoverAges
  DEF Recover, Goto, At, RowOf, TaskOf, Types, Ended, Ages, OnlyFails, Expired, counts,
      storeVars, jobs
<1>5. TaskOf(r)'
  BY <1>0, RecoverAges
  DEF Recover, Goto, At, TaskOf, RowOf, Types, Ages, OnlyFails, counts, storeVars, jobs
<1> QED
  BY <1>1, <1>2, <1>3, <1>4, <1>5 DEF Moved

(* A row that was stored is queued and owned by this process.              *)
LEMMA StoreKeeps ==
  ASSUME IInv, NEW r \in Jobs, NEW k \in Keys, Store(r, k)
  PROVE  Moved(r)
<1>0. StoreTypeOK /\ Types /\ RowOf(r) /\ TaskOf(r)
  BY DEF IInv, TypeOK, Types, Rows
<1>1. [StoreNext]_storeVars
  BY <1>0, AdmissionAssumption DEF Store, Goto, At, StoreNext, Advance, TaskOf, RowOf
<1>2. Types'
  BY <1>0 DEF Store, Goto, At, Types, Ended, chain, counts
<1>3. Apart(r)
  BY <1>0, InsertAges, SameAges
  DEF Store, Goto, At, Apart, Types, counts, storeVars, jobs, RowOf
<1>4. RowOf(r)'
  BY <1>0, InsertAges, SameAges
  DEF Store, Goto, At, RowOf, TaskOf, Types, Ended, Ages, OnlyFails, Expired, counts,
      storeVars, jobs
<1>5. TaskOf(r)'
  BY <1>0, InsertAges, SameAges
  DEF Store, Goto, At, TaskOf, RowOf, Types, Ages, OnlyFails, counts, storeVars, jobs
<1> QED
  BY <1>1, <1>2, <1>3, <1>4, <1>5 DEF Moved

(* An invalidation fails one row, never one that is to be charged.         *)
LEMMA InvalidateKeeps ==
  ASSUME IInv, NEW r \in Jobs, Invalidate(r)
  PROVE  Moved(r)
<1>0. StoreTypeOK /\ Types /\ RowOf(r) /\ TaskOf(r)
  BY DEF IInv, TypeOK, Types, Rows
<1>1. [StoreNext]_storeVars
  BY <1>0, AdmissionAssumption DEF Invalidate, Goto, At, StoreNext, Advance, TaskOf, RowOf
<1>2. Types'
  BY <1>0 DEF Invalidate, Goto, At, Types, Ended, chain, counts
<1>3. Apart(r)
  BY <1>0, UpdateAges, SameAges
  DEF Invalidate, Goto, At, Apart, Types, counts, storeVars, jobs, RowOf
<1>4. RowOf(r)'
  BY <1>0, UpdateAges, SameAges
  DEF Invalidate, Goto, At, RowOf, TaskOf, Types, Ended, Ages, OnlyFails, Expired, counts,
      storeVars, jobs
<1>5. TaskOf(r)'
  BY <1>0, UpdateAges, SameAges
  DEF Invalidate, Goto, At, TaskOf, RowOf, Types, Ages, OnlyFails, counts, storeVars, jobs
<1> QED
  BY <1>1, <1>2, <1>3, <1>4, <1>5 DEF Moved

(* A refused row is failed, or its lease has expired.                      *)
LEMMA RefuseKeeps ==
  ASSUME IInv, NEW r \in Jobs, Refuse(r)
  PROVE  Moved(r)
<1>0. StoreTypeOK /\ Types /\ RowOf(r) /\ TaskOf(r)
  BY DEF IInv, TypeOK, Types, Rows
<1>1. [StoreNext]_storeVars
  BY <1>0, AdmissionAssumption DEF Refuse, Goto, At, StoreNext, Advance, TaskOf, RowOf
<1>2. Types'
  BY <1>0 DEF Refuse, Goto, At, Types, Ended, chain, counts
<1>3. Apart(r)
  BY <1>0, UpdateAges, SameAges
  DEF Refuse, Goto, At, Apart, Types, counts, storeVars, jobs, RowOf
<1>4. RowOf(r)'
  BY <1>0, UpdateAges, SameAges
  DEF Refuse, Goto, At, RowOf, TaskOf, Types, Ended, Ages, OnlyFails, Expired, counts,
      storeVars, jobs, CanUpdate, Live
<1>5. TaskOf(r)'
  BY <1>0, UpdateAges, SameAges
  DEF Refuse, Goto, At, TaskOf, RowOf, Types, Ages, OnlyFails, counts, storeVars, jobs
<1> QED
  BY <1>1, <1>2, <1>3, <1>4, <1>5 DEF Moved

(* A task that goes on leaves queued behind.                               *)
LEMMA AnalyzeKeeps ==
  ASSUME IInv, NEW r \in Jobs, Analyze(r)
  PROVE  Moved(r)
<1>0. StoreTypeOK /\ Types /\ RowOf(r) /\ TaskOf(r)
  BY DEF IInv, TypeOK, Types, Rows
<1>1. [StoreNext]_storeVars
  BY <1>0, AdmissionAssumption DEF Analyze, Step, StoreNext, Advance, TaskOf, RowOf
<1>2. Types'
  BY <1>0 DEF Analyze, Step, Types, Ended, chain, counts
<1>3. Apart(r)
  BY <1>0, UpdateAges, SameAges
  DEF Analyze, Step, Apart, Types, counts, storeVars, jobs, RowOf
<1>4. RowOf(r)'
  BY <1>0, UpdateAges, SameAges
  DEF Analyze, Step, RowOf, TaskOf, Types, Ended, Ages, OnlyFails, Expired, counts,
      storeVars, jobs
<1>5. TaskOf(r)'
  BY <1>0, UpdateAges, SameAges
  DEF Analyze, Step, TaskOf, RowOf, Types, Ages, OnlyFails, counts, storeVars, jobs
<1> QED
  BY <1>1, <1>2, <1>3, <1>4, <1>5 DEF Moved

(* A task publishes its own row.                                           *)
LEMMA PublishKeeps ==
  ASSUME IInv, NEW r \in Jobs, Publish(r)
  PROVE  Moved(r)
<1>0. StoreTypeOK /\ Types /\ RowOf(r) /\ TaskOf(r)
  BY DEF IInv, TypeOK, Types, Rows
<1>1. [StoreNext]_storeVars
  BY <1>0, AdmissionAssumption DEF Publish, Step, StoreNext, Advance, TaskOf, RowOf
<1>2. Types'
  BY <1>0 DEF Publish, Step, Types, Ended, chain, counts
<1>3. /\ \A j \in Jobs \ {r} : OnlyFails(j)
      /\ status'[r] # "absent" /\ (task'[r] = "saved" => status'[r] # "queued")
  <2>1. CASE SaveReport(r) /\ UNCHANGED task
    BY <1>0, <2>1, SameAges DEF Publish, SaveReport, TaskOf, OnlyFails, Ages, jobs
  <2>2. CASE UpdateJob(Self, r, "complete")
    BY <1>0, <2>2, UpdateAges
  <2>3. CASE Step(r, "saved", "done") /\ UNCHANGED storeVars
    BY <1>0, <2>3, SameAges DEF Step, TaskOf, Types, storeVars, jobs
  <2> QED
    BY <2>1, <2>2, <2>3 DEF Publish
<1>4. Apart(r)
  BY <1>0, <1>3 DEF Publish, Step, Apart, Types, counts
<1>5. RowOf(r)' /\ TaskOf(r)'
  BY <1>0, <1>3 DEF Publish, Step, RowOf, TaskOf, Types, counts
<1> QED
  BY <1>1, <1>2, <1>4, <1>5 DEF Moved

(* A failing task fails its own row only.                                  *)
LEMMA FailKeeps ==
  ASSUME IInv, NEW r \in Jobs, Fail(r)
  PROVE  Moved(r)
<1>0. StoreTypeOK /\ Types /\ RowOf(r) /\ TaskOf(r)
  BY DEF IInv, TypeOK, Types, Rows
<1>1. [StoreNext]_storeVars
  BY <1>0, AdmissionAssumption DEF Fail, Step, StoreNext, Advance, TaskOf, RowOf
<1>2. Types'
  BY <1>0 DEF Fail, Step, Types, Ended, chain, counts
<1>3. Apart(r)
  BY <1>0, UpdateAges, SameAges DEF Fail, Step, Apart, Types, counts, storeVars, jobs, RowOf
<1>4. RowOf(r)'
  BY <1>0, UpdateAges, SameAges
  DEF Fail, Step, RowOf, TaskOf, Types, Ended, Ages, OnlyFails, Expired, counts, storeVars,
      jobs
<1>5. TaskOf(r)'
  BY <1>0, UpdateAges, SameAges
  DEF Fail, Step, TaskOf, RowOf, Types, Ages, OnlyFails, counts, storeVars, jobs
<1> QED
  BY <1>1, <1>2, <1>3, <1>4, <1>5 DEF Moved

(* Requests and tasks, together.                                           *)
LEMMA RequestKeeps ==
  ASSUME IInv, NEW r \in Jobs, Request(r) \/ RequestError(r) \/ Task(r)
  PROVE  Moved(r)
BY PostKeeps, EnterKeeps, RecoverKeeps, StoreKeeps, ReportKeeps, RevalidateKeeps,
   InvalidateKeeps, ChargeKeeps, RefuseKeeps, RequestErrorKeeps, AnalyzeKeeps, PublishKeeps,
   UnavailableKeeps, RefundKeeps, FailKeeps
DEF Request, Task

(* Time and the chain.                                                     *)
LEMMA WorldKeeps ==
  ASSUME IInv, NextDay \/ Reorg \/ Expire \/ UNCHANGED vars
  PROVE  /\ [StoreNext]_storeVars /\ Types' /\ Rows' /\ UNCHANGED <<pc, paid, used>>
<1>0. StoreTypeOK /\ Types /\ Rows
  BY DEF IInv, TypeOK, Types
<1>1. UNCHANGED <<pc, task, found, budget, paid, used, hourly>>
  BY DEF NextDay, Reorg, Expire, vars, counts, chain
<1>2. [StoreNext]_storeVars /\ \A j \in Jobs : OnlyFails(j)
  <2>1. CASE Expire
    BY <1>0, <2>1, ElapseAges DEF Expire, StoreNext
  <2>2. CASE NextDay \/ Reorg \/ UNCHANGED vars
    BY <2>2, SameAges DEF NextDay, Reorg, vars, storeVars, jobs
  <2> QED
    BY <2>1, <2>2
<1>3. Types'
  BY <1>0, <1>1, AdmissionAssumption DEF NextDay, Reorg, Expire, vars, chain, Types
<1>4. Rows'
  <2> SUFFICES ASSUME NEW r \in Jobs PROVE RowOf(r)' /\ TaskOf(r)'
    BY DEF Rows
  <2>1. RowOf(r) /\ TaskOf(r) /\ OnlyFails(r)
    BY <1>0, <1>2 DEF Rows
  <2>2. RowOf(r)'
    BY <1>1, <2>1 DEF RowOf, OnlyFails, Ages, Expired
  <2>3. TaskOf(r)'
    BY <1>1, <2>1 DEF TaskOf, OnlyFails, Ages
  <2> QED
    BY <2>2, <2>3
<1> QED
  BY <1>1, <1>2, <1>3, <1>4

---------------------------------------------------------------------------
(* The tasks that were charged on day d.                                   *)
Payers(d) == {r \in Jobs : paid[r] = d}

(* The charged requests of a day can be counted.                           *)
LEMMA PayersFinite ==
  ASSUME NEW d PROVE IsFiniteSet(Payers(d)) /\ Cardinality(Payers(d)) \in Nat
<1>1. IsFiniteSet(Jobs) /\ Payers(d) \in SUBSET Jobs
  BY AdmissionAssumption DEF Payers
<1> QED
  BY <1>1, FS_Subset, FS_CardinalityType

(* A charge adds one payer and one unit; a refund takes one of each.       *)
LEMMA ChargeIsCounted ==
  ASSUME IInv, NEW r \in Jobs, Charge(r) PROVE NoFreeAnalysis'
<1>0. Types /\ RowOf(r) /\ NoFreeAnalysis
  BY DEF IInv, TypeOK, Types, Rows
<1>1. CASE UNCHANGED <<paid, used>>
  BY <1>0, <1>1 DEF NoFreeAnalysis
<1>2. CASE /\ used' = [used EXCEPT ![budget[r]] = @ + 1]
           /\ paid' = [paid EXCEPT ![r] = budget[r]]
  <2> SUFFICES ASSUME NEW d \in Days PROVE Cardinality(Payers(d)') <= used'[d]
    BY DEF NoFreeAnalysis, Payers
  <2>1. budget[r] \in Days /\ paid[r] = NoDay /\ used[d] \in Nat
    BY <1>0, AdmissionAssumption DEF Charge, RowOf, Types
  <2>2. Cardinality(Payers(d)) <= used[d] /\ Cardinality(Payers(d)) \in Nat
    BY <1>0, PayersFinite DEF NoFreeAnalysis, Payers
  <2>3. CASE d = budget[r]
    <3>1. Payers(d)' = Payers(d) \cup {r} /\ r \notin Payers(d)
      BY <1>0, <1>2, <2>1, <2>3, AdmissionAssumption DEF Payers, Types
    <3>2. Cardinality(Payers(d)') = Cardinality(Payers(d)) + 1
      BY <3>1, PayersFinite, FS_AddElement
    <3>3. used'[d] = used[d] + 1
      BY <1>0, <1>2, <2>3 DEF Types
    <3> QED
      BY <2>1, <2>2, <3>2, <3>3
  <2>4. CASE d # budget[r]
    <3>1. Payers(d)' = Payers(d)
      BY <1>0, <1>2, <2>1, <2>4, AdmissionAssumption DEF Payers, Types
    <3>2. used'[d] = used[d]
      BY <1>0, <1>2, <2>4 DEF Types
    <3> QED
      BY <2>2, <3>1, <3>2
  <2> QED
    BY <2>3, <2>4
<1> QED
  BY <1>1, <1>2 DEF Charge

(* The refunded request is one of those that were counted.                 *)
LEMMA RefundIsCounted ==
  ASSUME IInv, NEW r \in Jobs, Refund(r) PROVE NoFreeAnalysis'
<1>0. Types /\ TaskOf(r) /\ NoFreeAnalysis
  BY DEF IInv, TypeOK, Types, Rows
<1> SUFFICES ASSUME NEW d \in Days PROVE Cardinality(Payers(d)') <= used'[d]
  BY DEF NoFreeAnalysis, Payers
<1>1. budget[r] \in Days /\ paid[r] = budget[r] /\ used[d] \in Nat
  BY <1>0, AdmissionAssumption DEF Refund, Step, TaskOf, Types
<1>2. Cardinality(Payers(d)) <= used[d] /\ Cardinality(Payers(d)) \in Nat
  BY <1>0, PayersFinite DEF NoFreeAnalysis, Payers
<1>3. CASE d = budget[r]
  <2>1. Payers(d)' = Payers(d) \ {r} /\ r \in Payers(d)
    BY <1>0, <1>1, <1>3, AdmissionAssumption DEF Refund, Payers, Types
  <2>2. Cardinality(Payers(d)') = Cardinality(Payers(d)) - 1
    BY <2>1, PayersFinite, FS_RemoveElement
  <2>3. Cardinality(Payers(d)) # 0
    BY <2>1, PayersFinite, FS_EmptySet
  <2>4. used'[d] = used[d] - 1
    BY <1>0, <1>1, <1>2, <1>3, <2>3 DEF Refund, Types
  <2> QED
    BY <1>1, <1>2, <2>2, <2>4
<1>4. CASE d # budget[r]
  <2>1. Payers(d)' = Payers(d)
    BY <1>0, <1>1, <1>4, AdmissionAssumption DEF Refund, Payers, Types
  <2>2. used'[d] = used[d]
    BY <1>0, <1>4 DEF Refund, Types
  <2> QED
    BY <1>2, <2>1, <2>2
<1> QED
  BY <1>3, <1>4

(* A reservation without an acknowledgement only adds to the count.        *)
LEMMA ErrorIsCounted ==
  ASSUME IInv, NEW r \in Jobs, RequestError(r) PROVE NoFreeAnalysis'
<1>0. Types /\ NoFreeAnalysis /\ UNCHANGED paid
  BY DEF IInv, TypeOK, Types, RequestError
<1> SUFFICES ASSUME NEW d \in Days PROVE Cardinality(Payers(d)') <= used'[d]
  BY DEF NoFreeAnalysis, Payers
<1>1. used[d] \in Nat /\ used'[d] \in {used[d], used[d] + 1}
  BY <1>0, AdmissionAssumption DEF RequestError, Types
<1>2. Payers(d)' = Payers(d)
  BY <1>0 DEF Payers
<1>3. Cardinality(Payers(d)) <= used[d] /\ Cardinality(Payers(d)) \in Nat
  BY <1>0, PayersFinite DEF NoFreeAnalysis, Payers
<1> QED
  BY <1>1, <1>2, <1>3

(* Every other step leaves payers and counters alone.                      *)
LEMMA OthersAreCounted ==
  ASSUME IInv, NEW r \in Jobs, Request(r) \/ Task(r), ~Charge(r), ~Refund(r)
  PROVE  NoFreeAnalysis'
<1>1. UNCHANGED <<paid, used>>
  BY DEF Request, Task, Post, Enter, Recover, Store, Report, Revalidate, Invalidate, Refuse,
         Analyze, Publish, Unavailable, Fail, counts
<1> QED
  BY <1>1 DEF IInv, NoFreeAnalysis

---------------------------------------------------------------------------
(* Only a task with a report completes its row.                            *)
LEMMA ReportedKept ==
  ASSUME IInv, [Next]_vars PROVE Reported'
<1>0. StoreTypeOK /\ Reported
  BY DEF IInv, TypeOK
<1>1. ASSUME NEW r \in Jobs, Publish(r) PROVE Reported'
  BY <1>0, <1>1 DEF Publish, Reported, UpdateJob, SaveReport, jobs, storeVars, StoreTypeOK
<1>2. ASSUME NEW r \in Jobs, NEW k \in Keys, Store(r, k) PROVE Reported'
  BY <1>0, <1>2 DEF Store, Reported, Insert, storeVars, StoreTypeOK
<1>3. ASSUME NEW j, NEW new \in {"running", "failed"}, UpdateJob(Self, j, new)
      PROVE  Reported'
  BY <1>0, <1>3 DEF Reported, UpdateJob, StoreTypeOK
<1>4. ASSUME RecoverInterrupted PROVE Reported'
  BY <1>0, <1>4 DEF Reported, RecoverInterrupted, Interrupt
<1>5. ASSUME UNCHANGED <<status, reports>> PROVE Reported'
  BY <1>0, <1>5 DEF Reported
<1>6. ASSUME NEW r \in Jobs, Request(r) \/ RequestError(r) PROVE Reported'
  BY <1>2, <1>3, <1>4, <1>5, <1>6
  DEF Request, RequestError, Post, Enter, Recover, Report, Revalidate, Invalidate, Charge,
      Refuse, storeVars
<1>7. ASSUME NEW r \in Jobs, Task(r) PROVE Reported'
  BY <1>1, <1>3, <1>5, <1>7 DEF Task, Analyze, Unavailable, Refund, Fail, storeVars
<1>8. ASSUME NextDay \/ Reorg \/ Expire \/ UNCHANGED vars PROVE Reported'
  BY <1>5, <1>8 DEF NextDay, Reorg, Expire, Elapse, vars, storeVars
<1> QED
  BY <1>6, <1>7, <1>8 DEF Next

(* The invariant holds at first ...                                        *)
LEMMA InitIInv == Init => IInv
<1> SUFFICES ASSUME Init PROVE IInv
  OBVIOUS
<1>1. TypeOK
  <2>1. StoreTypeOK
    BY StoreInitType DEF Init
  <2> QED
    BY <2>1, AdmissionAssumption DEF Init, TypeOK, Ended
<1>2. KeyDiscipline /\ Rows /\ Reported
  BY DEF Init, StoreInit, KeyDiscipline, Rows, RowOf, TaskOf, Reported
<1>3. NoFreeAnalysis
  <2> SUFFICES ASSUME NEW d \in Days PROVE Cardinality(Payers(d)) <= used[d]
    BY DEF NoFreeAnalysis, Payers
  <2>1. Payers(d) = {}
    BY AdmissionAssumption DEF Init, Payers
  <2> QED
    BY <2>1, FS_EmptySet DEF Init
<1> QED
  BY <1>1, <1>2, <1>3 DEF IInv

(* Every step is a step of the job store, and keeps the invariant.         *)
LEMMA StepIInv ==
  ASSUME IInv, [Next]_vars PROVE [StoreNext]_storeVars /\ IInv'
<1>1. [StoreNext]_storeVars /\ Types' /\ Rows' /\ NoFreeAnalysis'
  <2>1. ASSUME NEW r \in Jobs, Request(r) \/ RequestError(r) \/ Task(r)
        PROVE  [StoreNext]_storeVars /\ Types' /\ Rows' /\ NoFreeAnalysis'
    <3>1. Moved(r) /\ TypeOK /\ Rows
      BY <2>1, RequestKeeps DEF IInv
    <3>2. Rows'
      BY <3>1, ApartKeepsRows DEF Moved, Rows
    <3>3. NoFreeAnalysis'
      BY <2>1, ChargeIsCounted, RefundIsCounted, ErrorIsCounted, OthersAreCounted
    <3> QED
      BY <3>1, <3>2, <3>3 DEF Moved
  <2>2. ASSUME NextDay \/ Reorg \/ Expire \/ UNCHANGED vars
        PROVE  [StoreNext]_storeVars /\ Types' /\ Rows' /\ NoFreeAnalysis'
    BY <2>2, WorldKeeps DEF IInv, NoFreeAnalysis
  <2> QED
    BY <2>1, <2>2 DEF Next
<1>2. StoreTypeOK' /\ KeyDiscipline'
  BY <1>1, StoreNextType, NextKeyDiscipline DEF IInv, TypeOK
<1>3. TypeOK'
  BY <1>1, <1>2 DEF TypeOK, Types
<1> QED
  BY <1>1, <1>2, <1>3, ReportedKept DEF IInv

(* ... and always.                                                         *)
LEMMA Invariant == Spec => []IInv
<1>1. IInv /\ [Next]_vars => IInv'
  BY StepIInv
<1> QED
  BY <1>1, InitIInv, PTL DEF Spec

(* The types of every run.                                                 *)
THEOREM AdmissionTypeCorrect == Spec => []TypeOK
<1>1. IInv => TypeOK
  BY DEF IInv
<1> QED
  BY <1>1, Invariant, PTL

(* NoFreeAnalysis holds: every task that runs has its unit of some day.    *)
THEOREM BudgetIsCounted == Spec => []NoFreeAnalysis
<1>1. IInv => NoFreeAnalysis
  BY DEF IInv
<1> QED
  BY <1>1, Invariant, PTL

(* RefusalFreesKey holds: a refused submission blocks its hash no longer   *)
(* than its lease.                                                         *)
THEOREM RefusalsFreeTheKey == Spec => []RefusalFreesKey
<1>1. IInv => RefusalFreesKey
  <2> SUFFICES ASSUME IInv, NEW r \in Jobs, pc[r] = "refused"
               PROVE  key[r] = NoKey \/ Expired(r)
    BY DEF RefusalFreesKey
  <2>1. status[r] = "failed" \/ Expired(r)
    BY DEF IInv, Rows, RowOf
  <2> QED
    BY <2>1 DEF IInv, KeyDiscipline
<1> QED
  BY <1>1, Invariant, PTL

(* The tables that the requests work on are a job store: what is proved of *)
(* the job store (one job per key, final failures, the lifecycle) holds    *)
(* here too.                                                               *)
THEOREM AdmissionUsesStore == Spec => StoreSpec
<1>1. Init => StoreInit
  BY DEF Init
<1>2. IInv /\ [Next]_vars => [StoreNext]_storeVars
  BY StepIInv
<1> QED
  BY <1>1, <1>2, Invariant, PTL DEF Spec, StoreSpec

(* FreshAnswer holds: whoever is answered with a complete job got one      *)
(* whose block was just found on the chain.                                *)
THEOREM AnswersAreFresh == Spec => FreshAnswer
<1>1. ASSUME IInv, [Next]_vars, NEW r \in Jobs, pc[r] # "answered", pc'[r] = "answered",
             status[found'[r]] = "complete"
      PROVE  block[found'[r]] = tip
  <2>0. Types /\ RowOf(r) /\ Reported
    BY <1>1 DEF IInv, TypeOK, Types, Rows
  <2>1. ASSUME NEW i \in Jobs, Request(i) \/ RequestError(i) \/ Task(i) PROVE i = r
    BY <1>1, <2>1, RequestKeeps DEF Moved, Apart
  <2>2. CASE Revalidate(r)
    BY <1>1, <2>0, <2>2 DEF Revalidate, At, Goto, Types
  <2>3. CASE Report(r)
    <3>1. found'[r] \in Jobs /\ found'[r] \notin reports
      BY <1>1, <2>0, <2>3 DEF Report, At, Goto, Types, RowOf
    <3> QED
      BY <1>1, <2>0, <3>1 DEF Reported
  <2>4. CASE \E k \in Keys : Store(r, k)
    BY <1>1, <2>0, <2>4 DEF Store, At, Goto, Types
  <2>5. CASE Charge(r)
    BY <1>1, <2>0, <2>5 DEF Charge, Goto, RowOf
  <2>6. CASE (\E c \in Clients : Post(r, c)) \/ Enter(r) \/ Recover(r) \/ Invalidate(r)
             \/ Refuse(r) \/ RequestError(r) \/ Task(r)
    BY <1>1, <2>0, <2>6 DEF Post, Enter, Recover, Invalidate, Refuse, RequestError, Task,
       Analyze, Publish, Unavailable, Refund, Fail, At, Goto, Types, storeVars
  <2>7. CASE NextDay \/ Reorg \/ Expire \/ UNCHANGED vars
    BY <1>1, <2>7, WorldKeeps
  <2> QED
    BY <1>1, <2>1, <2>2, <2>3, <2>4, <2>5, <2>6, <2>7 DEF Next, Request
<1>2. IInv /\ [Next]_vars =>
        [\A r \in Jobs :
          (pc[r] # "answered" /\ pc'[r] = "answered" /\ status[found'[r]] = "complete")
              => block[found'[r]] = tip]_vars
  BY <1>1
<1> QED
  BY <1>2, Invariant, PTL DEF Spec, FreshAnswer
=============================================================================

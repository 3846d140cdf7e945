----------------------------- MODULE Admission -----------------------------
(***************************************************************************)
(* What POST /analyses decides: the hourly and the daily budget, the queue *)
(* bound, the job that answers the request, and the revalidation of a      *)
(* cached report against the chain (api/routes/analysis.py, submit and run *)
(* of services/analysis_service.py, reserve_budget and refund_budget of    *)
(* storage/sql_repository.py), over the tables of JobStore.                *)
(*                                                                         *)
(* Requests run concurrently in one process; r is both the request and the *)
(* uuid it draws for its job (the uuid of a call of submit that created no *)
(* row is drawn again by the recursive call).  The stages of an analysis   *)
(* are one step here; AnalysisService has them.                            *)
(***************************************************************************)
EXTENDS JobStore

CONSTANTS Self,        \* the process, one of Workers
          Clients,     \* client buckets (an IPv4 address or an IPv6 /64)
          Days,        \* 1 .. the last day of the model
          NoDay,       \* no daily budget was charged
          NoJob,       \* no job answers the request yet
          HourlyLimit, \* settings.requests_per_hour, within one hour
          DailyLimit,  \* settings.daily_analyses
          MaxTasks,    \* tasks a process admits (16)
          MaxReorgs    \* bound of the model on block replacements

ASSUME AdmissionAssumption ==
    /\ Self \in Workers
    /\ Days \subseteq Nat /\ 1 \in Days /\ NoDay \notin Days
    /\ NoJob \notin Jobs
    /\ IsFiniteSet(Jobs)  \* uuids, of 128 bits
    /\ {HourlyLimit, DailyLimit, MaxTasks, MaxReorgs} \subseteq Nat

VARIABLES
    pc,     \* pc[r]: where the request stands
    task,   \* task[r]: where the background task of job r stands
    found,  \* found[r]: the job that repository.submit answered with
    budget, \* budget[r]: the day whose budget r was counted on (budget_key)
    paid,   \* paid[r]: the same, until it is refunded
    hourly, \* hourly[c]: requests counted for client c, earlier ones included
    used,   \* used[d]: analyses counted for day d
    day,    \* the current day
    tip,    \* the current version of the transaction's block
    block   \* block[j]: the version that report j recorded

vars == <<storeVars, pc, task, found, budget, paid, hourly, used, day, tip, block>>
chain == <<day, tip, block>>
counts == <<budget, paid, hourly, used>>

Ended == {"answered", "full", "limited", "refused", "error"}

TypeOK ==
    /\ StoreTypeOK
    /\ pc \in [Jobs -> Ended \cup {"new", "capacity", "recover", "insert", "daily",
                                   "refuse", "report", "block", "invalidate"}]
    /\ task \in [Jobs -> {"none", "waiting", "refund", "failing", "saved", "done"}]
    /\ found \in [Jobs -> Jobs \cup {NoJob}]
    /\ budget \in [Jobs -> Days \cup {NoDay}]
    /\ paid \in [Jobs -> Days \cup {NoDay}]
    /\ hourly \in [Clients -> 0 .. HourlyLimit]
    /\ used \in [Days -> 0 .. DailyLimit]
    /\ day \in Days
    /\ tip \in 0 .. MaxReorgs
    /\ block \in [Jobs -> 0 .. MaxReorgs]

Init ==
    /\ StoreInit
    /\ pc = [r \in Jobs |-> "new"]
    /\ task = [r \in Jobs |-> "none"]
    /\ found = [r \in Jobs |-> NoJob]
    /\ budget = [r \in Jobs |-> NoDay]
    /\ paid = [r \in Jobs |-> NoDay]
    /\ hourly \in [Clients -> 0 .. HourlyLimit]
    /\ used = [d \in Days |-> 0]
    /\ day = 1
    /\ tip = 0
    /\ block = [j \in Jobs |-> 0]

Tasks == {r \in Jobs : task[r] \notin {"none", "done"}}

Goto(r, to) == pc' = [pc EXCEPT ![r] = to]
At(r, from, to) == pc[r] = from /\ Goto(r, to)

---------------------------------------------------------------------------
(* The request.                                                            *)

(* The route reserves one request of the client's hour.                    *)
Post(r, c) ==
    /\ \/ /\ hourly[c] < HourlyLimit
          /\ hourly' = [hourly EXCEPT ![c] = @ + 1]
          /\ At(r, "new", "capacity")
       \/ /\ hourly[c] >= HourlyLimit
          /\ At(r, "new", "limited")
          /\ UNCHANGED hourly
    /\ UNCHANGED <<storeVars, task, found, budget, paid, used, chain>>

(* Faulty variant: a request waits for a place in the queue.               *)
EnterWaiting(r) ==
    /\ Cardinality(Tasks) < MaxTasks
    /\ At(r, "capacity", "recover")
    /\ budget' = [budget EXCEPT ![r] = day]
    /\ UNCHANGED <<storeVars, task, found, paid, hourly, used, chain>>

(* submit: the queue bound, and the day that the budget key will name.     *)
Enter(r) ==
    /\ \/ /\ Cardinality(Tasks) < MaxTasks
          /\ At(r, "capacity", "recover")
          /\ budget' = [budget EXCEPT ![r] = day]
       \/ /\ Cardinality(Tasks) >= MaxTasks
          /\ At(r, "capacity", "full")
          /\ UNCHANGED budget
    /\ UNCHANGED <<storeVars, task, found, paid, hourly, used, chain>>

Recover(r) ==
    /\ At(r, "recover", "insert")
    /\ RecoverInterrupted
    /\ UNCHANGED <<task, found, counts, chain>>

(* repository.submit, and what submit does with its answer.                *)
Store(r, k) ==
    \/ /\ At(r, "insert", "daily")
       /\ Insert(Self, r, k)
       /\ found' = [found EXCEPT ![r] = r]
       /\ UNCHANGED <<task, counts, chain>>
    \/ \E j \in Jobs :
       /\ key[j] = k
       /\ At(r, "insert", IF status[j] = "complete" THEN "report" ELSE "answered")
       /\ found' = [found EXCEPT ![r] = j]
       /\ UNCHANGED <<storeVars, task, counts, chain>>

(* get_report: a job without a report is returned as it is.                *)
Report(r) ==
    /\ At(r, "report", IF found[r] \in reports THEN "block" ELSE "answered")
    /\ UNCHANGED <<storeVars, task, found, counts, chain>>

(* Faulty variant: any block that the node returns is good enough.         *)
RevalidateAny(r) ==
    /\ At(r, "block", "answered")
    /\ UNCHANGED <<storeVars, task, found, counts, chain>>

(* eth_getBlockByNumber: the report is reused only if its block is still   *)
(* the one on the chain.                                                   *)
Revalidate(r) ==
    /\ At(r, "block", IF block[found[r]] = tip THEN "answered" ELSE "invalidate")
    /\ UNCHANGED <<storeVars, task, found, counts, chain>>

(* fail(job), then submit again; if another request already failed the     *)
(* job, "Cached analysis could not be invalidated."                        *)
Invalidate(r) ==
    /\ \/ /\ At(r, "invalidate", "capacity")
          /\ UpdateJob(Self, found[r], "failed")
       \/ /\ At(r, "invalidate", "error")
          /\ ~CanUpdate(Self, found[r], "failed")
          /\ UNCHANGED storeVars
    /\ found' = [found EXCEPT ![r] = NoJob]
    /\ UNCHANGED <<task, counts, chain>>

(* Faulty variant: the update does not test the limit.                     *)
ChargeUnchecked(r) ==
    /\ pc[r] = "daily"
    /\ used' = [used EXCEPT ![budget[r]] = @ + 1]
    /\ paid' = [paid EXCEPT ![r] = budget[r]]
    /\ task' = [task EXCEPT ![r] = "waiting"]
    /\ Goto(r, "answered")
    /\ UNCHANGED <<storeVars, found, budget, hourly, chain>>

(* reserve_budget for the day read at the start, then the task is created. *)
Charge(r) ==
    /\ pc[r] = "daily"
    /\ LET d == budget[r] IN
       \/ /\ used[d] < DailyLimit
          /\ used' = [used EXCEPT ![d] = @ + 1]
          /\ paid' = [paid EXCEPT ![r] = d]
          /\ task' = [task EXCEPT ![r] = "waiting"]
          /\ Goto(r, "answered")
       \/ /\ used[d] >= DailyLimit
          /\ Goto(r, "refuse")
          /\ UNCHANGED <<used, paid, task>>
    /\ UNCHANGED <<storeVars, found, budget, hourly, chain>>

(* Faulty variant: the client is told before the row is updated.           *)
RefuseOnly(r) ==
    /\ At(r, "refuse", "refused")
    /\ UNCHANGED <<storeVars, task, found, counts, chain>>

(* update_job(failed), whose result is not looked at, then CapacityError.  *)
Refuse(r) ==
    /\ At(r, "refuse", "refused")
    /\ \/ UpdateJob(Self, r, "failed")
       \/ ~CanUpdate(Self, r, "failed") /\ UNCHANGED storeVars
    /\ UNCHANGED <<task, found, counts, chain>>

(* The database or the node fails: the request raises.  The reservation    *)
(* may have been committed when it did.                                    *)
RequestError(r) ==
    /\ \/ /\ pc[r] \in {"recover", "insert", "daily", "refuse", "report", "block",
                        "invalidate"}
          /\ UNCHANGED used
       \/ /\ pc[r] = "daily" /\ used[budget[r]] < DailyLimit
          /\ used' = [used EXCEPT ![budget[r]] = @ + 1]
    /\ Goto(r, "error")
    /\ UNCHANGED <<storeVars, task, found, budget, paid, hourly, chain>>

Request(r) ==
    \/ \E c \in Clients : Post(r, c)
    \/ Enter(r) \/ Recover(r) \/ Report(r) \/ Revalidate(r) \/ Invalidate(r)
    \/ \E k \in Keys : Store(r, k)
    \/ Charge(r) \/ Refuse(r)

---------------------------------------------------------------------------
(* The background task.                                                    *)

Step(r, from, to) == task[r] = from /\ task' = [task EXCEPT ![r] = to]

(* The stages are written and the report saved, with the block it is on;   *)
(* or the lease is lost.                                                   *)
Analyze(r) ==
    \/ /\ Step(r, "waiting", "saved")
       /\ UpdateJob(Self, r, "running")
       /\ block' = [block EXCEPT ![r] = tip]
       /\ UNCHANGED <<pc, found, counts, day, tip>>
    \/ /\ Step(r, "waiting", "done")
       /\ ~CanUpdate(Self, r, "running")
       /\ UNCHANGED <<storeVars, pc, found, counts, chain>>

Publish(r) ==
    \/ /\ task[r] = "saved" /\ r \notin reports
       /\ SaveReport(r)
       /\ UNCHANGED <<task, pc, found, counts, chain>>
    \/ /\ r \in reports
       /\ Step(r, "saved", "done")
       /\ \/ UpdateJob(Self, r, "complete")
          \/ ~CanUpdate(Self, r, "complete") /\ UNCHANGED storeVars
       /\ UNCHANGED <<pc, found, counts, chain>>

(* TransactionUnavailable refunds the day it was counted on; every other   *)
(* failure keeps the charge.                                               *)
Unavailable(r) ==
    /\ \/ Step(r, "waiting", "refund")
       \/ task[r] \in {"waiting", "saved"} /\ task' = [task EXCEPT ![r] = "failing"]
    /\ UNCHANGED <<storeVars, pc, found, counts, chain>>

(* Faulty variant: the refund goes to the current day.                     *)
RefundToday(r) ==
    /\ Step(r, "refund", "failing")
    /\ used' = [used EXCEPT ![day] = IF @ > 0 THEN @ - 1 ELSE 0]
    /\ paid' = [paid EXCEPT ![r] = NoDay]
    /\ UNCHANGED <<storeVars, pc, found, budget, hourly, chain>>

Refund(r) ==
    /\ Step(r, "refund", "failing")
    /\ used' = [used EXCEPT ![budget[r]] = IF @ > 0 THEN @ - 1 ELSE 0]
    /\ paid' = [paid EXCEPT ![r] = NoDay]
    /\ UNCHANGED <<storeVars, pc, found, budget, hourly, chain>>

Fail(r) ==
    /\ Step(r, "failing", "done")
    /\ \/ UpdateJob(Self, r, "failed")
       \/ ~CanUpdate(Self, r, "failed") /\ UNCHANGED storeVars
    /\ UNCHANGED <<pc, found, counts, chain>>

Task(r) == Analyze(r) \/ Publish(r) \/ Unavailable(r) \/ Refund(r) \/ Fail(r)

---------------------------------------------------------------------------
(* Time and the chain: leases run out, the day ends, the block is replaced.*)

NextDay == /\ day + 1 \in Days
           /\ day' = day + 1
           /\ UNCHANGED <<storeVars, pc, task, found, counts, tip, block>>

Reorg == /\ tip < MaxReorgs
         /\ tip' = tip + 1
         /\ UNCHANGED <<storeVars, pc, task, found, counts, day, block>>

Expire == Elapse /\ UNCHANGED <<pc, task, found, counts, chain>>

Next == \/ \E r \in Jobs : Request(r) \/ RequestError(r) \/ Task(r)
        \/ NextDay \/ Reorg \/ Expire

(* A request that was received goes on: its awaits return or raise.        *)
Fairness == \A r \in Jobs : WF_vars(pc[r] # "new" /\ (Request(r) \/ RequestError(r)))

Spec == Init /\ [][Next]_vars /\ Fairness

---------------------------------------------------------------------------
(* No day starts more analyses than its budget, and a refund gives back    *)
(* only what that analysis was counted for: every unrefunded task has its  *)
(* unit in the day it was charged on, across concurrent reservations, lost *)
(* acknowledgements and midnight.                                          *)
NoFreeAnalysis ==
    \A d \in Days : Cardinality({r \in Jobs : paid[r] = d}) <= used[d]

(* A client is never answered with a complete job whose report was made on *)
(* a block that the chain had replaced when the answer was given, although *)
(* jobs complete, fail and are invalidated while the request looks.        *)
FreshAnswer ==
    [][\A r \in Jobs :
        (pc[r] # "answered" /\ pc'[r] = "answered" /\ status[found'[r]] = "complete")
            => block[found'[r]] = tip
      ]_vars

(* A submission that the daily budget refused does not keep its hash       *)
(* blocked: its row is failed, or its lease has run out and the next       *)
(* submission recovers it.                                                 *)
RefusalFreesKey ==
    \A r \in Jobs : pc[r] = "refused" => key[r] = NoKey \/ Expired(r)

(* Every request ends, although an invalidation makes submit start over:   *)
(* from some moment on none is under way (a request that ended stays so).  *)
EveryRequestEnds == <>[](\A r \in Jobs : pc[r] \in {"new"} \cup Ended)
===========================================================================

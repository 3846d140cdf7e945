-------------------------- MODULE AnalysisService --------------------------
(***************************************************************************)
(* Worker processes that share one job store: the submission handler       *)
(* (api/routes/analysis.py, AnalysisService.submit), the background task   *)
(* of a job (AnalysisService.run and _analyze), the lease heartbeat and    *)
(* the lifespan of a process (main.py), over the tables of JobStore.       *)
(*                                                                         *)
(* A worker is one incarnation of a process: owner_id is a fresh uuid, so  *)
(* a restarted process is another element of Workers.  A step runs from    *)
(* one await to the next, or is one transaction.  pc[j] is where the       *)
(* coroutine working for job j stands:                                     *)
(*    new -> post -> recover -> insert -> charge [-> refuse]   the request *)
(*    waiting -> working -> saved, refund, failing             the task    *)
(*    gone                                         returned, raised, dead  *)
(*                                                                         *)
(* Time advances in ticks while every started timer still has time left:   *)
(* the event loop runs a heartbeat when it is due and asyncio.timeout ends *)
(* a beat when it is due.  Nothing else is bounded in time.                *)
(***************************************************************************)
EXTENDS JobStore

CONSTANTS NStages,       \* stages _analyze writes before the report (7)
          MaxTasks,      \* tasks a worker admits (16)
          MaxConcurrent, \* analyses it runs at once (2)
          Beat,          \* heartbeat interval, 15 seconds in ticks
          BeatTimeout,   \* asyncio.timeout around a beat, 10 seconds in ticks
          MaxMissed      \* MAX_MISSED_HEARTBEATS (3)

ASSUME ServiceAssumption ==
    /\ NStages \in Nat \ {0}
    /\ MaxTasks \in Nat \ {0} /\ MaxConcurrent \in Nat \ {0}
    /\ Beat \in Nat \ {0} /\ BeatTimeout \in Nat /\ MaxMissed \in Nat \ {0}

VARIABLES
    up,      \* up[w]: off, up, closing (lifespan is ending), down
    healthy, \* state.lease_healthy
    missed,  \* beats missed in a row, counted up to MaxMissed + 1
    beat,    \* where lease_heartbeat stands
    timer,   \* ticks left of its sleep, or of its timeout
    pc,      \* pc[j]: where the coroutine working for job j stands
    home,    \* home[j]: the worker that coroutine runs on
    stage    \* stage[j]: stages _analyze has written

heart == <<healthy, missed, beat, timer>>
tasks == <<pc, home, stage>>
vars == <<storeVars, up, heart, tasks>>

RequestPcs == {"post", "recover", "insert", "charge", "refuse"}
RunningPcs == {"working", "saved", "refund", "failing"}   \* inside the semaphore
TaskPcs == {"waiting"} \cup RunningPcs
Pcs == {"new", "gone"} \cup RequestPcs \cup TaskPcs

TypeOK ==
    /\ StoreTypeOK
    /\ up \in [Workers -> {"off", "up", "closing", "down"}]
    /\ healthy \in [Workers -> BOOLEAN]
    /\ missed \in [Workers -> 0 .. MaxMissed + 1]
    /\ beat \in [Workers -> {"sleep", "check", "renew", "recover"}]
    /\ timer \in [Workers -> Nat]
    /\ pc \in [Jobs -> Pcs]
    /\ home \in [Jobs -> Workers \cup {NoWorker}]
    /\ stage \in [Jobs -> 0 .. NStages]

Init ==
    /\ StoreInit
    /\ up = [w \in Workers |-> "off"]
    /\ healthy = [w \in Workers |-> FALSE]
    /\ missed = [w \in Workers |-> 0]
    /\ beat = [w \in Workers |-> "sleep"]
    /\ timer = [w \in Workers |-> 0]
    /\ pc = [j \in Jobs |-> "new"]
    /\ home = [j \in Jobs |-> NoWorker]
    /\ stage = [j \in Jobs |-> 0]

(* self.tasks: done tasks leave the set through their callback.            *)
Tasks(w) == {j \in Jobs : home[j] = w /\ pc[j] \in TaskPcs}
Running(w) == {j \in Jobs : home[j] = w /\ pc[j] \in RunningPcs}
Requests(w) == {j \in Jobs : home[j] = w /\ pc[j] \in RequestPcs}

Goto(j, to) == pc' = [pc EXCEPT ![j] = to]
Move(j, from, to) ==
    /\ pc[j] = from
    /\ Goto(j, to)
    /\ UNCHANGED <<home, stage>>
End(S) ==
    /\ pc' = [j \in Jobs |-> IF j \in S THEN "gone" ELSE pc[j]]
    /\ UNCHANGED <<home, stage>>

---------------------------------------------------------------------------
(* The request: POST /analyses.                                            *)

Begin(w, j) ==
    /\ pc[j] = "new"
    /\ Goto(j, "post")
    /\ home' = [home EXCEPT ![j] = w]
    /\ UNCHANGED stage

(* The route looks at lease_healthy, then awaits the hourly budget.        *)
Post(w, j) ==
    /\ up[w] = "up" /\ healthy[w]
    /\ Begin(w, j)
    /\ UNCHANGED <<storeVars, up, heart>>

(* submit counts the tasks, then awaits; what comes next is not rechecked. *)
Admit(j) ==
    /\ IF Cardinality(Tasks(home[j])) >= MaxTasks
         THEN Move(j, "post", "gone")
         ELSE Move(j, "post", "recover")
    /\ UNCHANGED <<storeVars, up, heart>>

RecoverFirst(j) ==
    /\ Move(j, "recover", "insert")
    /\ RecoverInterrupted
    /\ UNCHANGED <<up, heart>>

(* repository.submit: a new row, or the row that holds the key already.    *)
Submit(j, k) ==
    \/ /\ Move(j, "insert", "charge")
       /\ Insert(home[j], j, k)
       /\ UNCHANGED <<up, heart>>
    \/ /\ ~KeyFree(k)
       /\ Move(j, "insert", "gone")
       /\ UNCHANGED <<storeVars, up, heart>>

(* The daily budget is reserved and the task created; or it is used up.    *)
Charge(j) ==
    /\ \/ Move(j, "charge", "waiting")
       \/ Move(j, "charge", "refuse")
    /\ UNCHANGED <<storeVars, up, heart>>

(* update_job whose WHERE clause may match no row.                         *)
TryUpdate(j, new) ==
    \/ UpdateJob(home[j], j, new)
    \/ ~CanUpdate(home[j], j, new) /\ UNCHANGED storeVars

Refuse(j) ==
    /\ Move(j, "refuse", "gone")
    /\ TryUpdate(j, "failed")
    /\ UNCHANGED <<up, heart>>

(* A database error in any await of the request: it raises, and a row that *)
(* was inserted stays queued without a task.                               *)
RequestError(j) ==
    /\ pc[j] \in RequestPcs
    /\ End({j})
    /\ UNCHANGED <<storeVars, up, heart>>

(* A submission finds a cached complete report whose block hash changed:   *)
(* it fails that job i and calls submit again, under a new uuid and without*)
(* looking at lease_healthy (nothing more is submitted once the bounded    *)
(* ids are used up).                                                       *)
Invalidate(w, i) ==
    /\ up[w] = "up"
    /\ status[i] = "complete" /\ i \in reports
    /\ UpdateJob(w, i, "failed")
    /\ \/ \E j \in Jobs : Begin(w, j)
       \/ (\A j \in Jobs : pc[j] # "new") /\ UNCHANGED tasks
    /\ UNCHANGED <<up, heart>>

Request(j) ==
    \/ \E w \in Workers : Post(w, j) \/ Invalidate(w, j)
    \/ Admit(j) \/ RecoverFirst(j) \/ Charge(j) \/ Refuse(j) \/ RequestError(j)
    \/ \E k \in Keys : Submit(j, k)

---------------------------------------------------------------------------
(* The task: run(job) and _analyze(job).                                   *)

Acquire(j) ==
    /\ Cardinality(Running(home[j])) < MaxConcurrent
    /\ Move(j, "waiting", "working")
    /\ UNCHANGED <<storeVars, up, heart>>

(* stage(): the next stage is written, or the lease is lost and the task   *)
(* returns without touching the row.                                       *)
Stage(j) ==
    /\ pc[j] = "working" /\ stage[j] < NStages
    /\ \/ /\ UpdateJob(home[j], j, "running")
          /\ stage' = [stage EXCEPT ![j] = @ + 1]
          /\ UNCHANGED <<pc, home>>
       \/ /\ ~CanUpdate(home[j], j, "running")
          /\ End({j})
          /\ UNCHANGED storeVars
    /\ UNCHANGED <<up, heart>>

(* Faulty variant: the report is not written before the row.               *)
SaveLater(j) ==
    /\ stage[j] = NStages
    /\ Move(j, "working", "saved")
    /\ UNCHANGED <<storeVars, up, heart>>

Save(j) ==
    /\ stage[j] = NStages
    /\ Move(j, "working", "saved")
    /\ SaveReport(j)
    /\ UNCHANGED <<up, heart>>

(* Faulty variant: the row is read, changed and written back by its id.    *)
PublishBlindly(j) ==
    /\ Move(j, "saved", "gone")
    /\ status' = [status EXCEPT ![j] = "complete"]
    /\ UNCHANGED <<key, owner, lease, reports, up, heart>>

Publish(j) ==
    /\ Move(j, "saved", "gone")
    /\ TryUpdate(j, "complete")
    /\ UNCHANGED <<up, heart>>

(* An analysis error, an RPC error, a database error or the 240 second     *)
(* timeout: run() goes on to fail(job).                                    *)
Raise(j) ==
    /\ pc[j] \in {"working", "saved"}
    /\ Goto(j, "failing")
    /\ UNCHANGED <<home, stage, storeVars, up, heart>>

(* The same error or timeout, when the update was committed and only its   *)
(* acknowledgement was lost.                                               *)
RaiseAfterCommit(j) ==
    /\ \/ /\ pc[j] = "working" /\ stage[j] < NStages
          /\ UpdateJob(home[j], j, "running")
       \/ /\ pc[j] = "working" /\ stage[j] = NStages
          /\ SaveReport(j)
       \/ /\ pc[j] = "saved"
          /\ UpdateJob(home[j], j, "complete")
    /\ Goto(j, "failing")
    /\ UNCHANGED <<home, stage, up, heart>>

(* TransactionUnavailable, which only the fetch after the first stage      *)
(* raises: the daily budget is refunded before the job fails.              *)
Unavailable(j) ==
    /\ stage[j] = 1
    /\ Move(j, "working", "refund")
    /\ UNCHANGED <<storeVars, up, heart>>

Refund(j) ==
    /\ Move(j, "refund", "failing")
    /\ UNCHANGED <<storeVars, up, heart>>

Fail(j) ==
    /\ Move(j, "failing", "gone")
    /\ TryUpdate(j, "failed")
    /\ UNCHANGED <<up, heart>>

(* A database error inside the except clause of run(): nothing catches it, *)
(* the task ends and its row stays live.                                   *)
HandlerError(j) ==
    /\ pc[j] \in {"refund", "failing"}
    /\ End({j})
    /\ UNCHANGED <<storeVars, up, heart>>

Progress(j) == \/ Acquire(j) \/ Stage(j) \/ Save(j) \/ Publish(j)
               \/ Refund(j) \/ Fail(j)
Task(j) == Progress(j) \/ Raise(j) \/ RaiseAfterCommit(j) \/ Unavailable(j)
                       \/ HandlerError(j)

---------------------------------------------------------------------------
(* lease_heartbeat(state, repository).                                     *)

Sleep(w) == /\ beat' = [beat EXCEPT ![w] = "sleep"]
            /\ timer' = [timer EXCEPT ![w] = Beat]

(* Faulty variant: an idle worker beats too.                               *)
WakeAlways(w) ==
    /\ up[w] = "up" /\ beat[w] = "sleep" /\ timer[w] = 0
    /\ beat' = [beat EXCEPT ![w] = "check"]
    /\ timer' = [timer EXCEPT ![w] = BeatTimeout]
    /\ UNCHANGED <<storeVars, up, healthy, missed, tasks>>

(* Faulty variant: an idle worker never beats, healthy or not.             *)
WakeWithTasks(w) ==
    /\ up[w] = "up" /\ beat[w] = "sleep" /\ timer[w] = 0
    /\ IF Tasks(w) = {}
         THEN Sleep(w)
         ELSE /\ beat' = [beat EXCEPT ![w] = "check"]
              /\ timer' = [timer EXCEPT ![w] = BeatTimeout]
    /\ UNCHANGED <<storeVars, up, healthy, missed, tasks>>

(* The sleep is over: nothing to renew while healthy and idle.             *)
Wake(w) ==
    /\ up[w] = "up" /\ beat[w] = "sleep" /\ timer[w] = 0
    /\ IF healthy[w] /\ Tasks(w) = {}
         THEN Sleep(w)
         ELSE /\ beat' = [beat EXCEPT ![w] = "check"]
              /\ timer' = [timer EXCEPT ![w] = BeatTimeout]
    /\ UNCHANGED <<storeVars, up, healthy, missed, tasks>>

(* renew_leases, first statement: no own live row has expired.             *)
Check(w) ==
    /\ up[w] = "up" /\ beat[w] = "check"
    /\ ~OwnExpired(w)
    /\ beat' = [beat EXCEPT ![w] = "renew"]
    /\ UNCHANGED <<storeVars, up, healthy, missed, timer, tasks>>

(* renew_leases, second statement.                                         *)
Renew(w) ==
    /\ up[w] = "up" /\ beat[w] = "renew"
    /\ RenewLeases(w)
    /\ beat' = [beat EXCEPT ![w] = "recover"]
    /\ UNCHANGED <<up, healthy, missed, timer, tasks>>

(* recover_interrupted succeeds: the beat did.                             *)
Beaten(w) ==
    /\ up[w] = "up" /\ beat[w] = "recover"
    /\ RecoverInterrupted
    /\ missed' = [missed EXCEPT ![w] = 0]
    /\ healthy' = [healthy EXCEPT ![w] = TRUE]
    /\ Sleep(w)
    /\ UNCHANGED <<up, tasks>>

(* The except clause: the beat is missed, and the third miss in a row      *)
(* cancels every local task.                                               *)
Miss(w) ==
    /\ missed' = [missed EXCEPT ![w] = IF @ > MaxMissed THEN @ ELSE @ + 1]
    /\ healthy' = [healthy EXCEPT ![w] = FALSE]
    /\ Sleep(w)
    /\ IF missed[w] + 1 = MaxMissed THEN End(Tasks(w)) ELSE UNCHANGED tasks
    /\ UNCHANGED <<storeVars, up>>

(* renew_leases raises "Job lease expired."                                *)
LeaseExpired(w) ==
    /\ up[w] = "up" /\ beat[w] = "check"
    /\ OwnExpired(w)
    /\ Miss(w)

(* A database error or the timeout of the beat, before or after the        *)
(* renewal was committed.                                                  *)
BeatError(w) ==
    /\ up[w] = "up" /\ beat[w] \in {"check", "renew", "recover"}
    /\ Miss(w)

Heartbeat(w) == Wake(w) \/ Check(w) \/ Renew(w) \/ Beaten(w) \/ LeaseExpired(w)
                        \/ BeatError(w)

---------------------------------------------------------------------------
(* The process: lifespan, crashes, and clients that poll a job.            *)

StartUp(w) ==
    /\ up[w] = "off"
    /\ up' = [up EXCEPT ![w] = "up"]
    /\ healthy' = [healthy EXCEPT ![w] = TRUE]
    /\ Sleep(w)
    /\ RecoverInterrupted
    /\ UNCHANGED <<missed, tasks>>

Forget(w) ==
    /\ healthy' = [healthy EXCEPT ![w] = FALSE]
    /\ missed' = [missed EXCEPT ![w] = 0]
    /\ beat' = [beat EXCEPT ![w] = "sleep"]
    /\ timer' = [timer EXCEPT ![w] = 0]

(* The server drains its requests, then the lifespan cancels the heartbeat *)
(* and every task.                                                         *)
ShutDown(w) ==
    /\ up[w] = "up" /\ Requests(w) = {}
    /\ up' = [up EXCEPT ![w] = "closing"]
    /\ Forget(w)
    /\ End(Tasks(w))
    /\ UNCHANGED storeVars

Release(w) ==
    /\ up[w] = "closing"
    /\ up' = [up EXCEPT ![w] = "down"]
    /\ ReleaseOwned(w)
    /\ UNCHANGED <<heart, tasks>>

Crash(w) ==
    /\ up[w] \in {"up", "closing"}
    /\ up' = [up EXCEPT ![w] = "down"]
    /\ Forget(w)
    /\ End(Tasks(w) \cup Requests(w))
    /\ UNCHANGED storeVars

(* GET /analyses/{id}: get_job recovers before it reads.                   *)
Poll(w) ==
    /\ up[w] = "up"
    /\ RecoverInterrupted
    /\ UNCHANGED <<up, heart, tasks>>

Process(w) == StartUp(w) \/ ShutDown(w) \/ Release(w) \/ Crash(w) \/ Poll(w)

Tick ==
    /\ \A w \in Workers : up[w] = "up" => timer[w] > 0
    /\ timer' = [w \in Workers |-> IF up[w] = "up" THEN timer[w] - 1 ELSE timer[w]]
    /\ Elapse
    /\ UNCHANGED <<up, healthy, missed, beat, tasks>>

Next == \/ \E j \in Jobs : Request(j) \/ Task(j)
        \/ \E w \in Workers : Heartbeat(w) \/ Process(w)
        \/ Tick

Spec == Init /\ [][Next]_vars

(* Fairness.  Time passes; the event loop resumes a due heartbeat and ends *)
(* a beat; a task goes on (its external calls are cut at 240 seconds).     *)
(* The database may fail any number of times, but a statement that a       *)
(* heartbeat keeps retrying is answered now and then, hence SF.            *)
Fairness ==
    /\ WF_vars(Tick)
    /\ \A j \in Jobs : WF_vars(Progress(j))
    /\ \A w \in Workers :
           /\ WF_vars(Heartbeat(w)) /\ WF_vars(Release(w))
           /\ SF_vars(Check(w)) /\ SF_vars(Renew(w)) /\ SF_vars(Beaten(w))

(* Clients that poll their job make a worker recover abandoned rows.       *)
Polling == \A w \in Workers : WF_vars(Poll(w))

UnpolledSpec == Spec /\ Fairness
FairSpec == Spec /\ Fairness /\ Polling

---------------------------------------------------------------------------
(* A job is shown complete only when its report can be read, whichever     *)
(* await of the task failed, was cancelled or lost its acknowledgement:    *)
(* _analyze saves the report in a transaction of its own, before the row.  *)
CompleteHasReport == \A j \in Jobs : status[j] = "complete" => j \in reports

(* While its lease is valid, a live job is failed only by the coroutine    *)
(* that works for it, or by the orderly shutdown of its own process: no    *)
(* poll, submission, startup or heartbeat of another worker takes it away. *)
InterruptsOnlyAbandoned ==
    [][\A j \in Jobs :
        Live(j) /\ ~Expired(j) /\ status'[j] = "failed" =>
            \/ home[j] = owner[j] /\ pc[j] \in {"refuse", "failing"}
            \/ up[owner[j]] = "closing"
      ]_vars

(* The service uses the repository only as StoreNext allows.               *)
UsesStore == StoreSpec

(* "Fail closed while unhealthy, and heal when it recovers" (main.py:27).  *)
Heals ==
    \A w \in Workers :
        up[w] = "up" /\ ~healthy[w] ~> healthy[w] \/ up[w] # "up"

(* "Cancels local work only after three missed beats (before the 60-second *)
(* lease could be recovered elsewhere)" (docs/architecture.md:43).         *)
CancelsBeforeExpiry ==
    [][\A w \in Workers :
        missed[w] < MaxMissed /\ missed'[w] = MaxMissed =>
            \A j \in Tasks(w) : Live(j) => ~Expired(j)
      ]_vars

===========================================================================

---------------------- MODULE AnalysisServiceProofs ----------------------
(***************************************************************************)
(* Theorems about the worker processes of AnalysisService, for any number  *)
(* of jobs, keys and workers and all timing constants.                     *)
(***************************************************************************)
EXTENDS AnalysisService, JobStoreProofs

Active == RequestPcs \cup TaskPcs

(* A coroutine that works for a job runs on some worker.                   *)
HomeKnown == \A j \in Jobs : pc[j] \in Active => home[j] \in Workers

(* Once a stage was written the row is past "queued".                      *)
StagedRow == \A j \in Jobs : stage[j] > 0 => status[j] \notin {"absent", "queued"}

(* A task that is about to publish has run every stage and saved.          *)
SavedFirst == \A j \in Jobs : pc[j] = "saved" => stage[j] = NStages /\ j \in reports

(* The strengthening: CompleteHasReport is not inductive by itself, since  *)
(* Publish completes a row without looking at the reports.                 *)
IInv == TypeOK /\ HomeKnown /\ StagedRow /\ SavedFirst /\ CompleteHasReport

(* The initial state satisfies the invariant.                              *)
LEMMA InitIInv == Init => IInv
<1> SUFFICES ASSUME Init PROVE IInv
  OBVIOUS
<1>1. StoreTypeOK
  BY StoreInitType DEF Init
<1> QED
  BY <1>1, ServiceAssumption
  DEF Init, StoreInit, IInv, TypeOK, Pcs, RequestPcs, TaskPcs, RunningPcs, Active,
      HomeKnown, StagedRow, SavedFirst, CompleteHasReport

---------------------------------------------------------------------------
(* A conditional update is a store step or none, if it completes only rows *)
(* that are past "queued".                                                 *)
LEMMA TryUpdateStep ==
    ASSUME NEW j \in Jobs, home[j] \in Workers,
           NEW new \in {"running", "complete", "failed"}, TryUpdate(j, new),
           new = "complete" => status[j] # "queued"
    PROVE  [StoreNext]_storeVars
BY DEF TryUpdate, Advance, StoreNext

(* The request uses the repository only as StoreNext allows.               *)
LEMMA RequestUsesStore ==
    ASSUME IInv, NEW j \in Jobs, Request(j)
    PROVE  [StoreNext]_storeVars
<1>1. ASSUME pc[j] \in Active PROVE home[j] \in Workers
  BY <1>1 DEF IInv, HomeKnown
<1>2. CASE RecoverFirst(j)
  BY <1>2 DEF RecoverFirst, StoreNext
<1>3. ASSUME NEW k \in Keys, Submit(j, k)
      PROVE [StoreNext]_storeVars
  BY <1>1, <1>3 DEF Submit, Move, Active, RequestPcs, StoreNext
<1>4. CASE Refuse(j)
  BY <1>1, <1>4, TryUpdateStep DEF Refuse, Move, Active, RequestPcs
<1>5. ASSUME NEW w \in Workers, Invalidate(w, j)
      PROVE [StoreNext]_storeVars
  BY <1>5 DEF Invalidate, Advance, StoreNext
<1> QED
  BY <1>2, <1>3, <1>4, <1>5
  DEF Request, Post, Admit, Charge, RequestError

(* So does the task: it publishes only after its stages.                   *)
LEMMA TaskUsesStore ==
    ASSUME IInv, NEW j \in Jobs, Task(j)
    PROVE  [StoreNext]_storeVars
<1>1. ASSUME pc[j] \in Active PROVE home[j] \in Workers
  BY <1>1 DEF IInv, HomeKnown
<1>2. pc[j] = "saved" => status[j] # "queued"
  BY ServiceAssumption DEF IInv, SavedFirst, StagedRow
<1>3. CASE Stage(j)
  <2>1. home[j] \in Workers
    BY <1>1, <1>3 DEF Stage, Active, TaskPcs, RunningPcs
  <2> QED
    BY <1>3, <2>1 DEF Stage, Advance, StoreNext
<1>4. CASE Save(j)
  BY <1>4 DEF Save, StoreNext
<1>5. CASE Publish(j)
  BY <1>1, <1>2, <1>5, TryUpdateStep DEF Publish, Move, Active, TaskPcs, RunningPcs
<1>6. CASE RaiseAfterCommit(j)
  <2>1. home[j] \in Workers
    BY <1>1, <1>6 DEF RaiseAfterCommit, Active, TaskPcs, RunningPcs
  <2> QED
    BY <1>2, <1>6, <2>1 DEF RaiseAfterCommit, Advance, StoreNext
<1>7. CASE Fail(j)
  BY <1>1, <1>7, TryUpdateStep DEF Fail, Move, Active, TaskPcs, RunningPcs
<1> QED
  BY <1>3, <1>4, <1>5, <1>6, <1>7
  DEF Task, Progress, Acquire, Raise, Unavailable, Refund, HandlerError

(* And so do the heartbeat and the process.                                *)
LEMMA WorkerUsesStore ==
    ASSUME NEW w \in Workers, Heartbeat(w) \/ Process(w)
    PROVE  [StoreNext]_storeVars
BY DEF Heartbeat, Wake, Check, Renew, Beaten, LeaseExpired, BeatError, Miss,
       Process, StartUp, ShutDown, Release, Crash, Poll, StoreNext

(* Every step of the service is a store step or leaves the tables alone.   *)
LEMMA StepUsesStore == IInv /\ [Next]_vars => [StoreNext]_storeVars
<1> SUFFICES ASSUME IInv, [Next]_vars PROVE [StoreNext]_storeVars
  OBVIOUS
<1>1. CASE Tick
  BY <1>1 DEF Tick, StoreNext
<1>2. CASE UNCHANGED vars
  BY <1>2 DEF vars
<1> QED
  BY <1>1, <1>2, RequestUsesStore, TaskUsesStore, WorkerUsesStore DEF Next
---------------------------------------------------------------------------
(* The variables of the service proper keep their types.                   *)
LEMMA RequestType ==
    ASSUME IInv, StoreTypeOK', NEW j \in Jobs, Request(j)
    PROVE  TypeOK'
<1> USE DEF IInv, TypeOK, Pcs, RequestPcs, TaskPcs, RunningPcs, heart
<1>1. ASSUME NEW w \in Workers, Post(w, j) PROVE TypeOK'
  BY <1>1 DEF Post, Begin, Goto
<1>2. CASE Admit(j)
  BY <1>2 DEF Admit, Move, Goto
<1>3. CASE RecoverFirst(j)
  BY <1>3 DEF RecoverFirst, Move, Goto
<1>4. ASSUME NEW k \in Keys, Submit(j, k) PROVE TypeOK'
  BY <1>4 DEF Submit, Move, Goto
<1>5. CASE Charge(j)
  BY <1>5 DEF Charge, Move, Goto
<1>6. CASE Refuse(j)
  BY <1>6 DEF Refuse, Move, Goto
<1>7. CASE RequestError(j)
  BY <1>7 DEF RequestError, End
<1>8. ASSUME NEW w \in Workers, Invalidate(w, j) PROVE TypeOK'
  BY <1>8 DEF Invalidate, Begin, Goto, tasks
<1> QED
  BY <1>1, <1>2, <1>3, <1>4, <1>5, <1>6, <1>7, <1>8 DEF Request

LEMMA TaskType ==
    ASSUME IInv, StoreTypeOK', NEW j \in Jobs, Task(j)
    PROVE  TypeOK'
<1> USE ServiceAssumption DEF IInv, TypeOK, Pcs, RequestPcs, TaskPcs, RunningPcs, heart
<1>1. CASE Acquire(j) \/ Save(j) \/ Publish(j) \/ Unavailable(j) \/ Refund(j) \/ Fail(j)
  BY <1>1 DEF Acquire, Save, Publish, Unavailable, Refund, Fail, Move, Goto
<1>2. CASE Stage(j)
  BY <1>2 DEF Stage, End
<1>3. CASE Raise(j) \/ RaiseAfterCommit(j)
  BY <1>3 DEF Raise, RaiseAfterCommit, Goto
<1>4. CASE HandlerError(j)
  BY <1>4 DEF HandlerError, End
<1> QED
  BY <1>1, <1>2, <1>3, <1>4 DEF Task, Progress

LEMMA HeartbeatType ==
    ASSUME IInv, StoreTypeOK', NEW w \in Workers, Heartbeat(w)
    PROVE  TypeOK'
<1> USE ServiceAssumption DEF IInv, TypeOK, tasks
<1>1. CASE Wake(w)
  BY <1>1 DEF Wake, Sleep
<1>2. CASE Check(w) \/ Renew(w)
  BY <1>2 DEF Check, Renew
<1>3. CASE Beaten(w)
  BY <1>3 DEF Beaten, Sleep
<1>4. CASE Miss(w)
  <2>1. missed' \in [Workers -> 0 .. MaxMissed + 1]
    BY <1>4 DEF Miss
  <2>2. pc' \in [Jobs -> Pcs]
    BY <1>4 DEF Miss, End, Pcs
  <2> QED
    BY <1>4, <2>1, <2>2 DEF Miss, Sleep, End
<1> QED
  BY <1>1, <1>2, <1>3, <1>4 DEF Heartbeat, LeaseExpired, BeatError

LEMMA ProcessType ==
    ASSUME IInv, StoreTypeOK', NEW w \in Workers, Process(w)
    PROVE  TypeOK'
<1> USE ServiceAssumption DEF IInv, TypeOK, tasks
<1>1. CASE StartUp(w)
  BY <1>1 DEF StartUp, Sleep
<1>2. CASE ShutDown(w) \/ Crash(w)
  <2>1. PICK S : End(S)
    BY <1>2 DEF ShutDown, Crash
  <2>2. pc' \in [Jobs -> Pcs] /\ UNCHANGED <<home, stage>>
    BY <2>1 DEF End, Pcs
  <2>3. Forget(w) /\ \E x \in {"closing", "down"} : up' = [up EXCEPT ![w] = x]
    BY <1>2 DEF ShutDown, Crash
  <2> QED
    BY <2>2, <2>3 DEF Forget
<1>3. CASE Release(w) \/ Poll(w)
  BY <1>3 DEF Release, Poll, heart
<1> QED
  BY <1>1, <1>2, <1>3 DEF Process

LEMMA NextType == IInv /\ [Next]_vars => TypeOK'
<1> SUFFICES ASSUME IInv, [Next]_vars PROVE TypeOK'
  OBVIOUS
<1>1. StoreTypeOK'
  BY StepUsesStore, StoreNextType DEF IInv, TypeOK
<1>2. CASE Tick
  BY <1>1, <1>2 DEF Tick, tasks, IInv, TypeOK
<1>3. CASE UNCHANGED vars
  BY <1>1, <1>3 DEF vars, heart, tasks, IInv, TypeOK
<1> QED
  BY <1>1, <1>2, <1>3, RequestType, TaskType, HeartbeatType, ProcessType DEF Next

---------------------------------------------------------------------------
(* What any store step does to the two facts the invariant needs of it.    *)
LEMMA StoreStepKeeps ==
    ASSUME StoreTypeOK, [StoreNext]_storeVars, NEW j \in Jobs
    PROVE  /\ status[j] \notin {"absent", "queued"} => status'[j] \notin {"absent", "queued"}
           /\ j \in reports => j \in reports'
<1>1. ASSUME NEW w \in Workers, NEW i \in Jobs, NEW k \in Keys, Insert(w, i, k)
      PROVE /\ status[j] \notin {"absent", "queued"} => status'[j] \notin {"absent", "queued"}
            /\ reports' = reports
  BY <1>1 DEF Insert, StoreTypeOK
<1>2. ASSUME NEW w \in Workers, NEW i \in Jobs,
             NEW new \in {"running", "complete", "failed"}, Advance(w, i, new)
      PROVE /\ status[j] \notin {"absent", "queued"} => status'[j] \notin {"absent", "queued"}
            /\ reports' = reports
  BY <1>2 DEF Advance, UpdateJob, StoreTypeOK
<1>3. ASSUME NEW S, Interrupt(S)
      PROVE /\ status[j] \notin {"absent", "queued"} => status'[j] \notin {"absent", "queued"}
            /\ reports' = reports
  BY <1>3 DEF Interrupt
<1> QED
  BY <1>1, <1>2, <1>3
  DEF StoreNext, ReleaseOwned, RecoverInterrupted, SaveReport, jobs, RenewLeases,
      Elapse, storeVars

(* What the invariant says beyond the types.                               *)
Core == HomeKnown /\ StagedRow /\ SavedFirst /\ CompleteHasReport

(* A step that starts nothing, saves nothing and completes only what has a *)
(* report keeps it.                                                        *)
LEMMA QuietStep ==
    ASSUME IInv, [StoreNext]_storeVars, UNCHANGED <<home, stage>>,
           \A i \in Jobs : pc'[i] \in Active => pc[i] \in Active,
           \A i \in Jobs : pc'[i] = "saved" => pc[i] = "saved",
           \A i \in Jobs : status'[i] = "complete" => status[i] = "complete" \/ i \in reports
    PROVE  Core'
<1>1. ASSUME NEW i \in Jobs
      PROVE /\ status[i] \notin {"absent", "queued"} => status'[i] \notin {"absent", "queued"}
            /\ i \in reports => i \in reports'
  BY StoreStepKeeps DEF IInv, TypeOK
<1> QED
  BY <1>1 DEF IInv, Core, HomeKnown, StagedRow, SavedFirst, CompleteHasReport

(* The store operations that complete nothing.                             *)
LEMMA Incomplete ==
    ASSUME StoreTypeOK, NEW i \in Jobs, status'[i] = "complete",
           \/ UNCHANGED storeVars
           \/ RecoverInterrupted \/ Elapse
           \/ \E w : RenewLeases(w) \/ ReleaseOwned(w)
           \/ \E w, j, k : Insert(w, j, k)
           \/ \E w, j : UpdateJob(w, j, "failed") \/ UpdateJob(w, j, "running")
    PROVE  status[i] = "complete"
BY DEF storeVars, RecoverInterrupted, Elapse, RenewLeases, ReleaseOwned, Interrupt,
       Insert, UpdateJob, StoreTypeOK

(* A request that begins knows its worker.                                 *)
LEMMA BeginStep ==
    ASSUME IInv, [StoreNext]_storeVars, NEW w \in Workers, NEW j \in Jobs, Begin(w, j),
           \A i \in Jobs : status'[i] = "complete" => status[i] = "complete"
    PROVE  Core'
<1>1. ASSUME NEW i \in Jobs
      PROVE /\ status[i] \notin {"absent", "queued"} => status'[i] \notin {"absent", "queued"}
            /\ i \in reports => i \in reports'
  BY StoreStepKeeps DEF IInv, TypeOK
<1>2. ASSUME NEW i \in Jobs
      PROVE /\ stage'[i] = stage[i]
            /\ i # j => pc'[i] = pc[i] /\ home'[i] = home[i]
            /\ i = j => pc'[i] = "post" /\ home'[i] = w
  BY DEF Begin, Goto, IInv, TypeOK
<1> QED
  BY <1>1, <1>2 DEF IInv, Core, HomeKnown, StagedRow, SavedFirst, CompleteHasReport

LEMMA RequestCore ==
    ASSUME IInv, NEW j \in Jobs, Request(j)
    PROVE  Core'
<1> USE DEF Active, RequestPcs, TaskPcs, RunningPcs, Pcs
<1>1. [StoreNext]_storeVars /\ StoreTypeOK /\ pc \in [Jobs -> Pcs]
  BY RequestUsesStore DEF IInv, TypeOK
<1>2. ASSUME NEW w \in Workers, Post(w, j) PROVE Core'
  <2>1. \A i \in Jobs : status'[i] = "complete" => status[i] = "complete"
    BY <1>2 DEF Post, storeVars
  <2> QED
    BY <1>1, <1>2, <2>1, BeginStep DEF Post
<1>3. CASE Admit(j)
  BY <1>1, <1>3, QuietStep, Incomplete DEF Admit, Move, Goto
<1>4. CASE RecoverFirst(j)
  BY <1>1, <1>4, QuietStep, Incomplete DEF RecoverFirst, Move, Goto
<1>5. ASSUME NEW k \in Keys, Submit(j, k) PROVE Core'
  BY <1>1, <1>5, QuietStep, Incomplete DEF Submit, Move, Goto
<1>6. CASE Charge(j)
  BY <1>1, <1>6, QuietStep, Incomplete DEF Charge, Move, Goto
<1>7. CASE Refuse(j)
  BY <1>1, <1>7, QuietStep, Incomplete DEF Refuse, TryUpdate, Move, Goto
<1>8. CASE RequestError(j)
  BY <1>1, <1>8, QuietStep, Incomplete DEF RequestError, End
<1>9. ASSUME NEW w \in Workers, Invalidate(w, j) PROVE Core'
  <2>1. \A i \in Jobs : status'[i] = "complete" => status[i] = "complete"
    BY <1>1, <1>9, Incomplete DEF Invalidate
  <2>2. CASE UNCHANGED tasks
    BY <1>1, <2>1, <2>2, QuietStep DEF tasks
  <2>3. ASSUME NEW k \in Jobs, Begin(w, k)
        PROVE Core'
    BY <1>1, <2>1, <2>3, BeginStep
  <2> QED
    BY <1>9, <2>2, <2>3 DEF Invalidate
<1> QED
  BY <1>2, <1>3, <1>4, <1>5, <1>6, <1>7, <1>8, <1>9 DEF Request

LEMMA TaskCore ==
    ASSUME IInv, NEW j \in Jobs, Task(j)
    PROVE  Core'
<1> USE DEF Active, RequestPcs, TaskPcs, RunningPcs, Pcs
<1>1. [StoreNext]_storeVars /\ StoreTypeOK /\ pc \in [Jobs -> Pcs]
  BY TaskUsesStore DEF IInv, TypeOK
<1>2. CASE Acquire(j)
  BY <1>1, <1>2, QuietStep, Incomplete DEF Acquire, Move, Goto
<1>3. CASE Stage(j)
  <2>1. CASE UpdateJob(home[j], j, "running") /\ stage' = [stage EXCEPT ![j] = @ + 1]
    <3>1. UNCHANGED <<pc, home, reports>> /\ status' = [status EXCEPT ![j] = "running"]
      BY <1>3, <2>1 DEF Stage, UpdateJob, End
    <3>2. ASSUME NEW i \in Jobs
          PROVE /\ stage'[i] > 0 => status'[i] \notin {"absent", "queued"}
                /\ status'[i] = "complete" => i \in reports'
                /\ i # j => stage'[i] = stage[i]
      BY <2>1, <3>1 DEF IInv, TypeOK, StoreTypeOK, StagedRow, CompleteHasReport
    <3> QED
      BY <1>3, <3>1, <3>2 DEF Stage, IInv, Core, HomeKnown, StagedRow, SavedFirst,
                              CompleteHasReport
  <2>2. CASE End({j}) /\ UNCHANGED storeVars
    BY <1>1, <2>2, QuietStep, Incomplete DEF End
  <2> QED
    BY <1>3, <2>1, <2>2 DEF Stage
<1>4. CASE Save(j)
  BY <1>4 DEF Save, Move, Goto, SaveReport, jobs, IInv, TypeOK, Core, HomeKnown,
              StagedRow, SavedFirst, CompleteHasReport
<1>5. ASSUME pc[j] = "saved", UpdateJob(home[j], j, "complete"), NEW i \in Jobs,
             status'[i] = "complete"
      PROVE status[i] = "complete" \/ i \in reports
  <2>1. i = j \/ status'[i] = status[i]
    BY <1>1, <1>5 DEF UpdateJob, StoreTypeOK
  <2> QED
    BY <1>5, <2>1 DEF IInv, SavedFirst
<1>6. CASE Publish(j)
  BY <1>1, <1>5, <1>6, QuietStep, Incomplete DEF Publish, TryUpdate, Move, Goto
<1>7. CASE Raise(j) \/ Unavailable(j) \/ Refund(j)
  BY <1>1, <1>7, QuietStep, Incomplete DEF Raise, Unavailable, Refund, Move, Goto
<1>8. CASE RaiseAfterCommit(j)
  <2>1. CASE UpdateJob(home[j], j, "running")
    BY <1>1, <1>8, <2>1, QuietStep, Incomplete DEF RaiseAfterCommit, Goto
  <2>2. CASE SaveReport(j)
    BY <1>1, <1>8, <2>2, QuietStep DEF RaiseAfterCommit, Goto, SaveReport, jobs
  <2>3. CASE pc[j] = "saved" /\ UpdateJob(home[j], j, "complete")
    BY <1>1, <1>5, <1>8, <2>3, QuietStep DEF RaiseAfterCommit, Goto
  <2> QED
    BY <1>8, <2>1, <2>2, <2>3 DEF RaiseAfterCommit
<1>9. CASE Fail(j)
  BY <1>1, <1>9, QuietStep, Incomplete DEF Fail, TryUpdate, Move, Goto
<1>10. CASE HandlerError(j)
  BY <1>1, <1>10, QuietStep, Incomplete DEF HandlerError, End
<1> QED
  BY <1>2, <1>3, <1>4, <1>6, <1>7, <1>8, <1>9, <1>10 DEF Task, Progress

(* A heartbeat or a process event ends coroutines at most, and leaves the  *)
(* tables alone or recovers, renews or releases rows.                      *)
Quietly ==
    /\ UNCHANGED <<home, stage>>
    /\ \A i \in Jobs : pc'[i] = pc[i] \/ pc'[i] = "gone"
    /\ \/ UNCHANGED storeVars
       \/ RecoverInterrupted \/ Elapse
       \/ \E w \in Workers : RenewLeases(w) \/ ReleaseOwned(w)

LEMMA EndIsQuiet ==
    ASSUME NEW S, End(S), UNCHANGED storeVars
    PROVE  Quietly
BY DEF End, Quietly

LEMMA HeartbeatIsQuiet ==
    ASSUME NEW w \in Workers, Heartbeat(w)
    PROVE  Quietly
<1>1. CASE Wake(w) \/ Check(w)
  BY <1>1 DEF Wake, Check, Quietly, tasks
<1>2. CASE Renew(w)
  BY <1>2 DEF Renew, Quietly, tasks
<1>3. CASE Beaten(w)
  BY <1>3 DEF Beaten, Quietly, tasks
<1>4. CASE Miss(w)
  <2>1. End(Tasks(w)) \/ UNCHANGED tasks
    BY <1>4 DEF Miss
  <2>2. UNCHANGED storeVars
    BY <1>4 DEF Miss
  <2> QED
    BY <2>1, <2>2, EndIsQuiet DEF Quietly, tasks
<1> QED
  BY <1>1, <1>2, <1>3, <1>4 DEF Heartbeat, LeaseExpired, BeatError

LEMMA ProcessIsQuiet ==
    ASSUME NEW w \in Workers, Process(w)
    PROVE  Quietly
<1>1. CASE StartUp(w)
  BY <1>1 DEF StartUp, Quietly, tasks
<1>2. CASE ShutDown(w) \/ Crash(w)
  BY <1>2, EndIsQuiet DEF ShutDown, Crash
<1>3. CASE Release(w)
  BY <1>3 DEF Release, Quietly, tasks
<1>4. CASE Poll(w)
  BY <1>4 DEF Poll, Quietly, tasks
<1> QED
  BY <1>1, <1>2, <1>3, <1>4 DEF Process

LEMMA QuietCore ==
    ASSUME IInv, [StoreNext]_storeVars, Quietly
    PROVE  Core'
<1>1. StoreTypeOK
  BY DEF IInv, TypeOK
<1>2. ASSUME NEW i \in Jobs, status'[i] = "complete"
      PROVE status[i] = "complete"
  BY <1>1, <1>2, Incomplete DEF Quietly
<1>3. ASSUME NEW i \in Jobs
      PROVE /\ pc'[i] \in Active => pc[i] \in Active
            /\ pc'[i] = "saved" => pc[i] = "saved"
  BY DEF Quietly, Active, RequestPcs, TaskPcs, RunningPcs
<1>4. UNCHANGED <<home, stage>>
  BY DEF Quietly
<1> QED
  BY <1>2, <1>3, <1>4, QuietStep

(* The invariant is inductive.                                             *)
LEMMA NextIInv == IInv /\ [Next]_vars => IInv'
<1> SUFFICES ASSUME IInv, [Next]_vars PROVE IInv'
  OBVIOUS
<1>1. TypeOK'
  BY NextType
<1>2. ASSUME Tick \/ UNCHANGED vars
      PROVE Core'
  <2>1. Quietly
    BY <1>2 DEF Tick, Quietly, vars, tasks
  <2> QED
    BY <2>1, StepUsesStore, QuietCore
<1>3. ASSUME NEW w \in Workers, Heartbeat(w) \/ Process(w)
      PROVE Core'
  BY <1>3, HeartbeatIsQuiet, ProcessIsQuiet, StepUsesStore, QuietCore
<1>4. Core'
  BY <1>2, <1>3, RequestCore, TaskCore DEF Next
<1> QED
  BY <1>1, <1>4 DEF IInv, Core

(* The invariant holds in every reachable state.                           *)
LEMMA Invariance == Spec => []IInv
BY InitIInv, NextIInv, PTL DEF Spec

---------------------------------------------------------------------------
(* All variables of the worker processes stay in their types.              *)
THEOREM ServiceTypeCorrect == Spec => []TypeOK
<1>1. IInv => TypeOK
  BY DEF IInv
<1> QED
  BY <1>1, Invariance, PTL

(* A client that sees "complete" can read the report, for any number of    *)
(* workers that crash, time out or lose their leases.                      *)
THEOREM ServiceCompleteHasReport == Spec => []CompleteHasReport
<1>1. IInv => CompleteHasReport
  BY DEF IInv
<1> QED
  BY <1>1, Invariance, PTL

(* The service implements the job store.                                   *)
THEOREM ServiceUsesStore == Spec => UsesStore
<1>1. Init => StoreInit
  BY DEF Init
<1> QED
  BY <1>1, StepUsesStore, Invariance, PTL DEF Spec, StoreSpec, UsesStore

(* Hence it implements the lifecycle a client relies on, keeps the key     *)
(* discipline and never brings a failed job back.                          *)
THEOREM ServiceRefinesLifecycle ==
    Spec => LifecycleSpec /\ []KeyDiscipline /\ FailedIsFinal
BY ServiceUsesStore, StoreRefinesLifecycle, StoreKeyDiscipline, StoreFailedIsFinal, PTL
DEF UsesStore

---------------------------------------------------------------------------
(* Which steps fail a live job whose lease is valid.                       *)
Taken(j) == Live(j) /\ ~Expired(j) /\ status'[j] = "failed"
ByItself(j) == \/ home[j] = owner[j] /\ pc[j] \in {"refuse", "failing"}
               \/ up[owner[j]] = "closing"

(* Only failing updates and releases fail a job whose lease is valid.      *)
LEMMA KeptByStore ==
    ASSUME StoreTypeOK, NEW i \in Jobs, Taken(i)
    PROVE  /\ ~UNCHANGED storeVars /\ ~RecoverInterrupted /\ ~Elapse
           /\ \A w : ~RenewLeases(w)
           /\ \A w, k, j : ~Insert(w, j, k)
           /\ \A j : ~SaveReport(j)
           /\ \A w, j : ~UpdateJob(w, j, "running") /\ ~UpdateJob(w, j, "complete")
           /\ \A w, j : UpdateJob(w, j, "failed") => i = j /\ owner[i] = w
           /\ \A w : ReleaseOwned(w) => owner[i] = w
<1> USE DEF Taken, Live
<1>1. ~UNCHANGED storeVars /\ ~Elapse /\ \A w : ~RenewLeases(w)
  BY DEF storeVars, Elapse, RenewLeases
<1>2. ~RecoverInterrupted
  BY DEF RecoverInterrupted, Interrupt, Abandoned
<1>3. \A w : ReleaseOwned(w) => owner[i] = w
  BY DEF ReleaseOwned, Interrupt, Owned
<1>4. \A w, k, j : ~Insert(w, j, k)
  BY DEF Insert, StoreTypeOK
<1>5. \A j : ~SaveReport(j)
  BY DEF SaveReport, jobs
<1>6. \A w, j : ~UpdateJob(w, j, "running") /\ ~UpdateJob(w, j, "complete")
  BY DEF UpdateJob, StoreTypeOK
<1>7. \A w, j : UpdateJob(w, j, "failed") => i = j /\ owner[i] = w
  BY DEF UpdateJob, CanUpdate, StoreTypeOK
<1> QED
  BY <1>1, <1>2, <1>3, <1>4, <1>5, <1>6, <1>7

(* A step of a coroutine takes only its own job.                           *)
LEMMA CoroutineTakesItsOwn ==
    ASSUME IInv, NEW j \in Jobs, Request(j) \/ Task(j), NEW i \in Jobs, Taken(i)
    PROVE  ByItself(i)
<1>1. StoreTypeOK
  BY DEF IInv, TypeOK
<1>2. ~UNCHANGED storeVars
  BY <1>1, KeptByStore
<1>3. ~RecoverFirst(j) /\ \A k \in Keys : ~Submit(j, k)
  BY <1>1, KeptByStore DEF RecoverFirst, Submit
<1>4. ~Stage(j) /\ ~Save(j) /\ ~RaiseAfterCommit(j)
  BY <1>1, KeptByStore DEF Stage, Save, RaiseAfterCommit
<1>5. ~Publish(j)
  BY <1>1, KeptByStore DEF Publish, TryUpdate
<1>6. \A w \in Workers : ~Invalidate(w, j)
  BY <1>1, KeptByStore DEF Invalidate, Taken, Live
<1>7. Refuse(j) \/ Fail(j)
  BY <1>2, <1>3, <1>4, <1>5, <1>6
  DEF Request, Post, Admit, Charge, RequestError, Task, Progress, Acquire, Raise,
      Unavailable, Refund, HandlerError
<1>8. UpdateJob(home[j], j, "failed") /\ pc[j] \in {"refuse", "failing"}
  BY <1>2, <1>7 DEF Refuse, Fail, TryUpdate, Move
<1> QED
  BY <1>1, <1>8, KeptByStore DEF ByItself

(* A heartbeat, a poll or a startup takes nothing; a release takes the     *)
(* jobs of the process that shuts down.                                    *)
LEMMA WorkerTakesItsOwn ==
    ASSUME StoreTypeOK, NEW w \in Workers, Heartbeat(w) \/ Process(w),
           NEW i \in Jobs, Taken(i)
    PROVE  ByItself(i)
<1>1. ~Heartbeat(w)
  BY KeptByStore DEF Heartbeat, Wake, Check, Renew, Beaten, LeaseExpired, BeatError, Miss
<1>2. ~StartUp(w) /\ ~ShutDown(w) /\ ~Crash(w) /\ ~Poll(w)
  BY KeptByStore DEF StartUp, ShutDown, Crash, Poll
<1>3. Release(w)
  BY <1>1, <1>2 DEF Process
<1> QED
  BY <1>3, KeptByStore DEF Release, ByItself

(* No worker takes a job away from another while its lease is valid.       *)
THEOREM ServiceInterruptsOnlyAbandoned == Spec => InterruptsOnlyAbandoned
<1>1. ASSUME IInv, [Next]_vars
      PROVE [\A j \in Jobs :
                Live(j) /\ ~Expired(j) /\ status'[j] = "failed" =>
                    \/ home[j] = owner[j] /\ pc[j] \in {"refuse", "failing"}
                    \/ up[owner[j]] = "closing"
            ]_vars
  <2>1. StoreTypeOK
    BY <1>1 DEF IInv, TypeOK
  <2>2. ASSUME NEW j \in Jobs, Taken(j), Next
        PROVE ByItself(j)
    <3>1. ~Tick
      BY <2>1, <2>2, KeptByStore DEF Tick
    <3> QED
      BY <1>1, <2>1, <2>2, <3>1, CoroutineTakesItsOwn, WorkerTakesItsOwn DEF Next
  <2> QED
    BY <1>1, <2>2 DEF Taken, ByItself
<1> QED
  BY <1>1, Invariance, PTL DEF Spec, InterruptsOnlyAbandoned
===========================================================================

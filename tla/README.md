# TraceIntel: specification, model checking and proofs

TraceIntel explains an EVM transaction. A client posts a hash, a FastAPI process
analyses it in a background task, clients poll the job and read the report. Jobs,
reports and budgets live in SQL tables that several processes may share (a new
deployment overlaps the old one; a restarted process has a new owner id), so the
job store, the leases on jobs and the heartbeat that renews them are what keeps the
system correct, and what this project models first; then the chain reads under a report
(fetching, inspection, exposure, RPC client), the rules that score it, the agent that
turns it into a briefing, and the browser that submits, polls and refreshes.

## Inventory

| Part | State | Operations | What is hard | What makes it correct |
|---|---|---|---|---|
| Job store (`storage/sql_repository.py`, `tables.py`) | rows: status, cache key, owner, lease; reports; budgets | submit, get_job, update_job, save_report, renew_leases, recover_interrupted, release_owned, reserve/refund_budget | every call is a transaction that races with those of other processes | one live or complete row per key; failed rows never change; complete rows only fail; a failure frees the key |
| Analysis service (`services/analysis_service.py`) | set of tasks, semaphore, the task's copy of its job | submit (several awaits), run, stage, fail, _analyze, close | stale copies after an await, cancellation, errors inside except clauses, lost acknowledgements | complete jobs have a report; stale tasks cannot publish; every job ends unless other tasks keep its row alive |
| Heartbeat and lifespan (`main.py`) | `lease_healthy`, beats missed, timers | startup, beat, third miss cancels tasks, shutdown, crash | timing of leases against hanging beats, idle beats that are skipped | nobody takes a job whose lease is valid; an unhealthy process heals |
| Admission (`api/routes/analysis.py`, submit) | hourly and daily counters, queue length | reserve, refund, revalidate the cached report, submit again | concurrent requests, midnight, reorganised chain, two invalidations at once | no analysis is free; no stale report is served; a refusal does not block its hash; every request ends |
| Exposure (`blockchain/exposure_analyzer.py`, `ownership.py`) | pinned block, readings per permission | compare, revalidate, report coverage | the block is replaced between reads, partial RPC failures | a status is claimed only from a complete, still canonical snapshot |
| Agent investigation (`agents/investigator.py`, `planner.py`, `catalog.py`, `tools.py`) | rounds and calls left, observations | plan, screen, run tool, fall back to the baseline | several budgets, planner failure in the middle | the loop stops inside every budget; only listed targets are read |
| Interpretation (`agents/service.py`, `reporter.py`, `validation.py`) | attempts, draft, reason | draft, validate, repair once, rule-based advice | failures of different kinds in sequence | only validated text is shown, with the right reason |
| RPC client, fetcher (`blockchain/rpc_client.py`, `transaction_fetcher.py`) | attempts, semaphore | call, retry, cross-check | retryable and final errors, transaction absent or pending, a reorganisation between the reads | at most three attempts; a refund only for what the right network does not have |
| Decoding, contract inspection (`blockchain/*.py`, `agents/tools.py`) | the block tag, one record per address | decode events, inspect at block or latest, compare with the snapshot | fallback to latest in the middle, beacons, half of a lookup failing | labels and coverage say what was really read; a change is neither missed nor invented |
| Risk (`risk/`) | none | rules, aggregate | the same rule from several logs, spenders or roles | one contribution per rule; every signal cites evidence |
| Web client (`frontend/src`) | readiness, submission under way, polls, address | wait until ready, submit once, poll, refresh | timeouts, lost answers, leaving the page, errors during a poll | what is said for certain is true; nobody is dragged to another page; every wait ends |
| Edge proxy, health, models, token metadata, traces, display, evaluation, scripts | none of their own | | | not modelled, see the end |

Interaction: the route calls `submit`, which writes the tables and creates the task;
the task writes the tables through `update_job`, whose WHERE clause decides whether
this process still owns the job; the heartbeat and every poll, submission and startup
call `recover_interrupted`, which fails rows whose lease ran out. `lease_healthy` is
set by the heartbeat and read by the route. The exact hazards, each with its line and
the properties that cover it, are under `hazards` in `PROJECT.json`.

## Modules

`JobLifecycle` is the abstract specification: what a client that polls may see. A job
is accepted under a free key, starts, completes or fails; failing gives the key back
in the same step; nothing leaves `failed`.

`JobStore` models the tables. A variable is a column (`status`, `key`, `owner`,
`lease`) indexed by job id, `reports` is the reports table, an action is one
transaction and its guard is the WHERE clause. `lease[j]` counts the ticks left; the
code accepts `lease_expires_at >= now`, so 0 is valid and -1 stands for every expired
lease. `StoreSpec` lets any owner call any operation at any time, so what holds there
follows from the SQL conditions only. `Lifecycle` is the INSTANCE of `JobLifecycle`
(the jobs that hold key k are the rows whose column is k).

`AnalysisService` extends `JobStore` with the processes. `pc[j]` is where the one
coroutine working for job j stands, first the request (`post` after the health test,
`recover`, `insert`, `charge`, `refuse`), then the task (`waiting` for the semaphore,
`working`, `saved`, `refund`, `failing`). A step is what runs between two awaits, or
one transaction. `Raise` is any exception or the 240 second timeout; `RaiseAfterCommit`
is the same when the statement was committed and only its answer was lost;
`HandlerError` is a database error inside an except clause; `RequestError` leaves a row
without a task. The heartbeat is `Wake`, `Check`, `Renew` (`renew_leases` is two
statements), `Beaten`, `LeaseExpired`, `BeatError`; `Miss` is its except clause. A
worker is one incarnation of a process: `StartUp`, `ShutDown` and `Release`, or `Crash`.

`Traffic` extends it with submissions that never stop: `FreshId` lets the id of a job
that ended stand for the uuid4 of a later one. `KeptAlive(j)` says that row j is left
without a task in a process that has other tasks, which `renew_leases` renews all the same.

`Admission` models what `POST /analyses` decides, over the same `JobStore`: concurrent
requests, `hourly` and `used` counters, the day a request was charged on, and the
version of the block each report was made on. The stages of an analysis are one step
there. `paid[r]` is the unit of the daily budget that the task of r still uses.

`Exposure` models `analyze_exposure`: `chain` is what the provider serves and may
change at any moment (`ChainMoves`: a block is appended or replaced, also back);
`ReadLatest` picks the reference block, `ReadOk` and `ReadFails` answer one of the
reads that run in parallel under one `gather`, pinned to that block's hash (a provider
answers a hash-pinned read only while it has the block on its chain), `Collect` builds
the observed states and evidence, `Recheck` looks the block up once more, and `GiveUp`
is the except clause (an error at any point, a changed block, the 30 second timeout).
`Status`, `Active`, `Coverage`, `SnapshotTag` are the pure functions that read the
result. A provider that never answers is a `GiveUp`.

`RpcClient` models the calls that share one client: the semaphore, the counter of
request ids, the loop of three attempts with its three kinds of failure (`AnswerError`
final, `AnswerFault` retried and raised at the end, `AnswerThrottled` for 429, 5xx and
-32005), and `Cancel`, a caller's timeout, at any point. The permit is kept during the
back-off, as in the code.

`Catalog` and `Briefing` are pure: the order and truncation of the permissions (a stable
sort, `InOrder` of their positions), the ids of the claims (a permission or 0 for the
transaction, and a kind), the validator of a draft and the rules of the baseline. `Investigation`
extends `Catalog` with the loop of plan, screen and tools. `targets` is fixed, `claims`
grows with what tools find, `planner` falls from "model" to "baseline" and never back.
A tool's result is a choice among `Profiles` and `Controls`; tools of a round run in
parallel in the code and are recorded one after the other, which is the order of the
`gather` results. `Interpretation` extends `Investigation` and `Briefing` with the
attempts at a draft, the fallback to the rules, and the reason that
`AnalysisService._analyze` may replace at the end (`Label`); it runs every step of the
investigation as `Investigate`. Drafts are a set of records: what a model may answer.

`TransactionFetcher`, `Decoding`, `Risk` and `ContractInspection` follow one analysis
from its hash to the drift of a spender. The provider is a set of views, `now` is the
one it serves and `ProviderMoves` changes it between any two reads, so a variable such
as `txAt`, `codeAt` or `implAt` is the view in which that read was answered. The
fetcher's reads (`ReadNetwork`, `ReadTransaction`, `ReadReceipt`, `ReadBlock`) and tests
(`Gathered`) are steps; `Decoding` and `Risk` are pure. `ContractInspection` extends
both with `inspect_contract` for one address (the code, `CodeFails` with the fallback to
the latest block, the two slots under one `gather`, `Resolve` for a beacon, the
explorer), `Assess`, and the two reads of `spender_profile` with its `Compare`.
Inspections of different addresses share nothing, hence one `Subject`.

`WebClient` is the browser, composed with `JobLifecycle` as its server: `useHealth`
(`HealthAnswered`, `HealthFailed`), the form (`Submit`, `FormReady`, `FormNotReady`,
then one of `FormAnswered`, `FormRefused`, `FormInterrupted`), the page that polls
(`PollRead` on the server, `PollAnswered`, `PollFails`) and the refresh of a report.
`wire[c]` is how far the POST of click c has come, which the browser does not see: it
may time out while the server goes on. `Open` is a navigation; the layout keys its
outlet by path, so another address unmounts the page and runs the clean-up of its
effects. A process may die (`Crash`); its jobs wait until the lease expires and a poll
or a submission recovers them. `orphaned` are the rows that lost their coroutine in a
process that is up: the request broke off after the insertion (a branch of
`PostBudgeted`), or the task ended without writing the row (`TaskLost`). Such a row may
expire or be renewed for as long as anybody's tasks keep that process beating.

`MCAnalysisService` adds the symmetry sets; `MCExposure`, `MCInterpretation` and
`MCContractInspection` define the chains, exposures, plans, drafts, accounts and logs.
Operators called "faulty variant" are not part of any specification: each is a plausible
bug of the definition after it, and the property it is listed with under `mutants` is
violated when it replaces that definition.

What is abstracted: payloads (only the status and the number of stages written are
kept; the text of a terminal stage is not), what the stages compute (success or an
exception), rows with a NULL lease (they predate the lease migration), waiting for the
server to drain its requests before the lifespan ends (external, guard of `ShutDown`).

## Runs

| Run | Shows |
|---|---|
| `leases` | `KeyDiscipline`, `CompleteHasReport`, `InterruptsOnlyAbandoned` and the refinements of `StoreSpec` and `JobLifecycle`, with two jobs contending for one key on two processes |
| `ending` | under endless submissions, with clients that poll: an accepted job ends unless its row is kept alive by other tasks again and again (`EveryJobEnds`), and an unhealthy process becomes healthy again (`Heals`) |
| `admission` | daily budget, refunds, refusals, cached answers and the end of every request, with three requests |
| `exposure` | `VerdictsHold`, `CitedIsPublished`, `GapsAreShown`, `SenderFirst`, `ToolsArePinned`, `LastEventSpeaks`, with a chain that moves at any moment |
| `rpc_client` | `OwnAnswers`, `EveryCallEnds` for three overlapping calls over two permits |
| `interpretation` | the investigation's `WithinBudget`, `Thorough`, `SendersLiveKept`, `ModelCallsBounded` with a model that asks for what it must not get, and `Grounded`, `BaselineIsValid`, `BaselineSaysWhy` and `InterpretationTypeOK` over all settings, failures and drafts |
| `inspection` | `LabelIsTrue`, `GapsAreCovered`, `SignalsAreCited`, `ScoreCountsRulesOnce`, `NoFalseReassurance`, `ChangeIsReal` over a chain replaced between reads, every change of an account and every pair of logs |
| `web_client` | `DefiniteMessagesAreTrue`, `NeverDraggedAway`, `LastSubmissionOpens`, and that submissions (`SubmissionEnds`) and polling (`WatchEnds`) end |
| `no_healing`, `late_cancel`, `false_upgrade`, `stopped_poll` | violations, see below |

Bounds of the service. `leases` and `ending` shrink the clock (lease 2 or 1, beat 1, two
misses, one stage) so that two jobs fit: the order of beats, expiry and cancellation is
kept in `leases`, and in `ending` a lease may also run out before the second miss; the
ratios are not; `late_cancel` and `no_healing` use ticks of 5 seconds with the real
ratios. Two jobs show contention for a key, for the semaphore and for the queue, and a
row whose task is gone next to one whose task keeps the heartbeat busy. In `leases` an
id is submitted once, so the number of jobs bounds the submissions, including those
after an invalidation; in `ending` it bounds the rows that are live at the same time. A
beat takes no time in either (`BeatTimeout` 0): that a lease runs out between the two
statements of `renew_leases` and is revived is covered for the properties of `leases` by
their proofs, not by the run. `missed` counts to `MaxMissed + 1`: the code only compares
it with the limit. `admission` has one unit of daily budget for three requests, so the
limit is reached, two days so that a refund crosses midnight, and one replaced block;
leases run out at the first tick. What the client already used of the hour is any
number up to the limit, so that none, some or all of the requests are over it. Time
passes only while every started timer has time left (an idle event loop resumes a due
coroutine at once); tasks and requests have no deadline, which includes slower behaviour
than the 240 second limit allows.

Bounds of the rest. `exposure`: three keys of three owners against a limit of two
reads, so one is cut off; any two events, or three of one amount, so that an event can
be replaced twice; allowances 0 to 2 at two amounts 1 and 2, all four outcomes of the
comparison. One key's present allowance is fixed, the other two vary. The chains are a
growth past the reference block and a replacement that may be undone. Two values are
read per key, the allowance and one for the others, which only matter by failing.
`rpc_client`: three calls over two permits are the smallest system in which a call
waits; two cancellations leave one call that must still get its turn; three attempts as
in the code. `interpretation` has the code's budgets (8 calls, 4 per round, 2 and 3
rounds) and four targets (twelve in the code) of at most five permissions, so that both
the round and the total budget are exhausted and one permission is cut off.

`inspection` is the union of four families of worlds, each free where it matters: all
pairs of answers to the fetch (mined in this or another block, pending, absent, no such
block) with two changes of view; ten kinds of account then (key holder, two delegates,
plain, proxies of two implementations and two bytecodes, three beacons) against ten now
with one change of view; all pairs of fifteen logs; and status and the sixteen-address
limit. Two views are enough for a read to differ from the one before it and the one
after it. `web_client` has two clicks, two jobs, two transactions and two five-minute
buckets: two submissions can overlap at the server while the browser knows of one, share
a row or get one each, and a refresh can answer with the same or another job; two
readiness attempts instead of eight show a first, a last and an exhausted one.

Fairness. `Fairness` assumes that time passes, that a due heartbeat runs and its beat
ends (the event loop, `asyncio.timeout`), that a task goes on (its calls are cut by
timeouts), that a shutdown finishes, and, strongly, that a statement which a heartbeat
keeps retrying is answered now and then; errors may come any number of times in
between. `Polling` adds clients that poll every process that is up. No submission,
crash or restart is assumed to happen, nor that submissions ever stop: without its last
disjunct `EveryJobEnds` has a counterexample, a row whose request broke off and which
every later submission keeps alive. `Admission` assumes only that a request's awaits
return or raise. `RpcClient` assumes that the event loop runs what is ready, sleeps
end, posts are answered or fail (the HTTP client has a timeout), and, strongly, that a
waiting call gets a permit now and then (`asyncio.Semaphore` is first come first
served). `WebClient` assumes that a form step, a poll or a handler that was reached
goes on (each has a timeout, 8 seconds for readiness, 35 for a request), that a task that
runs ends (240 seconds) and that a lease of a dead process expires. It does not assume
that an orphaned row expires, since its process renews it while other sessions keep it
busy; `WatchEnds` therefore allows a page that polls such a row, until that process dies. Nothing is assumed of the
user, no request need ever succeed, and a process may die at any time; `PollFails` may
end polling, which is why `WatchEnds` allows an alert. `CHECK_DEADLOCK FALSE` is set there
because a user may stop for good with nothing under way. The other modules need no
fairness: their loops are bounded by invariants.

## Findings

- `no_healing`. After an outage longer than the lease, the first beat that reaches the
  database finds an expired row of its own, `renew_leases` raises, and the beat ends
  before `recover_interrupted`, the call that would fail that row. `lease_healthy`
  stays false and every POST gets 503 until some client polls, another process
  recovers the row, or the process restarts. The comments say it heals by itself.
- `late_cancel`. A hung beat takes 15 + 10 seconds, so the third miss can come 75
  seconds after the last renewal, after the 60 second lease. The docs say it comes
  before. `LifecycleSpec` and `InterruptsOnlyAbandoned` show that the late task does
  no harm to the tables: its next update does not apply.
- `false_upgrade`. `spender_profile` compares the implementation in the inspector's
  record with the EIP-1967 slot at the checked block. For a delegated account the record
  holds its delegate, for a beacon proxy the implementation behind the beacon, and after
  a failed slot lookup nothing, while the label is still "historical": in each case an
  unchanged spender is reported as upgraded. `NoFalseReassurance` and `ChangeIsReal`
  show that the verdicts "unchanged" and "code changed" hold where slots were read.
- `stopped_poll`. The first poll that fails ends polling, and the page says that the
  analysis could not complete, while the job goes on and may complete; the page stays
  as it is until the user opens the address again.

Seen while modelling, without a run:

- After a failed model planner the baseline continues with the rounds of the model's
  budget, two at most, and may leave a proxy's upgrade control unchecked (`Thorough` is
  therefore stated for investigations the baseline planned from the start; the
  repository's README allows an incomplete one).
- The reason "failed validation twice" is also shown when the first attempt was
  malformed and only the second was refused. With a key and no model configured, the
  reason is the daily model budget, which nobody asked (`analysis_service.py:248` looks
  at the key alone).
- A row whose request broke off after the insertion (a database error while the budget is
  reserved: the client gets 500) is renewed for the sake of other jobs, as
  `sql_repository.py:118` names no task, and answers retries of its hash until the
  five-minute bucket in its key ends or the process has been idle for a lease. The comment
  at `analysis_service.py:77`, that an old queued job cannot block retries, holds for rows
  that expire. `EveryJobEnds` names the case (`KeptAlive`) and shows that there is no other.
- The queue bound is tested before several awaits and not again when the task is added,
  so concurrent submissions exceed it; it is not one of the atomic SQL budgets that
  `docs/architecture.md:45` lists it among.
- A drift of "unchanged" after a failed slot lookup compares only the bytecode of a
  proxy; `NoFalseReassurance` is stated for slots that were read.
- The signal of a beacon proxy whose beacon could not be resolved cites no evidence
  (`SignalsAreCited` names the exception).
- `docs/deployment.md:24` says that each submission rechecks readiness; the refresh of a
  report (`ExposurePanel.tsx:149`) does not, has no abort signal, and may open a progress
  page after the user went elsewhere.
- A 500 after the row was inserted is shown as a definite error although the row blocks
  its hash until its lease expires (`DefiniteMessagesAreTrue`: no process works for it).
- "Your transaction has not been submitted" is true of the click it belongs to; an
  earlier, interrupted click may have submitted the same hash.
- The weights add up to 92, so the cap of 100 is never reached by today's rules.

## Proofs

Checked by TLAPS for every value of the constants: `JobStoreProofs`,
`AnalysisServiceProofs` (any sets of jobs, keys and workers, any lease and timing),
`AdmissionProofs` (any finite set of requests, any limits, days and replaced blocks),
`ExposureProofs` (any chains, ledgers, approvals, read limit), `RpcClientProofs` (any
finite set of calls, any permits and attempts), `InterpretationProofs` (any permissions,
plans, profiles and drafts, any budget that `BaselineBudgetAssumption` allows),
`ContractInspectionProofs` (any provider, accounts and logs) and
`WebClientProofs` (any jobs, hashes, clicks and attempts). Assumptions:
`LeaseAssumption`, `NoKeyAssumption`, `NoWorkerAssumption`, `ServiceAssumption`,
`AdmissionAssumption`, `ExposureAssumption`, `RpcAssumption`, `CatalogAssumption`,
`InvestigationAssumption`, `BaselineBudgetAssumption`, `InterpretationAssumption`,
`FetchAssumption`, `InspectionAssumption` and `ClientAssumption`, each evaluated by TLC
in the runs. All are types of the constants except two: `InspectionAssumption` (a block's
hash determines the state after it) and `BaselineBudgetAssumption`, `MaxCalls <=
(BaselineRounds - 1) * PerRound`: the rules have a round more than it takes to make all
the calls, which the code's 8 calls, 3 rounds and 4 calls per round satisfy exactly.
With two rounds the rules could leave a call unmade; the assumption says which change of
those three numbers would be a mistake.

- The store: types, `KeyDiscipline` (inductive together with the types),
  `FailedIsFinal` (a step property that needs `KeyDiscipline` for the cleared key) and
  the refinement of `JobLifecycle`. The refinement needs `KeyDiscipline` too: an
  absent row must hold no key, or an insertion would take a job away from another key.
- The service: `CompleteHasReport` is not inductive, since `Publish` completes a row
  without looking at the reports. `IInv` adds that a coroutine in progress knows its
  worker (`HomeKnown`), that a row whose first stage was written is past `queued`
  (`StagedRow`) and that a task about to publish has run all stages and saved
  (`SavedFirst`). `StepUsesStore` maps every step to a store step, using
  `StagedRow` and `SavedFirst` to show that only running rows are completed;
  `ServiceUsesStore` follows, and through it every theorem of the store holds of the
  service (`ServiceRefinesLifecycle`). `ServiceInterruptsOnlyAbandoned` goes through
  the operations that can fail a row with a valid lease.

- Exposure: every property of the run. `IInv` says that the
  block is chosen before anything is read and stays in the evidence (`Pinned`), that a
  known allowance is the one of that block (`ReadInBlock`), that observations exist
  only with their block and evidence (`Observed`), and which reads were answered
  (`Answered`). `VerdictsHold` is then a case split on the two steps that end the
  analysis. `SenderFirst` does not depend on steps: `EarlierIsRead` shows that a key
  ahead in the order has fewer predecessors, by the cardinality of finite sets.
  `LastEventSpeaks` needs the reads as `VerdictsHold` does: `CompareMeans` turns the
  reading into the allowance of the pinned block (`ReadInBlock`), which the second
  look-up shows to be still on the chain.
- RPC client: `PermitsKept` (free permits plus holders are all permits) makes the type
  bound of `free` inductive; `Rounds` (a sleep begins only while another attempt is
  left) gives `NeverExhausted`; `IdsDiffer` and `Matched` give `OwnAnswers`.
- Catalog, validator and rules: lemmas about the operators. The sorted sequences are
  `InOrder(S, R)`, the enumeration of a finite set along a strict total order, with
  `LeastOf` and `InOrderFacts` to say that it exists, lists each element once and is
  ascending; a stable sort is `InOrder` with the position as the last component. (The
  community modules' sorts and `SelectSeq` are recursive or choose a permutation, and
  tlapm has no rules for them.) `SendersLiveFirst` gives `SendersLiveKept`;
  `ValidatedIsWellFounded` says what a draft that is not rejected guarantees, and
  `BaselineIsAccepted` that the briefing of the rules is a draft that the validator
  lets through for every catalog and all facts, one lemma per part of it.
- Investigation: `WithinBudget` needs `Fresh` (the accepted calls differ from each
  other and from those that ran), or the set `ran` would grow slower than `callsLeft`
  falls. `ModelCallsBounded` needs `ModelRoundsLeft`: while the model plans, requests
  made and rounds left add up to its budget, and one failure ends its turn. `TInv` adds
  the types, that only revocable permissions of the catalog are accepted, and that the
  catalog has a claim for each permission and for the status. `Thorough` (when the rules
  planned from the start, no call is pending or no call is left) needs `ThInv`: every
  call of a round of the rules passes the screen (`RoundFits`), and the rounds left
  suffice (`RoundsSuffice`) because a full round uses `PerRound` calls, a round that is
  not full asked for everything pending, and after it only the upgrade controls of
  the proxies just found can be pending, no more than the profiles of that round, which
  fit the next. `PlanThInv`, `ScreenThInv`, `RecordThInv` and `EndThInv` are its steps.
- Interpretation: `InterpretationInvestigates` maps each step to a step of the
  investigation or a stutter, so `IInv`, `TInv` and the four properties above hold here
  (`BriefedInvestigation`). `BInv` says who may write (`WhoWrites`), that what is written
  is well founded (`WhatIsWritten`) and when there is a reason (`Why`). `Grounded` follows
  with `ValidatedIsWellFounded` for the model and `BaselineIsAccepted` for the rules;
  the latter also gives `BaselineIsValid`: the last resort is never refused.

- Admission: `IInv` adds what is known of each request (`RowOf`: the row it is about to
  charge or refuse is its own and queued or failed) and of its task (`TaskOf`: a task
  that is still charged names the day). `Moved` says that a step for one request is a
  store step and may only fail other rows; one lemma per action proves it. The budget is
  a count: `ChargeIsCounted` and `RefundIsCounted` follow the cardinality of the payers of
  a day. `AdmissionUsesStore` falls out of the same lemma, so the store's theorems hold
  here too.
- Contract inspection: `IInv` relates the record to the view of the read that filled it
  (`SameHash`, `Labelled`), the step reached to what was covered (`CodeCovered`,
  `SlotsCovered`, `ExplorerCovered`, `EventsCovered`) and the verdict to its reads
  (`Verdict`). `InspectionAssumption` says that a block's hash determines the state
  after it, which is what lets the fetcher's comparison of hashes prove anything about a
  later read by number. `SignalSource` splits the signals by rule for `SignalsAreCited`.
  `ScoreCountsRulesOnce` is about a fold: `Total` writes the sum over the rules out,
  `OnlyTotalAdds` shows by well-founded induction on subsets that it is the only function
  that obeys the recursion of the fold, and `TotalBound` that it stays below the cap.
- Web client: the messages need the history of the POST they are about: a click is
  "none" on the wire until its form was ready, and a refused row has no task.
  `UserStaysPut` needs that every poll under way belongs to the open page, which the
  clean-up of the effect provides. `FormOpensTheLast` needs that at most one submission
  is under way and that a job's transaction is that of the POST it answers.

Only model-checked: the liveness properties (`EveryJobEnds`, `Heals`,
`EveryRequestEnds`, `EveryCallEnds`, `SubmissionEnds`, `WatchEnds`), which need fairness
and ENABLED and are out of TLAPS's reach. Every safety property of a passing run is
proved. Induction over data is done without the induction theorems, which take an
operator: a set of counterexamples has a minimal element (`WFMin`), and that element is
refuted. The kinds of claims are a finite set rather than all strings (`ClaimKind`: the
provers know no literal to be a STRING).

Proved, and not listed in a run: the types of the store, the service, the exposure
analysis, the investigation, the inspection and the client (whose orphaned requests,
retries and refreshes are bounded), `FailedIsFinal`, `NeverExhausted` and `RefundIsDue`.

## Not modelled

- Token metadata and traces: one optional read each, used by no rule and no verdict.
- The decoding of calldata, movements and words: pure parsing of one input; the layouts
  that decide whether a log is an approval are in `Decoding`.
- The edge proxy and request protection: filters on a single request without state of
  their own.
- A provider that answers for another transaction than the one asked for
  (`transaction_fetcher.py:29-30` compares the hashes): the views of `TransactionFetcher`
  are all of one transaction. A null in place of a storage word is modelled (`NullWord`):
  its TypeError passes the handler in `contract_inspector.py:162` and fails the analysis.
- What other clients were answered with a row before the budget refused it, and the 503
  of a revalidation that another request overtook: both are in `Admission`, and no
  property speaks of them, as the repository promises nothing there.
- Health endpoints: they read `lease_healthy` and ping the database.
- Data models, configuration, report pages, evaluation harness, scripts, migrations:
  types, constants, rendering and offline tools.

## Plan

Done: all modules above with their theorems. What could follow: the margin of the
heartbeat (a healthy process renews before `Lease - (Beat + BeatTimeout)`); a composition
of `WebClient` with `AnalysisService` in place of the lifecycle it implements.

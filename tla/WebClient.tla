----------------------------- MODULE WebClient -----------------------------
(***************************************************************************)
(* The browser: the readiness watcher of the layout (useHealth), the form  *)
(* that rechecks readiness, submits once and follows the job, the page     *)
(* that polls it, and the refresh button of a report; composed with the    *)
(* lifecycle the job store promises (JobLifecycle).  Requests are slow,    *)
(* answers get lost, a POST may be handled after its client gave up, the   *)
(* process that runs a job may die, and the user may leave any page.       *)
(***************************************************************************)
EXTENDS Naturals, FiniteSets

CONSTANTS Jobs,       \* job ids the server may draw
          NoJob,
          Hashes,     \* transactions (chain and hash) the user asks about
          NoHash,
          Attempts,   \* readiness requests of one watcher (8 in readiness.ts)
          MaxClicks,  \* bound: submissions and refreshes of one session
          MaxBucket   \* bound: five-minute buckets of the cache key

ASSUME ClientAssumption ==
    /\ NoJob \notin Jobs /\ NoHash \notin Hashes
    /\ Attempts \in Nat \ {0} /\ MaxClicks \in Nat /\ MaxBucket \in Nat

VARIABLES
    status, held,  \* the job store as a client sees it (JobLifecycle)
    tx,            \* tx[j]: the transaction of job j
    abandoned,     \* jobs no process works for any more
    orphaned,      \* abandoned jobs whose process is still up
    expired,       \* abandoned jobs whose lease has run out
    bucket,        \* the current five-minute bucket
    wire,          \* wire[c]: how far the POST of click c has come
    clicks,        \* clicks made
    page,          \* the open page, its job, and the alert it shows
    health,        \* useHealth: its state and the attempt under way (0: none)
    pending,       \* submissions of the open form (submission.current)
    refreshing,    \* refreshes whose answer is awaited
    polls,         \* polls in flight: their job and the status answered
    notice         \* what the form said of which click

server == <<status, held, tx, abandoned, orphaned, expired>>
client == <<clicks, page, health, pending, refreshing, polls, notice>>
vars == <<server, bucket, wire, client>>

Clicks == 1..MaxClicks
Keys == Hashes \X (0..MaxBucket)
Server == INSTANCE JobLifecycle

Live(j) == status[j] \in {"queued", "running"}

Init ==
    /\ Server!Init
    /\ tx = [j \in Jobs |-> NoHash]
    /\ abandoned = {} /\ orphaned = {} /\ expired = {} /\ bucket = 0
    /\ wire = [c \in Clicks |-> [state |-> "none", hash |-> NoHash, job |-> NoJob]]
    /\ clicks = 0
    /\ page = [at |-> "home", job |-> NoJob, alert |-> "none"]
    /\ health = [state |-> "checking", n |-> 1]
    /\ pending = {} /\ refreshing = {} /\ polls = {}
    /\ notice = [kind |-> "none", click |-> 0]

---------------------------------------------------------------------------
(* The server: POST /analyses in its three transactions, and the task.     *)

Moved(c, s, j) ==
    [wire EXCEPT ![c] = [state |-> s, hash |-> wire[c].hash, job |-> j]]

RecoverInterrupted ==
    /\ Server!Fail(expired)
    /\ expired' = {}
    /\ UNCHANGED <<tx, abandoned, orphaned>>

PostRecovered(c) ==
    /\ wire[c].state = "sent"
    /\ RecoverInterrupted
    /\ wire' = Moved(c, "recovered", NoJob)
    /\ UNCHANGED <<bucket, client>>

(* Refused or failed before anything is stored (422, 429, 500: "refused"), *)
(* or lost on the way or answered 503 ("gone").                            *)
PostTurnedDown(c) ==
    /\ wire[c].state \in {"sent", "recovered"}
    /\ \E s \in {"refused", "gone"} : wire' = Moved(c, s, NoJob)
    /\ UNCHANGED <<server, bucket, client>>

PostAccepted(c) ==
    /\ wire[c].state = "recovered"
    /\ \E j \in Jobs :
           /\ Server!Accept(j, <<wire[c].hash, bucket>>)
           /\ tx' = [tx EXCEPT ![j] = wire[c].hash]
           /\ wire' = Moved(c, "accepted", j)
    /\ UNCHANGED <<abandoned, orphaned, expired, bucket, client>>

(* The row that holds the key is answered, unless it is complete and its   *)
(* block has changed: then it is failed and the submission starts again.   *)
PostReused(c) ==
    /\ wire[c].state = "recovered"
    /\ \E j \in held[<<wire[c].hash, bucket>>] :
           \/ /\ wire' = Moved(c, "job", j)
              /\ UNCHANGED server
           \/ /\ status[j] = "complete"
              /\ Server!Fail({j})
              /\ wire' = Moved(c, "sent", NoJob)
              /\ UNCHANGED <<tx, abandoned, orphaned, expired>>
    /\ UNCHANGED <<bucket, client>>

(* A row loses the coroutine that worked for it, and its process lives on. *)
Orphan(j) ==
    /\ abandoned' = abandoned \cup {j}
    /\ orphaned' = orphaned \cup {j}
    /\ UNCHANGED <<status, held, tx, expired>>

(* The daily budget: granted, spent (429), or the store fails in between   *)
(* (500) and the row stays behind without a task, in a process that is up. *)
PostBudgeted(c) ==
    /\ wire[c].state = "accepted" /\ wire[c].job \notin abandoned
    /\ \/ wire' = Moved(c, "job", wire[c].job) /\ UNCHANGED server
       \/ /\ Server!Fail({wire[c].job})
          /\ wire' = Moved(c, "refused", wire[c].job)
          /\ UNCHANGED <<tx, abandoned, orphaned, expired>>
       \/ /\ Orphan(wire[c].job)
          /\ wire' = Moved(c, "broken", wire[c].job)
    /\ UNCHANGED <<bucket, client>>

Working(j) ==
    /\ Live(j) /\ j \notin abandoned
    /\ \A c \in Clicks : wire[c].state = "accepted" => wire[c].job # j

Run(j) ==
    /\ Working(j)
    /\ Server!Start(j) \/ Server!Complete(j) \/ Server!Fail({j})
    /\ UNCHANGED <<tx, abandoned, orphaned, expired, bucket, wire, client>>

(* A task ends without writing its row: the database fails in an except    *)
(* clause of run(), or the third missed heartbeat cancels it.              *)
TaskLost(j) ==
    /\ Working(j)
    /\ Orphan(j)
    /\ UNCHANGED <<bucket, wire, client>>

(* The process of job j dies, with its task or after it.                   *)
Crash(j) ==
    /\ Live(j) /\ j \notin abandoned \ orphaned
    /\ abandoned' = abandoned \cup {j}
    /\ orphaned' = orphaned \ {j}
    /\ UNCHANGED <<status, held, tx, expired, bucket, wire, client>>

(* Possible for every row without a task; nothing renews it once its       *)
(* process is dead.                                                        *)
LeaseExpires(j) ==
    /\ Live(j) /\ j \in abandoned \ expired
    /\ expired' = expired \cup {j}
    /\ UNCHANGED <<status, held, tx, abandoned, orphaned, bucket, wire, client>>

NextBucket ==
    /\ bucket < MaxBucket
    /\ bucket' = bucket + 1
    /\ UNCHANGED <<server, wire, client>>

---------------------------------------------------------------------------
(* Pages.  Layout gives every path its own subtree: opening another page   *)
(* unmounts the form, which aborts its submission, and the progress page,  *)
(* which aborts its poll; a refresh has no signal and goes on.             *)

(* Faulty: only the timer is cleared and the request is not aborted.       *)
CleanUpTimerOnly(ps) == ps

CleanUp(ps) == {}

PollOf(at, j, connected) ==
    IF at = "progress" /\ connected THEN {[job |-> j, seen |-> "sent"]} ELSE {}

(* To address <<at, j>> while the polls ps are awaited.                    *)
Open(at, j, ps) ==
    \/ /\ page.at = at /\ page.job = j
       /\ polls' = ps
       /\ UNCHANGED <<page, pending>>
    \/ /\ page.at # at \/ page.job # j
       /\ page' = [at |-> at, job |-> j, alert |-> "none"]
       /\ pending' = {}
       /\ polls' = CleanUp(ps) \cup PollOf(at, j, health.state = "connected")

Unmounted(rs) == {[r EXCEPT !.open = FALSE] : r \in rs}

GoHome ==
    /\ page.at # "home"
    /\ Open("home", page.job, polls)
    /\ refreshing' = Unmounted(refreshing)
    /\ UNCHANGED <<server, bucket, wire, clicks, health, notice>>

(* The address of the job seen last, kept by the browser.                  *)
Revisit ==
    /\ page.at = "home" /\ page.job # NoJob
    /\ \/ Open("progress", page.job, polls)
       \/ status[page.job] = "complete" /\ Open("report", page.job, polls)
    /\ refreshing' = Unmounted(refreshing)
    /\ UNCHANGED <<server, bucket, wire, clicks, health, notice>>

---------------------------------------------------------------------------
(* useHealth and watchReadiness.                                           *)

HealthAnswered ==
    /\ health.n > 0
    /\ health' = [state |-> "connected", n |-> 0]
    /\ polls' = polls \cup PollOf(page.at, page.job, health.state # "connected")
    /\ UNCHANGED <<server, bucket, wire, clicks, page, pending, refreshing, notice>>

HealthFailed ==
    /\ health.n > 0
    /\ health' = IF health.n = Attempts THEN [state |-> "unavailable", n |-> 0]
                 ELSE [state |-> "waking", n |-> health.n + 1]
    /\ UNCHANGED <<server, bucket, wire, clicks, page, pending, refreshing, polls, notice>>

Retry == [state |-> "checking", n |-> 1]

RetryClicked ==
    /\ health.state = "unavailable"
    /\ health' = Retry
    /\ UNCHANGED <<server, bucket, wire, clicks, page, pending, refreshing, polls, notice>>

---------------------------------------------------------------------------
(* TransactionForm.                                                        *)

Say(kind, c) == notice' = [kind |-> kind, click |-> c]

(* Faulty: without the test of submission.current.                         *)
SubmitTwice(h) ==
    /\ page.at = "home" /\ health.state = "connected"
    /\ clicks < MaxClicks
    /\ clicks' = clicks + 1
    /\ pending' = pending \cup {[click |-> clicks', phase |-> "checking", n |-> 1]}
    /\ wire' = [wire EXCEPT ![clicks'] =
           [state |-> "none", hash |-> h, job |-> NoJob]]
    /\ Say("none", 0)
    /\ UNCHANGED <<server, bucket, page, health, refreshing, polls>>

Submit(h) ==
    /\ page.at = "home" /\ health.state = "connected" /\ pending = {}
    /\ clicks < MaxClicks
    /\ clicks' = clicks + 1
    /\ pending' = pending \cup {[click |-> clicks', phase |-> "checking", n |-> 1]}
    /\ wire' = [wire EXCEPT ![clicks'] =
           [state |-> "none", hash |-> h, job |-> NoJob]]
    /\ Say("none", 0)
    /\ UNCHANGED <<server, bucket, page, health, refreshing, polls>>

FormReady(p) ==
    /\ p.phase = "checking"
    /\ pending' = (pending \ {p}) \cup {[p EXCEPT !.phase = "submitting"]}
    /\ wire' = Moved(p.click, "sent", NoJob)
    /\ UNCHANGED <<server, bucket, clicks, page, health, refreshing, polls, notice>>

GiveUp(p) ==
    /\ pending' = pending \ {p}
    /\ health' = [health EXCEPT !.state = "unavailable"]
    /\ Say("unsent", p.click)

(* Faulty: the last delay is used again and again.                         *)
FormNotReadyForever(p) ==
    /\ p.phase = "checking"
    /\ pending' = (pending \ {p}) \cup
           {[p EXCEPT !.n = IF @ < Attempts THEN @ + 1 ELSE 1]}
    /\ UNCHANGED <<server, bucket, wire, clicks, page, health, refreshing, polls, notice>>

FormNotReady(p) ==
    /\ p.phase = "checking"
    /\ \/ /\ p.n < Attempts
          /\ pending' = (pending \ {p}) \cup {[p EXCEPT !.n = p.n + 1]}
          /\ UNCHANGED <<health, notice>>
       \/ p.n = Attempts /\ GiveUp(p)
    /\ UNCHANGED <<server, bucket, wire, clicks, page, refreshing, polls>>

FormAnswered(p) ==
    /\ p.phase = "submitting" /\ wire[p.click].state = "job"
    /\ Open("progress", wire[p.click].job, polls)
    /\ UNCHANGED <<server, bucket, wire, clicks, health, refreshing, notice>>

FormRefused(p) ==
    /\ p.phase = "submitting" /\ wire[p.click].state \in {"refused", "broken"}
    /\ pending' = pending \ {p}
    /\ Say("refused", p.click)
    /\ UNCHANGED <<server, bucket, wire, clicks, page, health, refreshing, polls>>

(* Faulty: a timeout is reported like a refusal.                           *)
FormInterruptedAsRefused(p) ==
    /\ p.phase = "submitting"
    /\ pending' = pending \ {p}
    /\ Say("refused", p.click)
    /\ UNCHANGED <<server, bucket, wire, clicks, page, health, refreshing, polls>>

(* 35 seconds, a broken connection, an unreadable answer, 502, 503 or 504: *)
(* wherever the POST is, it is not sent again.                             *)
FormInterrupted(p) ==
    /\ p.phase = "submitting"
    /\ pending' = pending \ {p}
    /\ Say("ambiguous", p.click)
    /\ health' = Retry
    /\ UNCHANGED <<server, bucket, wire, clicks, page, refreshing, polls>>

---------------------------------------------------------------------------
(* AnalysisProgress: GET /analyses/{id} recovers before it reads.          *)

Seen(q, s) == (polls \ {q}) \cup {[q EXCEPT !.seen = s]}

(* Faulty: a poll reads the row and recovers nothing.                      *)
PollReadOnly(q) ==
    /\ q.seen = "sent"
    /\ polls' = Seen(q, status[q.job])
    /\ UNCHANGED <<server, bucket, wire, clicks, page, health, pending, refreshing, notice>>

PollRead(q) ==
    /\ q.seen = "sent"
    /\ RecoverInterrupted
    /\ polls' = Seen(q, status'[q.job])
    /\ UNCHANGED <<bucket, wire, clicks, page, health, pending, refreshing, notice>>

PollAnswered(q) ==
    /\ q.seen # "sent"
    /\ CASE q.seen = "complete" ->
                /\ Open("report", q.job, polls \ {q})
                /\ refreshing' = Unmounted(refreshing)
         [] q.seen = "failed" ->
                /\ page' = [page EXCEPT !.alert = "failed"]
                /\ polls' = polls \ {q}
                /\ UNCHANGED <<pending, refreshing>>
         [] OTHER ->
                /\ polls' = Seen(q, "sent")
                /\ UNCHANGED <<page, pending, refreshing>>
    /\ UNCHANGED <<server, bucket, wire, clicks, health, notice>>

PollFails(q) ==
    /\ page' = [page EXCEPT !.alert = "error"]
    /\ polls' = polls \ {q}
    /\ UNCHANGED <<server, bucket, wire, clicks, health, pending, refreshing, notice>>

---------------------------------------------------------------------------
(* ExposurePanel: no readiness check, no signal.                           *)

Refresh ==
    /\ page.at = "report" /\ clicks < MaxClicks
    /\ \A r \in refreshing : ~r.open
    /\ clicks' = clicks + 1
    /\ refreshing' = refreshing \cup
           {[click |-> clicks', report |-> page.job, open |-> TRUE]}
    /\ wire' = [wire EXCEPT ![clicks'] =
           [state |-> "sent", hash |-> tx[page.job], job |-> NoJob]]
    /\ UNCHANGED <<server, bucket, page, health, pending, polls, notice>>

RefreshAnswered(r) ==
    /\ wire[r.click].state = "job"
    /\ IF wire[r.click].job = r.report
       THEN /\ refreshing' = refreshing \ {r}
            /\ UNCHANGED <<page, pending, polls>>
       ELSE /\ refreshing' = Unmounted(refreshing \ {r})
            /\ Open("progress", wire[r.click].job, polls)
    /\ UNCHANGED <<server, bucket, wire, clicks, health, notice>>

RefreshFails(r) ==
    /\ refreshing' = refreshing \ {r}
    /\ UNCHANGED <<server, bucket, wire, clicks, page, health, pending, polls, notice>>

---------------------------------------------------------------------------
ServerNext ==
    \/ \E c \in Clicks : \/ PostRecovered(c) \/ PostTurnedDown(c)
                         \/ PostAccepted(c) \/ PostReused(c) \/ PostBudgeted(c)
    \/ \E j \in Jobs : Run(j) \/ TaskLost(j) \/ Crash(j) \/ LeaseExpires(j)
    \/ NextBucket

UserNext == GoHome \/ Revisit \/ RetryClicked \/ Refresh \/ \E h \in Hashes : Submit(h)

FormNext ==
    \E p \in pending : \/ FormReady(p) \/ FormNotReady(p) \/ FormAnswered(p)
                       \/ FormRefused(p) \/ FormInterrupted(p)

PageNext ==
    \/ HealthAnswered \/ HealthFailed
    \/ \E q \in polls : PollRead(q) \/ PollAnswered(q) \/ PollFails(q)
    \/ \E r \in refreshing : RefreshAnswered(r) \/ RefreshFails(r)

Next == ServerNext \/ UserNext \/ FormNext \/ PageNext

Spec == Init /\ [][Next]_vars

(* Timers and timeouts fire; a task that runs ends (run() allows it 240    *)
(* seconds); the lease of a dead process expires; a handler that was       *)
(* reached goes on.  A process that is up renews all its rows as long as   *)
(* any session has a task there, so an orphaned row need never expire.     *)
(* Nothing is assumed of the user, and no request need succeed.            *)
Fairness ==
    /\ WF_vars(FormNext)
    /\ WF_vars(\E q \in polls : PollRead(q) \/ PollAnswered(q))
    /\ \A c \in Clicks : WF_vars(PostBudgeted(c))
    /\ \A j \in Jobs : WF_vars(Run(j)) /\ WF_vars(j \notin orphaned /\ LeaseExpires(j))

FairSpec == Spec /\ Fairness

---------------------------------------------------------------------------
(* One type invariant: pages, requests and POSTs have the shape the code   *)
(* gives them, and only abandoned jobs lose their lease.                   *)
TypeOK ==
    /\ tx \in [Jobs -> Hashes \cup {NoHash}]
    /\ abandoned \subseteq Jobs
    /\ orphaned \subseteq abandoned /\ expired \subseteq abandoned
    /\ \A j \in expired : Live(j)
    /\ bucket \in 0..MaxBucket /\ clicks \in 0..MaxClicks
    /\ \A c \in Clicks : c > clicks => wire[c].state = "none"
    /\ \A c \in Clicks : wire[c].state \in {"accepted", "job", "broken"} => wire[c].job \in Jobs
    /\ page.at # "home" => page.job \in Jobs
    /\ health.n \in 0..Attempts
    /\ \A p \in pending : p.click \in 1..clicks /\ p.n \in 1..Attempts
    /\ \A r \in refreshing : r.click \in 1..clicks /\ r.report \in Jobs

(* What the form says for certain is true: after "has not been submitted"  *)
(* the server never heard of that click, and after a refusal no process    *)
(* works for it.  Only the message that the request may already have been  *)
(* accepted may leave a job running unseen (TransactionForm.tsx:91-103).   *)
DefiniteMessagesAreTrue ==
    /\ notice.kind = "unsent" => wire[notice.click].state = "none"
    /\ notice.kind = "refused" =>
           \A j \in Jobs : wire[notice.click].job = j => ~Working(j)

(* A poll of a page that was left never moves the user to a report: only   *)
(* the open progress page does, and only to the report of its own job.     *)
NeverDraggedAway ==
    [][\A q \in polls :
        q \notin polls' /\ page'.at = "report" /\ page.at # "report" =>
            page.at = "progress" /\ page.job = q.job]_vars

(* When the form opens a progress page, it is the one of the transaction   *)
(* the user asked for last, however late the answers come.                 *)
LastSubmissionOpens ==
    [][\A p \in pending :
        page.at = "home" /\ page' = [at |-> "progress", job |-> wire[p.click].job, alert |-> "none"]
        /\ p.phase = "submitting" => tx[wire[p.click].job] = wire[clicks].hash]_vars

(* A submission ends: readiness gives up after its attempts, the POST      *)
(* after its timeout, and the form can be used again.                      *)
SubmissionEnds == pending # {} ~> pending = {}

(* A page that polls comes to an end, also when the process of its job     *)
(* died and no other worker has work: the poll itself recovers the row.    *)
(* Only a row that lost its task in a process that is still up may be      *)
(* polled for as long as that process is busy and renews it; when it dies, *)
(* the page must end again.                                                *)
WatchEnds ==
    page.at = "progress" /\ health.state = "connected" ~>
        page.at # "progress" \/ page.alert # "none" \/ page.job \in orphaned

(* "Analysis could not complete" (AnalysisProgress.tsx:81).                *)
AlertIsTrue ==
    page.at = "progress" /\ page.alert # "none" => status[page.job] # "complete"
===========================================================================

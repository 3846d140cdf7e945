-------------------------- MODULE WebClientProofs --------------------------
(***************************************************************************)
(* What WebClient promises the user, for every number of jobs, hashes,     *)
(* clicks, attempts and buckets.                                           *)
(***************************************************************************)
EXTENDS WebClient, TLAPS

WireStates == {"none", "sent", "recovered", "accepted", "job", "refused", "broken", "gone"}
Wires == [state : WireStates, hash : Hashes \cup {NoHash}, job : Jobs \cup {NoJob}]
Phases == {"checking", "submitting"}
Refreshes == [click : Clicks, report : Jobs, open : BOOLEAN]

(* The shape of the store, of the POSTs and of the form's submission.      *)
StoreShape ==
    /\ status \in [Jobs -> Server!Statuses]
    /\ held \in [Keys -> SUBSET Jobs]
    /\ tx \in [Jobs -> Hashes \cup {NoHash}]
    /\ bucket \in 0..MaxBucket

WireShape == wire \in [Clicks -> Wires]

FormShape ==
    /\ clicks \in 0..MaxClicks
    /\ pending \subseteq [click : Clicks, phase : Phases, n : Nat]
    /\ refreshing \subseteq Refreshes

(* The shape of the page, whose job the server has accepted.               *)
PageShape ==
    /\ page \in [at : {"home", "progress", "report"}, job : Jobs \cup {NoJob},
                 alert : {"none", "failed", "error"}]
    /\ page.at # "home" => page.job \in Jobs
    /\ page.job \in Jobs => status[page.job] # "absent" /\ tx[page.job] \in Hashes
    /\ polls \subseteq [job : Jobs, seen : Server!Statuses \cup {"sent"}]

(* What the server knows of each POST: an answered job is of the hash that *)
(* was asked for, and a refused one is over.                               *)
KeysHold == \A k \in Keys : \A j \in held[k] : status[j] # "absent" /\ tx[j] = k[1]

Answers ==
    \A c \in Clicks :
        /\ c > clicks => wire[c].state = "none"
        /\ wire[c].state # "none" => wire[c].hash \in Hashes
        /\ wire[c].state \in {"accepted", "job"} => wire[c].job \in Jobs
        /\ wire[c].job \in Jobs =>
               status[wire[c].job] # "absent" /\ tx[wire[c].job] = wire[c].hash
        /\ wire[c].state = "refused" => wire[c].job = NoJob \/ status[wire[c].job] = "failed"
        /\ wire[c].state = "broken" => wire[c].job \in abandoned

(* What the pages await: on the form one submission, that of the last      *)
(* click; on the open progress page its own poll.                          *)
FormAwaits ==
    \A p \in pending :
        /\ page.at = "home" /\ notice.kind = "none"
        /\ p.click = clicks /\ wire[p.click].hash \in Hashes
        /\ p.phase = "checking" => wire[p.click].state = "none"
        /\ \A q \in pending : q = p

NoticeHolds ==
    /\ notice.kind # "none" => notice.click \in Clicks /\ notice.click <= clicks
    /\ notice.kind = "unsent" => wire[notice.click].state = "none"
    /\ notice.kind = "refused" => wire[notice.click].state \in {"refused", "broken"}

PollsAtHome == \A q \in polls : page.at = "progress" /\ page.job = q.job

IInv == StoreShape /\ WireShape /\ FormShape /\ PageShape
        /\ KeysHold /\ Answers /\ FormAwaits /\ NoticeHolds /\ PollsAtHome

---------------------------------------------------------------------------
(* A move of one POST changes that POST alone.                             *)
LEMMA MovedIs ==
    ASSUME WireShape, NEW c \in Clicks, NEW s \in WireStates, NEW j \in Jobs \cup {NoJob}
    PROVE  /\ Moved(c, s, j) \in [Clicks -> Wires]
           /\ Moved(c, s, j)[c] = [state |-> s, hash |-> wire[c].hash, job |-> j]
           /\ \A d \in Clicks \ {c} : Moved(c, s, j)[d] = wire[d]
BY DEF Moved, Wires, WireShape

LEMMA UnmountedIs ==
    ASSUME NEW rs, rs \subseteq Refreshes PROVE Unmounted(rs) \subseteq Refreshes
BY DEF Unmounted, Refreshes

LEMMA InitInv == Init => IInv
<1> SUFFICES ASSUME Init PROVE IInv
  OBVIOUS
<1> USE ClientAssumption DEF Init, Server!Init, Server!Statuses, Clicks, WireStates, Wires
<1>1. StoreShape /\ WireShape /\ FormShape /\ PageShape
  BY DEF StoreShape, WireShape, FormShape, PageShape, Refreshes
<1>2. KeysHold /\ Answers
  BY DEF KeysHold, Answers
<1>3. FormAwaits /\ NoticeHolds /\ PollsAtHome
  BY DEF FormAwaits, NoticeHolds, PollsAtHome
<1> QED BY <1>1, <1>2, <1>3 DEF IInv

LEMMA PostRecoveredInv == ASSUME IInv, NEW c \in Clicks, PostRecovered(c) PROVE IInv'
<1>0. /\ c \in Clicks /\ wire' \in [Clicks -> Wires]
      /\ wire'[c] = [state |-> "recovered", hash |-> wire[c].hash, job |-> NoJob]
      /\ \A d \in Clicks \ {c} : wire'[d] = wire[d]
  BY MovedIs DEF PostRecovered, IInv, WireStates, FormShape
<1> USE ClientAssumption DEF IInv, PostRecovered, server, client, RecoverInterrupted, Server!Fail, Server!Statuses
<1>1. (FormShape /\ PollsAtHome)'
  BY DEF FormShape, PollsAtHome
<1>2. StoreShape'
  BY <1>0 DEF StoreShape, PageShape
<1>3. WireShape'
  BY <1>0 DEF WireShape, Wires, WireStates
<1>4. PageShape'
  BY <1>0 DEF PageShape, StoreShape, WireShape, FormShape, PollsAtHome, Answers, Wires
<1>5. KeysHold'
  BY <1>0 DEF KeysHold, StoreShape, WireShape, Wires
<1>6. Answers'
  BY <1>0
     DEF Answers, StoreShape, WireShape, PageShape, FormShape, KeysHold, Clicks, Wires, WireStates
<1>7. FormAwaits'
  BY <1>0 DEF FormAwaits, FormShape, PageShape
<1>8. NoticeHolds'
  BY <1>0 DEF NoticeHolds, FormShape, Clicks
<1> QED BY <1>1, <1>2, <1>3, <1>4, <1>5, <1>6, <1>7, <1>8 DEF IInv

LEMMA PostTurnedDownInv == ASSUME IInv, NEW c \in Clicks, PostTurnedDown(c) PROVE IInv'
<1> PICK s \in {"refused", "gone"} : wire' = Moved(c, s, NoJob)
  BY DEF PostTurnedDown
<1>0. /\ c \in Clicks /\ wire' \in [Clicks -> Wires]
      /\ wire'[c] = [state |-> s, hash |-> wire[c].hash, job |-> NoJob]
      /\ \A d \in Clicks \ {c} : wire'[d] = wire[d]
  BY MovedIs DEF IInv, WireStates
<1> USE ClientAssumption DEF IInv, PostTurnedDown, server, client
<1>1. (StoreShape /\ FormShape /\ PageShape /\ KeysHold /\ PollsAtHome)'
  BY DEF StoreShape, FormShape, PageShape, KeysHold, PollsAtHome
<1>2. WireShape'
  BY <1>0 DEF WireShape, Wires, WireStates
<1>3. Answers'
  BY <1>0
     DEF Answers, StoreShape, WireShape, PageShape, FormShape, KeysHold, Clicks, Wires, WireStates
<1>4. FormAwaits'
  BY <1>0 DEF FormAwaits, FormShape, PageShape
<1>5. NoticeHolds'
  BY <1>0 DEF NoticeHolds, FormShape, Clicks
<1> QED BY <1>1, <1>2, <1>3, <1>4, <1>5 DEF IInv

LEMMA PostAcceptedInv == ASSUME IInv, NEW c \in Clicks, PostAccepted(c) PROVE IInv'
<1>a. PICK j \in Jobs : /\ Server!Accept(j, <<wire[c].hash, bucket>>)
                            /\ tx' = [tx EXCEPT ![j] = wire[c].hash]
                            /\ wire' = Moved(c, "accepted", j)
  BY DEF PostAccepted
<1>0. /\ c \in Clicks /\ wire' \in [Clicks -> Wires]
      /\ wire'[c] = [state |-> "accepted", hash |-> wire[c].hash, job |-> j]
      /\ \A d \in Clicks \ {c} : wire'[d] = wire[d]
  BY <1>a, MovedIs DEF IInv, WireStates
<1> USE ClientAssumption DEF IInv, PostAccepted, server, client, Server!Accept, Server!Statuses
<1>1. (FormShape /\ PollsAtHome)'
  BY DEF FormShape, PollsAtHome
<1>2. StoreShape'
  BY <1>0, <1>a DEF StoreShape, WireShape, Wires
<1>3. WireShape'
  BY <1>0, <1>a DEF WireShape, Wires, WireStates
<1>4. PageShape'
  BY <1>0, <1>a DEF PageShape, StoreShape, WireShape, FormShape, PollsAtHome, Answers, Wires
<1>5. KeysHold'
  BY <1>0, <1>a DEF KeysHold, StoreShape, WireShape, Wires
<1>6. Answers'
  BY <1>0, <1>a
     DEF Answers, StoreShape, WireShape, PageShape, FormShape, KeysHold, Clicks, Wires, WireStates
<1>7. FormAwaits'
  BY <1>0, <1>a DEF FormAwaits, FormShape, PageShape
<1>8. NoticeHolds'
  BY <1>0, <1>a DEF NoticeHolds, FormShape, Clicks
<1> QED BY <1>1, <1>2, <1>3, <1>4, <1>5, <1>6, <1>7, <1>8 DEF IInv

LEMMA PostReusedInv == ASSUME IInv, NEW c \in Clicks, PostReused(c) PROVE IInv'
<1>k. <<wire[c].hash, bucket>> \in Keys
  BY DEF PostReused, IInv, Answers, StoreShape, Keys, WireShape, Wires
<1>a. PICK j \in held[<<wire[c].hash, bucket>>] :
         \/ wire' = Moved(c, "job", j) /\ UNCHANGED server
         \/ /\ status[j] = "complete" /\ Server!Fail({j})
            /\ wire' = Moved(c, "sent", NoJob) /\ UNCHANGED <<tx, abandoned, orphaned, expired>>
  BY DEF PostReused
<1>j. j \in Jobs /\ status[j] # "absent" /\ tx[j] = wire[c].hash
  BY <1>k DEF IInv, StoreShape, KeysHold
<1>0. /\ c \in Clicks /\ wire' \in [Clicks -> Wires]
      /\ \A d \in Clicks \ {c} : wire'[d] = wire[d]
      /\ \/ wire'[c] = [state |-> "job", hash |-> wire[c].hash, job |-> j] /\ UNCHANGED server
         \/ /\ wire'[c] = [state |-> "sent", hash |-> wire[c].hash, job |-> NoJob]
            /\ Server!Fail({j}) /\ UNCHANGED <<tx, abandoned, orphaned, expired>>
  BY <1>a, <1>j, MovedIs DEF IInv, WireStates
<1> USE ClientAssumption DEF IInv, PostReused, server, client, Server!Fail, Server!Statuses
<1>1. (FormShape /\ PollsAtHome)'
  BY DEF FormShape, PollsAtHome
<1>2. StoreShape'
  BY <1>0, <1>j DEF StoreShape, PageShape
<1>3. WireShape'
  BY <1>0, <1>j DEF WireShape, Wires, WireStates
<1>4. PageShape'
  BY <1>0, <1>j DEF PageShape, StoreShape, WireShape, FormShape, PollsAtHome, Answers, Wires
<1>5. KeysHold'
  BY <1>0, <1>j DEF KeysHold, StoreShape, WireShape, Wires
<1>6. Answers'
  BY <1>0, <1>j DEF Answers, StoreShape, WireShape, Wires
<1>7. FormAwaits'
  BY <1>0, <1>j DEF FormAwaits, FormShape, PageShape
<1>8. NoticeHolds'
  BY <1>0, <1>j DEF NoticeHolds, FormShape, Clicks
<1> QED BY <1>1, <1>2, <1>3, <1>4, <1>5, <1>6, <1>7, <1>8 DEF IInv

LEMMA PostBudgetedInv == ASSUME IInv, NEW c \in Clicks, PostBudgeted(c) PROVE IInv'
<1>j. wire[c].job \in Jobs
  BY DEF PostBudgeted, IInv, Answers
<1>m. \A s \in {"job", "refused", "broken"} :
         /\ Moved(c, s, wire[c].job) \in [Clicks -> Wires]
         /\ Moved(c, s, wire[c].job)[c] = [state |-> s, hash |-> wire[c].hash, job |-> wire[c].job]
         /\ \A d \in Clicks \ {c} : Moved(c, s, wire[c].job)[d] = wire[d]
  BY <1>j, MovedIs DEF IInv, WireStates
<1>0. /\ c \in Clicks /\ wire' \in [Clicks -> Wires]
      /\ \A d \in Clicks \ {c} : wire'[d] = wire[d]
      /\ wire'[c].hash = wire[c].hash /\ wire'[c].job = wire[c].job
      /\ \/ wire'[c].state = "job" /\ UNCHANGED server
         \/ /\ wire'[c].state = "refused" /\ Server!Fail({wire[c].job})
            /\ UNCHANGED <<tx, abandoned, orphaned, expired>>
         \/ /\ wire'[c].state = "broken" /\ abandoned' = abandoned \cup {wire[c].job}
            /\ UNCHANGED <<status, held, tx, expired>>
  BY <1>m DEF PostBudgeted, Orphan
<1> USE ClientAssumption DEF IInv, PostBudgeted, Orphan, server, client, Server!Fail, Server!Statuses
<1>1. (FormShape /\ PollsAtHome)'
  BY DEF FormShape, PollsAtHome
<1>2. StoreShape'
  BY <1>0, <1>j DEF StoreShape, PageShape
<1>3. WireShape'
  BY <1>0, <1>j DEF WireShape, Wires, WireStates
<1>4. PageShape'
  BY <1>0, <1>j DEF PageShape, StoreShape, WireShape, FormShape, PollsAtHome, Answers, Wires
<1>5. KeysHold'
  BY <1>0, <1>j DEF KeysHold, StoreShape, WireShape, Wires
<1>6. Answers'
  BY <1>0, <1>j DEF Answers, StoreShape, WireShape, Wires
<1>7. FormAwaits'
  BY <1>0, <1>j DEF FormAwaits, FormShape, PageShape
<1>8. NoticeHolds'
  BY <1>0, <1>j DEF NoticeHolds, FormShape, Clicks
<1> QED BY <1>1, <1>2, <1>3, <1>4, <1>5, <1>6, <1>7, <1>8 DEF IInv

LEMMA RunInv == ASSUME IInv, NEW j \in Jobs, Run(j) PROVE IInv'
<1> USE ClientAssumption DEF IInv, Run, server, client, Server!Start, Server!Complete, Server!Fail, Server!Statuses
<1>1. (WireShape /\ FormShape /\ FormAwaits /\ NoticeHolds /\ PollsAtHome)'
  BY DEF WireShape, FormShape, FormAwaits, NoticeHolds, PollsAtHome
<1>2. StoreShape'
  BY DEF StoreShape, PageShape
<1>3. PageShape'
  BY DEF PageShape, StoreShape, WireShape, FormShape, PollsAtHome, Answers, Wires
<1>4. KeysHold'
  BY DEF KeysHold, StoreShape, WireShape, Wires
<1>5. Answers'
  BY DEF Answers, StoreShape, WireShape, PageShape, FormShape, KeysHold, Clicks, Wires, WireStates
<1> QED BY <1>1, <1>2, <1>3, <1>4, <1>5 DEF IInv

LEMMA CrashInv == ASSUME IInv, NEW j \in Jobs, Crash(j) PROVE IInv'
<1> USE ClientAssumption DEF IInv, Crash, server, client
<1>1. (/\ StoreShape /\ WireShape /\ FormShape /\ PageShape /\ KeysHold
      /\ FormAwaits /\ NoticeHolds /\ PollsAtHome)'
  BY DEF StoreShape, WireShape, FormShape, PageShape, KeysHold, FormAwaits, NoticeHolds, PollsAtHome
<1>2. Answers'
  BY DEF Answers, StoreShape, WireShape, PageShape, FormShape, KeysHold, Clicks, Wires, WireStates
<1> QED BY <1>1, <1>2 DEF IInv

LEMMA TaskLostInv == ASSUME IInv, NEW j \in Jobs, TaskLost(j) PROVE IInv'
<1> USE ClientAssumption DEF IInv, TaskLost, Orphan, server, client
<1>1. (/\ StoreShape /\ WireShape /\ FormShape /\ PageShape /\ KeysHold
      /\ FormAwaits /\ NoticeHolds /\ PollsAtHome)'
  BY DEF StoreShape, WireShape, FormShape, PageShape, KeysHold, FormAwaits, NoticeHolds, PollsAtHome
<1>2. Answers'
  BY DEF Answers, StoreShape, WireShape, PageShape, FormShape, KeysHold, Clicks, Wires, WireStates
<1> QED BY <1>1, <1>2 DEF IInv

LEMMA LeaseExpiresInv == ASSUME IInv, NEW j \in Jobs, LeaseExpires(j) PROVE IInv'
<1> USE ClientAssumption DEF IInv, LeaseExpires, server, client
<1>1. (/\ StoreShape /\ WireShape /\ FormShape /\ PageShape /\ KeysHold
      /\ Answers /\ FormAwaits /\ NoticeHolds /\ PollsAtHome)'
  BY DEF StoreShape, WireShape, FormShape, PageShape, KeysHold, Answers, FormAwaits, NoticeHolds, PollsAtHome
<1> QED BY <1>1 DEF IInv

LEMMA NextBucketInv == ASSUME IInv, NextBucket PROVE IInv'
<1> USE ClientAssumption DEF IInv, NextBucket, server, client
<1>1. (/\ WireShape /\ FormShape /\ PageShape /\ KeysHold /\ Answers
      /\ FormAwaits /\ NoticeHolds /\ PollsAtHome)'
  BY DEF WireShape, FormShape, PageShape, KeysHold, Answers, FormAwaits, NoticeHolds, PollsAtHome
<1>2. StoreShape'
  BY DEF StoreShape, PageShape
<1> QED BY <1>1, <1>2 DEF IInv

LEMMA GoHomeInv == ASSUME IInv, GoHome PROVE IInv'
<1> USE ClientAssumption DEF IInv, GoHome, server, client, Open, PollOf, CleanUp
<1>1. (StoreShape /\ WireShape /\ KeysHold /\ Answers /\ NoticeHolds)'
  BY DEF StoreShape, WireShape, KeysHold, Answers, NoticeHolds
<1>2. FormShape'
  BY UnmountedIs DEF FormShape
<1>3. PageShape'
  BY DEF PageShape, StoreShape, WireShape, FormShape, PollsAtHome, Answers, Wires, Server!Statuses
<1>4. FormAwaits'
  BY DEF FormAwaits, FormShape, PageShape
<1>5. PollsAtHome'
  BY DEF PollsAtHome, PageShape
<1> QED BY <1>1, <1>2, <1>3, <1>4, <1>5 DEF IInv

LEMMA RevisitInv == ASSUME IInv, Revisit PROVE IInv'
<1> USE ClientAssumption DEF IInv, Revisit, server, client, Open, PollOf, CleanUp
<1>1. (StoreShape /\ WireShape /\ KeysHold /\ Answers /\ NoticeHolds)'
  BY DEF StoreShape, WireShape, KeysHold, Answers, NoticeHolds
<1>2. FormShape'
  BY UnmountedIs DEF FormShape
<1>3. PageShape'
  BY DEF PageShape, StoreShape, WireShape, FormShape, PollsAtHome, Answers, Wires, Server!Statuses
<1>4. FormAwaits'
  BY DEF FormAwaits, FormShape, PageShape
<1>5. PollsAtHome'
  BY DEF PollsAtHome, PageShape
<1> QED BY <1>1, <1>2, <1>3, <1>4, <1>5 DEF IInv

LEMMA RetryClickedInv == ASSUME IInv, RetryClicked PROVE IInv'
<1> USE ClientAssumption DEF IInv, RetryClicked, server, client
<1>1. (/\ StoreShape /\ WireShape /\ FormShape /\ PageShape /\ KeysHold
      /\ Answers /\ FormAwaits /\ NoticeHolds /\ PollsAtHome)'
  BY DEF StoreShape, WireShape, FormShape, PageShape, KeysHold, Answers, FormAwaits, NoticeHolds, PollsAtHome
<1> QED BY <1>1 DEF IInv

LEMMA SubmitInv == ASSUME IInv, NEW h \in Hashes, Submit(h) PROVE IInv'
<1>0. /\ clicks' \in Clicks /\ clicks' = clicks + 1 /\ wire' \in [Clicks -> Wires]
      /\ wire'[clicks'] = [state |-> "none", hash |-> h, job |-> NoJob]
      /\ \A d \in Clicks \ {clicks'} : wire'[d] = wire[d]
  BY ClientAssumption DEF Submit, IInv, WireShape, FormShape, PageShape, StoreShape, Clicks, Wires, WireStates
<1>r. /\ clicks \in Nat /\ clicks' \in 0..MaxClicks /\ \A c \in Clicks : c \in Nat
      /\ (page.at # "home" => [click |-> clicks', report |-> page.job, open |-> TRUE] \in Refreshes)
  BY <1>0, ClientAssumption DEF IInv, FormShape, PageShape, Refreshes, Clicks
<1> USE ClientAssumption DEF IInv, Submit, server, client, Say
<1>1. (StoreShape /\ PageShape /\ KeysHold /\ PollsAtHome)'
  BY DEF StoreShape, PageShape, KeysHold, PollsAtHome
<1>2. WireShape'
  BY <1>0, <1>r DEF WireShape, Wires, WireStates
<1>3. FormShape'
  BY <1>0, <1>r DEF FormShape, PageShape, Clicks, Phases, Refreshes
<1>4. Answers'
  BY <1>0, <1>r
     DEF Answers, StoreShape, WireShape, PageShape, FormShape, KeysHold, Clicks, Wires, WireStates
<1>5. FormAwaits'
  BY <1>0, <1>r DEF FormAwaits, FormShape, PageShape
<1>6. NoticeHolds'
  BY <1>0, <1>r DEF NoticeHolds, FormShape, Clicks
<1> QED BY <1>1, <1>2, <1>3, <1>4, <1>5, <1>6 DEF IInv

LEMMA RefreshInv == ASSUME IInv, Refresh PROVE IInv'
<1>0. /\ clicks' \in Clicks /\ clicks' = clicks + 1 /\ wire' \in [Clicks -> Wires]
      /\ wire'[clicks'] = [state |-> "sent", hash |-> tx[page.job], job |-> NoJob]
      /\ \A d \in Clicks \ {clicks'} : wire'[d] = wire[d]
  BY ClientAssumption DEF Refresh, IInv, WireShape, FormShape, PageShape, StoreShape, Clicks, Wires, WireStates
<1>r. /\ clicks \in Nat /\ clicks' \in 0..MaxClicks /\ \A c \in Clicks : c \in Nat
      /\ (page.at # "home" => [click |-> clicks', report |-> page.job, open |-> TRUE] \in Refreshes)
  BY <1>0, ClientAssumption DEF IInv, FormShape, PageShape, Refreshes, Clicks
<1>u. notice' = notice
  BY DEF Refresh
<1>w. notice.kind # "none" =>
         /\ notice.click \in Clicks /\ notice.click # clicks' /\ notice.click <= clicks'
         /\ wire'[notice.click] = wire[notice.click]
  <2> SUFFICES ASSUME notice.kind # "none"
               PROVE  /\ notice.click \in Clicks /\ notice.click # clicks' /\ notice.click <= clicks'
                      /\ wire'[notice.click] = wire[notice.click]
    OBVIOUS
  <2>1. notice.click \in Clicks /\ notice.click \in Nat /\ notice.click <= clicks
    BY <1>r DEF NoticeHolds, IInv
  <2> QED BY <2>1, <1>0, <1>r
<1>q. NoticeHolds'
  BY <1>u, <1>w DEF NoticeHolds, IInv
<1> USE ClientAssumption DEF IInv, Refresh, server, client
<1>1. (StoreShape /\ PageShape /\ KeysHold /\ PollsAtHome)'
  BY DEF StoreShape, PageShape, KeysHold, PollsAtHome
<1>2. WireShape'
  BY <1>0, <1>r DEF WireShape, Wires, WireStates
<1>3. FormShape'
  BY <1>0, <1>r DEF FormShape
<1>4. Answers'
  BY <1>0, <1>r
     DEF Answers, StoreShape, WireShape, PageShape, FormShape, KeysHold, Clicks, Wires, WireStates
<1>5. FormAwaits'
  BY <1>0, <1>r DEF FormAwaits, FormShape, PageShape
<1>6. NoticeHolds'
  BY <1>q DEF NoticeHolds, FormShape
<1> QED BY <1>1, <1>2, <1>3, <1>4, <1>5, <1>6 DEF IInv

LEMMA HealthAnsweredInv == ASSUME IInv, HealthAnswered PROVE IInv'
<1> USE ClientAssumption DEF IInv, HealthAnswered, server, client, PollOf
<1>1. (/\ StoreShape /\ WireShape /\ FormShape /\ KeysHold
      /\ Answers /\ FormAwaits /\ NoticeHolds)'
  BY DEF StoreShape, WireShape, FormShape, KeysHold, Answers, FormAwaits, NoticeHolds
<1>2. PageShape'
  BY DEF PageShape, StoreShape, WireShape, FormShape, PollsAtHome, Answers, Wires, Server!Statuses
<1>3. PollsAtHome'
  BY DEF PollsAtHome, PageShape
<1> QED BY <1>1, <1>2, <1>3 DEF IInv

LEMMA HealthFailedInv == ASSUME IInv, HealthFailed PROVE IInv'
<1> USE ClientAssumption DEF IInv, HealthFailed, server, client
<1>1. (/\ StoreShape /\ WireShape /\ FormShape /\ PageShape /\ KeysHold
      /\ Answers /\ FormAwaits /\ NoticeHolds /\ PollsAtHome)'
  BY DEF StoreShape, WireShape, FormShape, PageShape, KeysHold, Answers, FormAwaits, NoticeHolds, PollsAtHome
<1> QED BY <1>1 DEF IInv

LEMMA FormReadyInv == ASSUME IInv, NEW p \in pending, FormReady(p) PROVE IInv'
<1>0. /\ p.click \in Clicks /\ wire' \in [Clicks -> Wires]
      /\ wire'[p.click] = [state |-> "sent", hash |-> wire[p.click].hash, job |-> NoJob]
      /\ \A d \in Clicks \ {p.click} : wire'[d] = wire[d]
  BY MovedIs DEF FormReady, IInv, WireStates, FormShape
<1> USE ClientAssumption DEF IInv, FormReady, server, client
<1>1. (StoreShape /\ PageShape /\ KeysHold /\ PollsAtHome)'
  BY DEF StoreShape, PageShape, KeysHold, PollsAtHome
<1>2. WireShape'
  BY <1>0 DEF WireShape, Wires, WireStates
<1>3. FormShape'
  BY <1>0 DEF FormShape, Phases
<1>4. Answers'
  BY <1>0 DEF Answers, FormShape, FormAwaits, StoreShape, WireShape, Wires
<1>5. FormAwaits'
  BY <1>0 DEF FormAwaits, FormShape, PageShape
<1>6. NoticeHolds'
  BY <1>0 DEF NoticeHolds, FormShape, FormAwaits
<1> QED BY <1>1, <1>2, <1>3, <1>4, <1>5, <1>6 DEF IInv

LEMMA FormNotReadyInv == ASSUME IInv, NEW p \in pending, FormNotReady(p) PROVE IInv'
<1>0. /\ p.click \in Clicks /\ p.click = clicks /\ clicks \in Nat /\ pending = {p}
      /\ notice.kind = "none" /\ page.at = "home" /\ wire[p.click].hash \in Hashes
      /\ p.phase = "checking" => wire[p.click].state = "none"
  BY ClientAssumption DEF IInv, FormShape, FormAwaits
<1>n. /\ [p EXCEPT !.n = p.n + 1] \in [click : Clicks, phase : Phases, n : Nat]
      /\ [p EXCEPT !.n = p.n + 1].click = p.click /\ [p EXCEPT !.n = p.n + 1].phase = p.phase
  BY DEF IInv, FormShape
<1>u. /\ wire' = wire /\ clicks' = clicks
      /\ notice' = notice \/ notice' = [kind |-> "unsent", click |-> p.click]
  BY DEF FormNotReady, GiveUp, Say
<1>v. p.phase = "checking"
  BY DEF FormNotReady
<1>q. NoticeHolds'
  BY <1>0, <1>u, <1>v DEF NoticeHolds, IInv
<1> USE ClientAssumption DEF IInv, FormNotReady, server, client, GiveUp, Say
<1>1. (StoreShape /\ WireShape /\ PageShape /\ KeysHold /\ Answers /\ PollsAtHome)'
  BY DEF StoreShape, WireShape, PageShape, KeysHold, Answers, PollsAtHome
<1>2. FormShape'
  BY <1>0, <1>n DEF FormShape
<1>3. FormAwaits'
  BY <1>0, <1>n DEF FormAwaits
<1>4. NoticeHolds'
  BY <1>q DEF NoticeHolds
<1> QED BY <1>1, <1>2, <1>3, <1>4 DEF IInv

LEMMA FormAnsweredInv == ASSUME IInv, NEW p \in pending, FormAnswered(p) PROVE IInv'
<1> USE ClientAssumption DEF IInv, FormAnswered, server, client, Open, PollOf, CleanUp
<1>1. (StoreShape /\ WireShape /\ KeysHold /\ Answers /\ NoticeHolds)'
  BY DEF StoreShape, WireShape, KeysHold, Answers, NoticeHolds
<1>2. FormShape'
  BY DEF FormShape
<1>3. PageShape'
  BY DEF PageShape, StoreShape, WireShape, FormShape, PollsAtHome, Answers, Wires, Server!Statuses
<1>4. FormAwaits'
  BY DEF FormAwaits, FormShape, PageShape
<1>5. PollsAtHome'
  BY DEF PollsAtHome, PageShape
<1> QED BY <1>1, <1>2, <1>3, <1>4, <1>5 DEF IInv

LEMMA FormRefusedInv == ASSUME IInv, NEW p \in pending, FormRefused(p) PROVE IInv'
<1>0. /\ p.click \in Clicks /\ p.click = clicks /\ clicks \in Nat /\ pending = {p}
      /\ notice.kind = "none" /\ page.at = "home" /\ wire[p.click].hash \in Hashes
      /\ p.phase = "checking" => wire[p.click].state = "none"
  BY ClientAssumption DEF IInv, FormShape, FormAwaits
<1> USE ClientAssumption DEF IInv, FormRefused, server, client, Say
<1>1. (StoreShape /\ WireShape /\ PageShape /\ KeysHold /\ Answers /\ PollsAtHome)'
  BY DEF StoreShape, WireShape, PageShape, KeysHold, Answers, PollsAtHome
<1>2. FormShape'
  BY <1>0 DEF FormShape
<1>3. FormAwaits'
  BY <1>0 DEF FormAwaits, FormShape, PageShape
<1>4. NoticeHolds'
  BY <1>0 DEF NoticeHolds
<1> QED BY <1>1, <1>2, <1>3, <1>4 DEF IInv

LEMMA FormInterruptedInv == ASSUME IInv, NEW p \in pending, FormInterrupted(p) PROVE IInv'
<1>0. /\ p.click \in Clicks /\ p.click = clicks /\ clicks \in Nat /\ pending = {p}
      /\ notice.kind = "none" /\ page.at = "home" /\ wire[p.click].hash \in Hashes
      /\ p.phase = "checking" => wire[p.click].state = "none"
  BY ClientAssumption DEF IInv, FormShape, FormAwaits
<1> USE ClientAssumption DEF IInv, FormInterrupted, server, client, Say
<1>1. (StoreShape /\ WireShape /\ PageShape /\ KeysHold /\ Answers /\ PollsAtHome)'
  BY DEF StoreShape, WireShape, PageShape, KeysHold, Answers, PollsAtHome
<1>2. FormShape'
  BY <1>0 DEF FormShape
<1>3. FormAwaits'
  BY <1>0 DEF FormAwaits, FormShape, PageShape
<1>4. NoticeHolds'
  BY <1>0 DEF NoticeHolds
<1> QED BY <1>1, <1>2, <1>3, <1>4 DEF IInv

LEMMA PollReadInv == ASSUME IInv, NEW q \in polls, PollRead(q) PROVE IInv'
<1> USE ClientAssumption DEF IInv, PollRead, server, client, Seen, RecoverInterrupted, Server!Fail, Server!Statuses
<1>1. (WireShape /\ FormShape /\ FormAwaits /\ NoticeHolds)'
  BY DEF WireShape, FormShape, FormAwaits, NoticeHolds
<1>2. StoreShape'
  BY DEF StoreShape, PageShape
<1>3. PageShape'
  BY DEF PageShape, StoreShape, WireShape, FormShape, PollsAtHome, Answers, Wires
<1>4. KeysHold'
  BY DEF KeysHold, StoreShape, WireShape, Wires
<1>5. Answers'
  BY DEF Answers, StoreShape, WireShape, PageShape, FormShape, KeysHold, Clicks, Wires, WireStates
<1>6. PollsAtHome'
  BY DEF PollsAtHome, PageShape
<1> QED BY <1>1, <1>2, <1>3, <1>4, <1>5, <1>6 DEF IInv

LEMMA PollAnsweredInv == ASSUME IInv, NEW q \in polls, PollAnswered(q) PROVE IInv'
<1> USE ClientAssumption DEF IInv, PollAnswered, server, client, Open, PollOf, CleanUp, Seen
<1>1. (StoreShape /\ WireShape /\ KeysHold /\ Answers /\ NoticeHolds)'
  BY DEF StoreShape, WireShape, KeysHold, Answers, NoticeHolds
<1>2. FormShape'
  BY UnmountedIs DEF FormShape
<1>3. PageShape'
  BY DEF PageShape, StoreShape, WireShape, FormShape, PollsAtHome, Answers, Wires, Server!Statuses
<1>4. FormAwaits'
  BY DEF FormAwaits, FormShape, PageShape
<1>5. PollsAtHome'
  BY DEF PollsAtHome, PageShape
<1> QED BY <1>1, <1>2, <1>3, <1>4, <1>5 DEF IInv

LEMMA PollFailsInv == ASSUME IInv, NEW q \in polls, PollFails(q) PROVE IInv'
<1> USE ClientAssumption DEF IInv, PollFails, server, client
<1>1. (StoreShape /\ WireShape /\ FormShape /\ KeysHold /\ Answers /\ NoticeHolds)'
  BY DEF StoreShape, WireShape, FormShape, KeysHold, Answers, NoticeHolds
<1>2. PageShape'
  BY DEF PageShape, StoreShape, WireShape, FormShape, PollsAtHome, Answers, Wires, Server!Statuses
<1>3. FormAwaits'
  BY DEF FormAwaits, FormShape, PageShape
<1>4. PollsAtHome'
  BY DEF PollsAtHome, PageShape
<1> QED BY <1>1, <1>2, <1>3, <1>4 DEF IInv

LEMMA RefreshAnsweredInv == ASSUME IInv, NEW r \in refreshing, RefreshAnswered(r) PROVE IInv'
<1> USE ClientAssumption DEF IInv, RefreshAnswered, server, client, Open, PollOf, CleanUp
<1>1. (StoreShape /\ WireShape /\ KeysHold /\ Answers /\ NoticeHolds)'
  BY DEF StoreShape, WireShape, KeysHold, Answers, NoticeHolds
<1>2. FormShape'
  BY UnmountedIs DEF FormShape
<1>3. PageShape'
  BY DEF PageShape, StoreShape, WireShape, FormShape, PollsAtHome, Answers, Wires, Server!Statuses, Refreshes
<1>4. FormAwaits'
  BY DEF FormAwaits, FormShape, PageShape
<1>5. PollsAtHome'
  BY DEF PollsAtHome, PageShape
<1> QED BY <1>1, <1>2, <1>3, <1>4, <1>5 DEF IInv

LEMMA RefreshFailsInv == ASSUME IInv, NEW r \in refreshing, RefreshFails(r) PROVE IInv'
<1> USE ClientAssumption DEF IInv, RefreshFails, server, client
<1>1. (/\ StoreShape /\ WireShape /\ PageShape /\ KeysHold /\ Answers
      /\ FormAwaits /\ NoticeHolds /\ PollsAtHome)'
  BY DEF StoreShape, WireShape, PageShape, KeysHold, Answers, FormAwaits, NoticeHolds, PollsAtHome
<1>2. FormShape'
  BY DEF FormShape
<1> QED BY <1>1, <1>2 DEF IInv

---------------------------------------------------------------------------
(* IInv is inductive.                                                      *)
LEMMA NextInv == IInv /\ [Next]_vars => IInv'
<1> SUFFICES ASSUME IInv, [Next]_vars PROVE IInv'
  OBVIOUS
<1>1. CASE ServerNext
  BY <1>1, PostRecoveredInv, PostTurnedDownInv, PostAcceptedInv, PostReusedInv,
     PostBudgetedInv, RunInv, TaskLostInv, CrashInv, LeaseExpiresInv, NextBucketInv DEF ServerNext
<1>2. CASE UserNext
  BY <1>2, GoHomeInv, RevisitInv, RetryClickedInv, RefreshInv, SubmitInv DEF UserNext
<1>3. CASE FormNext
  BY <1>3, FormReadyInv, FormNotReadyInv, FormAnsweredInv, FormRefusedInv,
     FormInterruptedInv DEF FormNext
<1>4. CASE PageNext
  BY <1>4, HealthAnsweredInv, HealthFailedInv, PollReadInv, PollAnsweredInv, PollFailsInv,
     RefreshAnsweredInv, RefreshFailsInv DEF PageNext
<1>5. CASE UNCHANGED vars
  BY <1>5 DEF vars, server, client, IInv, StoreShape, WireShape, FormShape, PageShape,
     KeysHold, Answers, FormAwaits, NoticeHolds, PollsAtHome
<1> QED BY <1>1, <1>2, <1>3, <1>4, <1>5 DEF Next

LEMMA Invariance == Spec => []IInv
BY InitInv, NextInv, PTL DEF Spec

(* What the form says for certain is true in every run: an unsent click    *)
(* never reached the server, and no process works for a refused one.       *)
THEOREM MessagesAreTrue == Spec => []DefiniteMessagesAreTrue
<1>1. IInv => DefiniteMessagesAreTrue
  <2> SUFFICES ASSUME IInv PROVE DefiniteMessagesAreTrue
    OBVIOUS
  <2>1. notice.kind = "unsent" => wire[notice.click].state = "none"
    BY DEF IInv, NoticeHolds
  <2>2. ASSUME notice.kind = "refused", NEW j \in Jobs, wire[notice.click].job = j
        PROVE  ~Working(j)
    <3>1. notice.click \in Clicks /\ wire[notice.click].state \in {"refused", "broken"}
      BY <2>2 DEF IInv, NoticeHolds
    <3>2. status[j] = "failed" \/ j \in abandoned
      BY <2>2, <3>1, ClientAssumption DEF IInv, Answers
    <3> QED BY <3>2 DEF Working, Live
  <2> QED BY <2>1, <2>2 DEF DefiniteMessagesAreTrue
<1> QED BY <1>1, Invariance, PTL

(* No poll of a page that was left takes the user to a report, however     *)
(* late its answer comes.                                                  *)
THEOREM UserStaysPut == Spec => NeverDraggedAway
<1>1. IInv => \A q \in polls :
        q \notin polls' /\ page'.at = "report" /\ page.at # "report" =>
            page.at = "progress" /\ page.job = q.job
  BY DEF IInv, PollsAtHome
<1> QED BY <1>1, Invariance, PTL DEF NeverDraggedAway

(* The progress page that the form opens is of the last transaction asked  *)
(* for.                                                                    *)
THEOREM FormOpensTheLast == Spec => LastSubmissionOpens
<1> DEFINE Opens ==
      \A p \in pending :
        page.at = "home"
        /\ page' = [at |-> "progress", job |-> wire[p.click].job, alert |-> "none"]
        /\ p.phase = "submitting" => tx[wire[p.click].job] = wire[clicks].hash
<1>1. IInv /\ IInv' => Opens
  <2> SUFFICES ASSUME IInv, IInv', NEW p \in pending,
                      page' = [at |-> "progress", job |-> wire[p.click].job, alert |-> "none"]
               PROVE  tx[wire[p.click].job] = wire[clicks].hash
    OBVIOUS
  <2>1. page'.at = "progress" /\ page'.job = wire[p.click].job
    OBVIOUS
  <2>2. wire[p.click].job \in Jobs
    BY <2>1 DEF IInv, PageShape
  <2>3. p.click \in Clicks /\ p.click = clicks
    BY DEF IInv, FormShape, FormAwaits
  <2> QED BY <2>2, <2>3 DEF IInv, Answers
<1> QED BY <1>1, Invariance, PTL DEF LastSubmissionOpens

---------------------------------------------------------------------------
(* The rest of the types: jobs that nobody works for are live, and no      *)
(* watcher tries more often than it may.                                   *)
Orphans ==
    /\ abandoned \subseteq Jobs
    /\ orphaned \subseteq abandoned /\ expired \subseteq abandoned
    /\ \A j \in expired : Live(j)

Tries ==
    /\ health \in [state : {"checking", "waking", "connected", "unavailable"}, n : 0..Attempts]
    /\ \A p \in pending : p.n \in 1..Attempts

Refreshed == \A r \in refreshing : r.click <= clicks

(* Only the server's steps touch the jobs; none ends a job that is         *)
(* abandoned, but recovery, which forgets it.                              *)
LEMMA OrphansKept == IInv /\ Orphans /\ [Next]_vars => Orphans'
<1> SUFFICES ASSUME IInv, Orphans, [Next]_vars PROVE Orphans'
  OBVIOUS
<1> USE DEF Orphans, Live
<1>0. StoreShape /\ Answers
  BY DEF IInv
<1>1. ASSUME UNCHANGED server PROVE Orphans'
  BY <1>1 DEF server
<1>2. ASSUME RecoverInterrupted PROVE Orphans'
  BY <1>2 DEF RecoverInterrupted
<1>3. CASE ServerNext
  <2>1. ASSUME NEW c \in Clicks, PostRecovered(c) PROVE Orphans'
    BY <2>1, <1>2 DEF PostRecovered
  <2>2. ASSUME NEW c \in Clicks, PostTurnedDown(c) PROVE Orphans'
    BY <2>2, <1>1 DEF PostTurnedDown
  <2>3. ASSUME NEW c \in Clicks, PostAccepted(c) PROVE Orphans'
    BY <2>3, <1>0 DEF PostAccepted, Server!Accept, StoreShape
  <2>4. ASSUME NEW c \in Clicks, PostReused(c) PROVE Orphans'
    BY <2>4, <1>0 DEF PostReused, server, Server!Fail, StoreShape
  <2>5. ASSUME NEW c \in Clicks, PostBudgeted(c) PROVE Orphans'
    BY <2>5, <1>0 DEF PostBudgeted, Orphan, server, Server!Fail, StoreShape, Answers
  <2>6. ASSUME NEW j \in Jobs, Run(j) PROVE Orphans'
    BY <2>6, <1>0 DEF Run, Working, Server!Start, Server!Complete, Server!Fail, StoreShape
  <2>7. ASSUME NEW j \in Jobs, TaskLost(j) \/ Crash(j) \/ LeaseExpires(j) PROVE Orphans'
    BY <2>7 DEF TaskLost, Orphan, Crash, LeaseExpires
  <2>8. CASE NextBucket
    BY <2>8, <1>1 DEF NextBucket
  <2> QED BY <1>3, <2>1, <2>2, <2>3, <2>4, <2>5, <2>6, <2>7, <2>8 DEF ServerNext
<1>4. CASE UserNext
  BY <1>4, <1>1 DEF UserNext, GoHome, Revisit, RetryClicked, Refresh, Submit
<1>5. CASE FormNext
  BY <1>5, <1>1
  DEF FormNext, FormReady, FormNotReady, FormAnswered, FormRefused, FormInterrupted
<1>6. CASE PageNext
  BY <1>6, <1>1, <1>2
  DEF PageNext, HealthAnswered, HealthFailed, PollRead, PollAnswered, PollFails,
      RefreshAnswered, RefreshFails
<1> QED BY <1>1, <1>3, <1>4, <1>5, <1>6 DEF Next, vars

(* A watcher and a form count up to Attempts and start again at one.       *)
LEMMA TriesKept == IInv /\ Tries /\ [Next]_vars => Tries'
<1> SUFFICES ASSUME IInv, Tries, [Next]_vars PROVE Tries'
  OBVIOUS
<1> USE ClientAssumption DEF Tries
<1>1. ASSUME UNCHANGED health, pending' \subseteq pending PROVE Tries'
  BY <1>1
<1>2. CASE ServerNext
  BY <1>2, <1>1
  DEF ServerNext, PostRecovered, PostTurnedDown, PostAccepted, PostReused, PostBudgeted,
      Run, TaskLost, Crash, LeaseExpires, NextBucket, client
<1>3. ASSUME NEW at, NEW j, NEW ps, Open(at, j, ps) PROVE pending' \subseteq pending
  BY <1>3 DEF Open
<1>4. CASE UserNext
  <2>1. CASE GoHome \/ Revisit \/ Refresh
    BY <2>1, <1>1, <1>3 DEF GoHome, Revisit, Refresh
  <2>2. CASE RetryClicked
    BY <2>2 DEF RetryClicked, Retry
  <2>3. ASSUME NEW h \in Hashes, Submit(h) PROVE Tries'
    BY <2>3 DEF Submit
  <2> QED BY <1>4, <2>1, <2>2, <2>3 DEF UserNext
<1>5. CASE FormNext
  <2> PICK p \in pending : \/ FormReady(p) \/ FormNotReady(p) \/ FormAnswered(p)
                           \/ FormRefused(p) \/ FormInterrupted(p)
    BY <1>5 DEF FormNext
  <2>0. p \in [click : Clicks, phase : Phases, n : Nat]
    BY DEF IInv, FormShape
  <2>1. CASE FormReady(p)
    BY <2>0, <2>1 DEF FormReady
  <2>2. CASE FormNotReady(p)
    BY <2>0, <2>2 DEF FormNotReady, GiveUp
  <2>3. CASE FormAnswered(p) \/ FormRefused(p)
    BY <2>3, <1>1, <1>3 DEF FormAnswered, FormRefused
  <2>4. CASE FormInterrupted(p)
    BY <2>4 DEF FormInterrupted, Retry
  <2> QED BY <2>1, <2>2, <2>3, <2>4
<1>6. CASE PageNext
  <2>1. CASE HealthAnswered
    BY <2>1 DEF HealthAnswered
  <2>2. CASE HealthFailed
    BY <2>2 DEF HealthFailed
  <2>3. ASSUME NEW q \in polls, PollRead(q) \/ PollAnswered(q) \/ PollFails(q) PROVE Tries'
    BY <2>3, <1>1, <1>3 DEF PollRead, PollAnswered, PollFails
  <2>4. ASSUME NEW r \in refreshing, RefreshAnswered(r) \/ RefreshFails(r) PROVE Tries'
    BY <2>4, <1>1, <1>3 DEF RefreshAnswered, RefreshFails
  <2> QED BY <1>6, <2>1, <2>2, <2>3, <2>4 DEF PageNext
<1>7. CASE UNCHANGED vars
  BY <1>7, <1>1 DEF vars, client
<1> QED BY <1>2, <1>4, <1>5, <1>6, <1>7 DEF Next

(* A refresh is a click that was made.                                     *)
LEMMA RefreshedKept == IInv /\ Refreshed /\ [Next]_vars => Refreshed'
<1> SUFFICES ASSUME IInv, Refreshed, [Next]_vars PROVE Refreshed'
  OBVIOUS
<1>0. clicks \in Nat /\ refreshing \subseteq Refreshes
  BY ClientAssumption DEF IInv, FormShape
<1>1. ASSUME UNCHANGED clicks, refreshing' \subseteq refreshing PROVE Refreshed'
  BY <1>1 DEF Refreshed
<1>2. ASSUME UNCHANGED clicks, NEW rs, rs \subseteq refreshing, refreshing' = Unmounted(rs)
      PROVE  Refreshed'
  BY <1>0, <1>2 DEF Refreshed, Unmounted, Refreshes
<1>3. CASE ServerNext
  BY <1>3, <1>1
  DEF ServerNext, PostRecovered, PostTurnedDown, PostAccepted, PostReused, PostBudgeted,
      Run, TaskLost, Crash, LeaseExpires, NextBucket, client
<1>4. CASE UserNext
  <2>1. CASE GoHome \/ Revisit
    BY <2>1, <1>2 DEF GoHome, Revisit
  <2>2. CASE RetryClicked
    BY <2>2, <1>1 DEF RetryClicked
  <2>3. CASE Refresh
    BY <1>0, <2>3 DEF Refresh, Refreshed, Refreshes, Clicks
  <2>4. ASSUME NEW h \in Hashes, Submit(h) PROVE Refreshed'
    BY <1>0, <2>4 DEF Submit, Refreshed, Refreshes, Clicks
  <2> QED BY <1>4, <2>1, <2>2, <2>3, <2>4 DEF UserNext
<1>5. CASE FormNext
  BY <1>5, <1>1
  DEF FormNext, FormReady, FormNotReady, FormAnswered, FormRefused, FormInterrupted
<1>6. CASE PageNext
  <2>1. CASE HealthAnswered \/ HealthFailed
    BY <2>1, <1>1 DEF HealthAnswered, HealthFailed
  <2>2. ASSUME NEW q \in polls, PollRead(q) \/ PollAnswered(q) \/ PollFails(q)
        PROVE  Refreshed'
    BY <2>2, <1>1, <1>2 DEF PollRead, PollAnswered, PollFails
  <2>3. ASSUME NEW r \in refreshing, RefreshAnswered(r) \/ RefreshFails(r) PROVE Refreshed'
    BY <2>3, <1>1, <1>2 DEF RefreshAnswered, RefreshFails
  <2> QED BY <1>6, <2>1, <2>2, <2>3 DEF PageNext
<1>7. CASE UNCHANGED vars
  BY <1>7, <1>1 DEF vars, client
<1> QED BY <1>3, <1>4, <1>5, <1>6, <1>7 DEF Next

(* Pages, requests and POSTs keep the shape the code gives them.           *)
THEOREM ClientTypeCorrect == Spec => []TypeOK
<1>1. Init => Orphans /\ Tries /\ Refreshed
  BY ClientAssumption DEF Init, Orphans, Tries, Refreshed
<1>2. IInv /\ Orphans /\ Tries /\ Refreshed => TypeOK
  <2> SUFFICES ASSUME IInv, Orphans, Tries, Refreshed PROVE TypeOK
    OBVIOUS
  <2>1. /\ tx \in [Jobs -> Hashes \cup {NoHash}]
        /\ bucket \in 0..MaxBucket /\ clicks \in 0..MaxClicks
        /\ page.at # "home" => page.job \in Jobs
    BY DEF IInv, StoreShape, FormShape, PageShape
  <2>2. /\ \A c \in Clicks : c > clicks => wire[c].state = "none"
        /\ \A c \in Clicks :
              wire[c].state \in {"accepted", "job", "broken"} => wire[c].job \in Jobs
    BY DEF IInv, Answers, Orphans
  <2>3. \A p \in pending : p.click \in 1..clicks /\ p.n \in 1..Attempts
    BY <2>1, ClientAssumption DEF IInv, FormShape, FormAwaits, Clicks, Tries
  <2>4. \A r \in refreshing : r.click \in 1..clicks /\ r.report \in Jobs
    BY <2>1, ClientAssumption DEF IInv, FormShape, Refreshes, Clicks, Refreshed
  <2>5. health.n \in 0..Attempts
    BY DEF Tries
  <2> QED BY <2>1, <2>2, <2>3, <2>4, <2>5 DEF TypeOK, Orphans
<1> QED BY <1>1, <1>2, Invariance, OrphansKept, TriesKept, RefreshedKept, PTL DEF Spec
===========================================================================

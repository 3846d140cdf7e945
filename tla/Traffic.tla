------------------------------ MODULE Traffic ------------------------------
(***************************************************************************)
(* The service under submissions that need never stop.  In AnalysisService *)
(* an id is submitted once, so with finitely many ids the traffic dries up *)
(* and every process becomes idle in the end, which the code does not      *)
(* promise.  Here an id whose job has ended stands for the uuid4 of a      *)
(* later submission, and the key of a row that ended may be that of        *)
(* another transaction or of another five-minute bucket.                   *)
(***************************************************************************)
EXTENDS AnalysisService

(* submit draws a fresh uuid4 for every request: the row it will insert    *)
(* has nothing to do with the one that bore the id before.                 *)
FreshId(j) ==
    /\ pc[j] = "gone" /\ ~Live(j)
    /\ status' = [status EXCEPT ![j] = "absent"]
    /\ key' = [key EXCEPT ![j] = NoKey]
    /\ owner' = [owner EXCEPT ![j] = NoWorker]
    /\ lease' = [lease EXCEPT ![j] = -1]
    /\ reports' = reports \ {j}
    /\ pc' = [pc EXCEPT ![j] = "new"]
    /\ home' = [home EXCEPT ![j] = NoWorker]
    /\ stage' = [stage EXCEPT ![j] = 0]
    /\ UNCHANGED <<up, heart>>

TrafficNext == Next \/ \E j \in Jobs : FreshId(j)

TrafficSpec == Init /\ [][TrafficNext]_vars /\ Fairness /\ Polling

---------------------------------------------------------------------------
(* renew_leases renews every live row of its process, also one that no     *)
(* task works for, as long as the process has some task at all.            *)
KeptAlive(j) == j \notin Tasks(owner[j]) /\ Tasks(owner[j]) # {}

AllDown == \A w \in Workers : up[w] # "up"

(* A job that was accepted ends, although its process may crash, its task  *)
(* be cancelled or its final update be lost, as long as some worker stays  *)
(* up and is polled, unless its row is kept alive by the tasks of other    *)
(* submissions again and again: once those stop, a row without a task is   *)
(* renewed no more, expires and is failed, which also frees its key.       *)
EveryJobEnds == \A j \in Jobs : Live(j) ~> ~Live(j) \/ AllDown \/ KeptAlive(j)
===========================================================================

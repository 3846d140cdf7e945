--------------------------- MODULE JobLifecycle ---------------------------
(***************************************************************************)
(* What the job store promises to a client that polls a job, with nothing  *)
(* said of processes, leases or heartbeats: a job is accepted under a free *)
(* cache key, moves forward, and ends complete or failed; a failure gives  *)
(* the key back in the same step; nothing leaves "failed", and a complete  *)
(* job can only be invalidated.                                            *)
(***************************************************************************)
EXTENDS FiniteSets

CONSTANTS Jobs,   \* job ids ever drawn
          Keys    \* cache keys: chain, hash, five-minute bucket, configuration

VARIABLES status, \* status[j]: what GET /analyses/{j} shows, "absent" if nothing
          held    \* held[k]: the jobs a submission under key k is answered with

vars == <<status, held>>

Statuses == {"absent", "queued", "running", "complete", "failed"}

Init == /\ status = [j \in Jobs |-> "absent"]
        /\ held = [k \in Keys |-> {}]

Accept(j, k) ==
    /\ status[j] = "absent"
    /\ held[k] = {}
    /\ status' = [status EXCEPT ![j] = "queued"]
    /\ held' = [held EXCEPT ![k] = {j}]

Start(j) ==
    /\ status[j] = "queued"
    /\ status' = [status EXCEPT ![j] = "running"]
    /\ UNCHANGED held

Complete(j) ==
    /\ status[j] = "running"
    /\ status' = [status EXCEPT ![j] = "complete"]
    /\ UNCHANGED held

(* Recovery fails several jobs in one transaction, hence a set of them.    *)
Fail(S) ==
    /\ \A j \in S : status[j] \in {"queued", "running", "complete"}
    /\ status' = [j \in Jobs |-> IF j \in S THEN "failed" ELSE status[j]]
    /\ held' = [k \in Keys |-> held[k] \ S]

Next == \/ \E j \in Jobs : Start(j) \/ Complete(j)
        \/ \E j \in Jobs, k \in Keys : Accept(j, k)
        \/ \E S \in SUBSET Jobs : Fail(S)

Spec == Init /\ [][Next]_vars
===========================================================================

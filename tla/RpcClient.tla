------------------------------- MODULE RpcClient -------------------------------
(* The JSON-RPC client every analysis reads the chain through                 *)
(* (blockchain/rpc_client.py): concurrent calls share a semaphore and the      *)
(* counter request ids are drawn from; each call posts at most Attempts times. *)
EXTENDS Naturals, FiniteSets

CONSTANTS
  Calls,
  Permits,     \* asyncio.Semaphore(8)
  Attempts,    \* range(3)
  MaxCancels   \* bound on the calls cancelled by a timeout of their caller

ASSUME RpcAssumption ==
  /\ IsFiniteSet(Calls)
  /\ Permits \in Nat \ {0}
  /\ Attempts \in Nat \ {0}
  /\ MaxCancels \in Nat

VARIABLES
  pc,          \* "waiting", "starting", "posted", "sleeping", "returned",
               \* "refused", "raised" or "cancelled"; "starting" is the head of
               \* the loop and "refused" the error of a bad envelope
  attempt,     \* the loop's variable
  lastId,      \* self._id
  requestId,   \* the id the call's current request carries
  free,        \* permits left
  answerId,    \* the id of the answer the call returned or refused
  cancels

vars == <<pc, attempt, lastId, requestId, free, answerId, cancels>>

Holding == {c \in Calls : pc[c] \in {"starting", "posted", "sleeping"}}
Ended == {"returned", "refused", "raised", "cancelled"}

Init ==
  /\ pc = [c \in Calls |-> "waiting"]
  /\ attempt = [c \in Calls |-> 0]
  /\ lastId = 0
  /\ requestId = [c \in Calls |-> 0]
  /\ free = Permits
  /\ answerId = [c \in Calls |-> 0]
  /\ cancels = 0

\* async with self._semaphore.
Acquire(c) ==
  /\ pc[c] = "waiting"
  /\ free > 0
  /\ free' = free - 1
  /\ pc' = [pc EXCEPT ![c] = "starting"]
  /\ UNCHANGED <<attempt, lastId, requestId, answerId, cancels>>

\* Draw an id and post.
Post(c) ==
  /\ pc[c] = "starting"
  /\ attempt[c] < Attempts
  /\ lastId' = lastId + 1
  /\ requestId' = [requestId EXCEPT ![c] = lastId + 1]
  /\ pc' = [pc EXCEPT ![c] = "posted"]
  /\ UNCHANGED <<attempt, free, answerId, cancels>>

\* Faulty variant: the error path releases the permit a second time.
RaiseTwice(c) ==
  /\ pc' = [pc EXCEPT ![c] = "raised"]
  /\ free' = free + 2
  /\ UNCHANGED <<attempt, lastId, requestId, answerId, cancels>>

\* Leaving the call releases its permit.
Raise(c) ==
  /\ pc' = [pc EXCEPT ![c] = "raised"]
  /\ free' = free + 1
  /\ UNCHANGED <<attempt, lastId, requestId, answerId, cancels>>

\* asyncio.sleep, with the permit held.
Backoff(c) ==
  /\ pc' = [pc EXCEPT ![c] = "sleeping"]
  /\ UNCHANGED <<attempt, lastId, requestId, free, answerId, cancels>>

\* Faulty variant: the id is compared with the client's counter, which other
\* calls have moved on since this one posted.
ExpectedShared(c) == lastId

\* The id an answer must carry.
Expected(c) == requestId[c]

\* A body with a result: the provider puts the id of any request it has seen.
Answer(c) ==
  /\ pc[c] = "posted"
  /\ \E id \in {requestId[d] : d \in Calls} \ {0} :
       /\ pc' = [pc EXCEPT ![c] = IF id = Expected(c) THEN "returned" ELSE "refused"]
       /\ answerId' = [answerId EXCEPT ![c] = id]
  /\ free' = free + 1
  /\ UNCHANGED <<attempt, lastId, requestId, cancels>>

\* Refused credentials, an RPC error or no result: the loop does not retry.
AnswerError(c) ==
  /\ pc[c] = "posted"
  /\ Raise(c)

\* HTTPError or ValueError: retried, and the last attempt raises.
AnswerFault(c) ==
  /\ pc[c] = "posted"
  /\ \/ attempt[c] = Attempts - 1 /\ Raise(c)
     \/ attempt[c] # Attempts - 1 /\ Backoff(c)

\* HTTP 429 or 5xx, and the RPC error -32005: retried while an attempt is
\* left; after that the one is an HTTPError, the other an RPC error.
AnswerThrottled(c) ==
  /\ pc[c] = "posted"
  /\ \/ attempt[c] < Attempts - 1 /\ Backoff(c)
     \/ attempt[c] >= Attempts - 1 /\ (AnswerFault(c) \/ AnswerError(c))

\* The sleep is over: the next round of the loop.
Resume(c) ==
  /\ pc[c] = "sleeping"
  /\ attempt' = [attempt EXCEPT ![c] = @ + 1]
  /\ pc' = [pc EXCEPT ![c] = "starting"]
  /\ UNCHANGED <<lastId, requestId, free, answerId, cancels>>

\* Faulty variant: a cancelled call keeps its permit.
CancelLeaking(c) ==
  /\ pc[c] \notin Ended
  /\ cancels < MaxCancels
  /\ cancels' = cancels + 1
  /\ pc' = [pc EXCEPT ![c] = "cancelled"]
  /\ UNCHANGED <<attempt, lastId, requestId, free, answerId>>

\* The caller's timeout cancels the call wherever it is.
Cancel(c) ==
  /\ pc[c] \notin Ended
  /\ cancels < MaxCancels
  /\ cancels' = cancels + 1
  /\ pc' = [pc EXCEPT ![c] = "cancelled"]
  /\ free' = IF c \in Holding THEN free + 1 ELSE free
  /\ UNCHANGED <<attempt, lastId, requestId, answerId>>

Reply(c) ==
  Answer(c) \/ AnswerError(c) \/ AnswerFault(c) \/ AnswerThrottled(c)

Call(c) == Acquire(c) \/ Post(c) \/ Reply(c) \/ Resume(c)

Next ==
  \/ \E c \in Calls : Call(c) \/ Cancel(c)
  \/ (\A c \in Calls : pc[c] \in Ended) /\ UNCHANGED vars

Spec == Init /\ [][Next]_vars

\* The event loop runs what is ready, sleeps end, every post is answered or
\* fails (the HTTP client has a timeout), and the semaphore is first come first
\* served.
FairSpec == Spec /\ \A c \in Calls : SF_vars(Acquire(c)) /\ WF_vars(Call(c))

-------------------------------------------------------------------------------

TypeOK ==
  /\ pc \in [Calls -> {"waiting", "starting", "posted", "sleeping"} \cup Ended]
  /\ attempt \in [Calls -> 0..Attempts]
  /\ lastId \in Nat
  /\ requestId \in [Calls -> 0..lastId]
  /\ free \in 0..Permits
  /\ answerId \in [Calls -> 0..lastId]
  /\ cancels \in 0..MaxCancels

(* Calls that overlap never get each other's answers, and none refuses its    *)
(* own: ids are drawn from one counter that moves while a call waits.         *)
OwnAnswers ==
  /\ \A c \in Calls : pc[c] = "returned" => answerId[c] = requestId[c]
  /\ \A c \in Calls : pc[c] = "refused" => answerId[c] # requestId[c]
  /\ \A c, d \in Calls :
       (c # d /\ pc[c] = "returned" /\ pc[d] = "returned") =>
         answerId[c] # answerId[d]

(* No path through the loop starts a round that range(3) does not have: the   *)
(* statement after the loop, whose error would not say what the provider did, *)
(* is never reached.                                                          *)
NeverExhausted == \A c \in Calls : pc[c] = "starting" => attempt[c] < Attempts

(* Every call ends, however many wait for the semaphore, retry while holding  *)
(* it or are cancelled.                                                       *)
EveryCallEnds == \A c \in Calls : <>(pc[c] \in Ended)
================================================================================

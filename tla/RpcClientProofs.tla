---------------------------- MODULE RpcClientProofs ----------------------------
(***************************************************************************)
(* Theorems about RpcClient, for any number of calls, permits, attempts    *)
(* and cancellations.                                                      *)
(***************************************************************************)
EXTENDS RpcClient, FiniteSetTheorems, TLAPS

(* Every permit is either free or held by exactly one call.                *)
PermitsKept == free + Cardinality(Holding) = Permits

(* No two requests carry the same id; a posted request has one.            *)
IdsDiffer ==
  /\ \A c, d \in Calls : (c # d /\ requestId[c] # 0) => requestId[c] # requestId[d]
  /\ \A c \in Calls : pc[c] \in {"posted", "returned"} => requestId[c] # 0

(* Where a call stands in its attempts; a sleep is only begun while another *)
(* attempt is left.                                                        *)
Rounds ==
  \A c \in Calls :
    /\ pc[c] = "waiting" => attempt[c] = 0
    /\ pc[c] \in {"starting", "posted"} => attempt[c] < Attempts
    /\ pc[c] = "sleeping" => attempt[c] + 1 < Attempts

(* A call that ended returned its own answer or refused a foreign one.     *)
Matched ==
  \A c \in Calls :
    /\ pc[c] = "returned" => answerId[c] = requestId[c]
    /\ pc[c] = "refused" => answerId[c] # requestId[c]

IInv == TypeOK /\ PermitsKept /\ IdsDiffer /\ Rounds /\ Matched

-----------------------------------------------------------------------------
(* The semaphore.                                                          *)

(* A step that takes no permit and gives none back keeps the count.        *)
LEMMA KeepPermits ==
  ASSUME PermitsKept, Holding' = Holding, free' = free
  PROVE  PermitsKept'
BY DEF PermitsKept

(* A call that acquires takes one free permit.                             *)
LEMMA TakePermit ==
  ASSUME IInv, NEW c \in Calls, c \notin Holding, free > 0, free' = free - 1,
         Holding' = Holding \cup {c}
  PROVE  PermitsKept' /\ free' \in 0..Permits
<1>1. IsFiniteSet(Holding)
  BY RpcAssumption, FS_Subset DEF Holding
<1>2. Cardinality(Holding') = Cardinality(Holding) + 1 /\ Cardinality(Holding) \in Nat
  BY <1>1, FS_AddElement, FS_CardinalityType
<1> QED
  BY <1>2, RpcAssumption DEF IInv, TypeOK, PermitsKept

(* A call that leaves gives back the one it held.                          *)
LEMMA GivePermit ==
  ASSUME IInv, NEW c \in Calls, c \in Holding, free' = free + 1,
         Holding' = Holding \ {c}
  PROVE  PermitsKept' /\ free' \in 0..Permits
<1>1. IsFiniteSet(Holding)
  BY RpcAssumption, FS_Subset DEF Holding
<1>2. IsFiniteSet(Holding') /\ Cardinality(Holding') = Cardinality(Holding) - 1
  BY <1>1, FS_RemoveElement
<1>3. Cardinality(Holding) \in Nat /\ Cardinality(Holding') \in Nat
  BY <1>1, <1>2, FS_CardinalityType
<1> QED
  BY <1>2, <1>3, RpcAssumption DEF IInv, TypeOK, PermitsKept

-----------------------------------------------------------------------------

(* The initial state satisfies the invariant.                              *)
LEMMA InitIInv == Init => IInv
<1> SUFFICES ASSUME Init PROVE IInv
  OBVIOUS
<1>1. Cardinality(Holding) = 0
  <2>1. Holding = {}
    BY DEF Init, Holding
  <2> QED
    BY <2>1, FS_EmptySet
<1> QED
  BY <1>1, RpcAssumption
  DEF Init, IInv, TypeOK, PermitsKept, IdsDiffer, Rounds, Matched, Ended

(* Releasing the permit with an error, from a posted request.              *)
LEMMA RaiseIInv == ASSUME IInv, NEW c \in Calls, pc[c] = "posted", Raise(c) PROVE IInv'
<1>1. PermitsKept' /\ free' \in 0..Permits
  <2>1. c \in Holding /\ Holding' = Holding \ {c} /\ free' = free + 1
    BY DEF Raise, Holding, IInv, TypeOK
  <2> QED
    BY <2>1, GivePermit
<1>2. TypeOK'
  BY <1>1 DEF IInv, TypeOK, Raise, Ended
<1>3. IdsDiffer' /\ Rounds' /\ Matched'
  BY DEF IInv, TypeOK, Raise, IdsDiffer, Rounds, Matched
<1> QED
  BY <1>1, <1>2, <1>3 DEF IInv

(* Sleeping before the next attempt, when there is one.                    *)
LEMMA BackoffIInv ==
  ASSUME IInv, NEW c \in Calls, pc[c] = "posted", attempt[c] + 1 < Attempts, Backoff(c)
  PROVE  IInv'
<1>1. Holding' = Holding /\ free' = free
  BY DEF Backoff, Holding, IInv, TypeOK
<1>2. TypeOK'
  BY DEF IInv, TypeOK, Backoff
<1>3. IdsDiffer' /\ Rounds' /\ Matched'
  BY DEF IInv, TypeOK, Backoff, IdsDiffer, Rounds, Matched
<1> QED
  BY <1>1, <1>2, <1>3, KeepPermits DEF IInv

(* Every kind of answer, and no answer.                                    *)
LEMMA ReplyIInv == ASSUME IInv, NEW c \in Calls, Reply(c) PROVE IInv'
<1>1. CASE Answer(c)
  <2>1. PICK id \in {requestId[d] : d \in Calls} \ {0} :
          /\ pc' = [pc EXCEPT ![c] = IF id = Expected(c) THEN "returned" ELSE "refused"]
          /\ answerId' = [answerId EXCEPT ![c] = id]
    BY <1>1 DEF Answer
  <2>2. id \in 0..lastId
    BY <2>1 DEF IInv, TypeOK
  <2>3. PermitsKept' /\ free' \in 0..Permits
    <3>1. c \in Holding /\ Holding' = Holding \ {c} /\ free' = free + 1
      BY <1>1, <2>1 DEF Answer, Holding, IInv, TypeOK
    <3> QED
      BY <3>1, GivePermit
  <2>4. TypeOK'
    BY <1>1, <2>1, <2>2, <2>3 DEF IInv, TypeOK, Answer, Ended
  <2>5. IdsDiffer' /\ Rounds' /\ Matched'
    BY <1>1, <2>1 DEF IInv, TypeOK, Answer, Expected, IdsDiffer, Rounds, Matched
  <2> QED
    BY <2>3, <2>4, <2>5 DEF IInv
<1>2. CASE AnswerError(c)
  BY <1>2, RaiseIInv DEF AnswerError
<1>3. ASSUME AnswerFault(c) PROVE IInv'
  <2>1. /\ attempt[c] \in Nat /\ attempt[c] < Attempts /\ pc[c] = "posted"
        /\ attempt[c] # Attempts - 1 => attempt[c] + 1 < Attempts
    BY <1>3, RpcAssumption DEF IInv, TypeOK, Rounds, AnswerFault
  <2> QED
    BY <1>3, <2>1, RaiseIInv, BackoffIInv DEF AnswerFault
<1>4. CASE AnswerThrottled(c)
  <2>1. attempt[c] \in Nat /\ pc[c] = "posted"
    BY <1>4 DEF IInv, TypeOK, AnswerThrottled
  <2>2. CASE attempt[c] < Attempts - 1 /\ Backoff(c)
    BY <2>1, <2>2, BackoffIInv, RpcAssumption
  <2> QED
    BY <1>2, <1>3, <1>4, <2>1, <2>2, RaiseIInv DEF AnswerThrottled, AnswerError
<1> QED
  BY <1>1, <1>2, <1>3, <1>4 DEF Reply

(* Every step preserves the invariant.                                     *)
LEMMA NextIInv == IInv /\ [Next]_vars => IInv'
<1> SUFFICES ASSUME IInv, [Next]_vars PROVE IInv'
  OBVIOUS
<1>1. ASSUME NEW c \in Calls, Acquire(c) PROVE IInv'
  <2>1. PermitsKept' /\ free' \in 0..Permits
    <3>1. /\ c \notin Holding /\ Holding' = Holding \cup {c}
          /\ free > 0 /\ free' = free - 1
      BY <1>1 DEF Acquire, Holding, IInv, TypeOK
    <3> QED
      BY <3>1, TakePermit
  <2>2. TypeOK'
    BY <1>1, <2>1 DEF IInv, TypeOK, Acquire
  <2>3. IdsDiffer' /\ Rounds' /\ Matched'
    BY <1>1, RpcAssumption DEF IInv, TypeOK, Acquire, IdsDiffer, Rounds, Matched
  <2> QED
    BY <2>1, <2>2, <2>3 DEF IInv
<1>2. ASSUME NEW c \in Calls, Post(c) PROVE IInv'
  <2>1. Holding' = Holding /\ free' = free
    BY <1>2 DEF Post, Holding, IInv, TypeOK
  <2>2. TypeOK'
    BY <1>2 DEF IInv, TypeOK, Post
  <2>3. IdsDiffer'
    BY <1>2 DEF IInv, TypeOK, Post, IdsDiffer
  <2>4. Rounds' /\ Matched'
    BY <1>2 DEF IInv, TypeOK, Post, Rounds, Matched
  <2> QED
    BY <2>1, <2>2, <2>3, <2>4, KeepPermits DEF IInv
<1>3. ASSUME NEW c \in Calls, Resume(c) PROVE IInv'
  <2>1. Holding' = Holding /\ free' = free
    BY <1>3 DEF Resume, Holding, IInv, TypeOK
  <2>2. TypeOK' /\ Rounds'
    BY <1>3, RpcAssumption DEF IInv, TypeOK, Resume, Rounds
  <2>3. IdsDiffer' /\ Matched'
    BY <1>3 DEF IInv, TypeOK, Resume, IdsDiffer, Matched
  <2> QED
    BY <2>1, <2>2, <2>3, KeepPermits DEF IInv
<1>4. ASSUME NEW c \in Calls, Cancel(c) PROVE IInv'
  <2>1. PermitsKept' /\ free' \in 0..Permits
    <3>1. CASE c \in Holding
      <4>1. Holding' = Holding \ {c} /\ free' = free + 1
        BY <1>4, <3>1 DEF Cancel, Holding, IInv, TypeOK
      <4> QED
        BY <3>1, <4>1, GivePermit
    <3>2. CASE c \notin Holding
      <4>1. Holding' = Holding /\ free' = free
        BY <1>4, <3>2 DEF Cancel, Holding, IInv, TypeOK
      <4> QED
        BY <4>1, KeepPermits DEF IInv, TypeOK
    <3> QED
      BY <3>1, <3>2
  <2>2. TypeOK'
    BY <1>4, <2>1, RpcAssumption DEF IInv, TypeOK, Cancel, Ended
  <2>3. IdsDiffer' /\ Rounds' /\ Matched'
    BY <1>4 DEF IInv, TypeOK, Cancel, IdsDiffer, Rounds, Matched
  <2> QED
    BY <2>1, <2>2, <2>3 DEF IInv
<1>5. CASE UNCHANGED vars
  BY <1>5 DEF vars, IInv, TypeOK, PermitsKept, Holding, IdsDiffer, Rounds, Matched
<1> QED
  BY <1>1, <1>2, <1>3, <1>4, <1>5, ReplyIInv DEF Next, Call

(* The client keeps the invariant.                                         *)
THEOREM RpcInvariant == Spec => []IInv
BY InitIInv, NextIInv, PTL DEF Spec

-----------------------------------------------------------------------------

(* Types; in particular the semaphore is never released above its size, by *)
(* whatever path a call ends, and never goes below zero.                   *)
THEOREM RpcTypeCorrect == Spec => []TypeOK
<1>1. IInv => TypeOK
  BY DEF IInv
<1> QED
  BY <1>1, RpcInvariant, PTL

(* No permit is lost: with all calls ended, all permits are free again.    *)
THEOREM PermitsComeBack == Spec => [](Holding = {} => free = Permits)
<1>1. IInv => (Holding = {} => free = Permits)
  BY FS_EmptySet DEF IInv, TypeOK, PermitsKept
<1> QED
  BY <1>1, RpcInvariant, PTL

(* Overlapping calls never take each other's answers.                      *)
THEOREM AnswersAreOwn == Spec => []OwnAnswers
<1>1. IInv => OwnAnswers
  BY DEF IInv, Matched, IdsDiffer, OwnAnswers
<1> QED
  BY <1>1, RpcInvariant, PTL

(* The statement after the retry loop is never reached.                    *)
THEOREM LoopNeverRunsOut == Spec => []NeverExhausted
<1>1. IInv => NeverExhausted
  BY DEF IInv, Rounds, NeverExhausted
<1> QED
  BY <1>1, RpcInvariant, PTL
================================================================================

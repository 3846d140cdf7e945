------------------------------ MODULE Decoding ------------------------------
(***************************************************************************)
(* decode_events and decode_transaction (blockchain/event_decoder.py,      *)
(* decoder.py): which logs become approvals or movements, and what the     *)
(* coverage says about the others.                                         *)
(*                                                                         *)
(* A log is [signature, topics (how many), data ("empty", "word", "pairs"  *)
(* for two uint256 or two equally long arrays, "other"), amount, padded    *)
(* (the indexed addresses have twelve zero bytes), owner, spender].  An    *)
(* amount is one of Amounts: what the code tells apart.                    *)
(***************************************************************************)
EXTENDS Naturals, Sequences

CONSTANT ZeroAddress

(* "cap96" is exactly 2^96 - 1, "huge" is 2^255 or more.                   *)
Amounts == {"zero", "one", "finite", "cap96", "huge"}

IsUnlimited(amount) == amount \in {"cap96", "huge"}

IsNft(log) == log.topics = 4

(* The layouts the decoder accepts; every other log is counted as unknown. *)
Decodes(log) ==
    /\ log.padded
    /\ \/ /\ log.signature \in {"transfer", "approval"}
          /\ \/ log.topics = 3 /\ log.data = "word"
             \/ log.topics = 4 /\ log.data = "empty"
       \/ /\ log.signature = "operator" /\ log.topics = 3 /\ log.data = "word"
          /\ log.amount \in {"zero", "one"}
       \/ log.signature \in {"single", "batch"} /\ log.topics = 4 /\ log.data = "pairs"

Approves(log) == Decodes(log) /\ log.signature \in {"approval", "operator"}

Standard(log) ==
    IF log.signature = "operator" THEN "operator"
    ELSE IF IsNft(log) THEN "ERC721" ELSE "ERC20"

OwnerRole(owner, tx) ==
    IF owner = tx.sender THEN "sender"
    ELSE IF owner = tx.recipient THEN "called_contract" ELSE "other"

LogId(n) == <<"log", n>>

(* The approval of the log at position n.                                  *)
ApprovalOf(n, log, tx) ==
    [standard |-> Standard(log),
     spender |-> log.spender,
     role |-> OwnerRole(log.owner, tx),
     amount |-> log.amount,
     unlimited |-> IF Standard(log) = "operator" THEN log.amount = "one"
                   ELSE Standard(log) = "ERC20" /\ IsUnlimited(log.amount),
     cites |-> {LogId(n)}]

(* A failed transaction has no completed effect: its logs are not decoded. *)
Logs(tx) == IF tx.status = "success" THEN tx.logs ELSE <<>>

Approvals(tx) ==
    {ApprovalOf(n, Logs(tx)[n], tx) :
        n \in {m \in DOMAIN Logs(tx) : Approves(Logs(tx)[m])}}

EventCoverage(tx) ==
    IF \E n \in DOMAIN Logs(tx) : ~Decodes(Logs(tx)[n]) THEN "partial" ELSE "available"

LogIds(tx) == {LogId(n) : n \in DOMAIN Logs(tx)}
TxIds == {<<"tx", "transaction">>, <<"tx", "receipt">>, <<"tx", "block">>}
===========================================================================

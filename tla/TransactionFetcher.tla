------------------------ MODULE TransactionFetcher ------------------------
(***************************************************************************)
(* fetch_transaction (blockchain/transaction_fetcher.py): the transaction, *)
(* its receipt and the network are read in parallel, then the block at the *)
(* receipt's number, from a provider whose chain may be reorganised (or    *)
(* whose nodes may disagree) between any two reads.                        *)
(*                                                                         *)
(* A view is the chain as the provider may serve it: whether it knows the  *)
(* transaction, and the hash of the block at the transaction's height (a   *)
(* transaction that moved to another height is absent from this one).      *)
(***************************************************************************)
EXTENDS Naturals, FiniteSets

CONSTANTS Worlds,   \* records: chain[v] = [tx, hash], moves (a bound of the model on
                    \* changes of view), and what other modules read
          Views,    \* names of the views
          NoView,   \* nothing was read yet
          NoHash    \* there is no block at that height

ASSUME FetchAssumption ==
    /\ NoView \notin Views
    /\ \A w \in Worlds : w.moves \in Nat
    /\ \A w \in Worlds, v \in Views :
          /\ w.chain[v].tx \in {"absent", "pending", "mined"}
          /\ w.chain[v].tx = "mined" => w.chain[v].hash # NoHash

VARIABLES world,     \* the provider, chosen at the start
          now,       \* the view it serves
          moves,     \* how often it changed
          pc,        \* where the analysis stands
          network,   \* the answer of eth_chainId
          txAt,      \* the view in which the transaction was read
          receiptAt, \* the view in which its receipt was read
          blockAt    \* the view in which its block was read

reads == <<network, txAt, receiptAt, blockAt>>
fetchVars == <<world, now, moves, pc, reads>>

Tx(v) == world.chain[v].tx
Hash(v) == world.chain[v].hash

FetchTypeOK ==
    /\ now \in Views
    /\ moves \in 0 .. world.moves
    /\ network \in {"unread", "right", "wrong"}
    /\ {txAt, receiptAt, blockAt} \subseteq Views \cup {NoView}

FetchInit ==
    /\ world \in Worlds
    /\ now \in Views
    /\ moves = 0
    /\ pc = "gather"
    /\ network = "unread"
    /\ txAt = NoView /\ receiptAt = NoView /\ blockAt = NoView

ProviderMoves ==
    /\ moves < world.moves
    /\ moves' = moves + 1
    /\ now' \in Views \ {now}
    /\ UNCHANGED <<world, pc, reads>>

---------------------------------------------------------------------------
(* The three calls under gather, in any order.                             *)

ReadNetwork ==
    /\ pc = "gather" /\ network = "unread"
    /\ network' \in {"right", "wrong"}
    /\ UNCHANGED <<world, now, moves, pc, txAt, receiptAt, blockAt>>

ReadTransaction ==
    /\ pc = "gather" /\ txAt = NoView
    /\ txAt' = now
    /\ UNCHANGED <<world, now, moves, pc, network, receiptAt, blockAt>>

ReadReceipt ==
    /\ pc = "gather" /\ receiptAt = NoView
    /\ receiptAt' = now
    /\ UNCHANGED <<world, now, moves, pc, network, txAt, blockAt>>

(* RpcError of any call: gather raises the first one.                      *)
FetchFails ==
    /\ pc \in {"gather", "block"}
    /\ pc' = "error"
    /\ UNCHANGED <<world, now, moves, reads>>

Answered == network # "unread" /\ txAt # NoView /\ receiptAt # NoView
Missing == Tx(txAt) # "mined" \/ Tx(receiptAt) # "mined"

(* Not found, without a receipt or without a block number: unavailable     *)
(* (TransactionUnavailable refunds the daily budget).  Another network is  *)
(* an error.                                                               *)
Gathered ==
    /\ pc = "gather" /\ Answered
    /\ pc' = IF network = "wrong" THEN "error" ELSE IF Missing THEN "unavailable" ELSE "block"
    /\ UNCHANGED <<world, now, moves, reads>>

(* Faulty variant: the block found at the receipt's number is not compared.*)
ReadBlockUnchecked ==
    /\ pc = "block"
    /\ blockAt' = now
    /\ pc' = IF Hash(now) = NoHash THEN "error" ELSE "fetched"
    /\ UNCHANGED <<world, now, moves, network, txAt, receiptAt>>

(* eth_getBlockByNumber and the comparison of all hashes.                  *)
ReadBlock ==
    /\ pc = "block"
    /\ blockAt' = now
    /\ pc' = IF Hash(now) # NoHash /\ Hash(txAt) = Hash(receiptAt) /\ Hash(now) = Hash(receiptAt)
               THEN "fetched" ELSE "error"
    /\ UNCHANGED <<world, now, moves, network, txAt, receiptAt>>

FetchNext == \/ ReadNetwork \/ ReadTransaction \/ ReadReceipt \/ FetchFails
             \/ Gathered \/ ReadBlock

---------------------------------------------------------------------------
(* An analysis is refunded only if the right network once answered without *)
(* the transaction or without its receipt: a misconfigured RPC or a chain  *)
(* that changes between the reads is an error, not a missing transaction.  *)
RefundIsDue ==
    pc = "unavailable" =>
        /\ network = "right"
        /\ \E v \in {txAt, receiptAt} : Tx(v) # "mined"
===========================================================================

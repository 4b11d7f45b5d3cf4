------------------------------ MODULE Requests ------------------------------
(***************************************************************************)
(* The request handlers of the Electrum server that read the index or      *)
(* write to it (electrum_server.rs), on top of an index that follows its   *)
(* chain.  A handler that takes the read lock once answers from one state  *)
(* and leaves no trace, so it is an operator.  get_balance takes the lock  *)
(* twice, and the index moves on in between: "call" is its progress.       *)
(* Block events and pending traffic of other connections are the steps of  *)
(* ChainFollower.  The two subscribe requests are in ElectrumClient, the   *)
(* two header requests in HeaderRequests.                                  *)
(***************************************************************************)
EXTENDS Queries

CONSTANT Wallet    \* the scripts whose balance is asked for

ASSUME RequestsAssumption == Wallet \subseteq ScriptHash

VARIABLES
  call,    \* the get_balance request being answered
  moved    \* a block was connected or disconnected since its first read

rvars == <<fvars, call, moved>>

NoCall == [step |-> "none"]

Ok(value) == [ok |-> TRUE, value |-> value]
Err(code) == [ok |-> FALSE, code |-> code]

(* A request that names a script: parse_scripthash refuses anything that   *)
(* is not 64 hex digits, and the query may fail on the store.              *)
ScriptQuery(sh, fails, value) ==
  IF sh \in ScriptHash /\ ~fails THEN Ok(value) ELSE Err(-32601)

HandleGetHistory(sh) ==
  ScriptQuery(sh, FALSE, {[tx_hash |-> e.txid, height |-> e.height] : e \in GetHistory(sh)})

HandleGetMempool(sh) == ScriptQuery(sh, FALSE, GetMempool(sh))

HandleListUnspent(sh) == ScriptQuery(sh, ListUnspentFails(sh), ListUnspent(sh))

(* A transaction that is not in the store is an error.                     *)
HandleTransactionGet(t) == IF GetTransaction(t) THEN Ok(t) ELSE Err(-32601)

HandleFeeHistogram == Ok(FeeHistogram)

(* dispatch_request, for the requests that read the index once; any error, *)
(* an unknown method among them, has the same code.                        *)
Dispatch(method, param) ==
  CASE method = "get_history" -> HandleGetHistory(param)
    [] method = "get_mempool" -> HandleGetMempool(param)
    [] method = "listunspent" -> HandleListUnspent(param)
    [] method = "transaction.get" -> HandleTransactionGet(param)
    [] method = "get_fee_histogram" -> HandleFeeHistogram
    [] OTHER -> Err(-32601)

-----------------------------------------------------------------------------
(* handle_scripthash_get_balance, the first read ...                       *)
BalanceRead(sh) ==
  /\ Readable
  /\ call = NoCall
  /\ call' = [step |-> "confirmed", script |-> sh, confirmed |-> GetBalance(sh)]
  /\ moved' = FALSE
  /\ UNCHANGED fvars

(* ... and the second, with the reply.                                     *)
BalanceReply ==
  /\ Readable
  /\ call # NoCall
  /\ call' = NoCall
  /\ moved' = FALSE
  /\ UNCHANGED fvars

Replied == [confirmed |-> call.confirmed, unconfirmed |-> UnconfirmedDelta(call.script)]

(* Meanwhile a block event can reach the indexer thread ...                *)
BlockArrives ==
  /\ (\E b \in Block : Connect(b)) \/ Disconnect
  /\ moved' = (call # NoCall)
  /\ UNCHANGED call

(* ... and the thread goes on with its block.                              *)
BlockWork == Work /\ UNCHANGED <<call, moved>>

(* transaction.broadcast of another connection, or a status change.        *)
PoolChange == Pending /\ UNCHANGED <<call, moved>>

(* A restart ends every connection.                                        *)
ServerRestart == Restart /\ call' = NoCall /\ moved' = FALSE

RInit == FInit /\ call = NoCall /\ moved = FALSE

RNext ==
  \/ (\E sh \in Wallet : BalanceRead(sh)) \/ BalanceReply
  \/ BlockArrives \/ BlockWork \/ PoolChange \/ ServerRestart

RSpec == RInit /\ [][RNext]_rvars

-----------------------------------------------------------------------------
(* Whatever history, mempool or unspent list a client is given, it can     *)
(* fetch the confirmed transactions named in it: after any reorgs,         *)
(* evictions and restarts no such request is answered with an error, and   *)
(* listunspent itself never is.                                            *)
QueriesAnswered ==
  Readable =>
    /\ \A sh \in ScriptHash :
         /\ Dispatch("listunspent", sh).ok
         /\ \A e \in Dispatch("get_history", sh).value :
              e.height # 0 => Dispatch("transaction.get", e.tx_hash).ok
    /\ \A t \in Confirmed : Dispatch("transaction.get", t).ok

(* The two halves of a get_balance reply add up to the value of the        *)
(* unspent list when every pending transaction spends confirmed unspent    *)
(* outputs, whatever entered or left the pool between the two reads, as    *)
(* long as no block came or went between them.                             *)
BalanceAddsUp ==
  [][BalanceReply /\ ~moved /\ SpentBy(pendingTxs) \subseteq dbUtxos =>
       Replied.confirmed + Replied.unconfirmed =
         Total({e.outpoint : e \in ListUnspent(call.script)})]_rvars
=============================================================================

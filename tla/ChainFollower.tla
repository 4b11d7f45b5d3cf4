---------------------------- MODULE ChainFollower ----------------------------
(***************************************************************************)
(* The index following one best chain.  Block events arrive in chain order *)
(* (a block is connected on top of the tip, only the tip is disconnected), *)
(* interleaved with operations on the pending pool and with restarts       *)
(* between two events.  BlockSource models how far the real event source   *)
(* keeps that order.                                                       *)
(***************************************************************************)
EXTENDS IndexState

VARIABLES
  chain,   \* the blocks whose events the index has taken, lowest first
  below,   \* views a reader had before each block of chain was connected
  seen,    \* while the lock is held: the views as they were on taking it
  tracked  \* the transactions that were ever broadcast through this server

fvars == <<vars, chain, below, seen, tracked>>

(* What the queries of a reader are computed from, pending pool aside.     *)
CurrentView ==
  [utxos |-> dbUtxos,
   outputs |-> {<<o, dbOutputs[o]>> : o \in DOMAIN dbOutputs},
   history |-> {e[2] : e \in history},
   tip |-> tipHeight]

(* While the write lock is held readers wait: nothing new is visible.      *)
Views == IF job.op = "idle" THEN Append(below, CurrentView) ELSE seen

Abstract == INSTANCE ChainIndex WITH views <- Views

-----------------------------------------------------------------------------
Confirmed == UNION {Abstract!TxsOf(chain[i]) : i \in DOMAIN chain}

(* b is a valid next block: new transactions that spend outputs which      *)
(* exist and are unspent at that point of the chain.                       *)
Extends(b) ==
  \A i \in DOMAIN TxData[b] :
    LET t == TxData[b][i]
        earlier == Confirmed \cup {TxData[b][j] : j \in 1..(i - 1)}
    IN /\ t \notin earlier
       /\ Prevouts(t) \subseteq CreatedBy(earlier) \ SpentBy(earlier)

Connect(b) ==
  /\ Len(chain) + 1 \in Height
  /\ Extends(b)
  /\ Connected(b, Len(chain) + 1)
  /\ chain' = Append(chain, b)
  /\ below' = Views
  /\ seen' = Views
  /\ UNCHANGED tracked

Disconnect ==
  /\ chain # <<>>
  /\ Disconnected(Len(chain))
  /\ chain' = Abstract!Front(chain)
  /\ below' = Abstract!Front(below)
  /\ seen' = Views
  /\ UNCHANGED tracked

Work ==
  /\ ApplyStep \/ RollbackStep
  /\ seen' = IF job'.op = "idle" THEN <<>> ELSE seen
  /\ UNCHANGED <<chain, below, tracked>>

Pending ==
  /\ PendingStep
  /\ tracked' = tracked \cup (pendingTxs' \ pendingTxs)
  /\ UNCHANGED <<chain, below, seen>>

(* A clean restart: the indexer thread is between two events.              *)
Restart ==
  /\ job.op = "idle"
  /\ Reopen
  /\ UNCHANGED <<chain, below, seen, tracked>>

FInit == Init /\ chain = <<>> /\ below = <<>> /\ seen = <<>> /\ tracked = {}

FNext == (\E b \in Block : Connect(b)) \/ Disconnect \/ Work \/ Pending \/ Restart

FSpec == FInit /\ [][FNext]_fvars

-----------------------------------------------------------------------------
(* The confirmed UTXO set is exactly what the followed chain leaves        *)
(* unspent, after any sequence of connects, reorgs, restarts and mempool   *)
(* traffic.                                                                *)
UtxoSetExact ==
  job.op = "idle" => dbUtxos = CreatedBy(Confirmed) \ SpentBy(Confirmed)

(* A restart between two events changes nothing about confirmed data: the  *)
(* memory is what IndexState::new would rebuild, without duplicate history *)
(* entries and with undo records in the order they were pushed.            *)
RestartIsTransparent ==
  job.op = "idle" => /\ history = LoadHistory
                     /\ byHeight = LoadJournal
                     /\ tipHeight = dbTip

(* The index implements the stack of views: blocks appear atomically and a *)
(* rollback brings back the earlier view, field for field.                 *)
FollowsChain == Abstract!ChainSpec

-----------------------------------------------------------------------------
(* What the comments and tests say of the code and TLC refutes.            *)

(* A transaction broadcast through this server can be put back into the    *)
(* pending view when nakamoto reports it reverted, which                   *)
(* restore_pending_transaction does from its stored raw transaction.       *)
(* Rolling back the block that confirmed it deletes that.                  *)
RevertedCanBeRestored == job.op = "idle" => tracked \subseteq dbTxs
=============================================================================

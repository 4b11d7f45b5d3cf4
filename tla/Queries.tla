------------------------------- MODULE Queries -------------------------------
(***************************************************************************)
(* The read half of the index (indexer.rs, store.rs): what a client is     *)
(* told about a script while the lock is free.  Amounts stay far below     *)
(* 2^63 satoshi (there are 2.1 * 10^15), so the saturating additions of    *)
(* the code never saturate and are plain ones here; the saturating         *)
(* subtraction does.                                                       *)
(***************************************************************************)
EXTENDS ChainFollower, Integers, Functions

CONSTANTS
  VSize,    \* VSize[t]: virtual size of t in vbytes
  TxRank    \* TxRank[t]: place of t in the order of txid strings

(* Stands for u32::MAX, the height no block has: the largest integer of    *)
(* the model checker.                                                      *)
MaxU32 == 2147483647

ASSUME QueriesAssumption ==
  /\ MaxU32 \notin Height
  /\ VSize \in [Txid -> Nat]
  /\ TxRank \in [Txid -> Nat]
  /\ \A t, u \in Txid : TxRank[t] = TxRank[u] => t = u

(* The read lock that every query takes: the indexer thread holds the      *)
(* write half for as long as it works on a block.                          *)
Readable == job.op = "idle"

(* The amounts of all outputs there are.                                   *)
Value == [o \in CreatedBy(Txid) |-> Outputs[o[1]][o[2]].value]

Total(outpoints) == SumFunctionOnSet(Value, outpoints)

PaidTo(sh, outpoints) == {o \in outpoints : ScriptOf(o) = sh}

(* saturating_sub *)
Monus(a, b) == IF a > b THEN a - b ELSE 0

(* The order of sort keys: tuples compared field by field.  The lists the  *)
(* queries return are kept as sets together with the key they are sorted   *)
(* by.                                                                     *)
Before(k, l) ==
  \E i \in DOMAIN k : k[i] < l[i] /\ \A j \in 1..(i - 1) : k[j] = l[j]

-----------------------------------------------------------------------------
(* balance_for_script: the amounts under the script's prefix of "utxos".   *)
GetBalance(sh) == Total(PaidTo(sh, dbUtxos))

(* An outpoint whose output record load_output or                          *)
(* pending_output_for_outpoint finds.                                      *)
Known(o) == o \in Stored \/ PendingHas(pendingTxs, pendingOutputs, o)

(* Mutant: the change a pending transaction pays back is not counted.      *)
MutUnconfirmedDelta(sh) ==
  0 - Total(PaidTo(sh, {o \in SpentBy(pendingTxs) : Known(o)}))

(* unconfirmed_balance_delta_for_script: minus every known output a        *)
(* pending transaction spends, plus the unspent pending outputs.           *)
UnconfirmedDelta(sh) ==
  Total(PaidTo(sh, pendingOutputs))
    - Total(PaidTo(sh, {o \in SpentBy(pendingTxs) : Known(o)}))

-----------------------------------------------------------------------------
(* A StoredUnspent of a confirmed and of a pending output.                 *)
Unspent(o) ==
  [outpoint |-> o, height |-> IF o \in Stored THEN dbOutputs[o] ELSE 0, value |-> Value[o]]

UnspentPending(o) == [outpoint |-> o, height |-> 0, value |-> Value[o]]

(* The sort key (height, txid, vout) of list_unspent.                      *)
UnspentBefore(a, b) ==
  Before(<<a.height, TxRank[a.outpoint[1]], a.outpoint[2]>>,
         <<b.height, TxRank[b.outpoint[1]], b.outpoint[2]>>)

(* dedup_by_key: of neighbours with the same outpoint the first stays.     *)
Dedup(entries) ==
  {e \in entries :
     ~\E d \in entries :
        /\ d.outpoint = e.outpoint /\ UnspentBefore(d, e)
        /\ ~\E m \in entries : UnspentBefore(d, m) /\ UnspentBefore(m, e)}

(* Mutant: confirmed outputs that a pending transaction spends stay.       *)
MutListUnspent(sh) ==
  Dedup({Unspent(o) : o \in PaidTo(sh, dbUtxos)}
          \cup {UnspentPending(o) : o \in PaidTo(sh, pendingOutputs)})

(* Indexer::list_unspent: the confirmed outputs that no pending            *)
(* transaction spends, then the pending ones, sorted and deduplicated.     *)
ListUnspent(sh) ==
  Dedup({Unspent(o) : o \in PaidTo(sh, dbUtxos \ SpentBy(pendingTxs))}
          \cup {UnspentPending(o) : o \in PaidTo(sh, pendingOutputs)})

(* list_unspent_for_script fails on an unspent entry without its output.   *)
ListUnspentFails(sh) == ~(PaidTo(sh, dbUtxos) \subseteq Stored)

-----------------------------------------------------------------------------
InputValue(t) == Total({o \in Prevouts(t) : Known(o)})

Fee(t) == Monus(InputValue(t), Total(Created(t)))

(* Mutant: an input is unconfirmed only if its transaction is pending.     *)
MutMempoolEntry(t) ==
  [txid |-> t, fee |-> Fee(t),
   height |-> IF \E o \in Prevouts(t) \ Stored : Known(o) THEN -1 ELSE 0]

(* An entry of pending_mempool_for_script: height -1 as soon as an input   *)
(* is not the output of a stored transaction, 0 otherwise.                 *)
MempoolEntry(t) ==
  [txid |-> t, fee |-> Fee(t),
   height |-> IF Prevouts(t) \subseteq Stored THEN 0 ELSE -1]

GetMempool(sh) == {MempoolEntry(t) : t \in PendingHistoryOf(sh)}

FeeRate(t) == Fee(t) \div (IF VSize[t] = 0 THEN 1 ELSE VSize[t])

(* Mutant: an input that spends a pending output counts as unknown.        *)
MutHistogramTxs == {t \in pendingTxs : Prevouts(t) \subseteq Stored /\ FeeRate(t) > 0}

(* The pending transactions fee_histogram puts into a bucket.              *)
HistogramTxs ==
  {t \in pendingTxs : (\A o \in Prevouts(t) : Known(o)) /\ FeeRate(t) > 0}

(* fee_histogram: the buckets <<rate, total vsize>>.                       *)
FeeHistogram ==
  LET bucket(r) == {t \in HistogramTxs : FeeRate(t) = r}
      row(r) == <<r, SumFunctionOnSet(VSize, bucket(r))>>
  IN {row(FeeRate(t)) : t \in HistogramTxs}

-----------------------------------------------------------------------------
(* get_history: one entry per confirmed history key of the script (the     *)
(* sequence is the input or output index) and one per pending transaction. *)
GetHistory(sh) ==
  {[txid |-> e[2][4], height |-> e[2][2], sequence |-> e[2][5] - 1] :
     e \in {x \in history : x[2][1] = sh}}
    \cup {[txid |-> t, height |-> 0, sequence |-> 0] : t \in PendingHistoryOf(sh)}

(* Mutant: the txid is not part of the sort key.                           *)
MutHistorySortKey(e) == <<IF e.height = 0 THEN MaxU32 ELSE e.height, e.sequence, 0>>

(* The sort key of get_history: unconfirmed entries come last.             *)
HistorySortKey(e) ==
  <<IF e.height = 0 THEN MaxU32 ELSE e.height, e.sequence, TxRank[e.txid]>>

(* has_history: only confirmed entries count.                              *)
HasHistory(sh) == \E e \in history : e[2][1] = sh

(* load_tx *)
GetTransaction(t) == t \in dbTxs

-----------------------------------------------------------------------------
(* The chain and the pool together, as a client sees them.                 *)
Visible == Confirmed \cup pendingTxs

(* After any reorgs, replacements and restarts list_unspent gives every    *)
(* output of the chain and of the pool that neither of them spends, once,  *)
(* with its height in the chain or 0 - as long as no pending transaction   *)
(* is in a block as well.                                                  *)
UnspentExact ==
  Readable /\ pendingTxs \cap Confirmed = {} =>
    \A sh \in ScriptHash :
      LET list == ListUnspent(sh)
      IN /\ {e.outpoint : e \in list} = PaidTo(sh, CreatedBy(Visible) \ SpentBy(Visible))
         /\ \A d, e \in list : d.outpoint = e.outpoint => d = e
         /\ \A e \in list :
              \/ e.height = 0 /\ e.outpoint[1] \in pendingTxs
              \/ e.height \in DOMAIN chain /\ e.outpoint[1] \in Abstract!TxsOf(chain[e.height])

(* What t really pays: an input that names no output is worth nothing.     *)
TrueFee(t) == Monus(Total(Prevouts(t) \cap CreatedBy(Txid)), Total(Created(t)))

(* get_mempool says of a pending transaction that it has an unconfirmed    *)
(* input exactly when it spends something that no block of the chain       *)
(* created, also when a reorg took the block out again, never overstates   *)
(* its fee, and knows it when the chain and the pool created all it spends.*)
MempoolExact ==
  Readable =>
    \A t \in pendingTxs :
      LET e == MempoolEntry(t)
      IN /\ e.height = 0 <=> Prevouts(t) \subseteq CreatedBy(Confirmed)
         /\ e.fee <= TrueFee(t)
         /\ Prevouts(t) \subseteq CreatedBy(Visible) => e.fee = TrueFee(t)

(* The histogram accounts for every pending transaction that pays at least *)
(* one satoshi per vbyte and spends only what the index can see.           *)
HistogramComplete ==
  Readable =>
    SumFunctionOnSet([row \in FeeHistogram |-> row[2]], FeeHistogram) =
      SumFunctionOnSet(VSize,
        {t \in pendingTxs :
           Prevouts(t) \subseteq CreatedBy(Visible) /\ TrueFee(t) >= VSize[t]})

(* The order of a script's history is fixed by its entries alone, so that  *)
(* the status a client keeps survives a restart, which loads the entries   *)
(* in another order than they were pushed in.                              *)
HistoryOrderFixed ==
  Readable =>
    \A sh \in ScriptHash : \A d, e \in GetHistory(sh) :
      \/ <<d.txid, d.height>> = <<e.txid, e.height>>
      \/ Before(HistorySortKey(d), HistorySortKey(e))
      \/ Before(HistorySortKey(e), HistorySortKey(d))

(* "Positive values mean pending inflows exceed pending outflows; negative *)
(* values mean more confirmed UTXOs are being spent than are being         *)
(* received."  TLC refutes it: an output that one pending transaction      *)
(* creates and another spends is subtracted and was never added.           *)
DeltaCountsConfirmed ==
  Readable =>
    \A sh \in ScriptHash :
      UnconfirmedDelta(sh) = Total(PaidTo(sh, pendingOutputs))
                              - Total(PaidTo(sh, SpentBy(pendingTxs) \cap dbUtxos))
=============================================================================

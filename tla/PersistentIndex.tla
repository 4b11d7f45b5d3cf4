-------------------------- MODULE PersistentIndex --------------------------
(***************************************************************************)
(* The on-disk store (store.rs): six sled trees, of which "meta" holds two *)
(* values, the tip height and the pending txid list.  Every store call     *)
(* writes one tree entry and is durable on its own; there is no            *)
(* transaction spanning two calls, so the process can stop, or a call can  *)
(* fail, between any two of them.  The operations of this module say what  *)
(* one call does to one tree.                                              *)
(***************************************************************************)
EXTENDS Transactions, FiniteSets

CONSTANT Height    \* the block heights in play

ASSUME HeightAssumption == Height \subseteq Nat

VARIABLES
  dbHistory,   \* tree "history": set of history keys
  dbOutputs,   \* tree "outputs": outpoint -> height it was stored with
  dbTxs,       \* tree "txs": the txids whose raw transaction is stored
  dbUtxos,     \* tree "utxos": the outpoints stored as unspent
  dbJournal,   \* tree "journal": undo records, keyed by (height, seq)
  dbTip,       \* meta "tip_height" (0 when absent)
  dbPending    \* meta "pending_txids"

dbVars == <<dbHistory, dbOutputs, dbTxs, dbUtxos, dbJournal, dbTip, dbPending>>

HistoryKind == {"Spend", "Fund"}

(* history_key: script hash, height, kind, txid, input or output index.    *)
HistoryKey == ScriptHash \X Height \X HistoryKind \X Txid \X (Nat \ {0})

(* An undo record: its journal key is (height, seq), its payload is "of".  *)
JournalAct ==
       [height : Height, seq : Nat, kind : {"Tx"}, of : {<<t>> : t \in Txid}]
  \cup [height : Height, seq : Nat, kind : {"History"}, of : HistoryKey]
  \cup [height : Height, seq : Nat, kind : {"Output", "Spend"}, of : OutPoint]

StoreTypeOK ==
  /\ dbHistory \subseteq HistoryKey
  /\ DOMAIN dbOutputs \subseteq RealOutPoint
  /\ dbOutputs \in [DOMAIN dbOutputs -> Height]
  /\ dbTxs \subseteq Txid
  /\ dbUtxos \subseteq OutPoint
  /\ dbJournal \subseteq JournalAct
  /\ dbTip \in Nat
  /\ dbPending \subseteq Txid

(* A database that has just been created.                                  *)
OpenEmpty ==
  /\ dbHistory = {}
  /\ dbOutputs = [o \in {} |-> 0]
  /\ dbTxs = {}
  /\ dbUtxos = {}
  /\ dbJournal = {}
  /\ dbTip = 0
  /\ dbPending = {}

-----------------------------------------------------------------------------
(* store_output's insert into "outputs" replaces an earlier value.         *)
PutOutput(outputs, o, h) ==
  [x \in DOMAIN outputs \cup {o} |-> IF x = o THEN h ELSE outputs[x]]

(* delete_output *)
DropOutput(outputs, o) == [x \in DOMAIN outputs \ {o} |-> outputs[x]]

(* load_output(o) is Some *)
HasOutput(o) == o \in DOMAIN dbOutputs

SameKey(a, b) == a.height = b.height /\ a.seq = b.seq

(* delete_journal_key *)
DropAct(journal, a) == {b \in journal : ~SameKey(a, b)}

(* store_journal_action: an insert replaces the record under the same key. *)
PutAct(journal, a) == DropAct(journal, a) \cup {a}

(* The value of a tree after k store calls of a step got through, when the *)
(* n-th call of that step is the one that turns "old" into "new".          *)
Wrote(k, n, new, old) == IF k >= n THEN new ELSE old
=============================================================================

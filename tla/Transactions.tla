---------------------------- MODULE Transactions ----------------------------
(***************************************************************************)
(* The data the index is built from: transactions, their inputs and        *)
(* outputs, and blocks.  A txid commits to the content of its transaction, *)
(* so the content is a constant function of the txid.  Input and output    *)
(* positions are numbered from 1 here and from 0 in the code.              *)
(***************************************************************************)
EXTENDS Naturals, Sequences

CONSTANTS
  Txid,          \* transaction ids
  ScriptHash,    \* script hashes, the key clients query by
  NullOutPoint,  \* the previous output of a coinbase input
  Inputs,        \* Inputs[t]: sequence of the previous outputs t spends
  Outputs,       \* Outputs[t]: sequence of [script, value] records
  Block,         \* blocks (block hashes)
  TxData         \* TxData[b]: the sequence of txids in block b

OutPoint == Txid \X (Nat \ {0})

(* Bitcoin's rules for what a transaction and a block are.                 *)
ASSUME TransactionsAssumption ==
  /\ NullOutPoint \notin OutPoint
  /\ Inputs \in [Txid -> Seq(OutPoint \cup {NullOutPoint})]
  /\ Outputs \in [Txid -> Seq([script : ScriptHash, value : Nat])]
  /\ TxData \in [Block -> Seq(Txid)]

(* No transaction of a block spends an output twice.                       *)
ASSUME DistinctInputs ==
  \A b \in Block : \A n \in DOMAIN TxData[b] :
    LET ins == Inputs[TxData[b][n]]
    IN \A i, j \in DOMAIN ins : ins[i] = ins[j] => i = j

(* The outpoints t really spends: null previous outputs left out.          *)
Prevouts(t) == {Inputs[t][i] : i \in DOMAIN Inputs[t]} \ {NullOutPoint}

(* The transactions t spends from.                                         *)
Parents(t) == {o[1] : o \in Prevouts(t)}

(* The outpoints t creates.                                                *)
Created(t) == {<<t, v>> : v \in DOMAIN Outputs[t]}

(* The script an existing outpoint pays to.                                *)
ScriptOf(o) == Outputs[o[1]][o[2]].script

Exists(o) == o[2] \in DOMAIN Outputs[o[1]]

(* The outpoints that some transaction creates.                            *)
RealOutPoint == {o \in OutPoint : Exists(o)}

=============================================================================

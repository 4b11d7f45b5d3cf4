----------------------------- MODULE ChainIndex -----------------------------
(***************************************************************************)
(* What the index promises its readers when the blocks of one best chain   *)
(* come and go in order: connecting a block is one atomic change of the    *)
(* view, and disconnecting it brings back exactly the view from before.    *)
(* The state is the stack of views, one for every height.                  *)
(***************************************************************************)
EXTENDS Transactions

VARIABLE views

Last(s) == s[Len(s)]
Front(s) == SubSeq(s, 1, Len(s) - 1)

(* What a reader under the read lock can learn about the chain.            *)
EmptyView == [utxos |-> {}, outputs |-> {}, history |-> {}, tip |-> 0]

TxsOf(b) == {TxData[b][i] : i \in DOMAIN TxData[b]}

BlockCreates(b) == UNION {Created(t) : t \in TxsOf(b)}
BlockSpends(b) == UNION {Prevouts(t) : t \in TxsOf(b)}

SpendEntries(t, h) ==
  {<<ScriptOf(Inputs[t][i]), h, "Spend", t, i>> :
     i \in {j \in DOMAIN Inputs[t] : Inputs[t][j] # NullOutPoint}}

FundEntries(t, h) ==
  {<<Outputs[t][v].script, h, "Fund", t, v>> : v \in DOMAIN Outputs[t]}

BlockEntries(b, h) ==
  UNION {SpendEntries(t, h) \cup FundEntries(t, h) : t \in TxsOf(b)}

(* The view after block b, the whole block at once.                        *)
WithBlock(view, b) ==
  LET h == view.tip + 1
  IN [utxos |-> (view.utxos \cup BlockCreates(b)) \ BlockSpends(b),
      outputs |-> view.outputs \cup {<<o, h>> : o \in BlockCreates(b)},
      history |-> view.history \cup BlockEntries(b, h),
      tip |-> h]

ChainInit == views = <<EmptyView>>

(* A block only spends what is unspent below it or what it creates.        *)
ConnectBlock(b) ==
  /\ BlockSpends(b) \subseteq Last(views).utxos \cup BlockCreates(b)
  /\ views' = Append(views, WithBlock(Last(views), b))

DisconnectBlock ==
  /\ Len(views) > 1
  /\ views' = Front(views)

ChainNext == DisconnectBlock \/ \E b \in Block : ConnectBlock(b)

ChainSpec == ChainInit /\ [][ChainNext]_views
=============================================================================

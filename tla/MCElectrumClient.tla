-------------------------- MODULE MCElectrumClient --------------------------
(***************************************************************************)
(* ElectrumClient over a reorganisation of one block: a1, which mines one  *)
(* transaction, is replaced by c1.                                         *)
(***************************************************************************)
EXTENDS ElectrumClient, TLC

CONSTANTS g, a1, c1, coin, alice, peer

Connected(b) == [type |-> "Connected", block |-> b, height |-> 1]
Disconnected(b) == [type |-> "Disconnected", block |-> b, height |-> 1]

MCTouches == [t \in Tx |-> {alice}]

(* The chain grows to a1, falls back and grows to c1, which does not mine  *)
(* the transaction.  Nakamoto's tree is at least as far as what is         *)
(* reported.                                                               *)
MCLog == <<Connected(a1), Disconnected(a1), Connected(c1), [type |-> "Synced"]>>
MCTrees ==
  LET base == 0 :> g
      chain == <<base, base @@ (1 :> a1), base, base @@ (1 :> c1), base @@ (1 :> c1)>>
  IN [n \in 0..4 |-> {chain[m] : m \in (n + 1)..5}]
MCBlockTxs == (g :> {}) @@ (a1 :> {coin}) @@ (c1 :> {})

(* Excuses are never withdrawn, and the properties speak of clients that   *)
(* have none: what follows one is not explored.                            *)
Unexcused == excuses = {}
=============================================================================

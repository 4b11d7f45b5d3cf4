---------------------------- MODULE MCIndexState ----------------------------
(***************************************************************************)
(* A small instance of IndexState.  A coinbase funds script A; "pay" and   *)
(* "rbf" spend the same output of it, "child" spends the change of "pay"   *)
(* and "grand" spends "child".  The configurations choose which of them    *)
(* exist, which are broadcast and which blocks arrive at which heights.    *)
(***************************************************************************)
EXTENDS StoreCodec, TLC

CONSTANTS cb, pay, rbf, child, grand, A, B, base, left, right

MCInputs ==
  LET all == (cb :> <<NullOutPoint>>) @@ (pay :> <<<<cb, 1>>>>) @@ (rbf :> <<<<cb, 1>>>>)
             @@ (child :> <<<<pay, 1>>>>) @@ (grand :> <<<<child, 1>>>>)
  IN [t \in Txid |-> all[t]]

Out(sh, v) == [script |-> sh, value |-> v]

MCOutputs ==
  LET all == (cb :> <<Out(A, 3)>>) @@ (pay :> <<Out(A, 2), Out(B, 1)>>)
             @@ (rbf :> <<Out(B, 3)>>) @@ (child :> <<Out(B, 2)>>)
             @@ (grand :> <<Out(A, 1)>>)
  IN [t \in Txid |-> all[t]]

MCTxData ==
  LET all == (base :> <<cb>>) @@ (left :> <<pay>>) @@ (right :> <<rbf>>)
  IN [b \in Block |-> all[b]]
=============================================================================

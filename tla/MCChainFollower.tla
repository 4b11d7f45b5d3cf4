--------------------------- MODULE MCChainFollower ---------------------------
(***************************************************************************)
(* Requests, and the index below it, on a chain of up to three blocks.     *)
(* "left" and "right" are competing second blocks that spend the same      *)
(* coinbase output; "left" spends an output inside the block that creates  *)
(* it; "top" extends "left" and spends from both blocks below it.  "pay",  *)
(* "child" and "merge" are a chain of three when they are pending.  No     *)
(* rule of the server forbids "deep", which spends from "merge" and also   *)
(* what "merge" spends and what its first ancestor "pay" spends.           *)
(***************************************************************************)
EXTENDS Requests, TLC

CONSTANTS cb, pay, rbf, child, merge, deep, A, B, base, left, right, top

MCInputs ==
  (cb :> <<NullOutPoint>>) @@ (pay :> <<<<cb, 1>>>>) @@ (rbf :> <<<<cb, 1>>>>)
    @@ (child :> <<<<pay, 1>>>>) @@ (merge :> <<<<cb, 2>>, <<child, 1>>>>)
    @@ (deep :> <<<<cb, 1>>, <<cb, 2>>, <<merge, 1>>>>)

Out(sh, v) == [script |-> sh, value |-> v]

MCOutputs ==
  (cb :> <<Out(A, 5), Out(B, 2)>>) @@ (pay :> <<Out(A, 3), Out(B, 1)>>)
    @@ (rbf :> <<Out(B, 3)>>) @@ (child :> <<Out(B, 2)>>) @@ (merge :> <<Out(A, 3)>>)
    @@ (deep :> <<Out(A, 7)>>)

MCTxData ==
  (base :> <<cb>>) @@ (left :> <<pay, child>>) @@ (right :> <<rbf>>) @@ (top :> <<merge>>)

(* "deep" pays less than one satoshi per vbyte.                            *)
MCVSize == [t \in Txid |-> IF t = deep THEN 4 ELSE 1]

MCTxRank ==
  (cb :> 1) @@ (pay :> 4) @@ (rbf :> 2) @@ (child :> 3) @@ (merge :> 5) @@ (deep :> 6)
=============================================================================

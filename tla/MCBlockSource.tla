---------------------------- MODULE MCBlockSource ----------------------------
(***************************************************************************)
(* HeaderRequests, and the block source below it, on a block tree with two *)
(* branches from height 1, so that the best chain can move from one branch *)
(* to the other and back.  The header request asks for both heights of the *)
(* first reorganisation.                                                   *)
(***************************************************************************)
EXTENDS HeaderRequests, TLC

CONSTANTS wallet, a1, a2, a3, c1, c2

MCBranch ==
  LET all == (a1 :> <<a1>>) @@ (a2 :> <<a1, a2>>) @@ (a3 :> <<a1, a2, a3>>)
             @@ (c1 :> <<c1>>) @@ (c2 :> <<c1, c2>>)
  IN [b \in Block |-> all[b]]

MCRanges == {<<1, 2>>}
MCNoRanges == {}
=============================================================================

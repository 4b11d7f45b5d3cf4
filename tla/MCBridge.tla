------------------------------ MODULE MCBridge ------------------------------
(***************************************************************************)
(* Bridge with records of three and two bytes, on two networks in their    *)
(* default directories.                                                    *)
(***************************************************************************)
EXTENDS Bridge
=============================================================================

----------------------------- MODULE PendingPool -----------------------------
(***************************************************************************)
(* What IndexState (indexer.rs) computes from its set of pending           *)
(* (unconfirmed) transactions: the unspent view, the conflicts of a new    *)
(* transaction, the chain of descendants that an eviction removes and the  *)
(* scripts whose clients must be told.  P is always the set of pending     *)
(* txids, the keys of pending_txs.                                         *)
(***************************************************************************)
EXTENDS Transactions

(* pending_spent_outpoints *)
SpentBy(P) == UNION {Prevouts(t) : t \in P}

CreatedBy(P) == UNION {Created(t) : t \in P}

(* rebuild_pending_view: the outputs of pending transactions that no       *)
(* pending transaction spends.                                             *)
PendingView(P) == CreatedBy(P) \ SpentBy(P)

Children(P, t) == {c \in P : t \in Parents(c)}

(* forget_pending_transaction_chain_internal walks the children breadth    *)
(* first from the root: what it removes is the least set that holds the    *)
(* root and the pending children of its members.                           *)
ClosedUnderChildren(P, S) == \A t \in S : Children(P, t) \subseteq S

(* Mutant: only the direct children are walked.                            *)
MutChain(P, root) == {root} \cup Children(P, root)

Chain(P, root) ==
  {t \in P \cup {root} :
     \A S \in SUBSET (P \cup {root}) :
        root \in S /\ ClosedUnderChildren(P, S) => t \in S}

(* No transaction spends from itself: a txid is a hash of what its inputs  *)
(* name.  Nothing else is known of a transaction that is broadcast: the    *)
(* server decodes it and checks no rule of Bitcoin.                        *)
ASSUME TxidCommits == \A t \in Txid : t \notin Parents(t)

(* Mutant: only outputs of pending transactions can be fought over.        *)
MutConflicts(P, t) ==
  {c \in P \ Parents(t) : \E o \in Prevouts(c) \cap Prevouts(t) : o[1] \in P}

(* pending_conflicting_txids: the filter skips the parents of t; t itself  *)
(* is not skipped when it is already pending.                              *)
Conflicts(P, t) ==
  {c \in P \ Parents(t) : Prevouts(c) \cap Prevouts(t) # {}}

(* Everything the conflict loop of track_pending_transaction_internal      *)
(* evicts.  The loop evicts one chain after the other; a chain that lost   *)
(* members to an earlier one still has them in the union.                  *)
Evicted(P, t) == UNION {Chain(P, c) : c \in Conflicts(P, t)}

-----------------------------------------------------------------------------
(* pending_output_for_outpoint is Some: the cached view first, then the    *)
(* pending transaction itself.                                             *)
PendingHas(P, view, o) == o \in view \/ (o[1] \in P /\ Exists(o))

(* script_hash_for_outpoint, for the previous outputs of t: the scripts    *)
(* found in the pending view or among the stored outputs.                  *)
InputScripts(P, view, stored, t) ==
  {ScriptOf(o) : o \in {p \in Prevouts(t) : PendingHas(P, view, p) \/ p \in stored}}

OutputScripts(t) == {Outputs[t][v].script : v \in DOMAIN Outputs[t]}

(* pending_tx_touches_script holds of t for exactly these scripts.         *)
TouchedScripts(P, view, stored, t) ==
  InputScripts(P, view, stored, t) \cup OutputScripts(t)

(* pending_history_for_script, as the set of txids it lists for sh.        *)
PendingHistory(P, view, stored, sh) ==
  {t \in P : sh \in TouchedScripts(P, view, stored, t)}

(* Mutant: the scripts of spent outputs are left out.                      *)
MutAffectedScripts(P, view, stored, t) ==
  UNION {OutputScripts(d) : d \in Chain(P, t)}

(* pending_affected_scripts_for_tx: the scripts touched by t, pending or   *)
(* not, and by its pending descendants.                                    *)
AffectedScripts(P, view, stored, t) ==
  UNION {TouchedScripts(P, view, stored, d) : d \in Chain(P, t)}
=============================================================================

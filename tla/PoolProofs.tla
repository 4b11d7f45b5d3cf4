----------------------------- MODULE PoolProofs -----------------------------
(***************************************************************************)
(* Proofs about the pending pool of IndexState: what an eviction takes     *)
(* with it and whose subscribers are told, for any transactions, any order *)
(* of events, any failing store call and any restart.                      *)
(***************************************************************************)
EXTENDS IndexStateProofs

-----------------------------------------------------------------------------
(* Chains of descendants.                                                  *)

(* A chain is made of its root and of pending transactions.                *)
LEMMA ChainMembers ==
  ASSUME NEW P, NEW r
  PROVE  Chain(P, r) \subseteq P \cup {r} /\ r \in Chain(P, r)
BY DEF Chain

(* A chain is closed: the pending children of a member are members.        *)
LEMMA ChainClosed ==
  ASSUME NEW P, NEW r, NEW t \in Chain(P, r), NEW c \in P, t \in Parents(c)
  PROVE  c \in Chain(P, r)
<1> SUFFICES ASSUME NEW S \in SUBSET (P \cup {r}), r \in S, ClosedUnderChildren(P, S)
             PROVE  c \in S
  BY DEF Chain
<1>1. t \in S
  BY DEF Chain
<1> QED BY <1>1 DEF ClosedUnderChildren, Children

(* A chain is the least closed set that holds its root.                    *)
LEMMA ChainLeast ==
  ASSUME NEW P, NEW r, NEW S, S \subseteq P \cup {r}, r \in S, ClosedUnderChildren(P, S)
  PROVE  Chain(P, r) \subseteq S
BY DEF Chain

-----------------------------------------------------------------------------
(* Evictions.                                                              *)

(* What is left of the pool after t has replaced its conflicts does not    *)
(* spend from what was evicted.                                            *)
LEMMA EvictedClosed ==
  ASSUME NEW P, NEW t, NEW c \in P \ Evicted(P, t), NEW p \in Evicted(P, t)
  PROVE  p \notin Parents(c)
<1>1. PICK q \in Conflicts(P, t) : p \in Chain(P, q)
  BY DEF Evicted
<1>2. c \notin Chain(P, q)
  BY DEF Evicted
<1> QED BY <1>1, <1>2, ChainClosed

(* A replaced or stale transaction takes every pending descendant with it, *)
(* however deep the chain and whatever the transactions spend; only the    *)
(* replacement itself may spend from what it evicted.                      *)
THEOREM EvictionsAreComplete == Spec => EvictionTakesDescendants
<1> DEFINE Complete(t) ==
      \A c \in pendingTxs' \ {t} : Parents(c) \cap (pendingTxs \ pendingTxs') = {}
<1>1. ASSUME NEW t \in Broadcastable, Track(t, {}, 2) \/ ForgetChain(t, {})
      PROVE  Complete(t)
  <2>1. CASE Track(t, {}, 2)
    <3>1. pendingTxs' = (pendingTxs \ Evicted(pendingTxs, t)) \cup {t}
      BY <2>1 DEF Track, Joined
    <3> QED BY <3>1, EvictedClosed
  <2>2. CASE ForgetChain(t, {})
    <3>1. pendingTxs' = pendingTxs \ Chain(pendingTxs, t)
      BY <2>2 DEF ForgetChain
    <3> QED BY <3>1, ChainClosed
  <2> QED BY <1>1, <2>1, <2>2
<1>2. [\A t \in Broadcastable :
         pendingTxs' # pendingTxs /\ (Track(t, {}, 2) \/ ForgetChain(t, {})) => Complete(t)]_vars
  BY <1>1
<1> QED BY <1>2, PTL DEF EvictionTakesDescendants

-----------------------------------------------------------------------------
(* The scripts whose clients are told.                                     *)

(* With a fresh view, the outputs the pool knows are those of its members. *)
LEMMA PendingHasFresh ==
  ASSUME NEW P, P \subseteq Txid, NEW o \in OutPoint
  PROVE  PendingHas(P, PendingView(P), o) <=> (o[1] \in P /\ Exists(o))
<1>1. ASSUME o \in PendingView(P) PROVE o[1] \in P /\ Exists(o)
  <2>1. PICK t \in P : o \in Created(t)
    BY <1>1 DEF PendingView, CreatedBy
  <2>2. PICK v \in DOMAIN Outputs[t] : o = <<t, v>>
    BY <2>1 DEF Created
  <2> QED BY <2>2 DEF Exists
<1> QED BY <1>1 DEF PendingHas

(* When t touches a script, given a fresh view.                            *)
LEMMA TouchedFresh ==
  ASSUME NEW P, P \subseteq Txid, NEW stored, NEW t \in Txid, NEW sh
  PROVE  sh \in TouchedScripts(P, PendingView(P), stored, t) <=>
           \/ sh \in OutputScripts(t)
           \/ \E o \in Prevouts(t) : /\ sh = ScriptOf(o)
                                     /\ (o[1] \in P /\ Exists(o)) \/ o \in stored
<1>1. \A o \in Prevouts(t) :
        PendingHas(P, PendingView(P), o) <=> (o[1] \in P /\ Exists(o))
  BY PrevoutsType, PendingHasFresh
<1> QED BY <1>1 DEF TouchedScripts, InputScripts

(* A member whose touched scripts shrink loses a parent, and one whose     *)
(* touched scripts grow gains one.                                         *)
LEMMA TouchedChanges ==
  ASSUME NEW P, P \subseteq Txid, NEW Q, Q \subseteq Txid, NEW stored, NEW t \in Txid, NEW sh,
         sh \in TouchedScripts(P, PendingView(P), stored, t),
         sh \notin TouchedScripts(Q, PendingView(Q), stored, t)
  PROVE  \E p \in P \ Q : p \in Parents(t) /\ sh \in OutputScripts(p)
<1>1. PICK o \in Prevouts(t) : sh = ScriptOf(o) /\ o[1] \in P \ Q /\ Exists(o)
  BY TouchedFresh
<1>2. o[1] \in Parents(t) /\ sh \in OutputScripts(o[1])
  BY <1>1 DEF Parents, OutputScripts, ScriptOf, Exists
<1> QED BY <1>1, <1>2

(* A step that leaves pool and stored outputs alone changes no status.     *)
LEMMA SameHistory ==
  ASSUME UNCHANGED <<pendingTxs, pendingOutputs, dbOutputs>>, NEW sh
  PROVE  PendingHistoryOf(sh)' = PendingHistoryOf(sh)
BY DEF PendingHistoryOf, PendingHistory, TouchedScripts, InputScripts, PendingHas, Stored

(* Where a status changes: a transaction left or joined the pool, or one   *)
(* that stayed lost or gained a parent that pays the script.               *)
LEMMA StatusChange ==
  ASSUME NEW P, P \subseteq Txid, NEW Q, Q \subseteq Txid, NEW stored, NEW sh,
         PendingHistory(Q, PendingView(Q), stored, sh) # PendingHistory(P, PendingView(P), stored, sh)
  PROVE  \/ \E d \in P \ Q : sh \in TouchedScripts(P, PendingView(P), stored, d)
         \/ \E d \in Q \ P : sh \in TouchedScripts(Q, PendingView(Q), stored, d)
         \/ \E d \in P \cap Q, p \in P \ Q : p \in Parents(d) /\ sh \in OutputScripts(p)
         \/ \E d \in P \cap Q, p \in Q \ P :
               p \in Parents(d) /\ sh \in TouchedScripts(Q, PendingView(Q), stored, d)
<1> DEFINE inP(d) == sh \in TouchedScripts(P, PendingView(P), stored, d)
           inQ(d) == sh \in TouchedScripts(Q, PendingView(Q), stored, d)
<1>1. \/ \E d \in P : inP(d) /\ ~(d \in Q /\ inQ(d))
      \/ \E d \in Q : inQ(d) /\ ~(d \in P /\ inP(d))
  BY DEF PendingHistory
<1>2. ASSUME NEW d \in P \cap Q, inP(d), ~inQ(d)
      PROVE  \E p \in P \ Q : p \in Parents(d) /\ sh \in OutputScripts(p)
  BY <1>2, TouchedChanges
<1>3. ASSUME NEW d \in P \cap Q, inQ(d), ~inP(d)
      PROVE  \E p \in Q \ P : p \in Parents(d)
  BY <1>3, TouchedChanges
<1> HIDE DEF inP, inQ
<1>4. ASSUME NEW d \in P, inP(d), ~(d \in Q /\ inQ(d))
      PROVE  \/ \E x \in P \ Q : inP(x)
             \/ \E x \in P \cap Q, p \in P \ Q : p \in Parents(x) /\ sh \in OutputScripts(p)
  BY <1>2, <1>4
<1>5. ASSUME NEW d \in Q, inQ(d), ~(d \in P /\ inP(d))
      PROVE  \/ \E x \in Q \ P : inQ(x)
             \/ \E x \in P \cap Q, p \in Q \ P : p \in Parents(x) /\ inQ(x)
  BY <1>3, <1>5
<1> QED BY <1>1, <1>4, <1>5 DEF inP, inQ

(* Tracking t: the scripts of the evicted chains and those of t with its   *)
(* descendants are all that change.                                        *)
LEMMA TrackCovers ==
  ASSUME NEW P, P \subseteq Txid, NEW t \in Txid, NEW stored, NEW sh,
         NEW Q, \A x : x \in Q <=> x = t \/ x \in P \ Evicted(P, t),
         PendingHistory(Q, PendingView(Q), stored, sh) # PendingHistory(P, PendingView(P), stored, sh)
  PROVE  \/ sh \in AffectedScripts(Q, PendingView(Q), stored, t)
         \/ \E c \in Conflicts(P, t) : sh \in AffectedScripts(P, PendingView(P), stored, c)
<1>0. Q \subseteq Txid
  OBVIOUS
<1>1. ASSUME NEW d \in P \ Q, sh \in TouchedScripts(P, PendingView(P), stored, d)
      PROVE  \E c \in Conflicts(P, t) : sh \in AffectedScripts(P, PendingView(P), stored, c)
  <2>1. PICK c \in Conflicts(P, t) : d \in Chain(P, c)
    BY <1>1 DEF Evicted
  <2> QED BY <1>1, <2>1 DEF AffectedScripts
<1>2. ASSUME NEW d \in Q, d \in Chain(Q, t), sh \in TouchedScripts(Q, PendingView(Q), stored, d)
      PROVE  sh \in AffectedScripts(Q, PendingView(Q), stored, t)
  BY <1>2 DEF AffectedScripts
<1>3. ASSUME NEW d \in Q \ P PROVE d \in Chain(Q, t)
  BY <1>3, ChainMembers
<1>4. ASSUME NEW d \in P \cap Q, NEW p \in P \ Q, p \in Parents(d), sh \in OutputScripts(p)
      PROVE  \E c \in Conflicts(P, t) : sh \in AffectedScripts(P, PendingView(P), stored, c)
  <2>1. p \in Evicted(P, t)
    BY <1>4
  <2> QED BY <1>1, <1>4, <2>1 DEF TouchedScripts
<1>5. ASSUME NEW d \in P \cap Q, NEW p \in Q \ P, p \in Parents(d) PROVE d \in Chain(Q, t)
  BY <1>5, ChainMembers, ChainClosed
<1>6. \/ \E d \in P \ Q : sh \in TouchedScripts(P, PendingView(P), stored, d)
      \/ \E d \in Q \ P : sh \in TouchedScripts(Q, PendingView(Q), stored, d)
      \/ \E d \in P \cap Q, p \in Q \ P :
            p \in Parents(d) /\ sh \in TouchedScripts(Q, PendingView(Q), stored, d)
      \/ \E d \in P \cap Q, p \in P \ Q : p \in Parents(d) /\ sh \in OutputScripts(p)
  BY <1>0, StatusChange
<1>7. ASSUME NEW d \in Q \ P, sh \in TouchedScripts(Q, PendingView(Q), stored, d)
      PROVE  sh \in AffectedScripts(Q, PendingView(Q), stored, t)
  BY <1>2, <1>3, <1>7
<1>8. ASSUME NEW d \in P \cap Q, NEW p \in Q \ P, p \in Parents(d),
             sh \in TouchedScripts(Q, PendingView(Q), stored, d)
      PROVE  sh \in AffectedScripts(Q, PendingView(Q), stored, t)
  BY <1>2, <1>5, <1>8
<1> QED BY <1>1, <1>4, <1>6, <1>7, <1>8

(* Forgetting t alone: the scripts are computed with t already out of the  *)
(* pool and the view still the old one.                                    *)
LEMMA ForgetCovers ==
  ASSUME NEW P, P \subseteq Txid, NEW t \in P, NEW stored, NEW sh,
         NEW Q, Q = P \ {t},
         PendingHistory(Q, PendingView(Q), stored, sh) # PendingHistory(P, PendingView(P), stored, sh)
  PROVE  sh \in AffectedScripts(Q, PendingView(P), stored, t)
<1>0. Q \subseteq Txid /\ t \in Txid /\ t \in Chain(Q, t)
  BY ChainMembers
<1>1. SUFFICES sh \in TouchedScripts(Q, PendingView(P), stored, t)
  BY <1>0 DEF AffectedScripts
<1>2. ASSUME sh \in TouchedScripts(P, PendingView(P), stored, t)
      PROVE  sh \in TouchedScripts(Q, PendingView(P), stored, t)
  <2>1. \A o \in Prevouts(t) : o[1] \in P => o[1] \in Q
    BY <1>0, TxidCommits DEF Parents
  <2>2. \A o \in Prevouts(t) : PendingHas(P, PendingView(P), o) => PendingHas(Q, PendingView(P), o)
    BY <2>1 DEF PendingHas
  <2> QED BY <1>2, <2>2 DEF TouchedScripts, InputScripts
<1>3. ASSUME sh \in OutputScripts(t)
      PROVE  sh \in TouchedScripts(Q, PendingView(P), stored, t)
  BY <1>3 DEF TouchedScripts
<1> QED BY <1>0, <1>2, <1>3, StatusChange

(* Forgetting a chain: its members are all that change.                    *)
LEMMA ForgetChainCovers ==
  ASSUME NEW P, P \subseteq Txid, NEW t \in P, NEW stored, NEW sh,
         NEW Q, Q = P \ Chain(P, t),
         PendingHistory(Q, PendingView(Q), stored, sh) # PendingHistory(P, PendingView(P), stored, sh)
  PROVE  \E d \in Chain(P, t) : sh \in AffectedScripts(P, PendingView(P), stored, d)
<1>0. Q \subseteq Txid
  OBVIOUS
<1>1. ASSUME NEW d \in P \ Q, sh \in TouchedScripts(P, PendingView(P), stored, d)
      PROVE  sh \in AffectedScripts(P, PendingView(P), stored, d)
  BY <1>1, ChainMembers DEF AffectedScripts
<1>2. ASSUME NEW d \in P \cap Q, NEW p \in P \ Q, p \in Parents(d) PROVE FALSE
  BY <1>2, ChainClosed
<1> QED BY <1>0, <1>1, <1>2, StatusChange

(* In a step of the pending pool without a failed store call, a script     *)
(* whose unconfirmed history changes is among those handed out.            *)
LEMMA CoversStatus ==
  ASSUME IInv, PendingStep, faults' = faults, NEW sh,
         PendingHistoryOf(sh)' # PendingHistoryOf(sh)
  PROVE  sh \in affected'
<1> DEFINE P == pendingTxs
           Q == pendingTxs'
<1>0. /\ P \subseteq Txid /\ Broadcastable \subseteq Txid
      /\ pendingOutputs = PendingView(P)
      /\ faults \in Nat
  BY IndexStateAssumption DEF IInv, TypeOK, PendingViewFresh
<1>1. ASSUME pendingOutputs' = PendingView(Q), UNCHANGED dbOutputs
      PROVE  PendingHistory(Q, PendingView(Q), Stored, sh) # PendingHistory(P, PendingView(P), Stored, sh)
  <2>1. PendingHistoryOf(sh)' = PendingHistory(Q, PendingView(Q), Stored, sh)
    BY <1>1 DEF PendingHistoryOf, Stored
  <2>2. PendingHistoryOf(sh) = PendingHistory(P, PendingView(P), Stored, sh)
    BY <1>0 DEF PendingHistoryOf
  <2> QED BY <2>1, <2>2
<1>2. ASSUME NEW t \in Txid, NEW kept, NEW k \in 0..2, Track(t, kept, k) PROVE sh \in affected'
  <2>1. k = 2
    BY <1>0, <1>2 DEF Track, Fail, Failures
  <2>2. /\ Q = (P \ Evicted(P, t)) \cup {t}
        /\ pendingOutputs' = PendingView(Q)
        /\ UNCHANGED dbOutputs
        /\ affected' = AffectedScripts(Q, PendingView(Q), Stored, t)
                         \cup UNION {AffectedScripts(P, PendingView(P), Stored, c) :
                                       c \in Conflicts(P, t)}
    BY <1>0, <1>2, <2>1 DEF Track, Joined, Affects
  <2> QED BY <1>0, <1>1, <2>2, TrackCovers
<1>3. ASSUME NEW t \in P, NEW forgotten, Forget(t, forgotten) PROVE sh \in affected'
  <2>1. /\ Q = P \ {t}
        /\ pendingOutputs' = PendingView(Q)
        /\ UNCHANGED dbOutputs
        /\ affected' = AffectedScripts(Q, PendingView(P), Stored, t)
    BY <1>0, <1>3 DEF Forget, Affects
  <2> QED BY <1>0, <1>1, <2>1, ForgetCovers
<1>4. ASSUME NEW t \in P, NEW kept, ForgetChain(t, kept) PROVE sh \in affected'
  <2>1. /\ Q = P \ Chain(P, t)
        /\ pendingOutputs' = PendingView(Q)
        /\ UNCHANGED dbOutputs
        /\ affected' = UNION {AffectedScripts(P, PendingView(P), Stored, d) : d \in Chain(P, t)}
    BY <1>0, <1>4 DEF ForgetChain, Affects
  <2> QED BY <1>0, <1>1, <2>1, ForgetChainCovers
<1> HIDE DEF P, Q
<1> QED BY <1>0, <1>2, <1>3, <1>4
        DEF PendingStep, TransactionBroadcast, TxStatusChange, Restore, P

(* Whenever an operation on the pending pool changes what a client would   *)
(* be told about a script, the script is handed to the broadcaster: no     *)
(* subscriber is left with an old status.                                  *)
THEOREM SubscribersHearOfChanges == Spec => AffectedCoversStatus
<1> DEFINE Covered == \A sh \in ScriptHash :
                        PendingHistoryOf(sh)' # PendingHistoryOf(sh) => sh \in affected'
           Guard == job.op = "idle" /\ job'.op = "idle" /\ faults' = faults /\ ~Reopen
<1>1. ASSUME IInv, Next, Guard PROVE Covered
  <2>1. ~ApplyStep /\ ~RollbackStep
    BY <1>1 DEF ApplyStep, RollbackStep, IndexTx, SkipInput, IndexInput, IndexOutput,
                FinishBlock, Applying, Undo, UndoTx, UndoHistory, UndoOutput, UndoSpend,
                FinishRollback
  <2>2. CASE PendingStep
    BY <1>1, <2>2, CoversStatus
  <2>3. CASE BlockEvent
    <3>1. UNCHANGED <<pendingTxs, pendingOutputs, dbOutputs>>
      BY <2>3 DEF BlockEvent, Connected, Disconnected, DisconnectedUnknown, dbVars, memVars
    <3> QED BY <3>1, SameHistory
  <2> QED BY <1>1, <2>1, <2>2, <2>3 DEF Next
<1>2. IInv /\ [Next]_vars => [Guard => Covered]_vars
  BY <1>1
<1> QED BY <1>2, Invariance, PTL DEF Spec, AffectedCoversStatus
=============================================================================

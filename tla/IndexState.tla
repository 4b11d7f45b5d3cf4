----------------------------- MODULE IndexState -----------------------------
(***************************************************************************)
(* IndexState (indexer.rs): the in-memory index over the persistent store. *)
(* Every mutating operation runs under the write half of one RwLock; "job" *)
(* is the holder of that lock while a block is applied or rolled back, one *)
(* action per loop iteration.  Readers need the read half, so they only    *)
(* see states with job.op = "idle".  A block event may come for any block  *)
(* at any height: what orders the events is the business of the modules    *)
(* that extend this one.                                                   *)
(*                                                                         *)
(* Faults: an iteration takes a number k of store calls that get through.  *)
(* With k below the iteration's full number the next call failed: the "?"  *)
(* operator abandons the whole operation, the memory changes made so far   *)
(* stay, and the event loop only logs.  A crash after k calls is the same  *)
(* store with the memory rebuilt, that is, such a failure followed by      *)
(* Reopen.                                                                 *)
(***************************************************************************)
EXTENDS PersistentIndex, PendingPool

CONSTANTS
  Broadcastable,  \* transactions clients may broadcast (a coinbase is not one)
  MaxPass,        \* bound: apply_block runs at one height with no rollback between
  MaxFaults       \* bound: failed store calls in a behaviour

ASSUME IndexStateAssumption ==
  /\ Broadcastable \subseteq {t \in Txid : Prevouts(t) # {}}
  /\ MaxPass \in Nat
  /\ MaxFaults \in Nat

VARIABLES
  history,         \* confirmed entries, as <<pass, history key>>
  byHeight,        \* undo records, as <<pass, record>>
  pendingTxs,      \* txids of pending_txs
  pendingOutputs,  \* keys of pending_outputs
  tipHeight,
  job,             \* the operation that holds the write lock
  affected,        \* script hashes the last step hands to the broadcaster
  faults           \* store calls that have failed

memVars == <<history, byHeight, pendingTxs, pendingOutputs, tipHeight>>
vars == <<dbVars, memVars, job, affected, faults>>

(* The vectors of history and by_height are kept as sets.  Their elements  *)
(* are stamped with the pass, the ordinal of the apply_block run at that   *)
(* height that pushed them, so that pushing an equal element again is not  *)
(* lost and (pass, seq) is the order of the by_height vector.              *)
Pass == 0..MaxPass

Idle == [op |-> "idle", height |-> 0, pass |-> 0, txs |-> <<>>, pos |-> 0,
         seq |-> 0, undo |-> {}]

JobType ==
  [op : {"idle", "apply", "rollback"}, height : Nat, pass : Nat,
   txs : Seq(Txid), pos : Nat, seq : Nat, undo : SUBSET (Nat \X JournalAct)]

TypeOK ==
  /\ StoreTypeOK
  /\ history \subseteq Nat \X HistoryKey
  /\ byHeight \subseteq Nat \X JournalAct
  /\ pendingTxs \subseteq Txid
  /\ pendingOutputs \subseteq RealOutPoint
  /\ tipHeight \in Nat
  /\ job \in JobType
  /\ job.op # "idle" => job.height \in Height
  /\ affected \subseteq ScriptHash
  /\ faults \in 0..MaxFaults

-----------------------------------------------------------------------------
(* IndexState::new: what the memory is rebuilt to.                         *)
LoadHistory == {<<0, key>> : key \in dbHistory}

LoadJournal == {<<0, act>> : act \in dbJournal}

ConfirmedTxids(journal) == {t \in Txid : \E a \in journal : a.kind = "Tx" /\ a.of = <<t>>}

LoadPending == {t \in dbPending : t \notin ConfirmedTxids(dbJournal) /\ t \in dbTxs}

Init ==
  /\ OpenEmpty
  /\ history = {}
  /\ byHeight = {}
  /\ pendingTxs = {}
  /\ pendingOutputs = {}
  /\ tipHeight = 0
  /\ job = Idle
  /\ affected = {}
  /\ faults = 0

(* The process stops, whatever it was doing, and starts again.             *)
Reopen ==
  /\ history' = LoadHistory
  /\ byHeight' = LoadJournal
  /\ pendingTxs' = LoadPending
  /\ pendingOutputs' = PendingView(pendingTxs')
  /\ tipHeight' = dbTip
  /\ job' = Idle
  /\ affected' = {}
  /\ UNCHANGED <<dbVars, faults>>

(* n more store calls fail in this step.                                   *)
Fail(n) == faults' = faults + n /\ faults' <= MaxFaults

Failures(ok) == IF ok THEN 0 ELSE 1

-----------------------------------------------------------------------------
(* apply_block.  job.txs is what is left of block.txdata; in its head,     *)
(* position 0 is the transaction itself, then come its inputs and then its *)
(* outputs.                                                                *)

(* A pass number for which nothing at h is left in memory.                 *)
FreshPass(h, p) ==
  /\ \A e \in history : e[2][2] = h => e[1] < p
  /\ \A e \in byHeight : e[2].height = h => e[1] < p
  /\ p > 0 => \/ \E e \in history : e[2][2] = h /\ e[1] = p - 1
              \/ \E e \in byHeight : e[2].height = h /\ e[1] = p - 1

(* BlockEvent::Connected takes the write lock and enters apply_block.      *)
Connected(b, h) ==
  /\ job.op = "idle"
  /\ \E p \in Pass :
       /\ FreshPass(h, p)
       /\ job' = [Idle EXCEPT !.op = "apply", !.height = h, !.pass = p,
                              !.txs = TxData[b]]
  /\ affected' = {}
  /\ UNCHANGED <<dbVars, memVars, faults>>

Current == Head(job.txs)
Applying == job.op = "apply" /\ job.txs # <<>>
InputAt == job.pos
OutputAt == job.pos - Len(Inputs[Current])

(* Mutant: the second record of an iteration leaves the sequence alone.    *)
MutAdvance(n) ==
  LET used == IF n = 0 THEN 0 ELSE 1
  IN IF job.pos < Len(Inputs[Current]) + Len(Outputs[Current])
     THEN [job EXCEPT !.pos = @ + 1, !.seq = @ + used]
     ELSE [job EXCEPT !.pos = 0, !.seq = @ + used, !.txs = Tail(@)]

(* The cursor after an iteration that used n journal sequence numbers.     *)
Advance(n) ==
  IF job.pos < Len(Inputs[Current]) + Len(Outputs[Current])
  THEN [job EXCEPT !.pos = @ + 1, !.seq = @ + n]
  ELSE [job EXCEPT !.pos = 0, !.seq = @ + n, !.txs = Tail(@)]

Act(i, kind, of) ==
  [height |-> job.height, seq |-> job.seq + i, kind |-> kind, of |-> of]

Push(acts) == byHeight \cup {<<job.pass, a>> : a \in acts}

(* One iteration over block.txdata up to its inner loops.  forgotten: the  *)
(* call of delete_pending_txid got through; its error is ignored.          *)
IndexTx(forgotten, k) ==
  /\ Applying /\ job.pos = 0
  /\ LET t == Current
         act == Act(0, "Tx", <<t>>)
     IN /\ pendingTxs' = pendingTxs \ {t}
        /\ pendingOutputs' = PendingView(pendingTxs')
        /\ dbPending' = IF forgotten THEN dbPending \ {t} ELSE dbPending
        /\ dbTxs' = Wrote(k, 1, dbTxs \cup {t}, dbTxs)
        /\ dbJournal' = Wrote(k, 2, PutAct(dbJournal, act), dbJournal)
        /\ byHeight' = Wrote(k, 2, Push({act}), byHeight)
        /\ job' = IF k = 2 THEN Advance(1) ELSE Idle
  /\ Fail(Failures(forgotten) + Failures(k = 2))
  /\ affected' = {}
  /\ UNCHANGED <<dbHistory, dbOutputs, dbUtxos, dbTip, history, tipHeight>>

(* An input whose previous output is null or not in the store is skipped.  *)
(* For a null one load_output is not called, so that it cannot fail.       *)
SkipInput(k) ==
  /\ Applying /\ InputAt \in DOMAIN Inputs[Current]
  /\ LET o == Inputs[Current][InputAt]
     IN \/ o = NullOutPoint /\ k = 1
        \/ o # NullOutPoint /\ ~HasOutput(o)
  /\ job' = IF k = 1 THEN Advance(0) ELSE Idle
  /\ Fail(Failures(k = 1))
  /\ affected' = {}
  /\ UNCHANGED <<dbVars, memVars>>

(* An input that spends a stored output.  Calls: load_output,              *)
(* store_history_entry, store_journal_action twice, delete_utxo.           *)
IndexInput(k) ==
  /\ Applying /\ InputAt \in DOMAIN Inputs[Current]
  /\ LET o == Inputs[Current][InputAt]
         key == <<ScriptOf(o), job.height, "Spend", Current, InputAt>>
         listed == Act(0, "History", key)
         spent == Act(1, "Spend", o)
     IN /\ o # NullOutPoint /\ HasOutput(o)
        /\ history' = Wrote(k, 1, history \cup {<<job.pass, key>>}, history)
        /\ dbHistory' = Wrote(k, 2, dbHistory \cup {key}, dbHistory)
        /\ dbJournal' = Wrote(k, 4, PutAct(PutAct(dbJournal, listed), spent),
                          Wrote(k, 3, PutAct(dbJournal, listed), dbJournal))
        /\ dbUtxos' = Wrote(k, 5, dbUtxos \ {o}, dbUtxos)
        /\ byHeight' = Wrote(k, 5, Push({listed, spent}), byHeight)
        /\ job' = IF k = 5 THEN Advance(2) ELSE Idle
  /\ Fail(Failures(k = 5))
  /\ affected' = {}
  /\ UNCHANGED <<dbOutputs, dbTxs, dbTip, dbPending, pendingTxs, pendingOutputs,
                 tipHeight>>

(* An output.  Calls: store_history_entry, store_journal_action,           *)
(* store_output (two inserts: "outputs", then "utxos"),                    *)
(* store_journal_action.                                                   *)
IndexOutput(k) ==
  /\ Applying /\ OutputAt \in DOMAIN Outputs[Current]
  /\ LET o == <<Current, OutputAt>>
         key == <<ScriptOf(o), job.height, "Fund", Current, OutputAt>>
         listed == Act(0, "History", key)
         stored == Act(1, "Output", o)
     IN /\ history' = history \cup {<<job.pass, key>>}
        /\ dbHistory' = Wrote(k, 1, dbHistory \cup {key}, dbHistory)
        /\ dbOutputs' = Wrote(k, 3, PutOutput(dbOutputs, o, job.height), dbOutputs)
        /\ dbUtxos' = Wrote(k, 4, dbUtxos \cup {o}, dbUtxos)
        /\ dbJournal' = Wrote(k, 5, PutAct(PutAct(dbJournal, listed), stored),
                          Wrote(k, 2, PutAct(dbJournal, listed), dbJournal))
        /\ byHeight' = Wrote(k, 5, Push({listed, stored}), byHeight)
        /\ job' = IF k = 5 THEN Advance(2) ELSE Idle
  /\ Fail(Failures(k = 5))
  /\ affected' = {}
  /\ UNCHANGED <<dbTxs, dbTip, dbPending, pendingTxs, pendingOutputs, tipHeight>>

(* After the last transaction: the tip, in memory and then on disk.        *)
FinishBlock(k) ==
  /\ job.op = "apply" /\ job.txs = <<>>
  /\ tipHeight' = job.height
  /\ dbTip' = Wrote(k, 1, job.height, dbTip)
  /\ job' = Idle
  /\ Fail(Failures(k = 1))
  /\ affected' = {}
  /\ UNCHANGED <<dbHistory, dbOutputs, dbTxs, dbUtxos, dbJournal, dbPending,
                 history, byHeight, pendingTxs, pendingOutputs>>

-----------------------------------------------------------------------------
(* rollback_height.  job.undo is what is left of the removed by_height     *)
(* entry, taken from the end of the vector.  The block hash of the event   *)
(* is not looked at.                                                       *)

EntriesAt(h) == {e \in byHeight : e[2].height = h}

IsLast(e, S) ==
  \A f \in S : \/ f[1] < e[1]
               \/ f[1] = e[1] /\ f[2].seq <= e[2].seq

(* saturating_sub keeps the tip at or above 0.                             *)
TipBelow(h) == IF h = 0 THEN 0 ELSE h - 1

(* Mutant: the lower tip is not written to the store.                      *)
MutLowerTip(h, k) ==
  /\ tipHeight' = IF tipHeight = h THEN TipBelow(h) ELSE tipHeight
  /\ dbTip' = dbTip
  /\ Fail(Failures(k = 1 \/ tipHeight # h))

(* Mutant: the tip stays, in memory and on disk.                           *)
MutKeepTip(h, k) ==
  /\ k = 1
  /\ UNCHANGED <<tipHeight, dbTip, faults>>

(* The tip steps back only when it is at the rolled-back height.           *)
LowerTip(h, k) ==
  /\ tipHeight' = IF tipHeight = h THEN TipBelow(h) ELSE tipHeight
  /\ dbTip' = IF tipHeight = h THEN Wrote(k, 1, TipBelow(h), dbTip) ELSE dbTip
  /\ Fail(Failures(k = 1 \/ tipHeight # h))

(* BlockEvent::Disconnected for a height with undo records.                *)
Disconnected(h) ==
  /\ job.op = "idle"
  /\ EntriesAt(h) # {}
  /\ byHeight' = byHeight \ EntriesAt(h)
  /\ job' = [Idle EXCEPT !.op = "rollback", !.height = h, !.undo = EntriesAt(h)]
  /\ affected' = {}
  /\ UNCHANGED <<dbVars, history, pendingTxs, pendingOutputs, tipHeight, faults>>

(* BlockEvent::Disconnected for a height without: only the tip can move.   *)
DisconnectedUnknown(h, k) ==
  /\ job.op = "idle"
  /\ EntriesAt(h) = {}
  /\ LowerTip(h, k)
  /\ affected' = {}
  /\ UNCHANGED <<dbHistory, dbOutputs, dbTxs, dbUtxos, dbJournal, dbPending,
                 history, byHeight, pendingTxs, pendingOutputs, job>>

(* What the four arms of the replay loop share: e is the last record left, *)
(* its journal key is deleted before anything else, and the arm makes      *)
(* "calls" store calls.                                                    *)
Undo(e, kind, k, calls) ==
  /\ job.op = "rollback"
  /\ IsLast(e, job.undo)
  /\ e[2].kind = kind
  /\ dbJournal' = Wrote(k, 1, DropAct(dbJournal, e[2]), dbJournal)
  /\ job' = IF k = calls THEN [job EXCEPT !.undo = @ \ {e}] ELSE Idle
  /\ Fail(Failures(k = calls))
  /\ affected' = {}
  /\ UNCHANGED <<dbTip, dbPending, memVars>>

(* BlockAction::Tx: delete_tx *)
UndoTx(e, k) ==
  /\ Undo(e, "Tx", k, 2)
  /\ dbTxs' = Wrote(k, 2, dbTxs \ {e[2].of[1]}, dbTxs)
  /\ UNCHANGED <<dbHistory, dbOutputs, dbUtxos>>

(* BlockAction::History: delete_history_key *)
UndoHistory(e, k) ==
  /\ Undo(e, "History", k, 2)
  /\ dbHistory' = Wrote(k, 2, dbHistory \ {e[2].of}, dbHistory)
  /\ UNCHANGED <<dbOutputs, dbTxs, dbUtxos>>

(* Mutant: the output is deleted first, the unspent entry after it.        *)
MutUndoOutput(e, k) ==
  /\ Undo(e, "Output", k, 4)
  /\ LET o == e[2].of
     IN /\ dbOutputs' = Wrote(k, 3, DropOutput(dbOutputs, o), dbOutputs)
        /\ dbUtxos' = IF HasOutput(o) THEN Wrote(k, 4, dbUtxos \ {o}, dbUtxos)
                                      ELSE dbUtxos
  /\ UNCHANGED <<dbHistory, dbTxs>>

(* BlockAction::Output: load_output, delete_utxo if it is there,           *)
(* delete_output.                                                          *)
UndoOutput(e, k) ==
  /\ Undo(e, "Output", k, 4)
  /\ LET o == e[2].of
     IN /\ dbUtxos' = IF HasOutput(o) THEN Wrote(k, 3, dbUtxos \ {o}, dbUtxos)
                                      ELSE dbUtxos
        /\ dbOutputs' = Wrote(k, 4, DropOutput(dbOutputs, o), dbOutputs)
  /\ UNCHANGED <<dbHistory, dbTxs>>

(* Mutant: the spent output is not made unspent again.                     *)
MutUndoSpendForgets(e, k) ==
  Undo(e, "Spend", k, 4) /\ UNCHANGED <<dbHistory, dbTxs, dbOutputs, dbUtxos>>

(* Mutant: the output comes back with the tip's height instead of its own. *)
MutUndoSpendAtTip(e, k) ==
  /\ Undo(e, "Spend", k, 4)
  /\ LET o == e[2].of
     IN /\ dbOutputs' = IF HasOutput(o)
                        THEN Wrote(k, 3, PutOutput(dbOutputs, o, tipHeight), dbOutputs)
                        ELSE dbOutputs
        /\ dbUtxos' = IF HasOutput(o) THEN Wrote(k, 4, dbUtxos \cup {o}, dbUtxos)
                                      ELSE dbUtxos
  /\ UNCHANGED <<dbHistory, dbTxs>>

(* BlockAction::Spend: load_output, then store_output with the same        *)
(* content (two inserts), which makes the output unspent again.            *)
UndoSpend(e, k) ==
  /\ Undo(e, "Spend", k, 4)
  /\ LET o == e[2].of
     IN /\ dbOutputs' = IF HasOutput(o)
                        THEN Wrote(k, 3, PutOutput(dbOutputs, o, dbOutputs[o]), dbOutputs)
                        ELSE dbOutputs
        /\ dbUtxos' = IF HasOutput(o) THEN Wrote(k, 4, dbUtxos \cup {o}, dbUtxos)
                                      ELSE dbUtxos
  /\ UNCHANGED <<dbHistory, dbTxs>>

(* After the loop: the memory forgets the height, then the tip.            *)
FinishRollback(k) ==
  /\ job.op = "rollback" /\ job.undo = {}
  /\ history' = {e \in history : e[2][2] # job.height}
  /\ pendingOutputs' = PendingView(pendingTxs)
  /\ LowerTip(job.height, k)
  /\ job' = Idle
  /\ affected' = {}
  /\ UNCHANGED <<dbHistory, dbOutputs, dbTxs, dbUtxos, dbJournal, dbPending,
                 byHeight, pendingTxs>>

-----------------------------------------------------------------------------
(* The pending pool.  "kept" is the set of txids whose delete_pending_txid *)
(* failed: the error is dropped and the txid stays on disk.                *)

Stored == DOMAIN dbOutputs

Affects(P, t) == AffectedScripts(P, pendingOutputs, Stored, t)

(* Mutant: the memory is updated before store_pending_txid is asked.       *)
MutJoined(P, t, k) == IF k >= 1 THEN P \cup {t} ELSE P

(* pending_txs.insert: reached once both store calls got through.          *)
Joined(P, t, k) == IF k = 2 THEN P \cup {t} ELSE P

(* track_pending_transaction_internal: evict the conflicts, then store_tx  *)
(* and store_pending_txid.  Called by transaction.broadcast.               *)
Track(t, kept, k) ==
  LET gone == Evicted(pendingTxs, t)
      done == k = 2
  IN /\ job.op = "idle"
     /\ Fail(Failures(kept = {}) + Failures(done))
     /\ kept \subseteq gone \cap dbPending
     /\ dbTxs' = Wrote(k, 1, dbTxs \cup {t}, dbTxs)
     /\ dbPending' = Wrote(k, 2, (dbPending \ (gone \ kept)) \cup {t},
                                 dbPending \ (gone \ kept))
     /\ pendingTxs' = Joined(pendingTxs \ gone, t, k)
     /\ pendingOutputs' = PendingView(pendingTxs')
     /\ affected' = IF done
                    THEN AffectedScripts(pendingTxs', pendingOutputs', Stored, t)
                           \cup UNION {Affects(pendingTxs, c) : c \in Conflicts(pendingTxs, t)}
                    ELSE {}
     /\ UNCHANGED <<dbHistory, dbOutputs, dbUtxos, dbJournal, dbTip, history,
                    byHeight, tipHeight, job>>

(* restore_pending_transaction (status Reverted): None when the raw        *)
(* transaction is not in the store.                                        *)
Restore(t, kept, k) == t \in dbTxs /\ Track(t, kept, k)

(* Mutant: the pending view is not rebuilt.                                *)
MutForget(t, forgotten) ==
  /\ job.op = "idle"
  /\ t \in pendingTxs
  /\ pendingTxs' = pendingTxs \ {t}
  /\ affected' = Affects(pendingTxs', t)
  /\ dbPending' = IF forgotten THEN dbPending \ {t} ELSE dbPending
  /\ Fail(Failures(forgotten))
  /\ UNCHANGED <<dbHistory, dbOutputs, dbTxs, dbUtxos, dbJournal, dbTip, history,
                 byHeight, pendingOutputs, tipHeight, job>>

(* Indexer::forget_pending_transaction (status Confirmed): the descendants *)
(* stay.  The affected scripts are computed after the removal and before   *)
(* the view is rebuilt.                                                    *)
Forget(t, forgotten) ==
  /\ job.op = "idle"
  /\ t \in pendingTxs
  /\ pendingTxs' = pendingTxs \ {t}
  /\ affected' = Affects(pendingTxs', t)
  /\ dbPending' = IF forgotten THEN dbPending \ {t} ELSE dbPending
  /\ pendingOutputs' = PendingView(pendingTxs')
  /\ Fail(Failures(forgotten))
  /\ UNCHANGED <<dbHistory, dbOutputs, dbTxs, dbUtxos, dbJournal, dbTip, history,
                 byHeight, tipHeight, job>>

(* Mutant: the raw transactions of the chain are deleted as well.          *)
MutForgetChain(t, kept) ==
  LET gone == Chain(pendingTxs, t)
  IN /\ job.op = "idle"
     /\ t \in pendingTxs
     /\ Fail(Failures(kept = {}))
     /\ kept \subseteq gone \cap dbPending
     /\ affected' = UNION {Affects(pendingTxs, d) : d \in gone}
     /\ pendingTxs' = pendingTxs \ gone
     /\ dbPending' = dbPending \ (gone \ kept)
     /\ dbTxs' = dbTxs \ gone
     /\ pendingOutputs' = PendingView(pendingTxs')
     /\ UNCHANGED <<dbHistory, dbOutputs, dbUtxos, dbJournal, dbTip, history,
                    byHeight, tipHeight, job>>

(* Mutant: only the root is taken off the pending list on disk.            *)
MutForgetChainOnDisk(t, kept) ==
  LET gone == Chain(pendingTxs, t)
  IN /\ job.op = "idle"
     /\ t \in pendingTxs
     /\ Fail(Failures(kept = {}))
     /\ kept \subseteq gone \cap dbPending
     /\ affected' = UNION {Affects(pendingTxs, d) : d \in gone}
     /\ pendingTxs' = pendingTxs \ gone
     /\ dbPending' = dbPending \ ({t} \ kept)
     /\ pendingOutputs' = PendingView(pendingTxs')
     /\ UNCHANGED <<dbHistory, dbOutputs, dbTxs, dbUtxos, dbJournal, dbTip,
                    history, byHeight, tipHeight, job>>

(* Indexer::forget_pending_transaction_chain (status Stale): the           *)
(* descendants go with it.                                                 *)
ForgetChain(t, kept) ==
  LET gone == Chain(pendingTxs, t)
  IN /\ job.op = "idle"
     /\ t \in pendingTxs
     /\ Fail(Failures(kept = {}))
     /\ kept \subseteq gone \cap dbPending
     /\ affected' = UNION {Affects(pendingTxs, d) : d \in gone}
     /\ pendingTxs' = pendingTxs \ gone
     /\ dbPending' = dbPending \ (gone \ kept)
     /\ pendingOutputs' = PendingView(pendingTxs')
     /\ UNCHANGED <<dbHistory, dbOutputs, dbTxs, dbUtxos, dbJournal, dbTip,
                    history, byHeight, tipHeight, job>>

-----------------------------------------------------------------------------
ApplyStep ==
  \/ \E k \in 0..2 : \E forgotten \in BOOLEAN : IndexTx(forgotten, k)
  \/ \E k \in 0..1 : SkipInput(k)
  \/ \E k \in 0..5 : IndexInput(k)
  \/ \E k \in 0..5 : IndexOutput(k)
  \/ \E k \in 0..1 : FinishBlock(k)

RollbackStep ==
  \/ \E e \in job.undo, k \in 0..2 : UndoTx(e, k)
  \/ \E e \in job.undo, k \in 0..2 : UndoHistory(e, k)
  \/ \E e \in job.undo, k \in 0..4 : UndoOutput(e, k)
  \/ \E e \in job.undo, k \in 0..4 : UndoSpend(e, k)
  \/ \E k \in 0..1 : FinishRollback(k)

(* blockchain.transaction.broadcast, once nakamoto has taken the           *)
(* transaction; an error before that changes nothing.                      *)
TransactionBroadcast ==
  \E t \in Broadcastable, kept \in SUBSET pendingTxs, k \in 0..2 : Track(t, kept, k)

(* apply_tx_status_change, on the tx-status thread: Reverted, Confirmed    *)
(* and Stale.  The other statuses change nothing.                          *)
TxStatusChange ==
  \/ \E t \in Broadcastable, kept \in SUBSET pendingTxs, k \in 0..2 : Restore(t, kept, k)
  \/ \E t \in pendingTxs, forgotten \in BOOLEAN : Forget(t, forgotten)
  \/ \E t \in pendingTxs, kept \in SUBSET pendingTxs : ForgetChain(t, kept)

PendingStep == TransactionBroadcast \/ TxStatusChange

BlockEvent ==
  \/ \E b \in Block, h \in Height : Connected(b, h)
  \/ \E h \in Height : Disconnected(h)
  \/ \E h \in Height, k \in 0..1 : DisconnectedUnknown(h, k)

Next == ApplyStep \/ RollbackStep \/ PendingStep \/ BlockEvent \/ Reopen

Spec == Init /\ [][Next]_vars

-----------------------------------------------------------------------------
(* Every unspent outpoint has its output record, in every state a crash or *)
(* a failed store call can leave behind, whatever the order of events:     *)
(* list_unspent_for_script never fails with "missing output for unspent".  *)
UtxoHasOutput == dbUtxos \subseteq DOMAIN dbOutputs

(* The cached view of unspent pending outputs is what a rebuild would give *)
(* at every step, also in the middle of a block and after a failure.       *)
PendingViewFresh == pendingOutputs = PendingView(pendingTxs)

(* What the store needs to bring a transaction back as pending: its txid   *)
(* in the pending list and its raw bytes.                                  *)
Recoverable == dbPending \cap dbTxs

UndoesTx(t) == \E e \in job.undo : e[2].kind = "Tx" /\ e[2].of = <<t>>

(* Whatever store calls fail, a transaction is pending in memory only once *)
(* the store can bring it back, and while it stays pending the store can   *)
(* bring it back for as long as no rollback deletes the raw transaction:   *)
(* a block that holds the very transaction has to be undone.               *)
PendingStaysDurable ==
  [][\A t \in pendingTxs' \ Recoverable' :
       t \in pendingTxs /\ (t \in Recoverable => UndoesTx(t))]_vars

(* As long as no store call has failed, a restart at any point brings back *)
(* no transaction that was evicted, forgotten or mined before.             *)
RestartRevivesNothing == faults = 0 => LoadPending \subseteq pendingTxs

(* As long as no store call has failed, two pending transactions that      *)
(* spend the same output are parent and child: a replacement evicts        *)
(* everything else it replaces, across restarts and restores.              *)
OnlyParentsConflict ==
  faults = 0 => \A t, u \in pendingTxs :
                   \/ t \in Parents(u) \/ u \in Parents(t) \/ t = u
                   \/ Prevouts(t) \cap Prevouts(u) = {}

(* As long as no store call has failed, every output and every history     *)
(* entry in the store has the journal record that undoes it, across        *)
(* rollbacks and restarts: no record was overwritten by a later one.  A    *)
(* failed call or a crash between an entry and its record breaks this.     *)
EveryMutationHasUndo ==
  faults = 0 =>
    /\ \A o \in DOMAIN dbOutputs : \E a \in dbJournal : a.kind = "Output" /\ a.of = o
    /\ \A key \in dbHistory : \E a \in dbJournal : a.kind = "History" /\ a.of = key

(* A transaction that is replaced or reported stale takes every pending    *)
(* descendant with it, however deep: after Track or ForgetChain no pending *)
(* transaction spends an output of one that the step removed.  The tracked *)
(* transaction itself may: it is not checked for spending from a           *)
(* descendant of what it replaces.                                         *)
EvictionTakesDescendants ==
  [][\A t \in Broadcastable :
       pendingTxs' # pendingTxs /\ (Track(t, {}, 2) \/ ForgetChain(t, {})) =>
         \A c \in pendingTxs' \ {t} : Parents(c) \cap (pendingTxs \ pendingTxs') = {}]_vars

PendingHistoryOf(sh) == PendingHistory(pendingTxs, pendingOutputs, Stored, sh)

(* Whenever an operation on the pending pool changes the unconfirmed       *)
(* history of a script, so that its status changes, the script is among    *)
(* those whose subscribers are told.  A restart has no subscribers left.   *)
AffectedCoversStatus ==
  [][/\ job.op = "idle" /\ job'.op = "idle"
     /\ faults' = faults
     /\ ~Reopen
     => \A sh \in ScriptHash :
          PendingHistoryOf(sh)' # PendingHistoryOf(sh) => sh \in affected']_vars

-----------------------------------------------------------------------------
(* What the comments say of the code and TLC refutes.                      *)

(* A conflict is a pending transaction that spends the same outpoints as   *)
(* tx, "excluding tx itself": broadcasting a transaction again leaves the  *)
(* pending pool as it was.  The code evicts it and its descendants first   *)
(* and puts only the transaction itself back.                              *)
RetrackKeepsPool ==
  [][\A t \in pendingTxs : Track(t, {}, 2) => pendingTxs' = pendingTxs]_vars

(* "Any existing pending transaction that spends the same inputs (i.e. an  *)
(* RBF conflict) and its entire descendant chain are evicted first."  The  *)
(* parents of the new transaction are passed over, and one of them may     *)
(* spend the same output.                                                  *)
NoPendingConflict ==
  faults = 0 => \A t, u \in pendingTxs :
                   t # u => Prevouts(t) \cap Prevouts(u) = {}
=============================================================================

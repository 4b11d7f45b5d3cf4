---------------------------- MODULE QueriesProofs ----------------------------
(***************************************************************************)
(* Proofs about Queries and Requests, on top of those about ChainFollower: *)
(* for any transactions, blocks and scripts, and as long as no store call  *)
(* has failed, a client's unspent list is that of the chain and the pool   *)
(* together, every confirmed transaction it is told of can be fetched, its *)
(* balance adds up, the fees and the fee histogram it is given are right,  *)
(* and the order of a history is fixed by its entries.                     *)
(***************************************************************************)
EXTENDS Requests, ChainFollowerProofs

-----------------------------------------------------------------------------
(* Raw transactions.  Confirmed ones are in the store, although rolling    *)
(* back a block deletes what its Tx records name.                          *)

TxKept ==
  /\ \A i \in 1..Full : Abstract!TxsOf(chain[i]) \subseteq dbTxs
  /\ job.op = "apply" =>
       \A j \in DOMAIN TxData[InHand] : Done(j, 0) => TxData[InHand][j] \in dbTxs

(* A Tx record names a transaction of its block; while the block is rolled *)
(* back, one that is no longer confirmed.                                  *)
TxRecorded ==
  \A a \in Records(dbJournal, "Tx") :
    IF job.op = "rollback" /\ a.height = job.height
    THEN a.of[1] \notin Confirmed
    ELSE a.height \in DOMAIN chain /\ a.of[1] \in Abstract!TxsOf(chain[a.height])

TxOK == TxKept /\ TxRecorded

QInv == FInv /\ (faults = 0 => TxOK)

(* Nothing is deleted and no Tx record is written.                         *)
LEMMA TxGrows ==
  ASSUME TxOK, dbTxs \subseteq dbTxs', Records(dbJournal', "Tx") \subseteq Records(dbJournal, "Tx"),
         chain' = chain, job.op = "idle", job'.op = "idle"
  PROVE  TxOK'
BY DEF TxOK, TxKept, TxRecorded, Full, Confirmed

(* A block is connected: none of it is done.                               *)
LEMMA ConnectTx ==
  ASSUME FInv, faults = 0, TxOK, NEW b \in Block, Connect(b)
  PROVE  TxOK'
<1> DEFINE n == Len(chain)
<1>1. chain \in Seq(Block) /\ job.op = "idle" /\ n \in Nat /\ DOMAIN chain = 1..n
  BY DEF FInv, Connect, Connected
<1>2. /\ Len(chain') = n + 1 /\ chain'[n + 1] = b /\ DOMAIN chain' = 1..(n + 1)
      /\ \A i \in 1..n : chain'[i] = chain[i]
  BY <1>1 DEF Connect
<1>3. dbTxs' = dbTxs /\ dbJournal' = dbJournal
  BY DEF Connect, Connected, dbVars
<1>4. job'.op = "apply" /\ job'.txs = TxData[b] /\ job'.pos = 0
  BY DEF Connect, Connected, Idle
<1>5. InHand' = b /\ Full' = n /\ Full = n
  BY <1>1, <1>2, <1>4 DEF InHand, Full
<1>6. TxData[b] \in Seq(Txid) /\ Len(TxData[b]) \in Nat /\ DOMAIN TxData[b] = 1..Len(TxData[b])
  BY BlockType
<1>7. TxsDone' = 0
  <2>1. TxsDone' = Len(TxData[b]) - Len(TxData[b])
    BY <1>4, <1>5 DEF TxsDone
  <2> QED BY <1>6, <2>1
<1> HIDE DEF n
<1>8. \A j \in DOMAIN TxData[b] : ~Done(j, 0)'
  BY <1>4, <1>6, <1>7 DEF Done
<1>9. TxKept'
  BY <1>2, <1>3, <1>5, <1>8 DEF TxOK, TxKept
<1>10. TxRecorded'
  <2>1. ASSUME NEW a \in Records(dbJournal, "Tx")
        PROVE  a.height \in DOMAIN chain' /\ a.of[1] \in Abstract!TxsOf(chain'[a.height])
    <3>1. a.height \in DOMAIN chain /\ a.of[1] \in Abstract!TxsOf(chain[a.height])
      BY <1>1 DEF TxOK, TxRecorded
    <3> QED BY <1>1, <1>2, <3>1
  <2> QED BY <1>3, <1>4, <2>1 DEF TxRecorded
<1> QED BY <1>9, <1>10 DEF TxOK

(* The last block is disconnected: its transactions are in no other block. *)
LEMMA DisconnectTx ==
  ASSUME FInv, faults = 0, TxOK, Disconnect
  PROVE  TxOK'
<1> DEFINE n == Len(chain)
<1>1. /\ chain \in Seq(Block) /\ chain # <<>> /\ job.op = "idle" /\ n \in Nat \ {0}
      /\ DOMAIN chain = 1..n /\ ValidChain(chain)
  BY DEF FInv, Follows, FollowsBlocks, Disconnect, Disconnected
<1>2. /\ Len(chain') = n - 1 /\ DOMAIN chain' = 1..(n - 1)
      /\ \A i \in 1..(n - 1) : chain'[i] = chain[i]
  <2>1. /\ chain' \in Seq(Block) /\ Len(chain') = n - 1
        /\ \A i \in 1..(n - 1) : chain'[i] = chain[i]
    BY <1>1, ChainShrinks DEF Disconnect
  <2> QED BY <2>1, LenProperties
<1>3. dbTxs' = dbTxs /\ dbJournal' = dbJournal
  BY DEF Disconnect, Disconnected, dbVars
<1>4. job'.op = "rollback" /\ job'.height = n
  BY DEF Disconnect, Disconnected, Idle
<1>5. Full = n /\ Full' = n - 1
  BY <1>1, <1>2, <1>4 DEF Full
<1> HIDE DEF n
<1>6. TxKept'
  BY <1>1, <1>2, <1>3, <1>4, <1>5 DEF TxOK, TxKept
<1>7. ASSUME NEW t \in Abstract!TxsOf(chain[n]) PROVE t \notin Confirmed'
  <2>1. PICK i \in DOMAIN TxData[chain[n]] : t = TxData[chain[n]][i]
    BY <1>7 DEF Abstract!TxsOf
  <2>2. n \in DOMAIN chain
    BY <1>1
  <2>3. t \notin EarlierTxs(chain, n, i)
    BY <1>1, <2>1, <2>2 DEF ValidChain
  <2>4. \A g \in 1..(n - 1) : t \notin Abstract!TxsOf(chain[g])
    BY <2>3, EarlierMember
  <2>5. Confirmed' = UNION {Abstract!TxsOf(chain'[h]) : h \in DOMAIN chain'}
    BY DEF Confirmed, Abstract!TxsOf
  <2> QED BY <1>2, <2>4, <2>5
<1>8. TxRecorded'
  <2>1. ASSUME NEW a \in Records(dbJournal, "Tx")
        PROVE  IF a.height = n THEN a.of[1] \notin Confirmed'
               ELSE a.height \in DOMAIN chain' /\ a.of[1] \in Abstract!TxsOf(chain'[a.height])
    <3>1. a.height \in 1..n /\ a.of[1] \in Abstract!TxsOf(chain[a.height])
      BY <1>1 DEF TxOK, TxRecorded
    <3>2. CASE a.height = n
      BY <1>7, <3>1, <3>2
    <3>3. CASE a.height # n
      <4>1. a.height \in 1..(n - 1)
        BY <1>1, <3>1, <3>3
      <4> QED BY <1>2, <3>1, <3>3, <4>1
    <3> QED BY <3>2, <3>3
  <2> QED BY <1>3, <1>4, <2>1 DEF TxRecorded
<1> QED BY <1>6, <1>8 DEF TxOK

(* A step of apply_block: the transaction under the cursor is stored when  *)
(* the cursor leaves its position 0, and only its own record is new.       *)
LEMMA ApplyTx ==
  ASSUME FInv, faults = 0, TxOK, Applying, NEW n \in Nat, job' = Advance(n), chain' = chain,
         dbTxs \subseteq dbTxs', job.pos = 0 => Current \in dbTxs',
         \A a \in Records(dbJournal', "Tx") :
           a \in Records(dbJournal, "Tx") \/ (a.height = job.height /\ a.of = <<Current>>)
  PROVE  TxOK'
<1>1. /\ TypeOK /\ chain \in Seq(Block) /\ CursorOK /\ job.op = "apply"
  BY DEF FInv, IInv, Follows, FollowsBlocks, Applying
<1>2. /\ InHand \in Block /\ Current = TxData[InHand][TxsDone + 1]
      /\ TxsDone + 1 \in DOMAIN TxData[InHand] /\ Len(chain) \in Nat \ {0}
      /\ TxData[InHand] \in Seq(Txid)
  BY <1>1, CursorPlace
<1>3. InHand' = InHand /\ job'.op = "apply" /\ job'.height = job.height
  BY <1>1, CursorMoves
<1>4. ASSUME NEW j \in DOMAIN TxData[InHand], Done(j, 0)'
      PROVE  Done(j, 0) \/ (j = TxsDone + 1 /\ 0 = job.pos)
  <2>1. TxData[InHand][j] \in Txid
    BY <1>2
  <2>2. Len(Inputs[TxData[InHand][j]]) \in Nat /\ Len(Outputs[TxData[InHand][j]]) \in Nat
    BY <1>2, <2>1, BlockType
  <2>3. \A x, y \in Nat : 0 <= x + y
    OBVIOUS
  <2>4. 0 <= Len(Inputs[TxData[InHand][j]]) + Len(Outputs[TxData[InHand][j]])
    BY <2>2, <2>3, Zenon
  <2> QED BY <1>1, <1>4, <2>4, CursorMoves
<1>5. Full' = Full
  BY <1>1, <1>3 DEF Full
<1>6. TxKept'
  <2>1. \A i \in 1..Full : Abstract!TxsOf(chain[i]) \subseteq dbTxs'
    BY DEF TxOK, TxKept
  <2>2. ASSUME NEW j \in DOMAIN TxData[InHand], Done(j, 0)'
        PROVE  TxData[InHand][j] \in dbTxs'
    BY <1>1, <1>2, <1>4, <2>2 DEF TxOK, TxKept
  <2> QED BY <1>3, <1>5, <2>1, <2>2 DEF TxKept
<1>7. TxRecorded'
  <2>1. ASSUME NEW a \in Records(dbJournal', "Tx")
        PROVE  a.height \in DOMAIN chain /\ a.of[1] \in Abstract!TxsOf(chain[a.height])
    <3>1. CASE a \in Records(dbJournal, "Tx")
      BY <1>1, <3>1 DEF TxOK, TxRecorded
    <3>2. CASE a.height = job.height /\ a.of = <<Current>>
      <4>1. job.height = Len(chain) /\ Len(chain) \in DOMAIN chain
        BY <1>1, <1>2 DEF CursorOK
      <4>2. Current \in Abstract!TxsOf(InHand)
        BY <1>2 DEF Abstract!TxsOf
      <4>3. a.of[1] = Current
        BY <3>2
      <4> QED BY <3>2, <4>1, <4>2, <4>3 DEF InHand
    <3> QED BY <3>1, <3>2
  <2> QED BY <1>3, <2>1 DEF TxRecorded
<1> QED BY <1>6, <1>7 DEF TxOK

(* A step of the replay loop: what it deletes is no longer confirmed.      *)
LEMMA UndoneTx ==
  ASSUME FInv, faults' = 0, TxOK, Work, NEW e \in job.undo, NEW kind, NEW k,
         NEW calls \in {2, 4}, Undo(e, kind, k, calls),
         dbTxs' = dbTxs \/ (kind = "Tx" /\ dbTxs' = dbTxs \ {e[2].of[1]})
  PROVE  TxOK'
<1>1. /\ faults = 0 /\ k = calls /\ job.op = "rollback" /\ e[2] \in dbJournal
      /\ e[2].kind = kind /\ dbJournal' = dbJournal \ {e[2]}
  BY UndoFollows
<1>2. chain' = chain /\ chain \in Seq(Block) /\ job \in JobType
      /\ job' = [job EXCEPT !.undo = @ \ {e}]
  BY <1>1 DEF FInv, IInv, TypeOK, Work, Undo
<1>3. job'.op = "rollback" /\ job'.height = job.height
  BY <1>1, <1>2 DEF JobType
<1>4. Full' = Full /\ Full = Len(chain) /\ Confirmed' = Confirmed
  BY <1>1, <1>2, <1>3 DEF Full, Confirmed
<1>5. e[2].height = job.height
  <2>1. job.undo = {<<0, a>> : a \in At(dbJournal, job.height)}
    BY <1>1 DEF FInv, Follows, FollowsBlocks, MemoryInRollback
  <2>2. PICK a \in At(dbJournal, job.height) : e = <<0, a>>
    BY <2>1
  <2> QED BY <2>2 DEF At
<1>6. ASSUME kind = "Tx", NEW i \in DOMAIN chain PROVE e[2].of[1] \notin Abstract!TxsOf(chain[i])
  <2>1. e[2] \in Records(dbJournal, "Tx")
    BY <1>1, <1>6 DEF Records
  <2>2. e[2].of[1] \notin Confirmed
    BY <1>1, <1>5, <2>1 DEF TxOK, TxRecorded
  <2> QED BY <2>2, ConfirmedMember
<1>7. TxKept'
  <2>1. \A i \in 1..Full : i \in DOMAIN chain
    BY <1>2, <1>4
  <2> QED BY <1>2, <1>3, <1>4, <1>6, <2>1 DEF TxOK, TxKept
<1>8. TxRecorded'
  <2>1. Records(dbJournal', "Tx") \subseteq Records(dbJournal, "Tx")
    BY <1>1 DEF Records
  <2> QED BY <1>1, <1>2, <1>3, <1>4, <2>1 DEF TxOK, TxRecorded
<1> QED BY <1>7, <1>8 DEF TxOK

(* The end of apply_block: every transaction of the block is done.         *)
LEMMA FinishBlockTx ==
  ASSUME FInv, faults = 0, TxOK, Work, NEW k, FinishBlock(k)
  PROVE  TxOK'
<1>1. /\ chain \in Seq(Block) /\ CursorOK /\ job.op = "apply" /\ job.txs = <<>>
      /\ job' = Idle /\ chain' = chain /\ dbTxs' = dbTxs /\ dbJournal' = dbJournal
  BY DEF FInv, Follows, FollowsBlocks, FinishBlock, Work
<1>2. job'.op = "idle"
  BY <1>1 DEF Idle
<1>3. Len(chain) \in Nat \ {0} /\ InHand \in Block /\ Full = Len(chain) - 1 /\ Full' = Len(chain)
  BY <1>1, <1>2, BlockDone DEF Full
<1>4. Abstract!TxsOf(InHand) \subseteq dbTxs
  <2>1. TxData[InHand] \in Seq(Txid)
    BY <1>3, BlockType
  <2>2. TxsDone = Len(TxData[InHand]) /\ DOMAIN TxData[InHand] = 1..Len(TxData[InHand])
        /\ Len(TxData[InHand]) \in Nat
    <3>1. TxsDone = Len(TxData[InHand]) - 0
      BY <1>1 DEF TxsDone
    <3> QED BY <2>1, <3>1
  <2>3. \A j \in DOMAIN TxData[InHand] : Done(j, 0)
    BY <2>2 DEF Done
  <2>4. \A j \in DOMAIN TxData[InHand] : TxData[InHand][j] \in dbTxs
    BY <1>1, <2>3 DEF TxOK, TxKept
  <2> QED BY <2>4 DEF Abstract!TxsOf
<1>5. \A i \in 1..Len(chain) : i \in 1..Full \/ i = Len(chain)
  BY <1>3
<1>6. TxKept'
  BY <1>1, <1>2, <1>3, <1>4, <1>5 DEF TxOK, TxKept, InHand
<1>7. TxRecorded'
  BY <1>1, <1>2 DEF TxOK, TxRecorded
<1> QED BY <1>6, <1>7 DEF TxOK

(* The end of rollback_height: no record of the height is left.            *)
LEMMA FinishRollbackTx ==
  ASSUME FInv, faults = 0, TxOK, Work, NEW k, FinishRollback(k)
  PROVE  TxOK'
<1>1. /\ job.op = "rollback" /\ job.undo = {} /\ MemoryInRollback
      /\ job' = Idle /\ chain' = chain /\ dbTxs' = dbTxs /\ dbJournal' = dbJournal
  BY DEF FInv, Follows, FollowsBlocks, FinishRollback, Work
<1>2. job'.op = "idle"
  BY <1>1 DEF Idle
<1>3. \A a \in dbJournal : a.height # job.height
  <2>1. \A a \in At(dbJournal, job.height) : <<0, a>> \in job.undo
    BY <1>1 DEF MemoryInRollback
  <2> QED BY <1>1, <2>1 DEF At
<1>4. TxKept'
  BY <1>1, <1>2 DEF TxOK, TxKept, Full
<1>5. TxRecorded'
  BY <1>1, <1>2, <1>3 DEF TxOK, TxRecorded, Records
<1> QED BY <1>4, <1>5 DEF TxOK

(* Only the record that is put can be new.                                 *)
LEMMA PutTx ==
  ASSUME NEW J, NEW r
  PROVE  Records(PutAct(J, r), "Tx") \subseteq Records(J, "Tx") \cup Records({r}, "Tx")
BY DEF Records, PutAct, DropAct

(* One step of the operation that holds the lock.                          *)
LEMMA WorkTx ==
  ASSUME FInv, faults' = 0, faults = 0, TxOK, Work
  PROVE  TxOK'
<1>0. TypeOK /\ chain' = chain
  BY DEF FInv, IInv, Work
<1>1. ASSUME NEW k \in 0..2, NEW forgotten \in BOOLEAN, IndexTx(forgotten, k) PROVE TxOK'
  <2> DEFINE act == Act(0, "Tx", <<Current>>)
  <2>1. k = 2
    BY <1>0, <1>1, CleanCalls DEF IndexTx
  <2>2. Applying /\ job' = Advance(1) /\ dbTxs' = dbTxs \cup {Current}
        /\ dbJournal' = PutAct(dbJournal, act)
    BY <1>1, <2>1 DEF IndexTx, Wrote
  <2>3. act.height = job.height /\ act.of = <<Current>>
    BY DEF Act
  <2> HIDE DEF act
  <2>4. \A a \in Records(dbJournal', "Tx") : a \in Records(dbJournal, "Tx") \/ a = act
    BY <2>2, PutTx DEF Records
  <2> QED BY <1>0, <2>2, <2>3, <2>4, ApplyTx
<1>2. ASSUME NEW k \in 0..1, SkipInput(k) PROVE TxOK'
  <2>0. k = 1
    BY <1>0, <1>2, CleanCall DEF SkipInput
  <2>1. /\ Applying /\ job' = Advance(0) /\ dbTxs' = dbTxs /\ dbJournal' = dbJournal
        /\ job.pos \in DOMAIN Inputs[Current]
    BY <1>2, <2>0 DEF SkipInput, dbVars, InputAt
  <2>2. job.pos # 0
    BY <1>0, <2>1, InputType, CurrentType
  <2> QED BY <1>0, <2>1, <2>2, ApplyTx
<1>3. ASSUME NEW k \in 0..5, IndexInput(k) PROVE TxOK'
  <2>1. k = 5
    BY <1>0, <1>3, CleanCall DEF IndexInput
  <2>2. PICK key, o : dbJournal' = PutAct(PutAct(dbJournal, Act(0, "History", key)), Act(1, "Spend", o))
    BY <1>3, <2>1 DEF IndexInput, Wrote
  <2>3. /\ Applying /\ job' = Advance(2) /\ dbTxs' = dbTxs
        /\ job.pos \in DOMAIN Inputs[Current]
    BY <1>3, <2>1 DEF IndexInput, InputAt
  <2>4. job.pos # 0
    BY <1>0, <2>3, InputType, CurrentType
  <2>5. Records({Act(0, "History", key)}, "Tx") = {} /\ Records({Act(1, "Spend", o)}, "Tx") = {}
    BY DEF Records, Act
  <2>6. Records(dbJournal', "Tx") \subseteq Records(dbJournal, "Tx")
    BY <2>2, <2>5, PutTx
  <2> QED BY <1>0, <2>3, <2>4, <2>6, ApplyTx
<1>4. ASSUME NEW k \in 0..5, IndexOutput(k) PROVE TxOK'
  <2>1. k = 5
    BY <1>0, <1>4, CleanCall DEF IndexOutput
  <2>2. PICK key, o : dbJournal' = PutAct(PutAct(dbJournal, Act(0, "History", key)), Act(1, "Output", o))
    BY <1>4, <2>1 DEF IndexOutput, Wrote
  <2>3. /\ Applying /\ job' = Advance(2) /\ dbTxs' = dbTxs
        /\ OutputAt \in DOMAIN Outputs[Current]
    BY <1>4, <2>1 DEF IndexOutput
  <2>4. job.pos # 0
    <3>1. Current \in Txid /\ job.pos \in Nat
      BY <1>0, <2>3, CurrentType
    <3>2. Len(Inputs[Current]) \in Nat
      <4>1. Inputs[Current] \in Seq(OutPoint \cup {NullOutPoint})
        BY <3>1, TransactionsAssumption
      <4> QED BY <4>1
    <3>3. OutputAt \in Nat \ {0}
      BY <2>3, <3>1, OutputType
    <3> DEFINE x == Len(Inputs[Current])
    <3>4. OutputAt = job.pos - x /\ x \in Nat
      BY <3>2 DEF OutputAt
    <3> HIDE DEF x
    <3> QED BY <3>1, <3>3, <3>4
  <2>5. Records({Act(0, "History", key)}, "Tx") = {} /\ Records({Act(1, "Output", o)}, "Tx") = {}
    BY DEF Records, Act
  <2>6. Records(dbJournal', "Tx") \subseteq Records(dbJournal, "Tx")
    BY <2>2, <2>5, PutTx
  <2> QED BY <1>0, <2>3, <2>4, <2>6, ApplyTx
<1>5. ASSUME NEW k \in 0..1, FinishBlock(k) PROVE TxOK'
  BY <1>5, FinishBlockTx
<1>6. ASSUME NEW e \in job.undo, NEW k \in 0..2, UndoTx(e, k) PROVE TxOK'
  <2>1. Undo(e, "Tx", k, 2)
    BY <1>6 DEF UndoTx
  <2>2. k = 2
    BY <2>1, UndoFollows
  <2>3. dbTxs' = dbTxs \ {e[2].of[1]}
    BY <1>6, <2>2 DEF UndoTx, Wrote
  <2> QED BY <2>1, <2>3, UndoneTx
<1>7. ASSUME NEW e \in job.undo, NEW k \in 0..2, UndoHistory(e, k) PROVE TxOK'
  BY <1>7, UndoneTx DEF UndoHistory
<1>8. ASSUME NEW e \in job.undo, NEW k \in 0..4, UndoOutput(e, k) PROVE TxOK'
  BY <1>8, UndoneTx DEF UndoOutput
<1>9. ASSUME NEW e \in job.undo, NEW k \in 0..4, UndoSpend(e, k) PROVE TxOK'
  BY <1>9, UndoneTx DEF UndoSpend
<1>10. ASSUME NEW k \in 0..1, FinishRollback(k) PROVE TxOK'
  BY <1>10, FinishRollbackTx
<1>11. CASE ApplyStep
  BY <1>1, <1>2, <1>3, <1>4, <1>5, <1>11 DEF ApplyStep
<1>12. CASE RollbackStep
  BY <1>6, <1>7, <1>8, <1>9, <1>10, <1>12 DEF RollbackStep
<1> QED BY <1>11, <1>12 DEF Work

(* The pending pool deletes no raw transaction.                            *)
LEMMA PoolTx ==
  ASSUME TxOK, Pending
  PROVE  TxOK'
<1>1. ASSUME NEW t, NEW kept, NEW k, Track(t, kept, k)
      PROVE  job.op = "idle" /\ dbTxs \subseteq dbTxs' /\ UNCHANGED <<dbJournal, job>>
  BY <1>1 DEF Track, Wrote
<1>2. job.op = "idle" /\ dbTxs \subseteq dbTxs' /\ UNCHANGED <<dbJournal, job>>
  BY <1>1 DEF Pending, PendingStep, TransactionBroadcast, TxStatusChange, Restore, Forget, ForgetChain
<1>3. chain' = chain
  BY DEF Pending
<1> QED BY <1>2, <1>3, TxGrows

(* A step that changes nothing.                                            *)
LEMMA StutterTx ==
  ASSUME TxOK, UNCHANGED fvars
  PROVE  TxOK'
<1>1. UNCHANGED <<dbTxs, dbJournal, job, chain>>
  BY DEF fvars, vars, dbVars
<1>2. InHand' = InHand /\ TxsDone' = TxsDone /\ Full' = Full /\ Confirmed' = Confirmed
  BY <1>1 DEF InHand, TxsDone, Full, Confirmed
<1> QED BY <1>1, <1>2 DEF TxOK, TxKept, TxRecorded, Done

(* The invariant is inductive.                                             *)
LEMMA QueriesInv == QInv /\ [FNext]_fvars => QInv'
<1> SUFFICES ASSUME QInv, [FNext]_fvars PROVE QInv'
  OBVIOUS
<1>1. FInv /\ FInv'
  BY FollowerInv DEF QInv
<1>2. ASSUME faults' = 0 PROVE TxOK'
  <2>1. ASSUME NEW b \in Block, Connect(b) PROVE TxOK'
    BY <1>1, <1>2, <2>1, ConnectTx DEF QInv, Connect, Connected
  <2>2. CASE Disconnect
    BY <1>1, <1>2, <2>2, DisconnectTx DEF QInv, Disconnect, Disconnected
  <2>3. CASE Work
    BY <1>1, <1>2, <2>3, WorkFollows, WorkTx DEF QInv
  <2>4. CASE Pending
    <3>1. faults = 0
      BY <1>1, <1>2, <2>4, PoolFollows DEF FInv
    <3> QED BY <2>4, <3>1, PoolTx DEF QInv
  <2>5. CASE Restart
    <3>1. UNCHANGED <<dbTxs, dbJournal, chain, faults>> /\ job.op = "idle" /\ job'.op = "idle"
      BY <2>5 DEF Restart, Reopen, dbVars, Idle
    <3> QED BY <1>2, <3>1, TxGrows DEF QInv
  <2>6. CASE UNCHANGED fvars
    BY <1>2, <2>6, StutterTx DEF QInv, fvars, vars
  <2> QED BY <2>1, <2>2, <2>3, <2>4, <2>5, <2>6 DEF FNext
<1> QED BY <1>1, <1>2 DEF QInv

(* It holds for an index that has just been created.                       *)
LEMMA QueriesInit == FInit => QInv
<1> SUFFICES ASSUME FInit PROVE QInv
  OBVIOUS
<1>1. chain = <<>> /\ job.op = "idle" /\ dbJournal = {}
  BY DEF FInit, Init, OpenEmpty, Idle
<1>2. Full = 0
  BY <1>1 DEF Full
<1>3. TxOK
  BY <1>1, <1>2 DEF TxOK, TxKept, TxRecorded, Records
<1> QED BY <1>3, FollowerInit DEF QInv

(* The requests leave the index alone.                                     *)
LEMMA RequestStep == [RNext]_rvars => [FNext]_fvars
BY DEF RNext, rvars, BalanceRead, BalanceReply, BlockArrives, BlockWork, PoolChange,
       ServerRestart, FNext

(* As long as no store call has failed, the raw transactions of the chain  *)
(* are in the store, on top of what FollowerInvariance says.               *)
THEOREM RequestsInvariance == RSpec => []QInv
<1>1. RInit => QInv
  BY QueriesInit DEF RInit
<1>2. QInv /\ [RNext]_rvars => QInv'
  BY QueriesInv, RequestStep
<1> QED BY <1>1, <1>2, PTL DEF RSpec

-----------------------------------------------------------------------------
(* What readers compute.                                                   *)

(* Outputs and spent outpoints of a set of transactions, member by member. *)
LEMMA MadeBy ==
  ASSUME NEW S, NEW o
  PROVE  /\ o \in CreatedBy(S) <=> \E t \in S : o \in Created(t)
         /\ o \in SpentBy(S) <=> \E t \in S : o \in Prevouts(t)
         /\ o \in CreatedBy(S) => o[1] \in S
<1>1. o \in CreatedBy(S) <=> \E t \in S : o \in Created(t)
  BY DEF CreatedBy
<1>2. o \in SpentBy(S) <=> \E t \in S : o \in Prevouts(t)
  BY DEF SpentBy
<1>3. \A t : o \in Created(t) => o[1] = t
  BY DEF Created
<1> QED BY <1>1, <1>2, <1>3

(* Between two events the stored outputs are those of the chain, each with *)
(* the height of its block, and the chain spends only its own outputs.     *)
LEMMA ReadableStore ==
  ASSUME FInv, faults = 0, Readable
  PROVE  /\ dbUtxos = CreatedBy(Confirmed) \ SpentBy(Confirmed)
         /\ Stored = CreatedBy(Confirmed)
         /\ SpentBy(Confirmed) \subseteq CreatedBy(Confirmed)
         /\ \A o \in Stored : /\ dbOutputs[o] \in DOMAIN chain
                              /\ o[1] \in Abstract!TxsOf(chain[dbOutputs[o]])
<1>1. /\ chain \in Seq(Block) /\ job.op = "idle" /\ JournalIsChain /\ StoreIsJournal
      /\ JournalOK(dbJournal) /\ Full = Len(chain) /\ DOMAIN chain = 1..Len(chain)
  BY DEF FInv, Follows, FollowsBlocks, Readable, Full
<1>2. /\ Named(dbJournal, "Output") = CreatedBy(Confirmed)
      /\ Named(dbJournal, "Spend") = SpentBy(Confirmed)
  BY <1>1, NamedOfChain
<1>3. dbUtxos = CreatedBy(Confirmed) \ SpentBy(Confirmed) /\ Stored = CreatedBy(Confirmed)
  BY <1>1, <1>2 DEF StoreIsJournal, Stored
<1>4. Named(dbJournal, "Spend") \subseteq Named(dbJournal, "Output")
  BY <1>1 DEF JournalOK, Named
<1>5. ASSUME NEW o \in Stored
      PROVE  dbOutputs[o] \in DOMAIN chain /\ o[1] \in Abstract!TxsOf(chain[dbOutputs[o]])
  <2>1. PICK a \in Records(dbJournal, "Output") : a.of = o
    BY <1>1 DEF StoreIsJournal, Stored, Named
  <2>2. a \in dbJournal /\ dbOutputs[o] = a.height
    BY <1>1, <2>1 DEF StoreIsJournal, Records
  <2>3. a.height \in 1..Len(chain)
    BY <1>1, <2>2 DEF JournalIsChain
  <2>4. o \in Named(At(dbJournal, a.height), "Output")
    BY <2>1, <2>2 DEF Named, At, Records
  <2>5. o \in Abstract!BlockCreates(chain[a.height])
    BY <1>1, <2>3, <2>4 DEF JournalIsChain, Recorded
  <2>6. PICK t \in Abstract!TxsOf(chain[a.height]) : o \in Created(t)
    BY <2>5, BlockMakes
  <2>7. o[1] = t
    BY <2>6 DEF Created
  <2> QED BY <1>1, <2>2, <2>3, <2>6, <2>7
<1> QED BY <1>2, <1>3, <1>4, <1>5

(* The rows of listunspent before they are deduplicated.                   *)
Rows(sh) ==
  {Unspent(o) : o \in PaidTo(sh, dbUtxos \ SpentBy(pendingTxs))}
    \cup {UnspentPending(o) : o \in PaidTo(sh, pendingOutputs)}

(* Every output of the chain and the pool that neither spends has a row.   *)
LEMMA VisibleOutputs ==
  ASSUME FInv, faults = 0, Readable, pendingTxs \cap Confirmed = {}
  PROVE  /\ \A o : o \in CreatedBy(Visible) \ SpentBy(Visible) <=>
                     o \in dbUtxos \ SpentBy(pendingTxs) \/ o \in pendingOutputs
         /\ \A o \in dbUtxos : o[1] \in Confirmed
         /\ \A o \in pendingOutputs : o[1] \in pendingTxs
<1>1. /\ dbUtxos = CreatedBy(Confirmed) \ SpentBy(Confirmed)
      /\ SpentBy(Confirmed) \subseteq CreatedBy(Confirmed)
  BY ReadableStore
<1>2. pendingOutputs = CreatedBy(pendingTxs) \ SpentBy(pendingTxs)
  BY DEF FInv, IInv, PendingViewFresh, PendingView
<1>3. \A o : /\ o \in CreatedBy(Visible) <=> o \in CreatedBy(Confirmed) \/ o \in CreatedBy(pendingTxs)
             /\ o \in SpentBy(Visible) <=> o \in SpentBy(Confirmed) \/ o \in SpentBy(pendingTxs)
  BY MadeBy DEF Visible
<1>4. \A o : ~(o \in CreatedBy(pendingTxs) /\ o \in CreatedBy(Confirmed))
  BY MadeBy
<1>5. \A o : o \in CreatedBy(pendingTxs) => o \notin SpentBy(Confirmed)
  BY <1>1, <1>4
<1>6. \A o : o \in CreatedBy(Visible) \ SpentBy(Visible) <=>
               o \in dbUtxos \ SpentBy(pendingTxs) \/ o \in pendingOutputs
  BY <1>1, <1>2, <1>3, <1>5
<1> QED BY <1>1, <1>2, <1>6, MadeBy

(* A row is a pending output or one of the chain, with its height.         *)
LEMMA RowOf ==
  ASSUME FInv, faults = 0, Readable, pendingTxs \cap Confirmed = {}, NEW sh, NEW e \in Rows(sh)
  PROVE  /\ e.outpoint \in OutPoint /\ e.height \in Nat
         /\ \/ e = UnspentPending(e.outpoint) /\ e.outpoint[1] \in pendingTxs /\ e.height = 0
            \/ /\ e = Unspent(e.outpoint) /\ e.outpoint[1] \in Confirmed
               /\ e.height \in DOMAIN chain
               /\ e.outpoint[1] \in Abstract!TxsOf(chain[e.height])
<1>0. /\ dbUtxos \subseteq OutPoint /\ pendingOutputs \subseteq OutPoint
      /\ dbUtxos \subseteq Stored /\ chain \in Seq(Block)
  BY DEF FInv, IInv, TypeOK, StoreTypeOK, UtxoHasOutput, Stored, RealOutPoint
<1>1. ASSUME NEW o \in PaidTo(sh, pendingOutputs), e = UnspentPending(o)
      PROVE  /\ e.outpoint \in OutPoint /\ e.height = 0 /\ e = UnspentPending(e.outpoint)
             /\ e.outpoint[1] \in pendingTxs
  <2>1. e.outpoint = o /\ e.height = 0
    BY <1>1 DEF UnspentPending
  <2>2. o \in pendingOutputs
    BY DEF PaidTo
  <2> QED BY <1>0, <1>1, <2>1, <2>2, VisibleOutputs
<1>2. ASSUME NEW o \in PaidTo(sh, dbUtxos \ SpentBy(pendingTxs)), e = Unspent(o)
      PROVE  /\ e.outpoint \in OutPoint /\ e.height \in DOMAIN chain /\ e = Unspent(e.outpoint)
             /\ e.outpoint[1] \in Confirmed
             /\ e.outpoint[1] \in Abstract!TxsOf(chain[e.height])
  <2>1. o \in dbUtxos /\ o \in Stored
    BY <1>0 DEF PaidTo
  <2>2. e.outpoint = o /\ e.height = dbOutputs[o]
    BY <1>2, <2>1 DEF Unspent
  <2> QED BY <1>0, <1>2, <2>1, <2>2, VisibleOutputs, ReadableStore
<1>3. DOMAIN chain \subseteq Nat
  BY <1>0
<1> QED BY <1>1, <1>2, <1>3 DEF Rows

(* No key comes before itself, so the rows, which name each outpoint once, *)
(* are all kept.                                                           *)
LEMMA RowsAreKept ==
  ASSUME FInv, faults = 0, Readable, pendingTxs \cap Confirmed = {}, NEW sh
  PROVE  /\ \A d, e \in Rows(sh) : d.outpoint = e.outpoint => d = e
         /\ ListUnspent(sh) = Rows(sh)
<1>1. ASSUME NEW d \in Rows(sh), NEW e \in Rows(sh), d.outpoint = e.outpoint PROVE d = e
  <2>1. \/ d = UnspentPending(d.outpoint) /\ d.outpoint[1] \in pendingTxs
        \/ d = Unspent(d.outpoint) /\ d.outpoint[1] \in Confirmed
    BY RowOf
  <2>2. \/ e = UnspentPending(e.outpoint) /\ e.outpoint[1] \in pendingTxs
        \/ e = Unspent(e.outpoint) /\ e.outpoint[1] \in Confirmed
    BY RowOf
  <2>3. ~(d.outpoint[1] \in pendingTxs /\ d.outpoint[1] \in Confirmed)
    OBVIOUS
  <2> QED BY <1>1, <2>1, <2>2, <2>3, Zenon
<1>2. ASSUME NEW e \in Rows(sh) PROVE ~UnspentBefore(e, e)
  <2> DEFINE k == <<e.height, TxRank[e.outpoint[1]], e.outpoint[2]>>
  <2>1. e.outpoint \in OutPoint /\ e.height \in Nat
    BY RowOf
  <2>2. k \in Nat \X Nat \X Nat
    BY <2>1, QueriesAssumption DEF OutPoint
  <2>3. \A i \in DOMAIN k : ~(k[i] < k[i])
    <3>1. DOMAIN k = {1, 2, 3}
      OBVIOUS
    <3> HIDE DEF k
    <3> QED BY <2>2, <3>1
  <2> HIDE DEF k
  <2>4. ~Before(k, k)
    BY <2>3 DEF Before
  <2> QED BY <2>4 DEF UnspentBefore, k
<1>3. ListUnspent(sh) = Dedup(Rows(sh))
  BY DEF ListUnspent, Rows
<1>4. Dedup(Rows(sh)) = Rows(sh)
  <2>1. ASSUME NEW e \in Rows(sh) PROVE e \in Dedup(Rows(sh))
    <3>1. \A d \in Rows(sh) : ~(d.outpoint = e.outpoint /\ UnspentBefore(d, e))
      BY <1>1, <1>2
    <3> QED BY <3>1 DEF Dedup
  <2> QED BY <2>1 DEF Dedup
<1> QED BY <1>1, <1>3, <1>4

(* After any reorgs, replacements and restarts Indexer::list_unspent gives *)
(* every output of the chain and of the pool that neither of them spends,  *)
(* once and with its height.                                               *)
THEOREM UnspentListIsExact == RSpec => [](faults = 0 => UnspentExact)
<1>1. ASSUME FInv, faults = 0 PROVE UnspentExact
  <2> SUFFICES ASSUME Readable, pendingTxs \cap Confirmed = {}, NEW sh \in ScriptHash
      PROVE  /\ {e.outpoint : e \in ListUnspent(sh)}
                  = PaidTo(sh, CreatedBy(Visible) \ SpentBy(Visible))
             /\ \A d, e \in ListUnspent(sh) : d.outpoint = e.outpoint => d = e
             /\ \A e \in ListUnspent(sh) :
                  \/ e.height = 0 /\ e.outpoint[1] \in pendingTxs
                  \/ e.height \in DOMAIN chain /\ e.outpoint[1] \in Abstract!TxsOf(chain[e.height])
    BY DEF UnspentExact
  <2>1. ListUnspent(sh) = Rows(sh) /\ \A d, e \in Rows(sh) : d.outpoint = e.outpoint => d = e
    BY <1>1, RowsAreKept
  <2>2. \A o : Unspent(o).outpoint = o /\ UnspentPending(o).outpoint = o
    BY DEF Unspent, UnspentPending
  <2>3. ASSUME NEW o
        PROVE  (\E e \in Rows(sh) : o = e.outpoint)
                 <=> o \in PaidTo(sh, CreatedBy(Visible) \ SpentBy(Visible))
    <3>1. (\E e \in Rows(sh) : o = e.outpoint) <=>
            o \in PaidTo(sh, dbUtxos \ SpentBy(pendingTxs)) \/ o \in PaidTo(sh, pendingOutputs)
      BY <2>2 DEF Rows
    <3> QED BY <1>1, <3>1, VisibleOutputs DEF PaidTo
  <2>4. {e.outpoint : e \in Rows(sh)} = PaidTo(sh, CreatedBy(Visible) \ SpentBy(Visible))
    BY <2>3
  <2>5. \A e \in Rows(sh) :
          \/ e.height = 0 /\ e.outpoint[1] \in pendingTxs
          \/ e.height \in DOMAIN chain /\ e.outpoint[1] \in Abstract!TxsOf(chain[e.height])
    BY <1>1, RowOf
  <2> QED BY <2>1, <2>4, <2>5
<1>2. QInv => (faults = 0 => UnspentExact)
  BY <1>1 DEF QInv
<1> QED BY <1>2, RequestsInvariance, PTL

(* Every confirmed transaction is in the store, and so is every one that a *)
(* confirmed history entry names.                                          *)
LEMMA ReadableTxs ==
  ASSUME QInv, faults = 0, Readable
  PROVE  Confirmed \subseteq dbTxs /\ \A x \in history : x[2][4] \in Confirmed
<1>1. /\ chain \in Seq(Block) /\ JournalIsChain /\ StoreIsJournal /\ MemoryIsStore
      /\ Full = Len(chain) /\ DOMAIN chain = 1..Len(chain) /\ TxKept /\ job.op = "idle"
  BY DEF QInv, TxOK, FInv, Follows, FollowsBlocks, Readable, Full
<1>2. Confirmed \subseteq dbTxs
  BY <1>1, ConfirmedMember DEF TxKept
<1>3. ASSUME NEW x \in history PROVE x[2][4] \in Confirmed
  <2>1. x[2] \in dbHistory
    BY <1>1 DEF MemoryIsStore, LoadHistory
  <2>2. PICK a \in Records(dbJournal, "History") : a.of = x[2]
    BY <1>1, <2>1 DEF StoreIsJournal, Named
  <2>3. a.height \in DOMAIN chain
    BY <1>1 DEF JournalIsChain, Records
  <2>4. x[2] \in Named(At(dbJournal, a.height), "History")
    BY <2>2 DEF Named, At, Records
  <2>5. x[2] \in Abstract!BlockEntries(chain[a.height], a.height)
    BY <1>1, <2>3, <2>4 DEF JournalIsChain, Recorded
  <2>6. PICK t \in Abstract!TxsOf(chain[a.height]) : x[2][4] = t
    BY <2>5, EntryOf
  <2> QED BY <2>3, <2>6, ConfirmedMember
<1> QED BY <1>2, <1>3

(* An entry of a script's history is a confirmed or a pending one.         *)
LEMMA HistoryEntry ==
  ASSUME TypeOK, NEW sh, NEW e \in GetHistory(sh)
  PROVE  /\ e.txid \in Txid /\ e.height \in Height \cup {0} /\ e.sequence \in Nat
         /\ e.height = 0 \/ \E x \in history : e.txid = x[2][4]
<1>1. history \subseteq Nat \X HistoryKey /\ pendingTxs \subseteq Txid
  BY DEF TypeOK
<1>2. ASSUME NEW x \in history,
             e = [txid |-> x[2][4], height |-> x[2][2], sequence |-> x[2][5] - 1]
      PROVE  /\ e.txid \in Txid /\ e.height \in Height \cup {0} /\ e.sequence \in Nat
             /\ e.txid = x[2][4]
  <2>1. x[2] \in HistoryKey
    BY <1>1
  <2>2. x[2][4] \in Txid /\ x[2][2] \in Height /\ x[2][5] \in Nat \ {0}
    BY <2>1 DEF HistoryKey
  <2>3. e.txid = x[2][4] /\ e.height = x[2][2] /\ e.sequence = x[2][5] - 1
    BY <1>2
  <2> QED BY <2>2, <2>3
<1>3. ASSUME NEW t \in PendingHistoryOf(sh), e = [txid |-> t, height |-> 0, sequence |-> 0]
      PROVE  e.txid \in Txid /\ e.height = 0 /\ e.sequence \in Nat
  BY <1>1, <1>3 DEF PendingHistoryOf, PendingHistory
<1> QED BY <1>2, <1>3 DEF GetHistory

(* A client can fetch every confirmed transaction it is told of: a         *)
(* rollback deletes raw transactions, but never one that the new chain     *)
(* still holds, and listunspent is never answered with an error.           *)
THEOREM RequestsAreAnswered == RSpec => [](faults = 0 => QueriesAnswered)
<1>1. ASSUME QInv, faults = 0, Readable
      PROVE  /\ \A sh \in ScriptHash :
                  /\ Dispatch("listunspent", sh).ok
                  /\ \A e \in Dispatch("get_history", sh).value :
                       e.height # 0 => Dispatch("transaction.get", e.tx_hash).ok
             /\ \A t \in Confirmed : Dispatch("transaction.get", t).ok
  <2>1. \A v : Ok(v).ok /\ Ok(v).value = v
    BY DEF Ok
  <2>2. ASSUME NEW t \in Confirmed PROVE Dispatch("transaction.get", t).ok
    <3>1. Dispatch("transaction.get", t) = HandleTransactionGet(t)
      BY SMT DEF Dispatch
    <3>2. t \in dbTxs
      BY <1>1, ReadableTxs
    <3> QED BY <2>1, <3>1, <3>2 DEF HandleTransactionGet, GetTransaction
  <2>3. ASSUME NEW sh \in ScriptHash PROVE Dispatch("listunspent", sh).ok
    <3>1. Dispatch("listunspent", sh) = HandleListUnspent(sh)
      BY SMT DEF Dispatch
    <3>2. ~ListUnspentFails(sh)
      BY <1>1 DEF QInv, FInv, IInv, UtxoHasOutput, ListUnspentFails, PaidTo, Stored
    <3> QED BY <2>1, <3>1, <3>2 DEF HandleListUnspent, ScriptQuery
  <2>4. ASSUME NEW sh \in ScriptHash, NEW r \in Dispatch("get_history", sh).value, r.height # 0
        PROVE  Dispatch("transaction.get", r.tx_hash).ok
    <3> DEFINE rows == {[tx_hash |-> e.txid, height |-> e.height] : e \in GetHistory(sh)}
    <3>1. Dispatch("get_history", sh) = HandleGetHistory(sh)
      BY SMT DEF Dispatch
    <3>2. HandleGetHistory(sh) = Ok(rows)
      BY DEF HandleGetHistory, ScriptQuery
    <3>3. r \in rows
      BY <2>1, <2>4, <3>1, <3>2
    <3>4. PICK e \in GetHistory(sh) : r = [tx_hash |-> e.txid, height |-> e.height]
      BY <3>3
    <3>5. r.tx_hash = e.txid /\ r.height = e.height
      BY <3>4
    <3>6. e.txid \in Confirmed
      BY <1>1, <2>4, <3>5, HistoryEntry, ReadableTxs DEF QInv, FInv, IInv
    <3> QED BY <2>2, <3>5, <3>6
  <2> QED BY <2>2, <2>3, <2>4
<1>2. QInv => (faults = 0 => QueriesAnswered)
  BY <1>1 DEF QueriesAnswered
<1> QED BY <1>2, RequestsInvariance, PTL

(* Keys of three numbers are totally ordered.                              *)
LEMMA KeysCompare ==
  ASSUME NEW a1 \in Nat, NEW a2 \in Nat, NEW a3 \in Nat,
         NEW b1 \in Nat, NEW b2 \in Nat, NEW b3 \in Nat
  PROVE  \/ a1 = b1 /\ a2 = b2 /\ a3 = b3
         \/ Before(<<a1, a2, a3>>, <<b1, b2, b3>>)
         \/ Before(<<b1, b2, b3>>, <<a1, a2, a3>>)
<1>1. ASSUME NEW x1 \in Nat, NEW x2 \in Nat, NEW x3 \in Nat,
             NEW y1 \in Nat, NEW y2 \in Nat, NEW y3 \in Nat,
             \/ x1 < y1
             \/ x1 = y1 /\ x2 < y2
             \/ x1 = y1 /\ x2 = y2 /\ x3 < y3
      PROVE  Before(<<x1, x2, x3>>, <<y1, y2, y3>>)
  <2>1. 1..(1 - 1) = {} /\ 1..(2 - 1) = {1} /\ 1..(3 - 1) = {1, 2}
    OBVIOUS
  <2>2. CASE x1 < y1
    BY <2>1, <2>2 DEF Before
  <2>3. CASE x1 = y1 /\ x2 < y2
    BY <2>1, <2>3 DEF Before
  <2>4. CASE x1 = y1 /\ x2 = y2 /\ x3 < y3
    BY <2>1, <2>4 DEF Before
  <2> QED BY <1>1, <2>2, <2>3, <2>4
<1>2. CASE a1 < b1 \/ (a1 = b1 /\ a2 < b2) \/ (a1 = b1 /\ a2 = b2 /\ a3 < b3)
  BY <1>1, <1>2
<1>3. CASE b1 < a1 \/ (b1 = a1 /\ b2 < a2) \/ (b1 = a1 /\ b2 = a2 /\ b3 < a3)
  BY <1>1, <1>3
<1> QED BY <1>2, <1>3

(* The sort key of get_history tells apart any two entries of a script     *)
(* that differ in what the client is told, so the status does not depend   *)
(* on the order in which the entries were pushed or loaded, also after     *)
(* failed store calls.                                                     *)
THEOREM HistoryOrderIsFixed == RSpec => []HistoryOrderFixed
<1>1. ASSUME TypeOK PROVE HistoryOrderFixed
  <2> DEFINE place(e) == IF e.height = 0 THEN MaxU32 ELSE e.height
  <2>1. ASSUME NEW sh, NEW e \in GetHistory(sh)
        PROVE  /\ place(e) \in Nat /\ e.sequence \in Nat /\ TxRank[e.txid] \in Nat
               /\ e.txid \in Txid /\ e.height \in Height \cup {0}
    <3>1. e.txid \in Txid /\ e.height \in Height \cup {0} /\ e.sequence \in Nat
      BY <1>1, HistoryEntry
    <3>2. MaxU32 \in Nat
      BY SMT DEF MaxU32
    <3> QED BY <3>1, <3>2, HeightAssumption, QueriesAssumption
  <2>2. ASSUME NEW sh \in ScriptHash, NEW d \in GetHistory(sh), NEW e \in GetHistory(sh),
               place(d) = place(e), TxRank[d.txid] = TxRank[e.txid]
        PROVE  <<d.txid, d.height>> = <<e.txid, e.height>>
    <3>1. d.txid = e.txid
      BY <2>1, <2>2, QueriesAssumption
    <3>2. d.height = e.height
      BY <2>1, <2>2, QueriesAssumption
    <3> QED BY <3>1, <3>2
  <2>3. \A e : HistorySortKey(e) = <<place(e), e.sequence, TxRank[e.txid]>>
    BY DEF HistorySortKey
  <2> HIDE DEF place
  <2>4. ASSUME NEW sh \in ScriptHash, NEW d \in GetHistory(sh), NEW e \in GetHistory(sh)
        PROVE  \/ <<d.txid, d.height>> = <<e.txid, e.height>>
               \/ Before(HistorySortKey(d), HistorySortKey(e))
               \/ Before(HistorySortKey(e), HistorySortKey(d))
    <3>1. \/ place(d) = place(e) /\ d.sequence = e.sequence /\ TxRank[d.txid] = TxRank[e.txid]
          \/ Before(<<place(d), d.sequence, TxRank[d.txid]>>, <<place(e), e.sequence, TxRank[e.txid]>>)
          \/ Before(<<place(e), e.sequence, TxRank[e.txid]>>, <<place(d), d.sequence, TxRank[d.txid]>>)
      BY <2>1, KeysCompare
    <3> QED BY <2>2, <2>3, <3>1
  <2> QED BY <2>4 DEF HistoryOrderFixed
<1>2. QInv => HistoryOrderFixed
  BY <1>1 DEF QInv, FInv, IInv
<1> QED BY <1>2, RequestsInvariance, PTL

(* Outpoints that exist are created by a set of transactions exactly when  *)
(* their transaction is a member.                                          *)
LEMMA RealCreated ==
  ASSUME NEW S, NEW o \in RealOutPoint
  PROVE  o \in CreatedBy(S) <=> o[1] \in S
<1>1. o = <<o[1], o[2]>> /\ o[2] \in DOMAIN Outputs[o[1]]
  BY DEF RealOutPoint, Exists, OutPoint
<1>2. o \in Created(o[1])
  BY <1>1 DEF Created
<1> QED BY <1>2, MadeBy

-----------------------------------------------------------------------------
(* Sums over finite sets.                                                  *)

(* The element SumFunctionOnSet takes next.                                *)
First(s) == CHOOSE x \in s : TRUE

(* Its recursion, for a function g on the subsets.                         *)
SumBody(f, g, s) == IF s = {} THEN 0 ELSE f[First(s)] + g[s \ {First(s)}]

Sums(f, S, g) == g = [s \in SUBSET S |-> SumBody(f, g, s)]

(* A sum is what a solution of the recursion says of the whole set.        *)
LEMMA SumIsChosen ==
  ASSUME NEW f, NEW S
  PROVE  SumFunctionOnSet(f, S) = (CHOOSE g : Sums(f, S, g))[S]
BY Zenon DEF SumFunctionOnSet, FoldFunctionOnSet, MapThenFoldSet, Sums, SumBody, First

(* It has a solution when S is finite: one that is right up to size n can  *)
(* be made right up to size n + 1.                                         *)
LEMMA SumExists ==
  ASSUME NEW f, NEW S, IsFiniteSet(S)
  PROVE  \E g : Sums(f, S, g)
<1> DEFINE Good(g, n) == \A s \in SUBSET S : Cardinality(s) <= n => g[s] = SumBody(f, g, s)
           T == {n \in Nat : \E g : g = [s \in SUBSET S |-> g[s]] /\ Good(g, n)}
<1>1. \A s \in SUBSET S : IsFiniteSet(s) /\ Cardinality(s) \in Nat
  BY FS_Subset, FS_CardinalityType
<1>2. \A s : s # {} => First(s) \in s
  BY DEF First
<1>3. 0 \in T
  <2> DEFINE g == [s \in SUBSET S |-> 0]
  <2>1. g = [s \in SUBSET S |-> g[s]]
    OBVIOUS
  <2>2. Good(g, 0)
    BY <1>1, FS_EmptySet DEF SumBody
  <2> HIDE DEF g
  <2> QED BY <2>1, <2>2
<1>4. ASSUME NEW n \in Nat, n \in T PROVE n + 1 \in T
  <2>1. PICK g : g = [s \in SUBSET S |-> g[s]] /\ Good(g, n)
    BY <1>4
  <2> DEFINE h == [s \in SUBSET S |-> IF Cardinality(s) <= n THEN g[s] ELSE SumBody(f, g, s)]
  <2>2. h = [s \in SUBSET S |-> h[s]]
    OBVIOUS
  <2>3. \A s \in SUBSET S : h[s] = IF Cardinality(s) <= n THEN g[s] ELSE SumBody(f, g, s)
    OBVIOUS
  <2> HIDE DEF h
  <2>4. ASSUME NEW s \in SUBSET S, Cardinality(s) <= n + 1 PROVE h[s] = SumBody(f, h, s)
    <3>1. h[s] = SumBody(f, g, s)
      BY <2>1, <2>3
    <3>2. CASE s = {}
      BY <3>1, <3>2 DEF SumBody
    <3>3. CASE s # {}
      <4> DEFINE r == s \ {First(s)}
      <4>1. Cardinality(r) = Cardinality(s) - 1 /\ r \in SUBSET S
        BY <1>1, <1>2, <3>3, FS_RemoveElement
      <4>2. Cardinality(r) <= n
        BY <1>1, <2>4, <4>1
      <4>3. h[r] = g[r]
        BY <2>3, <4>1, <4>2
      <4> QED BY <3>1, <3>3, <4>3 DEF SumBody
    <3> QED BY <3>2, <3>3
  <2>5. Good(h, n + 1)
    BY <2>4
  <2> HIDE DEF Good
  <2> QED BY <2>2, <2>5
<1> HIDE DEF T
<1>5. Cardinality(S) \in T
  <2>1. Cardinality(S) \in Nat
    BY <1>1
  <2>2. \A i \in 0..(Cardinality(S) - 1) : i \in T => i + 1 \in T
    BY <1>4, <2>1
  <2>3. \A i \in 0..Cardinality(S) : i \in T
    BY <1>3, <2>1, <2>2, NumbersUpTo
  <2> QED BY <2>1, <2>3
<1>6. PICK g : g = [s \in SUBSET S |-> g[s]] /\ Good(g, Cardinality(S))
  BY <1>5 DEF T
<1>7. \A s \in SUBSET S : Cardinality(s) <= Cardinality(S)
  BY FS_Subset
<1>8. g = [s \in SUBSET S |-> SumBody(f, g, s)]
  BY <1>6, <1>7
<1> QED BY <1>8 DEF Sums

(* Two solutions agree where both are defined.                             *)
LEMMA SumsAgree ==
  ASSUME NEW f, NEW S, NEW T, NEW g, NEW h, IsFiniteSet(T), T \subseteq S,
         Sums(f, S, g), Sums(f, T, h)
  PROVE  g[T] = h[T]
<1> DEFINE P == {s \in SUBSET T : g[s] = h[s]}
<1>1. \A s : s # {} => First(s) \in s
  BY DEF First
<1>2. ASSUME NEW s \in SUBSET T PROVE g[s] = SumBody(f, g, s) /\ h[s] = SumBody(f, h, s)
  BY DEF Sums
<1>3. ASSUME NEW s \in SUBSET T, \A x \in s : s \ {x} \in P PROVE s \in P
  BY <1>1, <1>2, <1>3 DEF SumBody
<1> HIDE DEF P
<1>4. T \in P
  BY <1>3, SmallestFirst
<1> QED BY <1>4 DEF P

(* A sum over a finite set takes out its first element.                    *)
LEMMA SumUnfolds ==
  ASSUME NEW f, NEW S, IsFiniteSet(S)
  PROVE  SumFunctionOnSet(f, S) =
           IF S = {} THEN 0 ELSE f[First(S)] + SumFunctionOnSet(f, S \ {First(S)})
<1> DEFINE sum(T) == CHOOSE g : Sums(f, T, g)
           rest == S \ {First(S)}
<1>1. \A T : IsFiniteSet(T) => Sums(f, T, sum(T))
  BY SumExists
<1>2. IsFiniteSet(rest) /\ rest \subseteq S
  BY FS_Subset
<1>3. SumFunctionOnSet(f, S) = sum(S)[S] /\ SumFunctionOnSet(f, rest) = sum(rest)[rest]
  BY SumIsChosen
<1>4. Sums(f, S, sum(S)) /\ Sums(f, rest, sum(rest))
  BY <1>1, <1>2
<1> HIDE DEF sum
<1>5. sum(S)[S] = SumBody(f, sum(S), S)
  BY <1>4 DEF Sums
<1>6. sum(S)[rest] = sum(rest)[rest]
  BY <1>2, <1>4, SumsAgree
<1> QED BY <1>3, <1>5, <1>6 DEF SumBody

(* Sums of natural numbers are natural numbers.                            *)
LEMMA SumType ==
  ASSUME NEW U, NEW f \in [U -> Nat], NEW S, IsFiniteSet(S), S \subseteq U
  PROVE  SumFunctionOnSet(f, S) \in Nat
<1> DEFINE P == {s \in SUBSET S : SumFunctionOnSet(f, s) \in Nat}
<1>1. ASSUME NEW s \in SUBSET S, \A x \in s : s \ {x} \in P PROVE s \in P
  <2>1. IsFiniteSet(s)
    BY FS_Subset
  <2>2. s # {} => First(s) \in s
    BY DEF First
  <2>3. CASE s = {}
    <3>1. SumFunctionOnSet(f, s) = 0
      BY <2>1, <2>3, SumUnfolds
    <3> QED BY <3>1
  <2>4. CASE s # {}
    <3>1. f[First(s)] \in Nat /\ SumFunctionOnSet(f, s \ {First(s)}) \in Nat
      BY <1>1, <2>2, <2>4
    <3> QED BY <2>1, <2>4, <3>1, SumUnfolds
  <2> QED BY <2>3, <2>4
<1> HIDE DEF P
<1>2. \A s \in SUBSET S : (\A x \in s : s \ {x} \in P) => s \in P
  BY <1>1
<1>3. \A s \in SUBSET S : s \in P
  BY <1>2, SmallestFirst, Zenon
<1> QED BY <1>3 DEF P

(* A sum may take out any element.                                         *)
LEMMA SumTakesOut ==
  ASSUME NEW U, NEW f \in [U -> Nat], NEW S, IsFiniteSet(S), S \subseteq U, NEW x \in S
  PROVE  SumFunctionOnSet(f, S) = f[x] + SumFunctionOnSet(f, S \ {x})
<1> DEFINE sum(s) == SumFunctionOnSet(f, s)
           P == {s \in SUBSET S : \A y \in s : sum(s) = f[y] + sum(s \ {y})}
<1>1. \A s \in SUBSET S : IsFiniteSet(s) /\ sum(s) \in Nat
  BY FS_Subset, SumType
<1>2. \A s \in SUBSET S : s # {} =>
        First(s) \in s /\ sum(s) = f[First(s)] + sum(s \ {First(s)})
  BY <1>1, SumUnfolds DEF First
<1> HIDE DEF sum
<1>3. ASSUME NEW s \in SUBSET S, \A y \in s : s \ {y} \in P, NEW y \in s
      PROVE  sum(s) = f[y] + sum(s \ {y})
  <2> DEFINE p == First(s)
             r == (s \ {p}) \ {y}
  <2>1. p \in s /\ sum(s) = f[p] + sum(s \ {p})
    BY <1>2
  <2> HIDE DEF p
  <2>2. CASE y = p
    BY <2>1, <2>2
  <2>3. CASE y # p
    <3>1. sum(s \ {p}) = f[y] + sum(r)
      BY <1>3, <2>1, <2>3
    <3>2. r = (s \ {y}) \ {p}
      OBVIOUS
    <3>3. sum(s \ {y}) = f[p] + sum(r)
      BY <1>3, <2>1, <2>3, <3>2
    <3>4. sum(r) \in Nat /\ f[p] \in Nat /\ f[y] \in Nat
      BY <1>1, <2>1
    <3> HIDE DEF r
    <3> QED BY <2>1, <3>1, <3>3, <3>4
  <2> QED BY <2>2, <2>3
<1>4. \A s \in SUBSET S : (\A y \in s : s \ {y} \in P) => s \in P
  BY <1>3
<1> HIDE DEF P
<1>5. \A s \in SUBSET S : s \in P
  BY <1>4, SmallestFirst, Zenon
<1> QED BY <1>5 DEF P, sum

(* Sums over disjoint sets add up.                                         *)
LEMMA SumOfUnion ==
  ASSUME NEW U, NEW f \in [U -> Nat], NEW S, NEW T, IsFiniteSet(S), IsFiniteSet(T),
         S \subseteq U, T \subseteq U, S \cap T = {}
  PROVE  SumFunctionOnSet(f, S \cup T) = SumFunctionOnSet(f, S) + SumFunctionOnSet(f, T)
<1> DEFINE sum(s) == SumFunctionOnSet(f, s)
           P == {s \in SUBSET T : sum(S \cup s) = sum(S) + sum(s)}
<1>1. \A s \in SUBSET T : /\ IsFiniteSet(s) /\ IsFiniteSet(S \cup s) /\ S \cup s \subseteq U
                          /\ sum(s) \in Nat /\ sum(S \cup s) \in Nat
  BY FS_Subset, FS_Union, SumType
<1>2. ASSUME NEW s \in SUBSET T, NEW x \in s
      PROVE  /\ sum(s) = f[x] + sum(s \ {x})
             /\ sum(S \cup s) = f[x] + sum((S \cup s) \ {x})
  <2> DEFINE w == S \cup s
  <2>1. s \subseteq U /\ w \subseteq U /\ x \in w /\ IsFiniteSet(s) /\ IsFiniteSet(w)
    BY <1>1
  <2>2. sum(s) = f[x] + sum(s \ {x})
    BY <2>1, SumTakesOut
  <2> HIDE DEF w
  <2>3. sum(w) = f[x] + sum(w \ {x})
    BY <2>1, SumTakesOut
  <2> QED BY <2>2, <2>3 DEF w
<1>3. sum({}) = 0 /\ sum(S) \in Nat
  BY FS_EmptySet, SumUnfolds, SumType
<1> HIDE DEF sum
<1>4. ASSUME NEW s \in SUBSET T, \A x \in s : s \ {x} \in P PROVE s \in P
  <2>1. CASE s = {}
    BY <1>3, <2>1
  <2>2. CASE s # {}
    <3>1. PICK x \in s : TRUE
      BY <2>2
    <3> DEFINE r == s \ {x}
    <3>2. (S \cup s) \ {x} = S \cup r
      BY <3>1
    <3>3. sum(S \cup r) = sum(S) + sum(r)
      BY <1>4, <3>1
    <3>4. sum(s) = f[x] + sum(r) /\ sum(S \cup s) = f[x] + sum(S \cup r)
      <4>1. sum(s) = f[x] + sum(s \ {x}) /\ sum(S \cup s) = f[x] + sum((S \cup s) \ {x})
        BY <1>2
      <4> QED BY <3>2, <4>1
    <3>5. f[x] \in Nat /\ sum(r) \in Nat
      BY <1>1, <3>1
    <3> HIDE DEF r
    <3>6. sum(S \cup s) = sum(S) + sum(s)
      BY <1>3, <3>3, <3>4, <3>5
    <3> QED BY <3>6
  <2> QED BY <2>1, <2>2
<1> HIDE DEF P
<1>5. \A s \in SUBSET T : (\A x \in s : s \ {x} \in P) => s \in P
  BY <1>4
<1>6. \A s \in SUBSET T : s \in P
  BY <1>5, SmallestFirst, Zenon
<1> QED BY <1>6 DEF P, sum

(* A part of a set sums up to at most as much, and to as much when the     *)
(* rest of the set adds nothing.                                           *)
LEMMA SumOfSubset ==
  ASSUME NEW U, NEW f \in [U -> Nat], NEW S, NEW T, IsFiniteSet(T), T \subseteq U,
         S \subseteq T
  PROVE  /\ SumFunctionOnSet(f, S) <= SumFunctionOnSet(f, T)
         /\ SumFunctionOnSet(f, T) = SumFunctionOnSet(f, S) + SumFunctionOnSet(f, T \ S)
<1>1. IsFiniteSet(S) /\ IsFiniteSet(T \ S) /\ S \cap (T \ S) = {} /\ S \cup (T \ S) = T
  BY FS_Subset
<1>2. SumFunctionOnSet(f, T) = SumFunctionOnSet(f, S) + SumFunctionOnSet(f, T \ S)
  BY <1>1, SumOfUnion
<1>3. SumFunctionOnSet(f, S) \in Nat /\ SumFunctionOnSet(f, T \ S) \in Nat
  BY <1>1, SumType
<1> QED BY <1>2, <1>3

(* Zeros sum up to zero.                                                   *)
LEMMA SumOfZeros ==
  ASSUME NEW U, NEW f \in [U -> Nat], NEW S, IsFiniteSet(S), S \subseteq U,
         \A x \in S : f[x] = 0
  PROVE  SumFunctionOnSet(f, S) = 0
<1> DEFINE P == {s \in SUBSET S : SumFunctionOnSet(f, s) = 0}
<1>1. \A s \in SUBSET S : IsFiniteSet(s)
  BY FS_Subset
<1>2. \A s : s # {} => First(s) \in s
  BY DEF First
<1>3. ASSUME NEW s \in SUBSET S, \A x \in s : s \ {x} \in P PROVE s \in P
  <2>1. SumFunctionOnSet(f, s) =
          IF s = {} THEN 0 ELSE f[First(s)] + SumFunctionOnSet(f, s \ {First(s)})
    BY <1>1, SumUnfolds
  <2>2. s # {} => f[First(s)] = 0 /\ SumFunctionOnSet(f, s \ {First(s)}) = 0
    BY <1>2, <1>3
  <2> QED BY <2>1, <2>2
<1>4. \A s \in SUBSET S : (\A x \in s : s \ {x} \in P) => s \in P
  BY <1>3
<1> HIDE DEF P
<1>5. \A s \in SUBSET S : s \in P
  BY <1>4, SmallestFirst, Zenon
<1> QED BY <1>5 DEF P

(* The image of a finite set is finite.                                    *)
LEMMA ImageFinite ==
  ASSUME NEW S, IsFiniteSet(S), NEW f, DOMAIN f = S
  PROVE  IsFiniteSet({f[x] : x \in S})
<1> DEFINE T == {f[x] : x \in S}
           g == [x \in S |-> f[x]]
<1>1. g \in Surjection(S, T)
  BY DEF Surjection
<1> QED BY <1>1, FS_Surjection

(* Sums over buckets: when every member of a finite set H is in one row,   *)
(* and a row is worth what its members are, the rows are worth what H is.  *)
LEMMA SumOfBuckets ==
  ASSUME NEW U, NEW f \in [U -> Nat], NEW H, IsFiniteSet(H), H \subseteq U,
         NEW rows, NEW g \in [rows -> Nat], NEW row \in [H -> rows],
         \A x \in rows : \E t \in H : x = row[t],
         \A t \in H : g[row[t]] = SumFunctionOnSet(f, {u \in H : row[u] = row[t]})
  PROVE  SumFunctionOnSet(g, rows) = SumFunctionOnSet(f, H)
<1> DEFINE sum(S) == SumFunctionOnSet(f, S)
           held(s) == {t \in H : row[t] \in s}
           P == {s \in SUBSET rows : SumFunctionOnSet(g, s) = sum(held(s))}
<1>1. IsFiniteSet(rows)
  <2>1. rows = {row[t] : t \in H} /\ DOMAIN row = H
    OBVIOUS
  <2>2. IsFiniteSet({row[t] : t \in H})
    BY <2>1, ImageFinite
  <2> QED BY <2>1, <2>2
<1>2. ASSUME NEW s \in SUBSET rows, \A x \in s : s \ {x} \in P PROVE s \in P
  <2>1. IsFiniteSet(s) /\ s \subseteq rows
    BY <1>1, FS_Subset
  <2>2. CASE s = {}
    <3>1. SumFunctionOnSet(g, s) = 0
      BY <2>1, <2>2, SumUnfolds
    <3>2. held(s) = {}
      BY <2>2
    <3>3. sum({}) = 0
      BY FS_EmptySet, SumUnfolds
    <3> QED BY <3>1, <3>2, <3>3
  <2>3. CASE s # {}
    <3>1. PICK x \in s : TRUE
      BY <2>3
    <3>2. PICK t \in H : x = row[t]
      BY <2>1
    <3> DEFINE r == s \ {x}
               B == {u \in H : row[u] = row[t]}
    <3>3. SumFunctionOnSet(g, s) = g[x] + SumFunctionOnSet(g, r)
      BY <2>1, SumTakesOut
    <3>4. SumFunctionOnSet(g, r) = sum(held(r))
      BY <1>2
    <3>5. g[x] = sum(B)
      BY <3>2
    <3>6. held(s) = B \cup held(r) /\ B \cap held(r) = {} /\ B \subseteq H /\ held(r) \subseteq H
      BY <3>2
    <3> HIDE DEF held, r, B
    <3>7. sum(held(s)) = sum(B) + sum(held(r))
      <4>1. IsFiniteSet(B) /\ IsFiniteSet(held(r)) /\ B \subseteq U /\ held(r) \subseteq U
        BY <3>6, FS_Subset
      <4> QED BY <3>6, <4>1, SumOfUnion
    <3> HIDE DEF sum
    <3>8. SumFunctionOnSet(g, s) = sum(held(s))
      BY <3>3, <3>4, <3>5, <3>7
    <3> QED BY <3>8
  <2> QED BY <2>2, <2>3
<1>3. \A s \in SUBSET rows : (\A x \in s : s \ {x} \in P) => s \in P
  BY <1>2
<1> HIDE DEF P
<1>4. \A s \in SUBSET rows : s \in P
  BY <1>1, <1>3, SmallestFirst, Zenon
<1>5. SumFunctionOnSet(g, rows) = sum(held(rows))
  BY <1>4 DEF P
<1>6. held(rows) = H
  OBVIOUS
<1> HIDE DEF held
<1> QED BY <1>5, <1>6

-----------------------------------------------------------------------------
(* Amounts.                                                                *)

(* Amounts are natural numbers, and every existing outpoint has one.       *)
LEMMA ValueType == CreatedBy(Txid) = RealOutPoint /\ Value \in [RealOutPoint -> Nat]
<1>1. CreatedBy(Txid) \subseteq RealOutPoint
  BY CreatedType DEF CreatedBy
<1>0. ASSUME NEW o \in RealOutPoint PROVE o[1] \in Txid /\ o[2] \in DOMAIN Outputs[o[1]]
  BY DEF OutPoint, RealOutPoint, Exists
<1>2. ASSUME NEW o \in RealOutPoint PROVE o \in CreatedBy(Txid)
  <2>1. o[1] \in Txid
    BY <1>0
  <2> QED BY <2>1, RealCreated
<1>3. ASSUME NEW o \in RealOutPoint PROVE Outputs[o[1]][o[2]].value \in Nat
  <2>1. o[1] \in Txid /\ o[2] \in DOMAIN Outputs[o[1]]
    BY <1>0
  <2>2. Outputs[o[1]] \in Seq([script : ScriptHash, value : Nat])
    BY <2>1, TransactionsAssumption
  <2>3. \A T, s : s \in Seq(T) => \A i \in DOMAIN s : s[i] \in T
    OBVIOUS
  <2>4. Outputs[o[1]][o[2]] \in [script : ScriptHash, value : Nat]
    BY <2>1, <2>2, <2>3, Zenon
  <2> QED BY <2>4
<1>4. CreatedBy(Txid) = RealOutPoint
  BY <1>1, <1>2
<1>5. Value = [o \in RealOutPoint |-> Outputs[o[1]][o[2]].value]
  BY <1>4 DEF Value
<1> QED BY <1>3, <1>4, <1>5

(* A transaction has finitely many inputs and outputs.                     *)
LEMMA TxFinite ==
  ASSUME NEW t \in Txid
  PROVE  IsFiniteSet(Created(t)) /\ IsFiniteSet(Prevouts(t))
<1>1. Outputs[t] \in Seq([script : ScriptHash, value : Nat])
      /\ Inputs[t] \in Seq(OutPoint \cup {NullOutPoint})
  BY TransactionsAssumption
<1>2. \A T, s : s \in Seq(T) => DOMAIN s = 1..Len(s) /\ Len(s) \in Nat
  OBVIOUS
<1>3. \A n \in Nat : IsFiniteSet(1..n)
  BY FS_Interval
<1>4. IsFiniteSet(DOMAIN Outputs[t]) /\ IsFiniteSet(DOMAIN Inputs[t])
  BY <1>1, <1>2, <1>3, Zenon
<1>5. IsFiniteSet(Created(t))
  <2> DEFINE f == [v \in DOMAIN Outputs[t] |-> <<t, v>>]
  <2>1. Created(t) = {f[v] : v \in DOMAIN Outputs[t]} /\ DOMAIN f = DOMAIN Outputs[t]
    BY DEF Created
  <2> HIDE DEF f
  <2> QED BY <1>4, <2>1, ImageFinite
<1>6. IsFiniteSet({Inputs[t][i] : i \in DOMAIN Inputs[t]})
  BY <1>4, ImageFinite
<1>7. IsFiniteSet(Prevouts(t))
  BY <1>6, FS_Difference DEF Prevouts
<1> QED BY <1>5, <1>7

(* And so do finitely many transactions.                                   *)
LEMMA TxsFinite ==
  ASSUME NEW S, IsFiniteSet(S), S \subseteq Txid
  PROVE  IsFiniteSet(CreatedBy(S)) /\ IsFiniteSet(SpentBy(S))
<1> DEFINE c == [t \in S |-> Created(t)]
           p == [t \in S |-> Prevouts(t)]
<1>1. {Created(t) : t \in S} = {c[t] : t \in S} /\ {Prevouts(t) : t \in S} = {p[t] : t \in S}
      /\ DOMAIN c = S /\ DOMAIN p = S
  OBVIOUS
<1>2. (\A T \in {Created(t) : t \in S} : IsFiniteSet(T))
      /\ (\A T \in {Prevouts(t) : t \in S} : IsFiniteSet(T))
  BY TxFinite
<1> HIDE DEF c, p
<1>3. IsFiniteSet({c[t] : t \in S}) /\ IsFiniteSet({p[t] : t \in S})
  BY <1>1, ImageFinite
<1>4. IsFiniteSet({Created(t) : t \in S}) /\ IsFiniteSet({Prevouts(t) : t \in S})
  BY <1>1, <1>3
<1>5. IsFiniteSet(UNION {Created(t) : t \in S})
  BY <1>2, <1>4, FS_UNION
<1>6. IsFiniteSet(UNION {Prevouts(t) : t \in S})
  BY <1>2, <1>4, FS_UNION
<1> QED BY <1>5, <1>6 DEF CreatedBy, SpentBy

(* A chain has finitely many transactions.                                 *)
LEMMA ConfirmedFinite ==
  ASSUME chain \in Seq(Block)
  PROVE  IsFiniteSet(Confirmed) /\ Confirmed \subseteq Txid
<1> DEFINE f == [i \in DOMAIN chain |-> Abstract!TxsOf(chain[i])]
<1>1. \A T, s : s \in Seq(T) => DOMAIN s = 1..Len(s) /\ Len(s) \in Nat
  OBVIOUS
<1>2. \A n \in Nat : IsFiniteSet(1..n)
  BY FS_Interval
<1>3. ASSUME NEW i \in DOMAIN chain
      PROVE  IsFiniteSet(Abstract!TxsOf(chain[i])) /\ Abstract!TxsOf(chain[i]) \subseteq Txid
  <2>1. TxData[chain[i]] \in Seq(Txid)
    BY TransactionsAssumption
  <2>2. IsFiniteSet(DOMAIN TxData[chain[i]])
    BY <1>1, <1>2, <2>1, Zenon
  <2>3. Abstract!TxsOf(chain[i]) = {TxData[chain[i]][j] : j \in DOMAIN TxData[chain[i]]}
    BY DEF Abstract!TxsOf
  <2>4. IsFiniteSet(Abstract!TxsOf(chain[i]))
    BY <2>2, <2>3, ImageFinite
  <2> QED BY <2>1, <2>3, <2>4
<1>4. IsFiniteSet(DOMAIN chain)
  BY <1>1, <1>2, Zenon
<1>5. {Abstract!TxsOf(chain[i]) : i \in DOMAIN chain} = {f[i] : i \in DOMAIN chain}
      /\ DOMAIN f = DOMAIN chain
  OBVIOUS
<1> HIDE DEF f
<1>6. IsFiniteSet({Abstract!TxsOf(chain[i]) : i \in DOMAIN chain})
  BY <1>4, <1>5, ImageFinite
<1>7. \A T \in {Abstract!TxsOf(chain[i]) : i \in DOMAIN chain} : IsFiniteSet(T)
  BY <1>3
<1>8. IsFiniteSet(Confirmed)
  BY <1>6, <1>7, FS_UNION DEF Confirmed
<1>9. Confirmed \subseteq Txid
  BY <1>3, ConfirmedMember
<1> QED BY <1>8, <1>9

-----------------------------------------------------------------------------
(* The pool holds finitely many transactions, each of which a client may   *)
(* broadcast, and so spends something.                                     *)
PoolKnown == IsFiniteSet(dbPending) /\ dbPending \subseteq Broadcastable

(* Between the two reads of get_balance the confirmed balance stays what   *)
(* it was, unless a block event came in between.                           *)
BalanceKept ==
  call # NoCall /\ ~moved =>
    /\ Readable
    /\ call.script \in ScriptHash
    /\ call.confirmed = GetBalance(call.script)

RInv == QInv /\ PoolKnown /\ BalanceKept

(* A step adds at most one transaction to the pending list.                *)
LEMMA PoolKnownGrows ==
  ASSUME PoolKnown, NEW t \in Broadcastable, dbPending' \subseteq dbPending \cup {t}
  PROVE  PoolKnown'
<1>1. IsFiniteSet(dbPending \cup {t})
  BY FS_AddElement DEF PoolKnown
<1>2. IsFiniteSet(dbPending')
  BY <1>1, FS_Subset
<1> QED BY <1>2 DEF PoolKnown

(* Or takes some away.                                                     *)
LEMMA PoolKnownShrinks ==
  ASSUME PoolKnown, dbPending' \subseteq dbPending
  PROVE  PoolKnown'
<1>1. IsFiniteSet(dbPending')
  BY FS_Subset DEF PoolKnown
<1> QED BY <1>1 DEF PoolKnown

(* Every step keeps the pool known.                                        *)
LEMMA PoolKnownStep ==
  ASSUME PoolKnown, [FNext]_fvars
  PROVE  PoolKnown'
<1>1. ASSUME NEW b \in Block, Connect(b) PROVE PoolKnown'
  BY <1>1, PoolKnownShrinks DEF Connect, Connected, dbVars
<1>2. CASE Disconnect
  BY <1>2, PoolKnownShrinks DEF Disconnect, Disconnected, dbVars
<1>3. CASE Work
  <2>1. CASE ApplyStep
    BY <2>1, PoolKnownShrinks
       DEF ApplyStep, IndexTx, SkipInput, IndexInput, IndexOutput, FinishBlock, dbVars
  <2>2. CASE RollbackStep
    BY <2>2, PoolKnownShrinks
       DEF RollbackStep, UndoTx, UndoHistory, UndoOutput, UndoSpend, Undo, FinishRollback, dbVars
  <2> QED BY <1>3, <2>1, <2>2 DEF Work
<1>4. CASE Pending
  <2>1. ASSUME NEW t \in Broadcastable, NEW kept, NEW k, Track(t, kept, k) PROVE PoolKnown'
    <3>1. dbPending' \subseteq dbPending \cup {t}
      BY <2>1 DEF Track, Wrote
    <3> QED BY <3>1, PoolKnownGrows
  <2>2. ASSUME NEW t, NEW forgotten, Forget(t, forgotten) PROVE PoolKnown'
    BY <2>2, PoolKnownShrinks DEF Forget
  <2>3. ASSUME NEW t, NEW kept, ForgetChain(t, kept) PROVE PoolKnown'
    BY <2>3, PoolKnownShrinks DEF ForgetChain
  <2> QED BY <1>4, <2>1, <2>2, <2>3
          DEF Pending, PendingStep, TransactionBroadcast, TxStatusChange, Restore
<1>5. CASE Restart
  BY <1>5, PoolKnownShrinks DEF Restart, Reopen, dbVars
<1>6. CASE UNCHANGED fvars
  BY <1>6, PoolKnownShrinks DEF fvars, vars, dbVars
<1> QED BY <1>1, <1>2, <1>3, <1>4, <1>5, <1>6 DEF FNext

(* A balance that was read stays true until a block event comes.           *)
LEMMA BalanceKeptStep ==
  ASSUME BalanceKept, [RNext]_rvars
  PROVE  BalanceKept'
<1>1. UNCHANGED <<dbUtxos, job>> =>
        /\ \A sh : GetBalance(sh)' = GetBalance(sh)
        /\ Readable' = Readable
  BY DEF GetBalance, Total, PaidTo, Readable
<1>2. UNCHANGED <<dbUtxos, job, call, moved>> => BalanceKept'
  BY <1>1 DEF BalanceKept
<1>3. call' = NoCall => BalanceKept'
  BY DEF BalanceKept
<1>4. ASSUME NEW sh \in Wallet, BalanceRead(sh) PROVE BalanceKept'
  <2>1. call'.script = sh /\ call'.confirmed = GetBalance(sh) /\ Readable
    BY <1>4 DEF BalanceRead
  <2>2. UNCHANGED <<dbUtxos, job>>
    BY <1>4 DEF BalanceRead, fvars, vars, dbVars
  <2> QED BY <1>1, <2>1, <2>2, RequestsAssumption DEF BalanceKept
<1>5. CASE BalanceReply
  BY <1>3, <1>5 DEF BalanceReply
<1>6. CASE BlockArrives
  BY <1>6 DEF BlockArrives, BalanceKept
<1>7. CASE BlockWork
  <2>1. job.op # "idle" /\ UNCHANGED <<call, moved>>
    BY <1>7 DEF BlockWork, Work, ApplyStep, IndexTx, SkipInput, IndexInput, IndexOutput, FinishBlock,
                RollbackStep, UndoTx, UndoHistory, UndoOutput, UndoSpend, Undo, FinishRollback,
                Applying
  <2> QED BY <2>1 DEF BalanceKept, Readable
<1>8. CASE PoolChange
  <2>1. UNCHANGED <<dbUtxos, job, call, moved>>
    BY <1>8 DEF PoolChange, Pending, PendingStep, TransactionBroadcast, TxStatusChange, Restore,
                Track, Forget, ForgetChain
  <2> QED BY <1>2, <2>1
<1>9. CASE ServerRestart
  BY <1>3, <1>9 DEF ServerRestart
<1>10. CASE UNCHANGED rvars
  BY <1>2, <1>10 DEF rvars, fvars, vars, dbVars
<1> QED BY <1>4, <1>5, <1>6, <1>7, <1>8, <1>9, <1>10 DEF RNext

(* The pool stays finite, and while a get_balance is answered the balance  *)
(* it has read stays true up to the next block event.                      *)
THEOREM BalanceInvariance == RSpec => []RInv
<1>1. RInit => RInv
  <2> SUFFICES ASSUME RInit PROVE RInv
    OBVIOUS
  <2>1. dbPending = {} /\ call = NoCall
    BY DEF RInit, FInit, Init, OpenEmpty
  <2>2. PoolKnown
    BY <2>1, FS_EmptySet DEF PoolKnown
  <2> QED BY <2>1, <2>2, QueriesInit DEF RInit, RInv, BalanceKept
<1>2. RInv /\ [RNext]_rvars => RInv'
  BY QueriesInv, RequestStep, PoolKnownStep, BalanceKeptStep DEF RInv
<1> QED BY <1>1, <1>2, PTL DEF RSpec

(* The outputs in a script's totals exist, and are finitely many.          *)
LEMMA TotalsFinite ==
  ASSUME RInv, faults = 0, Readable
  PROVE  /\ IsFiniteSet(pendingTxs) /\ pendingTxs \subseteq Broadcastable
         /\ IsFiniteSet(dbUtxos) /\ dbUtxos \subseteq RealOutPoint
         /\ IsFiniteSet(pendingOutputs) /\ pendingOutputs \subseteq RealOutPoint
         /\ IsFiniteSet(SpentBy(pendingTxs))
<1>1. /\ TypeOK /\ PendingIsPersisted /\ PendingViewFresh /\ UtxoHasOutput
      /\ chain \in Seq(Block) /\ FInv /\ PoolKnown
  BY DEF RInv, QInv, FInv, IInv
<1>2. pendingTxs \subseteq dbPending /\ pendingTxs \subseteq Txid
  BY <1>1 DEF PendingIsPersisted, TypeOK
<1>3. IsFiniteSet(pendingTxs) /\ pendingTxs \subseteq Broadcastable
  BY <1>1, <1>2, FS_Subset DEF PoolKnown
<1>4. IsFiniteSet(CreatedBy(pendingTxs)) /\ IsFiniteSet(SpentBy(pendingTxs))
  BY <1>2, <1>3, TxsFinite
<1>5. IsFiniteSet(pendingOutputs)
  BY <1>1, <1>4, FS_Difference DEF PendingViewFresh, PendingView
<1>6. dbUtxos = CreatedBy(Confirmed) \ SpentBy(Confirmed)
  BY <1>1, ReadableStore
<1>7. IsFiniteSet(CreatedBy(Confirmed))
  BY <1>1, ConfirmedFinite, TxsFinite
<1>8. IsFiniteSet(dbUtxos)
  BY <1>6, <1>7, FS_Difference
<1>9. dbUtxos \subseteq RealOutPoint /\ pendingOutputs \subseteq RealOutPoint
  BY <1>1 DEF TypeOK, StoreTypeOK, UtxoHasOutput
<1> QED BY <1>3, <1>4, <1>5, <1>8, <1>9

(* The two halves of a get_balance reply add up to the unspent list when   *)
(* no block event came between the two reads and every pending transaction *)
(* spends confirmed unspent outputs, whatever happened to the pool.        *)
THEOREM BalancesAddUp == RSpec /\ [](faults = 0) => BalanceAddsUp
<1>1. ASSUME RInv, faults = 0, BalanceReply, ~moved, SpentBy(pendingTxs) \subseteq dbUtxos
      PROVE  Replied.confirmed + Replied.unconfirmed =
               Total({e.outpoint : e \in ListUnspent(call.script)})
  <2> DEFINE sh == call.script
             X == PaidTo(sh, dbUtxos)
             Y == PaidTo(sh, SpentBy(pendingTxs))
             Z == PaidTo(sh, pendingOutputs)
  <2>1. Readable /\ FInv /\ call.confirmed = Total(X)
    BY <1>1 DEF RInv, QInv, BalanceKept, BalanceReply, GetBalance
  <2>2. \A o \in SpentBy(pendingTxs) : Known(o)
    BY <1>1 DEF RInv, QInv, FInv, IInv, UtxoHasOutput, Known, Stored
  <2>3. UnconfirmedDelta(sh) = Total(Z) - Total(Y)
    <3>1. {o \in SpentBy(pendingTxs) : Known(o)} = SpentBy(pendingTxs)
      BY <2>2
    <3> QED BY <3>1 DEF UnconfirmedDelta
  <2>4. pendingTxs \cap Confirmed = {}
    <3> SUFFICES ASSUME NEW t \in pendingTxs, t \in Confirmed PROVE FALSE
      OBVIOUS
    <3>1. PICK o : o \in Prevouts(t)
      BY <1>1, <2>1, TotalsFinite, IndexStateAssumption
    <3>2. o \in SpentBy(pendingTxs) /\ o \in SpentBy(Confirmed)
      BY <3>1, MadeBy
    <3> QED BY <1>1, <2>1, <3>2, ReadableStore
  <2>5. {e.outpoint : e \in ListUnspent(sh)} = (X \ Y) \cup Z
    <3>1. ListUnspent(sh) = Rows(sh)
      BY <1>1, <2>1, <2>4, RowsAreKept
    <3>2. \A o : Unspent(o).outpoint = o /\ UnspentPending(o).outpoint = o
      BY DEF Unspent, UnspentPending
    <3>3. ASSUME NEW o
          PROVE  (\E e \in Rows(sh) : o = e.outpoint) <=> o \in (X \ Y) \cup Z
      <4>1. (\E e \in Rows(sh) : o = e.outpoint) <=>
              o \in PaidTo(sh, dbUtxos \ SpentBy(pendingTxs)) \/ o \in Z
        BY <3>2 DEF Rows
      <4> QED BY <4>1 DEF PaidTo
    <3> QED BY <3>1, <3>3
  <2>6. X \cap Z = {} /\ Y \subseteq X
    BY <1>1, <2>1, <2>4, VisibleOutputs DEF PaidTo
  <2>7. /\ IsFiniteSet(X) /\ IsFiniteSet(Y) /\ IsFiniteSet(Z)
        /\ X \subseteq RealOutPoint /\ Z \subseteq RealOutPoint
    BY <1>1, <2>1, TotalsFinite, FS_Subset DEF PaidTo
  <2> HIDE DEF X, Y, Z, sh
  <2>8. Total(X) = Total(Y) + Total(X \ Y)
    <3>1. Value \in [RealOutPoint -> Nat]
      BY ValueType
    <3>2. SumFunctionOnSet(Value, X) = SumFunctionOnSet(Value, Y) + SumFunctionOnSet(Value, X \ Y)
      <4>1. Y \subseteq X /\ IsFiniteSet(X) /\ X \subseteq RealOutPoint
        BY <2>6, <2>7
      <4> QED BY <3>1, <4>1, SumOfSubset
    <3> QED BY <3>2 DEF Total
  <2>9. Total((X \ Y) \cup Z) = Total(X \ Y) + Total(Z)
    <3>1. (X \ Y) \cap Z = {} /\ IsFiniteSet(X \ Y) /\ X \ Y \subseteq RealOutPoint
      BY <2>6, <2>7, FS_Subset
    <3> QED BY <2>7, <3>1, ValueType, SumOfUnion DEF Total
  <2>10. Total(Y) \in Nat /\ Total(X \ Y) \in Nat /\ Total(Z) \in Nat
    <3>1. IsFiniteSet(X \ Y) /\ X \ Y \subseteq RealOutPoint /\ Y \subseteq RealOutPoint
      BY <2>6, <2>7, FS_Subset
    <3> QED BY <2>7, <3>1, ValueType, SumType DEF Total
  <2>11. Replied.confirmed = Total(X) /\ Replied.unconfirmed = Total(Z) - Total(Y)
    BY <2>1, <2>3 DEF Replied, sh
  <2>12. Total(X) + (Total(Z) - Total(Y)) = Total((X \ Y) \cup Z)
    BY <2>8, <2>9, <2>10
  <2> QED BY <2>5, <2>11, <2>12 DEF sh
<1>2. RInv /\ faults = 0 /\ [RNext]_rvars =>
        [BalanceReply /\ ~moved /\ SpentBy(pendingTxs) \subseteq dbUtxos =>
           Replied.confirmed + Replied.unconfirmed =
             Total({e.outpoint : e \in ListUnspent(call.script)})]_rvars
  BY <1>1
<1> QED BY <1>2, BalanceInvariance, PTL DEF RSpec, BalanceAddsUp

-----------------------------------------------------------------------------
(* Fees.                                                                   *)

(* The index knows an output exactly when the chain or the pool made it.   *)
LEMMA KnownIsVisible ==
  ASSUME FInv, faults = 0, Readable, NEW t \in pendingTxs, NEW o \in Prevouts(t)
  PROVE  Known(o) <=> o \in CreatedBy(Visible)
<1>1. /\ Stored = CreatedBy(Confirmed) /\ pendingOutputs \subseteq CreatedBy(pendingTxs)
      /\ t \in Txid
  BY ReadableStore DEF FInv, IInv, TypeOK, PendingViewFresh, PendingView
<1>2. o \in OutPoint
  BY <1>1, PrevoutsType
<1>3. o \in CreatedBy(Visible) <=> o \in CreatedBy(Confirmed) \/ o \in CreatedBy(pendingTxs)
  BY MadeBy DEF Visible
<1>4. o \in CreatedBy(pendingTxs) <=> o[1] \in pendingTxs /\ Exists(o)
  <2>1. o \in CreatedBy(pendingTxs) => o[1] \in pendingTxs /\ Exists(o)
    BY MadeBy DEF Created, Exists
  <2>2. Exists(o) => o \in RealOutPoint
    BY <1>2 DEF RealOutPoint
  <2> QED BY <2>1, <2>2, RealCreated
<1> QED BY <1>1, <1>3, <1>4 DEF Known, PendingHas

(* The fee of a pending transaction: never too high, and right when the    *)
(* chain and the pool made all that it spends.                             *)
LEMMA FeeOf ==
  ASSUME FInv, faults = 0, Readable, NEW t \in pendingTxs
  PROVE  /\ Fee(t) \in Nat /\ TrueFee(t) \in Nat /\ Fee(t) <= TrueFee(t)
         /\ (\A o \in Prevouts(t) : Known(o)) <=> Prevouts(t) \subseteq CreatedBy(Visible)
         /\ Prevouts(t) \subseteq CreatedBy(Visible) => Fee(t) = TrueFee(t)
<1> DEFINE K == {o \in Prevouts(t) : Known(o)}
           A == Prevouts(t) \cap RealOutPoint
           C == Created(t)
<1>1. t \in Txid /\ \A o \in Prevouts(t) : Known(o) <=> o \in CreatedBy(Visible)
  BY KnownIsVisible DEF FInv, IInv, TypeOK
<1>2. Visible \subseteq Txid
  BY ConfirmedFinite DEF FInv, IInv, TypeOK, Visible
<1>3. CreatedBy(Visible) \subseteq RealOutPoint
  BY <1>2, CreatedType DEF CreatedBy
<1>4. K \subseteq A /\ (Prevouts(t) \subseteq CreatedBy(Visible) => K = A)
  BY <1>1, <1>3
<1>5. IsFiniteSet(A) /\ IsFiniteSet(C) /\ IsFiniteSet(K)
  BY <1>1, TxFinite, FS_Subset
<1>6. A \subseteq RealOutPoint /\ C \subseteq RealOutPoint /\ K \subseteq RealOutPoint
  BY <1>1, <1>4, CreatedType
<1>7. Fee(t) = Monus(Total(K), Total(C)) /\ TrueFee(t) = Monus(Total(A), Total(C))
  BY ValueType DEF Fee, InputValue, TrueFee
<1> HIDE DEF K, A, C
<1>8. Total(A) \in Nat /\ Total(C) \in Nat /\ Total(K) \in Nat
  BY <1>5, <1>6, ValueType, SumType DEF Total
<1>9. Total(K) <= Total(A)
  BY <1>4, <1>5, <1>6, ValueType, SumOfSubset DEF Total
<1>10. Fee(t) \in Nat /\ TrueFee(t) \in Nat /\ Fee(t) <= TrueFee(t)
  BY <1>7, <1>8, <1>9 DEF Monus
<1>11. Prevouts(t) \subseteq CreatedBy(Visible) => Fee(t) = TrueFee(t)
  BY <1>4, <1>7
<1> QED BY <1>1, <1>10, <1>11

(* pending_mempool_for_script is right about unconfirmed inputs, also when *)
(* a reorg took a parent out of the chain again, and about fees.           *)
THEOREM MempoolIsExact == RSpec => [](faults = 0 => MempoolExact)
<1>1. ASSUME FInv, faults = 0, Readable, NEW t \in pendingTxs
      PROVE  /\ MempoolEntry(t).height = 0 <=> Prevouts(t) \subseteq CreatedBy(Confirmed)
             /\ MempoolEntry(t).fee <= TrueFee(t)
             /\ Prevouts(t) \subseteq CreatedBy(Visible) => MempoolEntry(t).fee = TrueFee(t)
  <2>1. MempoolEntry(t).height = (IF Prevouts(t) \subseteq Stored THEN 0 ELSE -1)
        /\ MempoolEntry(t).fee = Fee(t)
    BY DEF MempoolEntry
  <2>2. Stored = CreatedBy(Confirmed)
    BY <1>1, ReadableStore
  <2> QED BY <1>1, <2>1, <2>2, FeeOf
<1>2. QInv => (faults = 0 => MempoolExact)
  BY <1>1 DEF QInv, MempoolExact
<1> QED BY <1>2, RequestsInvariance, PTL

(* A rate of at least one means a fee of at least the size.                *)
LEMMA RateOf ==
  ASSUME NEW fee \in Nat, NEW size \in Nat \ {0}
  PROVE  fee \div size > 0 <=> fee >= size
OBVIOUS

(* fee_histogram counts the vsize of every pending transaction that pays   *)
(* at least one satoshi per vbyte and spends only what the index can see,  *)
(* each in one bucket.                                                     *)
THEOREM HistogramIsComplete == RSpec => [](faults = 0 => HistogramComplete)
<1>1. ASSUME RInv, faults = 0, Readable PROVE HistogramComplete
  <2> DEFINE H == HistogramTxs
             R == {t \in pendingTxs :
                     Prevouts(t) \subseteq CreatedBy(Visible) /\ TrueFee(t) >= VSize[t]}
             bucket(r) == {u \in H : FeeRate(u) = r}
             row == [t \in H |-> <<FeeRate(t), SumFunctionOnSet(VSize, bucket(FeeRate(t)))>>]
             rows == FeeHistogram
             size == [x \in rows |-> x[2]]
  <2>1. FInv /\ IsFiniteSet(pendingTxs) /\ pendingTxs \subseteq Txid
    BY <1>1, TotalsFinite DEF RInv, QInv, FInv, IInv, TypeOK
  <2>2. VSize \in [Txid -> Nat]
    BY QueriesAssumption
  <2>3. ASSUME NEW t \in pendingTxs
        PROVE  /\ t \in H => t \in R
               /\ t \in R /\ t \notin H => VSize[t] = 0
    <3> DEFINE n == IF VSize[t] = 0 THEN 1 ELSE VSize[t]
    <3>1. VSize[t] \in Nat /\ n \in Nat \ {0}
      BY <2>1, <2>2
    <3>2. Fee(t) \in Nat /\ (FeeRate(t) > 0 <=> Fee(t) >= n)
      BY <1>1, <2>1, <3>1, FeeOf, RateOf DEF FeeRate
    <3>3. t \in H <=> Prevouts(t) \subseteq CreatedBy(Visible) /\ FeeRate(t) > 0
      BY <1>1, <2>1, FeeOf DEF HistogramTxs
    <3>4. Prevouts(t) \subseteq CreatedBy(Visible) => Fee(t) = TrueFee(t)
      BY <1>1, <2>1, FeeOf
    <3> QED BY <3>1, <3>2, <3>3, <3>4
  <2>4. H \subseteq R /\ R \subseteq pendingTxs
    BY <2>3 DEF HistogramTxs
  <2>5. \A t \in R \ H : VSize[t] = 0
    BY <2>3
  <2>6. FeeHistogram = {row[t] : t \in H}
    BY DEF FeeHistogram
  <2>7. IsFiniteSet(R) /\ IsFiniteSet(H) /\ IsFiniteSet(R \ H) /\ R \subseteq Txid /\ H \subseteq Txid
    <3> HIDE DEF H, R
    <3> QED BY <2>1, <2>4, FS_Subset
  <2>8. SumFunctionOnSet(size, rows) = SumFunctionOnSet(VSize, H)
    <3>1. \A t \in H : row[t] = <<FeeRate(t), SumFunctionOnSet(VSize, bucket(FeeRate(t)))>>
      OBVIOUS
    <3>2. ASSUME NEW t \in H
          PROVE  /\ bucket(FeeRate(t)) = {u \in H : row[u] = row[t]}
                 /\ row[t][2] = SumFunctionOnSet(VSize, bucket(FeeRate(t)))
      BY <3>1
    <3>3. ASSUME NEW r PROVE SumFunctionOnSet(VSize, bucket(r)) \in Nat
      <4>1. bucket(r) \subseteq H
        OBVIOUS
      <4> HIDE DEF bucket, H
      <4>2. IsFiniteSet(bucket(r)) /\ bucket(r) \subseteq Txid
        BY <2>7, <4>1, FS_Subset
      <4> QED BY <2>2, <4>2, SumType
    <3>4. DOMAIN row = H
      OBVIOUS
    <3> HIDE DEF bucket, H, row
    <3>5. (\A x \in rows : \E t \in H : x = row[t]) /\ (\A t \in H : row[t] \in rows)
      BY <2>6
    <3>6. row \in [H -> rows]
      <4>1. row = [t \in H |-> row[t]]
        BY <3>4 DEF row
      <4> QED BY <3>5, <4>1
    <3>7. size \in [rows -> Nat] /\ \A x \in rows : size[x] = x[2]
      BY <3>2, <3>3, <3>5
    <3>8. \A t \in H : size[row[t]] = SumFunctionOnSet(VSize, {u \in H : row[u] = row[t]})
      BY <3>2, <3>5, <3>7
    <3> HIDE DEF rows, size
    <3> QED BY <2>2, <2>7, <3>5, <3>6, <3>7, <3>8, SumOfBuckets
  <2> HIDE DEF H, R
  <2>9. SumFunctionOnSet(VSize, R) = SumFunctionOnSet(VSize, H) + SumFunctionOnSet(VSize, R \ H)
    BY <2>2, <2>4, <2>7, SumOfSubset
  <2>10. SumFunctionOnSet(VSize, R \ H) = 0 /\ SumFunctionOnSet(VSize, H) \in Nat
    BY <2>2, <2>5, <2>7, SumOfZeros, SumType
  <2>11. SumFunctionOnSet(size, rows) = SumFunctionOnSet(VSize, R)
    BY <2>8, <2>9, <2>10
  <2> QED BY <2>11 DEF HistogramComplete, R
<1>2. RInv => (faults = 0 => HistogramComplete)
  BY <1>1 DEF HistogramComplete
<1> QED BY <1>2, BalanceInvariance, PTL
=============================================================================

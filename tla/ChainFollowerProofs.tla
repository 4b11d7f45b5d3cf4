-------------------------- MODULE ChainFollowerProofs --------------------------
(***************************************************************************)
(* Proofs about ChainFollower: as long as no store call has failed, the    *)
(* index follows the chain exactly, for any transactions and any valid     *)
(* blocks, any reorgs, any traffic on the pending pool and any restarts    *)
(* between two block events.                                               *)
(***************************************************************************)
EXTENDS ChainFollower, PoolProofs, SequenceTheorems

-----------------------------------------------------------------------------
(* The inductive invariant.  The undo journal carries the whole state: the *)
(* trees are a function of it, the memory is a copy of it, and its records *)
(* are those of the blocks of the chain, the block in hand as far as the   *)
(* cursor has come.                                                        *)

Records(J, kind) == {a \in J : a.kind = kind}

(* What the records of one kind name.                                      *)
Named(J, kind) == {a.of : a \in Records(J, kind)}

At(J, h) == {a \in J : a.height = h}

UpTo(J, n) == {a \in J : a.height <= n}

(* The order in which records were pushed.                                 *)
Precedes(a, b) == a.height < b.height \/ (a.height = b.height /\ a.seq < b.seq)

IsNewest(r, J) == \A a \in J : ~Precedes(r, a)

(* No two records share a key or undo the same thing, an output was stored *)
(* before it was spent, and a history key carries its record's height.     *)
JournalOK(J) ==
  /\ \A a, b \in J : SameKey(a, b) => a = b
  /\ \A a, b \in J : a.kind # "Tx" /\ a.kind = b.kind /\ a.of = b.of => a = b
  /\ \A b \in Records(J, "Spend") :
       \E a \in Records(J, "Output") : a.of = b.of /\ Precedes(a, b)
  /\ \A a \in Records(J, "History") : a.of[2] = a.height

StoreIsJournal ==
  /\ dbHistory = Named(dbJournal, "History")
  /\ DOMAIN dbOutputs = Named(dbJournal, "Output")
  /\ \A a \in Records(dbJournal, "Output") : dbOutputs[a.of] = a.height
  /\ dbUtxos = Named(dbJournal, "Output") \ Named(dbJournal, "Spend")

(* The memory when no rollback is under way.                               *)
MemoryIsStore == history = LoadHistory /\ byHeight = LoadJournal /\ tipHeight = dbTip

(* The history keys of other heights.                                      *)
Elsewhere(keys, h) == {x \in keys : x[2] # h}

(* The memory during rollback_height: the records of the height are in the *)
(* hands of the job, and history forgets the height only at the end.       *)
MemoryInRollback ==
  /\ job.undo = {<<0, a>> : a \in At(dbJournal, job.height)}
  /\ byHeight = {<<0, a>> : a \in {b \in dbJournal : b.height # job.height}}
  /\ {e \in history : e[2][2] # job.height} =
       {<<0, key>> : key \in Elsewhere(dbHistory, job.height)}
  /\ tipHeight = job.height /\ dbTip = job.height

(* The number of blocks of the chain that are fully recorded.              *)
Full == IF job.op = "apply" THEN Len(chain) - 1 ELSE Len(chain)

Recorded(J, i, spends, creates, entries) ==
  /\ Named(At(J, i), "Spend") = spends
  /\ Named(At(J, i), "Output") = creates
  /\ Named(At(J, i), "History") = entries

(* The block in hand, how many of its transactions are done, and whether   *)
(* position q of its i-th transaction is.                                  *)
InHand == chain[Len(chain)]

TxsDone == Len(TxData[InHand]) - Len(job.txs)

Done(i, q) == i <= TxsDone \/ (i = TxsDone + 1 /\ q < job.pos)

(* What is recorded of the block in hand.                                  *)
SpendsDone ==
  {o \in Abstract!BlockSpends(InHand) :
     \E i \in DOMAIN TxData[InHand] :
       \E q \in DOMAIN Inputs[TxData[InHand][i]] :
         Done(i, q) /\ o = Inputs[TxData[InHand][i]][q]}

CreatesDone ==
  {o \in Abstract!BlockCreates(InHand) :
     \E i \in DOMAIN TxData[InHand] :
       o[1] = TxData[InHand][i] /\ Done(i, Len(Inputs[o[1]]) + o[2])}

(* The position of a history entry in its transaction.                     *)
Place(e) == IF e[3] = "Spend" THEN e[5] ELSE Len(Inputs[e[4]]) + e[5]

EntriesDone ==
  {e \in Abstract!BlockEntries(InHand, Len(chain)) :
     \E i \in DOMAIN TxData[InHand] : e[4] = TxData[InHand][i] /\ Done(i, Place(e))}

CursorOK ==
  /\ chain # <<>> /\ job.height = Len(chain) /\ job.pass = 0
  /\ Len(job.txs) <= Len(TxData[InHand])
  /\ \A i \in DOMAIN job.txs : job.txs[i] = TxData[InHand][TxsDone + i]
  /\ IF job.txs = <<>> THEN job.pos = 0
     ELSE job.pos <= Len(Inputs[Current]) + Len(Outputs[Current])
  /\ \A a \in At(dbJournal, job.height) : a.seq < job.seq

JournalIsChain ==
  /\ \A a \in dbJournal : a.height \in 1..Full \/ (job.op # "idle" /\ a.height = job.height)
  /\ \A i \in 1..Full : Recorded(dbJournal, i, Abstract!BlockSpends(chain[i]),
                                 Abstract!BlockCreates(chain[i]),
                                 Abstract!BlockEntries(chain[i], i))
  /\ job.op = "apply" =>
       Recorded(dbJournal, Len(chain), SpendsDone, CreatesDone, EntriesDone)

(* The transactions of the chain before the i-th one of its h-th block.    *)
EarlierTxs(c, h, i) ==
  (UNION {Abstract!TxsOf(c[g]) : g \in 1..(h - 1)}) \cup {TxData[c[h]][j] : j \in 1..(i - 1)}

ValidChain(c) ==
  \A h \in DOMAIN c : \A i \in DOMAIN TxData[c[h]] :
    /\ TxData[c[h]][i] \notin EarlierTxs(c, h, i)
    /\ Prevouts(TxData[c[h]][i]) \subseteq CreatedBy(EarlierTxs(c, h, i)) \ SpentBy(EarlierTxs(c, h, i))

(* The view of a reader at height n.                                       *)
ViewOf(J, n) ==
  [utxos |-> Named(UpTo(J, n), "Output") \ Named(UpTo(J, n), "Spend"),
   outputs |-> {<<a.of, a.height>> : a \in Records(UpTo(J, n), "Output")},
   history |-> Named(UpTo(J, n), "History"),
   tip |-> n]

View == [utxos : SUBSET OutPoint, outputs : SUBSET (OutPoint \X Height),
         history : SUBSET HistoryKey, tip : Nat]

ViewsKept ==
  /\ below \in Seq(View) /\ Len(below) = Len(chain)
  /\ \A i \in 1..Len(chain) : below[i] = ViewOf(dbJournal, i - 1)
  /\ job.op = "apply" => seen = below
  /\ job.op = "rollback" =>
       /\ seen \in Seq(View) /\ Len(seen) = Len(chain) + 2
       /\ \A i \in 1..(Len(chain) + 1) : seen[i] = ViewOf(dbJournal, i - 1)

(* What is pending on disk only is skipped when the index is opened.       *)
PendingSkipped ==
  \A t \in dbPending \ pendingTxs : t \in ConfirmedTxids(dbJournal) \/ t \notin dbTxs

(* Where two pending transactions may spend the same output.               *)
Related(t, u) ==
  t \in Parents(u) \/ u \in Parents(t) \/ t = u \/ Prevouts(t) \cap Prevouts(u) = {}

NoConflict == \A t, u \in pendingTxs : Related(t, u)

(* The part of the invariant that does not look at the pending pool.       *)
FollowsBlocks ==
  /\ JournalOK(dbJournal)
  /\ StoreIsJournal
  /\ job.op # "rollback" => MemoryIsStore
  /\ job.op # "rollback" => tipHeight = Full
  /\ job.op = "rollback" => MemoryInRollback /\ job.height = Len(chain) + 1
  /\ job.op = "apply" => CursorOK
  /\ JournalIsChain
  /\ ValidChain(chain)
  /\ ViewsKept

FollowsPool == PendingSkipped /\ NoConflict

Follows == FollowsBlocks /\ FollowsPool

FInv == IInv /\ chain \in Seq(Block) /\ (faults = 0 => Follows)

-----------------------------------------------------------------------------
(* Adding and dropping one record.                                         *)

Keyed(J) == \A a \in J : a.height \in Nat /\ a.seq \in Nat

(* Records carry natural heights and sequence numbers.                     *)
LEMMA JournalKeyed ==
  ASSUME NEW J, J \subseteq JournalAct
  PROVE  Keyed(J)
BY UndoOf, HeightAssumption DEF Keyed

(* A record under a new key is added, and replaces nothing.                *)
LEMMA PutFresh ==
  ASSUME NEW J, NEW r, \A a \in J : ~SameKey(r, a)
  PROVE  PutAct(J, r) = J \cup {r}
BY DEF PutAct, DropAct

(* Deleting the key of a record deletes that record only.                  *)
LEMMA DropOne ==
  ASSUME NEW J, JournalOK(J), NEW r \in J
  PROVE  DropAct(J, r) = J \ {r}
BY DEF DropAct, JournalOK, SameKey

(* What a journal names after a record is added.                           *)
LEMMA NamedAdd ==
  ASSUME NEW J, NEW r, NEW kind
  PROVE  Named(J \cup {r}, kind) = IF r.kind = kind THEN Named(J, kind) \cup {r.of}
                                                    ELSE Named(J, kind)
BY DEF Named, Records

(* Its records of one kind.                                                *)
LEMMA RecordsAdd ==
  ASSUME NEW J, NEW r, NEW kind
  PROVE  Records(J \cup {r}, kind) = IF r.kind = kind THEN Records(J, kind) \cup {r}
                                                      ELSE Records(J, kind)
BY DEF Records

(* What a journal names after a record is dropped.                         *)
LEMMA NamedDrop ==
  ASSUME NEW J, JournalOK(J), NEW r \in J, NEW kind, kind # "Tx"
  PROVE  Named(J \ {r}, kind) = IF r.kind = kind THEN Named(J, kind) \ {r.of}
                                                 ELSE Named(J, kind)
BY DEF Named, Records, JournalOK

(* A new last record of something not yet recorded keeps the journal good. *)
LEMMA OKAdd ==
  ASSUME NEW J, JournalOK(J), Keyed(J), NEW r, r.height \in Nat, r.seq \in Nat,
         \A a \in J : ~SameKey(r, a),
         r.kind # "Tx" => r.of \notin Named(J, r.kind),
         r.kind = "Spend" => \E a \in Records(J, "Output") : a.of = r.of /\ Precedes(a, r),
         r.kind = "History" => r.of[2] = r.height
  PROVE  JournalOK(J \cup {r})
<1> DEFINE K == J \cup {r}
<1>1. \A a, b \in K : SameKey(a, b) => a = b
  BY DEF JournalOK, SameKey
<1>2. \A a, b \in K : a.kind # "Tx" /\ a.kind = b.kind /\ a.of = b.of => a = b
  BY DEF JournalOK, Named, Records
<1>3. \A b \in Records(K, "Spend") : \E a \in Records(K, "Output") : a.of = b.of /\ Precedes(a, b)
  BY DEF JournalOK, Records
<1>4. \A a \in Records(K, "History") : a.of[2] = a.height
  BY DEF JournalOK, Records
<1> QED BY <1>1, <1>2, <1>3, <1>4 DEF JournalOK

(* Dropping the last record keeps the journal good.                        *)
LEMMA OKDrop ==
  ASSUME NEW J, JournalOK(J), Keyed(J), NEW r \in J, IsNewest(r, J)
  PROVE  JournalOK(J \ {r})
<1> DEFINE K == J \ {r}
<1>1. \A a, b \in K : SameKey(a, b) => a = b
  BY DEF JournalOK
<1>2. \A a, b \in K : a.kind # "Tx" /\ a.kind = b.kind /\ a.of = b.of => a = b
  BY DEF JournalOK
<1>3. \A b \in Records(K, "Spend") : \E a \in Records(K, "Output") : a.of = b.of /\ Precedes(a, b)
  BY DEF JournalOK, Records, IsNewest
<1>4. \A a \in Records(K, "History") : a.of[2] = a.height
  BY DEF JournalOK, Records
<1> QED BY <1>1, <1>2, <1>3, <1>4 DEF JournalOK

(* Views and blocks below a height do not see records of that height.      *)
LEMMA SameBelow ==
  ASSUME NEW J, NEW K, NEW h \in Nat, \A a \in (J \ K) \cup (K \ J) : a.height = h
  PROVE  /\ \A n \in Nat : n < h => UpTo(K, n) = UpTo(J, n)
         /\ \A i : i # h => At(K, i) = At(J, i)
BY DEF UpTo, At

-----------------------------------------------------------------------------
(* Blocks.                                                                 *)

(* The abstract specification speaks of the same transactions.             *)
LEMMA SameTransactions ==
  /\ \A t : Abstract!Prevouts(t) = Prevouts(t)
  /\ \A t : Abstract!Created(t) = Created(t)
  /\ \A o : Abstract!ScriptOf(o) = ScriptOf(o)
BY DEF Abstract!Prevouts, Prevouts, Abstract!Created, Created, Abstract!ScriptOf, ScriptOf

(* The history entries of a block.                                         *)
LEMMA EntryOf ==
  ASSUME NEW b, NEW h, NEW e
  PROVE  e \in Abstract!BlockEntries(b, h) <=>
           \E t \in Abstract!TxsOf(b) :
              \/ \E i \in DOMAIN Inputs[t] :
                   /\ Inputs[t][i] # NullOutPoint
                   /\ e = <<ScriptOf(Inputs[t][i]), h, "Spend", t, i>>
              \/ \E v \in DOMAIN Outputs[t] : e = <<Outputs[t][v].script, h, "Fund", t, v>>
<1> DEFINE Spends(t) == {<<ScriptOf(Inputs[t][i]), h, "Spend", t, i>> :
                           i \in {j \in DOMAIN Inputs[t] : Inputs[t][j] # NullOutPoint}}
           Funds(t) == {<<Outputs[t][v].script, h, "Fund", t, v>> : v \in DOMAIN Outputs[t]}
<1>1. \A t : Abstract!SpendEntries(t, h) = Spends(t) /\ Abstract!FundEntries(t, h) = Funds(t)
  BY DEF Abstract!SpendEntries, Abstract!FundEntries, Abstract!ScriptOf, ScriptOf
<1>2. \A t : e \in Spends(t) <=> \E i \in DOMAIN Inputs[t] :
                                   /\ Inputs[t][i] # NullOutPoint
                                   /\ e = <<ScriptOf(Inputs[t][i]), h, "Spend", t, i>>
  OBVIOUS
<1>3. \A t : e \in Funds(t) <=> \E v \in DOMAIN Outputs[t] : e = <<Outputs[t][v].script, h, "Fund", t, v>>
  OBVIOUS
<1> HIDE DEF Spends, Funds
<1>4. e \in Abstract!BlockEntries(b, h) <=> \E t \in Abstract!TxsOf(b) : e \in Spends(t) \/ e \in Funds(t)
  BY <1>1 DEF Abstract!BlockEntries
<1> QED BY <1>2, <1>3, <1>4

(* What a block spends and creates.                                        *)
LEMMA BlockMakes ==
  ASSUME NEW b, NEW o
  PROVE  /\ o \in Abstract!BlockSpends(b) <=> \E t \in Abstract!TxsOf(b) : o \in Prevouts(t)
         /\ o \in Abstract!BlockCreates(b) <=> \E t \in Abstract!TxsOf(b) : o \in Created(t)
BY SameTransactions DEF Abstract!BlockSpends, Abstract!BlockCreates

-----------------------------------------------------------------------------
(* Steps without a failed store call.                                      *)

(* A step after which no call has failed had no failure itself.            *)
LEMMA CleanFail ==
  ASSUME TypeOK, NEW n \in Nat, Fail(n), faults' = 0
  PROVE  n = 0 /\ faults = 0
BY IndexStateAssumption DEF TypeOK, Fail

(* A call counted by Failures got through.                                 *)
LEMMA CleanCall ==
  ASSUME TypeOK, NEW ok \in BOOLEAN, Fail(Failures(ok)), faults' = 0
  PROVE  ok /\ faults = 0
BY CleanFail DEF Failures

(* So did two of them.                                                     *)
LEMMA CleanCalls ==
  ASSUME TypeOK, NEW ok \in BOOLEAN, NEW done \in BOOLEAN,
         Fail(Failures(ok) + Failures(done)), faults' = 0
  PROVE  ok /\ done /\ faults = 0
BY CleanFail DEF Failures

(* Everything FollowsBlocks looks at.                                      *)
blockVars == <<dbHistory, dbOutputs, dbUtxos, dbJournal, dbTip, history, byHeight,
               tipHeight, job, chain, below, seen>>

(* Operations on the pending pool leave the blocks alone.                  *)
LEMMA SameBlocks == FollowsBlocks /\ UNCHANGED blockVars => FollowsBlocks'
<1> SUFFICES ASSUME FollowsBlocks, UNCHANGED blockVars PROVE FollowsBlocks'
  OBVIOUS
<1>1. StoreIsJournal' /\ JournalOK(dbJournal)' /\ ValidChain(chain)' /\ ViewsKept'
  BY DEF FollowsBlocks, blockVars, StoreIsJournal, ViewsKept
<1>2. (job.op # "rollback" => MemoryIsStore)' /\ (job.op # "rollback" => tipHeight = Full)'
      /\ (job.op = "rollback" => MemoryInRollback /\ job.height = Len(chain) + 1)'
  BY DEF FollowsBlocks, blockVars, MemoryIsStore, LoadHistory, LoadJournal, Full, MemoryInRollback
<1>3. InHand' = InHand /\ TxsDone' = TxsDone /\ Current' = Current
  BY DEF blockVars, InHand, TxsDone, Current
<1>4. (job.op = "apply" => CursorOK)'
  BY <1>3 DEF FollowsBlocks, blockVars, CursorOK
<1>5. SpendsDone' = SpendsDone /\ CreatesDone' = CreatesDone /\ EntriesDone' = EntriesDone
  BY <1>3 DEF blockVars, SpendsDone, CreatesDone, EntriesDone, Done
<1>6. JournalIsChain'
  BY <1>5 DEF FollowsBlocks, blockVars, JournalIsChain, Full
<1> QED BY <1>1, <1>2, <1>4, <1>6 DEF FollowsBlocks

(* A restart between two events changes nothing about confirmed data, and  *)
(* brings back no pending transaction that was gone.                       *)
LEMMA RestartFollows ==
  ASSUME FInv, faults = 0, Restart
  PROVE  Follows'
<1>0. TypeOK /\ FollowsBlocks /\ FollowsPool
  BY DEF FInv, IInv, Follows
<1>1. /\ job.op = "idle" /\ job'.op = "idle"
      /\ history' = history /\ byHeight' = byHeight /\ tipHeight' = tipHeight
      /\ UNCHANGED <<dbVars, chain, below, seen>>
      /\ pendingTxs' = LoadPending
  BY <1>0, IdleType DEF Restart, Reopen, FollowsBlocks, MemoryIsStore
<1>2. FollowsBlocks'
  BY <1>0, <1>1
     DEF FollowsBlocks, dbVars, StoreIsJournal, MemoryIsStore, LoadHistory, LoadJournal,
         Full, JournalIsChain, ViewsKept
<1>3. LoadPending \subseteq pendingTxs
  BY <1>0 DEF FollowsPool, PendingSkipped, LoadPending
<1>4. FollowsPool'
  <2>1. PendingSkipped'
    BY <1>1 DEF PendingSkipped, LoadPending, dbVars
  <2>2. NoConflict'
    BY <1>0, <1>1, <1>3 DEF FollowsPool, NoConflict
  <2> QED BY <2>1, <2>2 DEF FollowsPool
<1> QED BY <1>2, <1>4 DEF Follows

(* A replacement leaves no transaction that spends the same output, but    *)
(* for its parents.                                                        *)
LEMMA ReplacementWins ==
  ASSUME NEW P, NEW t, NEW c \in P \ Evicted(P, t)
  PROVE  Related(c, t) /\ Related(t, c)
<1>1. c \notin Conflicts(P, t)
  BY ChainMembers DEF Evicted
<1> QED BY <1>1 DEF Conflicts, Related

(* Operations on the pending pool keep it free of other conflicts.         *)
LEMMA PoolFollows ==
  ASSUME FInv, faults' = 0, Pending
  PROVE  faults = 0 /\ (Follows => Follows')
<1>0. TypeOK /\ pendingTxs \subseteq Txid /\ Broadcastable \subseteq Txid
  BY IndexStateAssumption DEF FInv, IInv, TypeOK
<1>1. ASSUME NEW t \in Txid, NEW kept, NEW k \in 0..2, Track(t, kept, k)
      PROVE  faults = 0 /\ (FollowsPool => FollowsPool') /\ UNCHANGED blockVars
  <2>1. k = 2 /\ kept = {} /\ faults = 0
    BY <1>0, <1>1, CleanCalls DEF Track
  <2>2. /\ pendingTxs' = (pendingTxs \ Evicted(pendingTxs, t)) \cup {t}
        /\ dbPending' = (dbPending \ Evicted(pendingTxs, t)) \cup {t}
        /\ dbTxs' = dbTxs \cup {t}
        /\ dbJournal' = dbJournal
    BY <1>1, <2>1 DEF Track, Joined, Wrote
  <2>3. ASSUME PendingSkipped PROVE PendingSkipped'
    BY <2>2, <2>3 DEF PendingSkipped
  <2>4. ASSUME NoConflict PROVE NoConflict'
    <3>1. ASSUME NEW x \in pendingTxs', NEW y \in pendingTxs' PROVE Related(x, y)
      <4>1. CASE x = t /\ y = t
        BY <4>1 DEF Related
      <4>2. CASE x = t /\ y # t
        BY <2>2, <4>2, ReplacementWins
      <4>3. CASE x # t /\ y = t
        BY <2>2, <4>3, ReplacementWins
      <4>4. CASE x # t /\ y # t
        BY <2>2, <2>4, <4>4 DEF NoConflict
      <4> QED BY <4>1, <4>2, <4>3, <4>4
    <3> QED BY <3>1 DEF NoConflict
  <2>5. UNCHANGED blockVars
    BY <1>1 DEF Track, Pending, blockVars
  <2> QED BY <2>1, <2>3, <2>4, <2>5 DEF FollowsPool
<1>2. ASSUME NEW t \in pendingTxs, NEW forgotten \in BOOLEAN, Forget(t, forgotten)
      PROVE  faults = 0 /\ (FollowsPool => FollowsPool') /\ UNCHANGED blockVars
  <2>1. forgotten /\ faults = 0
    BY <1>0, <1>2, CleanCall DEF Forget
  <2>2. /\ pendingTxs' = pendingTxs \ {t} /\ dbPending' = dbPending \ {t}
        /\ dbTxs' = dbTxs /\ dbJournal' = dbJournal
    BY <1>2, <2>1 DEF Forget
  <2>3. FollowsPool => FollowsPool'
    BY <2>2 DEF FollowsPool, PendingSkipped, NoConflict
  <2>4. UNCHANGED blockVars
    BY <1>2 DEF Forget, Pending, blockVars
  <2> QED BY <2>1, <2>3, <2>4
<1>3. ASSUME NEW t \in pendingTxs, NEW kept, ForgetChain(t, kept)
      PROVE  faults = 0 /\ (FollowsPool => FollowsPool') /\ UNCHANGED blockVars
  <2>1. kept = {} /\ faults = 0
    BY <1>0, <1>3, CleanCall DEF ForgetChain
  <2>2. /\ pendingTxs' = pendingTxs \ Chain(pendingTxs, t)
        /\ dbPending' = dbPending \ Chain(pendingTxs, t)
        /\ dbTxs' = dbTxs /\ dbJournal' = dbJournal
    BY <1>3, <2>1 DEF ForgetChain
  <2>3. FollowsPool => FollowsPool'
    BY <2>2 DEF FollowsPool, PendingSkipped, NoConflict
  <2>4. UNCHANGED blockVars
    BY <1>3 DEF ForgetChain, Pending, blockVars
  <2> QED BY <2>1, <2>3, <2>4
<1>4. faults = 0 /\ (FollowsPool => FollowsPool') /\ UNCHANGED blockVars
  BY <1>0, <1>1, <1>2, <1>3
     DEF Pending, PendingStep, TransactionBroadcast, TxStatusChange, Restore
<1> QED BY <1>4, SameBlocks DEF Follows

-----------------------------------------------------------------------------
(* Taking a block event.                                                   *)

(* A view is made of outpoints, heights and history keys.                  *)
LEMMA ViewType ==
  ASSUME NEW J, J \subseteq JournalAct, NEW n \in Nat
  PROVE  ViewOf(J, n) \in View
<1>1. Named(UpTo(J, n), "Output") \subseteq OutPoint /\ Named(UpTo(J, n), "History") \subseteq HistoryKey
  BY UndoOf DEF Named, Records, UpTo
<1>2. {<<a.of, a.height>> : a \in Records(UpTo(J, n), "Output")} \subseteq OutPoint \X Height
  BY UndoOf DEF Records, UpTo
<1> QED BY <1>1, <1>2 DEF ViewOf, View

(* Between two events a reader sees what the journal says of the chain.    *)
LEMMA IdleView ==
  ASSUME TypeOK, chain \in Seq(Block), FollowsBlocks, job.op = "idle"
  PROVE  CurrentView = ViewOf(dbJournal, Len(chain)) /\ CurrentView \in View
<1>0. dbJournal \subseteq JournalAct /\ Len(chain) \in Nat
  BY DEF TypeOK, StoreTypeOK
<1>1. UpTo(dbJournal, Len(chain)) = dbJournal
  BY <1>0, JournalKeyed DEF FollowsBlocks, JournalIsChain, Full, UpTo, Keyed
<1>2. {<<o, dbOutputs[o]>> : o \in DOMAIN dbOutputs}
        = {<<a.of, a.height>> : a \in Records(dbJournal, "Output")}
  BY DEF FollowsBlocks, StoreIsJournal, Named
<1>3. {e[2] : e \in history} = dbHistory
  <2>1. history = {<<0, key>> : key \in dbHistory}
    BY DEF FollowsBlocks, MemoryIsStore, LoadHistory
  <2>2. \A key \in dbHistory : <<0, key>> \in history /\ <<0, key>>[2] = key
    BY <2>1
  <2>3. \A e \in history : e[2] \in dbHistory
    BY <2>1
  <2> QED BY <2>2, <2>3
<1>4. tipHeight = Len(chain)
  BY DEF FollowsBlocks, Full
<1>5. CurrentView = ViewOf(dbJournal, Len(chain))
  BY <1>1, <1>2, <1>3, <1>4 DEF CurrentView, ViewOf, FollowsBlocks, StoreIsJournal
<1> QED BY <1>0, <1>5, ViewType

(* The views before an event, all of them read off the journal.            *)
LEMMA IdleViews ==
  ASSUME TypeOK, chain \in Seq(Block), FollowsBlocks, job.op = "idle"
  PROVE  /\ Views \in Seq(View) /\ Len(Views) = Len(chain) + 1
         /\ \A i \in 1..(Len(chain) + 1) : Views[i] = ViewOf(dbJournal, i - 1)
<1>1. Views = Append(below, CurrentView)
  BY DEF Views
<1>2. /\ below \in Seq(View) /\ Len(below) = Len(chain)
      /\ \A i \in 1..Len(chain) : below[i] = ViewOf(dbJournal, i - 1)
  BY DEF FollowsBlocks, ViewsKept
<1>3. /\ Append(below, CurrentView) \in Seq(View)
      /\ Len(Append(below, CurrentView)) = Len(chain) + 1
      /\ \A i \in 1..Len(chain) : Append(below, CurrentView)[i] = below[i]
      /\ Append(below, CurrentView)[Len(chain) + 1] = CurrentView
  BY <1>2, IdleView
<1>4. ASSUME NEW i \in 1..(Len(chain) + 1) PROVE Views[i] = ViewOf(dbJournal, i - 1)
  <2>1. CASE i \in 1..Len(chain)
    BY <1>1, <1>2, <1>3, <2>1
  <2>2. CASE i = Len(chain) + 1
    <3>1. (Len(chain) + 1) - 1 = Len(chain)
      OBVIOUS
    <3> QED BY <1>1, <1>3, <2>2, <3>1, IdleView
  <2> QED BY <2>1, <2>2
<1> QED BY <1>1, <1>3, <1>4

(* The transactions before a place in the chain, and all of them.          *)
LEMMA EarlierMember ==
  ASSUME NEW c, NEW h, NEW i, NEW x
  PROVE  x \in EarlierTxs(c, h, i) <=> \/ \E g \in 1..(h - 1) : x \in Abstract!TxsOf(c[g])
                                      \/ \E j \in 1..(i - 1) : x = TxData[c[h]][j]
<1> DEFINE lower == UNION {Abstract!TxsOf(c[g]) : g \in 1..(h - 1)}
           same == {TxData[c[h]][j] : j \in 1..(i - 1)}
<1>1. x \in lower <=> \E g \in 1..(h - 1) : x \in Abstract!TxsOf(c[g])
  OBVIOUS
<1>2. x \in same <=> \E j \in 1..(i - 1) : x = TxData[c[h]][j]
  OBVIOUS
<1>3. EarlierTxs(c, h, i) = lower \cup same
  BY DEF EarlierTxs
<1> HIDE DEF lower, same
<1> QED BY <1>1, <1>2, <1>3

(* The confirmed transactions are those of the blocks.                     *)
LEMMA ConfirmedMember ==
  ASSUME NEW x
  PROVE  x \in Confirmed <=> \E g \in DOMAIN chain : x \in Abstract!TxsOf(chain[g])
BY DEF Confirmed

(* A valid next block keeps the chain valid.                               *)
LEMMA ChainGrows ==
  ASSUME chain \in Seq(Block), ValidChain(chain), NEW b \in Block, Extends(b)
  PROVE  ValidChain(Append(chain, b))
<1> DEFINE c == Append(chain, b)
           n == Len(chain)
<1>0. /\ n \in Nat /\ DOMAIN c = 1..(n + 1) /\ DOMAIN chain = 1..n /\ c[n + 1] = b
      /\ \A i \in 1..n : c[i] = chain[i]
  OBVIOUS
<1> HIDE DEF c, n
<1>1. ASSUME NEW h \in 1..n, NEW i
      PROVE  EarlierTxs(c, h, i) = EarlierTxs(chain, h, i)
  <2>1. \A g \in 1..(h - 1) : g \in 1..n
    BY <1>0
  <2>2. c[h] = chain[h] /\ \A g \in 1..(h - 1) : c[g] = chain[g]
    BY <1>0, <2>1
  <2> QED BY <2>2 DEF EarlierTxs
<1>2. ASSUME NEW i
      PROVE  EarlierTxs(c, n + 1, i) = Confirmed \cup {TxData[b][j] : j \in 1..(i - 1)}
  <2>1. 1..((n + 1) - 1) = DOMAIN chain
    BY <1>0
  <2>2. \A g \in DOMAIN chain : c[g] = chain[g]
    BY <1>0
  <2>3. \A x : x \in EarlierTxs(c, n + 1, i) <=> \/ x \in Confirmed
                                                \/ \E j \in 1..(i - 1) : x = TxData[b][j]
    BY <1>0, <2>1, <2>2, EarlierMember, ConfirmedMember
  <2> QED BY <2>3
<1>3. ASSUME NEW h \in DOMAIN c, NEW i \in DOMAIN TxData[c[h]]
      PROVE  /\ TxData[c[h]][i] \notin EarlierTxs(c, h, i)
             /\ Prevouts(TxData[c[h]][i]) \subseteq
                  CreatedBy(EarlierTxs(c, h, i)) \ SpentBy(EarlierTxs(c, h, i))
  <2>1. CASE h \in 1..n
    BY <1>0, <1>1, <2>1 DEF ValidChain
  <2>2. CASE h = n + 1
    BY <1>0, <1>2, <2>2 DEF Extends
  <2> QED BY <1>0, <2>1, <2>2
<1>4. ValidChain(c)
  BY <1>3 DEF ValidChain
<1> QED BY <1>4 DEF c

(* So does taking the last block away.                                     *)
LEMMA ChainShrinks ==
  ASSUME chain \in Seq(Block), chain # <<>>, ValidChain(chain)
  PROVE  /\ Abstract!Front(chain) \in Seq(Block)
         /\ Len(Abstract!Front(chain)) = Len(chain) - 1
         /\ \A i \in 1..(Len(chain) - 1) : Abstract!Front(chain)[i] = chain[i]
         /\ ValidChain(Abstract!Front(chain))
<1> DEFINE c == Abstract!Front(chain)
<1>0. /\ c \in Seq(Block) /\ Len(c) = Len(chain) - 1 /\ Len(chain) \in Nat \ {0}
      /\ DOMAIN c = 1..(Len(chain) - 1) /\ DOMAIN chain = 1..Len(chain)
      /\ \A i \in 1..(Len(chain) - 1) : c[i] = chain[i]
  BY DEF Abstract!Front
<1> HIDE DEF c
<1>1. ASSUME NEW h \in DOMAIN c, NEW i
      PROVE  EarlierTxs(c, h, i) = EarlierTxs(chain, h, i)
  <2>1. \A g \in 1..(h - 1) : g \in 1..(Len(chain) - 1)
    BY <1>0
  <2>2. c[h] = chain[h] /\ \A g \in 1..(h - 1) : c[g] = chain[g]
    BY <1>0, <2>1
  <2> QED BY <2>2 DEF EarlierTxs
<1>2. ValidChain(c)
  BY <1>0, <1>1 DEF ValidChain
<1> QED BY <1>0, <1>2 DEF c

(* Transactions of a block are transactions, and inputs and outputs have   *)
(* natural positions.                                                      *)
LEMMA BlockType ==
  ASSUME NEW b \in Block
  PROVE  /\ TxData[b] \in Seq(Txid)
         /\ \A t \in Abstract!TxsOf(b) : t \in Txid
         /\ \A t \in Txid : /\ Len(Inputs[t]) \in Nat /\ DOMAIN Inputs[t] = 1..Len(Inputs[t])
                            /\ Len(Outputs[t]) \in Nat /\ DOMAIN Outputs[t] = 1..Len(Outputs[t])
<1>1. TxData[b] \in Seq(Txid)
  BY TransactionsAssumption
<1>2. \A t \in Abstract!TxsOf(b) : t \in Txid
  BY <1>1 DEF Abstract!TxsOf
<1>3. \A t \in Txid : Len(Inputs[t]) \in Nat /\ DOMAIN Inputs[t] = 1..Len(Inputs[t])
  <2>1. \A t \in Txid : Inputs[t] \in Seq(OutPoint \cup {NullOutPoint})
    BY TransactionsAssumption
  <2> QED BY <2>1, LenProperties
<1>4. \A t \in Txid : Len(Outputs[t]) \in Nat /\ DOMAIN Outputs[t] = 1..Len(Outputs[t])
  <2>1. \A t \in Txid : Outputs[t] \in Seq([script : ScriptHash, value : Nat])
    BY TransactionsAssumption
  <2> QED BY <2>1, LenProperties
<1> QED BY <1>1, <1>2, <1>3, <1>4

(* Where in its transaction an output of a block stands.                   *)
LEMMA CreatePlace ==
  ASSUME NEW b \in Block, NEW o \in Abstract!BlockCreates(b)
  PROVE  /\ o[1] \in Txid /\ o = <<o[1], o[2]>>
         /\ o[2] \in 1..Len(Outputs[o[1]])
         /\ Len(Inputs[o[1]]) \in Nat
<1>1. PICK t \in Abstract!TxsOf(b) : o \in Created(t)
  BY BlockMakes
<1>2. PICK v \in DOMAIN Outputs[t] : o = <<t, v>>
  BY <1>1 DEF Created
<1> QED BY <1>2, BlockType

(* Where in its transaction a history entry of a block comes from.         *)
LEMMA EntryPlace ==
  ASSUME NEW b \in Block, NEW h, NEW e \in Abstract!BlockEntries(b, h)
  PROVE  /\ e[2] = h /\ e[4] \in Txid /\ Len(Inputs[e[4]]) \in Nat
         /\ \/ /\ e[3] = "Spend" /\ e[5] \in 1..Len(Inputs[e[4]])
               /\ Inputs[e[4]][e[5]] # NullOutPoint
               /\ e = <<ScriptOf(Inputs[e[4]][e[5]]), h, "Spend", e[4], e[5]>>
            \/ /\ e[3] = "Fund" /\ e[5] \in 1..Len(Outputs[e[4]])
               /\ e = <<Outputs[e[4]][e[5]].script, h, "Fund", e[4], e[5]>>
<1>1. PICK t \in Abstract!TxsOf(b) :
        \/ \E i \in DOMAIN Inputs[t] :
             /\ Inputs[t][i] # NullOutPoint
             /\ e = <<ScriptOf(Inputs[t][i]), h, "Spend", t, i>>
        \/ \E v \in DOMAIN Outputs[t] : e = <<Outputs[t][v].script, h, "Fund", t, v>>
  BY EntryOf
<1>2. t \in Txid
  BY BlockType
<1>3. CASE \E i \in DOMAIN Inputs[t] : /\ Inputs[t][i] # NullOutPoint
                                       /\ e = <<ScriptOf(Inputs[t][i]), h, "Spend", t, i>>
  BY <1>2, <1>3, BlockType
<1>4. CASE \E v \in DOMAIN Outputs[t] : e = <<Outputs[t][v].script, h, "Fund", t, v>>
  BY <1>2, <1>4, BlockType
<1> QED BY <1>1, <1>3, <1>4

(* No event has been taken for the next height: nothing is left there.     *)
LEMMA NothingAbove ==
  ASSUME TypeOK, chain \in Seq(Block), FollowsBlocks, job.op = "idle"
  PROVE  /\ \A a \in dbJournal : a.height \in 1..Len(chain)
         /\ \A e \in byHeight : e[2].height \in 1..Len(chain)
         /\ \A e \in history : e[2][2] \in 1..Len(chain)
<1>1. \A a \in dbJournal : a.height \in 1..Len(chain)
  BY DEF FollowsBlocks, JournalIsChain, Full
<1>2. \A e \in byHeight : e[2].height \in 1..Len(chain)
  <2>1. byHeight = {<<0, a>> : a \in dbJournal}
    BY DEF FollowsBlocks, MemoryIsStore, LoadJournal
  <2> QED BY <1>1, <2>1
<1>3. \A e \in history : e[2][2] \in 1..Len(chain)
  <2>1. history = {<<0, key>> : key \in dbHistory}
    BY DEF FollowsBlocks, MemoryIsStore, LoadHistory
  <2>2. \A key \in dbHistory : \E a \in dbJournal : a.of = key /\ a.of[2] = a.height
    BY DEF FollowsBlocks, StoreIsJournal, JournalOK, Named, Records
  <2>3. \A key \in dbHistory : key[2] \in 1..Len(chain)
    BY <1>1, <2>2
  <2> QED BY <2>1, <2>3
<1> QED BY <1>1, <1>2, <1>3

(* Entering apply_block: nothing of the block is recorded yet.             *)
LEMMA ConnectFollows ==
  ASSUME FInv, faults = 0, NEW b \in Block, Connect(b)
  PROVE  Follows'
<1> DEFINE n == Len(chain)
<1>0. TypeOK /\ chain \in Seq(Block) /\ FollowsBlocks /\ FollowsPool /\ job.op = "idle" /\ n \in Nat
  BY DEF FInv, IInv, Follows, Connect, Connected
<1>1. /\ chain' \in Seq(Block) /\ Len(chain') = n + 1 /\ chain'[n + 1] = b
      /\ \A i \in 1..n : chain'[i] = chain[i]
      /\ chain' # <<>>
  BY <1>0 DEF Connect
<1>2. UNCHANGED <<dbVars, memVars>> /\ below' = Views /\ seen' = Views
  BY DEF Connect, Connected
<1>3. job' = [op |-> "apply", height |-> n + 1, pass |-> 0, txs |-> TxData[b],
              pos |-> 0, seq |-> 0, undo |-> {}]
  <2>1. PICK p \in Pass : FreshPass(n + 1, p)
                          /\ job' = [Idle EXCEPT !.op = "apply", !.height = n + 1, !.pass = p,
                                                 !.txs = TxData[b]]
    BY DEF Connect, Connected
  <2>2. p \in Nat /\ ~(p > 0)
    BY <1>0, <2>1, NothingAbove, IndexStateAssumption DEF FreshPass, Pass
  <2>3. p = 0
    BY <2>2
  <2> QED BY <2>1, <2>3 DEF Idle
<1>4. \A a \in dbJournal : a.height \in 1..n
  BY <1>0, NothingAbove
<1>5. JournalOK(dbJournal') /\ StoreIsJournal' /\ MemoryIsStore'
  BY <1>0, <1>2 DEF FollowsBlocks, StoreIsJournal, MemoryIsStore, LoadHistory, LoadJournal,
                    dbVars, memVars
<1>6. Full' = n /\ tipHeight' = n /\ InHand' = b
  BY <1>0, <1>1, <1>2, <1>3 DEF FollowsBlocks, Full, InHand, memVars
<1>7. TxsDone' = 0 /\ TxData[b] \in Seq(Txid)
  <2>1. TxData[b] \in Seq(Txid) /\ Len(TxData[b]) \in Nat
    BY BlockType
  <2>2. TxsDone' = Len(TxData[b]) - Len(TxData[b])
    BY <1>3, <1>6 DEF TxsDone
  <2> QED BY <2>1, <2>2
<1>8. CursorOK'
  <2>1. \A i \in DOMAIN TxData[b] : i = 0 + i
    BY <1>7
  <2>2. Len(TxData[b]) <= Len(TxData[b])
    BY <1>7
  <2>3. At(dbJournal', n + 1) = {}
    BY <1>2, <1>4 DEF At, dbVars
  <2>4. TxData[b] # <<>> => 0 <= Len(Inputs[Head(TxData[b])]) + Len(Outputs[Head(TxData[b])])
    <3>1. TxData[b] # <<>> => Head(TxData[b]) \in Txid
      BY <1>7
    <3>2. ASSUME NEW t \in Txid PROVE 0 <= Len(Inputs[t]) + Len(Outputs[t])
      <4>1. Len(Inputs[t]) \in Nat /\ Len(Outputs[t]) \in Nat
        BY BlockType
      <4>2. \A x, y \in Nat : 0 <= x + y
        OBVIOUS
      <4> QED BY <4>1, <4>2, Zenon
    <3> QED BY <3>1, <3>2
  <2>5. Current' = Head(TxData[b])
    BY <1>3 DEF Current
  <2> QED BY <1>1, <1>3, <1>6, <1>7, <2>1, <2>2, <2>3, <2>4, <2>5 DEF CursorOK
<1>9. \A i \in DOMAIN TxData[b] : \A q \in Nat : ~Done(i, q)'
  BY <1>3, <1>7 DEF Done
<1>10. SpendsDone' = {} /\ CreatesDone' = {} /\ EntriesDone' = {}
  <2>1. SpendsDone' = {}
    <3>1. \A i \in DOMAIN TxData[b] : DOMAIN Inputs[TxData[b][i]] \subseteq Nat
      BY <1>7, BlockType
    <3> QED BY <1>6, <1>9, <3>1 DEF SpendsDone
  <2>2. CreatesDone' = {}
    <3>1. \A o \in Abstract!BlockCreates(b) : Len(Inputs[o[1]]) + o[2] \in Nat
      BY CreatePlace
    <3> QED BY <1>6, <1>9, <3>1 DEF CreatesDone
  <2>3. EntriesDone' = {}
    <3>1. \A e \in Abstract!BlockEntries(b, n + 1) : Place(e) \in Nat
      BY EntryPlace DEF Place
    <3> QED BY <1>1, <1>6, <1>9, <3>1 DEF EntriesDone
  <2> QED BY <2>1, <2>2, <2>3
<1>11. JournalIsChain'
  <2>1. \A i \in 1..n : Recorded(dbJournal', i, Abstract!BlockSpends(chain'[i]),
                                 Abstract!BlockCreates(chain'[i]),
                                 Abstract!BlockEntries(chain'[i], i))
    BY <1>0, <1>1, <1>2 DEF FollowsBlocks, JournalIsChain, Full, dbVars
  <2>2. Recorded(dbJournal', n + 1, {}, {}, {})
    BY <1>2, <1>4 DEF Recorded, Named, Records, At, dbVars
  <2> QED BY <1>1, <1>2, <1>4, <1>6, <1>10, <2>1, <2>2 DEF JournalIsChain, dbVars
<1>12. ValidChain(chain')
  BY <1>0, ChainGrows DEF Connect, FollowsBlocks
<1>13. ViewsKept'
  <2>1. /\ Views \in Seq(View) /\ Len(Views) = n + 1
        /\ \A i \in 1..(n + 1) : Views[i] = ViewOf(dbJournal, i - 1)
    BY <1>0, IdleViews
  <2> QED BY <1>1, <1>2, <1>3, <2>1 DEF ViewsKept, dbVars
<1>14. FollowsPool'
  BY <1>0, <1>2 DEF FollowsPool, PendingSkipped, NoConflict, dbVars, memVars
<1> QED BY <1>3, <1>5, <1>6, <1>8, <1>11, <1>12, <1>13, <1>14 DEF Follows, FollowsBlocks

(* Entering rollback_height: the records of the top block are in hand.     *)
LEMMA DisconnectFollows ==
  ASSUME FInv, faults = 0, Disconnect
  PROVE  Follows'
<1> DEFINE n == Len(chain)
<1>0. TypeOK /\ chain \in Seq(Block) /\ FollowsBlocks /\ FollowsPool /\ job.op = "idle"
      /\ chain # <<>> /\ n \in Nat \ {0}
  BY DEF FInv, IInv, Follows, Disconnect, Disconnected
<1>1. /\ chain' \in Seq(Block) /\ Len(chain') = n - 1
      /\ \A i \in 1..(n - 1) : chain'[i] = chain[i]
      /\ ValidChain(chain')
  BY <1>0, ChainShrinks DEF FollowsBlocks, Disconnect
<1>2. /\ UNCHANGED <<dbVars, history, pendingTxs, tipHeight>>
      /\ byHeight' = byHeight \ EntriesAt(n)
      /\ below' = Abstract!Front(below) /\ seen' = Views
  BY DEF Disconnect, Disconnected
<1>3. job' = [op |-> "rollback", height |-> n, pass |-> 0, txs |-> <<>>,
              pos |-> 0, seq |-> 0, undo |-> EntriesAt(n)]
  BY DEF Disconnect, Disconnected, Idle
<1>4. \A a \in dbJournal : a.height \in 1..n
  BY <1>0, NothingAbove
<1>5. JournalOK(dbJournal') /\ StoreIsJournal'
  BY <1>0, <1>2 DEF FollowsBlocks, StoreIsJournal, dbVars
<1>6. Full' = n - 1
  BY <1>1, <1>3 DEF Full
<1>7. MemoryInRollback'
  <2>1. byHeight = {<<0, a>> : a \in dbJournal} /\ history = {<<0, key>> : key \in dbHistory}
    BY <1>0 DEF FollowsBlocks, MemoryIsStore, LoadJournal, LoadHistory
  <2>2. EntriesAt(n) = {<<0, a>> : a \in At(dbJournal, n)}
    BY <2>1 DEF EntriesAt, At
  <2>3. byHeight \ EntriesAt(n) = {<<0, a>> : a \in {b \in dbJournal : b.height # n}}
    BY <2>1 DEF EntriesAt
  <2>4. {e \in history : e[2][2] # n} = {<<0, key>> : key \in Elsewhere(dbHistory, n)}
    BY <2>1 DEF Elsewhere
  <2>5. tipHeight = n /\ dbTip = n
    BY <1>0 DEF FollowsBlocks, MemoryIsStore, Full
  <2> QED BY <1>2, <1>3, <2>2, <2>3, <2>4, <2>5 DEF MemoryInRollback, dbVars
<1>8. JournalIsChain'
  <2>1. \A i \in 1..(n - 1) : Recorded(dbJournal', i, Abstract!BlockSpends(chain'[i]),
                                       Abstract!BlockCreates(chain'[i]),
                                       Abstract!BlockEntries(chain'[i], i))
    BY <1>0, <1>1, <1>2 DEF FollowsBlocks, JournalIsChain, Full, dbVars
  <2>2. \A a \in dbJournal' : a.height \in 1..(n - 1) \/ a.height = n
    BY <1>0, <1>2, <1>4 DEF dbVars
  <2> QED BY <1>3, <1>6, <2>1, <2>2 DEF JournalIsChain
<1>9. ViewsKept'
  <2>1. /\ Views \in Seq(View) /\ Len(Views) = n + 1
        /\ \A i \in 1..(n + 1) : Views[i] = ViewOf(dbJournal, i - 1)
    BY <1>0, IdleViews
  <2>2. /\ below \in Seq(View) /\ Len(below) = n
        /\ \A i \in 1..n : below[i] = ViewOf(dbJournal, i - 1)
    BY <1>0 DEF FollowsBlocks, ViewsKept
  <2>3. /\ Abstract!Front(below) \in Seq(View) /\ Len(Abstract!Front(below)) = n - 1
        /\ \A i \in 1..(n - 1) : Abstract!Front(below)[i] = below[i]
    BY <1>0, <2>2 DEF Abstract!Front
  <2> QED BY <1>0, <1>1, <1>2, <1>3, <2>1, <2>2, <2>3 DEF ViewsKept, dbVars
<1>10. FollowsPool'
  BY <1>0, <1>2 DEF FollowsPool, PendingSkipped, NoConflict, dbVars
<1>11. job'.op = "rollback" /\ job'.height = Len(chain') + 1
  BY <1>0, <1>1, <1>3
<1> QED BY <1>1, <1>5, <1>7, <1>8, <1>9, <1>10, <1>11 DEF Follows, FollowsBlocks

-----------------------------------------------------------------------------
(* rollback_height, one record after the other.                            *)

(* Records of one height come and go without a trace in the views and the  *)
(* blocks below it.                                                        *)
LEMMA LowerUntouched ==
  ASSUME TypeOK, FollowsBlocks, chain \in Seq(Block), job.op # "idle",
         NEW K, \A a \in (dbJournal \ K) \cup (K \ dbJournal) : a.height = job.height
  PROVE  /\ job.height = Full + 1 /\ Full \in Nat
         /\ \A n \in Nat : n <= Full => ViewOf(K, n) = ViewOf(dbJournal, n)
         /\ \A i \in 1..Full : At(K, i) = At(dbJournal, i)
         /\ \A a \in K : a.height \in 1..Full \/ a.height = job.height
<1>1. job.height = Full + 1 /\ Full \in Nat
  <2>1. CASE job.op = "rollback"
    BY <2>1 DEF FollowsBlocks, Full
  <2>2. CASE job.op = "apply"
    BY <2>2 DEF FollowsBlocks, Full, CursorOK
  <2>3. job.op = "rollback" \/ job.op = "apply"
    BY DEF TypeOK, JobType
  <2> QED BY <2>1, <2>2, <2>3
<1>a. /\ \A n \in Nat : n < job.height => UpTo(K, n) = UpTo(dbJournal, n)
      /\ \A i : i # job.height => At(K, i) = At(dbJournal, i)
  <2>1. job.height \in Nat
    BY <1>1
  <2> QED BY <2>1, SameBelow
<1>2. \A n \in Nat : n <= Full => ViewOf(K, n) = ViewOf(dbJournal, n)
  <2>1. \A n \in Nat : n <= Full => UpTo(K, n) = UpTo(dbJournal, n)
    BY <1>1, <1>a
  <2> QED BY <2>1 DEF ViewOf
<1>3. \A i \in 1..Full : At(K, i) = At(dbJournal, i)
  <2>1. \A i \in 1..Full : i # job.height
    BY <1>1
  <2> QED BY <1>a, <2>1
<1>4. \A a \in K : a.height \in 1..Full \/ a.height = job.height
  BY DEF FollowsBlocks, JournalIsChain
<1> QED BY <1>1, <1>2, <1>3, <1>4

(* What one iteration of the replay loop does, whatever the record.        *)
LEMMA UndoFollows ==
  ASSUME FInv, faults' = 0, Work, NEW e \in job.undo, NEW kind, NEW k,
         NEW calls \in {2, 4}, Undo(e, kind, k, calls)
  PROVE  /\ faults = 0 /\ k = calls /\ job.op = "rollback"
         /\ e[2] \in dbJournal /\ e[2].kind = kind
         /\ dbJournal' = dbJournal \ {e[2]}
         /\ IsNewest(e[2], dbJournal)
         /\ (/\ StoreIsJournal'
             /\ Elsewhere(dbHistory', job.height) = Elsewhere(dbHistory, job.height))
              => FollowsBlocks'
<1>0. TypeOK /\ chain \in Seq(Block)
  BY DEF FInv, IInv
<1>1. faults = 0 /\ k = calls
  BY <1>0, CleanCall DEF Undo
<1>2. FollowsBlocks /\ job.op = "rollback" /\ job \in JobType
  BY <1>0, <1>1 DEF FInv, Follows, Undo, TypeOK
<1>3. /\ job.undo = {<<0, a>> : a \in At(dbJournal, job.height)}
      /\ job.height = Len(chain) + 1 /\ Keyed(dbJournal)
      /\ dbJournal \subseteq JournalAct
  BY <1>0, <1>2, JournalKeyed DEF FollowsBlocks, MemoryInRollback, TypeOK, StoreTypeOK
<1>4. PICK r \in dbJournal : e = <<0, r>> /\ r.height = job.height
  BY <1>3 DEF At
<1>5. e[2] = r /\ e[1] = 0
  BY <1>4
<1>6. r.kind = kind
  BY <1>5 DEF Undo
<1>7. IsNewest(r, dbJournal)
  <2>1. ASSUME NEW a \in At(dbJournal, job.height) PROVE a.seq <= r.seq
    <3>1. <<0, a>> \in job.undo /\ <<0, a>>[1] = 0 /\ <<0, a>>[2] = a
      BY <1>3
    <3>2. <<0, a>>[1] < e[1] \/ <<0, a>>[2].seq <= e[2].seq
      BY <3>1 DEF Undo, IsLast
    <3>3. 0 < 0 \/ a.seq <= r.seq
      BY <1>5, <3>1, <3>2
    <3> QED BY <3>3
  <2>2. \A a \in dbJournal : a.height <= job.height
    BY <1>0, <1>2, <1>3 DEF FollowsBlocks, JournalIsChain, Full, Keyed
  <2> QED BY <1>3, <1>4, <2>1, <2>2 DEF IsNewest, Precedes, At, Keyed
<1>8. dbJournal' = dbJournal \ {r}
  <2>1. dbJournal' = DropAct(dbJournal, r)
    BY <1>1, <1>5 DEF Undo, Wrote
  <2> QED BY <1>2, <2>1, DropOne DEF FollowsBlocks
<1>9. /\ job' = [job EXCEPT !.undo = @ \ {e}]
      /\ UNCHANGED <<dbTip, memVars, chain, below>>
  BY <1>1 DEF Undo, Work
<1>10. job'.op = "rollback" /\ job'.height = job.height /\ job'.undo = job.undo \ {e}
  BY <1>2, <1>9 DEF JobType
<1>11. seen' = seen
  BY <1>10 DEF Work
<1>12. JournalOK(dbJournal')
  BY <1>2, <1>3, <1>7, <1>8, OKDrop DEF FollowsBlocks
<1>13. \A a \in (dbJournal \ dbJournal') \cup (dbJournal' \ dbJournal) : a.height = job.height
  BY <1>4, <1>8
<1>14. /\ job.height = Full + 1 /\ Full \in Nat
       /\ \A n \in Nat : n <= Full => ViewOf(dbJournal', n) = ViewOf(dbJournal, n)
       /\ \A i \in 1..Full : At(dbJournal', i) = At(dbJournal, i)
       /\ \A a \in dbJournal' : a.height \in 1..Full \/ a.height = job.height
  BY <1>0, <1>2, <1>13, LowerUntouched
<1>15. Full' = Full /\ Full = Len(chain)
  BY <1>2, <1>9, <1>10 DEF Full
<1>16. JournalIsChain'
  <2>1. \A i \in 1..Full : Recorded(dbJournal', i, Abstract!BlockSpends(chain[i]),
                                    Abstract!BlockCreates(chain[i]),
                                    Abstract!BlockEntries(chain[i], i))
    BY <1>2, <1>14 DEF FollowsBlocks, JournalIsChain, Recorded
  <2> QED BY <1>9, <1>10, <1>14, <1>15, <2>1 DEF JournalIsChain
<1>17. ViewsKept'
  <2>1. \A i \in 1..(Len(chain) + 1) : i - 1 \in Nat /\ i - 1 <= Full
    BY <1>14, <1>15
  <2>2. \A i \in 1..(Len(chain) + 1) : ViewOf(dbJournal', i - 1) = ViewOf(dbJournal, i - 1)
    BY <1>14, <2>1
  <2> QED BY <1>0, <1>2, <1>9, <1>10, <1>11, <2>2 DEF FollowsBlocks, ViewsKept
<1>18. ASSUME Elsewhere(dbHistory', job.height) = Elsewhere(dbHistory, job.height)
       PROVE  MemoryInRollback'
  <2>1. job.undo \ {e} = {<<0, a>> : a \in At(dbJournal', job.height)}
    BY <1>3, <1>4, <1>8 DEF At
  <2>2. {b \in dbJournal' : b.height # job.height} = {b \in dbJournal : b.height # job.height}
    BY <1>4, <1>8
  <2> QED BY <1>2, <1>9, <1>10, <1>18, <2>1, <2>2 DEF FollowsBlocks, MemoryInRollback, memVars
<1>19. ASSUME StoreIsJournal',
              Elsewhere(dbHistory', job.height) = Elsewhere(dbHistory, job.height)
       PROVE  FollowsBlocks'
  BY <1>2, <1>3, <1>9, <1>10, <1>12, <1>16, <1>17, <1>18, <1>19 DEF FollowsBlocks
<1> QED BY <1>1, <1>2, <1>5, <1>6, <1>7, <1>8, <1>19

(* Dropping a record other than a Tx record hides no confirmed txid.       *)
LEMMA SameConfirmed ==
  ASSUME NEW J, NEW r \in J, r.kind # "Tx"
  PROVE  ConfirmedTxids(J \ {r}) = ConfirmedTxids(J)
BY DEF ConfirmedTxids

(* Rolling back a Tx record: a pending txid that it hid has lost its raw   *)
(* transaction as well.                                                    *)
LEMMA UndoTxFollows ==
  ASSUME FInv, faults' = 0, Work, NEW e \in job.undo, NEW k \in 0..2, UndoTx(e, k)
  PROVE  faults = 0 /\ Follows'
<1> DEFINE r == e[2]
<1>1. Undo(e, "Tx", k, 2)
  BY DEF UndoTx
<1>2. /\ faults = 0 /\ k = 2 /\ r \in dbJournal /\ r.kind = "Tx" /\ job.op = "rollback"
      /\ dbJournal' = dbJournal \ {r}
      /\ (/\ StoreIsJournal'
          /\ Elsewhere(dbHistory', job.height) = Elsewhere(dbHistory, job.height))
           => FollowsBlocks'
  BY <1>1, UndoFollows
<1>3. FollowsBlocks /\ FollowsPool /\ TypeOK
  BY <1>2 DEF FInv, IInv, Follows
<1>4. /\ UNCHANGED <<dbHistory, dbOutputs, dbUtxos, dbPending, pendingTxs>>
      /\ dbTxs' = dbTxs \ {r.of[1]}
  BY <1>1, <1>2 DEF UndoTx, Undo, Wrote, memVars
<1>5. \A kind : kind # "Tx" => Records(dbJournal', kind) = Records(dbJournal, kind)
  BY <1>2 DEF Records
<1>6. StoreIsJournal'
  BY <1>3, <1>4, <1>5 DEF FollowsBlocks, StoreIsJournal, Named
<1>7. FollowsPool'
  <2>1. \A t \in ConfirmedTxids(dbJournal) : t \in ConfirmedTxids(dbJournal') \/ t = r.of[1]
    BY <1>2 DEF ConfirmedTxids
  <2> QED BY <1>3, <1>4, <2>1 DEF FollowsPool, PendingSkipped, NoConflict
<1> QED BY <1>2, <1>4, <1>6, <1>7 DEF Follows

(* Rolling back a History record.                                          *)
LEMMA UndoHistoryFollows ==
  ASSUME FInv, faults' = 0, Work, NEW e \in job.undo, NEW k \in 0..2, UndoHistory(e, k)
  PROVE  faults = 0 /\ Follows'
<1> DEFINE r == e[2]
<1>1. Undo(e, "History", k, 2)
  BY DEF UndoHistory
<1>2. /\ faults = 0 /\ k = 2 /\ r \in dbJournal /\ r.kind = "History" /\ job.op = "rollback"
      /\ dbJournal' = dbJournal \ {r}
      /\ (/\ StoreIsJournal'
          /\ Elsewhere(dbHistory', job.height) = Elsewhere(dbHistory, job.height))
           => FollowsBlocks'
  BY <1>1, UndoFollows
<1>3. FollowsBlocks /\ FollowsPool /\ TypeOK /\ JournalOK(dbJournal)
  BY <1>2 DEF FInv, IInv, Follows, FollowsBlocks
<1>4. /\ UNCHANGED <<dbTxs, dbOutputs, dbUtxos, dbPending, pendingTxs>>
      /\ dbHistory' = dbHistory \ {r.of}
  BY <1>1, <1>2 DEF UndoHistory, Undo, Wrote, memVars
<1>5. /\ Named(dbJournal', "History") = Named(dbJournal, "History") \ {r.of}
      /\ Named(dbJournal', "Output") = Named(dbJournal, "Output")
      /\ Named(dbJournal', "Spend") = Named(dbJournal, "Spend")
      /\ Records(dbJournal', "Output") = Records(dbJournal, "Output")
  <2>1. \A kind : kind # "Tx" => Named(dbJournal \ {r}, kind) =
                    IF r.kind = kind THEN Named(dbJournal, kind) \ {r.of} ELSE Named(dbJournal, kind)
    BY <1>2, <1>3, NamedDrop
  <2>2. Records(dbJournal', "Output") = Records(dbJournal, "Output")
    BY <1>2 DEF Records
  <2> HIDE DEF r
  <2> QED BY <1>2, <2>1, <2>2
<1>6. StoreIsJournal'
  BY <1>3, <1>4, <1>5 DEF FollowsBlocks, StoreIsJournal
<1>7. r.of[2] = job.height
  <2>1. r.of[2] = r.height
    BY <1>2, <1>3 DEF JournalOK, Records
  <2>2. r.height = job.height
    BY <1>2, <1>3 DEF FollowsBlocks, MemoryInRollback, At
  <2> QED BY <2>1, <2>2
<1>8. Elsewhere(dbHistory', job.height) = Elsewhere(dbHistory, job.height)
  BY <1>4, <1>7 DEF Elsewhere
<1>9. FollowsPool'
  BY <1>2, <1>3, <1>4, SameConfirmed DEF FollowsPool, PendingSkipped, NoConflict
<1> QED BY <1>2, <1>6, <1>8, <1>9 DEF Follows

(* Rolling back an Output record: nothing spends the output any more.      *)
LEMMA UndoOutputFollows ==
  ASSUME FInv, faults' = 0, Work, NEW e \in job.undo, NEW k \in 0..4, UndoOutput(e, k)
  PROVE  faults = 0 /\ Follows'
<1> DEFINE r == e[2]
<1>1. Undo(e, "Output", k, 4)
  BY DEF UndoOutput
<1>2. /\ faults = 0 /\ k = 4 /\ r \in dbJournal /\ r.kind = "Output" /\ job.op = "rollback"
      /\ dbJournal' = dbJournal \ {r}
      /\ IsNewest(r, dbJournal)
      /\ (/\ StoreIsJournal'
          /\ Elsewhere(dbHistory', job.height) = Elsewhere(dbHistory, job.height))
           => FollowsBlocks'
  BY <1>1, UndoFollows
<1>3. FollowsBlocks /\ FollowsPool /\ TypeOK /\ JournalOK(dbJournal) /\ StoreIsJournal
  BY <1>2 DEF FInv, IInv, Follows, FollowsBlocks
<1>4. HasOutput(r.of)
  BY <1>2, <1>3 DEF HasOutput, StoreIsJournal, Named, Records
<1>5. /\ UNCHANGED <<dbTxs, dbHistory, dbPending, pendingTxs>>
      /\ dbUtxos' = dbUtxos \ {r.of}
      /\ dbOutputs' = DropOutput(dbOutputs, r.of)
  BY <1>1, <1>2, <1>4 DEF UndoOutput, Undo, Wrote, memVars
<1>6. /\ Named(dbJournal', "History") = Named(dbJournal, "History")
      /\ Named(dbJournal', "Output") = Named(dbJournal, "Output") \ {r.of}
      /\ Named(dbJournal', "Spend") = Named(dbJournal, "Spend")
  <2>1. \A kind : kind # "Tx" => Named(dbJournal \ {r}, kind) =
                    IF r.kind = kind THEN Named(dbJournal, kind) \ {r.of} ELSE Named(dbJournal, kind)
    BY <1>2, <1>3, NamedDrop
  <2> HIDE DEF r
  <2> QED BY <1>2, <2>1
<1>7. r.of \notin Named(dbJournal, "Spend")
  <2> SUFFICES ASSUME NEW b \in Records(dbJournal, "Spend"), b.of = r.of PROVE FALSE
    BY DEF Named
  <2>1. PICK a \in Records(dbJournal, "Output") : a.of = b.of /\ Precedes(a, b)
    BY <1>3 DEF JournalOK
  <2>2. a = r
    BY <1>2, <1>3, <2>1 DEF JournalOK, Records
  <2> QED BY <1>2, <2>1, <2>2 DEF Records, IsNewest
<1>8. StoreIsJournal'
  <2>1. DOMAIN dbOutputs' = Named(dbJournal', "Output")
    BY <1>3, <1>5, <1>6 DEF StoreIsJournal, DropOutput
  <2>2. ASSUME NEW a \in Records(dbJournal', "Output") PROVE dbOutputs'[a.of] = a.height
    <3>1. a \in Records(dbJournal, "Output") /\ a.of \in DOMAIN dbOutputs'
      BY <1>2, <2>1 DEF Records, Named
    <3> QED BY <1>3, <1>5, <3>1 DEF StoreIsJournal, DropOutput
  <2> QED BY <1>3, <1>5, <1>6, <1>7, <2>1, <2>2 DEF StoreIsJournal
<1>9. FollowsPool'
  BY <1>2, <1>3, <1>5, SameConfirmed DEF FollowsPool, PendingSkipped, NoConflict
<1> QED BY <1>2, <1>5, <1>8, <1>9 DEF Follows

(* Rolling back a Spend record: the output is still stored, and becomes    *)
(* unspent with the height it had.                                         *)
LEMMA UndoSpendFollows ==
  ASSUME FInv, faults' = 0, Work, NEW e \in job.undo, NEW k \in 0..4, UndoSpend(e, k)
  PROVE  faults = 0 /\ Follows'
<1> DEFINE r == e[2]
<1>1. Undo(e, "Spend", k, 4)
  BY DEF UndoSpend
<1>2. /\ faults = 0 /\ k = 4 /\ r \in dbJournal /\ r.kind = "Spend" /\ job.op = "rollback"
      /\ dbJournal' = dbJournal \ {r}
      /\ (/\ StoreIsJournal'
          /\ Elsewhere(dbHistory', job.height) = Elsewhere(dbHistory, job.height))
           => FollowsBlocks'
  BY <1>1, UndoFollows
<1>3. FollowsBlocks /\ FollowsPool /\ TypeOK /\ JournalOK(dbJournal) /\ StoreIsJournal
  BY <1>2 DEF FInv, IInv, Follows, FollowsBlocks
<1>4. r.of \in Named(dbJournal, "Output") /\ HasOutput(r.of)
  BY <1>2, <1>3 DEF HasOutput, StoreIsJournal, JournalOK, Named, Records
<1>5. /\ UNCHANGED <<dbTxs, dbHistory, dbPending, pendingTxs>>
      /\ dbUtxos' = dbUtxos \cup {r.of}
      /\ dbOutputs' = PutOutput(dbOutputs, r.of, dbOutputs[r.of])
  BY <1>1, <1>2, <1>4 DEF UndoSpend, Undo, Wrote, memVars
<1>6. DOMAIN dbOutputs' = DOMAIN dbOutputs /\ \A o \in DOMAIN dbOutputs : dbOutputs'[o] = dbOutputs[o]
  BY <1>4, <1>5 DEF PutOutput, HasOutput
<1>7. /\ Named(dbJournal', "History") = Named(dbJournal, "History")
      /\ Named(dbJournal', "Output") = Named(dbJournal, "Output")
      /\ Named(dbJournal', "Spend") = Named(dbJournal, "Spend") \ {r.of}
      /\ Records(dbJournal', "Output") = Records(dbJournal, "Output")
  <2>1. \A kind : kind # "Tx" => Named(dbJournal \ {r}, kind) =
                    IF r.kind = kind THEN Named(dbJournal, kind) \ {r.of} ELSE Named(dbJournal, kind)
    BY <1>2, <1>3, NamedDrop
  <2>2. Records(dbJournal', "Output") = Records(dbJournal, "Output")
    BY <1>2 DEF Records
  <2> HIDE DEF r
  <2> QED BY <1>2, <2>1, <2>2
<1>8. StoreIsJournal'
  BY <1>3, <1>4, <1>5, <1>6, <1>7 DEF StoreIsJournal, Named
<1>9. FollowsPool'
  BY <1>2, <1>3, <1>5, SameConfirmed DEF FollowsPool, PendingSkipped, NoConflict
<1> QED BY <1>2, <1>5, <1>8, <1>9 DEF Follows

(* The end of rollback_height: memory and tip are those of the lower chain.*)
LEMMA FinishRollbackFollows ==
  ASSUME FInv, faults' = 0, Work, NEW k \in 0..1, FinishRollback(k)
  PROVE  faults = 0 /\ Follows'
<1>0. TypeOK /\ chain \in Seq(Block) /\ job.op = "rollback" /\ job.undo = {}
  BY DEF FInv, IInv, FinishRollback
<1>1. faults = 0 /\ (k = 1 \/ tipHeight # job.height)
  BY <1>0, CleanCall DEF FinishRollback, LowerTip
<1>2. FollowsBlocks /\ FollowsPool /\ MemoryInRollback /\ JournalOK(dbJournal)
      /\ StoreIsJournal /\ job.height = Len(chain) + 1
  BY <1>0, <1>1 DEF FInv, Follows, FollowsBlocks
<1>3. /\ history' = {e \in history : e[2][2] # job.height}
      /\ UNCHANGED <<dbHistory, dbOutputs, dbTxs, dbUtxos, dbJournal, dbPending, byHeight,
                     pendingTxs, chain, below>>
      /\ job' = Idle
  BY DEF FinishRollback, Work
<1>4. At(dbJournal, job.height) = {}
  <2>1. \A a \in At(dbJournal, job.height) : <<0, a>> \in job.undo
    BY <1>2 DEF MemoryInRollback
  <2> QED BY <1>0, <2>1
<1>5. tipHeight' = Len(chain) /\ dbTip' = Len(chain)
  <2>1. tipHeight = Len(chain) + 1 /\ job.height # 0 /\ job.height - 1 = Len(chain)
    BY <1>0, <1>2 DEF MemoryInRollback
  <2> QED BY <1>1, <1>2, <2>1 DEF FinishRollback, LowerTip, TipBelow, Wrote
<1>6. history' = LoadHistory'
  <2>1. \A x \in dbHistory : x[2] # job.height
    BY <1>2, <1>4 DEF StoreIsJournal, JournalOK, Named, Records, At
  <2> QED BY <1>2, <1>3, <2>1 DEF MemoryInRollback, LoadHistory, Elsewhere
<1>7. byHeight' = LoadJournal'
  BY <1>2, <1>3, <1>4 DEF MemoryInRollback, LoadJournal, At
<1>8. job'.op = "idle" /\ Full' = Len(chain)
  BY <1>3 DEF Idle, Full
<1>9. JournalIsChain'
  BY <1>0, <1>2, <1>3, <1>4, <1>8 DEF FollowsBlocks, JournalIsChain, Full, At
<1>10. ViewsKept'
  BY <1>2, <1>3, <1>8 DEF FollowsBlocks, ViewsKept
<1>11. StoreIsJournal' /\ JournalOK(dbJournal') /\ ValidChain(chain') /\ FollowsPool'
  BY <1>2, <1>3 DEF FollowsBlocks, StoreIsJournal, FollowsPool, PendingSkipped, NoConflict
<1> QED BY <1>1, <1>3, <1>5, <1>6, <1>7, <1>8, <1>9, <1>10, <1>11
        DEF Follows, FollowsBlocks, MemoryIsStore

-----------------------------------------------------------------------------
(* apply_block, one position after the other.                              *)

(* The cursor stands on a transaction of the block in hand.                *)
LEMMA CursorPlace ==
  ASSUME TypeOK, chain \in Seq(Block), CursorOK, Applying
  PROVE  /\ Len(chain) \in Nat \ {0} /\ InHand \in Block /\ Current \in Txid
         /\ TxData[InHand] \in Seq(Txid) /\ TxsDone \in Nat
         /\ TxsDone + 1 \in DOMAIN TxData[InHand]
         /\ Current = TxData[InHand][TxsDone + 1]
         /\ job \in JobType /\ job.txs \in Seq(Txid) /\ Len(job.txs) \in Nat \ {0}
         /\ TxsDone + Len(job.txs) = Len(TxData[InHand])
<1>1. job \in JobType /\ job.txs \in Seq(Txid) /\ job.txs # <<>>
  BY DEF TypeOK, JobType, Applying
<1>2. Len(chain) \in Nat \ {0} /\ InHand \in Block
  BY DEF CursorOK, InHand
<1>3. TxData[InHand] \in Seq(Txid)
  BY <1>2, BlockType
<1>4. Len(job.txs) \in Nat \ {0} /\ Current \in Txid /\ Current = job.txs[1] /\ 1 \in DOMAIN job.txs
  BY <1>1 DEF Current
<1>5. /\ TxsDone \in Nat /\ TxsDone + 1 \in DOMAIN TxData[InHand]
      /\ TxsDone + Len(job.txs) = Len(TxData[InHand])
  <2> DEFINE x == Len(TxData[InHand])
             y == Len(job.txs)
  <2>1. x \in Nat /\ y \in Nat \ {0} /\ y <= x /\ DOMAIN TxData[InHand] = 1..x /\ TxsDone = x - y
    BY <1>3, <1>4 DEF TxsDone, CursorOK
  <2> HIDE DEF x, y
  <2>2. TxsDone \in Nat /\ TxsDone + 1 \in 1..x /\ TxsDone + y = x
    BY <2>1
  <2> QED BY <2>1, <2>2 DEF x, y
<1>6. Current = TxData[InHand][TxsDone + 1]
  BY <1>4 DEF CursorOK
<1> QED BY <1>1, <1>2, <1>3, <1>4, <1>5, <1>6

(* Moving the cursor: what stood under it is done, nothing else.           *)
LEMMA CursorMoves ==
  ASSUME TypeOK, chain \in Seq(Block), CursorOK, Applying,
         NEW n \in Nat, job' = Advance(n), chain' = chain
  PROVE  /\ InHand' = InHand /\ job'.op = "apply" /\ job'.height = job.height
         /\ job'.pass = job.pass /\ job'.seq = job.seq + n
         /\ \A i \in DOMAIN TxData[InHand], q \in Nat :
              q <= Len(Inputs[TxData[InHand][i]]) + Len(Outputs[TxData[InHand][i]]) =>
                (Done(i, q)' <=> Done(i, q) \/ (i = TxsDone + 1 /\ q = job.pos))
         /\ (\A a \in At(dbJournal', job.height) : a.seq < job.seq + n) => CursorOK'
<1> DEFINE d == TxsDone
           b == InHand
           len == Len(Inputs[Current]) + Len(Outputs[Current])
<1>0. /\ job \in JobType /\ job.txs \in Seq(Txid) /\ Len(job.txs) \in Nat \ {0}
      /\ d \in Nat /\ job.pos \in Nat /\ job.op = "apply"
      /\ TxData[b] \in Seq(Txid) /\ Current = TxData[b][d + 1] /\ Current \in Txid
      /\ d + Len(job.txs) = Len(TxData[b])
      /\ DOMAIN TxData[b] = 1..Len(TxData[b])
  BY CursorPlace DEF JobType, Applying
<1>1. len \in Nat /\ job.pos <= len
  <2>1. Len(Inputs[Current]) \in Nat /\ Len(Outputs[Current]) \in Nat
    BY CursorPlace, BlockType
  <2>2. \A x, y \in Nat : x + y \in Nat
    OBVIOUS
  <2>3. len \in Nat
    BY <2>1, <2>2, Zenon
  <2>4. job.pos <= len
    BY DEF CursorOK, Applying
  <2> QED BY <2>3, <2>4
<1>2. InHand' = b
  BY DEF InHand
<1>3. CASE job.pos < len
  <2>1. job' = [job EXCEPT !.pos = @ + 1, !.seq = @ + n]
    BY <1>3 DEF Advance
  <2>2. /\ job'.op = "apply" /\ job'.height = job.height /\ job'.pass = job.pass
        /\ job'.seq = job.seq + n /\ job'.pos = job.pos + 1 /\ job'.txs = job.txs
    BY <1>0, <2>1 DEF JobType
  <2>3. TxsDone' = d /\ Current' = Current
    BY <1>2, <2>2 DEF TxsDone, Current
  <2>4. \A i \in DOMAIN TxData[b], q \in Nat :
          Done(i, q)' <=> Done(i, q) \/ (i = d + 1 /\ q = job.pos)
    <3>1. \A i, q : Done(i, q)' <=> i <= d \/ (i = d + 1 /\ q < job.pos + 1)
      BY <2>2, <2>3 DEF Done
    <3>2. \A i, q : Done(i, q) <=> i <= d \/ (i = d + 1 /\ q < job.pos)
      BY DEF Done
    <3> HIDE DEF d, b
    <3> QED BY <1>0, <3>1, <3>2
  <2>5. job'.pos <= len
    <3> HIDE DEF len
    <3> QED BY <1>0, <1>1, <1>3, <2>2
  <2>6. (\A a \in At(dbJournal', job.height) : a.seq < job.seq + n) => CursorOK'
    BY <1>2, <2>2, <2>3, <2>5 DEF CursorOK, Applying
  <2> QED BY <1>2, <2>2, <2>4, <2>6
<1>4. CASE ~(job.pos < len)
  <2>1. job' = [job EXCEPT !.pos = 0, !.seq = @ + n, !.txs = Tail(@)]
    BY <1>4 DEF Advance
  <2>2. /\ job'.op = "apply" /\ job'.height = job.height /\ job'.pass = job.pass
        /\ job'.seq = job.seq + n /\ job'.pos = 0 /\ job'.txs = Tail(job.txs)
    BY <1>0, <2>1 DEF JobType
  <2>3. /\ Len(Tail(job.txs)) = Len(job.txs) - 1 /\ Tail(job.txs) \in Seq(Txid)
        /\ \A i \in 1..(Len(job.txs) - 1) : Tail(job.txs)[i] = job.txs[i + 1]
        /\ DOMAIN Tail(job.txs) = 1..(Len(job.txs) - 1)
        /\ DOMAIN job.txs = 1..Len(job.txs)
    BY <1>0
  <2>4. TxsDone' = d + 1
    <3> DEFINE x == Len(TxData[b])
               y == Len(job.txs)
    <3>1. x \in Nat /\ y \in Nat
      BY <1>0
    <3>2. d = x - y
      BY DEF TxsDone
    <3>3. TxsDone' = Len(TxData[InHand']) - Len(job'.txs)
      BY DEF TxsDone
    <3>4. Len(TxData[InHand']) = x /\ Len(job'.txs) = y - 1
      BY <1>2, <2>2, <2>3
    <3> HIDE DEF x, y, d
    <3> QED BY <3>1, <3>2, <3>3, <3>4
  <2>5. job.pos = len
    <3> HIDE DEF len
    <3> QED BY <1>0, <1>1, <1>4
  <2>6. ASSUME NEW i \in DOMAIN TxData[b], NEW q \in Nat,
               q <= Len(Inputs[TxData[b][i]]) + Len(Outputs[TxData[b][i]])
        PROVE  Done(i, q)' <=> Done(i, q) \/ (i = d + 1 /\ q = job.pos)
    <3>1. Done(i, q)' <=> i <= d + 1 \/ (i = (d + 1) + 1 /\ q < 0)
      BY <2>2, <2>4 DEF Done
    <3>2. Done(i, q) <=> i <= d \/ (i = d + 1 /\ q < job.pos)
      BY DEF Done
    <3>3. i = d + 1 => q <= job.pos
      BY <1>0, <2>5, <2>6
    <3> HIDE DEF d, b
    <3> QED BY <1>0, <3>1, <3>2, <3>3
  <2>7. ASSUME NEW i \in DOMAIN job'.txs PROVE job'.txs[i] = TxData[b][TxsDone' + i]
    <3>1. i + 1 \in DOMAIN job.txs /\ job'.txs[i] = job.txs[i + 1] /\ i \in Nat
      BY <1>0, <2>2, <2>3
    <3>2. job.txs[i + 1] = TxData[b][d + (i + 1)]
      BY <3>1 DEF CursorOK
    <3>3. d + (i + 1) = (d + 1) + i
      BY <1>0, <3>1
    <3> QED BY <2>4, <3>1, <3>2, <3>3
  <2>8. job'.txs = <<>> \/ job'.pos <= Len(Inputs[Current']) + Len(Outputs[Current'])
    <3>1. job'.txs # <<>> => Current' \in Txid
      BY <2>2, <2>3 DEF Current
    <3>2. ASSUME NEW t \in Txid PROVE 0 <= Len(Inputs[t]) + Len(Outputs[t])
      <4>1. Len(Inputs[t]) \in Nat /\ Len(Outputs[t]) \in Nat
        BY CursorPlace, BlockType
      <4>2. \A x, y \in Nat : 0 <= x + y
        OBVIOUS
      <4> QED BY <4>1, <4>2, Zenon
    <3> QED BY <2>2, <3>1, <3>2
  <2>9. Len(job'.txs) <= Len(TxData[b])
    BY <1>0, <2>2, <2>3
  <2>10. (\A a \in At(dbJournal', job.height) : a.seq < job.seq + n) => CursorOK'
    BY <1>2, <2>2, <2>7, <2>8, <2>9 DEF CursorOK
  <2> QED BY <1>2, <2>2, <2>6, <2>10
<1> QED BY <1>3, <1>4

(* What the position under the cursor contributes.                         *)
SpendsHere ==
  {o \in Abstract!BlockSpends(InHand) :
     job.pos \in DOMAIN Inputs[Current] /\ o = Inputs[Current][job.pos]}

CreatesHere ==
  {o \in Abstract!BlockCreates(InHand) :
     o[1] = Current /\ Len(Inputs[Current]) + o[2] = job.pos}

EntriesHere ==
  {e \in Abstract!BlockEntries(InHand, Len(chain)) : e[4] = Current /\ Place(e) = job.pos}

(* Moving the cursor adds just that.                                       *)
LEMMA DoneGrows ==
  ASSUME TypeOK, chain \in Seq(Block), CursorOK, Applying,
         NEW n \in Nat, job' = Advance(n), chain' = chain
  PROVE  /\ SpendsDone' = SpendsDone \cup SpendsHere
         /\ CreatesDone' = CreatesDone \cup CreatesHere
         /\ EntriesDone' = EntriesDone \cup EntriesHere
<1> DEFINE b == InHand
           d == TxsDone
<1>0. /\ b \in Block /\ InHand' = b /\ Len(chain') = Len(chain) /\ TxData[b] \in Seq(Txid)
      /\ d + 1 \in DOMAIN TxData[b] /\ Current = TxData[b][d + 1]
  BY CursorPlace, CursorMoves
<1>1. \A i \in DOMAIN TxData[b] : TxData[b][i] \in Txid
  BY <1>0
<1>2. ASSUME NEW i \in DOMAIN TxData[b], NEW q \in Nat,
             q <= Len(Inputs[TxData[b][i]]) + Len(Outputs[TxData[b][i]])
      PROVE  Done(i, q)' <=> Done(i, q) \/ (i = d + 1 /\ q = job.pos)
  BY <1>2, CursorMoves
<1>3. ASSUME NEW t \in Txid
      PROVE  /\ \A q \in DOMAIN Inputs[t] : q \in Nat /\ q <= Len(Inputs[t]) + Len(Outputs[t])
             /\ \A v \in 1..Len(Outputs[t]) : /\ Len(Inputs[t]) + v \in Nat
                                              /\ Len(Inputs[t]) + v <= Len(Inputs[t]) + Len(Outputs[t])
  <2> DEFINE x == Len(Inputs[t])
             y == Len(Outputs[t])
  <2>1. x \in Nat /\ y \in Nat /\ DOMAIN Inputs[t] = 1..x
    BY <1>0, BlockType
  <2> HIDE DEF x, y
  <2>2. (\A q \in 1..x : q \in Nat /\ q <= x + y) /\ (\A v \in 1..y : x + v \in Nat /\ x + v <= x + y)
    BY <2>1
  <2> QED BY <2>1, <2>2 DEF x, y
<1>4. SpendsDone' = SpendsDone \cup SpendsHere
  <2>1. \A i \in DOMAIN TxData[b] : \A q \in DOMAIN Inputs[TxData[b][i]] :
          Done(i, q)' <=> Done(i, q) \/ (i = d + 1 /\ q = job.pos)
    BY <1>1, <1>2, <1>3
  <2>2. SpendsDone' = {o \in Abstract!BlockSpends(b) :
                         \E i \in DOMAIN TxData[b] :
                           \E q \in DOMAIN Inputs[TxData[b][i]] :
                             Done(i, q)' /\ o = Inputs[TxData[b][i]][q]}
    BY <1>0 DEF SpendsDone
  <2>3. SpendsHere = {o \in Abstract!BlockSpends(b) :
                        \E q \in DOMAIN Inputs[TxData[b][d + 1]] :
                          q = job.pos /\ o = Inputs[TxData[b][d + 1]][q]}
    BY <1>0 DEF SpendsHere
  <2>4. \A o : o \in SpendsDone' => o \in SpendsDone \cup SpendsHere
    BY <2>1, <2>2, <2>3 DEF SpendsDone
  <2>5. \A o : o \in SpendsDone => o \in SpendsDone'
    BY <2>1, <2>2 DEF SpendsDone
  <2>6. \A o : o \in SpendsHere => o \in SpendsDone'
    BY <1>0, <2>1, <2>2, <2>3
  <2> QED BY <2>4, <2>5, <2>6
<1>5. CreatesDone' = CreatesDone \cup CreatesHere
  <2>1. ASSUME NEW o \in Abstract!BlockCreates(b), NEW i \in DOMAIN TxData[b], o[1] = TxData[b][i]
        PROVE  Done(i, Len(Inputs[o[1]]) + o[2])' <=>
                 \/ Done(i, Len(Inputs[o[1]]) + o[2])
                 \/ (i = d + 1 /\ Len(Inputs[o[1]]) + o[2] = job.pos)
    <3>1. o[1] \in Txid /\ o[2] \in 1..Len(Outputs[o[1]])
      BY <1>0, CreatePlace
    <3> QED BY <1>2, <1>3, <2>1, <3>1
  <2>2. CreatesDone' = {o \in Abstract!BlockCreates(b) :
                          \E i \in DOMAIN TxData[b] :
                            o[1] = TxData[b][i] /\ Done(i, Len(Inputs[o[1]]) + o[2])'}
    BY <1>0 DEF CreatesDone
  <2> QED BY <1>0, <2>1, <2>2 DEF CreatesDone, CreatesHere
<1>6. EntriesDone' = EntriesDone \cup EntriesHere
  <2>1. ASSUME NEW e \in Abstract!BlockEntries(b, Len(chain)), NEW i \in DOMAIN TxData[b],
               e[4] = TxData[b][i]
        PROVE  Done(i, Place(e))' <=> Done(i, Place(e)) \/ (i = d + 1 /\ Place(e) = job.pos)
    <3>1. /\ e[4] \in Txid
          /\ \/ e[3] = "Spend" /\ e[5] \in DOMAIN Inputs[e[4]]
             \/ e[3] = "Fund" /\ e[5] \in 1..Len(Outputs[e[4]])
      BY <1>0, EntryPlace, BlockType
    <3>2. Place(e) \in Nat /\ Place(e) <= Len(Inputs[e[4]]) + Len(Outputs[e[4]])
      BY <1>3, <3>1 DEF Place
    <3> QED BY <1>2, <2>1, <3>2
  <2>2. EntriesDone' = {e \in Abstract!BlockEntries(b, Len(chain)) :
                          \E i \in DOMAIN TxData[b] : e[4] = TxData[b][i] /\ Done(i, Place(e))'}
    BY <1>0 DEF EntriesDone
  <2> QED BY <1>0, <2>1, <2>2 DEF EntriesDone, EntriesHere
<1> QED BY <1>4, <1>5, <1>6

(* What stands at each kind of position.                                   *)
LEMMA HereTx ==
  ASSUME TypeOK, chain \in Seq(Block), CursorOK, Applying, job.pos = 0
  PROVE  SpendsHere = {} /\ CreatesHere = {} /\ EntriesHere = {}
<1>0. InHand \in Block /\ Current \in Txid /\ DOMAIN Inputs[Current] = 1..Len(Inputs[Current])
  BY CursorPlace, BlockType
<1>1. SpendsHere = {}
  BY <1>0 DEF SpendsHere
<1>2. CreatesHere = {}
  BY <1>0, CreatePlace DEF CreatesHere
<1>3. EntriesHere = {}
  BY <1>0, EntryPlace DEF EntriesHere, Place
<1> QED BY <1>1, <1>2, <1>3

(* An input contributes its spend and a history entry, a null one nothing. *)
LEMMA HereInput ==
  ASSUME TypeOK, chain \in Seq(Block), CursorOK, Applying, job.pos \in DOMAIN Inputs[Current],
         NEW o, o = Inputs[Current][job.pos],
         NEW key, key = <<ScriptOf(o), job.height, "Spend", Current, job.pos>>
  PROVE  /\ CreatesHere = {}
         /\ o = NullOutPoint => SpendsHere = {} /\ EntriesHere = {}
         /\ o # NullOutPoint => SpendsHere = {o} /\ EntriesHere = {key}
<1>0. /\ InHand \in Block /\ Current \in Txid /\ job.height = Len(chain)
      /\ Current \in Abstract!TxsOf(InHand)
  BY CursorPlace DEF CursorOK, Abstract!TxsOf
<1>1. Len(Inputs[Current]) \in Nat /\ job.pos \in 1..Len(Inputs[Current])
  BY <1>0, BlockType
<1>2. CreatesHere = {}
  BY <1>0, <1>1, CreatePlace DEF CreatesHere
<1>3. ASSUME NEW e \in EntriesHere PROVE o # NullOutPoint /\ e = key
  <2>1. e \in Abstract!BlockEntries(InHand, Len(chain)) /\ e[4] = Current /\ Place(e) = job.pos
    BY DEF EntriesHere
  <2>2. e[3] = "Fund" => e[5] \in Nat \ {0} /\ Place(e) = Len(Inputs[Current]) + e[5]
    BY <1>0, <2>1, EntryPlace DEF Place
  <2>3. e[3] # "Fund"
    BY <1>1, <2>1, <2>2
  <2>4. /\ e[3] = "Spend" /\ Inputs[e[4]][e[5]] # NullOutPoint
        /\ e = <<ScriptOf(Inputs[e[4]][e[5]]), Len(chain), "Spend", e[4], e[5]>>
    BY <1>0, <2>1, <2>3, EntryPlace
  <2>5. e[5] = job.pos
    BY <2>1, <2>4 DEF Place
  <2> QED BY <1>0, <2>1, <2>4, <2>5
<1>4. ASSUME o # NullOutPoint PROVE o \in SpendsHere /\ key \in EntriesHere
  <2>1. o \in Abstract!BlockSpends(InHand)
    BY <1>0, <1>4, BlockMakes DEF Prevouts
  <2>2. key \in Abstract!BlockEntries(InHand, Len(chain))
    BY <1>0, <1>4, EntryOf
  <2>3. key[4] = Current /\ Place(key) = job.pos
    BY DEF Place
  <2> QED BY <2>1, <2>2, <2>3 DEF SpendsHere, EntriesHere
<1>5. ASSUME NEW x \in SpendsHere PROVE o # NullOutPoint /\ x = o
  <2>1. x \in Abstract!BlockSpends(InHand) /\ x = o
    BY DEF SpendsHere
  <2> QED BY <2>1, BlockMakes DEF Prevouts
<1> QED BY <1>2, <1>3, <1>4, <1>5

(* An output contributes itself and a history entry.                       *)
LEMMA HereOutput ==
  ASSUME TypeOK, chain \in Seq(Block), CursorOK, Applying, OutputAt \in DOMAIN Outputs[Current],
         NEW o, o = <<Current, OutputAt>>,
         NEW key, key = <<ScriptOf(o), job.height, "Fund", Current, OutputAt>>
  PROVE  SpendsHere = {} /\ CreatesHere = {o} /\ EntriesHere = {key}
<1> DEFINE len == Len(Inputs[Current])
<1>0. /\ InHand \in Block /\ Current \in Txid /\ job.height = Len(chain)
      /\ Current \in Abstract!TxsOf(InHand)
  BY CursorPlace DEF CursorOK, Abstract!TxsOf
<1>1. /\ len \in Nat /\ OutputAt \in Nat \ {0} /\ job.pos = len + OutputAt
      /\ DOMAIN Inputs[Current] = 1..len
  <2>1. len \in Nat /\ OutputAt \in 1..Len(Outputs[Current]) /\ DOMAIN Inputs[Current] = 1..len
    BY <1>0, BlockType
  <2>2. OutputAt = job.pos - len /\ job.pos \in Nat
    BY CurrentType DEF OutputAt
  <2> HIDE DEF len
  <2> QED BY <2>1, <2>2
<1>2. SpendsHere = {}
  <2>1. job.pos \notin DOMAIN Inputs[Current]
    <3> HIDE DEF len
    <3> QED BY <1>1
  <2> QED BY <2>1 DEF SpendsHere
<1>3. ASSUME NEW x \in CreatesHere PROVE x = o
  <2>1. x[1] = Current /\ len + x[2] = job.pos /\ x = <<x[1], x[2]>> /\ x[2] \in Nat
    BY <1>0, CreatePlace DEF CreatesHere
  <2> HIDE DEF len
  <2>2. x[2] = OutputAt
    BY <1>1, <2>1
  <2> QED BY <2>1, <2>2
<1>4. o \in CreatesHere
  <2>1. o \in Abstract!BlockCreates(InHand)
    BY <1>0, BlockMakes DEF Created
  <2> QED BY <1>1, <2>1 DEF CreatesHere
<1>5. ASSUME NEW e \in EntriesHere PROVE e = key
  <2>1. e \in Abstract!BlockEntries(InHand, Len(chain)) /\ e[4] = Current /\ Place(e) = job.pos
    BY DEF EntriesHere
  <2>2. e[3] = "Spend" => e[5] \in DOMAIN Inputs[Current] /\ Place(e) = e[5]
    BY <1>0, <1>1, <2>1, EntryPlace DEF Place
  <2>3. job.pos \notin DOMAIN Inputs[Current]
    <3> HIDE DEF len
    <3> QED BY <1>1
  <2>4. /\ e[3] = "Fund" /\ e[5] \in Nat
        /\ e = <<Outputs[e[4]][e[5]].script, Len(chain), "Fund", e[4], e[5]>>
    BY <1>0, <2>1, <2>2, <2>3, EntryPlace
  <2>5. Place(e) = len + e[5]
    BY <2>1, <2>4 DEF Place
  <2>6. e[5] = OutputAt
    <3> HIDE DEF len
    <3> QED BY <1>1, <2>1, <2>4, <2>5
  <2>7. ScriptOf(o) = Outputs[Current][OutputAt].script
    BY DEF ScriptOf
  <2> QED BY <1>0, <2>1, <2>4, <2>6, <2>7
<1>6. key \in EntriesHere
  <2>1. key \in Abstract!BlockEntries(InHand, Len(chain))
    BY <1>0, EntryOf DEF ScriptOf
  <2>2. key[4] = Current /\ Place(key) = job.pos
    BY <1>1 DEF Place
  <2> QED BY <2>1, <2>2 DEF EntriesHere
<1> QED BY <1>2, <1>3, <1>4, <1>5, <1>6

(* The new records of a step, and what they make of the blocks.            *)
LEMMA AtAdd ==
  ASSUME NEW J, NEW R, NEW h, \A r \in R : r.height = h, NEW kind
  PROVE  Named(At(J \cup R, h), kind) = Named(At(J, h), kind) \cup Named(R, kind)
BY DEF Named, Records, At

(* A step of apply_block that wrote the records R keeps the invariant if R *)
(* records just what stands under the cursor.                              *)
LEMMA ApplyFrame ==
  ASSUME TypeOK, chain \in Seq(Block), FollowsBlocks, Applying,
         NEW n \in Nat, job' = Advance(n), UNCHANGED <<chain, below, seen, tipHeight>>,
         NEW R, dbJournal' = dbJournal \cup R,
         \A r \in R : r.height = job.height /\ r.seq \in Nat /\ r.seq < job.seq + n,
         Named(R, "Spend") = SpendsHere, Named(R, "Output") = CreatesHere,
         Named(R, "History") = EntriesHere,
         JournalOK(dbJournal'), StoreIsJournal', MemoryIsStore'
  PROVE  FollowsBlocks'
<1>0. /\ job.op = "apply" /\ CursorOK /\ job.height = Len(chain) /\ JournalIsChain
      /\ job.seq \in Nat
  BY CurrentType DEF Applying, FollowsBlocks, CursorOK
<1>1. /\ job'.op = "apply" /\ job'.height = job.height /\ Full' = Full
      /\ (\A a \in At(dbJournal', job.height) : a.seq < job.seq + n) => CursorOK'
  <2>1. /\ job'.op = "apply" /\ job'.height = job.height
        /\ (\A a \in At(dbJournal', job.height) : a.seq < job.seq + n) => CursorOK'
    BY <1>0, CursorMoves
  <2> QED BY <1>0, <2>1 DEF Full
<1>2. CursorOK'
  <2>1. ASSUME NEW a \in At(dbJournal', job.height) PROVE a.seq < job.seq + n
    <3>1. CASE a \in R
      BY <3>1
    <3>2. CASE a \in dbJournal
      <4>1. a.seq < job.seq /\ a.seq \in Nat
        BY <1>0, <2>1, <3>2, JournalKeyed DEF CursorOK, At, TypeOK, StoreTypeOK, Keyed
      <4> QED BY <1>0, <4>1
    <3> QED BY <3>1, <3>2 DEF At
  <2> QED BY <1>1, <2>1
<1>3. \A a \in (dbJournal \ dbJournal') \cup (dbJournal' \ dbJournal) : a.height = job.height
  OBVIOUS
<1>4. /\ job.height = Full + 1 /\ Full \in Nat
      /\ \A m \in Nat : m <= Full => ViewOf(dbJournal', m) = ViewOf(dbJournal, m)
      /\ \A i \in 1..Full : At(dbJournal', i) = At(dbJournal, i)
      /\ \A a \in dbJournal' : a.height \in 1..Full \/ a.height = job.height
  BY <1>0, <1>3, LowerUntouched
<1>5. JournalIsChain'
  <2>1. \A i \in 1..Full : Recorded(dbJournal', i, Abstract!BlockSpends(chain[i]),
                                    Abstract!BlockCreates(chain[i]),
                                    Abstract!BlockEntries(chain[i], i))
    BY <1>0, <1>4 DEF JournalIsChain, Recorded
  <2>2. Recorded(dbJournal', Len(chain), SpendsDone', CreatesDone', EntriesDone')
    <3>1. Recorded(dbJournal, Len(chain), SpendsDone, CreatesDone, EntriesDone)
      BY <1>0 DEF JournalIsChain
    <3>2. \A kind : Named(At(dbJournal', Len(chain)), kind)
                      = Named(At(dbJournal, Len(chain)), kind) \cup Named(R, kind)
      BY <1>0, AtAdd
    <3>3. /\ SpendsDone' = SpendsDone \cup SpendsHere
          /\ CreatesDone' = CreatesDone \cup CreatesHere
          /\ EntriesDone' = EntriesDone \cup EntriesHere
      BY <1>0, DoneGrows
    <3> QED BY <3>1, <3>2, <3>3 DEF Recorded
  <2> QED BY <1>0, <1>1, <1>4, <2>1, <2>2 DEF JournalIsChain
<1>6. ViewsKept'
  <2>1. \A i \in 1..Len(chain) : i - 1 \in Nat /\ i - 1 <= Full
    BY <1>0, <1>4
  <2>2. \A i \in 1..Len(chain) : ViewOf(dbJournal', i - 1) = ViewOf(dbJournal, i - 1)
    BY <1>4, <2>1
  <2> QED BY <1>0, <1>1, <2>2 DEF FollowsBlocks, ViewsKept
<1>7. ValidChain(chain') /\ tipHeight' = Full'
  BY <1>0, <1>1 DEF FollowsBlocks
<1> QED BY <1>1, <1>2, <1>5, <1>6, <1>7 DEF FollowsBlocks

(* The state of apply_block in the middle of a block.                      *)
InBlock == TypeOK /\ chain \in Seq(Block) /\ FollowsBlocks /\ Applying

(* Where the transaction in hand stands: it occurs nowhere before, and the *)
(* cursor is not past its own position.                                    *)
LEMMA CurrentIsNew ==
  ASSUME InBlock
  PROVE  /\ \A i \in 1..Full : Current \notin Abstract!TxsOf(chain[i])
         /\ \A i \in DOMAIN TxData[InHand], q \in Nat :
              TxData[InHand][i] = Current /\ Done(i, q) => i = TxsDone + 1 /\ q < job.pos
<1> DEFINE d == TxsDone
           b == InHand
<1>0. /\ CursorOK /\ TypeOK /\ chain \in Seq(Block) /\ Applying /\ job.op = "apply"
      /\ ValidChain(chain) /\ job.pos \in Nat
  BY CurrentType DEF InBlock, FollowsBlocks, Applying
<1>1. /\ Len(chain) \in Nat \ {0} /\ b \in Block /\ TxData[b] \in Seq(Txid) /\ d \in Nat
      /\ d + 1 \in DOMAIN TxData[b] /\ Current = TxData[b][d + 1] /\ b = chain[Len(chain)]
      /\ DOMAIN chain = 1..Len(chain) /\ DOMAIN TxData[b] = 1..Len(TxData[b])
  BY <1>0, CursorPlace DEF InHand
<1>2. Full = Len(chain) - 1
  BY <1>0 DEF Full
<1>3. \A i \in DOMAIN TxData[b] : TxData[b][i] \notin EarlierTxs(chain, Len(chain), i)
  BY <1>0, <1>1 DEF ValidChain
<1>4. ASSUME NEW i \in 1..Full PROVE Current \notin Abstract!TxsOf(chain[i])
  BY <1>1, <1>2, <1>3, EarlierMember
<1>5. ASSUME NEW i \in DOMAIN TxData[b], NEW q \in Nat, TxData[b][i] = Current, Done(i, q)
      PROVE  i = d + 1 /\ q < job.pos
  <2>1. Current \notin EarlierTxs(chain, Len(chain), d + 1)
    BY <1>1, <1>3
  <2>2. i \notin 1..((d + 1) - 1)
    BY <1>1, <1>5, <2>1, EarlierMember
  <2>3. i <= d \/ (i = d + 1 /\ q < job.pos)
    BY <1>5 DEF Done
  <2> HIDE DEF d, b
  <2> QED BY <1>1, <2>2, <2>3
<1> QED BY <1>4, <1>5

(* The history key of the position under the cursor is not recorded.       *)
LEMMA KeyIsNew ==
  ASSUME InBlock, NEW key, key[2] = job.height, key[4] = Current, Place(key) = job.pos
  PROVE  key \notin Named(dbJournal, "History")
<1> SUFFICES ASSUME NEW a \in Records(dbJournal, "History"), a.of = key PROVE FALSE
  BY DEF Named
<1>0. job.op = "apply" /\ CursorOK /\ job.pos \in Nat /\ job.height = Len(chain)
  BY CurrentType DEF InBlock, FollowsBlocks, Applying, CursorOK
<1>1. a.height = Len(chain)
  BY <1>0 DEF InBlock, FollowsBlocks, JournalOK
<1>2. key \in Named(At(dbJournal, Len(chain)), "History")
  BY <1>1 DEF Named, Records, At
<1>3. key \in EntriesDone
  BY <1>0, <1>2 DEF InBlock, FollowsBlocks, JournalIsChain, Recorded
<1>4. PICK i \in DOMAIN TxData[InHand] : key[4] = TxData[InHand][i] /\ Done(i, Place(key))
  BY <1>3 DEF EntriesDone
<1>5. job.pos < job.pos
  BY <1>0, <1>4, CurrentIsNew
<1> QED BY <1>0, <1>5

(* Nor is the output under the cursor.                                     *)
LEMMA OutputIsNew ==
  ASSUME InBlock, NEW v \in Nat, job.pos = Len(Inputs[Current]) + v
  PROVE  <<Current, v>> \notin Named(dbJournal, "Output")
<1> DEFINE o == <<Current, v>>
<1> SUFFICES ASSUME NEW a \in Records(dbJournal, "Output"), a.of = o PROVE FALSE
  BY DEF Named
<1>0. job.op = "apply" /\ CursorOK /\ job.pos \in Nat /\ job.height = Len(chain) /\ o[1] = Current /\ o[2] = v
  BY CurrentType DEF InBlock, FollowsBlocks, Applying, CursorOK
<1>1. o \in Named(At(dbJournal, a.height), "Output")
  BY DEF Named, Records, At
<1>2. CASE a.height \in 1..Full
  <2>1. o \in Abstract!BlockCreates(chain[a.height])
    BY <1>1, <1>2 DEF InBlock, FollowsBlocks, JournalIsChain, Recorded
  <2>2. PICK t \in Abstract!TxsOf(chain[a.height]) : o \in Created(t)
    BY <2>1, BlockMakes
  <2>3. t = Current
    BY <2>2 DEF Created
  <2> QED BY <1>2, <2>2, <2>3, CurrentIsNew
<1>3. CASE a.height = Len(chain)
  <2>1. o \in CreatesDone
    BY <1>0, <1>1, <1>3 DEF InBlock, FollowsBlocks, JournalIsChain, Recorded
  <2>2. PICK i \in DOMAIN TxData[InHand] : o[1] = TxData[InHand][i] /\ Done(i, Len(Inputs[o[1]]) + o[2])
    BY <2>1 DEF CreatesDone
  <2>3. TxData[InHand][i] = Current /\ Done(i, job.pos)
    BY <1>0, <2>2
  <2>4. job.pos < job.pos
    BY <1>0, <2>3, CurrentIsNew
  <2> QED BY <1>0, <2>4
<1>4. a.height \in 1..Full \/ a.height = Len(chain)
  BY <1>0 DEF InBlock, FollowsBlocks, JournalIsChain, Records
<1> QED BY <1>2, <1>3, <1>4

(* What the input under the cursor spends is recorded as an output, and    *)
(* not as spent.                                                           *)
LEMMA SpendIsNew ==
  ASSUME InBlock, job.pos \in DOMAIN Inputs[Current],
         NEW o, o = Inputs[Current][job.pos], o # NullOutPoint
  PROVE  /\ \E a \in Records(dbJournal, "Output") : a.of = o /\ a.height <= job.height
         /\ o \notin Named(dbJournal, "Spend")
<1> DEFINE d == TxsDone
           b == InHand
           earlier == EarlierTxs(chain, Len(chain), d + 1)
<1>0. /\ CursorOK /\ TypeOK /\ chain \in Seq(Block) /\ Applying /\ job.op = "apply"
      /\ ValidChain(chain) /\ JournalIsChain /\ job.pos \in Nat /\ job.height = Len(chain)
  BY CurrentType DEF InBlock, FollowsBlocks, Applying, CursorOK
<1>1. /\ Len(chain) \in Nat \ {0} /\ b \in Block /\ TxData[b] \in Seq(Txid) /\ d \in Nat
      /\ d + 1 \in DOMAIN TxData[b] /\ Current = TxData[b][d + 1] /\ b = chain[Len(chain)]
      /\ DOMAIN chain = 1..Len(chain) /\ DOMAIN TxData[b] = 1..Len(TxData[b])
      /\ Current \in Txid
  BY <1>0, CursorPlace DEF InHand
<1>2. Full = Len(chain) - 1 /\ Full \in Nat
  BY <1>0, <1>1 DEF Full
<1>3. o \in CreatedBy(earlier) \ SpentBy(earlier)
  <2>1. Prevouts(Current) \subseteq CreatedBy(earlier) \ SpentBy(earlier)
    BY <1>0, <1>1 DEF ValidChain
  <2>2. o \in Prevouts(Current)
    BY DEF Prevouts
  <2> QED BY <2>1, <2>2
<1>4. \A x : x \in earlier <=> \/ \E g \in 1..Full : x \in Abstract!TxsOf(chain[g])
                               \/ \E j \in 1..d : x = TxData[b][j]
  <2>1. (d + 1) - 1 = d
    BY <1>1
  <2>2. \A x : x \in earlier <=> \/ \E g \in 1..(Len(chain) - 1) : x \in Abstract!TxsOf(chain[g])
                                 \/ \E j \in 1..((d + 1) - 1) : x = TxData[chain[Len(chain)]][j]
    BY EarlierMember
  <2> HIDE DEF d, b, earlier
  <2> QED BY <1>1, <1>2, <2>1, <2>2
<1> HIDE DEF d, b, earlier
<1>5. \E a \in Records(dbJournal, "Output") : a.of = o /\ a.height <= job.height
  <2>1. PICK t \in earlier : o \in Created(t)
    BY <1>3 DEF CreatedBy
  <2>2. CASE \E g \in 1..Full : t \in Abstract!TxsOf(chain[g])
    <3>1. PICK g \in 1..Full : t \in Abstract!TxsOf(chain[g])
      BY <2>2
    <3>2. o \in Named(At(dbJournal, g), "Output")
      BY <1>0, <2>1, <3>1, BlockMakes DEF JournalIsChain, Recorded
    <3>3. g <= job.height
      BY <1>0, <1>2
    <3> QED BY <3>2, <3>3 DEF Named, Records, At
  <2>3. CASE \E j \in 1..d : t = TxData[b][j]
    <3>1. PICK j \in 1..d : t = TxData[b][j]
      BY <2>3
    <3>2. j \in DOMAIN TxData[b] /\ t \in Abstract!TxsOf(b) /\ j <= d
      BY <1>1, <3>1 DEF Abstract!TxsOf
    <3>3. o[1] = t
      BY <2>1 DEF Created
    <3>4. o \in CreatesDone
      BY <2>1, <3>1, <3>2, <3>3, BlockMakes DEF CreatesDone, Done, d, b
    <3>5. o \in Named(At(dbJournal, job.height), "Output")
      BY <1>0, <3>4 DEF JournalIsChain, Recorded
    <3> QED BY <1>0, <1>1, <3>5 DEF Named, Records, At
  <2> QED BY <1>4, <2>1, <2>2, <2>3
<1>6. o \notin Named(dbJournal, "Spend")
  <2> SUFFICES ASSUME NEW a \in Records(dbJournal, "Spend"), a.of = o PROVE FALSE
    BY DEF Named
  <2>1. o \in Named(At(dbJournal, a.height), "Spend")
    BY DEF Named, Records, At
  <2>2. \A t \in earlier : o \notin Prevouts(t)
    BY <1>3 DEF SpentBy
  <2>3. CASE a.height \in 1..Full
    <3>1. o \in Abstract!BlockSpends(chain[a.height])
      BY <1>0, <2>1, <2>3 DEF JournalIsChain, Recorded
    <3> QED BY <1>4, <2>2, <2>3, <3>1, BlockMakes
  <2>4. CASE a.height = Len(chain)
    <3>1. o \in SpendsDone
      BY <1>0, <2>1, <2>4 DEF JournalIsChain, Recorded
    <3>a. PICK i \in DOMAIN TxData[b] :
            \E q \in DOMAIN Inputs[TxData[b][i]] : Done(i, q) /\ o = Inputs[TxData[b][i]][q]
      BY <3>1 DEF SpendsDone, b
    <3>2. PICK q \in DOMAIN Inputs[TxData[b][i]] : Done(i, q) /\ o = Inputs[TxData[b][i]][q]
      BY <3>a
    <3>3. o \in Prevouts(TxData[b][i])
      BY <3>2 DEF Prevouts
    <3>4. ~(i <= d)
      BY <1>1, <1>4, <2>2, <3>3
    <3>5. i = d + 1 /\ q < job.pos
      BY <3>2, <3>4 DEF Done, d
    <3>6. q = job.pos
      BY <1>1, <3>2, <3>5, DistinctInputs
    <3> QED BY <1>0, <3>5, <3>6
  <2>5. a.height \in 1..Full \/ a.height = Len(chain)
    BY <1>0 DEF JournalIsChain, Records
  <2> QED BY <2>3, <2>4, <2>5
<1> QED BY <1>5, <1>6

(* The fields of a new record, whose key is not taken.                     *)
LEMMA NewRecord ==
  ASSUME InBlock, NEW i \in Nat, NEW kind, NEW of, NEW r, r = Act(i, kind, of)
  PROVE  /\ r.height = job.height /\ r.seq = job.seq + i /\ r.kind = kind /\ r.of = of
         /\ r.height \in Nat /\ r.seq \in Nat
         /\ \A a \in dbJournal : ~SameKey(r, a)
         /\ Keyed(dbJournal)
<1>0. CursorOK /\ job.seq \in Nat /\ job.height \in Nat
  BY CurrentType, HeightAssumption DEF InBlock, FollowsBlocks, Applying
<1>1. Keyed(dbJournal)
  BY JournalKeyed DEF InBlock, TypeOK, StoreTypeOK
<1>2. /\ r.height = job.height /\ r.seq = job.seq + i /\ r.kind = kind /\ r.of = of
      /\ r.height \in Nat /\ r.seq \in Nat
  BY <1>0 DEF Act
<1>3. ASSUME NEW a \in dbJournal PROVE ~SameKey(r, a)
  <2>1. a.height = job.height => a.seq < job.seq
    BY <1>0 DEF CursorOK, At
  <2> QED BY <1>0, <1>1, <1>2, <2>1 DEF SameKey, Keyed
<1> QED BY <1>1, <1>2, <1>3

(* What a step of apply_block leaves alone besides the store.              *)
LEMMA ApplyLeaves ==
  ASSUME FInv, faults = 0, Applying, Work, NEW n \in Nat, job' = Advance(n)
  PROVE  /\ InBlock /\ FollowsPool /\ job.pass = 0
         /\ UNCHANGED <<chain, below, seen>>
         /\ JournalOK(dbJournal) /\ StoreIsJournal /\ MemoryIsStore
<1>1. InBlock /\ FollowsPool
  BY DEF InBlock, FInv, IInv, Follows
<1>2. job.op = "apply" /\ CursorOK
  BY <1>1 DEF InBlock, FollowsBlocks, Applying
<1>3. job'.op = "apply"
  BY <1>1, <1>2, CursorMoves DEF InBlock, Work
<1> QED BY <1>1, <1>2, <1>3 DEF InBlock, FollowsBlocks, CursorOK, Work

(* The head of the loop over the transactions of a block.                  *)
LEMMA IndexTxFollows ==
  ASSUME FInv, faults' = 0, Work, NEW forgotten \in BOOLEAN, NEW k \in 0..2,
         IndexTx(forgotten, k)
  PROVE  faults = 0 /\ Follows'
<1> DEFINE t == Current
           act == Act(0, "Tx", <<t>>)
<1>0. faults = 0 /\ forgotten /\ k = 2
  BY CleanCalls DEF FInv, IInv, IndexTx
<1>1. /\ pendingTxs' = pendingTxs \ {t} /\ dbPending' = dbPending \ {t}
      /\ dbTxs' = dbTxs \cup {t}
      /\ dbJournal' = PutAct(dbJournal, act)
      /\ byHeight' = Push({act})
      /\ job' = Advance(1)
      /\ UNCHANGED <<dbHistory, dbOutputs, dbUtxos, dbTip, history, tipHeight>>
      /\ Applying /\ job.pos = 0
  BY <1>0 DEF IndexTx, Wrote
<1>2. /\ InBlock /\ FollowsPool /\ job.pass = 0
      /\ UNCHANGED <<chain, below, seen>>
      /\ JournalOK(dbJournal) /\ StoreIsJournal /\ MemoryIsStore
  BY <1>0, <1>1, ApplyLeaves
<1>3. /\ act.height = job.height /\ act.seq = job.seq + 0 /\ act.kind = "Tx" /\ act.of = <<t>>
      /\ act.height \in Nat /\ act.seq \in Nat
      /\ (\A a \in dbJournal : ~SameKey(act, a)) /\ Keyed(dbJournal)
  BY <1>2, NewRecord
<1> HIDE DEF act
<1>4. dbJournal' = dbJournal \cup {act}
  BY <1>1, <1>3, PutFresh
<1>5. JournalOK(dbJournal')
  BY <1>2, <1>3, <1>4, OKAdd
<1>6. \A kind : kind # "Tx" => Records(dbJournal', kind) = Records(dbJournal, kind)
                               /\ Named({act}, kind) = {}
  BY <1>3, <1>4 DEF Records, Named
<1>7. StoreIsJournal'
  BY <1>1, <1>2, <1>6 DEF StoreIsJournal, Named
<1>8. MemoryIsStore'
  BY <1>1, <1>2, <1>4 DEF MemoryIsStore, LoadHistory, LoadJournal, Push
<1>9. FollowsBlocks'
  <2>1. SpendsHere = {} /\ CreatesHere = {} /\ EntriesHere = {}
    BY <1>1, <1>2, HereTx DEF InBlock, FollowsBlocks, Applying
  <2> DEFINE R == {act}
  <2>2. \A r \in R : r.height = job.height /\ r.seq \in Nat /\ r.seq < job.seq + 1
    BY <1>2, <1>3, CurrentType DEF InBlock
  <2>3. /\ Named(R, "Spend") = SpendsHere /\ Named(R, "Output") = CreatesHere
        /\ Named(R, "History") = EntriesHere /\ dbJournal' = dbJournal \cup R
    BY <1>4, <1>6, <2>1
  <2>4. TypeOK /\ chain \in Seq(Block) /\ FollowsBlocks /\ Applying /\ 1 \in Nat
        /\ job' = Advance(1) /\ UNCHANGED <<chain, below, seen, tipHeight>>
    BY <1>1, <1>2 DEF InBlock
  <2> HIDE DEF R
  <2> QED BY <1>5, <1>7, <1>8, <2>2, <2>3, <2>4, ApplyFrame
<1>10. FollowsPool'
  <2>1. \A x \in ConfirmedTxids(dbJournal) : x \in ConfirmedTxids(dbJournal')
    BY <1>4 DEF ConfirmedTxids
  <2> QED BY <1>1, <1>2, <2>1 DEF FollowsPool, PendingSkipped, NoConflict
<1> QED BY <1>0, <1>9, <1>10 DEF Follows

(* An input is skipped only when it is null: what a valid block spends is  *)
(* always found.                                                           *)
LEMMA SkipInputFollows ==
  ASSUME FInv, faults' = 0, Work, NEW k \in 0..1, SkipInput(k)
  PROVE  faults = 0 /\ Follows'
<1> DEFINE o == Inputs[Current][job.pos]
<1>a. k = 1 /\ faults = 0
  BY CleanCall DEF FInv, IInv, SkipInput
<1>0. /\ faults = 0 /\ job' = Advance(0) /\ Applying /\ job.pos \in DOMAIN Inputs[Current]
      /\ UNCHANGED <<dbVars, memVars>>
      /\ o = NullOutPoint \/ ~HasOutput(o)
  BY <1>a DEF SkipInput, InputAt
<1>2. /\ InBlock /\ FollowsPool /\ job.pass = 0
      /\ UNCHANGED <<chain, below, seen>>
      /\ JournalOK(dbJournal) /\ StoreIsJournal /\ MemoryIsStore
  BY <1>0, ApplyLeaves
<1>3. o = NullOutPoint
  BY <1>0, <1>2, SpendIsNew DEF HasOutput, StoreIsJournal, Named
<1>4. SpendsHere = {} /\ CreatesHere = {} /\ EntriesHere = {}
  BY <1>0, <1>2, <1>3, HereInput DEF InBlock, FollowsBlocks, Applying
<1>5. FollowsBlocks'
  <2>1. JournalOK(dbJournal') /\ StoreIsJournal' /\ MemoryIsStore' /\ dbJournal' = dbJournal \cup {}
        /\ tipHeight' = tipHeight
    BY <1>0, <1>2 DEF StoreIsJournal, MemoryIsStore, LoadHistory, LoadJournal, dbVars, memVars
  <2>2. Named({}, "Spend") = SpendsHere /\ Named({}, "Output") = CreatesHere
        /\ Named({}, "History") = EntriesHere
    BY <1>4 DEF Named, Records
  <2>3. \A r \in {} : r.height = job.height /\ r.seq \in Nat /\ r.seq < job.seq + 0
    OBVIOUS
  <2> QED BY <1>0, <1>2, <2>1, <2>2, <2>3, ApplyFrame DEF InBlock
<1>6. FollowsPool'
  BY <1>0, <1>2 DEF FollowsPool, PendingSkipped, NoConflict, dbVars, memVars
<1> QED BY <1>0, <1>5, <1>6 DEF Follows

(* An input: its output was stored before it, and is spent only now.       *)
LEMMA IndexInputFollows ==
  ASSUME FInv, faults' = 0, Work, NEW k \in 0..5, IndexInput(k)
  PROVE  faults = 0 /\ Follows'
<1> DEFINE o == Inputs[Current][job.pos]
           key == <<ScriptOf(o), job.height, "Spend", Current, job.pos>>
           listed == Act(0, "History", key)
           spent == Act(1, "Spend", o)
           J == dbJournal \cup {listed}
<1>0. faults = 0 /\ k = 5
  BY CleanCall DEF FInv, IInv, IndexInput
<1>1. /\ o # NullOutPoint /\ HasOutput(o)
      /\ history' = history \cup {<<job.pass, key>>}
      /\ dbHistory' = dbHistory \cup {key}
      /\ dbJournal' = PutAct(PutAct(dbJournal, listed), spent)
      /\ dbUtxos' = dbUtxos \ {o}
      /\ byHeight' = Push({listed, spent})
      /\ job' = Advance(2)
      /\ UNCHANGED <<dbOutputs, dbTxs, dbTip, dbPending, pendingTxs, tipHeight>>
      /\ Applying /\ job.pos \in DOMAIN Inputs[Current]
  BY <1>0 DEF IndexInput, Wrote, InputAt
<1>2. /\ InBlock /\ FollowsPool /\ job.pass = 0
      /\ UNCHANGED <<chain, below, seen>>
      /\ JournalOK(dbJournal) /\ StoreIsJournal /\ MemoryIsStore
  BY <1>0, <1>1, ApplyLeaves
<1>3. /\ listed.height = job.height /\ listed.seq = job.seq + 0 /\ listed.kind = "History"
      /\ listed.of = key /\ listed.height \in Nat /\ listed.seq \in Nat
      /\ (\A a \in dbJournal : ~SameKey(listed, a)) /\ Keyed(dbJournal)
  BY <1>2, NewRecord
<1>4. /\ spent.height = job.height /\ spent.seq = job.seq + 1 /\ spent.kind = "Spend"
      /\ spent.of = o /\ spent.height \in Nat /\ spent.seq \in Nat
      /\ (\A a \in dbJournal : ~SameKey(spent, a))
  BY <1>2, NewRecord
<1>5. SpendsHere = {o} /\ CreatesHere = {} /\ EntriesHere = {key}
  BY <1>1, <1>2, HereInput DEF InBlock, FollowsBlocks, Applying
<1>6. key[2] = job.height /\ key[4] = Current /\ Place(key) = job.pos
  BY DEF Place
<1>7. key \notin Named(dbJournal, "History")
  BY <1>2, <1>6, KeyIsNew
<1>8. /\ \E a \in Records(dbJournal, "Output") : a.of = o /\ a.height <= job.height
      /\ o \notin Named(dbJournal, "Spend")
  BY <1>1, <1>2, SpendIsNew
<1>9. job.seq \in Nat /\ job.height \in Nat /\ CursorOK
  BY <1>2, CurrentType, HeightAssumption DEF InBlock, FollowsBlocks, Applying
<1> HIDE DEF listed, spent, key, o
<1>10. PutAct(dbJournal, listed) = J /\ JournalOK(J) /\ Keyed(J)
  BY <1>2, <1>3, <1>6, <1>7, PutFresh, OKAdd DEF Keyed
<1>11. /\ Named(J, "History") = Named(dbJournal, "History") \cup {key}
       /\ Named(J, "Spend") = Named(dbJournal, "Spend")
       /\ Records(J, "Output") = Records(dbJournal, "Output")
  <2>1. \A kind : Named(J, kind) = IF listed.kind = kind THEN Named(dbJournal, kind) \cup {listed.of}
                                                         ELSE Named(dbJournal, kind)
    BY NamedAdd
  <2>2. \A kind : Records(J, kind) = IF listed.kind = kind THEN Records(dbJournal, kind) \cup {listed}
                                                           ELSE Records(dbJournal, kind)
    BY RecordsAdd
  <2> HIDE DEF J
  <2> QED BY <1>3, <2>1, <2>2
<1>12. \A a \in J : ~SameKey(spent, a)
  BY <1>3, <1>4, <1>9 DEF SameKey
<1>13. \E a \in Records(J, "Output") : a.of = spent.of /\ Precedes(a, spent)
  <2>1. PICK a \in Records(dbJournal, "Output") : a.of = o /\ a.height <= job.height
    BY <1>8
  <2>2. a.height \in Nat /\ a.seq \in Nat /\ (a.height = job.height => a.seq < job.seq)
    BY <1>3, <1>9 DEF Keyed, CursorOK, At, Records
  <2>3. Precedes(a, spent)
    BY <1>4, <1>9, <2>1, <2>2 DEF Precedes
  <2> QED BY <1>4, <1>11, <2>1, <2>3
<1> HIDE DEF J
<1>14. dbJournal' = J \cup {spent} /\ JournalOK(dbJournal')
  <2>1. dbJournal' = J \cup {spent}
    BY <1>1, <1>10, <1>12, PutFresh
  <2>2. spent.of \notin Named(J, spent.kind)
    BY <1>4, <1>8, <1>11
  <2> QED BY <1>4, <1>10, <1>12, <1>13, <2>1, <2>2, OKAdd
<1>15. /\ Named(dbJournal', "History") = Named(dbJournal, "History") \cup {key}
       /\ Named(dbJournal', "Spend") = Named(dbJournal, "Spend") \cup {o}
       /\ Records(dbJournal', "Output") = Records(dbJournal, "Output")
  <2>1. \A kind : Named(J \cup {spent}, kind) = IF spent.kind = kind THEN Named(J, kind) \cup {spent.of}
                                                              ELSE Named(J, kind)
    BY NamedAdd
  <2>2. \A kind : Records(J \cup {spent}, kind) = IF spent.kind = kind THEN Records(J, kind) \cup {spent}
                                                                ELSE Records(J, kind)
    BY RecordsAdd
  <2> QED BY <1>4, <1>11, <1>14, <2>1, <2>2
<1>16. StoreIsJournal'
  BY <1>1, <1>2, <1>15 DEF StoreIsJournal, Named
<1>17. MemoryIsStore'
  <2>1. history' = LoadHistory'
    BY <1>1, <1>2 DEF MemoryIsStore, LoadHistory
  <2>2. byHeight' = LoadJournal'
    BY <1>1, <1>2, <1>14 DEF MemoryIsStore, LoadJournal, Push, J
  <2> QED BY <1>1, <1>2, <2>1, <2>2 DEF MemoryIsStore
<1>18. FollowsBlocks'
  <2> DEFINE R == {listed, spent}
  <2>1. dbJournal' = dbJournal \cup R
    BY <1>14 DEF J
  <2>2. \A r \in R : r.height = job.height /\ r.seq \in Nat /\ r.seq < job.seq + 2
    BY <1>3, <1>4, <1>9
  <2>3. /\ Named(R, "Spend") = SpendsHere /\ Named(R, "Output") = CreatesHere
        /\ Named(R, "History") = EntriesHere
    BY <1>3, <1>4, <1>5 DEF Named, Records
  <2>4. TypeOK /\ chain \in Seq(Block) /\ FollowsBlocks /\ Applying /\ 2 \in Nat
        /\ job' = Advance(2) /\ UNCHANGED <<chain, below, seen, tipHeight>>
    BY <1>1, <1>2 DEF InBlock
  <2> HIDE DEF R
  <2> QED BY <1>14, <1>16, <1>17, <2>1, <2>2, <2>3, <2>4, ApplyFrame
<1>19. FollowsPool'
  <2>1. \A x \in ConfirmedTxids(dbJournal) : x \in ConfirmedTxids(dbJournal')
    BY <1>14 DEF ConfirmedTxids, J
  <2> QED BY <1>1, <1>2, <2>1 DEF FollowsPool, PendingSkipped, NoConflict
<1> QED BY <1>0, <1>18, <1>19 DEF Follows

(* An output: it is stored for the first time, and unspent.                *)
LEMMA IndexOutputFollows ==
  ASSUME FInv, faults' = 0, Work, NEW k \in 0..5, IndexOutput(k)
  PROVE  faults = 0 /\ Follows'
<1> DEFINE o == <<Current, OutputAt>>
           key == <<ScriptOf(o), job.height, "Fund", Current, OutputAt>>
           listed == Act(0, "History", key)
           stored == Act(1, "Output", o)
           J == dbJournal \cup {listed}
<1>0. faults = 0 /\ k = 5
  BY CleanCall DEF FInv, IInv, IndexOutput
<1>1. /\ history' = history \cup {<<job.pass, key>>}
      /\ dbHistory' = dbHistory \cup {key}
      /\ dbOutputs' = PutOutput(dbOutputs, o, job.height)
      /\ dbUtxos' = dbUtxos \cup {o}
      /\ dbJournal' = PutAct(PutAct(dbJournal, listed), stored)
      /\ byHeight' = Push({listed, stored})
      /\ job' = Advance(2)
      /\ UNCHANGED <<dbTxs, dbTip, dbPending, pendingTxs, tipHeight>>
      /\ Applying /\ OutputAt \in DOMAIN Outputs[Current]
  BY <1>0 DEF IndexOutput, Wrote
<1>2. /\ InBlock /\ FollowsPool /\ job.pass = 0
      /\ UNCHANGED <<chain, below, seen>>
      /\ JournalOK(dbJournal) /\ StoreIsJournal /\ MemoryIsStore
  BY <1>0, <1>1, ApplyLeaves
<1>3. /\ listed.height = job.height /\ listed.seq = job.seq + 0 /\ listed.kind = "History"
      /\ listed.of = key /\ listed.height \in Nat /\ listed.seq \in Nat
      /\ (\A a \in dbJournal : ~SameKey(listed, a)) /\ Keyed(dbJournal)
  BY <1>2, NewRecord
<1>4. /\ stored.height = job.height /\ stored.seq = job.seq + 1 /\ stored.kind = "Output"
      /\ stored.of = o /\ stored.height \in Nat /\ stored.seq \in Nat
      /\ (\A a \in dbJournal : ~SameKey(stored, a))
  BY <1>2, NewRecord
<1>5. SpendsHere = {} /\ CreatesHere = {o} /\ EntriesHere = {key}
  BY <1>1, <1>2, HereOutput DEF InBlock, FollowsBlocks, Applying
<1>6. key[2] = job.height /\ key[4] = Current /\ Place(key) = job.pos
      /\ OutputAt \in Nat /\ job.pos = Len(Inputs[Current]) + OutputAt
  <2> DEFINE len == Len(Inputs[Current])
  <2>1. OutputAt = job.pos - len /\ job.pos \in Nat /\ Current \in Txid
    BY <1>2, CurrentType DEF OutputAt, InBlock
  <2>2. len \in Nat /\ OutputAt \in 1..Len(Outputs[Current])
    <3>1. InHand \in Block
      BY <1>1, <1>2, CursorPlace DEF InBlock, FollowsBlocks, Applying
    <3> QED BY <1>1, <2>1, <3>1, BlockType
  <2>3. OutputAt \in Nat /\ job.pos = len + OutputAt
    <3> HIDE DEF len
    <3> QED BY <2>1, <2>2
  <2> QED BY <2>3 DEF Place
<1>7. key \notin Named(dbJournal, "History")
  BY <1>2, <1>6, KeyIsNew
<1>8. o \notin Named(dbJournal, "Output") /\ o \notin Named(dbJournal, "Spend")
  <2>1. o \notin Named(dbJournal, "Output")
    BY <1>2, <1>6, OutputIsNew
  <2> QED BY <1>2, <2>1 DEF JournalOK, Named
<1>9. job.seq \in Nat /\ job.height \in Nat /\ CursorOK
  BY <1>2, CurrentType, HeightAssumption DEF InBlock, FollowsBlocks, Applying
<1> HIDE DEF listed, stored, key, o
<1>10. PutAct(dbJournal, listed) = J /\ JournalOK(J) /\ Keyed(J)
  BY <1>2, <1>3, <1>6, <1>7, PutFresh, OKAdd DEF Keyed
<1>11. /\ Named(J, "History") = Named(dbJournal, "History") \cup {key}
       /\ Named(J, "Spend") = Named(dbJournal, "Spend")
       /\ Records(J, "Output") = Records(dbJournal, "Output")
  <2>1. \A kind : Named(J, kind) = IF listed.kind = kind THEN Named(dbJournal, kind) \cup {listed.of}
                                                         ELSE Named(dbJournal, kind)
    BY NamedAdd
  <2>2. \A kind : Records(J, kind) = IF listed.kind = kind THEN Records(dbJournal, kind) \cup {listed}
                                                           ELSE Records(dbJournal, kind)
    BY RecordsAdd
  <2> HIDE DEF J
  <2> QED BY <1>3, <2>1, <2>2
<1>12. \A a \in J : ~SameKey(stored, a)
  BY <1>3, <1>4, <1>9 DEF SameKey
<1> HIDE DEF J
<1>14. dbJournal' = J \cup {stored} /\ JournalOK(dbJournal')
  <2>1. dbJournal' = J \cup {stored}
    BY <1>1, <1>10, <1>12, PutFresh
  <2>2. stored.of \notin Named(J, stored.kind)
    BY <1>4, <1>8, <1>11 DEF Named
  <2> QED BY <1>4, <1>10, <1>12, <2>1, <2>2, OKAdd
<1>15. /\ Named(dbJournal', "History") = Named(dbJournal, "History") \cup {key}
       /\ Named(dbJournal', "Spend") = Named(dbJournal, "Spend")
       /\ Records(dbJournal', "Output") = Records(dbJournal, "Output") \cup {stored}
       /\ Named(dbJournal', "Output") = Named(dbJournal, "Output") \cup {o}
  <2>1. \A kind : Named(J \cup {stored}, kind) = IF stored.kind = kind THEN Named(J, kind) \cup {stored.of}
                                                              ELSE Named(J, kind)
    BY NamedAdd
  <2>2. \A kind : Records(J \cup {stored}, kind) = IF stored.kind = kind THEN Records(J, kind) \cup {stored}
                                                                ELSE Records(J, kind)
    BY RecordsAdd
  <2>3. Named(J, "Output") = Named(dbJournal, "Output")
    BY <1>11 DEF Named
  <2> QED BY <1>4, <1>11, <1>14, <2>1, <2>2, <2>3
<1>16. StoreIsJournal'
  <2>1. DOMAIN dbOutputs' = DOMAIN dbOutputs \cup {o} /\ dbOutputs'[o] = job.height
        /\ \A x \in DOMAIN dbOutputs : x # o => dbOutputs'[x] = dbOutputs[x]
    BY <1>1 DEF PutOutput
  <2>2. ASSUME NEW a \in Records(dbJournal', "Output") PROVE dbOutputs'[a.of] = a.height
    <3>1. CASE a = stored
      BY <1>4, <2>1, <3>1
    <3>2. CASE a \in Records(dbJournal, "Output")
      <4>1. a.of # o /\ a.of \in DOMAIN dbOutputs /\ dbOutputs[a.of] = a.height
        BY <1>2, <1>8, <3>2 DEF StoreIsJournal, Named
      <4> QED BY <2>1, <4>1
    <3> QED BY <1>15, <3>1, <3>2
  <2> QED BY <1>1, <1>2, <1>8, <1>15, <2>1, <2>2 DEF StoreIsJournal
<1>17. MemoryIsStore'
  <2>1. history' = LoadHistory'
    BY <1>1, <1>2 DEF MemoryIsStore, LoadHistory
  <2>2. byHeight' = LoadJournal'
    BY <1>1, <1>2, <1>14 DEF MemoryIsStore, LoadJournal, Push, J
  <2> QED BY <1>1, <1>2, <2>1, <2>2 DEF MemoryIsStore
<1>18. FollowsBlocks'
  <2> DEFINE R == {listed, stored}
  <2>1. dbJournal' = dbJournal \cup R
    BY <1>14 DEF J
  <2>2. \A r \in R : r.height = job.height /\ r.seq \in Nat /\ r.seq < job.seq + 2
    BY <1>3, <1>4, <1>9
  <2>3. /\ Named(R, "Spend") = SpendsHere /\ Named(R, "Output") = CreatesHere
        /\ Named(R, "History") = EntriesHere
    BY <1>3, <1>4, <1>5 DEF Named, Records
  <2>4. TypeOK /\ chain \in Seq(Block) /\ FollowsBlocks /\ Applying /\ 2 \in Nat
        /\ job' = Advance(2) /\ UNCHANGED <<chain, below, seen, tipHeight>>
    BY <1>1, <1>2 DEF InBlock
  <2> HIDE DEF R
  <2> QED BY <1>14, <1>16, <1>17, <2>1, <2>2, <2>3, <2>4, ApplyFrame
<1>19. FollowsPool'
  <2>1. \A x \in ConfirmedTxids(dbJournal) : x \in ConfirmedTxids(dbJournal')
    BY <1>14 DEF ConfirmedTxids, J
  <2> QED BY <1>1, <1>2, <2>1 DEF FollowsPool, PendingSkipped, NoConflict
<1> QED BY <1>0, <1>18, <1>19 DEF Follows

(* After the last transaction the whole block is recorded.                 *)
LEMMA BlockDone ==
  ASSUME chain \in Seq(Block), CursorOK, job.txs = <<>>
  PROVE  /\ Len(chain) \in Nat \ {0} /\ InHand \in Block
         /\ SpendsDone = Abstract!BlockSpends(InHand)
         /\ CreatesDone = Abstract!BlockCreates(InHand)
         /\ EntriesDone = Abstract!BlockEntries(InHand, Len(chain))
<1> DEFINE txs == TxData[InHand]
<1>1. Len(chain) \in Nat \ {0} /\ InHand \in Block
  BY DEF CursorOK, InHand
<1>2. txs \in Seq(Txid) /\ TxsDone = Len(txs)
  <2>1. txs \in Seq(Txid) /\ Len(txs) \in Nat /\ TxsDone = Len(txs) - 0
    BY <1>1, BlockType DEF TxsDone
  <2> QED BY <2>1
<1>3. \A i \in DOMAIN txs : \A q : Done(i, q)
  BY <1>2 DEF Done
<1>4. \A t \in Abstract!TxsOf(InHand) : \E i \in DOMAIN txs : t = txs[i]
  BY DEF Abstract!TxsOf
<1>5. SpendsDone = Abstract!BlockSpends(InHand)
  <2>1. ASSUME NEW o \in Abstract!BlockSpends(InHand) PROVE o \in SpendsDone
    <3>1. PICK t \in Abstract!TxsOf(InHand) : o \in Prevouts(t)
      BY BlockMakes
    <3>2. PICK q \in DOMAIN Inputs[t] : o = Inputs[t][q]
      BY <3>1 DEF Prevouts
    <3>3. PICK i \in DOMAIN txs : t = txs[i]
      BY <1>4
    <3> QED BY <1>3, <3>2, <3>3 DEF SpendsDone
  <2> QED BY <2>1 DEF SpendsDone
<1>6. CreatesDone = Abstract!BlockCreates(InHand)
  <2>1. ASSUME NEW o \in Abstract!BlockCreates(InHand) PROVE o \in CreatesDone
    <3>1. PICK t \in Abstract!TxsOf(InHand) : o \in Created(t)
      BY BlockMakes
    <3>2. o[1] = t
      BY <3>1 DEF Created
    <3>3. PICK i \in DOMAIN txs : t = txs[i]
      BY <1>4
    <3> QED BY <1>3, <3>2, <3>3 DEF CreatesDone
  <2> QED BY <2>1 DEF CreatesDone
<1>7. EntriesDone = Abstract!BlockEntries(InHand, Len(chain))
  <2>1. ASSUME NEW e \in Abstract!BlockEntries(InHand, Len(chain)) PROVE e \in EntriesDone
    <3>1. PICK t \in Abstract!TxsOf(InHand) : e[4] = t
      BY EntryOf
    <3>2. PICK i \in DOMAIN txs : t = txs[i]
      BY <1>4
    <3> QED BY <1>3, <3>1, <3>2 DEF EntriesDone
  <2> QED BY <2>1 DEF EntriesDone
<1> QED BY <1>1, <1>5, <1>6, <1>7

(* The end of apply_block: the tip moves up to the block just recorded.    *)
LEMMA FinishBlockFollows ==
  ASSUME FInv, faults' = 0, Work, NEW k \in 0..1, FinishBlock(k)
  PROVE  faults = 0 /\ Follows'
<1>0. TypeOK /\ chain \in Seq(Block) /\ job.op = "apply" /\ job.txs = <<>>
  BY DEF FInv, IInv, FinishBlock
<1>1. faults = 0 /\ k = 1
  BY <1>0, CleanCall DEF FinishBlock
<1>2. FollowsBlocks /\ FollowsPool /\ CursorOK /\ JournalIsChain /\ MemoryIsStore
      /\ StoreIsJournal /\ JournalOK(dbJournal) /\ ViewsKept /\ ValidChain(chain)
  BY <1>0, <1>1 DEF FInv, Follows, FollowsBlocks
<1>3. /\ UNCHANGED <<dbHistory, dbOutputs, dbTxs, dbUtxos, dbJournal, dbPending,
                     history, byHeight, pendingTxs, chain, below>>
      /\ job' = Idle /\ tipHeight' = job.height /\ dbTip' = job.height
  BY <1>1 DEF FinishBlock, Work, Wrote
<1>4. job'.op = "idle" /\ Full' = Len(chain) /\ Full = Len(chain) - 1
      /\ job.height = Len(chain)
  BY <1>0, <1>2, <1>3 DEF Idle, Full, CursorOK
<1>5. Len(chain) \in Nat \ {0}
      /\ Recorded(dbJournal, Len(chain), Abstract!BlockSpends(InHand),
                  Abstract!BlockCreates(InHand), Abstract!BlockEntries(InHand, Len(chain)))
  BY <1>0, <1>2, BlockDone DEF JournalIsChain
<1>6. JournalIsChain'
  <2>1. \A a \in dbJournal : a.height \in 1..Len(chain)
    BY <1>2, <1>4, <1>5 DEF JournalIsChain
  <2>2. ASSUME NEW i \in 1..Len(chain)
        PROVE  Recorded(dbJournal, i, Abstract!BlockSpends(chain[i]),
                        Abstract!BlockCreates(chain[i]), Abstract!BlockEntries(chain[i], i))
    <3>1. CASE i = Len(chain)
      BY <1>5, <3>1 DEF InHand
    <3>2. CASE i \in 1..Full
      BY <1>2, <3>2 DEF JournalIsChain
    <3> QED BY <1>4, <1>5, <3>1, <3>2
  <2> QED BY <1>3, <1>4, <2>1, <2>2 DEF JournalIsChain
<1>7. MemoryIsStore' /\ StoreIsJournal' /\ JournalOK(dbJournal') /\ ValidChain(chain')
  BY <1>2, <1>3 DEF MemoryIsStore, LoadHistory, LoadJournal, StoreIsJournal
<1>8. ViewsKept'
  BY <1>2, <1>3, <1>4 DEF ViewsKept
<1>9. FollowsPool'
  BY <1>2, <1>3 DEF FollowsPool, PendingSkipped, NoConflict
<1> QED BY <1>1, <1>3, <1>4, <1>6, <1>7, <1>8, <1>9 DEF Follows, FollowsBlocks

-----------------------------------------------------------------------------
(* Every step.                                                             *)

(* One step of the operation that holds the lock.                          *)
LEMMA WorkFollows ==
  ASSUME FInv, faults' = 0, Work
  PROVE  faults = 0 /\ Follows'
<1>1. ASSUME NEW k \in 0..2, NEW forgotten \in BOOLEAN, IndexTx(forgotten, k)
      PROVE  faults = 0 /\ Follows'
  BY <1>1, IndexTxFollows
<1>2. ASSUME NEW k \in 0..1, SkipInput(k) PROVE faults = 0 /\ Follows'
  BY <1>2, SkipInputFollows
<1>3. ASSUME NEW k \in 0..5, IndexInput(k) PROVE faults = 0 /\ Follows'
  BY <1>3, IndexInputFollows
<1>4. ASSUME NEW k \in 0..5, IndexOutput(k) PROVE faults = 0 /\ Follows'
  BY <1>4, IndexOutputFollows
<1>5. ASSUME NEW k \in 0..1, FinishBlock(k) PROVE faults = 0 /\ Follows'
  BY <1>5, FinishBlockFollows
<1>6. ASSUME NEW e \in job.undo, NEW k \in 0..2, UndoTx(e, k) PROVE faults = 0 /\ Follows'
  BY <1>6, UndoTxFollows
<1>7. ASSUME NEW e \in job.undo, NEW k \in 0..2, UndoHistory(e, k) PROVE faults = 0 /\ Follows'
  BY <1>7, UndoHistoryFollows
<1>8. ASSUME NEW e \in job.undo, NEW k \in 0..4, UndoOutput(e, k) PROVE faults = 0 /\ Follows'
  BY <1>8, UndoOutputFollows
<1>9. ASSUME NEW e \in job.undo, NEW k \in 0..4, UndoSpend(e, k) PROVE faults = 0 /\ Follows'
  BY <1>9, UndoSpendFollows
<1>10. ASSUME NEW k \in 0..1, FinishRollback(k) PROVE faults = 0 /\ Follows'
  BY <1>10, FinishRollbackFollows
<1>11. CASE ApplyStep
  BY <1>1, <1>2, <1>3, <1>4, <1>5, <1>11 DEF ApplyStep
<1>12. CASE RollbackStep
  BY <1>6, <1>7, <1>8, <1>9, <1>10, <1>12 DEF RollbackStep
<1> QED BY <1>11, <1>12 DEF Work

(* A step of the follower is a step of the index, and its chain is made of *)
(* blocks.                                                                 *)
LEMMA FollowerStep ==
  ASSUME FInv, [FNext]_fvars
  PROVE  [Next]_vars /\ chain' \in Seq(Block)
<1>0. chain \in Seq(Block)
  BY DEF FInv
<1>1. ASSUME NEW b \in Block, Connect(b) PROVE Next /\ chain' \in Seq(Block)
  <2>1. Connected(b, Len(chain) + 1) /\ Len(chain) + 1 \in Height /\ chain' = Append(chain, b)
    BY <1>1 DEF Connect
  <2> QED BY <1>0, <2>1 DEF Next, BlockEvent
<1>2. ASSUME Disconnect PROVE [Next]_vars /\ chain' \in Seq(Block)
  <2>1. Disconnected(Len(chain)) /\ chain # <<>> /\ chain' = Abstract!Front(chain)
    BY <1>2 DEF Disconnect
  <2>2. chain' \in Seq(Block)
    BY <1>0, <2>1 DEF Abstract!Front
  <2>3. Len(chain) \in Height
    <3>1. PICK e \in byHeight : e[2].height = Len(chain)
      BY <2>1 DEF Disconnected, EntriesAt
    <3> QED BY <3>1, UndoOf DEF FInv, IInv, TypeOK
  <2> QED BY <2>1, <2>2, <2>3 DEF Next, BlockEvent
<1>3. ASSUME Work PROVE Next /\ chain' \in Seq(Block)
  BY <1>0, <1>3 DEF Work, Next
<1>4. ASSUME Pending PROVE Next /\ chain' \in Seq(Block)
  BY <1>0, <1>4 DEF Pending, Next
<1>5. ASSUME Restart PROVE Next /\ chain' \in Seq(Block)
  BY <1>0, <1>5 DEF Restart, Next
<1>6. ASSUME UNCHANGED fvars PROVE UNCHANGED vars /\ chain' \in Seq(Block)
  BY <1>0, <1>6 DEF fvars
<1> QED BY <1>1, <1>2, <1>3, <1>4, <1>5, <1>6 DEF FNext

(* A step that changes nothing.                                            *)
LEMMA StutterFollows ==
  ASSUME FInv, faults = 0, UNCHANGED fvars
  PROVE  Follows'
<1>1. FollowsBlocks'
  BY SameBlocks DEF FInv, Follows, fvars, vars, dbVars, memVars, blockVars
<1>2. FollowsPool'
  BY DEF FInv, Follows, FollowsPool, PendingSkipped, NoConflict, fvars, vars, dbVars, memVars
<1> QED BY <1>1, <1>2 DEF Follows

(* The invariant is inductive.                                             *)
LEMMA FollowerInv == FInv /\ [FNext]_fvars => FInv'
<1> SUFFICES ASSUME FInv, [FNext]_fvars PROVE FInv'
  OBVIOUS
<1>1. IInv' /\ chain' \in Seq(Block)
  BY FollowerStep, NextInv DEF FInv
<1>2. ASSUME faults' = 0 PROVE Follows'
  <2>1. ASSUME NEW b \in Block, Connect(b) PROVE Follows'
    <3>1. faults = 0
      BY <1>2, <2>1 DEF Connect, Connected
    <3> QED BY <2>1, <3>1, ConnectFollows
  <2>2. CASE Disconnect
    BY <1>2, <2>2, DisconnectFollows DEF Disconnect, Disconnected
  <2>3. CASE Work
    BY <1>2, <2>3, WorkFollows
  <2>4. CASE Pending
    BY <1>2, <2>4, PoolFollows DEF FInv
  <2>5. CASE Restart
    BY <1>2, <2>5, RestartFollows DEF Restart, Reopen
  <2>6. CASE UNCHANGED fvars
    BY <1>2, <2>6, StutterFollows DEF fvars, vars
  <2> QED BY <2>1, <2>2, <2>3, <2>4, <2>5, <2>6 DEF FNext
<1> QED BY <1>1, <1>2 DEF FInv

(* It holds for an index that has just been created.                       *)
LEMMA FollowerInit == FInit => FInv
<1> SUFFICES ASSUME FInit PROVE FInv
  OBVIOUS
<1>1. IInv /\ chain = <<>> /\ below = <<>> /\ job = Idle
  BY InitInv DEF FInit, Init
<1>2. /\ dbHistory = {} /\ dbOutputs = [o \in {} |-> 0] /\ dbUtxos = {} /\ dbJournal = {}
      /\ dbTip = 0 /\ dbPending = {} /\ history = {} /\ byHeight = {} /\ tipHeight = 0
      /\ pendingTxs = {}
  BY DEF FInit, Init, OpenEmpty
<1>3. job.op = "idle" /\ Len(chain) = 0 /\ Full = 0 /\ chain \in Seq(Block) /\ DOMAIN chain = {}
  BY <1>1 DEF Idle, Full
<1>4. JournalOK(dbJournal) /\ StoreIsJournal /\ MemoryIsStore
  BY <1>2 DEF JournalOK, StoreIsJournal, MemoryIsStore, Named, Records, LoadHistory, LoadJournal
<1>5. JournalIsChain /\ ValidChain(chain) /\ ViewsKept
  BY <1>1, <1>2, <1>3 DEF JournalIsChain, ValidChain, ViewsKept
<1>6. FollowsPool
  BY <1>2 DEF FollowsPool, PendingSkipped, NoConflict
<1> QED BY <1>1, <1>2, <1>3, <1>4, <1>5, <1>6 DEF FInv, Follows, FollowsBlocks

-----------------------------------------------------------------------------
(* The theorems.                                                           *)

(* As long as no store call has failed, the journal, the store and the     *)
(* memory are those of the chain.                                          *)
THEOREM FollowerInvariance == FSpec => []FInv
<1>1. FInit => FInv
  BY FollowerInit
<1>2. FInv /\ [FNext]_fvars => FInv'
  BY FollowerInv
<1> QED BY <1>1, <1>2, PTL DEF FSpec

(* Between two events the journal names what the confirmed transactions    *)
(* create and spend.                                                       *)
LEMMA NamedOfChain ==
  ASSUME chain \in Seq(Block), JournalIsChain, job.op = "idle"
  PROVE  /\ Named(dbJournal, "Output") = CreatedBy(Confirmed)
         /\ Named(dbJournal, "Spend") = SpentBy(Confirmed)
<1>0. Full = Len(chain) /\ DOMAIN chain = 1..Len(chain)
  BY DEF Full
<1>1. \A o : o \in CreatedBy(Confirmed) <=> \E t \in Confirmed : o \in Created(t)
  BY DEF CreatedBy
<1>2. \A o : o \in SpentBy(Confirmed) <=> \E t \in Confirmed : o \in Prevouts(t)
  BY DEF SpentBy
<1>3. \A o : /\ o \in CreatedBy(Confirmed) <=>
                  \E i \in DOMAIN chain : o \in Abstract!BlockCreates(chain[i])
             /\ o \in SpentBy(Confirmed) <=>
                  \E i \in DOMAIN chain : o \in Abstract!BlockSpends(chain[i])
  BY <1>1, <1>2, BlockMakes, ConfirmedMember
<1>4. \A kind, o : o \in Named(dbJournal, kind) <=>
                     \E i \in 1..Len(chain) : o \in Named(At(dbJournal, i), kind)
  BY <1>0 DEF JournalIsChain, Named, Records, At
<1>5. \A i \in 1..Len(chain) :
        /\ Named(At(dbJournal, i), "Output") = Abstract!BlockCreates(chain[i])
        /\ Named(At(dbJournal, i), "Spend") = Abstract!BlockSpends(chain[i])
  BY <1>0 DEF JournalIsChain, Recorded
<1>6. \A o : o \in Named(dbJournal, "Output") <=> o \in CreatedBy(Confirmed)
  BY <1>0, <1>3, <1>4, <1>5
<1>7. \A o : o \in Named(dbJournal, "Spend") <=> o \in SpentBy(Confirmed)
  BY <1>0, <1>3, <1>4, <1>5
<1> QED BY <1>6, <1>7

(* The confirmed UTXO set is exactly what the followed chain leaves        *)
(* unspent: apply_block and rollback_height never lose or invent an        *)
(* unspent output, over any sequence of reorgs and restarts.               *)
THEOREM UtxoSetIsExact == FSpec => [](faults = 0 => UtxoSetExact)
<1>1. FInv => (faults = 0 => UtxoSetExact)
  BY NamedOfChain DEF FInv, Follows, FollowsBlocks, StoreIsJournal, UtxoSetExact
<1> QED BY <1>1, FollowerInvariance, PTL

(* A clean restart rebuilds in IndexState::new the very memory it lost.    *)
THEOREM RestartsAreTransparent == FSpec => [](faults = 0 => RestartIsTransparent)
<1>1. FInv => (faults = 0 => RestartIsTransparent)
  BY DEF FInv, Follows, FollowsBlocks, MemoryIsStore, RestartIsTransparent
<1> QED BY <1>1, FollowerInvariance, PTL

(* Every output and history entry in the store has its undo record: no     *)
(* journal key is written twice.                                           *)
THEOREM UndoIsComplete == FSpec => []EveryMutationHasUndo
<1>1. FInv => EveryMutationHasUndo
  <2> SUFFICES ASSUME FInv, faults = 0
               PROVE  /\ \A o \in DOMAIN dbOutputs :
                           \E a \in dbJournal : a.kind = "Output" /\ a.of = o
                      /\ \A key \in dbHistory :
                           \E a \in dbJournal : a.kind = "History" /\ a.of = key
    BY DEF EveryMutationHasUndo
  <2>1. DOMAIN dbOutputs = Named(dbJournal, "Output") /\ dbHistory = Named(dbJournal, "History")
    BY DEF FInv, Follows, FollowsBlocks, StoreIsJournal
  <2> QED BY <2>1 DEF Named, Records
<1> QED BY <1>1, FollowerInvariance, PTL

(* Two pending transactions that spend the same output are parent and      *)
(* child, for any transactions a client may broadcast.                     *)
THEOREM ConflictsAreParents == FSpec => []OnlyParentsConflict
<1>1. FInv => OnlyParentsConflict
  BY DEF FInv, Follows, FollowsPool, NoConflict, Related, OnlyParentsConflict
<1> QED BY <1>1, FollowerInvariance, PTL

(* A restart brings back no transaction that had left the pool.            *)
THEOREM RestartsReviveNothing == FSpec => []RestartRevivesNothing
<1>1. FInv => RestartRevivesNothing
  BY DEF FInv, Follows, FollowsPool, PendingSkipped, RestartRevivesNothing, LoadPending
<1> QED BY <1>1, FollowerInvariance, PTL

-----------------------------------------------------------------------------
(* The refinement: readers see a stack of views.                           *)

(* The view at height n is that at n - 1 with the block recorded at n.     *)
LEMMA ViewGrows ==
  ASSUME NEW J, JournalOK(J), Keyed(J), NEW n \in Nat \ {0}, NEW b,
         Recorded(J, n, Abstract!BlockSpends(b), Abstract!BlockCreates(b),
                  Abstract!BlockEntries(b, n))
  PROVE  /\ ViewOf(J, n) = Abstract!WithBlock(ViewOf(J, n - 1), b)
         /\ Abstract!BlockSpends(b) \subseteq
              ViewOf(J, n - 1).utxos \cup Abstract!BlockCreates(b)
<1> DEFINE S == Abstract!BlockSpends(b)
           C == Abstract!BlockCreates(b)
           E == Abstract!BlockEntries(b, n)
           Lo == UpTo(J, n - 1)
           Hi == At(J, n)
<1>1. Named(Hi, "Spend") = S /\ Named(Hi, "Output") = C /\ Named(Hi, "History") = E
  BY DEF Recorded
<1>2. UpTo(J, n) = Lo \cup Hi
  BY DEF UpTo, At, Keyed
<1>3. \A a \in J : a.height \in Nat /\ a.seq \in Nat
  BY DEF Keyed
<1>4. \A a \in Lo : a \in J /\ a.height < n
  BY <1>3 DEF UpTo
<1>5. \A a \in Hi : a \in J /\ a.height = n
  BY DEF At
<1>6. \A a \in J : a.height < n => a \in Lo
  BY <1>3 DEF UpTo
<1>7. \A a \in J : a.height = n => a \in Hi
  BY DEF At
<1> HIDE DEF S, C, E, Lo, Hi
<1>8. \A kind : Named(UpTo(J, n), kind) = Named(Lo, kind) \cup Named(Hi, kind)
  BY <1>2 DEF Named, Records
<1>9. ASSUME NEW o \in C PROVE o \notin Named(Lo, "Spend")
  <2>1. SUFFICES ASSUME NEW s \in Lo, s.kind = "Spend", s.of = o PROVE FALSE
    BY DEF Named, Records
  <2>2. PICK c \in Hi : c.kind = "Output" /\ c.of = o
    BY <1>1 DEF Named, Records
  <2>3. PICK a \in J : a.kind = "Output" /\ a.of = s.of /\ Precedes(a, s)
    BY <1>4, <2>1 DEF JournalOK, Records
  <2>4. a = c
    BY <1>5, <2>1, <2>2, <2>3 DEF JournalOK
  <2> QED BY <1>3, <1>4, <1>5, <2>2, <2>3, <2>4 DEF Precedes
<1>10. ASSUME NEW o \in S PROVE o \in (Named(Lo, "Output") \ Named(Lo, "Spend")) \cup C
  <2>1. PICK s \in Hi : s.kind = "Spend" /\ s.of = o
    BY <1>1 DEF Named, Records
  <2>2. PICK a \in J : a.kind = "Output" /\ a.of = o /\ Precedes(a, s)
    BY <1>5, <2>1 DEF JournalOK, Records
  <2>3. a.height < n \/ a.height = n
    BY <1>3, <1>5, <2>2 DEF Precedes
  <2>4. CASE a.height = n
    BY <1>1, <1>7, <2>2, <2>4 DEF Named, Records
  <2>5. CASE a.height < n
    <3>1. o \in Named(Lo, "Output")
      BY <1>6, <2>2, <2>5 DEF Named, Records
    <3>2. ASSUME NEW z \in Lo, z.kind = "Spend", z.of = o PROVE FALSE
      <4>1. z = s
        BY <1>4, <1>5, <2>1, <3>2 DEF JournalOK
      <4> QED BY <1>3, <1>4, <1>5, <4>1
    <3>3. o \notin Named(Lo, "Spend")
      BY <3>2 DEF Named, Records
    <3> QED BY <3>1, <3>3
  <2> QED BY <2>3, <2>4, <2>5
<1>11. Named(UpTo(J, n), "Output") \ Named(UpTo(J, n), "Spend")
         = ((Named(Lo, "Output") \ Named(Lo, "Spend")) \cup C) \ S
  BY <1>1, <1>8, <1>9
<1>12. {<<a.of, a.height>> : a \in Records(UpTo(J, n), "Output")}
         = {<<a.of, a.height>> : a \in Records(Lo, "Output")} \cup {<<o, n>> : o \in C}
  <2> DEFINE P == {<<a.of, a.height>> : a \in Records(UpTo(J, n), "Output")}
             Q == {<<a.of, a.height>> : a \in Records(Lo, "Output")}
             R == {<<o, n>> : o \in C}
  <2>1. \A x : x \in P <=> \E a \in Lo \cup Hi : a.kind = "Output" /\ x = <<a.of, a.height>>
    BY <1>2 DEF Records
  <2>2. \A x : x \in Q <=> \E a \in Lo : a.kind = "Output" /\ x = <<a.of, a.height>>
    BY DEF Records
  <2>3. \A x : x \in R <=> \E a \in Hi : a.kind = "Output" /\ x = <<a.of, a.height>>
    BY <1>1, <1>5 DEF Named, Records
  <2> HIDE DEF P, Q, R
  <2>4. P = Q \cup R
    BY <2>1, <2>2, <2>3
  <2> QED BY <2>4 DEF P, Q, R
<1>13. ViewOf(J, n - 1).tip + 1 = n
  BY DEF ViewOf
<1>14. ViewOf(J, n) = Abstract!WithBlock(ViewOf(J, n - 1), b)
  BY <1>1, <1>8, <1>11, <1>12, <1>13 DEF ViewOf, Abstract!WithBlock, S, C, E, Lo
<1>15. S \subseteq ViewOf(J, n - 1).utxos \cup C
  BY <1>10 DEF ViewOf, Lo
<1> QED BY <1>14, <1>15 DEF S, C

(* While the lock is free, the views are read off the journal.             *)
Reads ==
  faults = 0 /\ job.op = "idle" =>
    /\ Views \in Seq(View) /\ Len(Views) = Len(chain) + 1
    /\ \A i \in 1..(Len(chain) + 1) : Views[i] = ViewOf(dbJournal, i - 1)

(* So they are, by the invariant.                                          *)
LEMMA ReadsHold == FInv => Reads
<1> SUFFICES ASSUME FInv, faults = 0, job.op = "idle"
             PROVE  /\ Views \in Seq(View) /\ Len(Views) = Len(chain) + 1
                    /\ \A i \in 1..(Len(chain) + 1) : Views[i] = ViewOf(dbJournal, i - 1)
  BY DEF Reads
<1> QED BY IdleViews DEF FInv, IInv, Follows

(* The operation that holds the lock goes on, or ends as it should.        *)
LEMMA WorkGoesOn ==
  ASSUME FInv, faults = 0, faults' = 0, Work
  PROVE  \/ job.op # "idle" /\ job'.op = job.op
         \/ \E k \in 0..1 : FinishBlock(k)
         \/ \E k \in 0..1 : FinishRollback(k)
<1>0. TypeOK /\ chain \in Seq(Block) /\ (job.op = "apply" => CursorOK) /\ chain' = chain
      /\ job \in JobType
  BY DEF FInv, IInv, Follows, FollowsBlocks, Work, TypeOK
<1>1. ASSUME NEW n \in Nat, Applying, job' = Advance(n)
      PROVE  job.op # "idle" /\ job'.op = job.op
  BY <1>0, <1>1, CursorMoves DEF Applying
<1>2. ASSUME NEW k \in 0..2, NEW forgotten \in BOOLEAN, IndexTx(forgotten, k)
      PROVE  job.op # "idle" /\ job'.op = job.op
  <2>1. k = 2
    BY <1>0, <1>2, CleanCalls DEF IndexTx
  <2> QED BY <1>1, <1>2, <2>1 DEF IndexTx
<1>3. ASSUME NEW k \in 0..1, SkipInput(k) PROVE job.op # "idle" /\ job'.op = job.op
  <2>1. k = 1
    BY <1>0, <1>3, CleanCall DEF SkipInput
  <2> QED BY <1>1, <1>3, <2>1 DEF SkipInput
<1>4. ASSUME NEW k \in 0..5, IndexInput(k) PROVE job.op # "idle" /\ job'.op = job.op
  <2>1. k = 5
    BY <1>0, <1>4, CleanCall DEF IndexInput
  <2> QED BY <1>1, <1>4, <2>1 DEF IndexInput
<1>5. ASSUME NEW k \in 0..5, IndexOutput(k) PROVE job.op # "idle" /\ job'.op = job.op
  <2>1. k = 5
    BY <1>0, <1>5, CleanCall DEF IndexOutput
  <2> QED BY <1>1, <1>5, <2>1 DEF IndexOutput
<1>6. ASSUME NEW e, NEW kind, NEW k, NEW calls, Undo(e, kind, k, calls)
      PROVE  job.op # "idle" /\ job'.op = job.op
  <2>1. k = calls
    BY <1>0, <1>6, CleanCall DEF Undo
  <2> QED BY <1>0, <1>6, <2>1 DEF Undo, JobType
<1>7. ASSUME NEW e, NEW k, UndoTx(e, k) \/ UndoHistory(e, k) \/ UndoOutput(e, k) \/ UndoSpend(e, k)
      PROVE  job.op # "idle" /\ job'.op = job.op
  BY <1>6, <1>7 DEF UndoTx, UndoHistory, UndoOutput, UndoSpend
<1> QED BY <1>2, <1>3, <1>4, <1>5, <1>7 DEF Work, ApplyStep, RollbackStep

(* The last step of apply_block shows the whole block to readers at once.  *)
LEMMA BlockAppears ==
  ASSUME FInv, Reads', faults = 0, faults' = 0, Work, NEW k \in 0..1, FinishBlock(k)
  PROVE  Abstract!ChainNext
<1> DEFINE n == Len(chain)
<1>0. TypeOK /\ chain \in Seq(Block) /\ job.op = "apply" /\ job.txs = <<>> /\ FollowsBlocks
  BY DEF FInv, IInv, Follows, FinishBlock
<1>1. CursorOK /\ JournalOK(dbJournal) /\ JournalIsChain /\ ViewsKept /\ Keyed(dbJournal)
  BY <1>0, JournalKeyed DEF FollowsBlocks, TypeOK, StoreTypeOK
<1>2. /\ n \in Nat \ {0} /\ InHand \in Block
      /\ Recorded(dbJournal, n, Abstract!BlockSpends(InHand),
                  Abstract!BlockCreates(InHand), Abstract!BlockEntries(InHand, n))
  BY <1>0, <1>1, BlockDone DEF JournalIsChain
<1>3. /\ below' = below /\ chain' = chain /\ dbJournal' = dbJournal /\ job'.op = "idle"
      /\ Views = below /\ Views' = Append(below, CurrentView')
  BY <1>0, <1>1 DEF FinishBlock, Work, Views, ViewsKept, Idle
<1>4. /\ below \in Seq(View) /\ Len(below) = n /\ below[n] = ViewOf(dbJournal, n - 1)
  BY <1>1, <1>2 DEF ViewsKept
<1>5. CurrentView' = ViewOf(dbJournal, n)
  <2>1. Views'[n + 1] = ViewOf(dbJournal, (n + 1) - 1)
    BY <1>2, <1>3 DEF Reads
  <2>2. (n + 1) - 1 = n
    BY <1>2
  <2>3. Views'[n + 1] = CurrentView'
    BY <1>3, <1>4
  <2> QED BY <2>1, <2>2, <2>3
<1>6. /\ ViewOf(dbJournal, n) = Abstract!WithBlock(below[n], InHand)
      /\ Abstract!BlockSpends(InHand) \subseteq
           below[n].utxos \cup Abstract!BlockCreates(InHand)
  BY <1>1, <1>2, <1>4, ViewGrows
<1>7. Abstract!ConnectBlock(InHand)
  BY <1>3, <1>4, <1>5, <1>6 DEF Abstract!ConnectBlock, Abstract!Last
<1> QED BY <1>2, <1>7 DEF Abstract!ChainNext

(* The last step of rollback_height brings back the view from before.      *)
LEMMA BlockDisappears ==
  ASSUME FInv, Reads', faults = 0, faults' = 0, Work, NEW k \in 0..1, FinishRollback(k)
  PROVE  Abstract!ChainNext
<1> DEFINE n == Len(chain)
<1>0. chain \in Seq(Block) /\ job.op = "rollback" /\ ViewsKept /\ n \in Nat
  BY DEF FInv, Follows, FollowsBlocks, FinishRollback
<1>1. chain' = chain /\ dbJournal' = dbJournal /\ job'.op = "idle" /\ Views = seen
  BY <1>0 DEF FinishRollback, Work, Views, Idle
<1>2. /\ seen \in Seq(View) /\ Len(seen) = n + 2
      /\ \A i \in 1..(n + 1) : seen[i] = ViewOf(dbJournal, i - 1)
  BY <1>0 DEF ViewsKept
<1>3. /\ Views' \in Seq(View) /\ Len(Views') = n + 1
      /\ \A i \in 1..(n + 1) : Views'[i] = ViewOf(dbJournal, i - 1)
  BY <1>1 DEF Reads
<1>4. /\ Abstract!Front(seen) \in Seq(View) /\ Len(Abstract!Front(seen)) = n + 1
      /\ \A i \in 1..(n + 1) : Abstract!Front(seen)[i] = seen[i]
  BY <1>0, <1>2 DEF Abstract!Front
<1>5. Views' = Abstract!Front(seen)
  <2> DEFINE s == Views'
             t == Abstract!Front(seen)
  <2>1. s \in Seq(View) /\ t \in Seq(View) /\ Len(s) = Len(t)
        /\ \A i \in 1..Len(s) : s[i] = t[i]
    BY <1>2, <1>3, <1>4
  <2> HIDE DEF s, t
  <2>2. s = t
    BY <2>1, SeqEqual
  <2> QED BY <2>2 DEF s, t
<1>6. Len(seen) > 1
  BY <1>0, <1>2
<1> QED BY <1>1, <1>5, <1>6 DEF Abstract!ChainNext, Abstract!DisconnectBlock

(* Every step is a step of the abstract index, or readers see no change.   *)
LEMMA StepRefines ==
  ASSUME FInv, Reads', faults = 0, faults' = 0, [FNext]_fvars
  PROVE  [Abstract!ChainNext]_Views
<1>1. ASSUME NEW b \in Block, Connect(b) PROVE UNCHANGED Views
  BY <1>1 DEF Connect, Connected, Views, Idle
<1>2. ASSUME Disconnect PROVE UNCHANGED Views
  BY <1>2 DEF Disconnect, Disconnected, Views, Idle
<1>3. ASSUME Work PROVE [Abstract!ChainNext]_Views
  <2>1. CASE job.op # "idle" /\ job'.op = job.op
    BY <1>3, <2>1 DEF Work, Views
  <2>2. ASSUME NEW k \in 0..1, FinishBlock(k) PROVE Abstract!ChainNext
    BY <1>3, <2>2, BlockAppears
  <2>3. ASSUME NEW k \in 0..1, FinishRollback(k) PROVE Abstract!ChainNext
    BY <1>3, <2>3, BlockDisappears
  <2> QED BY <1>3, <2>1, <2>2, <2>3, WorkGoesOn
<1>4. ASSUME UNCHANGED <<dbUtxos, dbOutputs, history, tipHeight, job, below, seen>>
      PROVE  UNCHANGED Views
  BY <1>4 DEF Views, CurrentView
<1>5. ASSUME Pending PROVE UNCHANGED Views
  BY <1>4, <1>5 DEF Pending, PendingStep, TransactionBroadcast, TxStatusChange, Track, Restore,
                    Forget, ForgetChain
<1>6. ASSUME Restart PROVE UNCHANGED Views
  <2>1. job.op = "idle" /\ MemoryIsStore
    BY <1>6 DEF FInv, Follows, FollowsBlocks, Restart
  <2>2. /\ history' = history /\ tipHeight' = tipHeight /\ job'.op = "idle"
        /\ UNCHANGED <<dbUtxos, dbOutputs, below>>
    BY <1>6, <2>1 DEF Restart, Reopen, MemoryIsStore, Idle, dbVars
  <2> QED BY <2>1, <2>2 DEF Views, CurrentView
<1>7. ASSUME UNCHANGED fvars PROVE UNCHANGED Views
  BY <1>4, <1>7 DEF fvars, vars, dbVars, memVars
<1> QED BY <1>1, <1>2, <1>3, <1>5, <1>6, <1>7 DEF FNext

(* At the start readers see the empty view.                                *)
LEMMA InitRefines == FInit => Abstract!ChainInit
<1> SUFFICES ASSUME FInit PROVE Abstract!ChainInit
  OBVIOUS
<1>1. /\ dbUtxos = {} /\ DOMAIN dbOutputs = {} /\ history = {} /\ tipHeight = 0
      /\ job.op = "idle" /\ below = <<>>
  BY DEF FInit, Init, OpenEmpty, Idle
<1>2. {<<o, dbOutputs[o]>> : o \in DOMAIN dbOutputs} = {} /\ {e[2] : e \in history} = {}
  BY <1>1
<1>3. CurrentView = Abstract!EmptyView
  BY <1>1, <1>2 DEF CurrentView, Abstract!EmptyView
<1>4. Append(<<>>, Abstract!EmptyView) = <<Abstract!EmptyView>>
  OBVIOUS
<1> QED BY <1>1, <1>3, <1>4 DEF Views, Abstract!ChainInit

(* The index implements the stack of views: a block appears at once and    *)
(* its rollback brings back the earlier view, field for field, as long as  *)
(* every store call gets through.                                          *)
THEOREM Refinement == FSpec /\ [](faults = 0) => FollowsChain
<1>1. FInit => Abstract!ChainInit
  BY InitRefines
<1>2. FInv => Reads
  BY ReadsHold
<1>3. FInv /\ Reads' /\ faults = 0 /\ (faults = 0)' /\ [FNext]_fvars => [Abstract!ChainNext]_Views
  BY StepRefines
<1> QED BY <1>1, <1>2, <1>3, FollowerInvariance, PTL DEF FSpec, FollowsChain, Abstract!ChainSpec

(* The index that follows a chain is an index: what is proved of Spec for  *)
(* block events in any order holds of it as well.                          *)
THEOREM FollowerIsIndex == FSpec => Spec
<1>1. FInit => Init
  BY DEF FInit
<1>2. FInv /\ [FNext]_fvars => [Next]_vars
  BY FollowerStep
<1> QED BY <1>1, <1>2, FollowerInvariance, PTL DEF FSpec, Spec
=============================================================================

-------------------------- MODULE IndexStateProofs --------------------------
(***************************************************************************)
(* Proofs about IndexState, for any transactions, blocks, heights and      *)
(* bounds, and any order of block events, store failures and restarts.     *)
(***************************************************************************)
EXTENDS IndexState, FiniteSetTheorems, TLAPS

USE DEF RealOutPoint, Exists

-----------------------------------------------------------------------------
(* Induction, for a set of the numbers or of the sets that have the        *)
(* property in question.                                                   *)

(* A set that has 0 and the successor of each of its members up to n has   *)
(* all numbers up to n.                                                    *)
LEMMA NumbersUpTo ==
  ASSUME NEW n \in Nat, NEW S, 0 \in S,
         \A i \in 0..(n - 1) : i \in S => i + 1 \in S
  PROVE  \A i \in 0..n : i \in S
<1> DEFINE R == {ss \in Nat \X Nat : ss[1] < ss[2]}
           T == {i \in 0..n : i \notin S}
<1>1. IsWellFoundedOn(R, Nat)
  <2>1. IsWellFoundedOn(OpToRel(<, Nat), Nat)
    BY NatLessThanWellFounded
  <2>2. OpToRel(<, Nat) = R
    BY DEF OpToRel
  <2> QED BY <2>1, <2>2
<1> SUFFICES ASSUME T # {} PROVE FALSE
  OBVIOUS
<1>2. T \subseteq Nat
  OBVIOUS
<1> HIDE DEF R, T
<1>3. PICK x \in T : \A y \in T : ~(<<y, x>> \in R)
  BY <1>1, <1>2, WFMin
<1>4. x \in 0..n /\ x \notin S
  BY <1>3 DEF T
<1>5. x # 0
  BY <1>4
<1>6. x - 1 \in 0..(n - 1) /\ x - 1 \notin S
  BY <1>4, <1>5
<1>7. x - 1 \in T
  BY <1>6 DEF T
<1>8. <<x - 1, x>> \in Nat \X Nat /\ <<x - 1, x>>[1] = x - 1 /\ <<x - 1, x>>[2] = x
  BY <1>4, <1>6
<1>9. <<x - 1, x>> \in R
  BY <1>4, <1>8 DEF R
<1> QED BY <1>3, <1>7, <1>9

(* Induction on the size of a subset of a finite set, for a set P of       *)
(* subsets.                                                                *)
LEMMA SmallestFirst ==
  ASSUME NEW F, IsFiniteSet(F), NEW P,
         \A S \in SUBSET F : (\A x \in S : S \ {x} \in P) => S \in P
  PROVE  \A S \in SUBSET F : S \in P
<1> DEFINE T == {n \in Nat : \A S \in SUBSET F : Cardinality(S) = n => S \in P}
<1>1. \A S \in SUBSET F : IsFiniteSet(S) /\ Cardinality(S) \in Nat
  BY FS_Subset, FS_CardinalityType
<1>2. 0 \in T
  BY <1>1, FS_EmptySet
<1>3. ASSUME NEW n \in Nat, n \in T PROVE n + 1 \in T
  <2>1. ASSUME NEW S \in SUBSET F, Cardinality(S) = n + 1, NEW x \in S PROVE S \ {x} \in P
    <3>1. Cardinality(S \ {x}) = (n + 1) - 1
      BY <1>1, <2>1, FS_RemoveElement
    <3> QED BY <1>3, <3>1
  <2> QED BY <2>1
<1> HIDE DEF T
<1>4. ASSUME NEW n \in Nat PROVE n \in T
  <2>1. \A i \in 0..(n - 1) : i \in T => i + 1 \in T
    BY <1>3
  <2>2. \A i \in 0..n : i \in T
    BY <1>2, <2>1, NumbersUpTo
  <2> QED BY <2>2
<1> QED BY <1>1, <1>4 DEF T

-----------------------------------------------------------------------------
(* The constants.                                                          *)

(* What a transaction spends are outpoints, the null one left out.         *)
LEMMA PrevoutsType ==
  ASSUME NEW t \in Txid
  PROVE  Prevouts(t) \subseteq OutPoint
BY TransactionsAssumption DEF Prevouts

(* Inputs are numbered from 1 and hold outpoints or the null outpoint.     *)
LEMMA InputType ==
  ASSUME NEW t \in Txid, NEW i \in DOMAIN Inputs[t]
  PROVE  i \in Nat \ {0} /\ Inputs[t][i] \in OutPoint \cup {NullOutPoint}
BY TransactionsAssumption

(* An output of a transaction pays a script and is a real outpoint.        *)
LEMMA OutputType ==
  ASSUME NEW t \in Txid, NEW v \in DOMAIN Outputs[t]
  PROVE  /\ v \in Nat \ {0}
         /\ Outputs[t][v].script \in ScriptHash
         /\ <<t, v>> \in RealOutPoint
<1>1. Outputs[t] \in Seq([script : ScriptHash, value : Nat])
  BY TransactionsAssumption
<1>2. \A T, s : s \in Seq(T) => \A i \in DOMAIN s : i \in Nat \ {0} /\ s[i] \in T
  OBVIOUS
<1>3. v \in Nat \ {0} /\ Outputs[t][v] \in [script : ScriptHash, value : Nat]
  BY <1>1, <1>2, Zenon
<1> QED BY <1>3 DEF OutPoint

(* Every outpoint that some transaction creates pays a script.             *)
LEMMA ScriptOfType ==
  ASSUME NEW o \in RealOutPoint
  PROVE  ScriptOf(o) \in ScriptHash
<1>1. o = <<o[1], o[2]>> /\ o[1] \in Txid /\ o[2] \in DOMAIN Outputs[o[1]]
  BY DEF OutPoint
<1> QED BY <1>1, OutputType DEF ScriptOf

(* What a transaction creates are real outpoints.                          *)
LEMMA CreatedType ==
  ASSUME NEW t \in Txid
  PROVE  Created(t) \subseteq RealOutPoint
BY OutputType DEF Created

(* The view of unspent pending outputs holds only real outpoints.          *)
LEMMA PendingViewType ==
  ASSUME NEW P, P \subseteq Txid
  PROVE  PendingView(P) \subseteq RealOutPoint
BY CreatedType DEF PendingView, CreatedBy

(* An eviction chain of known transactions has only such members.          *)
LEMMA ChainType ==
  ASSUME NEW P, P \subseteq Txid, NEW t \in Txid
  PROVE  Chain(P, t) \subseteq Txid
BY DEF Chain

(* The scripts that a transaction touches are scripts.                     *)
LEMMA TouchedType ==
  ASSUME NEW P, P \subseteq Txid,
         NEW view, view \subseteq RealOutPoint,
         NEW stored, stored \subseteq RealOutPoint,
         NEW t \in Txid
  PROVE  TouchedScripts(P, view, stored, t) \subseteq ScriptHash
<1>1. InputScripts(P, view, stored, t) \subseteq ScriptHash
  <2> SUFFICES ASSUME NEW o \in Prevouts(t), PendingHas(P, view, o) \/ o \in stored
               PROVE  ScriptOf(o) \in ScriptHash
    BY DEF InputScripts
  <2>1. o \in RealOutPoint
    BY PrevoutsType DEF PendingHas
  <2> QED BY <2>1, ScriptOfType
<1>2. OutputScripts(t) \subseteq ScriptHash
  <2> SUFFICES ASSUME NEW v \in DOMAIN Outputs[t]
               PROVE  Outputs[t][v].script \in ScriptHash
    BY DEF OutputScripts
  <2> QED BY OutputType
<1> QED BY <1>1, <1>2 DEF TouchedScripts

(* So are those of a transaction with its pending descendants.             *)
LEMMA AffectedType ==
  ASSUME NEW P, P \subseteq Txid,
         NEW view, view \subseteq RealOutPoint,
         NEW stored, stored \subseteq RealOutPoint,
         NEW t \in Txid
  PROVE  AffectedScripts(P, view, stored, t) \subseteq ScriptHash
BY ChainType, TouchedType DEF AffectedScripts

-----------------------------------------------------------------------------
(* The store's trees.                                                      *)

(* Inserting into the outputs tree: its new domain and its type.           *)
LEMMA PutOutputType ==
  ASSUME NEW f, NEW o, NEW h \in Height, f \in [DOMAIN f -> Height]
  PROVE  /\ DOMAIN PutOutput(f, o, h) = DOMAIN f \cup {o}
         /\ PutOutput(f, o, h) \in [DOMAIN PutOutput(f, o, h) -> Height]
BY DEF PutOutput

(* Deleting from the outputs tree: its new domain and its type.            *)
LEMMA DropOutputType ==
  ASSUME NEW f, NEW o, f \in [DOMAIN f -> Height]
  PROVE  /\ DOMAIN DropOutput(f, o) = DOMAIN f \ {o}
         /\ DropOutput(f, o) \in [DOMAIN DropOutput(f, o) -> Height]
BY DEF DropOutput

(* Inserting a record keeps the journal well typed.                        *)
LEMMA PutActType ==
  ASSUME NEW J, J \subseteq JournalAct, NEW a \in JournalAct
  PROVE  PutAct(J, a) \subseteq JournalAct
BY DEF PutAct, DropAct

(* Deleting a record keeps the journal well typed.                         *)
LEMMA DropActType ==
  ASSUME NEW J, J \subseteq JournalAct, NEW a
  PROVE  DropAct(J, a) \subseteq JournalAct
BY DEF DropAct

(* What an undo record names, by its kind.                                 *)
LEMMA UndoOf ==
  ASSUME NEW a \in JournalAct
  PROVE  /\ a.height \in Height
         /\ a.seq \in Nat
         /\ a.kind = "Tx" => a.of[1] \in Txid
         /\ a.kind = "History" => a.of \in HistoryKey
         /\ a.kind \in {"Output", "Spend"} => a.of \in OutPoint
BY DEF JournalAct

-----------------------------------------------------------------------------
(* Pending transactions are in the pending list on disk.                   *)
PendingIsPersisted == pendingTxs \subseteq dbPending

(* The inductive invariant is the conjunction of what is proved: each part *)
(* needs the typing, and UtxoHasOutput is inductive given that.            *)
IInv == TypeOK /\ UtxoHasOutput /\ PendingViewFresh /\ PendingIsPersisted

USE DEF StoreTypeOK, dbVars, memVars, vars

(* A fresh database satisfies the invariant.                               *)
LEMMA InitInv == Init => IInv
<1> SUFFICES ASSUME Init PROVE IInv
  OBVIOUS
<1>1. TypeOK
  BY IndexStateAssumption DEF Init, OpenEmpty, TypeOK, JobType, Idle
<1>2. UtxoHasOutput /\ PendingIsPersisted
  BY DEF Init, OpenEmpty, UtxoHasOutput, PendingIsPersisted
<1>3. PendingViewFresh
  BY DEF Init, PendingViewFresh, PendingView, SpentBy, CreatedBy
<1> QED BY <1>1, <1>2, <1>3 DEF IInv

(* The released lock is a well-typed job.                                  *)
LEMMA IdleType == Idle \in JobType /\ Idle.op = "idle"
BY DEF Idle, JobType

(* IndexState::new rebuilds a memory that satisfies the invariant.         *)
LEMMA ReopenInv == IInv /\ Reopen => IInv'
<1> SUFFICES ASSUME IInv, Reopen PROVE IInv'
  OBVIOUS
<1> USE DEF IInv, Reopen
<1>1. pendingTxs' \subseteq dbPending /\ pendingTxs' \subseteq Txid
  BY DEF LoadPending, TypeOK
<1>2. TypeOK'
  <2>1. StoreTypeOK'
    BY DEF TypeOK
  <2>2. history' \subseteq Nat \X HistoryKey /\ byHeight' \subseteq Nat \X JournalAct
    BY DEF TypeOK, LoadHistory, LoadJournal
  <2>3. pendingOutputs' \subseteq RealOutPoint
    BY <1>1, PendingViewType
  <2> QED BY <1>1, <2>1, <2>2, <2>3, IdleType DEF TypeOK
<1>3. UtxoHasOutput'
  BY DEF UtxoHasOutput
<1>4. PendingViewFresh' /\ PendingIsPersisted'
  BY <1>1 DEF PendingViewFresh, PendingIsPersisted
<1> QED BY <1>2, <1>3, <1>4

-----------------------------------------------------------------------------
(* Applying a block.                                                       *)

(* Entering apply_block preserves the invariant.                           *)
LEMMA ConnectedInv ==
  ASSUME NEW b \in Block, NEW h \in Height
  PROVE  IInv /\ Connected(b, h) => IInv'
<1> SUFFICES ASSUME IInv, Connected(b, h) PROVE IInv'
  OBVIOUS
<1> USE DEF IInv, Connected
<1>1. PICK p \in Pass : job' = [Idle EXCEPT !.op = "apply", !.height = h, !.pass = p,
                                             !.txs = TxData[b]]
  OBVIOUS
<1>2. job' \in JobType /\ job'.height \in Height
  <2>1. job' = [op |-> "apply", height |-> h, pass |-> p, txs |-> TxData[b],
                pos |-> 0, seq |-> 0, undo |-> {}]
    BY <1>1 DEF Idle
  <2>2. TxData[b] \in Seq(Txid) /\ h \in Nat /\ p \in Nat
    BY TransactionsAssumption, HeightAssumption, IndexStateAssumption DEF Pass
  <2> QED BY <2>1, <2>2 DEF JobType
<1>3. TypeOK'
  BY <1>2 DEF TypeOK
<1>4. UtxoHasOutput' /\ PendingViewFresh' /\ PendingIsPersisted'
  BY DEF UtxoHasOutput, PendingViewFresh, PendingIsPersisted
<1> QED BY <1>3, <1>4

(* The transaction under the cursor is a transaction.                      *)
LEMMA CurrentType ==
  ASSUME TypeOK, Applying
  PROVE  /\ Current \in Txid
         /\ Tail(job.txs) \in Seq(Txid)
         /\ job.height \in Height
         /\ job.pass \in Nat /\ job.pos \in Nat /\ job.seq \in Nat
BY DEF TypeOK, Applying, JobType, Current

(* Moving the cursor of apply_block keeps the job well typed.              *)
LEMMA AdvanceType ==
  ASSUME TypeOK, Applying, NEW n \in Nat
  PROVE  Advance(n) \in JobType /\ Advance(n).height \in Height
<1> DEFINE on == [job EXCEPT !.pos = @ + 1, !.seq = @ + n]
           over == [job EXCEPT !.pos = 0, !.seq = @ + n, !.txs = Tail(@)]
<1>0. /\ job \in JobType
      /\ job.height \in Height /\ job.pos + 1 \in Nat /\ job.seq + n \in Nat
      /\ Tail(job.txs) \in Seq(Txid)
  BY CurrentType DEF TypeOK
<1>1. on \in JobType /\ on.height \in Height
  BY <1>0 DEF JobType
<1>2. over \in JobType /\ over.height \in Height
  BY <1>0 DEF JobType
<1> QED BY <1>1, <1>2, Zenon DEF Advance

(* A new undo record of the block in hand is well typed.                   *)
LEMMA ActType ==
  ASSUME TypeOK, Applying, NEW i \in Nat
  PROVE  /\ \A t \in Txid : Act(i, "Tx", <<t>>) \in JournalAct
         /\ \A key \in HistoryKey : Act(i, "History", key) \in JournalAct
         /\ \A o \in OutPoint : /\ Act(i, "Output", o) \in JournalAct
                                /\ Act(i, "Spend", o) \in JournalAct
BY CurrentType DEF Act, JournalAct

(* Pushing records keeps the in-memory undo records well typed.            *)
LEMMA PushType ==
  ASSUME TypeOK, Applying, NEW acts, acts \subseteq JournalAct
  PROVE  Push(acts) \subseteq Nat \X JournalAct
BY CurrentType DEF Push, TypeOK

(* Pushing an entry keeps the in-memory history well typed.                *)
LEMMA HistoryPush ==
  ASSUME TypeOK, Applying, NEW key \in HistoryKey
  PROVE  history \cup {<<job.pass, key>>} \subseteq Nat \X HistoryKey
BY CurrentType DEF TypeOK

(* A step that counts its failures respects the bound on them.             *)
LEMMA FailType ==
  ASSUME TypeOK, NEW n \in Nat, Fail(n)
  PROVE  faults' \in 0..MaxFaults
BY IndexStateAssumption DEF TypeOK, Fail

(* A call fails a natural number of times.                                 *)
LEMMA FailuresType == \A ok \in BOOLEAN : Failures(ok) \in Nat
BY DEF Failures

(* The head of apply_block's loop preserves the invariant.                 *)
LEMMA IndexTxInv ==
  ASSUME NEW forgotten \in BOOLEAN, NEW k \in 0..2
  PROVE  IInv /\ IndexTx(forgotten, k) => IInv'
<1> SUFFICES ASSUME IInv, IndexTx(forgotten, k) PROVE IInv'
  OBVIOUS
<1> DEFINE t == Current
           act == Act(0, "Tx", <<t>>)
<1>0. TypeOK /\ Applying
  BY DEF IInv, IndexTx
<1>1. t \in Txid /\ act \in JournalAct
  BY <1>0, CurrentType, ActType
<1>2. /\ pendingTxs' = pendingTxs \ {t}
      /\ pendingOutputs' = PendingView(pendingTxs')
      /\ dbPending' = IF forgotten THEN dbPending \ {t} ELSE dbPending
      /\ dbTxs' = Wrote(k, 1, dbTxs \cup {t}, dbTxs)
      /\ dbJournal' = Wrote(k, 2, PutAct(dbJournal, act), dbJournal)
      /\ byHeight' = Wrote(k, 2, Push({act}), byHeight)
      /\ job' = IF k = 2 THEN Advance(1) ELSE Idle
      /\ Fail(Failures(forgotten) + Failures(k = 2))
      /\ affected' = {}
      /\ UNCHANGED <<dbHistory, dbOutputs, dbUtxos, dbTip, history, tipHeight>>
  BY DEF IndexTx
<1>3. TypeOK'
  <2>1. pendingTxs' \subseteq Txid /\ dbPending' \subseteq Txid /\ dbTxs' \subseteq Txid
    BY <1>0, <1>1, <1>2 DEF TypeOK, Wrote
  <2>2. pendingOutputs' \subseteq RealOutPoint
    BY <1>2, <2>1, PendingViewType
  <2>3. dbJournal' \subseteq JournalAct
    BY <1>0, <1>1, <1>2, PutActType DEF TypeOK, Wrote
  <2>4. byHeight' \subseteq Nat \X JournalAct
    <3>1. Push({act}) \subseteq Nat \X JournalAct
      BY <1>0, <1>1, PushType
    <3> QED BY <1>0, <1>2, <3>1 DEF TypeOK, Wrote
  <2>5. job' \in JobType /\ (job'.op # "idle" => job'.height \in Height)
    BY <1>0, <1>2, AdvanceType, IdleType
  <2>6. faults' \in 0..MaxFaults
    <3>1. Failures(forgotten) + Failures(k = 2) \in Nat
      BY DEF Failures
    <3> QED BY <1>0, <1>2, <3>1, FailType
  <2> QED BY <1>0, <1>2, <2>1, <2>2, <2>3, <2>4, <2>5, <2>6 DEF TypeOK
<1>4. UtxoHasOutput'
  BY <1>2 DEF IInv, UtxoHasOutput
<1>5. PendingViewFresh' /\ PendingIsPersisted'
  BY <1>2 DEF IInv, PendingViewFresh, PendingIsPersisted
<1> QED BY <1>3, <1>4, <1>5 DEF IInv

(* An input that is skipped preserves the invariant.                       *)
LEMMA SkipInputInv ==
  ASSUME NEW k \in 0..1
  PROVE  IInv /\ SkipInput(k) => IInv'
<1> SUFFICES ASSUME IInv, SkipInput(k) PROVE IInv'
  OBVIOUS
<1>0. TypeOK /\ Applying
  BY DEF IInv, SkipInput
<1>1. job' \in JobType /\ (job'.op # "idle" => job'.height \in Height)
  BY <1>0, AdvanceType, IdleType DEF SkipInput
<1>a. faults' \in 0..MaxFaults
  BY <1>0, FailuresType, FailType DEF SkipInput
<1>2. TypeOK'
  BY <1>0, <1>1, <1>a DEF SkipInput, TypeOK
<1>3. UtxoHasOutput' /\ PendingViewFresh' /\ PendingIsPersisted'
  BY DEF IInv, SkipInput, UtxoHasOutput, PendingViewFresh, PendingIsPersisted
<1> QED BY <1>2, <1>3 DEF IInv

(* An input, whichever store call fails, preserves the invariant.          *)
LEMMA IndexInputInv ==
  ASSUME NEW k \in 0..5
  PROVE  IInv /\ IndexInput(k) => IInv'
<1> SUFFICES ASSUME IInv, IndexInput(k) PROVE IInv'
  OBVIOUS
<1> DEFINE o == Inputs[Current][InputAt]
           key == <<ScriptOf(o), job.height, "Spend", Current, InputAt>>
           listed == Act(0, "History", key)
           spent == Act(1, "Spend", o)
<1>0. TypeOK /\ Applying /\ InputAt \in DOMAIN Inputs[Current] /\ HasOutput(o)
  BY DEF IInv, IndexInput
<1>1. o \in RealOutPoint /\ key \in HistoryKey
  <2>1. o \in RealOutPoint
    BY <1>0 DEF TypeOK, HasOutput
  <2>2. InputAt \in Nat \ {0} /\ Current \in Txid /\ job.height \in Height
    BY <1>0, CurrentType, InputType
  <2> QED BY <2>1, <2>2, ScriptOfType DEF HistoryKey, HistoryKind
<1>2. listed \in JournalAct /\ spent \in JournalAct
  BY <1>0, <1>1, ActType
<1>3. /\ history' = Wrote(k, 1, history \cup {<<job.pass, key>>}, history)
      /\ dbHistory' = Wrote(k, 2, dbHistory \cup {key}, dbHistory)
      /\ dbJournal' = Wrote(k, 4, PutAct(PutAct(dbJournal, listed), spent),
                        Wrote(k, 3, PutAct(dbJournal, listed), dbJournal))
      /\ dbUtxos' = Wrote(k, 5, dbUtxos \ {o}, dbUtxos)
      /\ byHeight' = Wrote(k, 5, Push({listed, spent}), byHeight)
      /\ job' = IF k = 5 THEN Advance(2) ELSE Idle
      /\ Fail(Failures(k = 5))
      /\ affected' = {}
      /\ UNCHANGED <<dbOutputs, dbTxs, dbTip, dbPending, pendingTxs,
                     pendingOutputs, tipHeight>>
  BY DEF IndexInput
<1>4. TypeOK'
  <2>1. history' \subseteq Nat \X HistoryKey /\ dbHistory' \subseteq HistoryKey
    <3>1. history \cup {<<job.pass, key>>} \subseteq Nat \X HistoryKey
      BY <1>0, <1>1, HistoryPush
    <3> HIDE DEF key
    <3> QED BY <1>0, <1>1, <1>3, <3>1 DEF TypeOK, Wrote
  <2>2. dbJournal' \subseteq JournalAct
    <3>1. /\ PutAct(dbJournal, listed) \subseteq JournalAct
          /\ PutAct(PutAct(dbJournal, listed), spent) \subseteq JournalAct
      BY <1>0, <1>2, PutActType DEF TypeOK
    <3> QED BY <1>0, <1>3, <3>1 DEF TypeOK, Wrote
  <2>3. dbUtxos' \subseteq OutPoint
    BY <1>0, <1>3 DEF TypeOK, Wrote
  <2>4. byHeight' \subseteq Nat \X JournalAct
    <3>1. Push({listed, spent}) \subseteq Nat \X JournalAct
      BY <1>0, <1>2, PushType
    <3> QED BY <1>0, <1>3, <3>1 DEF TypeOK, Wrote
  <2>5. job' \in JobType /\ (job'.op # "idle" => job'.height \in Height)
    BY <1>0, <1>3, AdvanceType, IdleType
  <2>6. faults' \in 0..MaxFaults
    BY <1>0, <1>3, FailType, FailuresType
  <2> QED BY <1>0, <1>3, <2>1, <2>2, <2>3, <2>4, <2>5, <2>6 DEF TypeOK
<1>5. UtxoHasOutput'
  BY <1>3 DEF IInv, UtxoHasOutput, Wrote
<1>6. PendingViewFresh' /\ PendingIsPersisted'
  BY <1>3 DEF IInv, PendingViewFresh, PendingIsPersisted
<1> QED BY <1>4, <1>5, <1>6 DEF IInv

(* An output, whichever store call fails, preserves the invariant.         *)
LEMMA IndexOutputInv ==
  ASSUME NEW k \in 0..5
  PROVE  IInv /\ IndexOutput(k) => IInv'
<1> SUFFICES ASSUME IInv, IndexOutput(k) PROVE IInv'
  OBVIOUS
<1> DEFINE o == <<Current, OutputAt>>
           key == <<ScriptOf(o), job.height, "Fund", Current, OutputAt>>
           listed == Act(0, "History", key)
           stored == Act(1, "Output", o)
<1>0. TypeOK /\ Applying /\ OutputAt \in DOMAIN Outputs[Current]
  BY DEF IInv, IndexOutput
<1>1. o \in RealOutPoint /\ key \in HistoryKey
  <2>1. /\ Current \in Txid /\ job.height \in Height
        /\ o \in RealOutPoint /\ OutputAt \in Nat \ {0}
    BY <1>0, CurrentType, OutputType
  <2> QED BY <2>1, ScriptOfType DEF HistoryKey, HistoryKind
<1>2. listed \in JournalAct /\ stored \in JournalAct
  BY <1>0, <1>1, ActType
<1>3. /\ history' = history \cup {<<job.pass, key>>}
      /\ dbHistory' = Wrote(k, 1, dbHistory \cup {key}, dbHistory)
      /\ dbOutputs' = Wrote(k, 3, PutOutput(dbOutputs, o, job.height), dbOutputs)
      /\ dbUtxos' = Wrote(k, 4, dbUtxos \cup {o}, dbUtxos)
      /\ dbJournal' = Wrote(k, 5, PutAct(PutAct(dbJournal, listed), stored),
                        Wrote(k, 2, PutAct(dbJournal, listed), dbJournal))
      /\ byHeight' = Wrote(k, 5, Push({listed, stored}), byHeight)
      /\ job' = IF k = 5 THEN Advance(2) ELSE Idle
      /\ Fail(Failures(k = 5))
      /\ affected' = {}
      /\ UNCHANGED <<dbTxs, dbTip, dbPending, pendingTxs, pendingOutputs, tipHeight>>
  BY DEF IndexOutput
<1>4. /\ DOMAIN PutOutput(dbOutputs, o, job.height) = DOMAIN dbOutputs \cup {o}
      /\ PutOutput(dbOutputs, o, job.height)
           \in [DOMAIN PutOutput(dbOutputs, o, job.height) -> Height]
  BY <1>0, CurrentType, PutOutputType DEF TypeOK
<1>5. TypeOK'
  <2>1. history' \subseteq Nat \X HistoryKey /\ dbHistory' \subseteq HistoryKey
    <3>1. history \cup {<<job.pass, key>>} \subseteq Nat \X HistoryKey
      BY <1>0, <1>1, HistoryPush
    <3> HIDE DEF key
    <3> QED BY <1>0, <1>1, <1>3, <3>1 DEF TypeOK, Wrote
  <2>2. dbJournal' \subseteq JournalAct
    <3>1. /\ PutAct(dbJournal, listed) \subseteq JournalAct
          /\ PutAct(PutAct(dbJournal, listed), stored) \subseteq JournalAct
      BY <1>0, <1>2, PutActType DEF TypeOK
    <3> QED BY <1>0, <1>3, <3>1 DEF TypeOK, Wrote
  <2>3. dbUtxos' \subseteq OutPoint
    BY <1>0, <1>1, <1>3 DEF TypeOK, Wrote
  <2>4. DOMAIN dbOutputs' \subseteq RealOutPoint /\ dbOutputs' \in [DOMAIN dbOutputs' -> Height]
    BY <1>0, <1>1, <1>3, <1>4 DEF TypeOK, Wrote
  <2>5. byHeight' \subseteq Nat \X JournalAct
    <3>1. Push({listed, stored}) \subseteq Nat \X JournalAct
      BY <1>0, <1>2, PushType
    <3> QED BY <1>0, <1>3, <3>1 DEF TypeOK, Wrote
  <2>6. job' \in JobType /\ (job'.op # "idle" => job'.height \in Height)
    BY <1>0, <1>3, AdvanceType, IdleType
  <2>7. faults' \in 0..MaxFaults
    BY <1>0, <1>3, FailType, FailuresType
  <2> QED BY <1>0, <1>3, <2>1, <2>2, <2>3, <2>4, <2>5, <2>6, <2>7 DEF TypeOK
<1>6. UtxoHasOutput'
  BY <1>3, <1>4 DEF IInv, UtxoHasOutput, Wrote
<1>7. PendingViewFresh' /\ PendingIsPersisted'
  BY <1>3 DEF IInv, PendingViewFresh, PendingIsPersisted
<1> QED BY <1>5, <1>6, <1>7 DEF IInv

(* Setting the tip preserves the invariant.                                *)
LEMMA FinishBlockInv ==
  ASSUME NEW k \in 0..1
  PROVE  IInv /\ FinishBlock(k) => IInv'
<1> SUFFICES ASSUME IInv, FinishBlock(k) PROVE IInv'
  OBVIOUS
<1>1. job.height \in Nat /\ faults' \in 0..MaxFaults
  BY FailType, FailuresType DEF IInv, FinishBlock, TypeOK, JobType
<1>2. TypeOK'
  BY <1>1, IdleType DEF IInv, FinishBlock, TypeOK, Wrote
<1>3. UtxoHasOutput' /\ PendingViewFresh' /\ PendingIsPersisted'
  BY DEF IInv, FinishBlock, UtxoHasOutput, PendingViewFresh, PendingIsPersisted
<1> QED BY <1>2, <1>3 DEF IInv

-----------------------------------------------------------------------------
(* Rolling a height back.                                                  *)

(* Lowering the tip keeps it a natural number, on disk as well.            *)
LEMMA LowerTipType ==
  ASSUME TypeOK, NEW h \in Nat, NEW k \in 0..1, LowerTip(h, k)
  PROVE  tipHeight' \in Nat /\ dbTip' \in Nat /\ faults' \in 0..MaxFaults
<1>1. TipBelow(h) \in Nat
  BY DEF TipBelow
<1>2. Failures(k = 1 \/ tipHeight # h) \in Nat
  BY DEF Failures
<1>3. faults' \in 0..MaxFaults
  BY <1>2, FailType DEF LowerTip
<1> QED BY <1>1, <1>3 DEF LowerTip, TypeOK, Wrote

(* Entering rollback_height preserves the invariant.                       *)
LEMMA DisconnectedInv ==
  ASSUME NEW h \in Height
  PROVE  IInv /\ Disconnected(h) => IInv'
<1> SUFFICES ASSUME IInv, Disconnected(h) PROVE IInv'
  OBVIOUS
<1>1. EntriesAt(h) \subseteq Nat \X JournalAct
  BY DEF EntriesAt, IInv, TypeOK
<1>2. job' \in JobType /\ job'.height \in Height
  <2>1. job' = [op |-> "rollback", height |-> h, pass |-> 0, txs |-> <<>>,
                pos |-> 0, seq |-> 0, undo |-> EntriesAt(h)]
    BY DEF Disconnected, Idle
  <2>2. h \in Nat /\ <<>> \in Seq(Txid)
    BY HeightAssumption
  <2> QED BY <1>1, <2>1, <2>2 DEF JobType
<1>3. TypeOK'
  BY <1>2 DEF IInv, Disconnected, TypeOK
<1>4. UtxoHasOutput' /\ PendingViewFresh' /\ PendingIsPersisted'
  BY DEF IInv, Disconnected, UtxoHasOutput, PendingViewFresh, PendingIsPersisted
<1> QED BY <1>3, <1>4 DEF IInv

(* So does a rollback of a height without records.                         *)
LEMMA DisconnectedUnknownInv ==
  ASSUME NEW h \in Height, NEW k \in 0..1
  PROVE  IInv /\ DisconnectedUnknown(h, k) => IInv'
<1> SUFFICES ASSUME IInv, DisconnectedUnknown(h, k) PROVE IInv'
  OBVIOUS
<1>1. tipHeight' \in Nat /\ dbTip' \in Nat /\ faults' \in 0..MaxFaults
  BY HeightAssumption, LowerTipType DEF IInv, DisconnectedUnknown
<1>2. TypeOK'
  BY <1>1 DEF IInv, DisconnectedUnknown, TypeOK
<1>3. UtxoHasOutput' /\ PendingViewFresh' /\ PendingIsPersisted'
  BY DEF IInv, DisconnectedUnknown, UtxoHasOutput, PendingViewFresh, PendingIsPersisted
<1> QED BY <1>2, <1>3 DEF IInv

(* What the four arms share keeps every conjunct that they do not touch.   *)
Shared ==
  /\ dbJournal' \subseteq JournalAct
  /\ job' \in JobType /\ (job'.op # "idle" => job'.height \in Height)
  /\ faults' \in 0..MaxFaults
  /\ affected' = {}
  /\ UNCHANGED <<dbTip, dbPending, memVars>>

(* What the four arms of the replay loop have in common.                   *)
LEMMA UndoShared ==
  ASSUME IInv, NEW e \in job.undo, NEW kind, NEW k \in Nat, NEW calls \in Nat,
         Undo(e, kind, k, calls)
  PROVE  Shared
<1>0. TypeOK /\ job \in JobType /\ job.op = "rollback" /\ job.height \in Height
  BY DEF IInv, TypeOK, Undo
<1>1. e \in Nat \X JournalAct /\ job.undo \ {e} \subseteq Nat \X JournalAct
  BY <1>0 DEF JobType
<1>2. dbJournal' \subseteq JournalAct
  BY <1>0, <1>1, DropActType DEF Undo, TypeOK, Wrote
<1>3. [job EXCEPT !.undo = @ \ {e}] \in JobType
      /\ [job EXCEPT !.undo = @ \ {e}].height \in Height
  BY <1>0, <1>1 DEF JobType
<1>4. job' \in JobType /\ (job'.op # "idle" => job'.height \in Height)
  BY <1>3, IdleType DEF Undo
<1>5. faults' \in 0..MaxFaults
  BY <1>0, FailType, FailuresType DEF Undo
<1> QED BY <1>2, <1>4, <1>5 DEF Undo, Shared

(* Undoing a Tx record preserves the invariant.                            *)
LEMMA UndoTxInv ==
  ASSUME NEW e \in job.undo, NEW k \in 0..2
  PROVE  IInv /\ UndoTx(e, k) => IInv'
<1> SUFFICES ASSUME IInv, UndoTx(e, k) PROVE IInv'
  OBVIOUS
<1>1. Undo(e, "Tx", k, 2) /\ dbTxs' \subseteq dbTxs
      /\ UNCHANGED <<dbHistory, dbOutputs, dbUtxos>>
  BY DEF UndoTx, Wrote
<1>0. Shared
  BY <1>1, UndoShared
<1>2. TypeOK'
  BY <1>1, <1>0 DEF Shared, IInv, TypeOK
<1>3. UtxoHasOutput' /\ PendingViewFresh' /\ PendingIsPersisted'
  BY <1>1, <1>0 DEF Shared, IInv, UtxoHasOutput, PendingViewFresh, PendingIsPersisted
<1> QED BY <1>2, <1>3 DEF IInv

(* Undoing a History record preserves the invariant.                       *)
LEMMA UndoHistoryInv ==
  ASSUME NEW e \in job.undo, NEW k \in 0..2
  PROVE  IInv /\ UndoHistory(e, k) => IInv'
<1> SUFFICES ASSUME IInv, UndoHistory(e, k) PROVE IInv'
  OBVIOUS
<1>1. Undo(e, "History", k, 2) /\ dbHistory' \subseteq dbHistory
      /\ UNCHANGED <<dbOutputs, dbTxs, dbUtxos>>
  BY DEF UndoHistory, Wrote
<1>0. Shared
  BY <1>1, UndoShared
<1>2. TypeOK'
  BY <1>1, <1>0 DEF Shared, IInv, TypeOK
<1>3. UtxoHasOutput' /\ PendingViewFresh' /\ PendingIsPersisted'
  BY <1>1, <1>0 DEF Shared, IInv, UtxoHasOutput, PendingViewFresh, PendingIsPersisted
<1> QED BY <1>2, <1>3 DEF IInv

(* The utxo goes before the output does, and an output that is not there   *)
(* has no utxo by the invariant itself.                                    *)
LEMMA UndoOutputInv ==
  ASSUME NEW e \in job.undo, NEW k \in 0..4
  PROVE  IInv /\ UndoOutput(e, k) => IInv'
<1> SUFFICES ASSUME IInv, UndoOutput(e, k) PROVE IInv'
  OBVIOUS
<1> DEFINE o == e[2].of
<1>1. /\ Undo(e, "Output", k, 4)
      /\ dbUtxos' = IF HasOutput(o) THEN Wrote(k, 3, dbUtxos \ {o}, dbUtxos)
                                    ELSE dbUtxos
      /\ dbOutputs' = Wrote(k, 4, DropOutput(dbOutputs, o), dbOutputs)
      /\ UNCHANGED <<dbHistory, dbTxs>>
  BY DEF UndoOutput
<1>0. Shared
  BY <1>1, UndoShared
<1>2. /\ DOMAIN DropOutput(dbOutputs, o) = DOMAIN dbOutputs \ {o}
      /\ DropOutput(dbOutputs, o) \in [DOMAIN DropOutput(dbOutputs, o) -> Height]
  BY DropOutputType DEF IInv, TypeOK
<1>3. /\ dbUtxos' \subseteq dbUtxos
      /\ DOMAIN dbOutputs' \subseteq DOMAIN dbOutputs
      /\ dbOutputs' \in [DOMAIN dbOutputs' -> Height]
  BY <1>1, <1>2 DEF IInv, TypeOK, Wrote
<1>4. TypeOK'
  BY <1>1, <1>3, <1>0 DEF Shared, IInv, TypeOK
<1>5. UtxoHasOutput'
  BY <1>1, <1>2 DEF IInv, UtxoHasOutput, HasOutput, Wrote
<1>6. PendingViewFresh' /\ PendingIsPersisted'
  BY <1>1, <1>0 DEF Shared, IInv, PendingViewFresh, PendingIsPersisted
<1> QED BY <1>4, <1>5, <1>6 DEF IInv

(* An output becomes unspent again only if it is stored.                   *)
LEMMA UndoSpendInv ==
  ASSUME NEW e \in job.undo, NEW k \in 0..4
  PROVE  IInv /\ UndoSpend(e, k) => IInv'
<1> SUFFICES ASSUME IInv, UndoSpend(e, k) PROVE IInv'
  OBVIOUS
<1> DEFINE o == e[2].of
           kept == PutOutput(dbOutputs, o, dbOutputs[o])
<1>1. /\ Undo(e, "Spend", k, 4)
      /\ dbOutputs' = IF HasOutput(o) THEN Wrote(k, 3, kept, dbOutputs) ELSE dbOutputs
      /\ dbUtxos' = IF HasOutput(o) THEN Wrote(k, 4, dbUtxos \cup {o}, dbUtxos)
                                    ELSE dbUtxos
      /\ UNCHANGED <<dbHistory, dbTxs>>
  BY DEF UndoSpend
<1>0. Shared
  BY <1>1, UndoShared
<1>2. HasOutput(o) => /\ DOMAIN kept = DOMAIN dbOutputs
                      /\ kept \in [DOMAIN kept -> Height]
  BY DEF IInv, TypeOK, HasOutput, PutOutput
<1>3. /\ dbUtxos' \subseteq OutPoint
      /\ DOMAIN dbOutputs' = DOMAIN dbOutputs
      /\ dbOutputs' \in [DOMAIN dbOutputs' -> Height]
  <2> HIDE DEF kept
  <2> QED BY <1>1, <1>2 DEF IInv, TypeOK, HasOutput, Wrote
<1>4. TypeOK'
  BY <1>1, <1>3, <1>0 DEF Shared, IInv, TypeOK
<1>5. UtxoHasOutput'
  BY <1>1, <1>3 DEF IInv, UtxoHasOutput, HasOutput, Wrote
<1>6. PendingViewFresh' /\ PendingIsPersisted'
  BY <1>1, <1>0 DEF Shared, IInv, PendingViewFresh, PendingIsPersisted
<1> QED BY <1>4, <1>5, <1>6 DEF IInv

(* The end of rollback_height preserves the invariant.                     *)
LEMMA FinishRollbackInv ==
  ASSUME NEW k \in 0..1
  PROVE  IInv /\ FinishRollback(k) => IInv'
<1> SUFFICES ASSUME IInv, FinishRollback(k) PROVE IInv'
  OBVIOUS
<1>1. tipHeight' \in Nat /\ dbTip' \in Nat /\ faults' \in 0..MaxFaults
  <2>1. job.height \in Nat
    BY DEF IInv, TypeOK, JobType
  <2> QED BY <2>1, LowerTipType DEF IInv, FinishRollback
<1>2. TypeOK'
  <2>1. pendingOutputs' \subseteq RealOutPoint
    BY PendingViewType DEF IInv, TypeOK, FinishRollback
  <2> QED BY <1>1, <2>1, IdleType DEF IInv, FinishRollback, TypeOK
<1>3. UtxoHasOutput' /\ PendingViewFresh' /\ PendingIsPersisted'
  BY DEF IInv, FinishRollback, UtxoHasOutput, PendingViewFresh, PendingIsPersisted
<1> QED BY <1>2, <1>3 DEF IInv

-----------------------------------------------------------------------------
(* The pending pool.  These steps leave the outputs and utxos alone; the   *)
(* view is rebuilt from what is pending afterwards, and the disk never     *)
(* loses a txid that the memory keeps.                                     *)

(* What an operation on the pending pool has to establish.                 *)
LEMMA PendingStepInv ==
  ASSUME IInv,
         pendingTxs' \subseteq Txid, dbPending' \subseteq Txid, dbTxs' \subseteq Txid,
         pendingTxs' \subseteq dbPending',
         pendingOutputs' = PendingView(pendingTxs'),
         affected' \subseteq ScriptHash,
         faults' \in 0..MaxFaults,
         UNCHANGED <<dbHistory, dbOutputs, dbUtxos, dbJournal, dbTip, history,
                     byHeight, tipHeight, job>>
  PROVE  IInv'
<1>1. TypeOK'
  <2>1. pendingOutputs' \subseteq RealOutPoint
    BY PendingViewType
  <2> QED BY <2>1 DEF IInv, TypeOK
<1>2. UtxoHasOutput' /\ PendingViewFresh' /\ PendingIsPersisted'
  BY DEF IInv, UtxoHasOutput, PendingViewFresh, PendingIsPersisted
<1> QED BY <1>1, <1>2 DEF IInv

(* The scripts whose subscribers are told are scripts.                     *)
LEMMA AffectsType ==
  ASSUME TypeOK, NEW P, P \subseteq Txid, NEW t \in Txid
  PROVE  Affects(P, t) \subseteq ScriptHash
<1>1. pendingOutputs \subseteq RealOutPoint /\ Stored \subseteq RealOutPoint
  BY DEF TypeOK, Stored
<1> QED BY <1>1, AffectedType DEF Affects

(* Tracking, and so restoring, a transaction preserves the invariant.      *)
LEMMA TrackInv ==
  ASSUME NEW t \in Txid, NEW kept, NEW k \in 0..2
  PROVE  IInv /\ Track(t, kept, k) => IInv'
<1> SUFFICES ASSUME IInv, Track(t, kept, k) PROVE IInv'
  OBVIOUS
<1> DEFINE gone == Evicted(pendingTxs, t)
           left == pendingTxs \ gone
<1>0. TypeOK /\ pendingTxs \subseteq Txid /\ Stored \subseteq RealOutPoint
  BY DEF IInv, TypeOK, Stored
<1>1. /\ dbTxs' = Wrote(k, 1, dbTxs \cup {t}, dbTxs)
      /\ dbPending' = Wrote(k, 2, (dbPending \ (gone \ kept)) \cup {t},
                                  dbPending \ (gone \ kept))
      /\ pendingTxs' = Joined(left, t, k)
      /\ pendingOutputs' = PendingView(pendingTxs')
      /\ Fail(Failures(kept = {}) + Failures(k = 2))
      /\ UNCHANGED <<dbHistory, dbOutputs, dbUtxos, dbJournal, dbTip, history,
                     byHeight, tipHeight, job>>
  BY DEF Track
<1> DEFINE evictions == UNION {Affects(pendingTxs, c) : c \in Conflicts(pendingTxs, t)}
           arrival == AffectedScripts(pendingTxs', pendingOutputs', Stored, t)
<1>a. affected' = IF k = 2 THEN arrival \cup evictions ELSE {}
  BY DEF Track
<1> HIDE DEF gone, evictions, arrival
<1>2. dbTxs' \subseteq Txid /\ dbPending' \subseteq Txid /\ pendingTxs' \subseteq Txid
  BY <1>1 DEF IInv, TypeOK, Wrote, Joined
<1>3. pendingTxs' \subseteq dbPending'
  BY <1>1 DEF IInv, PendingIsPersisted, Wrote, Joined
<1>4. affected' \subseteq ScriptHash
  <2>1. pendingOutputs' \subseteq RealOutPoint
    BY <1>1, <1>2, PendingViewType
  <2>2. arrival \subseteq ScriptHash
    BY <1>0, <1>2, <2>1, AffectedType DEF arrival
  <2>3. Conflicts(pendingTxs, t) \subseteq Txid
    BY <1>0 DEF Conflicts
  <2>4. evictions \subseteq ScriptHash
    BY <1>0, <2>3, AffectsType DEF evictions
  <2> QED BY <1>a, <2>2, <2>4
<1>5. faults' \in 0..MaxFaults
  <2>1. Failures(kept = {}) + Failures(k = 2) \in Nat
    BY DEF Failures
  <2> QED BY <1>0, <1>1, <2>1, FailType
<1> QED BY <1>1, <1>2, <1>3, <1>4, <1>5, PendingStepInv

(* Forgetting one transaction preserves the invariant.                     *)
LEMMA ForgetInv ==
  ASSUME NEW t \in Txid, NEW forgotten \in BOOLEAN
  PROVE  IInv /\ Forget(t, forgotten) => IInv'
<1> SUFFICES ASSUME IInv, Forget(t, forgotten) PROVE IInv'
  OBVIOUS
<1>1. TypeOK /\ pendingTxs' \subseteq Txid
  BY DEF IInv, TypeOK, Forget
<1>2. dbPending' \subseteq Txid /\ dbTxs' \subseteq Txid /\ pendingTxs' \subseteq dbPending'
  BY DEF IInv, TypeOK, PendingIsPersisted, Forget
<1>3. affected' \subseteq ScriptHash
  BY <1>1, AffectsType DEF Forget
<1>4. faults' \in 0..MaxFaults
  BY <1>1, FailType, FailuresType DEF Forget
<1>5. /\ pendingOutputs' = PendingView(pendingTxs')
      /\ UNCHANGED <<dbHistory, dbOutputs, dbUtxos, dbJournal, dbTip, history,
                     byHeight, tipHeight, job>>
  BY DEF Forget
<1> QED BY <1>1, <1>2, <1>3, <1>4, <1>5, PendingStepInv

(* Forgetting a chain preserves the invariant.                             *)
LEMMA ForgetChainInv ==
  ASSUME NEW t \in Txid, NEW kept
  PROVE  IInv /\ ForgetChain(t, kept) => IInv'
<1> SUFFICES ASSUME IInv, ForgetChain(t, kept) PROVE IInv'
  OBVIOUS
<1> DEFINE gone == Chain(pendingTxs, t)
<1>1. /\ affected' = UNION {Affects(pendingTxs, d) : d \in gone}
      /\ pendingTxs' = pendingTxs \ gone
      /\ dbPending' = dbPending \ (gone \ kept)
      /\ pendingOutputs' = PendingView(pendingTxs')
      /\ Fail(Failures(kept = {}))
      /\ UNCHANGED <<dbHistory, dbOutputs, dbTxs, dbUtxos, dbJournal, dbTip,
                     history, byHeight, tipHeight, job>>
  BY DEF ForgetChain
<1>2. TypeOK /\ pendingTxs \subseteq Txid /\ gone \subseteq Txid
  BY ChainType DEF IInv, TypeOK
<1> HIDE DEF gone
<1>3. /\ pendingTxs' \subseteq Txid /\ dbPending' \subseteq Txid /\ dbTxs' \subseteq Txid
      /\ pendingTxs' \subseteq dbPending'
  BY <1>1 DEF IInv, TypeOK, PendingIsPersisted
<1>4. affected' \subseteq ScriptHash
  BY <1>1, <1>2, AffectsType
<1>5. faults' \in 0..MaxFaults
  <2>1. Failures(kept = {}) \in Nat
    BY DEF Failures
  <2> QED BY <1>1, <1>2, <2>1, FailType
<1> QED BY <1>1, <1>3, <1>4, <1>5, PendingStepInv

-----------------------------------------------------------------------------
(* A step that changes nothing preserves the invariant.                    *)
LEMMA StutterInv == IInv /\ UNCHANGED vars => IInv'
<1> SUFFICES ASSUME IInv, UNCHANGED vars PROVE IInv'
  OBVIOUS
<1>1. TypeOK'
  BY DEF IInv, TypeOK
<1> QED BY <1>1 DEF IInv, UtxoHasOutput, PendingViewFresh, PendingIsPersisted

(* Every step preserves the invariant, one case per kind of step.          *)
LEMMA NextInv == IInv /\ [Next]_vars => IInv'
<1> SUFFICES ASSUME IInv, [Next]_vars PROVE IInv'
  OBVIOUS
<1>1. ASSUME ApplyStep PROVE IInv'
  BY <1>1, IndexTxInv, SkipInputInv, IndexInputInv, IndexOutputInv, FinishBlockInv
     DEF ApplyStep
<1>2. ASSUME RollbackStep PROVE IInv'
  BY <1>2, UndoTxInv, UndoHistoryInv, UndoOutputInv, UndoSpendInv, FinishRollbackInv
     DEF RollbackStep
<1>3. ASSUME PendingStep PROVE IInv'
  <2>1. Broadcastable \subseteq Txid /\ pendingTxs \subseteq Txid
    BY IndexStateAssumption DEF IInv, TypeOK
  <2>2. ASSUME TransactionBroadcast PROVE IInv'
    BY <2>1, <2>2, TrackInv DEF TransactionBroadcast
  <2>3. ASSUME TxStatusChange PROVE IInv'
    BY <2>1, <2>3, TrackInv, ForgetInv, ForgetChainInv DEF TxStatusChange, Restore
  <2> QED BY <1>3, <2>2, <2>3 DEF PendingStep
<1>4. ASSUME BlockEvent PROVE IInv'
  BY <1>4, ConnectedInv, DisconnectedInv, DisconnectedUnknownInv DEF BlockEvent
<1>5. ASSUME Reopen PROVE IInv'
  BY <1>5, ReopenInv
<1>6. ASSUME UNCHANGED vars PROVE IInv'
  BY <1>6, StutterInv
<1> QED BY <1>1, <1>2, <1>3, <1>4, <1>5, <1>6 DEF Next

(* The inductive invariant holds in every reachable state, for every set   *)
(* of transactions and blocks, any order of block events, any pattern of   *)
(* failed store calls and restarts.                                        *)
THEOREM Invariance == Spec => []IInv
BY InitInv, NextInv, PTL DEF Spec

(* Types, for every instance: in particular the tip never drops below 0    *)
(* and each undo record names something of the right kind.                 *)
THEOREM TypeCorrect == Spec => []TypeOK
<1>1. IInv => TypeOK
  BY DEF IInv
<1> QED BY <1>1, Invariance, PTL

(* Listing the unspent outputs of a script never meets an unspent outpoint *)
(* without its output, whatever fails and in whatever order events come.   *)
THEOREM UtxoLookupNeverFails == Spec => []UtxoHasOutput
<1>1. IInv => UtxoHasOutput
  BY DEF IInv
<1> QED BY <1>1, Invariance, PTL

(* The cached view of pending outputs is never stale.                      *)
THEOREM PendingViewNeverStale == Spec => []PendingViewFresh
<1>1. IInv => PendingViewFresh
  BY DEF IInv
<1> QED BY <1>1, Invariance, PTL

-----------------------------------------------------------------------------
(* A step that leaves the raw transactions and adds nothing to the pool.   *)
LEMMA KeepsDurable ==
  ASSUME IInv', dbTxs \subseteq dbTxs', pendingTxs' \subseteq pendingTxs,
         NEW t \in pendingTxs' \ Recoverable'
  PROVE  t \in pendingTxs /\ t \notin Recoverable
BY DEF IInv, PendingIsPersisted, Recoverable

(* A pending transaction is one the store can bring back after a restart,  *)
(* whatever store calls fail, until a rollback deletes its raw bytes.      *)
THEOREM PendingIsDurable == Spec => PendingStaysDurable
<1> DEFINE Durable(t) == t \in pendingTxs /\ (t \in Recoverable => UndoesTx(t))
<1>1. ASSUME IInv, IInv', Next, NEW t \in pendingTxs' \ Recoverable' PROVE Durable(t)
  <2>0. t \notin dbTxs'
    BY <1>1 DEF IInv, PendingIsPersisted, Recoverable
  <2>1. CASE ApplyStep
    <3>1. dbTxs \subseteq dbTxs' /\ pendingTxs' \subseteq pendingTxs
      BY <2>1 DEF ApplyStep, IndexTx, SkipInput, IndexInput, IndexOutput, FinishBlock, Wrote
    <3> QED BY <1>1, <3>1, KeepsDurable
  <2>2. CASE RollbackStep
    <3>1. ASSUME NEW e \in job.undo, NEW k \in 0..2, UndoTx(e, k) PROVE Durable(t)
      <4>1. pendingTxs' = pendingTxs /\ e[2].kind = "Tx"
            /\ (t \in dbTxs => t = e[2].of[1])
        BY <2>0, <3>1 DEF UndoTx, Undo, Wrote
      <4>2. e[2].of = <<e[2].of[1]>>
        <5>1. e[2] \in JournalAct
          BY <1>1 DEF IInv, TypeOK, JobType
        <5> QED BY <4>1, <5>1 DEF JournalAct
      <4> QED BY <1>1, <3>1, <4>1, <4>2 DEF Recoverable, UndoesTx
    <3>2. CASE ~\E e \in job.undo, k \in 0..2 : UndoTx(e, k)
      <4>1. dbTxs \subseteq dbTxs' /\ pendingTxs' \subseteq pendingTxs
        BY <2>2, <3>2 DEF RollbackStep, UndoHistory, UndoOutput, UndoSpend, Undo, FinishRollback
      <4> QED BY <1>1, <4>1, KeepsDurable
    <3> QED BY <3>1, <3>2
  <2>3. CASE PendingStep
    <3>1. ASSUME NEW u, NEW kept, NEW k \in 0..2, Track(u, kept, k) PROVE Durable(t)
      <4>1. dbTxs \subseteq dbTxs' /\ (t \in pendingTxs \/ t \in dbTxs')
        BY <1>1, <3>1 DEF Track, Joined, Wrote
      <4> QED BY <2>0, <4>1 DEF Recoverable
    <3>2. ASSUME NEW u, NEW kept, Forget(u, kept) \/ ForgetChain(u, kept) PROVE Durable(t)
      <4>1. dbTxs \subseteq dbTxs' /\ pendingTxs' \subseteq pendingTxs
        BY <3>2 DEF Forget, ForgetChain
      <4> QED BY <1>1, <4>1, KeepsDurable
    <3> QED BY <2>3, <3>1, <3>2 DEF PendingStep, TransactionBroadcast, TxStatusChange, Restore
  <2>4. CASE BlockEvent
    <3>1. dbTxs \subseteq dbTxs' /\ pendingTxs' \subseteq pendingTxs
      BY <2>4 DEF BlockEvent, Connected, Disconnected, DisconnectedUnknown
    <3> QED BY <1>1, <3>1, KeepsDurable
  <2>5. CASE Reopen
    BY <1>1, <2>0, <2>5 DEF Reopen, LoadPending
  <2> QED BY <1>1, <2>1, <2>2, <2>3, <2>4, <2>5 DEF Next
<1>2. IInv /\ IInv' /\ [Next]_vars => [\A t \in pendingTxs' \ Recoverable' : Durable(t)]_vars
  BY <1>1
<1> QED BY <1>2, Invariance, PTL DEF Spec, PendingStaysDurable
=============================================================================

----------------------------- MODULE StoreCodec -----------------------------
(***************************************************************************)
(* The bytes of the persistent store (store.rs and the helpers at the end  *)
(* of IndexState): how keys and values are laid out, how a prefix scan     *)
(* selects them, and what a restart reads back.  IndexState keeps the      *)
(* trees as sets of decoded entries; the operators here encode the trees   *)
(* of a state, and the properties compare what decoding and scanning give  *)
(* with what IndexState says was stored.                                   *)
(*                                                                         *)
(* A byte string is a sequence.  A hash of 32 bytes is one cell, which     *)
(* holds the txid or script hash itself; numbers have the code's widths,   *)
(* with ByteValues values to a byte (256 in the code) so that small        *)
(* numbers fill more than one of them.                                     *)
(***************************************************************************)
EXTENDS IndexState, Functions

CONSTANT ByteValues

Hash == 1    \* cells of a hash
U32 == 4     \* bytes of a u32
U64 == 8     \* bytes of a u64

(* n without its i lowest bytes, for i up to the width of the number       *)
Shifted(n, width) ==
  LET shifted[i \in 0..width] == IF i = 0 THEN n ELSE shifted[i - 1] \div ByteValues
  IN shifted

(* to_be_bytes *)
ToBeBytes(n, width) == [i \in 1..width |-> Shifted(n, width)[width - i] % ByteValues]

(* The number that the first i bytes stand for                             *)
ReadUpTo(bytes) ==
  LET read[i \in 0..Len(bytes)] ==
        IF i = 0 THEN 0 ELSE read[i - 1] * ByteValues + bytes[i]
  IN read

(* from_be_bytes *)
FromBeBytes(bytes) == ReadUpTo(bytes)[Len(bytes)]

(* bytes[from..from + width] *)
Slice(bytes, from, width) == SubSeq(bytes, from + 1, from + width)

ValueOf(o) == Outputs[o[1]][o[2]].value

-----------------------------------------------------------------------------
(* The widths of the numbers.  A number fits a width when it is below the  *)
(* width's limit.                                                          *)
Limit[width \in 0..U64] == IF width = 0 THEN 1 ELSE ByteValues * Limit[width - 1]

(* At most so many undo records are made for the first i transactions of a *)
(* block: one for a transaction, two for each of its inputs and outputs.   *)
Records(txs) ==
  LET records[i \in 0..Len(txs)] ==
        IF i = 0 THEN 0
        ELSE records[i - 1] + 1 + 2 * (Len(Inputs[txs[i]]) + Len(Outputs[txs[i]]))
  IN records

(* Heights, positions and sequence numbers are u32 and amounts u64 in the  *)
(* code.  No block comes near these limits: its size is bounded.           *)
ASSUME StoreCodecAssumption ==
  /\ ByteValues \in Nat \ {0, 1}
  /\ \A h \in Height : h < Limit[U32]
  /\ \A t \in Txid : Len(Inputs[t]) <= Limit[U32] /\ Len(Outputs[t]) <= Limit[U32]
  /\ \A o \in CreatedBy(Txid) : ValueOf(o) < Limit[U64]
  /\ \A b \in Block : Records(TxData[b])[Len(TxData[b])] <= Limit[U32]

-----------------------------------------------------------------------------
(* Keys and values.  Positions count from 0 in the code.                   *)
OutpointKey(o) == <<o[1]>> \o ToBeBytes(o[2] - 1, U32)

(* Mutant: the txid comes before the script hash.                          *)
MutUtxoKey(sh, o) == <<o[1]>> \o <<sh>> \o ToBeBytes(o[2] - 1, U32)

UtxoKey(sh, o) == <<sh>> \o <<o[1]>> \o ToBeBytes(o[2] - 1, U32)

JournalKey(height, seq) == ToBeBytes(height, U32) \o ToBeBytes(seq, U32)

EncodeOutput(o, height) ==
  <<ScriptOf(o)>> \o ToBeBytes(ValueOf(o), U64) \o ToBeBytes(height, U32)

DecodeOutput(o, raw) ==
  [script_hash |-> raw[1], txid |-> o[1], vout |-> o[2],
   value |-> FromBeBytes(Slice(raw, Hash, U64)),
   height |-> FromBeBytes(Slice(raw, Hash + U64, U32))]

KindByte(kind) == CASE kind = "Fund" -> 0 [] kind = "Spend" -> 1

(* history_key, of <<script hash, height, kind, txid, position>>           *)
HistoryKeyBytes(key) ==
  <<key[1]>> \o ToBeBytes(key[2], U32) \o <<KindByte(key[3])>>
    \o <<key[4]>> \o ToBeBytes(key[5] - 1, U32)

ParseHistoryKey(bytes) ==
  [script_hash |-> bytes[1],
   height |-> FromBeBytes(Slice(bytes, Hash, U32)),
   kind |-> bytes[Hash + U32 + 1],
   txid |-> bytes[Hash + U32 + 2],
   sequence |-> FromBeBytes(Slice(bytes, Hash + U32 + 1 + Hash, U32))]

(* outpoint_bytes and parse_outpoint, of IndexState                        *)
OutpointBytes(o) == <<o[1]>> \o ToBeBytes(o[2] - 1, U32)

ParseOutpoint(payload) == <<payload[1], FromBeBytes(Slice(payload, Hash, U32)) + 1>>

ParseTxid(payload) == payload[1]

JournalActionKind == <<"Tx", "History", "Output", "Spend">>

Payload(act) ==
  CASE act.kind = "Tx" -> act.of
    [] act.kind = "History" -> HistoryKeyBytes(act.of)
    [] act.kind \in {"Output", "Spend"} -> OutpointBytes(act.of)

(* store_journal_action: the kind is the first byte of the value.          *)
JournalValue(act) ==
  <<(CHOOSE i \in 1..4 : JournalActionKind[i] = act.kind) - 1>> \o Payload(act)

ParseJournalAction(key, value) ==
  [journal_key |-> key,
   height |-> FromBeBytes(Slice(key, 0, U32)),
   sequence |-> FromBeBytes(Slice(key, U32, U32)),
   kind |-> JournalActionKind[value[1] + 1],
   payload |-> Tail(value)]

(* Mutant: the height is taken for the sequence.                           *)
MutActionSequence(action) == FromBeBytes(Slice(action.journal_key, 0, U32))

(* action_sequence: read from the key, it is the order of a rollback.      *)
ActionSequence(action) == FromBeBytes(Slice(action.journal_key, U32, U32))

EncodeTxidList(txids) ==
  LET out[i \in 0..Len(txids)] == IF i = 0 THEN <<>> ELSE out[i - 1] \o <<txids[i]>>
  IN out[Len(txids)]

DecodeTxidList(raw) == [i \in 1..(Len(raw) \div Hash) |-> raw[i]]

(* Vec::retain, of the txids other than t                                  *)
Retain(txids, t) ==
  LET kept[i \in 0..Len(txids)] ==
        IF i = 0 THEN <<>>
        ELSE IF txids[i] # t THEN Append(kept[i - 1], txids[i]) ELSE kept[i - 1]
  IN kept[Len(txids)]

(* store_pending_txid and delete_pending_txid rewrite the whole value.     *)
StorePendingTxid(raw, t) ==
  LET txids == DecodeTxidList(raw)
  IN EncodeTxidList(IF t \in Range(txids) THEN txids ELSE Append(txids, t))

(* Mutant: only the first entry is looked at.                              *)
MutDeletePendingTxid(raw, t) ==
  LET txids == DecodeTxidList(raw)
  IN EncodeTxidList(IF txids # <<>> /\ Head(txids) = t THEN Tail(txids) ELSE txids)

DeletePendingTxid(raw, t) ==
  EncodeTxidList(Retain(DecodeTxidList(raw), t))

-----------------------------------------------------------------------------
(* set_tip_height and tip_height: the value under "tip_height" in "meta".  *)
SetTipHeight(height) == ToBeBytes(height, U32)

TipHeight(raw) == FromBeBytes(raw)

(* The trees as they are on disk, and what is read from them.              *)
OutputsTree == {<<OutpointKey(o), EncodeOutput(o, dbOutputs[o])>> : o \in DOMAIN dbOutputs}

UtxosTree == {<<UtxoKey(ScriptOf(o), o), ToBeBytes(ValueOf(o), U64)>> : o \in dbUtxos}

HistoryTree == {<<HistoryKeyBytes(key), <<>>>> : key \in dbHistory}

JournalTree == {<<JournalKey(a.height, a.seq), JournalValue(a)>> : a \in dbJournal}

ScanPrefix(tree, sh) == {item \in tree : Slice(item[1], 0, Hash) = <<sh>>}

(* load_output: the value under the outpoint's key.                        *)
LoadOutput(o) ==
  {DecodeOutput(o, item[2]) : item \in {i \in OutputsTree : i[1] = OutpointKey(o)}}

(* list_unspent_for_script: the height is that of the stored output.       *)
ListUnspentForScript(sh) ==
  UNION {LET o == <<item[1][2], FromBeBytes(Slice(item[1], 2 * Hash, U32)) + 1>>
         IN {[txid |-> o[1], vout |-> o[2], value |-> FromBeBytes(item[2]),
              height |-> stored.height] : stored \in LoadOutput(o)}
         : item \in ScanPrefix(UtxosTree, sh)}

(* load_history_for_script, up to its order                                *)
LoadHistoryForScript(sh) ==
  {ParseHistoryKey(item[1]) : item \in ScanPrefix(HistoryTree, sh)}

(* load_history_entries and load_journal_actions                           *)
LoadHistoryEntries == {ParseHistoryKey(item[1]) : item \in HistoryTree}

LoadJournalActions == {ParseJournalAction(item[1], item[2]) : item \in JournalTree}

(* load_journal_from_store: the record that an action becomes; a History   *)
(* record keeps the history key as it is.                                  *)
BlockAction(action) ==
  [height |-> action.height, seq |-> ActionSequence(action), kind |-> action.kind,
   of |-> CASE action.kind = "Tx" -> <<ParseTxid(action.payload)>>
            [] action.kind = "History" -> action.payload
            [] action.kind \in {"Output", "Spend"} -> ParseOutpoint(action.payload)]

-----------------------------------------------------------------------------
(* A scan for one script, in the history or among the unspent outputs,     *)
(* finds all that was stored for it and nothing of another script, with    *)
(* the value and the height it was stored with, at any point of a block.   *)
ScriptScanExact ==
  \A sh \in ScriptHash :
    /\ ListUnspentForScript(sh) =
         {[txid |-> o[1], vout |-> o[2], value |-> ValueOf(o), height |-> dbOutputs[o]]
            : o \in {x \in dbUtxos : ScriptOf(x) = sh}}
    /\ LoadHistoryForScript(sh) =
         {[script_hash |-> sh, height |-> key[2], kind |-> KindByte(key[3]),
           txid |-> key[4], sequence |-> key[5] - 1]
            : key \in {x \in dbHistory : x[1] = sh}}

(* A restart at any point reads the tip, and finds in the journal the undo *)
(* records in the order they were made, one for each record stored: the    *)
(* order in which they are undone is only in the bytes of their keys, and  *)
(* the history entry that one of them removes only in those of its         *)
(* payload.                                                                *)
RestartReadsBack ==
  /\ TipHeight(SetTipHeight(dbTip)) = dbTip
  /\ Cardinality({item[1] : item \in JournalTree}) = Cardinality(dbJournal)
  /\ {BlockAction(action) : action \in LoadJournalActions} =
       {[a EXCEPT !.of = IF a.kind = "History" THEN HistoryKeyBytes(@) ELSE @]
          : a \in dbJournal}
  /\ Cardinality(LoadHistoryEntries) = Cardinality(dbHistory)

(* The orders in which the elements of a finite set can be listed          *)
Listings(S) == {list \in Injection(1..Cardinality(S), S) : IsFiniteSet(S)}

(* The pending list behaves as the set IndexState takes it for: whatever   *)
(* other txids it still holds, and in every order, storing a txid leaves   *)
(* it there once and deleting one leaves exactly the others.               *)
PendingListIsASet ==
  \A others \in SUBSET Txid, t \in Txid :
    \A list \in Listings(dbPending \cup others) :
      LET stored == DecodeTxidList(StorePendingTxid(EncodeTxidList(list), t))
          deleted == DecodeTxidList(DeletePendingTxid(EncodeTxidList(list), t))
      IN /\ IsInjective(stored) /\ Range(stored) = Range(list) \cup {t}
         /\ IsInjective(deleted) /\ Range(deleted) = Range(list) \ {t}
=============================================================================

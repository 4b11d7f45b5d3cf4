--------------------------- MODULE ElectrumClient ---------------------------
(***************************************************************************)
(* One Electrum connection (handle_client in electrum_server.rs): the      *)
(* thread that reads requests, the notification thread beside it, and what *)
(* they share with the rest of the server: the index, the block events and *)
(* the pending-change broadcaster.                                         *)
(*                                                                         *)
(* The source broadcasts one sequence of events, the constant Log, to the  *)
(* indexer and to the client.  A channel is a position in it, and the      *)
(* confirmed part of the index is a function of the indexer's position.    *)
(* The log may be in any order: nk-blocks reports connected blocks and     *)
(* nk-events disconnected ones, and nothing orders the two (BlockSource).  *)
(* IndexState has the inside of the index.                                 *)
(***************************************************************************)
EXTENDS Integers, Sequences, FiniteSets

CONSTANTS
  Log,         \* the block events in the order they are broadcast
  Trees,       \* Trees[n]: the best chains nakamoto has after n events, by height
  Tx,          \* transactions
  BlockTxs,    \* BlockTxs[b]: the transactions of block b
  ScriptHash,  \* script hashes
  Touches,     \* Touches[t]: the script hashes that t spends from or pays to
  Updater,     \* threads that change the pending pool
  MaxUpdates,  \* bound: changes of the pending pool
  MaxRequests  \* bound: subscription requests of the client

Type(n) == Log[n].type
BlockEvents == {n \in DOMAIN Log : Type(n) # "Synced"}

(* BlockEvent                                                              *)
Event ==
  [type : {"Synced"}]
  \cup [type : {"Connected", "Disconnected"}, block : DOMAIN BlockTxs, height : Nat]

(* tip_height after the first n events: apply_block sets it to the height  *)
(* of the block, rollback_height lowers it if it is the one rolled back.   *)
TipAfter[n \in 0..Len(Log)] ==
  IF n = 0 THEN 0
  ELSE CASE Type(n) = "Connected" -> Log[n].height
         [] Type(n) = "Disconnected" /\ TipAfter[n - 1] = Log[n].height ->
              IF Log[n].height = 0 THEN 0 ELSE Log[n].height - 1
         [] OTHER -> TipAfter[n - 1]

(* The blocks that are in the index after the first n events, each as the  *)
(* event that brought it: rollback_height takes out all of its height.     *)
Applied(n) ==
  {i \in 1..n : /\ Type(i) = "Connected"
                /\ \A j \in i..n : Type(j) = "Disconnected" => Log[j].height # Log[i].height}

ASSUME ElectrumClientAssumption ==
  /\ Log \in Seq(Event)
  /\ BlockTxs \in [DOMAIN BlockTxs -> SUBSET Tx]
  /\ DOMAIN Trees = 0..Len(Log)
  /\ \A n \in 0..Len(Log) : \A c \in Trees[n] :
       c \in [DOMAIN c -> DOMAIN BlockTxs] /\ DOMAIN c \subseteq Nat
  /\ Touches \in [Tx -> SUBSET ScriptHash]
  /\ \A t \in Tx : Touches[t] # {}
  /\ MaxUpdates \in Nat /\ MaxRequests \in Nat

(* The n-th event connects a block above the tip or disconnects one at it  *)
(* or below: so for the events of one chain in the order of its changes.   *)
InOrder(n) ==
  IF Type(n) = "Connected" THEN TipAfter[n - 1] < Log[n].height
                           ELSE TipAfter[n - 1] >= Log[n].height

VARIABLES
  published,  \* events broadcast so far
  indexedTo,  \* events the indexer has applied
  pool,       \* pending_txs
  telling,    \* telling[u]: scripts u has changed and not yet broadcast
  updates,    \* changes of the pool so far
  conn,       \* the connection: "none", "open" or "closed"
  heardTo,    \* events the notification thread has taken
  changes,    \* channel of the pending-change broadcaster
  state,      \* ClientState
  lock,       \* who holds the mutex of ClientState
  notifier,   \* the notification thread
  reader,     \* the request thread
  requests,   \* subscription requests so far
  wire,       \* what the client was last told; {}: nothing yet
  excuses     \* history: what went wrong for this client, by kind

indexVars == <<published, indexedTo, pool, telling, updates>>
vars == <<indexVars, conn, heardTo, changes, state, lock, notifier, reader, requests, wire,
          excuses>>

-----------------------------------------------------------------------------
(* What the queries answer.  A status stands for the hash of the history   *)
(* and mempool lists; the empty one stands for null.                       *)

Tip == TipAfter[indexedTo]

(* pending_txs that touch the script *)
Pending(sh) == {t \in pool : sh \in Touches[t]}

(* The blocks of height h in the index that have t.                        *)
With(t, h) ==
  {i \in Applied(indexedTo) : Log[i].height = h /\ t \in BlockTxs[Log[i].block]}

(* Transaction, height, and how often the pair is listed: blocks applied   *)
(* twice, or two of one height, list it twice.                             *)
Confirmed(sh) ==
  {e \in Tx \X {Log[i].height : i \in Applied(indexedTo)} \X (1..Len(Log)) :
     sh \in Touches[e[1]] /\ e[3] = Cardinality(With(e[1], e[2]))}

(* Mutant: a pending entry is given height -1.                             *)
MutGetHistory(sh) == Confirmed(sh) \cup {<<t, -1, 1>> : t \in Pending(sh)}

(* get_history: confirmed entries, and pending ones with height 0.         *)
GetHistory(sh) == Confirmed(sh) \cup {<<t, 0, 1>> : t \in Pending(sh)}

StatusOf(past, mempool) == [history |-> past, mempool |-> mempool]
ScriptStatus(sh) == StatusOf(GetHistory(sh), Pending(sh))
NoStatus == StatusOf({}, {})

(* current_header_status: the indexer's height, the header that nakamoto   *)
(* has at that height.                                                     *)
NoHeader == <<>>
HeaderAt(c, h) == IF h \in DOMAIN c THEN <<h, c[h]>> ELSE NoHeader
CurrentHeader == {HeaderAt(c, Tip) : c \in Trees[published]}

Entry == Tx \X Nat \X Nat
Status == [history : SUBSET Entry, mempool : SUBSET Tx]
Header == {NoHeader} \cup (Nat \X DOMAIN BlockTxs)

-----------------------------------------------------------------------------
(* The notification thread handles a block event (block is TRUE) or a      *)
(* pending change to the scripts in scope.  left: the scripts still to     *)
(* look at; script: the one whose history was read; changed and send: the  *)
(* statuses and the header to write.  Sets of at most one element stand    *)
(* for values that may be absent.                                          *)
IdleNotifier ==
  [pc |-> "idle", block |-> FALSE, scope |-> {}, left |-> {}, script |-> {},
   history |-> {}, changed |-> {}, header |-> NoHeader, send |-> {}]

IdleReader == [pc |-> "idle", script |-> {}, history |-> {}, status |-> {}, header |-> {}]

ClientState ==
  [scripts : SUBSET ScriptHash, status : [ScriptHash -> Status], headers : BOOLEAN,
   header : Header]
NotifierState ==
  [pc : {"idle", "wait", "header", "scripts", "scan", "headers", "write", "ended"},
   block : BOOLEAN, scope : SUBSET ScriptHash, left : SUBSET ScriptHash,
   script : SUBSET ScriptHash, history : SUBSET Entry,
   changed : SUBSET (ScriptHash \X Status), header : Header, send : SUBSET Header]
ReaderState ==
  [pc : {"idle", "status", "reply"}, script : SUBSET ScriptHash, history : SUBSET Entry,
   status : SUBSET Status, header : SUBSET Header]
Wire == [status : [ScriptHash -> SUBSET Status], header : SUBSET Header]

TypeOK ==
  /\ published \in 0..Len(Log)
  /\ indexedTo \in 0..published
  /\ heardTo \in 0..published
  /\ pool \subseteq Tx
  /\ telling \in [Updater -> SUBSET ScriptHash]
  /\ updates \in 0..MaxUpdates
  /\ conn \in {"none", "open", "closed"}
  /\ changes \in Seq(SUBSET ScriptHash)
  /\ state \in ClientState
  /\ lock \in {"free", "notifier", "reader"}
  /\ notifier \in NotifierState
  /\ reader \in ReaderState
  /\ requests \in 0..MaxRequests
  /\ wire \in Wire
  /\ excuses \subseteq {"lagged", "early", "missed", "overtaken"}

(* The server has started: the pending transactions of the last run are    *)
(* back in the pool and nobody is connected.                               *)
Init ==
  /\ published = 0 /\ indexedTo = 0
  /\ pool \in SUBSET Tx /\ telling = [u \in Updater |-> {}] /\ updates = 0
  /\ conn = "none" /\ heardTo = 0 /\ changes = <<>>
  /\ state = [scripts |-> {}, status |-> [sh \in ScriptHash |-> NoStatus],
              headers |-> FALSE, header |-> NoHeader]
  /\ lock = "free"
  /\ notifier = IdleNotifier /\ reader = IdleReader /\ requests = 0
  /\ wire = [status |-> [sh \in ScriptHash |-> {}], header |-> {}]
  /\ excuses = {}

-----------------------------------------------------------------------------
(* The rest of the server.                                                 *)

(* The source broadcasts its next event to the indexer and to the client.  *)
Publish ==
  /\ published < Len(Log)
  /\ published' = published + 1
  /\ UNCHANGED <<indexedTo, pool, telling, updates, conn, heardTo, changes, state, lock,
                 notifier, reader, requests, wire, excuses>>

(* The indexer applies its next event under the write lock; apply_block    *)
(* takes the block's transactions out of the pending ones.                 *)
IndexStep ==
  /\ indexedTo < published
  /\ indexedTo' = indexedTo + 1
  /\ pool' = IF Type(indexedTo + 1) = "Connected"
             THEN pool \ BlockTxs[Log[indexedTo + 1].block] ELSE pool
  /\ UNCHANGED <<published, telling, updates, conn, heardTo, changes, state, lock,
                 notifier, reader, requests, wire, excuses>>

(* track, restore or forget a pending transaction; the caller broadcasts   *)
(* the affected scripts after the lock of the index is released.           *)
Update(u, t) ==
  /\ telling[u] = {} /\ updates < MaxUpdates
  /\ pool' \in {pool \cup {t}, pool \ {t}}
  /\ pool' = pool => t \in pool
  /\ telling' = [telling EXCEPT ![u] = Touches[t]]
  /\ updates' = updates + 1
  /\ UNCHANGED <<published, indexedTo, conn, heardTo, changes, state, lock, notifier,
                 reader, requests, wire, excuses>>

(* PendingChangeBroadcaster::broadcast: to every subscriber whose channel  *)
(* is still there.                                                         *)
Announce(u) ==
  /\ telling[u] # {}
  /\ telling' = [telling EXCEPT ![u] = {}]
  /\ changes' = IF conn # "none" /\ notifier.pc # "ended"
                THEN Append(changes, telling[u]) ELSE changes
  /\ UNCHANGED <<published, indexedTo, pool, updates, conn, heardTo, state, lock,
                 notifier, reader, requests, wire, excuses>>

-----------------------------------------------------------------------------
(* The connection.                                                         *)

(* handle_client subscribes to both channels: events that were broadcast   *)
(* before are not heard, whether or not the indexer has applied them.      *)
Connect ==
  /\ conn = "none"
  /\ conn' = "open"
  /\ heardTo' = published
  /\ excuses' = IF indexedTo < published THEN {"lagged"} ELSE {}
  /\ UNCHANGED <<indexVars, changes, state, lock, notifier, reader, requests, wire>>

Hangup ==
  /\ conn = "open"
  /\ conn' = "closed"
  /\ UNCHANGED <<indexVars, heardTo, changes, state, lock, notifier, reader, requests, wire,
                 excuses>>

(* write_json.  A message that is older than the record it was taken from  *)
(* has been overtaken.                                                     *)
WriteStatus(sh, st) ==
  /\ wire' = IF conn = "open" THEN [wire EXCEPT !.status[sh] = {st}] ELSE wire
  /\ excuses' = IF st = state.status[sh] THEN excuses ELSE excuses \cup {"overtaken"}

WriteHeader(hd) ==
  /\ wire' = IF conn = "open" THEN [wire EXCEPT !.header = {hd}] ELSE wire
  /\ excuses' = IF hd = state.header THEN excuses ELSE excuses \cup {"overtaken"}

-----------------------------------------------------------------------------
(* The notification thread.                                                *)

connVars == <<indexVars, conn, requests, reader>>

(* recv(events): Synced is ignored.                                        *)
TakeEvent ==
  /\ conn # "none" /\ notifier.pc = "idle" /\ heardTo < published
  /\ heardTo' = heardTo + 1
  /\ notifier' = IF heardTo' \in BlockEvents
                 THEN [IdleNotifier EXCEPT !.pc = "wait", !.block = TRUE,
                                           !.scope = ScriptHash]
                 ELSE notifier
  /\ UNCHANGED <<connVars, changes, state, lock, wire, excuses>>

(* recv(pending_events): an empty set is skipped.                          *)
TakeChange ==
  /\ notifier.pc = "idle" /\ changes # <<>>
  /\ changes' = Tail(changes)
  /\ notifier' = IF Head(changes) = {} THEN notifier
                 ELSE [IdleNotifier EXCEPT !.pc = "scripts", !.scope = Head(changes)]
  /\ UNCHANGED <<connVars, heardTo, state, lock, wire, excuses>>

(* Mutant: a disconnected height counts as rolled back while it is the tip.*)
MutReady ==
  IF Type(heardTo) = "Connected" THEN Tip >= Log[heardTo].height
                                 ELSE Tip <= Log[heardTo].height

(* wait_for_indexer_tip compares heights.                                  *)
Ready ==
  IF Type(heardTo) = "Connected" THEN Tip >= Log[heardTo].height
                                 ELSE Tip < Log[heardTo].height

(* The tip may be where the event takes it before the event is applied.    *)
WaitReady ==
  /\ notifier.pc = "wait" /\ Ready
  /\ notifier' = [notifier EXCEPT !.pc = "header"]
  /\ excuses' = IF indexedTo < heardTo THEN excuses \cup {"early"} ELSE excuses
  /\ UNCHANGED <<connVars, heardTo, changes, state, lock, wire>>

(* Mutant: the wait has no deadline.                                       *)
MutWaitTimeout == FALSE

(* The deadline of two seconds.                                            *)
WaitTimeout ==
  /\ notifier.pc = "wait" /\ ~Ready
  /\ notifier' = [notifier EXCEPT !.pc = "header"]
  /\ excuses' = IF indexedTo < heardTo THEN excuses \cup {"missed"} ELSE excuses
  /\ UNCHANGED <<connVars, heardTo, changes, state, lock, wire>>

(* current_headers: of the event itself, or read back; None if that fails. *)
ReadHeader ==
  /\ notifier.pc = "header"
  /\ \E hd \in IF Type(heardTo) = "Connected"
               THEN {<<Log[heardTo].height, Log[heardTo].block>>}
               ELSE CurrentHeader \cup {NoHeader} :
       notifier' = [notifier EXCEPT !.pc = "scripts", !.header = hd]
  /\ UNCHANGED <<connVars, heardTo, changes, state, lock, wire, excuses>>

(* The lock is held over the whole loop.                                   *)
ScanStart ==
  /\ notifier.pc = "scripts" /\ lock = "free"
  /\ lock' = "notifier"
  /\ notifier' = [notifier EXCEPT !.pc = "scan", !.left = state.scripts \cap notifier.scope]
  /\ UNCHANGED <<connVars, heardTo, changes, state, wire, excuses>>

(* script_status, first read: the index may change before the second.      *)
ScanHistory(sh) ==
  /\ notifier.pc = "scan" /\ notifier.script = {} /\ sh \in notifier.left
  /\ notifier' = [notifier EXCEPT !.script = {sh}, !.history = GetHistory(sh)]
  /\ UNCHANGED <<connVars, heardTo, changes, state, lock, wire, excuses>>

Scanned(sh) ==
  [notifier EXCEPT !.script = {}, !.history = {}, !.left = notifier.left \ {sh}]

(* Mutant: only the mempool part is compared.                              *)
MutStatusDiffers(sh, st) == state.status[sh].mempool # st.mempool

(* The record of the script against the status just read.                  *)
StatusDiffers(sh, st) == state.status[sh] # st

(* Second read; a status that differs from the record is recorded and will *)
(* be sent.                                                                *)
ScanStatus(sh) ==
  /\ notifier.pc = "scan" /\ sh \in notifier.script
  /\ LET st == StatusOf(notifier.history, Pending(sh))
     IN IF StatusDiffers(sh, st)
        THEN /\ notifier' = [Scanned(sh) EXCEPT !.changed = notifier.changed \cup {<<sh, st>>}]
             /\ state' = [state EXCEPT !.status[sh] = st]
        ELSE /\ notifier' = Scanned(sh)
             /\ UNCHANGED state
  /\ UNCHANGED <<connVars, heardTo, changes, lock, wire, excuses>>

(* get_mempool cannot read a stored output: the script is skipped.         *)
ScanFails(sh) ==
  /\ notifier.pc = "scan" /\ sh \in notifier.script /\ Pending(sh) # {}
  /\ notifier' = Scanned(sh)
  /\ excuses' = excuses \cup {"missed"}
  /\ UNCHANGED <<connVars, heardTo, changes, state, lock, wire>>

ScanEnd ==
  /\ notifier.pc = "scan" /\ notifier.left = {} /\ notifier.script = {}
  /\ lock' = "free"
  /\ notifier' = [notifier EXCEPT !.pc = IF notifier.block THEN "headers" ELSE "write"]
  /\ UNCHANGED <<connVars, heardTo, changes, state, wire, excuses>>

(* Mutant: only the heights are compared.                                  *)
MutHeaderDiffers ==
  LET HeightOf(hd) == IF hd = NoHeader THEN 0 ELSE hd[1]
  IN HeightOf(state.header) # HeightOf(notifier.header)

(* The record of header_subscription against current_headers.              *)
HeaderDiffers == state.header # notifier.header

(* The second critical section.                                            *)
HeaderUpdate ==
  /\ notifier.pc = "headers" /\ lock = "free"
  /\ IF state.headers /\ HeaderDiffers
     THEN /\ state' = [state EXCEPT !.header = notifier.header]
          /\ notifier' = [notifier EXCEPT !.pc = "write", !.send = {notifier.header}]
     ELSE /\ notifier' = [notifier EXCEPT !.pc = "write"]
          /\ UNCHANGED state
  /\ UNCHANGED <<connVars, heardTo, changes, lock, wire, excuses>>

(* Once the client has hung up a write may fail: of a header, it ends the  *)
(* thread and closes its channels; of a status, the other statuses are     *)
(* dropped and the thread goes on.                                         *)
NotifyHeader ==
  /\ notifier.pc = "write"
  /\ \E hd \in notifier.send : WriteHeader(hd)
  /\ notifier' = [notifier EXCEPT !.send = {}]
  /\ UNCHANGED <<connVars, heardTo, changes, state, lock>>

NotifyHeaderFails ==
  /\ notifier.pc = "write" /\ notifier.send # {} /\ conn = "closed"
  /\ notifier' = [IdleNotifier EXCEPT !.pc = "ended"]
  /\ changes' = <<>>
  /\ UNCHANGED <<connVars, heardTo, state, lock, wire, excuses>>

NotifyStatus ==
  /\ notifier.pc = "write" /\ notifier.send = {}
  /\ \E c \in notifier.changed :
       /\ WriteStatus(c[1], c[2])
       /\ notifier' = [notifier EXCEPT !.changed = notifier.changed \ {c}]
  /\ UNCHANGED <<connVars, heardTo, changes, state, lock>>

NotifyStatusFails ==
  /\ notifier.pc = "write" /\ notifier.send = {} /\ notifier.changed # {}
  /\ conn = "closed"
  /\ notifier' = IdleNotifier
  /\ UNCHANGED <<connVars, heardTo, changes, state, lock, wire, excuses>>

NotifyEnd ==
  /\ notifier.pc = "write" /\ notifier.send = {} /\ notifier.changed = {}
  /\ notifier' = IdleNotifier
  /\ UNCHANGED <<connVars, heardTo, changes, state, lock, wire, excuses>>

Scan ==
  \/ ScanStart
  \/ \E sh \in ScriptHash : ScanHistory(sh) \/ ScanStatus(sh) \/ ScanFails(sh)
  \/ ScanEnd

Notify ==
  NotifyHeader \/ NotifyHeaderFails \/ NotifyStatus \/ NotifyStatusFails \/ NotifyEnd

Notifier ==
  \/ TakeEvent \/ TakeChange
  \/ WaitReady \/ WaitTimeout \/ ReadHeader
  \/ Scan \/ HeaderUpdate \/ Notify

-----------------------------------------------------------------------------
(* The request thread.  dispatch_request runs under the lock; the reply is *)
(* written after it is released.                                           *)

Request ==
  /\ conn = "open" /\ reader.pc = "idle" /\ lock = "free" /\ requests < MaxRequests
  /\ requests' = requests + 1

otherVars == <<indexVars, conn, heardTo, changes, notifier>>

(* handle_scripthash_subscribe, up to the first read of script_status      *)
Subscribe(sh) ==
  /\ Request
  /\ lock' = "reader"
  /\ state' = [state EXCEPT !.scripts = state.scripts \cup {sh}]
  /\ reader' = [IdleReader EXCEPT !.pc = "status", !.script = {sh}, !.history = GetHistory(sh)]
  /\ UNCHANGED <<otherVars, wire, excuses>>

SubscribeStatus(sh) ==
  /\ reader.pc = "status" /\ sh \in reader.script
  /\ LET st == StatusOf(reader.history, Pending(sh))
     IN /\ state' = [state EXCEPT !.status[sh] = st]
        /\ reader' = [reader EXCEPT !.pc = "reply", !.history = {}, !.status = {st}]
  /\ lock' = "free"
  /\ UNCHANGED <<otherVars, requests, wire, excuses>>

(* The error reply leaves the script subscribed.                           *)
SubscribeFails(sh) ==
  /\ reader.pc = "status" /\ sh \in reader.script /\ Pending(sh) # {}
  /\ reader' = IdleReader
  /\ lock' = "free"
  /\ UNCHANGED <<otherVars, state, requests, wire, excuses>>

(* handle_headers_subscribe *)
HeadersSubscribe ==
  /\ Request
  /\ \E hd \in CurrentHeader :
       /\ state' = [state EXCEPT !.headers = TRUE, !.header = hd]
       /\ reader' = [IdleReader EXCEPT !.pc = "reply", !.header = {hd}]
  /\ UNCHANGED <<otherVars, lock, wire, excuses>>

HeadersSubscribeFails ==
  /\ Request
  /\ state' = [state EXCEPT !.headers = TRUE]
  /\ UNCHANGED <<otherVars, lock, reader, wire, excuses>>

Reply ==
  /\ reader.pc = "reply"
  /\ \/ \E sh \in reader.script, st \in reader.status : WriteStatus(sh, st)
     \/ \E hd \in reader.header : WriteHeader(hd)
  /\ reader' = IdleReader
  /\ UNCHANGED <<otherVars, state, lock, requests>>

Answer ==
  \/ \E sh \in ScriptHash : SubscribeStatus(sh) \/ SubscribeFails(sh)
  \/ Reply

-----------------------------------------------------------------------------
Next ==
  \/ Publish \/ IndexStep
  \/ \E u \in Updater : Announce(u) \/ \E t \in Tx : Update(u, t)
  \/ Connect \/ Hangup
  \/ Notifier
  \/ \E sh \in ScriptHash : Subscribe(sh)
  \/ HeadersSubscribe \/ HeadersSubscribeFails
  \/ Answer

(* The threads run and the deadline passes; nothing obliges the network,   *)
(* the pool or the client to do anything.                                  *)
Spec ==
  /\ Init /\ [][Next]_vars
  /\ WF_vars(IndexStep) /\ WF_vars(Notifier) /\ WF_vars(Answer)
  /\ \A u \in Updater : WF_vars(Announce(u))

-----------------------------------------------------------------------------
(* Nothing is on its way to the client.                                    *)
Settled ==
  /\ indexedTo = published /\ heardTo = published /\ changes = <<>>
  /\ telling = [u \in Updater |-> {}]
  /\ notifier.pc = "idle" /\ reader.pc = "idle"

(* The client was told nothing of the script but its present status.       *)
StatusIsCurrent(sh) == wire.status[sh] \subseteq {ScriptStatus(sh)}

(* When nothing is on its way, the last status that the client was sent of *)
(* a script it subscribed to is the present one, although script_status    *)
(* reads the index twice and the index moves on while the notification     *)
(* thread waits, scans and writes.  Excused are a client that connected    *)
(* while the indexer was behind, a wait or a lookup that failed, a wait    *)
(* that ended too early, and a message that was overtaken between the lock *)
(* and the socket.                                                         *)
StatusCurrentAtRest ==
  Settled /\ conn = "open" /\ excuses = {} => \A sh \in state.scripts : StatusIsCurrent(sh)

(* wait_for_indexer_tip does not take an event for applied before it is,   *)
(* although it only compares heights and the indexer may be anywhere: a    *)
(* client to which nothing has gone wrong is never scanned for an event    *)
(* the indexer has yet to apply, unless that event comes out of order.     *)
WaitIsExact ==
  [][conn = "open" /\ excuses = {} /\ "early" \in excuses' => ~InOrder(heardTo)]_vars

(* When the events have ended and nothing is on its way, the last header   *)
(* that the client was sent is that of the indexed tip, although the       *)
(* header is taken before the lock, from the event or from nakamoto, whose *)
(* tree may be ahead of the index.  Excused as above.                      *)
HeaderCurrentAtRest ==
  Settled /\ published = Len(Log) /\ conn = "open" /\ excuses = {} /\ state.headers
    => wire.header \subseteq CurrentHeader

(* A client that stays is, from some point on, always told the present     *)
(* status: the notification thread is never stuck waiting for a height     *)
(* that the indexer has already left behind.  Excused as above.            *)
StatusCatchesUp ==
  <>[](conn = "open" /\ excuses = {} => \A sh \in state.scripts : StatusIsCurrent(sh))

-----------------------------------------------------------------------------
(* What a comment of electrum_server.rs says and the code does not keep.   *)

(* handle_scripthash_subscribe (line 700) says that the client is          *)
(* registered for status changes: a change after the reply reaches it.     *)
(* Here also when the indexer was behind as the client connected.          *)
SubscriberIsTold ==
  Settled /\ conn = "open" /\ excuses \subseteq {"lagged"}
    => \A sh \in state.scripts : StatusIsCurrent(sh)
=============================================================================

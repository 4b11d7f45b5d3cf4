------------------------ MODULE ElectrumClientProofs ------------------------
(***************************************************************************)
(* Proofs about ElectrumClient: for any sequence of block events, any      *)
(* scripts and any number of threads that change the pending pool, a       *)
(* client to which nothing went wrong knows the present status of its      *)
(* scripts and the present tip whenever nothing is on its way to it.       *)
(***************************************************************************)
EXTENDS ElectrumClient, SequenceTheorems, WellFoundedInduction, TLAPS

-----------------------------------------------------------------------------
(* The inductive invariant.                                                *)

(* No event after the m-th up to the n-th is about a block.                *)
Quiet(m, n) == \A i \in (m + 1)..n : i \notin BlockEvents

(* Which thread holds the lock, and what each has in hand at which step.   *)
ControlOK ==
  /\ lock = "notifier" <=> notifier.pc = "scan"
  /\ lock = "reader" <=> reader.pc = "status"
  /\ notifier.pc = "idle" => notifier = IdleNotifier
  /\ notifier.pc = "ended" => conn = "closed"
  /\ notifier.pc \in {"wait", "header", "headers"} => notifier.block
  /\ notifier.block => notifier.scope = ScriptHash /\ heardTo \in BlockEvents
  /\ notifier.script \subseteq notifier.left /\ notifier.left \subseteq state.scripts
  /\ notifier.script # {} => notifier.pc = "scan"
  /\ \A sh1, sh2 \in notifier.script : sh1 = sh2
  /\ reader.pc = "idle" => reader = IdleReader
  /\ \A sh1, sh2 \in reader.script : sh1 = sh2
  /\ reader.script = {} \/ reader.header = {}
  /\ reader.script \subseteq state.scripts

(* Before the client connects nothing is sent to it.                       *)
UnconnectedOK ==
  conn = "none" => /\ notifier.pc = "idle" /\ reader.pc = "idle" /\ changes = <<>>
                   /\ wire = [status |-> [sh \in ScriptHash |-> {}], header |-> {}]
                   /\ excuses = {}

(* A client that the properties speak of.                                  *)
Watched == conn = "open" /\ excuses = {}

(* The indexer is past every block event that the notification thread has  *)
(* taken, except the one it waits for.                                     *)
HeardOK == Watched => Quiet(indexedTo, IF notifier.pc = "wait" THEN heardTo - 1 ELSE heardTo)

(* The notification thread has yet to take up a reason to look at sh.      *)
Later(sh) ==
  \/ ~Quiet(heardTo, published)
  \/ \E u \in Updater : sh \in telling[u]
  \/ \E i \in DOMAIN changes : sh \in changes[i]

(* It has taken up a reason and has yet to look at sh.                     *)
Planned(sh) ==
  \/ notifier.pc \in {"wait", "header"}
  \/ notifier.pc = "scripts" /\ sh \in notifier.scope
  \/ notifier.pc = "scan" /\ sh \in notifier.left

Coming(sh) == Later(sh) \/ Planned(sh)

(* A status of sh was taken from the record and is still to be written.    *)
InFlight(sh) ==
  \/ \E st \in Status : <<sh, st>> \in notifier.changed
  \/ reader.pc = "reply" /\ sh \in reader.script

(* The client has been told of sh, or soon will be.                        *)
Told(sh) == wire.status[sh] # {} \/ InFlight(sh)

(* The record of a script the client was told of is the present status     *)
(* unless the notification thread will look at it again, and the last      *)
(* message is the record unless a newer one is on its way.                 *)
ScriptOK(sh) ==
  /\ Told(sh) => state.status[sh] = ScriptStatus(sh) \/ Coming(sh)
  /\ Told(sh) => sh \in state.scripts
  /\ wire.status[sh] \subseteq {state.status[sh]} \/ InFlight(sh)
  /\ sh \in notifier.script => notifier.history = GetHistory(sh) \/ Later(sh)
  /\ reader.pc = "status" /\ sh \in reader.script =>
       reader.history = GetHistory(sh) \/ Coming(sh)

StatusOK == Watched => \A sh \in ScriptHash : ScriptOK(sh)

EInv == TypeOK /\ ControlOK /\ UnconnectedOK /\ HeardOK /\ StatusOK

(* The same for the header.                                                *)
Final == HeaderAt(CHOOSE c \in Trees[Len(Log)] : TRUE, TipAfter[Len(Log)])

MoreBlocks == ~Quiet(heardTo, Len(Log))

HeaderComing ==
  \/ MoreBlocks
  \/ notifier.block /\ notifier.pc \in {"wait", "header", "scripts", "scan", "headers"}

HeaderInFlight == notifier.send # {} \/ reader.header # {}
HeaderTold == wire.header # {} \/ HeaderInFlight

HeaderOK ==
  Watched =>
    /\ notifier.block /\ notifier.pc \in {"scripts", "scan", "headers"} =>
         notifier.header = Final \/ MoreBlocks
    /\ HeaderTold => state.header = Final \/ HeaderComing
    /\ HeaderTold => state.headers
    /\ wire.header \subseteq {state.header} \/ HeaderInFlight

FInv == EInv /\ HeaderOK

-----------------------------------------------------------------------------
(* The index after each event.                                             *)

(* A set that has 0 and the successor of each of its members up to n has   *)
(* all numbers up to n.                                                    *)
LEMMA UpTo ==
  ASSUME NEW n \in Nat, NEW S, 0 \in S,
         \A i \in 0..(n - 1) : i \in S => i + 1 \in S
  PROVE  \A i \in 0..n : i \in S
<1> DEFINE R == {ss \in Nat \X Nat : ss[1] < ss[2]}
           T == {i \in 0..n : i \notin S}
<1>1. IsWellFoundedOn(R, Nat)
  <2>1. IsWellFoundedOn(OpToRel(<, Nat), Nat)
    BY NatLessThanWellFounded
  <2>2. OpToRel(<, Nat) = R
    BY DEF OpToRel
  <2> QED BY <2>1, <2>2
<1> SUFFICES ASSUME T # {} PROVE FALSE
  OBVIOUS
<1>2. T \subseteq Nat
  OBVIOUS
<1> HIDE DEF R, T
<1>3. PICK x \in T : \A y \in T : ~(<<y, x>> \in R)
  BY <1>1, <1>2, WFMin
<1>4. x \in 0..n /\ x \notin S
  BY <1>3 DEF T
<1>5. x # 0
  BY <1>4
<1>6. x - 1 \in 0..(n - 1) /\ x - 1 \notin S
  BY <1>4, <1>5
<1>7. x - 1 \in T
  BY <1>6 DEF T
<1>8. <<x - 1, x>> \in Nat \X Nat /\ <<x - 1, x>>[1] = x - 1 /\ <<x - 1, x>>[2] = x
  BY <1>4, <1>6
<1>9. <<x - 1, x>> \in R
  BY <1>4, <1>8 DEF R
<1> QED BY <1>3, <1>7, <1>9

(* The tip that event n makes of the tip t before it.                      *)
TipStep(n, t) ==
  CASE Type(n) = "Connected" -> Log[n].height
    [] Type(n) = "Disconnected" /\ t = Log[n].height ->
         IF Log[n].height = 0 THEN 0 ELSE Log[n].height - 1
    [] OTHER -> t

(* Every event is of one of three kinds, and block events are events.      *)
LEMMA LogType ==
  /\ Len(Log) \in Nat /\ DOMAIN Log = 1..Len(Log)
  /\ BlockEvents \subseteq 1..Len(Log)
  /\ \A n \in 1..Len(Log) : /\ Type(n) \in {"Connected", "Disconnected", "Synced"}
                            /\ n \in BlockEvents <=> Type(n) # "Synced"
BY ElectrumClientAssumption DEF Event, Type, BlockEvents

(* TipAfter satisfies its recursive definition.                            *)
LEMMA TipAfterUnfolds ==
  /\ TipAfter[0] = 0
  /\ \A n \in 1..Len(Log) : TipAfter[n] = TipStep(n, TipAfter[n - 1])
<1> DEFINE Body(f, n) == IF n = 0 THEN 0 ELSE TipStep(n, f[n - 1])
           Good(f, k) == \A n \in 0..k : f[n] = Body(f, n)
           S == {k \in Nat : \E f : f = [n \in 0..k |-> f[n]] /\ Good(f, k)}
<1>1. 0 \in S
  <2> DEFINE g == [n \in 0..0 |-> 0]
  <2>1. g = [n \in 0..0 |-> g[n]] /\ Good(g, 0)
    OBVIOUS
  <2> QED BY <2>1
<1>2. ASSUME NEW k \in 0..(Len(Log) - 1), k \in S PROVE k + 1 \in S
  <2>1. k \in Nat
    BY LogType
  <2>2. PICK f : f = [n \in 0..k |-> f[n]] /\ Good(f, k)
    BY <1>2
  <2> DEFINE g == [n \in 0..(k + 1) |-> IF n = k + 1 THEN TipStep(k + 1, f[k]) ELSE f[n]]
  <2>3. g = [n \in 0..(k + 1) |-> g[n]]
    OBVIOUS
  <2>4. \A n \in 0..k : g[n] = f[n]
    BY <2>1
  <2>5. g[k + 1] = TipStep(k + 1, f[k])
    BY <2>1
  <2> HIDE DEF g
  <2>6. ASSUME NEW n \in 0..(k + 1) PROVE g[n] = Body(g, n)
    <3>1. CASE n = k + 1
      <4>1. n - 1 = k /\ n # 0 /\ g[n - 1] = f[k]
        BY <2>1, <2>4, <3>1
      <4> QED BY <2>5, <3>1, <4>1
    <3>2. CASE n = 0
      <4>1. 0 \in 0..k /\ f[0] = 0
        BY <2>1, <2>2
      <4> QED BY <2>4, <3>2, <4>1
    <3>3. CASE n # 0 /\ n # k + 1
      <4>1. n \in 0..k /\ n - 1 \in 0..k
        BY <2>1, <3>3
      <4> QED BY <2>2, <2>4, <3>3, <4>1
    <3> QED BY <3>1, <3>2, <3>3
  <2>7. k + 1 \in Nat /\ Good(g, k + 1)
    BY <2>1, <2>6
  <2> QED BY <2>3, <2>7
<1> DEFINE Defined(f) == f = [n \in 0..Len(Log) |->
                                IF n = 0 THEN 0
                                ELSE CASE Type(n) = "Connected" -> Log[n].height
                                       [] Type(n) = "Disconnected" /\ f[n - 1] = Log[n].height ->
                                            IF Log[n].height = 0 THEN 0 ELSE Log[n].height - 1
                                       [] OTHER -> f[n - 1]]
<1>3. \E f : Defined(f)
  <2>1. Len(Log) \in S
    <3> HIDE DEF S
    <3>1. \A i \in 0..Len(Log) : i \in S
      BY <1>1, <1>2, LogType, UpTo
    <3> QED BY <3>1, LogType
  <2>2. PICK f : f = [n \in 0..Len(Log) |-> f[n]] /\ Good(f, Len(Log))
    BY <2>1
  <2>3. f = [n \in 0..Len(Log) |-> Body(f, n)]
    BY <2>2
  <2>4. Defined(f)
    BY <2>3 DEF TipStep
  <2> QED BY <2>4
<1>4. TipAfter = CHOOSE f : Defined(f)
  BY DEF TipAfter
<1> HIDE DEF Defined
<1>5. Defined(TipAfter)
  BY <1>3, <1>4
<1>6. TipAfter = [n \in 0..Len(Log) |-> Body(TipAfter, n)]
  BY <1>5 DEF Defined, TipStep
<1>7. \A n \in 0..Len(Log) : TipAfter[n] = Body(TipAfter, n)
  BY <1>6, Zenon
<1>8. 0 \in 0..Len(Log) /\ \A n \in 1..Len(Log) : n \in 0..Len(Log) /\ n # 0
  BY LogType
<1> QED BY <1>7, <1>8

(* A block event has a block and a height.                                 *)
LEMMA BlockEventType ==
  ASSUME NEW n \in BlockEvents
  PROVE  /\ n \in 1..Len(Log) /\ n - 1 \in 0..Len(Log)
         /\ Log[n].height \in Nat /\ Log[n].block \in DOMAIN BlockTxs
<1>1. n \in 1..Len(Log) /\ n - 1 \in 0..Len(Log) /\ Type(n) # "Synced"
  BY LogType
<1>2. Log[n] \in Event
  BY <1>1, ElectrumClientAssumption
<1> QED BY <1>1, <1>2 DEF Event, Type

(* The tip is a height.                                                    *)
LEMMA TipAfterType ==
  ASSUME NEW n \in 0..Len(Log)
  PROVE  TipAfter[n] \in Nat
<1> DEFINE S == {k \in 0..Len(Log) : TipAfter[k] \in Nat}
<1>1. 0 \in S
  BY TipAfterUnfolds, LogType
<1>2. ASSUME NEW k \in 0..(Len(Log) - 1), k \in S PROVE k + 1 \in S
  <2>1. k + 1 \in 1..Len(Log) /\ k + 1 \in 0..Len(Log) /\ (k + 1) - 1 = k
    BY LogType
  <2>2. TipAfter[k + 1] = TipStep(k + 1, TipAfter[k]) /\ TipAfter[k] \in Nat
    BY <1>2, <2>1, TipAfterUnfolds
  <2>3. k + 1 \in BlockEvents => Log[k + 1].height \in Nat
    BY BlockEventType
  <2>4. k + 1 \in BlockEvents \/ Type(k + 1) = "Synced"
    BY <2>1, LogType
  <2>5. TipStep(k + 1, TipAfter[k]) \in Nat
    BY <2>2, <2>3, <2>4 DEF TipStep
  <2> QED BY <2>1, <2>2, <2>5
<1> HIDE DEF S
<1>3. n \in S
  BY <1>1, <1>2, LogType, UpTo
<1> QED BY <1>3 DEF S

(* An event that is not about a block leaves the index as it is.           *)
LEMMA QuietStep ==
  ASSUME NEW n \in 1..Len(Log), n \notin BlockEvents
  PROVE  TipAfter[n] = TipAfter[n - 1] /\ Applied(n) = Applied(n - 1)
<1>1. Type(n) = "Synced" /\ n \in Nat
  BY LogType
<1>2. TipAfter[n] = TipAfter[n - 1]
  BY <1>1, TipAfterUnfolds DEF TipStep
<1>3. ASSUME NEW i \in 1..n PROVE i \in Applied(n) <=> i \in Applied(n - 1)
  <2>1. CASE i = n
    BY <1>1, <2>1 DEF Applied
  <2>2. CASE i # n
    <3>1. i \in 1..(n - 1)
      BY <1>1, <2>2
    <3>2. \A j \in i..n : j = n \/ j \in i..(n - 1)
      BY <1>1
    <3>3. \A j \in i..(n - 1) : j \in i..n
      BY <1>1
    <3> QED BY <1>1, <3>1, <3>2, <3>3 DEF Applied
  <2> QED BY <2>1, <2>2
<1>4. Applied(n) \subseteq 1..n /\ Applied(n - 1) \subseteq 1..n
  BY <1>1 DEF Applied
<1> QED BY <1>2, <1>3, <1>4

(* Events that are not about blocks leave the tip as it is.                *)
LEMMA QuietSame ==
  ASSUME NEW m \in 0..Len(Log), NEW n \in 0..Len(Log), m <= n, Quiet(m, n)
  PROVE  TipAfter[n] = TipAfter[m]
<1> DEFINE S == {i \in Nat : m + i <= n => TipAfter[m + i] = TipAfter[m]}
<1>1. 0 \in S
  BY LogType
<1>2. ASSUME NEW i \in 0..((n - m) - 1), i \in S PROVE i + 1 \in S
  <2>1. i \in Nat /\ m \in Nat /\ n \in Nat /\ m + i + 1 <= n /\ n <= Len(Log)
    BY LogType
  <2>2. m + i + 1 \in 1..Len(Log) /\ m + i + 1 \in (m + 1)..n /\ (m + i + 1) - 1 = m + i
    BY <2>1, LogType
  <2>3. TipAfter[m + i + 1] = TipAfter[m + i]
    BY <2>2, QuietStep DEF Quiet
  <2>4. TipAfter[m + i] = TipAfter[m] /\ m + (i + 1) = m + i + 1
    BY <1>2, <2>1
  <2> QED BY <2>1, <2>3, <2>4
<1>3. n - m \in Nat /\ n - m \in 0..(n - m) /\ m + (n - m) = n /\ n <= n
  BY LogType
<1>4. n - m \in S
  <2> HIDE DEF S
  <2> QED BY <1>1, <1>2, <1>3, UpTo
<1> QED BY <1>3, <1>4

-----------------------------------------------------------------------------
(* What the queries return.                                                *)

(* What a header query may return is a header.                             *)
LEMMA HeaderType ==
  /\ NoHeader \in Header
  /\ \A n \in 0..Len(Log) : \A c \in Trees[n] : \A h : HeaderAt(c, h) \in Header
<1>1. ASSUME NEW n \in 0..Len(Log), NEW c \in Trees[n], NEW h, h \in DOMAIN c
      PROVE  <<h, c[h]>> \in Header
  <2>1. c \in [DOMAIN c -> DOMAIN BlockTxs] /\ DOMAIN c \subseteq Nat
    BY ElectrumClientAssumption
  <2>2. h \in Nat /\ c[h] \in DOMAIN BlockTxs
    BY <1>1, <2>1
  <2> QED BY <2>2 DEF Header
<1> QED BY <1>1 DEF Header, HeaderAt

(* A status made of two reads is a status.                                 *)
LEMMA StatusType ==
  ASSUME NEW h \in SUBSET Entry, NEW m \in SUBSET Tx
  PROVE  StatusOf(h, m) \in Status
BY DEF Status, StatusOf

(* The queries return histories, sets of transactions and headers.         *)
LEMMA QueryTypes ==
  ASSUME TypeOK
  PROVE  /\ Tip \in Nat
         /\ \A sh \in ScriptHash : GetHistory(sh) \in SUBSET Entry /\ Pending(sh) \in SUBSET Tx
         /\ CurrentHeader \subseteq Header
         /\ heardTo \in BlockEvents /\ Type(heardTo) = "Connected" =>
              <<Log[heardTo].height, Log[heardTo].block>> \in Header
<1>1. published \in 0..Len(Log) /\ indexedTo \in 0..Len(Log)
  BY LogType DEF TypeOK
<1>2. Tip \in Nat
  BY <1>1, TipAfterType DEF Tip
<1>3. ASSUME NEW sh \in ScriptHash
      PROVE  GetHistory(sh) \in SUBSET Entry /\ Pending(sh) \in SUBSET Tx
  <2>1. Pending(sh) \in SUBSET Tx
    BY DEF Pending, TypeOK
  <2> DEFINE H == {Log[i].height : i \in Applied(indexedTo)}
  <2>2. H \subseteq Nat /\ 1..Len(Log) \subseteq Nat
    <3>1. \A i \in Applied(indexedTo) : i \in BlockEvents
      BY <1>1, LogType DEF Applied
    <3> QED BY <3>1, BlockEventType
  <2>3. Confirmed(sh) \subseteq Tx \X H \X (1..Len(Log))
    BY DEF Confirmed
  <2> HIDE DEF H
  <2>4. Confirmed(sh) \subseteq Entry
    BY <2>2, <2>3 DEF Entry
  <2>5. \A t \in Tx : <<t, 0, 1>> \in Entry
    BY DEF Entry
  <2> QED BY <2>1, <2>4, <2>5 DEF GetHistory
<1>4. CurrentHeader \subseteq Header
  BY <1>1, HeaderType DEF CurrentHeader
<1>5. ASSUME heardTo \in BlockEvents
      PROVE  <<Log[heardTo].height, Log[heardTo].block>> \in Header
  BY <1>5, BlockEventType DEF Header
<1> QED BY <1>2, <1>3, <1>4, <1>5

-----------------------------------------------------------------------------
(* The two steps that change the record of the client, field by field.     *)

(* The second read of script_status, whether or not the status differs.    *)
LEMMA ScanStatusFields ==
  ASSUME TypeOK, NEW sh \in ScriptHash, ScanStatus(sh)
  PROVE  /\ notifier' = [notifier EXCEPT !.script = {}, !.history = {},
                                         !.left = notifier.left \ {sh},
                                         !.changed = notifier'.changed]
         /\ state' = [state EXCEPT !.status = state'.status]
         /\ state'.status = [state.status EXCEPT ![sh] = StatusOf(notifier.history, Pending(sh))]
         /\ \/ /\ state'.status = state.status
               /\ notifier'.changed = notifier.changed
            \/ notifier'.changed = notifier.changed
                 \cup {<<sh, StatusOf(notifier.history, Pending(sh))>>}
<1> DEFINE st == StatusOf(notifier.history, Pending(sh))
<1>1. \/ st = state.status[sh] /\ notifier' = Scanned(sh) /\ state' = state
      \/ /\ notifier' = [Scanned(sh) EXCEPT !.changed = notifier.changed \cup {<<sh, st>>}]
         /\ state' = [state EXCEPT !.status[sh] = st]
  BY DEF ScanStatus, StatusDiffers
<1> HIDE DEF st
<1>2. CASE st = state.status[sh] /\ notifier' = Scanned(sh) /\ state' = state
  BY <1>2 DEF TypeOK, NotifierState, ClientState, Scanned, st
<1>3. CASE /\ notifier' = [Scanned(sh) EXCEPT !.changed = notifier.changed \cup {<<sh, st>>}]
           /\ state' = [state EXCEPT !.status[sh] = st]
  BY <1>3 DEF TypeOK, NotifierState, ClientState, Scanned, st
<1> QED BY <1>1, <1>2, <1>3

(* The fields that the second read leaves alone.                           *)
LEMMA ScanFields ==
  ASSUME TypeOK, NEW sh \in ScriptHash, ScanStatus(sh)
  PROVE  /\ notifier'.pc = notifier.pc /\ notifier'.block = notifier.block
         /\ notifier'.scope = notifier.scope /\ notifier'.script = {}
         /\ notifier'.left = notifier.left \ {sh}
         /\ notifier'.header = notifier.header /\ notifier'.send = notifier.send
         /\ state'.scripts = state.scripts
         /\ state'.headers = state.headers /\ state'.header = state.header
<1> DEFINE n == notifier.left \ {sh}
<1>1. notifier' = [notifier EXCEPT !.script = {}, !.history = {}, !.left = n,
                                   !.changed = notifier'.changed]
  BY ScanStatusFields
<1> HIDE DEF n
<1>2. /\ notifier'.pc = notifier.pc /\ notifier'.block = notifier.block
      /\ notifier'.scope = notifier.scope /\ notifier'.script = {} /\ notifier'.left = n
      /\ notifier'.header = notifier.header /\ notifier'.send = notifier.send
  BY <1>1 DEF TypeOK, NotifierState
<1>3. /\ state'.scripts = state.scripts
      /\ state'.headers = state.headers /\ state'.header = state.header
  BY ScanStatusFields DEF TypeOK, ClientState
<1> QED BY <1>2, <1>3 DEF n

(* The second critical section of the notification thread.                 *)
LEMMA HeaderUpdateFields ==
  ASSUME TypeOK, HeaderUpdate
  PROVE  /\ notifier' = [notifier EXCEPT !.pc = "write", !.send = notifier'.send]
         /\ state' = [state EXCEPT !.header = state'.header]
         /\ \/ /\ state.headers
               /\ state'.header = notifier.header /\ notifier'.send = {notifier.header}
            \/ /\ state.headers => state.header = notifier.header
               /\ state'.header = state.header /\ notifier'.send = notifier.send
<1>1. CASE state.headers /\ HeaderDiffers
  BY <1>1 DEF TypeOK, NotifierState, ClientState, HeaderUpdate
<1>2. CASE ~(state.headers /\ HeaderDiffers)
  BY <1>2 DEF TypeOK, NotifierState, ClientState, HeaderUpdate, HeaderDiffers
<1> QED BY <1>1, <1>2

-----------------------------------------------------------------------------
(* Types.                                                                  *)

(* Every step keeps the types.                                             *)
LEMMA TypeStep == ASSUME TypeOK, ControlOK, [Next]_vars PROVE TypeOK'
<1>1. ASSUME Publish PROVE TypeOK'
  BY <1>1, LogType DEF TypeOK, Publish, indexVars
<1>2. ASSUME IndexStep PROVE TypeOK'
  BY <1>2, LogType DEF TypeOK, IndexStep, indexVars
<1>3. ASSUME NEW u \in Updater, Announce(u) PROVE TypeOK'
  BY <1>3 DEF TypeOK, Announce, indexVars
<1>4. ASSUME NEW u \in Updater, NEW t \in Tx, Update(u, t) PROVE TypeOK'
  BY <1>4, ElectrumClientAssumption DEF TypeOK, Update, indexVars
<1>5. ASSUME Connect PROVE TypeOK'
  BY <1>5, LogType DEF TypeOK, Connect, indexVars
<1>6. ASSUME Hangup PROVE TypeOK'
  BY <1>6 DEF TypeOK, Hangup, indexVars
<1>7. ASSUME TakeEvent PROVE TypeOK'
  <2>1. notifier' \in NotifierState
    BY <1>7, HeaderType DEF TypeOK, NotifierState, TakeEvent, IdleNotifier
  <2> QED BY <1>7, <2>1, LogType DEF TypeOK, TakeEvent, connVars, indexVars
<1>8. ASSUME TakeChange PROVE TypeOK'
  <2>1. notifier' \in NotifierState
    <3>1. changes # <<>> => Head(changes) \in SUBSET ScriptHash
      BY DEF TypeOK
    <3> QED BY <1>8, <3>1, HeaderType DEF TypeOK, NotifierState, TakeChange, IdleNotifier
  <2> QED BY <1>8, <2>1 DEF TypeOK, TakeChange, connVars, indexVars
<1>9. ASSUME WaitReady PROVE TypeOK'
  <2>1. notifier' \in NotifierState
    BY <1>9 DEF TypeOK, NotifierState, WaitReady
  <2> QED BY <1>9, <2>1 DEF TypeOK, WaitReady, connVars, indexVars
<1>10. ASSUME WaitTimeout PROVE TypeOK'
  <2>1. notifier' \in NotifierState
    BY <1>10 DEF TypeOK, NotifierState, WaitTimeout
  <2> QED BY <1>10, <2>1 DEF TypeOK, WaitTimeout, connVars, indexVars
<1>11. ASSUME ReadHeader PROVE TypeOK'
  <2>1. notifier' \in NotifierState
    <3>1. PICK hd \in IF Type(heardTo) = "Connected"
                      THEN {<<Log[heardTo].height, Log[heardTo].block>>}
                      ELSE CurrentHeader \cup {NoHeader} :
                 notifier' = [notifier EXCEPT !.pc = "scripts", !.header = hd]
      BY <1>11 DEF ReadHeader
    <3>2. heardTo \in BlockEvents
      BY <1>11 DEF ReadHeader, ControlOK
    <3>3. hd \in Header
      BY <3>1, <3>2, QueryTypes, HeaderType
    <3> QED BY <3>1, <3>3 DEF TypeOK, NotifierState
  <2> QED BY <1>11, <2>1 DEF TypeOK, ReadHeader, ControlOK, connVars, indexVars
<1>12. ASSUME ScanStart PROVE TypeOK'
  <2>1. notifier' \in NotifierState
    BY <1>12 DEF TypeOK, NotifierState, ClientState, ScanStart
  <2> QED BY <1>12, <2>1 DEF TypeOK, ScanStart, connVars, indexVars
<1>13. ASSUME NEW sh \in ScriptHash, ScanHistory(sh) PROVE TypeOK'
  <2>1. notifier' \in NotifierState
    BY <1>13, QueryTypes DEF TypeOK, NotifierState, ScanHistory
  <2> QED BY <1>13, <2>1 DEF TypeOK, ScanHistory, connVars, indexVars
<1>14. ASSUME NEW sh \in ScriptHash, ScanStatus(sh) PROVE TypeOK'
  <2>1. notifier' \in NotifierState
    <3> DEFINE st == StatusOf(notifier.history, Pending(sh))
    <3>1. st \in Status
      BY QueryTypes, StatusType DEF TypeOK, NotifierState
    <3> HIDE DEF st
    <3>2. \/ notifier' = Scanned(sh)
          \/ notifier' = [Scanned(sh) EXCEPT !.changed = notifier.changed \cup {<<sh, st>>}]
      BY <1>14 DEF ScanStatus, st
    <3>3. Scanned(sh) \in NotifierState
      BY DEF TypeOK, NotifierState, Scanned
    <3>4. notifier.changed \cup {<<sh, st>>} \in SUBSET (ScriptHash \X Status)
      BY <3>1 DEF TypeOK, NotifierState
    <3> QED BY <3>2, <3>3, <3>4 DEF NotifierState
  <2>2. state' \in ClientState
    <3> DEFINE st == StatusOf(notifier.history, Pending(sh))
    <3>1. st \in Status
      BY QueryTypes, StatusType DEF TypeOK, NotifierState
    <3>2. /\ state' = [state EXCEPT !.status = state'.status]
          /\ state'.status = [state.status EXCEPT ![sh] = st]
      BY <1>14, ScanStatusFields
    <3> HIDE DEF st
    <3>3. state'.status \in [ScriptHash -> Status]
      BY <3>1, <3>2 DEF TypeOK, ClientState
    <3> QED BY <3>2, <3>3 DEF TypeOK, ClientState
  <2> QED BY <1>14, <2>1, <2>2 DEF TypeOK, ScanStatus, connVars, indexVars
<1>15. ASSUME NEW sh \in ScriptHash, ScanFails(sh) PROVE TypeOK'
  <2>1. notifier' \in NotifierState
    BY <1>15 DEF TypeOK, NotifierState, ScanFails, Scanned
  <2> QED BY <1>15, <2>1 DEF TypeOK, ScanFails, connVars, indexVars
<1>16. ASSUME ScanEnd PROVE TypeOK'
  <2>1. notifier' \in NotifierState
    BY <1>16 DEF TypeOK, NotifierState, ScanEnd
  <2> QED BY <1>16, <2>1 DEF TypeOK, ScanEnd, connVars, indexVars
<1>17. ASSUME HeaderUpdate PROVE TypeOK'
  <2>1. notifier' \in NotifierState
    <3>1. \/ notifier' = [notifier EXCEPT !.pc = "write"]
          \/ notifier' = [notifier EXCEPT !.pc = "write", !.send = {notifier.header}]
      BY <1>17 DEF HeaderUpdate
    <3>2. {notifier.header} \in SUBSET Header
      BY DEF TypeOK, NotifierState
    <3> QED BY <3>1, <3>2 DEF TypeOK, NotifierState
  <2>2. state' \in ClientState
    BY <1>17 DEF TypeOK, ClientState, NotifierState, HeaderUpdate
  <2> QED BY <1>17, <2>1, <2>2 DEF TypeOK, HeaderUpdate, connVars, indexVars
<1>18. ASSUME NotifyHeader PROVE TypeOK'
  <2>1. notifier' \in NotifierState
    BY <1>18 DEF TypeOK, NotifierState, NotifyHeader, WriteHeader
  <2>2. wire' \in Wire
    <3>1. PICK hd \in notifier.send : WriteHeader(hd)
      BY <1>18 DEF NotifyHeader
    <3>2. hd \in Header
      BY DEF TypeOK, NotifierState
    <3> QED BY <3>1, <3>2 DEF TypeOK, Wire, WriteHeader
  <2> QED BY <1>18, <2>1, <2>2 DEF TypeOK, NotifyHeader, WriteHeader, connVars, indexVars
<1>19. ASSUME NotifyHeaderFails PROVE TypeOK'
  <2>1. notifier' \in NotifierState
    BY <1>19, HeaderType DEF TypeOK, NotifierState, NotifyHeaderFails, IdleNotifier
  <2> QED BY <1>19, <2>1 DEF TypeOK, NotifyHeaderFails, connVars, indexVars
<1>20. ASSUME NotifyStatus PROVE TypeOK'
  <2>1. notifier' \in NotifierState
    <3>1. PICK c : notifier' = [notifier EXCEPT !.changed = notifier.changed \ {c}]
      BY <1>20 DEF NotifyStatus
    <3> QED BY <3>1 DEF TypeOK, NotifierState
  <2>2. wire' \in Wire
    BY <1>20 DEF TypeOK, Wire, NotifierState, NotifyStatus, WriteStatus
  <2> QED BY <1>20, <2>1, <2>2 DEF TypeOK, NotifyStatus, WriteStatus, connVars, indexVars
<1>21. ASSUME NotifyStatusFails PROVE TypeOK'
  <2>1. notifier' \in NotifierState
    BY <1>21, HeaderType DEF TypeOK, NotifierState, NotifyStatusFails, IdleNotifier
  <2> QED BY <1>21, <2>1 DEF TypeOK, NotifyStatusFails, connVars, indexVars
<1>22. ASSUME NotifyEnd PROVE TypeOK'
  <2>1. notifier' \in NotifierState
    BY <1>22, HeaderType DEF TypeOK, NotifierState, NotifyEnd, IdleNotifier
  <2> QED BY <1>22, <2>1 DEF TypeOK, NotifyEnd, connVars, indexVars
<1>23. ASSUME NEW sh \in ScriptHash, Subscribe(sh) PROVE TypeOK'
  <2>1. state' \in ClientState
    BY <1>23, QueryTypes DEF TypeOK, ClientState, Subscribe, Request, otherVars, IdleReader
  <2>2. reader' \in ReaderState
    BY <1>23, QueryTypes DEF TypeOK, ReaderState, Subscribe, Request, otherVars, IdleReader
  <2> QED BY <1>23, ElectrumClientAssumption, <2>1, <2>2 DEF TypeOK, Subscribe, Request,
             otherVars, indexVars
<1>24. ASSUME NEW sh \in ScriptHash, SubscribeStatus(sh) PROVE TypeOK'
  <2>1. state' \in ClientState
    BY <1>24, QueryTypes, StatusType DEF TypeOK, ClientState, ReaderState, SubscribeStatus,
       otherVars
  <2>2. reader' \in ReaderState
    BY <1>24, QueryTypes, StatusType DEF TypeOK, ReaderState, SubscribeStatus, otherVars
  <2> QED BY <1>24, <2>1, <2>2 DEF TypeOK, SubscribeStatus, otherVars, indexVars
<1>25. ASSUME NEW sh \in ScriptHash, SubscribeFails(sh) PROVE TypeOK'
  <2>1. reader' \in ReaderState
    BY <1>25 DEF TypeOK, ReaderState, SubscribeFails, otherVars, IdleReader
  <2> QED BY <1>25, <2>1 DEF TypeOK, SubscribeFails, otherVars, indexVars
<1>26. ASSUME HeadersSubscribe PROVE TypeOK'
  <2>1. state' \in ClientState
    BY <1>26, QueryTypes DEF TypeOK, ClientState, HeadersSubscribe, Request, otherVars,
       IdleReader
  <2>2. reader' \in ReaderState
    <3>1. PICK hd \in CurrentHeader :
                 reader' = [IdleReader EXCEPT !.pc = "reply", !.header = {hd}]
      BY <1>26 DEF HeadersSubscribe
    <3>2. hd \in Header
      BY QueryTypes
    <3> QED BY <3>1, <3>2 DEF ReaderState, IdleReader
  <2> QED BY <1>26, ElectrumClientAssumption, <2>1, <2>2 DEF TypeOK, HeadersSubscribe,
             Request, otherVars, indexVars
<1>27. ASSUME HeadersSubscribeFails PROVE TypeOK'
  <2>1. state' \in ClientState
    BY <1>27 DEF TypeOK, ClientState, HeadersSubscribeFails, Request, otherVars
  <2> QED BY <1>27, ElectrumClientAssumption, <2>1 DEF TypeOK, HeadersSubscribeFails, Request,
             otherVars, indexVars
<1>28. ASSUME Reply PROVE TypeOK'
  <2>1. reader' \in ReaderState
    BY <1>28 DEF TypeOK, ReaderState, Reply, otherVars, IdleReader, WriteStatus, WriteHeader
  <2>2. wire' \in Wire
    BY <1>28 DEF TypeOK, Wire, ReaderState, Reply, otherVars, IdleReader, WriteStatus,
       WriteHeader
  <2> QED BY <1>28, <2>1, <2>2 DEF TypeOK, Reply, otherVars, WriteStatus, WriteHeader, indexVars
<1>29. ASSUME UNCHANGED vars PROVE TypeOK'
  BY <1>29 DEF TypeOK, vars, indexVars
<1> QED BY <1>1, <1>2, <1>3, <1>4, <1>5, <1>6, <1>7, <1>8, <1>9, <1>10, <1>11, <1>12, <1>13,
           <1>14, <1>15, <1>16, <1>17, <1>18, <1>19, <1>20, <1>21, <1>22, <1>23, <1>24, <1>25,
           <1>26, <1>27, <1>28, <1>29
  DEF Next, Notifier, Scan, Notify, Answer

-----------------------------------------------------------------------------
(* The lock and the steps of the two threads.                              *)

(* Every step keeps the lock and the two threads in order.                 *)
LEMMA ControlStep == ASSUME TypeOK, ControlOK, UnconnectedOK, [Next]_vars PROVE ControlOK'
<1>1. ASSUME Publish PROVE ControlOK'
  BY <1>1 DEF ControlOK, Publish
<1>2. ASSUME IndexStep PROVE ControlOK'
  BY <1>2 DEF ControlOK, IndexStep
<1>3. ASSUME NEW u \in Updater, Announce(u) PROVE ControlOK'
  BY <1>3 DEF ControlOK, Announce
<1>4. ASSUME NEW u \in Updater, NEW t \in Tx, Update(u, t) PROVE ControlOK'
  BY <1>4 DEF ControlOK, Update
<1>5. ASSUME Connect PROVE ControlOK'
  BY <1>5 DEF ControlOK, UnconnectedOK, Connect, IdleNotifier
<1>6. ASSUME Hangup PROVE ControlOK'
  BY <1>6 DEF ControlOK, Hangup
<1>7. ASSUME TakeEvent PROVE ControlOK'
  BY <1>7 DEF ControlOK, TypeOK, NotifierState, TakeEvent, IdleNotifier, connVars
<1>8. ASSUME TakeChange PROVE ControlOK'
  BY <1>8 DEF ControlOK, TypeOK, NotifierState, TakeChange, IdleNotifier, connVars
<1>9. ASSUME WaitReady PROVE ControlOK'
  BY <1>9 DEF ControlOK, TypeOK, NotifierState, WaitReady, connVars
<1>10. ASSUME WaitTimeout PROVE ControlOK'
  BY <1>10 DEF ControlOK, TypeOK, NotifierState, WaitTimeout, connVars
<1>11. ASSUME ReadHeader PROVE ControlOK'
  BY <1>11 DEF ControlOK, TypeOK, NotifierState, ReadHeader, connVars
<1>12. ASSUME ScanStart PROVE ControlOK'
  BY <1>12 DEF ControlOK, TypeOK, NotifierState, ScanStart, connVars
<1>13. ASSUME NEW sh \in ScriptHash, ScanHistory(sh) PROVE ControlOK'
  BY <1>13 DEF ControlOK, TypeOK, NotifierState, ScanHistory, connVars
<1>14. ASSUME NEW sh \in ScriptHash, ScanStatus(sh) PROVE ControlOK'
  <2>1. notifier.pc = "scan" /\ UNCHANGED <<lock, reader, conn, heardTo>>
    BY <1>14 DEF ScanStatus, connVars
  <2>2. /\ notifier'.pc = notifier.pc /\ notifier'.block = notifier.block
        /\ notifier'.scope = notifier.scope /\ notifier'.script = {}
        /\ notifier'.left \subseteq notifier.left /\ state'.scripts = state.scripts
    BY <1>14, ScanFields
  <2> QED BY <2>1, <2>2 DEF ControlOK
<1>15. ASSUME NEW sh \in ScriptHash, ScanFails(sh) PROVE ControlOK'
  BY <1>15 DEF ControlOK, TypeOK, NotifierState, ScanFails, Scanned, connVars
<1>16. ASSUME ScanEnd PROVE ControlOK'
  BY <1>16 DEF ControlOK, TypeOK, NotifierState, ScanEnd, connVars
<1>17. ASSUME HeaderUpdate PROVE ControlOK'
  <2>1. notifier.pc = "headers" /\ UNCHANGED <<lock, reader, conn, heardTo>>
    BY <1>17 DEF HeaderUpdate, connVars
  <2>2. /\ notifier'.pc = "write" /\ notifier'.block = notifier.block
        /\ notifier'.scope = notifier.scope /\ notifier'.script = notifier.script
        /\ notifier'.left = notifier.left /\ state'.scripts = state.scripts
    BY <1>17, HeaderUpdateFields DEF TypeOK, NotifierState, ClientState
  <2> QED BY <2>1, <2>2 DEF ControlOK
<1>18. ASSUME NotifyHeader PROVE ControlOK'
  BY <1>18 DEF ControlOK, TypeOK, NotifierState, Wire, NotifyHeader, WriteHeader, connVars
<1>19. ASSUME NotifyHeaderFails PROVE ControlOK'
  BY <1>19 DEF ControlOK, TypeOK, NotifierState, NotifyHeaderFails, IdleNotifier, connVars
<1>20. ASSUME NotifyStatus PROVE ControlOK'
  BY <1>20 DEF ControlOK, TypeOK, NotifierState, Wire, NotifyStatus, WriteStatus, connVars
<1>21. ASSUME NotifyStatusFails PROVE ControlOK'
  BY <1>21 DEF ControlOK, TypeOK, NotifierState, NotifyStatusFails, IdleNotifier, connVars
<1>22. ASSUME NotifyEnd PROVE ControlOK'
  BY <1>22 DEF ControlOK, TypeOK, NotifierState, NotifyEnd, IdleNotifier, connVars
<1>23. ASSUME NEW sh \in ScriptHash, Subscribe(sh) PROVE ControlOK'
  BY <1>23 DEF ControlOK, TypeOK, ClientState, ReaderState, Subscribe, Request, IdleReader,
     otherVars
<1>24. ASSUME NEW sh \in ScriptHash, SubscribeStatus(sh) PROVE ControlOK'
  BY <1>24 DEF ControlOK, TypeOK, ClientState, ReaderState, SubscribeStatus, otherVars
<1>25. ASSUME NEW sh \in ScriptHash, SubscribeFails(sh) PROVE ControlOK'
  BY <1>25 DEF ControlOK, TypeOK, ReaderState, SubscribeFails, IdleReader, otherVars
<1>26. ASSUME HeadersSubscribe PROVE ControlOK'
  BY <1>26 DEF ControlOK, TypeOK, ClientState, ReaderState, HeadersSubscribe, Request,
     IdleReader, otherVars
<1>27. ASSUME HeadersSubscribeFails PROVE ControlOK'
  BY <1>27 DEF ControlOK, TypeOK, ClientState, HeadersSubscribeFails, Request, otherVars
<1>28. ASSUME Reply PROVE ControlOK'
  BY <1>28 DEF ControlOK, TypeOK, ReaderState, Wire, Reply, IdleReader, WriteStatus,
     WriteHeader, otherVars
<1>29. ASSUME UNCHANGED vars PROVE ControlOK'
  BY <1>29 DEF ControlOK, vars
<1> QED BY <1>1, <1>2, <1>3, <1>4, <1>5, <1>6, <1>7, <1>8, <1>9, <1>10, <1>11, <1>12, <1>13,
           <1>14, <1>15, <1>16, <1>17, <1>18, <1>19, <1>20, <1>21, <1>22, <1>23, <1>24, <1>25,
           <1>26, <1>27, <1>28, <1>29
  DEF Next, Notifier, Scan, Notify, Answer

-----------------------------------------------------------------------------
(* What the steps leave alone.                                             *)

(* Next in groups of steps that leave the same variables alone.            *)
ServerStep ==
  \/ Publish \/ IndexStep
  \/ \E u \in Updater : Announce(u) \/ \E t \in Tx : Update(u, t)

ReaderStep ==
  \/ \E sh \in ScriptHash : Subscribe(sh)
  \/ HeadersSubscribe \/ HeadersSubscribeFails
  \/ Answer

NotifierLater ==
  WaitReady \/ WaitTimeout \/ ReadHeader \/ Scan \/ HeaderUpdate \/ Notify

(* Every step is one of the rest of the server, of the connection or of    *)
(* one of its two threads.                                                 *)
LEMMA NextSplit ==
  Next <=> \/ ServerStep \/ Connect \/ Hangup \/ ReaderStep
           \/ TakeEvent \/ TakeChange \/ NotifierLater
BY DEF Next, ServerStep, ReaderStep, NotifierLater, Notifier

(* The rest of the server touches nothing of the connection.               *)
LEMMA ServerFrame ==
  ASSUME ServerStep
  PROVE  UNCHANGED <<conn, heardTo, state, lock, notifier, reader, requests, wire, excuses>>
BY DEF ServerStep, Publish, IndexStep, Announce, Update

(* The request thread touches neither the index nor the notification       *)
(* thread.                                                                 *)
LEMMA ReaderFrame ==
  ASSUME ReaderStep
  PROVE  /\ UNCHANGED <<indexVars, conn, heardTo, changes, notifier>>
         /\ excuses' = {} => excuses = {}
<1>1. UNCHANGED otherVars
  BY DEF ReaderStep, Answer, Subscribe, HeadersSubscribe, HeadersSubscribeFails,
         SubscribeStatus, SubscribeFails, Reply
<1>2. excuses' = {} => excuses = {}
  BY DEF ReaderStep, Answer, Subscribe, HeadersSubscribe, HeadersSubscribeFails,
         SubscribeStatus, SubscribeFails, Reply, WriteStatus, WriteHeader
<1> QED BY <1>1, <1>2 DEF otherVars

(* The notification thread touches neither the index nor the request       *)
(* thread, and leaves the wait only by its end or its deadline.            *)
LEMMA NotifierFrame ==
  ASSUME TypeOK, NotifierLater
  PROVE  /\ UNCHANGED <<indexVars, conn, heardTo, reader>>
         /\ UNCHANGED changes \/ NotifyHeaderFails
         /\ excuses' = {} => excuses = {}
         /\ notifier.pc # "wait" \/ WaitReady \/ WaitTimeout
         /\ notifier'.pc # "wait"
<1>1. CASE WaitReady \/ WaitTimeout \/ ReadHeader
  BY <1>1 DEF WaitReady, WaitTimeout, ReadHeader, TypeOK, NotifierState, connVars
<1>2. CASE Scan
  <2>1. CASE ScanStart \/ ScanEnd
    BY <2>1 DEF ScanStart, ScanEnd, TypeOK, NotifierState, connVars
  <2>2. ASSUME NEW sh \in ScriptHash, ScanHistory(sh) \/ ScanFails(sh)
        PROVE  /\ UNCHANGED <<indexVars, conn, heardTo, reader, changes>>
               /\ excuses' = {} => excuses = {}
               /\ notifier.pc = "scan" /\ notifier'.pc = "scan"
    BY <2>2 DEF ScanHistory, ScanFails, Scanned, TypeOK, NotifierState, connVars
  <2>3. ASSUME NEW sh \in ScriptHash, ScanStatus(sh)
        PROVE  /\ UNCHANGED <<indexVars, conn, heardTo, reader, changes>>
               /\ excuses' = {} => excuses = {}
               /\ notifier.pc = "scan" /\ notifier'.pc = "scan"
    <3>1. /\ UNCHANGED <<indexVars, conn, heardTo, reader, changes, excuses>>
          /\ notifier.pc = "scan"
      BY <2>3 DEF ScanStatus, connVars
    <3>2. notifier'.pc = notifier.pc
      BY <2>3, ScanStatusFields DEF TypeOK, NotifierState
    <3> QED BY <3>1, <3>2
  <2> QED BY <1>2, <2>1, <2>2, <2>3 DEF Scan
<1>3. CASE HeaderUpdate
  <2>1. /\ UNCHANGED <<indexVars, conn, heardTo, reader, changes, excuses>>
        /\ notifier.pc = "headers"
    BY <1>3 DEF HeaderUpdate, connVars
  <2>2. notifier'.pc = "write"
    BY <1>3, HeaderUpdateFields DEF TypeOK, NotifierState
  <2> QED BY <2>1, <2>2
<1>4. CASE Notify
  <2>1. CASE NotifyHeader
    BY <2>1 DEF NotifyHeader, WriteHeader, TypeOK, NotifierState, connVars
  <2>2. CASE NotifyStatus
    BY <2>2 DEF NotifyStatus, WriteStatus, TypeOK, NotifierState, connVars
  <2>3. CASE NotifyHeaderFails
    BY <2>3 DEF NotifyHeaderFails, IdleNotifier, connVars
  <2>4. CASE NotifyStatusFails \/ NotifyEnd
    BY <2>4 DEF NotifyStatusFails, NotifyEnd, IdleNotifier, connVars
  <2> QED BY <1>4, <2>1, <2>2, <2>3, <2>4 DEF Notify
<1> QED BY <1>1, <1>2, <1>3, <1>4 DEF NotifierLater

(* Before the client connects only the rest of the server moves.           *)
LEMMA UnconnectedStep ==
  ASSUME TypeOK, ControlOK, UnconnectedOK, [Next]_vars
  PROVE  UnconnectedOK'
<1> SUFFICES ASSUME conn' = "none"
             PROVE  /\ notifier'.pc = "idle" /\ reader'.pc = "idle" /\ changes' = <<>>
                    /\ wire' = [status |-> [sh \in ScriptHash |-> {}], header |-> {}]
                    /\ excuses' = {}
  BY DEF UnconnectedOK
<1>1. CASE ServerStep
  <2>1. UNCHANGED <<conn, notifier, reader, wire, excuses>>
    BY <1>1, ServerFrame
  <2>2. changes' = changes
    BY <1>1, <2>1 DEF ServerStep, Publish, IndexStep, Announce, Update
  <2> QED BY <2>1, <2>2 DEF UnconnectedOK
<1>2. CASE ReaderStep
  <2>1. conn = "none" /\ reader.pc = "idle"
    BY <1>2, ReaderFrame DEF UnconnectedOK
  <2> QED BY <1>2, <2>1 DEF ReaderStep, Answer, Subscribe, HeadersSubscribe,
            HeadersSubscribeFails, Request, SubscribeStatus, SubscribeFails, Reply
<1>3. CASE NotifierLater
  <2>1. notifier.pc = "idle"
    BY <1>3, NotifierFrame DEF UnconnectedOK
  <2>2. notifier.pc # "idle"
    <3>1. CASE WaitReady \/ WaitTimeout \/ ReadHeader \/ HeaderUpdate
      BY <3>1 DEF WaitReady, WaitTimeout, ReadHeader, HeaderUpdate
    <3>2. CASE Scan
      BY <3>2 DEF Scan, ScanStart, ScanHistory, ScanStatus, ScanFails, ScanEnd
    <3>3. CASE Notify
      BY <3>3 DEF Notify, NotifyHeader, NotifyHeaderFails, NotifyStatus, NotifyStatusFails,
                  NotifyEnd
    <3> QED BY <1>3, <3>1, <3>2, <3>3 DEF NotifierLater
  <2> QED BY <2>1, <2>2
<1>4. CASE TakeEvent \/ TakeChange
  BY <1>4 DEF TakeEvent, TakeChange, connVars, UnconnectedOK
<1>5. CASE Connect \/ Hangup
  BY <1>5 DEF Connect, Hangup
<1>6. CASE UNCHANGED vars
  BY <1>6 DEF vars, UnconnectedOK
<1> QED BY <1>1, <1>2, <1>3, <1>4, <1>5, <1>6, NextSplit

(* Excuses are not withdrawn and a closed connection stays closed.         *)
LEMMA WatchedBefore ==
  ASSUME TypeOK, [Next]_vars, Watched'
  PROVE  Watched \/ Connect
<1>1. CASE ServerStep
  BY <1>1, ServerFrame DEF Watched
<1>2. CASE ReaderStep
  BY <1>2, ReaderFrame DEF Watched
<1>3. CASE NotifierLater
  BY <1>3, NotifierFrame DEF Watched
<1>4. CASE TakeEvent \/ TakeChange
  BY <1>4 DEF TakeEvent, TakeChange, connVars, Watched
<1>5. CASE Hangup
  BY <1>5 DEF Hangup, Watched
<1>6. CASE UNCHANGED vars
  BY <1>6 DEF vars, Watched
<1> QED BY <1>1, <1>2, <1>3, <1>4, <1>5, <1>6, NextSplit

(* What Connect finds.                                                     *)
LEMMA ConnectFresh ==
  ASSUME TypeOK, ControlOK, UnconnectedOK, Connect, Watched'
  PROVE  /\ indexedTo' = published' /\ heardTo' = published'
         /\ notifier' = IdleNotifier /\ reader' = IdleReader
         /\ wire' = [status |-> [sh \in ScriptHash |-> {}], header |-> {}]
BY DEF Connect, Watched, TypeOK, ControlOK, UnconnectedOK, indexVars

-----------------------------------------------------------------------------
(* The indexer and the notification thread.                                *)

(* wait_for_indexer_tip returns in time only if the indexer has applied    *)
(* the event, when that comes in order: the heights tell the tip before    *)
(* the event from the one after it.                                        *)
LEMMA ReadyIsIndexed ==
  ASSUME InOrder(heardTo), TypeOK, heardTo \in BlockEvents, Quiet(indexedTo, heardTo - 1), Ready
  PROVE  indexedTo >= heardTo
<1> SUFFICES ASSUME indexedTo < heardTo PROVE FALSE
  BY LogType DEF TypeOK
<1>1. heardTo \in 1..Len(Log) /\ heardTo - 1 \in 0..Len(Log) /\ Log[heardTo].height \in Nat
  BY BlockEventType
<1>2. indexedTo \in 0..Len(Log) /\ indexedTo <= heardTo - 1
  BY <1>1, LogType DEF TypeOK
<1>3. Tip = TipAfter[heardTo - 1] /\ Tip \in Nat
  BY <1>1, <1>2, QuietSame, QueryTypes DEF Tip
<1>4. IF Type(heardTo) = "Connected" THEN Tip < Log[heardTo].height
                                     ELSE Tip >= Log[heardTo].height
  BY <1>3 DEF InOrder
<1> QED BY <1>1, <1>3, <1>4 DEF Ready

(* A quiet stretch may be extended by an event that is not about a block.  *)
LEMMA QuietGrows ==
  ASSUME NEW m \in Nat, NEW n \in Nat, Quiet(m, n - 1), n \notin BlockEvents
  PROVE  Quiet(m, n)
<1>1. ASSUME NEW i \in (m + 1)..n PROVE i \notin BlockEvents
  <2>1. CASE i = n
    BY <2>1
  <2>2. CASE i # n
    <3>1. i \in (m + 1)..(n - 1)
      BY <2>2
    <3> QED BY <3>1 DEF Quiet
  <2> QED BY <2>1, <2>2
<1> QED BY <1>1 DEF Quiet

(* Part of a quiet stretch is quiet.                                       *)
LEMMA QuietShrinks ==
  ASSUME NEW m \in Int, NEW k \in Int, NEW n \in Int, m <= k, Quiet(m, n)
  PROVE  Quiet(k, n)
BY DEF Quiet

(* The indexer stays ahead of what the notification thread has taken up.   *)
LEMMA HeardStep ==
  ASSUME TypeOK, ControlOK, UnconnectedOK, HeardOK, [Next]_vars
  PROVE  HeardOK'
<1> SUFFICES ASSUME Watched'
             PROVE  Quiet(indexedTo', IF notifier'.pc = "wait" THEN heardTo' - 1 ELSE heardTo')
  BY DEF HeardOK, Quiet
<1>0. indexedTo \in Nat /\ heardTo \in Nat /\ published \in Nat
  BY LogType DEF TypeOK
<1>1. CASE Connect
  BY <1>0, <1>1, ConnectFresh DEF IdleNotifier, Quiet, Connect, indexVars
<1> SUFFICES ASSUME Watched
             PROVE  Quiet(indexedTo', IF notifier'.pc = "wait" THEN heardTo' - 1 ELSE heardTo')
  BY <1>1, WatchedBefore
<1> DEFINE to == IF notifier.pc = "wait" THEN heardTo - 1 ELSE heardTo
<1>2. Quiet(indexedTo, to) /\ to \in Int
  BY <1>0 DEF HeardOK
<1>3. CASE ServerStep
  <2>1. notifier' = notifier /\ heardTo' = heardTo
    BY <1>3, ServerFrame
  <2>2. indexedTo' \in {indexedTo, indexedTo + 1}
    BY <1>3 DEF ServerStep, Publish, IndexStep, Announce, Update
  <2>3. Quiet(indexedTo', to)
    <3> HIDE DEF to
    <3>1. indexedTo' \in Int /\ indexedTo <= indexedTo'
      BY <1>0, <2>2
    <3> QED BY <1>0, <1>2, <3>1, QuietShrinks
  <2> QED BY <2>1, <2>3
<1>4. CASE ReaderStep
  BY <1>2, <1>4, ReaderFrame DEF indexVars
<1>5. CASE TakeEvent
  <2>1. notifier.pc = "idle" /\ heardTo' = heardTo + 1 /\ indexedTo' = indexedTo
    BY <1>5 DEF TakeEvent, connVars, indexVars
  <2>2. Quiet(indexedTo, heardTo)
    BY <1>2, <2>1
  <2>3. CASE heardTo' \in BlockEvents
    <3>1. notifier'.pc = "wait"
      BY <1>5, <2>3 DEF TakeEvent, IdleNotifier
    <3>2. heardTo' - 1 = heardTo
      BY <1>0, <2>1
    <3> QED BY <2>1, <2>2, <3>1, <3>2
  <2>4. CASE heardTo' \notin BlockEvents
    <3>1. notifier'.pc # "wait"
      BY <1>5, <2>1, <2>4 DEF TakeEvent
    <3>2. (heardTo + 1) - 1 = heardTo /\ heardTo + 1 \in Nat
      BY <1>0
    <3>3. Quiet(indexedTo, heardTo + 1)
      BY <1>0, <2>1, <2>2, <2>4, <3>2, QuietGrows
    <3> QED BY <2>1, <3>1, <3>3
  <2> QED BY <2>3, <2>4
<1>6. CASE TakeChange
  <2>1. notifier.pc = "idle" /\ heardTo' = heardTo /\ indexedTo' = indexedTo
    BY <1>6 DEF TakeChange, connVars, indexVars
  <2>2. notifier'.pc # "wait"
    BY <1>6, <2>1 DEF TakeChange, IdleNotifier
  <2> QED BY <1>2, <2>1, <2>2
<1>7. CASE NotifierLater
  <2>1. heardTo' = heardTo /\ indexedTo' = indexedTo /\ notifier'.pc # "wait"
    BY <1>7, NotifierFrame DEF indexVars
  <2>2. CASE notifier.pc # "wait"
    BY <1>2, <2>1, <2>2
  <2>3. CASE notifier.pc = "wait"
    <3>1. heardTo \in BlockEvents
      BY <2>3 DEF ControlOK
    <3>2. Quiet(indexedTo, heardTo - 1)
      BY <1>2, <2>3
    <3>3. indexedTo >= heardTo
      <4>1. CASE WaitReady
        BY <1>0, <4>1 DEF WaitReady, Watched
      <4>2. CASE WaitTimeout
        BY <1>0, <4>2 DEF WaitTimeout, Watched
      <4> QED BY <1>7, <2>3, <4>1, <4>2, NotifierFrame
    <3> QED BY <1>0, <2>1, <3>3 DEF Quiet
  <2> QED BY <2>2, <2>3
<1>8. CASE UNCHANGED vars
  BY <1>2, <1>8 DEF vars, indexVars
<1>9. CASE Hangup
  BY <1>9 DEF Hangup, Watched
<1> QED BY <1>1, <1>3, <1>4, <1>5, <1>6, <1>7, <1>8, <1>9, NextSplit

-----------------------------------------------------------------------------
(* The status of a script.                                                 *)

(* The confirmed part of a history is made of the indexed blocks.          *)
LEMMA SameConfirmed ==
  ASSUME NEW sh, Applied(indexedTo') = Applied(indexedTo)
  PROVE  Confirmed(sh)' = Confirmed(sh)
<1>1. \A t, h : With(t, h)' = With(t, h)
  BY DEF With
<1> QED BY <1>1 DEF Confirmed

(* Queries see nothing but the indexed blocks and the pool.                *)
LEMMA SameQueries ==
  ASSUME NEW sh, pool' = pool, Applied(indexedTo') = Applied(indexedTo)
  PROVE  /\ GetHistory(sh)' = GetHistory(sh) /\ Pending(sh)' = Pending(sh)
         /\ ScriptStatus(sh)' = ScriptStatus(sh)
<1>1. GetHistory(sh)' = GetHistory(sh) /\ Pending(sh)' = Pending(sh)
  BY SameConfirmed DEF GetHistory, Pending
<1> QED BY <1>1 DEF ScriptStatus

(* Reasons to look at a script are in the channels and the updaters.       *)
LEMMA SameLater ==
  ASSUME NEW sh, UNCHANGED <<published, telling, heardTo, changes>>
  PROVE  Later(sh)' = Later(sh)
BY DEF Later, Quiet

(* The rest of the server may withdraw no reason to look at a script.      *)
LEMMA ServerLater ==
  ASSUME TypeOK, ControlOK, Watched, ServerStep, NEW sh \in ScriptHash, Later(sh)
  PROVE  Later(sh)'
<1>1. heardTo' = heardTo
  BY ServerFrame
<1>2. published' \in Int /\ published \in Int /\ published <= published' /\ heardTo \in Int
  BY LogType DEF TypeOK, ServerStep, Publish, IndexStep, Announce, Update
<1>3. CASE ~Quiet(heardTo, published)
  <2>1. PICK i \in (heardTo + 1)..published : i \in BlockEvents
    BY <1>3 DEF Quiet
  <2>2. i \in (heardTo + 1)..published'
    BY <1>2
  <2> QED BY <1>1, <2>1, <2>2 DEF Later, Quiet
<1>4. ASSUME NEW u \in Updater, sh \in telling[u] PROVE Later(sh)'
  <2>1. CASE Publish \/ IndexStep
    BY <1>4, <2>1 DEF Publish, IndexStep, Later
  <2>2. ASSUME NEW v \in Updater, NEW t \in Tx, Update(v, t) PROVE Later(sh)'
    <3>1. u # v
      BY <1>4, <2>2 DEF Update
    <3>2. telling'[u] = telling[u]
      BY <2>2, <3>1 DEF Update, TypeOK
    <3> QED BY <1>4, <3>2 DEF Later
  <2>3. ASSUME NEW v \in Updater, Announce(v) PROVE Later(sh)'
    <3>1. CASE u # v
      <4>1. telling'[u] = telling[u]
        BY <2>3, <3>1 DEF Announce, TypeOK
      <4> QED BY <1>4, <4>1 DEF Later
    <3>2. CASE u = v
      <4>1. changes' = Append(changes, telling[u])
        BY <2>3, <3>2 DEF Announce, Watched, ControlOK
      <4> DEFINE i == Len(changes) + 1
      <4>2. /\ i \in DOMAIN Append(changes, telling[u])
            /\ Append(changes, telling[u])[i] = telling[u]
        BY DEF TypeOK
      <4> HIDE DEF i
      <4> QED BY <1>4, <4>1, <4>2 DEF Later
    <3> QED BY <3>1, <3>2
  <2> QED BY <2>1, <2>2, <2>3 DEF ServerStep
<1>5. ASSUME NEW i \in DOMAIN changes, sh \in changes[i] PROVE Later(sh)'
  <2>1. CASE changes' = changes
    BY <1>5, <2>1 DEF Later
  <2>2. ASSUME NEW u \in Updater, changes' = Append(changes, telling[u]) PROVE Later(sh)'
    <3>1. i \in DOMAIN Append(changes, telling[u]) /\ Append(changes, telling[u])[i] = changes[i]
      BY DEF TypeOK
    <3> QED BY <1>5, <2>2, <3>1 DEF Later
  <2> QED BY <2>1, <2>2 DEF ServerStep, Publish, IndexStep, Announce, Update
<1> QED BY <1>3, <1>4, <1>5 DEF Later

(* When the index changes, the notification thread waits for that block or *)
(* has a reason to look at each script that the change is about.           *)
LEMMA ServerMoves ==
  ASSUME TypeOK, HeardOK, Watched, ServerStep, NEW sh \in ScriptHash
  PROVE  \/ /\ GetHistory(sh)' = GetHistory(sh) /\ Pending(sh)' = Pending(sh)
            /\ ScriptStatus(sh)' = ScriptStatus(sh)
         \/ Later(sh)'
         \/ notifier.pc = "wait"
<1>1. CASE Publish \/ \E u \in Updater : Announce(u)
  BY <1>1, SameQueries DEF Publish, Announce
<1>2. CASE IndexStep
  <2> DEFINE n == indexedTo + 1
  <2>1. n \in 1..Len(Log) /\ n <= published /\ n - 1 = indexedTo
    BY <1>2, LogType DEF IndexStep, TypeOK
  <2>2. CASE n \notin BlockEvents
    <3>1. indexedTo' = n /\ pool' = pool
      BY <1>2, <2>1, <2>2, LogType DEF IndexStep
    <3>2. Applied(n) = Applied(indexedTo)
      BY <2>1, <2>2, QuietStep
    <3> QED BY <3>1, <3>2, SameQueries
  <2>3. CASE n \in BlockEvents /\ notifier.pc # "wait"
    <3>1. Quiet(indexedTo, heardTo)
      BY <2>3 DEF HeardOK
    <3>2. indexedTo \in Int /\ heardTo \in Int /\ published \in Int
      BY LogType DEF TypeOK
    <3>3. ~(n <= heardTo)
      BY <2>3, <3>1, <3>2 DEF Quiet
    <3>4. n \in (heardTo + 1)..published
      BY <2>1, <3>2, <3>3
    <3>5. published' = published /\ heardTo' = heardTo
      BY <1>2 DEF IndexStep
    <3> HIDE DEF n
    <3> QED BY <2>3, <3>4, <3>5 DEF Later, Quiet
  <2> QED BY <2>2, <2>3
<1>3. ASSUME NEW u \in Updater, NEW t \in Tx, Update(u, t)
      PROVE  \/ /\ GetHistory(sh)' = GetHistory(sh) /\ Pending(sh)' = Pending(sh)
                /\ ScriptStatus(sh)' = ScriptStatus(sh)
             \/ Later(sh)'
  <2>1. CASE sh \in Touches[t]
    <3>1. sh \in telling'[u]
      BY <1>3, <2>1 DEF Update, TypeOK
    <3> QED BY <3>1 DEF Later
  <2>2. CASE sh \notin Touches[t]
    <3>1. Pending(sh)' = Pending(sh)
      BY <1>3, <2>2 DEF Update, Pending
    <3>2. indexedTo' = indexedTo
      BY <1>3 DEF Update
    <3>3. Confirmed(sh)' = Confirmed(sh)
      BY <3>2, SameConfirmed
    <3> QED BY <3>1, <3>3 DEF GetHistory, ScriptStatus
  <2> QED BY <2>1, <2>2
<1> QED BY <1>1, <1>2, <1>3 DEF ServerStep

(* Whatever the rest of the server does, what a client was told of a       *)
(* script stays right or will be put right.                                *)
LEMMA ServerScript ==
  ASSUME TypeOK, ControlOK, HeardOK, Watched, ServerStep, NEW sh \in ScriptHash, ScriptOK(sh)
  PROVE  ScriptOK(sh)'
<1>1. UNCHANGED <<state, notifier, reader, wire>>
  BY ServerFrame
<1>2. Planned(sh)' = Planned(sh) /\ InFlight(sh)' = InFlight(sh) /\ Told(sh)' = Told(sh)
  BY <1>1 DEF Planned, InFlight, Told
<1>3. Later(sh) => Later(sh)'
  BY ServerLater
<1>4. notifier.pc = "wait" => Planned(sh) /\ sh \notin notifier.script
  BY DEF Planned, ControlOK
<1> QED BY <1>1, <1>2, <1>3, <1>4, ServerMoves DEF ScriptOK, Coming

(* A subscription, its two reads and its reply.                            *)
LEMMA ReaderScript ==
  ASSUME TypeOK, ControlOK, Watched, Watched', ReaderStep, NEW sh \in ScriptHash, ScriptOK(sh)
  PROVE  ScriptOK(sh)'
<1>1. UNCHANGED <<indexVars, conn, heardTo, changes, notifier>>
  BY ReaderFrame
<1>2. /\ GetHistory(sh)' = GetHistory(sh) /\ Pending(sh)' = Pending(sh)
      /\ ScriptStatus(sh)' = ScriptStatus(sh)
  BY <1>1, SameQueries DEF indexVars
<1>3. Later(sh)' = Later(sh) /\ Coming(sh)' = Coming(sh)
  BY <1>1, SameLater DEF indexVars, Coming, Planned
<1> HIDE DEF Later, Coming
<1>4. ASSUME NEW z \in ScriptHash, Subscribe(z) PROVE ScriptOK(sh)'
  <2>1. reader.pc = "idle" /\ wire' = wire
    BY <1>4 DEF Subscribe, Request
  <2>2. state'.status = state.status /\ state.scripts \subseteq state'.scripts
    BY <1>4 DEF Subscribe, TypeOK, ClientState
  <2>3. reader'.pc = "status" /\ reader'.script = {z} /\ reader'.history = GetHistory(z)
    BY <1>4 DEF Subscribe, IdleReader
  <2>4. InFlight(sh)' = InFlight(sh) /\ Told(sh)' = Told(sh)
    BY <1>1, <2>1, <2>3 DEF InFlight, Told
  <2> QED BY <1>1, <1>2, <1>3, <2>1, <2>2, <2>3, <2>4 DEF ScriptOK
<1>5. ASSUME NEW z \in ScriptHash, SubscribeStatus(z) PROVE ScriptOK(sh)'
  <2> DEFINE st == StatusOf(reader.history, Pending(z))
  <2>1. reader.pc = "status" /\ z \in reader.script /\ wire' = wire
    BY <1>5 DEF SubscribeStatus
  <2>2. state'.status = [state.status EXCEPT ![z] = st] /\ state'.scripts = state.scripts
    BY <1>5 DEF SubscribeStatus, TypeOK, ClientState
  <2>3. reader'.pc = "reply" /\ reader'.script = reader.script
    BY <1>5 DEF SubscribeStatus, TypeOK, ReaderState
  <2>4. z \in state.scripts
    BY <2>1 DEF ControlOK
  <2>5. state.status \in [ScriptHash -> Status]
    BY DEF TypeOK, ClientState
  <2>6. CASE sh = z
    <3>1. state'.status[sh] = st
      BY <2>2, <2>5, <2>6
    <3>2. st = ScriptStatus(sh) \/ Coming(sh)
      BY <2>1, <2>6 DEF ScriptOK, ScriptStatus
    <3>3. InFlight(sh)'
      BY <2>1, <2>3, <2>6 DEF InFlight
    <3> QED BY <1>1, <1>2, <1>3, <2>2, <2>3, <2>4, <2>6, <3>1, <3>2, <3>3 DEF ScriptOK
  <2>7. CASE sh # z
    <3>1. state'.status[sh] = state.status[sh]
      BY <2>2, <2>5, <2>7
    <3>2. sh \notin reader.script
      BY <2>1, <2>7 DEF ControlOK
    <3>3. InFlight(sh)' = InFlight(sh) /\ Told(sh)' = Told(sh)
      BY <1>1, <2>1, <2>3, <3>2 DEF InFlight, Told
    <3> QED BY <1>1, <1>2, <1>3, <2>1, <2>2, <2>3, <3>1, <3>2, <3>3 DEF ScriptOK
  <2> QED BY <2>6, <2>7
<1>6. ASSUME NEW z \in ScriptHash, SubscribeFails(z) PROVE ScriptOK(sh)'
  <2>1. reader.pc = "status" /\ wire' = wire /\ state' = state /\ reader' = IdleReader
    BY <1>6 DEF SubscribeFails
  <2>2. InFlight(sh)' = InFlight(sh) /\ Told(sh)' = Told(sh)
    BY <1>1, <2>1 DEF InFlight, Told, IdleReader
  <2> QED BY <1>1, <1>2, <1>3, <2>1, <2>2 DEF ScriptOK, IdleReader
<1>7. CASE HeadersSubscribe \/ HeadersSubscribeFails
  <2>1. reader.pc = "idle" /\ wire' = wire
    BY <1>7 DEF HeadersSubscribe, HeadersSubscribeFails, Request
  <2>2. state'.status = state.status /\ state'.scripts = state.scripts
    BY <1>7 DEF HeadersSubscribe, HeadersSubscribeFails, TypeOK, ClientState
  <2>3. reader'.script = {}
    <3>1. reader = IdleReader
      BY <2>1 DEF ControlOK
    <3>2. CASE HeadersSubscribe
      BY <3>2 DEF HeadersSubscribe, IdleReader
    <3>3. CASE HeadersSubscribeFails
      BY <3>1, <3>3 DEF HeadersSubscribeFails, IdleReader
    <3> QED BY <1>7, <3>2, <3>3
  <2>4. InFlight(sh)' = InFlight(sh) /\ Told(sh)' = Told(sh)
    BY <1>1, <2>1, <2>3 DEF InFlight, Told
  <2> QED BY <1>1, <1>2, <1>3, <2>1, <2>2, <2>3, <2>4 DEF ScriptOK
<1>8. CASE Reply
  <2>1. reader.pc = "reply" /\ state' = state /\ reader' = IdleReader
    BY <1>8 DEF Reply
  <2>2. wire.status \in [ScriptHash -> SUBSET Status] /\ wire \in Wire
    BY DEF TypeOK, Wire
  <2>3. CASE \E z \in reader.script, st \in reader.status : WriteStatus(z, st)
    <3>1. PICK z \in reader.script, st \in reader.status : WriteStatus(z, st)
      BY <2>3
    <3>2. st = state.status[z] /\ wire' = [wire EXCEPT !.status[z] = {st}]
      BY <3>1 DEF WriteStatus, Watched
    <3>3. z \in ScriptHash
      BY <3>1 DEF TypeOK, ReaderState
    <3>4. CASE sh = z
      <4>1. wire'.status[sh] = {state.status[sh]}
        BY <2>2, <3>2, <3>3, <3>4 DEF Wire
      <4>2. Told(sh)
        BY <2>1, <3>1, <3>4 DEF Told, InFlight
      <4> QED BY <1>1, <1>2, <1>3, <2>1, <4>1, <4>2 DEF ScriptOK, IdleReader
    <3>5. CASE sh # z
      <4>1. wire'.status[sh] = wire.status[sh]
        BY <2>2, <3>2, <3>3, <3>5 DEF Wire
      <4>2. sh \notin reader.script
        BY <3>1, <3>5 DEF ControlOK
      <4>3. InFlight(sh)' = InFlight(sh)
        BY <1>1, <2>1, <4>2 DEF InFlight, IdleReader
      <4>4. Told(sh)' = Told(sh)
        BY <4>1, <4>3 DEF Told
      <4> QED BY <1>1, <1>2, <1>3, <2>1, <4>1, <4>3, <4>4 DEF ScriptOK, IdleReader
    <3> QED BY <3>4, <3>5
  <2>4. CASE \E hd \in reader.header : WriteHeader(hd)
    <3>1. wire'.status = wire.status
      BY <2>2, <2>4 DEF WriteHeader, Wire
    <3>2. reader.script = {}
      BY <2>4 DEF ControlOK
    <3>3. InFlight(sh)' = InFlight(sh) /\ Told(sh)' = Told(sh)
      BY <1>1, <2>1, <3>1, <3>2 DEF InFlight, Told, IdleReader
    <3> QED BY <1>1, <1>2, <1>3, <2>1, <3>1, <3>3 DEF ScriptOK, IdleReader
  <2> QED BY <1>8, <2>3, <2>4 DEF Reply
<1> QED BY <1>4, <1>5, <1>6, <1>7, <1>8 DEF ReaderStep, Answer

(* Taking an event or a change turns a reason into a plan.                 *)
LEMMA TakeScript ==
  ASSUME TypeOK, ControlOK, Watched, TakeEvent \/ TakeChange,
         NEW sh \in ScriptHash, ScriptOK(sh)
  PROVE  ScriptOK(sh)'
<1>1. UNCHANGED <<indexVars, conn, reader, state, wire>> /\ notifier = IdleNotifier
  BY DEF TakeEvent, TakeChange, connVars, ControlOK
<1>2. /\ GetHistory(sh)' = GetHistory(sh) /\ Pending(sh)' = Pending(sh)
      /\ ScriptStatus(sh)' = ScriptStatus(sh)
  BY <1>1, SameQueries DEF indexVars
<1>3. notifier'.script = {} /\ notifier'.changed = {}
  <2>1. CASE TakeEvent
    BY <1>1, <2>1 DEF TakeEvent, IdleNotifier
  <2>2. CASE TakeChange
    BY <1>1, <2>2 DEF TakeChange, IdleNotifier
  <2> QED BY <2>1, <2>2
<1>4. InFlight(sh)' = InFlight(sh) /\ Told(sh)' = Told(sh)
  BY <1>1, <1>3 DEF InFlight, Told, IdleNotifier
<1>5. ~Planned(sh)
  BY <1>1 DEF Planned, IdleNotifier
<1>6. Later(sh) => Coming(sh)'
  <2>1. CASE TakeEvent
    <3>1. /\ heardTo' = heardTo + 1 /\ UNCHANGED <<published, telling, changes>>
          /\ heardTo \in Int /\ published \in Int
      BY <2>1, LogType DEF TakeEvent, connVars, indexVars, TypeOK
    <3>2. CASE heardTo' \in BlockEvents
      <4>1. notifier'.pc = "wait"
        BY <2>1, <3>2 DEF TakeEvent, IdleNotifier
      <4> QED BY <4>1 DEF Coming, Planned
    <3>3. CASE heardTo' \notin BlockEvents
      <4>1. ASSUME ~Quiet(heardTo, published) PROVE ~Quiet(heardTo', published')
        <5>1. PICK i \in (heardTo + 1)..published : i \in BlockEvents
          BY <4>1 DEF Quiet
        <5>2. i # heardTo + 1
          BY <3>1, <3>3, <5>1
        <5>3. i \in (heardTo' + 1)..published'
          BY <3>1, <5>2
        <5> QED BY <5>1, <5>3 DEF Quiet
      <4> QED BY <3>1, <4>1 DEF Coming, Later
    <3> QED BY <3>2, <3>3
  <2>2. CASE TakeChange
    <3>1. UNCHANGED <<published, telling, heardTo>> /\ changes # <<>> /\ changes' = Tail(changes)
      BY <2>2 DEF TakeChange, connVars, indexVars
    <3>2. ASSUME NEW i \in DOMAIN changes, sh \in changes[i] PROVE Coming(sh)'
      <4>1. CASE i = 1
        <5>1. sh \in Head(changes)
          BY <3>1, <3>2, <4>1 DEF TypeOK
        <5>2. notifier' = [IdleNotifier EXCEPT !.pc = "scripts", !.scope = Head(changes)]
          BY <2>2, <5>1 DEF TakeChange
        <5> QED BY <5>1, <5>2 DEF Coming, Planned, IdleNotifier
      <4>2. CASE i # 1
        <5>1. i - 1 \in DOMAIN Tail(changes) /\ Tail(changes)[i - 1] = changes[i]
          BY <3>1, <4>2 DEF TypeOK
        <5> QED BY <3>1, <3>2, <5>1 DEF Coming, Later
      <4> QED BY <4>1, <4>2
    <3> QED BY <3>1, <3>2 DEF Coming, Later, Quiet
  <2> QED BY <2>1, <2>2
<1>7. Coming(sh) => Coming(sh)'
  BY <1>5, <1>6 DEF Coming
<1> QED BY <1>1, <1>2, <1>3, <1>4, <1>7 DEF ScriptOK

(* The notification thread looks at what it planned to, and writes what it *)
(* recorded.                                                               *)
LEMMA NotifierScript ==
  ASSUME TypeOK, ControlOK, Watched, Watched', NotifierLater,
         NEW sh \in ScriptHash, ScriptOK(sh)
  PROVE  ScriptOK(sh)'
<1>1. UNCHANGED <<indexVars, conn, heardTo, reader, changes>>
  <2>1. ~NotifyHeaderFails
    BY DEF NotifyHeaderFails, Watched
  <2> QED BY <2>1, NotifierFrame
<1>2. /\ GetHistory(sh)' = GetHistory(sh) /\ Pending(sh)' = Pending(sh)
      /\ ScriptStatus(sh)' = ScriptStatus(sh)
  BY <1>1, SameQueries DEF indexVars
<1>3. Later(sh)' = Later(sh)
  BY <1>1, SameLater DEF indexVars
<1> HIDE DEF Later
<1>4. CASE WaitReady \/ WaitTimeout \/ ReadHeader
  <2>1. UNCHANGED <<state, wire>> /\ notifier.pc \in {"wait", "header"}
    BY <1>4 DEF WaitReady, WaitTimeout, ReadHeader
  <2>2. /\ notifier'.pc \in {"header", "scripts"} /\ notifier'.changed = notifier.changed
        /\ notifier'.scope = notifier.scope /\ notifier'.script = notifier.script
    BY <1>4 DEF WaitReady, WaitTimeout, ReadHeader, TypeOK, NotifierState
  <2>3. notifier.scope = ScriptHash /\ notifier.script = {}
    BY <2>1 DEF ControlOK
  <2>4. InFlight(sh)' = InFlight(sh) /\ Told(sh)' = Told(sh)
    BY <1>1, <2>1, <2>2 DEF InFlight, Told
  <2>5. Coming(sh)'
    BY <2>2, <2>3 DEF Coming, Planned
  <2> QED BY <1>1, <1>2, <2>1, <2>2, <2>3, <2>4, <2>5 DEF ScriptOK
<1>5. CASE ScanStart
  <2>1. UNCHANGED <<state, wire>> /\ notifier.pc = "scripts" /\ lock = "free"
    BY <1>5 DEF ScanStart
  <2>2. /\ notifier'.pc = "scan" /\ notifier'.changed = notifier.changed
        /\ notifier'.left = state.scripts \cap notifier.scope
        /\ notifier'.script = notifier.script
    BY <1>5 DEF ScanStart, TypeOK, NotifierState
  <2>3. reader.pc # "status" /\ notifier.script = {}
    BY <2>1 DEF ControlOK
  <2>4. InFlight(sh)' = InFlight(sh) /\ Told(sh)' = Told(sh)
    BY <1>1, <2>1, <2>2 DEF InFlight, Told
  <2>5. sh \in state.scripts /\ Coming(sh) => Coming(sh)'
    BY <1>3, <2>1, <2>2 DEF Coming, Planned
  <2> QED BY <1>1, <1>2, <2>1, <2>2, <2>3, <2>4, <2>5 DEF ScriptOK
<1>6. ASSUME NEW z \in ScriptHash, ScanHistory(z) PROVE ScriptOK(sh)'
  <2>1. UNCHANGED <<state, wire>> /\ notifier.pc = "scan"
    BY <1>6 DEF ScanHistory
  <2>2. /\ notifier'.pc = "scan" /\ notifier'.changed = notifier.changed
        /\ notifier'.left = notifier.left
        /\ notifier'.script = {z} /\ notifier'.history = GetHistory(z)
    BY <1>6 DEF ScanHistory, TypeOK, NotifierState
  <2>3. InFlight(sh)' = InFlight(sh) /\ Told(sh)' = Told(sh)
    BY <1>1, <2>1, <2>2 DEF InFlight, Told
  <2>4. Coming(sh)' = Coming(sh)
    BY <1>3, <2>1, <2>2 DEF Coming, Planned
  <2> QED BY <1>1, <1>2, <2>1, <2>2, <2>3, <2>4 DEF ScriptOK
<1>7. ASSUME NEW z \in ScriptHash, ScanStatus(z) PROVE ScriptOK(sh)'
  <2> DEFINE st == StatusOf(notifier.history, Pending(z))
  <2>1. wire' = wire /\ notifier.pc = "scan" /\ z \in notifier.script
    BY <1>7 DEF ScanStatus
  <2>2. /\ notifier'.pc = "scan" /\ notifier'.left = notifier.left \ {z}
        /\ notifier'.script = {} /\ state'.scripts = state.scripts
    BY <1>7, <2>1, ScanFields
  <2>3. /\ state'.status = [state.status EXCEPT ![z] = st]
        /\ \/ state'.status = state.status /\ notifier'.changed = notifier.changed
           \/ notifier'.changed = notifier.changed \cup {<<z, st>>}
    BY <1>7, ScanStatusFields
  <2>4. state.status \in [ScriptHash -> Status] /\ st \in Status
    BY QueryTypes, StatusType DEF TypeOK, ClientState, NotifierState
  <2>5. lock = "notifier" /\ reader.pc # "status"
    BY <2>1 DEF ControlOK
  <2> HIDE DEF st
  <2>6. CASE sh = z
    <3>1. state'.status[sh] = st
      BY <2>3, <2>4, <2>6
    <3>2. st = ScriptStatus(sh) \/ Later(sh)
      BY <2>1, <2>6 DEF ScriptOK, ScriptStatus, st
    <3>3. z \in notifier.left
      BY <2>1 DEF ControlOK
    <3>4. CASE state'.status = state.status /\ notifier'.changed = notifier.changed
      <4>1. InFlight(sh)' = InFlight(sh) /\ Told(sh)' = Told(sh)
        BY <1>1, <2>1, <3>4 DEF InFlight, Told
      <4> QED BY <1>1, <1>2, <1>3, <2>1, <2>2, <2>5, <3>1, <3>2, <3>4, <4>1 DEF ScriptOK, Coming
    <3>5. CASE notifier'.changed = notifier.changed \cup {<<z, st>>}
      <4>1. InFlight(sh)'
        BY <2>4, <2>6, <3>5 DEF InFlight
      <4>2. sh \in state.scripts
        BY <2>6, <3>3 DEF ControlOK
      <4> QED BY <1>1, <1>2, <1>3, <2>1, <2>2, <2>5, <3>1, <3>2, <4>1, <4>2 DEF ScriptOK, Coming
    <3> QED BY <2>3, <3>4, <3>5
  <2>7. CASE sh # z
    <3>1. state'.status[sh] = state.status[sh]
      BY <2>3, <2>4, <2>7
    <3>2. \A x : <<sh, x>> \in notifier'.changed <=> <<sh, x>> \in notifier.changed
      BY <2>3, <2>7
    <3>3. InFlight(sh)' = InFlight(sh) /\ Told(sh)' = Told(sh)
      BY <1>1, <2>1, <3>2 DEF InFlight, Told
    <3>4. Coming(sh)' = Coming(sh)
      BY <1>3, <2>1, <2>2, <2>7 DEF Coming, Planned
    <3> QED BY <1>1, <1>2, <2>1, <2>2, <2>5, <3>1, <3>3, <3>4 DEF ScriptOK
  <2> QED BY <2>6, <2>7
<1>8. ASSUME NEW z \in ScriptHash, ScanFails(z) PROVE ScriptOK(sh)'
  BY <1>8 DEF ScanFails, Watched
<1>9. CASE ScanEnd
  <2>1. UNCHANGED <<state, wire>> /\ notifier.pc = "scan" /\ notifier.left = {}
    BY <1>9 DEF ScanEnd
  <2>2. notifier'.changed = notifier.changed /\ notifier'.script = notifier.script
    BY <1>9 DEF ScanEnd, TypeOK, NotifierState
  <2>3. InFlight(sh)' = InFlight(sh) /\ Told(sh)' = Told(sh)
    BY <1>1, <2>1, <2>2 DEF InFlight, Told
  <2>4. Coming(sh) => Coming(sh)'
    BY <1>3, <2>1 DEF Coming, Planned
  <2>5. reader.pc # "status" /\ notifier.script = {}
    BY <1>9, <2>1 DEF ControlOK, ScanEnd
  <2> QED BY <1>1, <1>2, <2>1, <2>2, <2>3, <2>4, <2>5 DEF ScriptOK
<1>10. CASE HeaderUpdate
  <2>1. wire' = wire /\ notifier.pc = "headers"
    BY <1>10 DEF HeaderUpdate
  <2>2. /\ notifier'.changed = notifier.changed /\ notifier'.script = notifier.script
        /\ state'.scripts = state.scripts /\ state'.status = state.status
    BY <1>10, HeaderUpdateFields DEF TypeOK, NotifierState, ClientState
  <2>3. InFlight(sh)' = InFlight(sh) /\ Told(sh)' = Told(sh)
    BY <1>1, <2>1, <2>2 DEF InFlight, Told
  <2>4. Coming(sh) => Coming(sh)'
    BY <1>3, <2>1 DEF Coming, Planned
  <2>5. notifier.script = {}
    BY <2>1 DEF ControlOK
  <2> QED BY <1>1, <1>2, <2>1, <2>2, <2>3, <2>4, <2>5 DEF ScriptOK
<1>11. CASE NotifyHeader
  <2>1. state' = state /\ notifier.pc = "write"
    BY <1>11 DEF NotifyHeader
  <2>2. notifier'.changed = notifier.changed /\ notifier'.script = notifier.script
    BY <1>11 DEF NotifyHeader, TypeOK, NotifierState
  <2>3. wire'.status = wire.status
    BY <1>11 DEF NotifyHeader, WriteHeader, TypeOK, Wire
  <2>4. InFlight(sh)' = InFlight(sh) /\ Told(sh)' = Told(sh)
    BY <1>1, <2>2, <2>3 DEF InFlight, Told
  <2>5. Coming(sh) => Coming(sh)'
    BY <1>3, <2>1 DEF Coming, Planned
  <2>6. notifier.script = {}
    BY <2>1 DEF ControlOK
  <2> QED BY <1>1, <1>2, <2>1, <2>2, <2>3, <2>4, <2>5, <2>6 DEF ScriptOK
<1>12. CASE NotifyStatus
  <2>1. state' = state /\ notifier.pc = "write"
    BY <1>12 DEF NotifyStatus
  <2>2. PICK c \in notifier.changed :
               /\ WriteStatus(c[1], c[2])
               /\ notifier' = [notifier EXCEPT !.changed = notifier.changed \ {c}]
    BY <1>12 DEF NotifyStatus
  <2>3. PICK z \in ScriptHash, st \in Status : c = <<z, st>>
    BY DEF TypeOK, NotifierState
  <2>4. st = state.status[z] /\ wire' = [wire EXCEPT !.status[z] = {st}]
    BY <2>2, <2>3 DEF WriteStatus, Watched
  <2>5. notifier'.changed = notifier.changed \ {<<z, st>>} /\ notifier'.script = notifier.script
    BY <2>2, <2>3 DEF TypeOK, NotifierState
  <2>6. Coming(sh) => Coming(sh)'
    BY <1>3, <2>1 DEF Coming, Planned
  <2>7. notifier.script = {} /\ wire \in Wire
    BY <2>1 DEF ControlOK, TypeOK
  <2>8. CASE sh = z
    <3>1. wire'.status[sh] = {state.status[sh]}
      BY <2>4, <2>7, <2>8 DEF Wire
    <3>2. Told(sh)
      BY <2>2, <2>3, <2>8 DEF Told, InFlight
    <3> QED BY <1>1, <1>2, <2>1, <2>5, <2>6, <2>7, <3>1, <3>2 DEF ScriptOK
  <2>9. CASE sh # z
    <3>1. wire'.status[sh] = wire.status[sh]
      BY <2>4, <2>7, <2>9 DEF Wire
    <3>2. \A x : <<sh, x>> \in notifier'.changed <=> <<sh, x>> \in notifier.changed
      BY <2>5, <2>9
    <3>3. InFlight(sh)' = InFlight(sh)
      BY <1>1, <3>2 DEF InFlight
    <3>4. Told(sh)' = Told(sh)
      BY <3>1, <3>3 DEF Told
    <3> QED BY <1>1, <1>2, <2>1, <2>5, <2>6, <2>7, <3>1, <3>3, <3>4 DEF ScriptOK
  <2> QED BY <2>8, <2>9
<1>13. CASE NotifyHeaderFails \/ NotifyStatusFails
  BY <1>13 DEF NotifyHeaderFails, NotifyStatusFails, Watched
<1>14. CASE NotifyEnd
  <2>1. UNCHANGED <<state, wire>> /\ notifier.pc = "write" /\ notifier.changed = {}
    BY <1>14 DEF NotifyEnd
  <2>2. notifier'.changed = {} /\ notifier'.script = {}
    BY <1>14 DEF NotifyEnd, IdleNotifier
  <2>3. InFlight(sh)' = InFlight(sh) /\ Told(sh)' = Told(sh)
    BY <1>1, <2>1, <2>2 DEF InFlight, Told
  <2>4. Coming(sh) => Coming(sh)'
    BY <1>3, <2>1 DEF Coming, Planned
  <2> QED BY <1>1, <1>2, <2>1, <2>2, <2>3, <2>4 DEF ScriptOK
<1> QED BY <1>4, <1>5, <1>6, <1>7, <1>8, <1>9, <1>10, <1>11, <1>12, <1>13, <1>14
        DEF NotifierLater, Scan, Notify

(* Every step keeps what the client is owed of its scripts.                *)
LEMMA StatusStep == ASSUME EInv, [Next]_vars PROVE StatusOK'
<1> SUFFICES ASSUME Watched', NEW sh \in ScriptHash PROVE ScriptOK(sh)'
  BY DEF StatusOK
<1> USE DEF EInv
<1>1. CASE Connect
  <2>1. /\ notifier'.script = {} /\ notifier'.changed = {} /\ reader'.pc = "idle"
        /\ wire'.status[sh] = {}
    BY <1>1, ConnectFresh DEF IdleNotifier, IdleReader
  <2>2. ~InFlight(sh)' /\ ~Told(sh)'
    BY <2>1 DEF InFlight, Told
  <2> QED BY <2>1, <2>2 DEF ScriptOK
<1> SUFFICES ASSUME Watched PROVE ScriptOK(sh)'
  BY <1>1, WatchedBefore
<1>2. ScriptOK(sh)
  BY DEF StatusOK
<1>3. CASE ServerStep
  BY <1>2, <1>3, ServerScript
<1>4. CASE ReaderStep
  BY <1>2, <1>4, ReaderScript
<1>5. CASE TakeEvent \/ TakeChange
  BY <1>2, <1>5, TakeScript
<1>6. CASE NotifierLater
  BY <1>2, <1>6, NotifierScript
<1>7. CASE Hangup
  BY <1>7 DEF Hangup, Watched
<1>8. CASE UNCHANGED vars
  <2>1. UNCHANGED <<indexVars, conn, heardTo, changes, notifier, state, reader, wire>>
    BY <1>8 DEF vars
  <2>2. GetHistory(sh)' = GetHistory(sh) /\ ScriptStatus(sh)' = ScriptStatus(sh)
    BY <2>1, SameQueries DEF indexVars
  <2>3. Later(sh)' = Later(sh) /\ Coming(sh)' = Coming(sh)
    BY <2>1, SameLater DEF indexVars, Coming, Planned
  <2>4. InFlight(sh)' = InFlight(sh) /\ Told(sh)' = Told(sh)
    BY <2>1 DEF InFlight, Told
  <2> QED BY <1>2, <2>1, <2>2, <2>3, <2>4 DEF ScriptOK
<1> QED BY <1>1, <1>3, <1>4, <1>5, <1>6, <1>7, <1>8, NextSplit

-----------------------------------------------------------------------------
(* The theorems about statuses.                                            *)

(* The server starts with the invariant.                                   *)
LEMMA ClientInit == Init => EInv
<1> SUFFICES ASSUME Init PROVE EInv
  OBVIOUS
<1>1. TypeOK
  <2>1. NoStatus \in Status
    BY StatusType DEF NoStatus
  <2>2. state \in ClientState
    BY <2>1, HeaderType DEF Init, ClientState
  <2>3. notifier \in NotifierState
    BY HeaderType DEF Init, NotifierState, IdleNotifier
  <2>4. reader \in ReaderState
    BY DEF Init, ReaderState, IdleReader
  <2>5. wire \in Wire
    BY DEF Init, Wire
  <2>6. changes \in Seq(SUBSET ScriptHash)
    BY DEF Init
  <2> QED BY <2>2, <2>3, <2>4, <2>5, <2>6, LogType, ElectrumClientAssumption DEF Init, TypeOK
<1>2. ControlOK
  BY DEF Init, ControlOK, IdleNotifier, IdleReader
<1>3. UnconnectedOK
  BY DEF Init, UnconnectedOK, IdleNotifier, IdleReader
<1>4. ~Watched
  BY DEF Init, Watched
<1> QED BY <1>1, <1>2, <1>3, <1>4 DEF EInv, HeardOK, StatusOK

(* The types, the discipline of the lock and what the notification thread  *)
(* owes a client hold throughout, for any sequence of block events and any *)
(* interleaving of the request thread, the notification thread, the        *)
(* indexer and the updaters of the pool.                                   *)
THEOREM ClientInvariance == Spec => []EInv
<1>1. EInv /\ [Next]_vars => EInv'
  <2> SUFFICES ASSUME EInv, [Next]_vars PROVE EInv'
    OBVIOUS
  <2>1. TypeOK' /\ ControlOK' /\ UnconnectedOK' /\ HeardOK'
    BY TypeStep, ControlStep, UnconnectedStep, HeardStep DEF EInv
  <2>2. StatusOK'
    BY StatusStep
  <2> QED BY <2>1, <2>2 DEF EInv
<1> QED BY <1>1, ClientInit, PTL DEF Spec

(* The type invariant of ElectrumClient.                                   *)
THEOREM ClientTypes == Spec => []TypeOK
<1>1. EInv => TypeOK
  BY DEF EInv
<1> QED BY <1>1, ClientInvariance, PTL

(* handle_client and spawn_client_notifications: when nothing is on its    *)
(* way to the client, the last status it was sent of each script is the    *)
(* present one, although script_status reads the index twice and the index *)
(* moves while the notification thread waits, scans and writes.            *)
THEOREM StatusesAreCurrent == Spec => []StatusCurrentAtRest
<1>1. ASSUME EInv PROVE StatusCurrentAtRest
  <2> SUFFICES ASSUME Settled, conn = "open", excuses = {}, NEW sh \in state.scripts
               PROVE  wire.status[sh] \subseteq {ScriptStatus(sh)}
    BY DEF StatusCurrentAtRest, StatusIsCurrent
  <2>1. sh \in ScriptHash /\ notifier = IdleNotifier /\ reader = IdleReader
    BY <1>1 DEF EInv, TypeOK, ClientState, ControlOK, Settled
  <2>2. ScriptOK(sh)
    BY <1>1, <2>1 DEF EInv, StatusOK, Watched
  <2>3. ~InFlight(sh) /\ ~Planned(sh)
    BY <2>1 DEF InFlight, Planned, IdleNotifier, IdleReader
  <2>4. ~Later(sh)
    <3>1. heardTo = published /\ published \in Int
      BY <1>1, LogType DEF EInv, TypeOK, Settled
    <3>2. Quiet(heardTo, published)
      BY <3>1 DEF Quiet
    <3>3. changes = <<>> /\ DOMAIN changes = {}
      BY DEF Settled
    <3> QED BY <3>2, <3>3 DEF Later, Settled
  <2> QED BY <2>2, <2>3, <2>4 DEF ScriptOK, Told, Coming
<1> QED BY <1>1, ClientInvariance, PTL

(* wait_for_indexer_tip: it does not take an event for applied that is     *)
(* not, unless the event comes out of order, for a client to which nothing *)
(* has gone wrong, although it compares heights only and the chain may be  *)
(* reorganised while it waits.                                             *)
THEOREM WaitsAreExact == Spec => WaitIsExact
<1> DEFINE Exact == conn = "open" /\ excuses = {} /\ "early" \in excuses' => ~InOrder(heardTo)
<1>1. ASSUME EInv, [Next]_vars PROVE [Exact]_vars
  <2> SUFFICES ASSUME Next, InOrder(heardTo), Watched PROVE "early" \notin excuses'
    BY <1>1 DEF Watched
  <2> USE DEF EInv
  <2>1. CASE WaitReady
    <3>1. notifier.pc = "wait" /\ Ready /\ heardTo \in BlockEvents
      BY <1>1, <2>1 DEF WaitReady, ControlOK
    <3>2. Quiet(indexedTo, heardTo - 1)
      BY <1>1, <3>1 DEF HeardOK
    <3>3. indexedTo >= heardTo
      BY <1>1, <3>1, <3>2, ReadyIsIndexed
    <3>4. ~(indexedTo < heardTo)
      BY <1>1, <3>3, LogType DEF TypeOK
    <3> QED BY <2>1, <3>4 DEF WaitReady, Watched
  <2>2. CASE ServerStep \/ Hangup \/ TakeEvent \/ TakeChange
    BY <2>2 DEF Watched, ServerStep, Publish, IndexStep, Announce, Update, Hangup, TakeEvent,
       TakeChange
  <2>3. CASE Connect
    BY <2>3 DEF Connect, Watched
  <2>4. CASE ReaderStep
    <3>1. CASE Reply
      <4>1. excuses' \in {excuses, excuses \cup {"overtaken"}}
        BY <3>1 DEF Reply, WriteStatus, WriteHeader
      <4> QED BY <4>1 DEF Watched
    <3>2. CASE ~Reply
      <4>1. excuses' = excuses
        BY <2>4, <3>2 DEF ReaderStep, Answer, Subscribe, HeadersSubscribe,
           HeadersSubscribeFails, SubscribeStatus, SubscribeFails
      <4> QED BY <4>1 DEF Watched
    <3> QED BY <3>1, <3>2
  <2>5. CASE Scan \/ HeaderUpdate \/ WaitTimeout \/ ReadHeader
    <3>1. excuses' \in {excuses, excuses \cup {"missed"}}
      <4>1. CASE Scan
        BY <4>1 DEF Scan, ScanStart, ScanHistory, ScanStatus, ScanFails, ScanEnd
      <4>2. CASE HeaderUpdate \/ WaitTimeout \/ ReadHeader
        BY <4>2 DEF HeaderUpdate, WaitTimeout, ReadHeader
      <4> QED BY <2>5, <4>1, <4>2
    <3> QED BY <3>1 DEF Watched
  <2>6. CASE Notify
    <3>1. excuses' \in {excuses, excuses \cup {"overtaken"}}
      BY <2>6 DEF Notify, NotifyHeader, NotifyHeaderFails, NotifyStatus, NotifyStatusFails,
         NotifyEnd, WriteStatus, WriteHeader
    <3> QED BY <3>1 DEF Watched
  <2>7. CASE UNCHANGED vars
    BY <2>7 DEF vars, Watched
  <2> QED BY <2>1, <2>2, <2>3, <2>4, <2>5, <2>6, <2>7, NextSplit DEF NotifierLater
<1> QED BY <1>1, ClientInvariance, PTL DEF Spec, WaitIsExact

-----------------------------------------------------------------------------
(* The header.                                                             *)

(* A reorganisation ends with the blocks of the new branch: no block is    *)
(* disconnected for good, and from the last block event on nakamoto has    *)
(* that block at its height.                                               *)
EndsConnected ==
  /\ \A n \in BlockEvents : Quiet(n, Len(Log)) =>
       Type(n) = "Connected" /\ <<Log[n].height, Log[n].block>> = Final
  /\ \A n \in 0..Len(Log) : Quiet(n, Len(Log)) =>
       \A c \in Trees[n] : HeaderAt(c, TipAfter[Len(Log)]) = Final
  /\ Trees[Len(Log)] # {}

(* current_header_status reads the final header once no block event is     *)
(* left for the notification thread.                                       *)
LEMMA CurrentIsFinal ==
  ASSUME EndsConnected, TypeOK, HeardOK, Watched, notifier.pc # "wait", ~MoreBlocks, NEW hd \in CurrentHeader
  PROVE  hd = Final
<1> DEFINE N == Len(Log)
<1>1. /\ N \in Nat /\ published \in 0..N /\ indexedTo \in 0..N /\ heardTo \in 0..N
      /\ indexedTo <= published /\ heardTo <= published
  BY LogType DEF TypeOK
<1>2. Quiet(heardTo, N) /\ Quiet(indexedTo, heardTo)
  BY DEF MoreBlocks, HeardOK
<1> HIDE DEF N
<1>3. Quiet(indexedTo, N)
  <2>1. ASSUME NEW i \in (indexedTo + 1)..N PROVE i \notin BlockEvents
    <3>1. i \in (indexedTo + 1)..heardTo \/ i \in (heardTo + 1)..N
      BY <1>1
    <3> QED BY <1>2, <3>1 DEF Quiet
  <2> QED BY <2>1 DEF Quiet
<1>4. TipAfter[N] = Tip
  BY <1>1, <1>3, QuietSame DEF N, Tip
<1>5. Quiet(published, N)
  BY <1>1, <1>2, QuietShrinks
<1>6. PICK c \in Trees[published] : hd = HeaderAt(c, Tip)
  BY DEF CurrentHeader
<1> QED BY <1>1, <1>4, <1>5, <1>6 DEF EndsConnected, N

(* Nothing that the header depends on has changed.                         *)
LEMMA SameHeader ==
  ASSUME HeaderOK, Watched, heardTo' = heardTo,
         notifier'.block = notifier.block, notifier'.header = notifier.header,
         notifier'.send = notifier.send, notifier'.pc = notifier.pc,
         reader'.header = reader.header, wire'.header = wire.header,
         state'.headers = state.headers, state'.header = state.header
  PROVE  HeaderOK'
<1>1. MoreBlocks' = MoreBlocks
  BY DEF MoreBlocks, Quiet
<1> HIDE DEF MoreBlocks
<1> QED BY <1>1 DEF HeaderOK, HeaderTold, HeaderInFlight, HeaderComing

(* A header subscription, its failure and its reply.                       *)
LEMMA ReaderHeader ==
  ASSUME EndsConnected, EInv, HeaderOK, Watched, Watched', ReaderStep
  PROVE  HeaderOK'
<1> USE DEF EInv
<1>1. heardTo' = heardTo /\ notifier' = notifier /\ MoreBlocks' = MoreBlocks
  BY ReaderFrame DEF MoreBlocks, Quiet
<1>2. ASSUME NEW z \in ScriptHash, Subscribe(z) \/ SubscribeStatus(z) \/ SubscribeFails(z)
      PROVE  HeaderOK'
  <2>1. wire' = wire /\ state'.headers = state.headers /\ state'.header = state.header
    BY <1>2 DEF Subscribe, SubscribeStatus, SubscribeFails, TypeOK, ClientState
  <2>2. reader'.header = reader.header
    <3>1. CASE Subscribe(z)
      BY <3>1 DEF Subscribe, Request, ControlOK, IdleReader
    <3>2. CASE SubscribeStatus(z)
      BY <3>2 DEF SubscribeStatus, TypeOK, ReaderState
    <3>3. CASE SubscribeFails(z)
      BY <3>3 DEF SubscribeFails, ControlOK, IdleReader
    <3> QED BY <1>2, <3>1, <3>2, <3>3
  <2> QED BY <1>1, <2>1, <2>2, SameHeader
<1>3. CASE HeadersSubscribe
  <2>1. PICK hd \in CurrentHeader :
               /\ state' = [state EXCEPT !.headers = TRUE, !.header = hd]
               /\ reader' = [IdleReader EXCEPT !.pc = "reply", !.header = {hd}]
    BY <1>3 DEF HeadersSubscribe
  <2>2. state'.headers = TRUE /\ state'.header = hd /\ reader'.header = {hd}
    BY <2>1 DEF TypeOK, ClientState, IdleReader
  <2>3. hd = Final \/ HeaderComing
    <3>1. notifier.pc = "wait" => HeaderComing
      BY DEF HeaderComing, ControlOK
    <3> QED BY <3>1, CurrentIsFinal DEF HeaderComing
  <2> QED BY <1>1, <2>2, <2>3 DEF HeaderOK, HeaderTold, HeaderInFlight, HeaderComing
<1>4. CASE HeadersSubscribeFails
  <2>1. wire' = wire /\ reader' = reader /\ state'.headers = TRUE /\ state'.header = state.header
    BY <1>4 DEF HeadersSubscribeFails, TypeOK, ClientState
  <2> QED BY <1>1, <2>1 DEF HeaderOK, HeaderTold, HeaderInFlight, HeaderComing
<1>5. CASE Reply
  <2>1. state' = state /\ reader'.header = {} /\ wire \in Wire
    BY <1>5 DEF Reply, IdleReader, TypeOK
  <2>2. CASE \E z \in reader.script, st \in reader.status : WriteStatus(z, st)
    <3>1. wire'.header = wire.header
      BY <2>1, <2>2 DEF WriteStatus, Wire
    <3>2. reader.header = {}
      BY <2>2 DEF ControlOK
    <3> QED BY <1>1, <2>1, <3>1, <3>2, SameHeader
  <2>3. CASE \E hd \in reader.header : WriteHeader(hd)
    <3>1. wire'.header = {state.header}
      BY <2>1, <2>3 DEF WriteHeader, Watched, Wire
    <3>2. HeaderTold
      BY <2>3 DEF HeaderTold, HeaderInFlight
    <3> QED BY <1>1, <2>1, <3>1, <3>2 DEF HeaderOK, HeaderTold, HeaderInFlight, HeaderComing
  <2> QED BY <1>5, <2>2, <2>3 DEF Reply
<1> QED BY <1>2, <1>3, <1>4, <1>5 DEF ReaderStep, Answer

(* Taking up a block event promises a header, a pending change does not.   *)
LEMMA TakeHeader ==
  ASSUME EInv, HeaderOK, Watched, TakeEvent \/ TakeChange
  PROVE  HeaderOK'
<1>1. UNCHANGED <<reader, state, wire>> /\ notifier = IdleNotifier
  BY DEF TakeEvent, TakeChange, connVars, EInv, ControlOK
<1>2. notifier'.send = {} /\ notifier.send = {} /\ ~notifier.block
  <2>1. CASE TakeEvent
    BY <1>1, <2>1 DEF TakeEvent, IdleNotifier
  <2>2. CASE TakeChange
    BY <1>1, <2>2 DEF TakeChange, IdleNotifier
  <2> QED BY <2>1, <2>2
<1>3. CASE TakeEvent
  <2>1. CASE heardTo' \in BlockEvents
    <3>1. notifier'.pc = "wait" /\ notifier'.block
      BY <1>3, <2>1 DEF TakeEvent, IdleNotifier
    <3> QED BY <1>1, <1>2, <3>1 DEF HeaderOK, HeaderTold, HeaderInFlight, HeaderComing
  <2>2. CASE heardTo' \notin BlockEvents
    <3>1. /\ notifier' = notifier /\ heardTo' = heardTo + 1
          /\ heardTo \in Int /\ Len(Log) \in Int
      BY <1>3, <2>2, LogType DEF TakeEvent, EInv, TypeOK
    <3>2. ASSUME MoreBlocks PROVE MoreBlocks'
      <4>1. PICK i \in (heardTo + 1)..Len(Log) : i \in BlockEvents
        BY <3>2 DEF MoreBlocks, Quiet
      <4>2. i # heardTo + 1
        BY <2>2, <3>1, <4>1
      <4>3. i \in (heardTo' + 1)..Len(Log)
        BY <3>1, <4>2
      <4> QED BY <4>1, <4>3 DEF MoreBlocks, Quiet
    <3> HIDE DEF MoreBlocks
    <3> QED BY <1>1, <1>2, <3>1, <3>2 DEF HeaderOK, HeaderTold, HeaderInFlight, HeaderComing
  <2> QED BY <2>1, <2>2
<1>4. CASE TakeChange
  <2>1. MoreBlocks' = MoreBlocks
    BY <1>4 DEF TakeChange, MoreBlocks, Quiet
  <2>2. ~notifier'.block
    BY <1>1, <1>4 DEF TakeChange, IdleNotifier
  <2> HIDE DEF MoreBlocks
  <2> QED BY <1>1, <1>2, <2>1, <2>2 DEF HeaderOK, HeaderTold, HeaderInFlight, HeaderComing
<1> QED BY <1>3, <1>4

(* The header is read, compared with the record, recorded and written.     *)
LEMMA NotifierHeader ==
  ASSUME EndsConnected, EInv, HeaderOK, Watched, Watched', NotifierLater
  PROVE  HeaderOK'
<1> USE DEF EInv
<1>1. heardTo' = heardTo /\ reader' = reader
  BY NotifierFrame
<1>2. MoreBlocks' = MoreBlocks
  BY <1>1 DEF MoreBlocks, Quiet
<1> USE DEF HeaderTold, HeaderInFlight, HeaderComing
<1> HIDE DEF MoreBlocks
<1>3. CASE WaitReady \/ WaitTimeout
  <2>1. UNCHANGED <<state, wire>> /\ notifier.block
    BY <1>3 DEF WaitReady, WaitTimeout, ControlOK
  <2>2. /\ notifier'.pc = "header" /\ notifier'.block = notifier.block
        /\ notifier'.send = notifier.send
    BY <1>3 DEF WaitReady, WaitTimeout, TypeOK, NotifierState
  <2> QED BY <1>1, <1>2, <2>1, <2>2 DEF HeaderOK
<1>4. CASE ReadHeader
  <2>1. UNCHANGED <<state, wire>> /\ notifier.block /\ heardTo \in BlockEvents
    BY <1>4 DEF ReadHeader, ControlOK
  <2>2. PICK hd \in IF Type(heardTo) = "Connected"
                    THEN {<<Log[heardTo].height, Log[heardTo].block>>}
                    ELSE CurrentHeader \cup {NoHeader} :
               notifier' = [notifier EXCEPT !.pc = "scripts", !.header = hd]
    BY <1>4 DEF ReadHeader
  <2>3. hd = Final \/ MoreBlocks
    BY <2>1, <2>2 DEF MoreBlocks, EndsConnected
  <2>4. /\ notifier'.pc = "scripts" /\ notifier'.block = notifier.block
        /\ notifier'.send = notifier.send /\ notifier'.header = hd
    BY <2>2 DEF TypeOK, NotifierState
  <2> QED BY <1>1, <1>2, <2>1, <2>3, <2>4 DEF HeaderOK
<1>5. CASE ScanStart \/ ScanEnd
  <2>1. UNCHANGED <<state, wire>> /\ notifier.pc \in {"scripts", "scan"}
    BY <1>5 DEF ScanStart, ScanEnd
  <2>2. /\ notifier'.block = notifier.block
        /\ notifier'.send = notifier.send /\ notifier'.header = notifier.header
        /\ notifier.block => notifier'.pc \in {"scan", "headers"}
    BY <1>5 DEF ScanStart, ScanEnd, TypeOK, NotifierState
  <2> QED BY <1>1, <1>2, <2>1, <2>2 DEF HeaderOK
<1>6. ASSUME NEW z \in ScriptHash, ScanHistory(z) \/ ScanStatus(z) PROVE HeaderOK'
  <2>1. wire' = wire /\ state'.headers = state.headers /\ state'.header = state.header
    <3>1. CASE ScanHistory(z)
      BY <3>1 DEF ScanHistory
    <3>2. CASE ScanStatus(z)
      BY <3>2, ScanFields DEF ScanStatus
    <3> QED BY <1>6, <3>1, <3>2
  <2>2. /\ notifier'.block = notifier.block /\ notifier'.pc = notifier.pc
        /\ notifier'.send = notifier.send /\ notifier'.header = notifier.header
    <3>1. CASE ScanHistory(z)
      BY <3>1 DEF ScanHistory, TypeOK, NotifierState
    <3>2. CASE ScanStatus(z)
      BY <3>2, ScanFields
    <3> QED BY <1>6, <3>1, <3>2
  <2> QED BY <1>1, <2>1, <2>2, SameHeader
<1>7. ASSUME NEW z \in ScriptHash, ScanFails(z) PROVE HeaderOK'
  BY <1>7 DEF ScanFails, Watched
<1>8. CASE HeaderUpdate
  <2>1. wire' = wire /\ notifier.pc = "headers" /\ notifier.block
    BY <1>8 DEF HeaderUpdate, ControlOK
  <2>2. notifier'.pc = "write" /\ state'.headers = state.headers
    BY <1>8, HeaderUpdateFields DEF TypeOK, NotifierState, ClientState
  <2>3. \/ /\ state.headers
           /\ state'.header = notifier.header /\ notifier'.send = {notifier.header}
        \/ /\ state.headers => state.header = notifier.header
           /\ state'.header = state.header /\ notifier'.send = notifier.send
    BY <1>8, HeaderUpdateFields
  <2>4. notifier.header = Final \/ MoreBlocks
    BY <2>1 DEF HeaderOK
  <2> QED BY <1>1, <1>2, <2>1, <2>2, <2>3, <2>4 DEF HeaderOK
<1>9. CASE NotifyHeader
  <2>1. state' = state /\ notifier.pc = "write"
    BY <1>9 DEF NotifyHeader
  <2>2. PICK hd \in notifier.send : WriteHeader(hd)
    BY <1>9 DEF NotifyHeader
  <2>3. wire'.header = {state.header}
    BY <2>2 DEF WriteHeader, Watched, TypeOK, Wire
  <2>4. notifier'.pc = "write"
    BY <1>9, <2>1 DEF NotifyHeader, TypeOK, NotifierState
  <2>5. HeaderTold
    BY <2>2
  <2> QED BY <1>1, <1>2, <2>1, <2>3, <2>4, <2>5 DEF HeaderOK
<1>10. CASE NotifyStatus
  <2>1. state' = state
    BY <1>10 DEF NotifyStatus
  <2>2. wire'.header = wire.header
    BY <1>10 DEF NotifyStatus, WriteStatus, TypeOK, Wire
  <2>3. /\ notifier'.block = notifier.block /\ notifier'.pc = notifier.pc
        /\ notifier'.send = notifier.send /\ notifier'.header = notifier.header
    BY <1>10 DEF NotifyStatus, TypeOK, NotifierState
  <2> QED BY <1>1, <2>1, <2>2, <2>3, SameHeader
<1>11. CASE NotifyHeaderFails \/ NotifyStatusFails
  BY <1>11 DEF NotifyHeaderFails, NotifyStatusFails, Watched
<1>12. CASE NotifyEnd
  <2>1. UNCHANGED <<state, wire>> /\ notifier.pc = "write" /\ notifier.send = {}
    BY <1>12 DEF NotifyEnd
  <2>2. ~notifier'.block /\ notifier'.send = {}
    BY <1>12 DEF NotifyEnd, IdleNotifier
  <2> QED BY <1>1, <1>2, <2>1, <2>2 DEF HeaderOK
<1> QED BY <1>3, <1>4, <1>5, <1>6, <1>7, <1>8, <1>9, <1>10, <1>11, <1>12
        DEF NotifierLater, Scan, Notify

(* Every step keeps what the client is owed of the tip.                    *)
LEMMA HeaderStep == ASSUME EndsConnected, FInv, [Next]_vars PROVE HeaderOK'
<1> SUFFICES ASSUME Watched' PROVE HeaderOK'
  BY DEF HeaderOK
<1> USE DEF FInv
<1>1. CASE Connect
  <2>1. /\ ~notifier'.block /\ notifier'.send = {} /\ reader'.header = {} /\ wire'.header = {}
    BY <1>1, ConnectFresh DEF EInv, IdleNotifier, IdleReader
  <2> QED BY <2>1 DEF HeaderOK, HeaderTold, HeaderInFlight
<1> SUFFICES ASSUME Watched PROVE HeaderOK'
  BY <1>1, WatchedBefore DEF EInv
<1>2. CASE ServerStep
  BY <1>2, ServerFrame, SameHeader
<1>3. CASE ReaderStep
  BY <1>3, ReaderHeader
<1>4. CASE TakeEvent \/ TakeChange
  BY <1>4, TakeHeader
<1>5. CASE NotifierLater
  BY <1>5, NotifierHeader
<1>6. CASE Hangup
  BY <1>6 DEF Hangup, Watched
<1>7. CASE UNCHANGED vars
  BY <1>7, SameHeader DEF vars
<1> QED BY <1>1, <1>2, <1>3, <1>4, <1>5, <1>6, <1>7, NextSplit

(* handle_headers_subscribe and the header half of                         *)
(* spawn_client_notifications: when the events have ended with a connected *)
(* block and nothing is on its way, the last header that the client was    *)
(* sent is that of the indexed tip.                                        *)
THEOREM HeadersAreCurrent ==
  ASSUME EndsConnected
  PROVE  Spec => []HeaderCurrentAtRest
<1>1. Init => HeaderOK
  BY DEF Init, HeaderOK, Watched
<1>2. HeaderOK /\ EInv /\ [Next]_vars => HeaderOK'
  BY HeaderStep DEF FInv
<1>3. ASSUME EInv, HeaderOK PROVE HeaderCurrentAtRest
  <2> SUFFICES ASSUME Settled, published = Len(Log), conn = "open", excuses = {}
               PROVE  wire.header \subseteq CurrentHeader
    BY DEF HeaderCurrentAtRest
  <2>1. notifier = IdleNotifier /\ reader = IdleReader
    BY <1>3 DEF EInv, ControlOK, Settled
  <2>2. ~HeaderInFlight /\ ~notifier.block
    BY <2>1 DEF HeaderInFlight, IdleNotifier, IdleReader
  <2>3. ~MoreBlocks
    BY LogType DEF MoreBlocks, Quiet, Settled
  <2>4. Final \in CurrentHeader
    <3>1. Trees[published] # {} /\ Tip = TipAfter[Len(Log)]
      BY DEF Settled, Tip, EndsConnected
    <3> QED BY <3>1 DEF CurrentHeader, Final
  <2> QED BY <1>3, <2>2, <2>3, <2>4 DEF HeaderOK, HeaderTold, HeaderComing, Watched
<1> QED BY <1>1, <1>2, <1>3, ClientInvariance, PTL DEF Spec
=============================================================================

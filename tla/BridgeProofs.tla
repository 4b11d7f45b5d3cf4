---------------------------- MODULE BridgeProofs ----------------------------
(***************************************************************************)
(* Proofs about Bridge: for any sizes of the two kinds of records, any     *)
(* number of starts, networks, directories, blocks and connections, the    *)
(* client never opens a cache that an earlier process left unusable, and   *)
(* no index in a default directory gets blocks of two networks.            *)
(***************************************************************************)
EXTENDS Bridge, FiniteSetTheorems, TLAPS

-----------------------------------------------------------------------------
(* The inductive invariant.                                                *)

(* A process has a configuration, and in it a directory and a network.     *)
ProcessOK ==
  /\ main # "down" => cfg \in RunConfig
  /\ attached # {} => main # "down"

(* The client comes after the check of the cache and goes with the         *)
(* process: nothing is written between the check and its start.            *)
ClientOK ==
  /\ main \in {"down", "check", "clear", "spawn"} => client = "none"
  /\ main = "spawn" \/ client = "open" => CacheUsable

(* The metric counts the threads of the Electrum server.                   *)
ServerOK == IsFiniteSet(live) /\ connections = Cardinality(live)

(* A process in a default directory runs on the network of the directory.  *)
NetworkOK ==
  main # "down" => \A n \in Network : cfg.index_dir = DefaultIndexDir(n) => cfg.network = n

BrInv == TypeOK /\ ProcessOK /\ ClientOK /\ ServerOK

-----------------------------------------------------------------------------
(* Files and records.                                                      *)

(* The cache of the process is one of the caches.                          *)
LEMMA MineType ==
  ASSUME cfg \in RunConfig
  PROVE  Mine \in Cache /\ cfg.index_dir \in IndexDir /\ cfg.network \in Network
BY DEF RunConfig, Mine, Cache

(* What the command line gives is a configuration.                         *)
LEMMA IntoModeType ==
  ASSUME NEW cli \in Cli
  PROVE  IntoMode(cli) \in RunConfig
<1>1. cli.network \in Network /\ cli.data_dir \in DataDir \cup {NotGiven}
  BY DEF Cli
<1>2. DefaultIndexDir(cli.network) \in IndexDir
  BY <1>1 DEF IndexDir
<1>3. cli.data_dir # NotGiven => cli.data_dir \in IndexDir
  BY <1>1 DEF IndexDir
<1> QED BY <1>1, <1>2, <1>3 DEF IntoMode, RunConfig

(* A file that holds at most m records of a size is at most that long.     *)
LEMMA RecordsBound ==
  ASSUME NEW size \in Nat \ {0}, NEW m \in Nat, NEW len \in Nat, len <= m * size
  PROVE  Records(len, size) \in 0..m
<1> DEFINE q == len \div size
           r == len % size
<1>1. q \in Int /\ r \in 0..(size - 1) /\ len = size * q + r
  OBVIOUS
<1> HIDE DEF q, r
<1>2. q >= 0
  <2>1. q <= -1 => size * q <= -size
    BY <1>1
  <2> QED BY <1>1, <2>1
<1>3. q <= m
  <2>1. q >= m + 1 => size * q >= size * (m + 1)
    BY <1>1
  <2>2. size * (m + 1) = m * size + size
    OBVIOUS
  <2> QED BY <1>1, <2>1, <2>2
<1> QED BY <1>1, <1>2, <1>3 DEF Records, q

(* Products of the bounds are natural numbers.                             *)
LEMMA Bounds ==
  /\ HeaderSize \in Nat \ {0} /\ FilterSize \in Nat \ {0} /\ MaxRecords \in Nat
  /\ MaxRecords * HeaderSize \in Nat /\ MaxRecords * FilterSize \in Nat
BY BridgeAssumption

(* Files that lose some of their caches.                                   *)
LEMMA WithoutType ==
  ASSUME NEW m \in Nat, NEW files \in [Cache -> Absent..m], NEW gone
  PROVE  Without(files, gone) \in [Cache -> Absent..m]
BY DEF Without, Absent

(* The removal of the cache directory, complete or not.                    *)
LEMMA RemoveCacheType ==
  ASSUME TypeOK, RemoveCache
  PROVE  /\ headers' \in [Cache -> Absent..(MaxRecords * HeaderSize)]
         /\ filters' \in [Cache -> Absent..(MaxRecords * FilterSize)]
         /\ foreign' \subseteq Cache /\ contents' = contents /\ faults' \in 0..MaxFaults
<1> DEFINE all == {cfg.index_dir} \X Network
<1>1. contents' = contents
  BY DEF RemoveCache
<1>2. PICK h, f \in SUBSET all :
        /\ headers' = Without(headers, h) /\ filters' = Without(filters, f)
        /\ foreign' = foreign \ h
        /\ faults' = faults \/ (faults' = faults + 1 /\ faults' <= MaxFaults)
  BY DEF RemoveCache
<1>3. faults' \in 0..MaxFaults
  BY <1>2, BridgeAssumption DEF TypeOK
<1>4. /\ Without(headers, h) \in [Cache -> Absent..(MaxRecords * HeaderSize)]
      /\ Without(filters, f) \in [Cache -> Absent..(MaxRecords * FilterSize)]
  BY Bounds, WithoutType DEF TypeOK
<1> QED BY <1>1, <1>2, <1>3, <1>4 DEF TypeOK

(* A file grows by a byte, up to its bound.                                *)
LEMMA GrowType ==
  ASSUME NEW m \in Nat, NEW files \in [Cache -> Absent..m], NEW p \in Cache, files[p] < m
  PROVE  [files EXCEPT ![p] = Grow(@)] \in [Cache -> Absent..m]
<1>1. Grow(files[p]) \in Absent..m
  BY DEF Grow, Absent
<1> QED BY <1>1

(* Whether the cache can be used depends on the two files only.            *)
LEMMA SameCache ==
  ASSUME UNCHANGED <<headers, filters, cfg>>
  PROVE  CacheUsable' <=> CacheUsable
BY DEF CacheUsable, Consistent, Mine

-----------------------------------------------------------------------------
(* The steps.                                                              *)

(* The invariant holds before the first start.                             *)
LEMMA BridgeInit == Init => BrInv
<1> SUFFICES ASSUME Init PROVE BrInv
  OBVIOUS
<1>1. TypeOK
  <2>1. /\ Absent \in Absent..(MaxRecords * HeaderSize)
        /\ Absent \in Absent..(MaxRecords * FilterSize)
    BY Bounds DEF Absent
  <2>2. /\ headers \in [Cache -> Absent..(MaxRecords * HeaderSize)]
        /\ filters \in [Cache -> Absent..(MaxRecords * FilterSize)]
    BY <2>1 DEF Init
  <2>3. starts \in 0..MaxStarts /\ faults \in 0..MaxFaults /\ connections \in Nat
    BY BridgeAssumption DEF Init
  <2> QED BY <2>2, <2>3 DEF Init, TypeOK, InStartup
<1>2. ServerOK
  BY FS_EmptySet DEF Init, ServerOK
<1> QED BY <1>1, <1>2 DEF Init, BrInv, ProcessOK, ClientOK

(* A step of the main thread that only moves on.                           *)
LEMMA GotoInv ==
  ASSUME BrInv, NEW place, Goto(place),
         \/ main = "check" /\ place = "clear"
         \/ main # "down" /\ place \in Ended \cup {"bind", "serve"}
  PROVE  BrInv'
<1>1. /\ main' = place
      /\ UNCHANGED <<diskVars, shutdown, clientVars, watching, wiring, block, serverVars>>
  BY DEF Goto
<1>2. TypeOK'
  BY <1>1 DEF BrInv, TypeOK, diskVars, clientVars, wiring, serverVars, Ended, InStartup
<1>3. ProcessOK' /\ ServerOK'
  BY <1>1 DEF BrInv, ProcessOK, ServerOK, wiring, serverVars, Ended
<1>4. ClientOK'
  BY <1>1, SameCache DEF BrInv, ClientOK, diskVars, clientVars, wiring, Ended
<1> QED BY <1>2, <1>3, <1>4 DEF BrInv

(* The process starts.                                                     *)
LEMMA StartInv == ASSUME BrInv, NEW cli \in Cli, Start(cli) PROVE BrInv'
<1>1. /\ main = "down" /\ starts < MaxStarts /\ starts' = starts + 1
      /\ main' = "check" /\ cfg' = IntoMode(cli)
      /\ foreign' \subseteq foreign \cup Cache
      /\ UNCHANGED <<headers, filters, contents, faults, shutdown, clientVars, watching,
                     attached, peers, block, serverVars>>
  BY DEF Start
<1>2. cfg' \in RunConfig
  BY <1>1, IntoModeType
<1>3. starts' \in 0..MaxStarts
  BY <1>1, BridgeAssumption DEF BrInv, TypeOK
<1>4. TypeOK'
  BY <1>1, <1>2, <1>3 DEF BrInv, TypeOK, clientVars, serverVars, InStartup
<1>5. ProcessOK' /\ ClientOK' /\ ServerOK'
  BY <1>1, <1>2 DEF BrInv, ProcessOK, ClientOK, ServerOK, clientVars, serverVars
<1> QED BY <1>4, <1>5 DEF BrInv

(* The cache is checked, and removed when it cannot be used.               *)
LEMMA ClearCacheInv == ASSUME BrInv, ClearCache PROVE BrInv'
<1>1. /\ main = "clear" /\ client = "none"
      /\ UNCHANGED <<shutdown, clientVars, watching, wiring, block, serverVars>>
  BY DEF BrInv, ClientOK, ClearCache
<1>2. CASE CacheUsable /\ main' = "spawn" /\ UNCHANGED diskVars
  <2>1. TypeOK'
    BY <1>1, <1>2 DEF BrInv, TypeOK, diskVars, clientVars, wiring, serverVars, InStartup
  <2>2. ProcessOK' /\ ServerOK'
    BY <1>1, <1>2 DEF BrInv, ProcessOK, ServerOK, wiring, serverVars
  <2>3. ClientOK'
    BY <1>1, <1>2, SameCache DEF BrInv, ClientOK, diskVars, clientVars, wiring
  <2> QED BY <2>1, <2>2, <2>3 DEF BrInv
<1>3. CASE RemoveCache /\ main' = "check" /\ UNCHANGED starts
  <2>1. TypeOK'
    BY <1>1, <1>3, RemoveCacheType DEF BrInv, TypeOK, clientVars, wiring, serverVars, InStartup
  <2>2. ProcessOK' /\ ClientOK' /\ ServerOK'
    BY <1>1, <1>3 DEF BrInv, ProcessOK, ClientOK, ServerOK, clientVars, wiring, serverVars
  <2> QED BY <2>1, <2>2 DEF BrInv
<1> QED BY <1>2, <1>3 DEF ClearCache

(* The client is started, right after the check.                           *)
LEMMA SpawnClientInv == ASSUME BrInv, SpawnClient PROVE BrInv'
<1>1. CASE main = "spawn" /\ Goto("err")
  BY <1>1, GotoInv DEF Ended
<1>2. CASE /\ main = "spawn" /\ main' = "startup"
           /\ client' = "open" /\ startup' = "empty" /\ asked' = FALSE
           /\ UNCHANGED <<diskVars, shutdown, watching, wiring, block, serverVars>>
  <2>1. TypeOK'
    BY <1>2 DEF BrInv, TypeOK, diskVars, wiring, serverVars, InStartup
  <2>2. ProcessOK' /\ ServerOK'
    BY <1>2 DEF BrInv, ProcessOK, ServerOK, wiring, serverVars
  <2>3. ClientOK'
    BY <1>2, SameCache DEF BrInv, ClientOK, diskVars, wiring
  <2> QED BY <2>1, <2>2, <2>3 DEF BrInv
<1> QED BY <1>1, <1>2 DEF SpawnClient

(* The client ends during the start-up wait.                               *)
LEMMA ClientEndedEarlyInv == ASSUME BrInv, ClientEndedEarly PROVE BrInv'
<1>1. CASE main = "startup" /\ Goto("err")
  BY <1>1, GotoInv DEF Ended
<1>2. CASE /\ main = "startup" /\ RemoveCache /\ main' = "check" /\ client' = "none"
           /\ UNCHANGED <<starts, shutdown, startup, asked, watching, wiring, block, serverVars>>
  <2>1. TypeOK'
    BY <1>2, RemoveCacheType DEF BrInv, TypeOK, wiring, serverVars, InStartup
  <2>2. ProcessOK' /\ ClientOK' /\ ServerOK'
    BY <1>2 DEF BrInv, ProcessOK, ClientOK, ServerOK, wiring, serverVars
  <2> QED BY <2>1, <2>2 DEF BrInv
<1> QED BY <1>1, <1>2 DEF ClientEndedEarly

(* The main thread waits for the client, then wires the threads together.  *)
LEMMA WiringInv ==
  ASSUME BrInv, StartupTimeout \/ Wire \/ StartIndexer \/ PeersAnswer
  PROVE  BrInv'
<1>1. CASE main = "index" /\ Goto("err")
  BY <1>1, GotoInv DEF Ended
<1>2. CASE /\ \/ main \in {"startup", "wire", "index"} /\ main' \in {"join", "wire", "index", "idle", "peers"}
              \/ main' = main
           /\ attached' \subseteq attached \cup {"source", "indexer"}
           /\ attached' # {} => main # "down"
           /\ peers' \in {"none", "waiting", "answered"}
           /\ {asked', watching'} \subseteq BOOLEAN
           /\ UNCHANGED <<diskVars, shutdown, client, startup, cfg, block, serverVars>>
  <2>1. TypeOK'
    BY <1>2 DEF BrInv, TypeOK, diskVars, serverVars, InStartup
  <2>2. ProcessOK' /\ ServerOK'
    BY <1>2 DEF BrInv, ProcessOK, ServerOK, serverVars
  <2>3. ClientOK'
    BY <1>2, SameCache DEF BrInv, ClientOK, diskVars
  <2> QED BY <2>1, <2>2, <2>3 DEF BrInv
<1>3. /\ {asked, watching, shutdown} \subseteq BOOLEAN /\ peers \in {"none", "waiting", "answered"}
      /\ attached # {} => main # "down"
  BY DEF BrInv, TypeOK, ProcessOK
<1>4. CASE StartupTimeout
  BY <1>2, <1>3, <1>4 DEF StartupTimeout, wiring
<1>5. CASE Wire
  BY <1>2, <1>3, <1>5 DEF Wire, clientVars
<1>6. CASE StartIndexer
  BY <1>1, <1>2, <1>3, <1>6 DEF StartIndexer, clientVars
<1>7. CASE PeersAnswer
  BY <1>2, <1>3, <1>7 DEF PeersAnswer, clientVars
<1> QED BY <1>4, <1>5, <1>6, <1>7

(* The other steps of the main thread.                                     *)
LEMMA MainInv == ASSUME BrInv, Main PROVE BrInv'
<1>1. CASE CheckShutdown
  BY <1>1, GotoInv DEF CheckShutdown, Ended
<1>2. CASE Join \/ AwaitPeers \/ BindServer \/ StopServing \/ StopIdling
  BY <1>2, GotoInv DEF Join, AwaitPeers, BindServer, StopServing, StopIdling, Ended
<1> QED BY <1>1, <1>2, ClearCacheInv, SpawnClientInv, ClientEndedEarlyInv, WiringInv DEF Main

(* The client opens its store or ends.                                     *)
LEMMA ClientMovesInv ==
  ASSUME BrInv, \/ ClientOpens
                \/ \E how \in {"failed", "closed"} : ClientEnds(how)
  PROVE  BrInv'
<1>1. /\ client \in {"open", "run"} /\ client' \in {"run", "ended"}
      /\ startup' \in {startup, "genesis", "failed", "closed"}
      /\ UNCHANGED <<diskVars, main, shutdown, asked, watching, wiring, block, serverVars>>
  BY DEF ClientOpens, ClientEnds
<1>2. TypeOK'
  BY <1>1 DEF BrInv, TypeOK, diskVars, wiring, serverVars
<1>3. ProcessOK' /\ ServerOK'
  BY <1>1 DEF BrInv, ProcessOK, ServerOK, wiring, serverVars
<1>4. ClientOK'
  BY <1>1 DEF BrInv, ClientOK
<1> QED BY <1>2, <1>3, <1>4 DEF BrInv

(* The client writes: the main thread is past the check by then.           *)
LEMMA ClientWritesInv == ASSUME BrInv, WriteHeader \/ WriteFilter PROVE BrInv'
<1>1. /\ client = "run" /\ main \notin {"down", "check", "clear", "spawn"}
      /\ UNCHANGED <<foreign, contents, starts, faults, main, shutdown, clientVars,
                     watching, wiring, block, serverVars>>
  BY DEF BrInv, ClientOK, WriteHeader, WriteFilter
<1>2. Mine \in Cache
  BY <1>1, MineType DEF BrInv, ProcessOK
<1>3. /\ headers \in [Cache -> Absent..(MaxRecords * HeaderSize)]
      /\ filters \in [Cache -> Absent..(MaxRecords * FilterSize)]
  BY DEF BrInv, TypeOK
<1>4. /\ headers' \in [Cache -> Absent..(MaxRecords * HeaderSize)]
      /\ filters' \in [Cache -> Absent..(MaxRecords * FilterSize)]
  <2>1. CASE WriteHeader
    BY <1>2, <1>3, <2>1, Bounds, GrowType DEF WriteHeader
  <2>2. CASE WriteFilter
    <3> DEFINE h == headers[Mine]
               k == Records(h, HeaderSize)
    <3>1. h \in Nat /\ h <= MaxRecords * HeaderSize
      BY <1>2, <1>3, <2>2, Bounds DEF WriteFilter, Absent
    <3>2. filters[Mine] < k * FilterSize
      BY <2>2 DEF WriteFilter
    <3> HIDE DEF h
    <3>3. k \in 0..MaxRecords
      BY <3>1, Bounds, RecordsBound
    <3> HIDE DEF k
    <3>4. k * FilterSize <= MaxRecords * FilterSize /\ k * FilterSize \in Nat
      BY <3>3, Bounds
    <3>5. filters[Mine] \in Int
      BY <1>2, <1>3, Bounds DEF Absent
    <3>6. filters[Mine] < MaxRecords * FilterSize
      BY <3>2, <3>4, <3>5, Bounds
    <3> QED BY <1>2, <1>3, <2>2, <3>6, Bounds, GrowType DEF WriteFilter
  <2> QED BY <2>1, <2>2
<1>5. TypeOK'
  BY <1>1, <1>4 DEF BrInv, TypeOK, clientVars, wiring, serverVars
<1>6. ProcessOK' /\ ClientOK' /\ ServerOK'
  BY <1>1 DEF BrInv, ProcessOK, ClientOK, ServerOK, clientVars, wiring, serverVars
<1> QED BY <1>5, <1>6 DEF BrInv

(* A block is reported, or goes on to the indexer.                         *)
LEMMA BlockInv ==
  ASSUME BrInv, NEW b \in Block, ReportBlock(b) \/ SourceStep(b)
  PROVE  BrInv'
<1>1. UNCHANGED <<headers, filters, foreign, starts, faults, main, shutdown, clientVars,
                  watching, wiring, serverVars>>
  BY DEF ReportBlock, SourceStep, diskVars
<1>2. block' \in [Block -> {"new", "event", "lost", "refused", "indexed"}]
  BY DEF BrInv, TypeOK, ReportBlock, SourceStep
<1>3. contents' \in [IndexDir -> SUBSET Network]
  <2>1. contents \in [IndexDir -> SUBSET Network]
    BY DEF BrInv, TypeOK
  <2>2. CASE contents' = contents
    BY <2>1, <2>2
  <2>3. CASE /\ "source" \in attached
             /\ contents' = [contents EXCEPT ![cfg.index_dir] = @ \cup {cfg.network}]
    <3>1. cfg.index_dir \in IndexDir /\ cfg.network \in Network
      BY <2>3, MineType DEF BrInv, ProcessOK
    <3> QED BY <2>1, <2>3, <3>1
  <2> QED BY <2>2, <2>3 DEF ReportBlock, SourceStep, diskVars
<1>4. TypeOK'
  BY <1>1, <1>2, <1>3 DEF BrInv, TypeOK, clientVars, wiring, serverVars
<1>5. ProcessOK' /\ ServerOK'
  BY <1>1 DEF BrInv, ProcessOK, ServerOK, wiring, serverVars
<1>6. ClientOK'
  BY <1>1, SameCache DEF BrInv, ClientOK, clientVars, wiring
<1> QED BY <1>4, <1>5, <1>6 DEF BrInv

(* A connection comes or goes, with its count.                             *)
LEMMA ConnectionInv ==
  ASSUME BrInv, NEW c \in Conn, Accept(c) \/ ClientThreadEnds(c)
  PROVE  BrInv'
<1>1. UNCHANGED <<diskVars, main, shutdown, clientVars, watching, wiring, block>>
  BY DEF Accept, ClientThreadEnds
<1>2. IsFiniteSet(live) /\ connections = Cardinality(live) /\ live \subseteq Conn
  BY DEF BrInv, ServerOK, TypeOK
<1>3. live' \subseteq Conn /\ IsFiniteSet(live') /\ connections' = Cardinality(live')
  <2>1. CASE Accept(c)
    <3>1. c \notin live /\ live' = live \cup {c} /\ connections' = connections + 1
      BY <2>1 DEF Accept
    <3> QED BY <1>2, <3>1, FS_AddElement
  <2>2. CASE ClientThreadEnds(c)
    <3>1. c \in live /\ live' = live \ {c} /\ connections' = connections - 1
      BY <2>2 DEF ClientThreadEnds
    <3> QED BY <1>2, <3>1, FS_RemoveElement
  <2> QED BY <2>1, <2>2
<1>4. connections' \in Nat
  BY <1>3, FS_CardinalityType
<1>5. TypeOK'
  BY <1>1, <1>3, <1>4 DEF BrInv, TypeOK, diskVars, clientVars, wiring
<1>6. ProcessOK' /\ ServerOK'
  BY <1>1, <1>3 DEF BrInv, ProcessOK, ServerOK, wiring
<1>7. ClientOK'
  BY <1>1, SameCache DEF BrInv, ClientOK, diskVars, clientVars, wiring
<1> QED BY <1>5, <1>6, <1>7 DEF BrInv

(* Ctrl-C, and the watcher that passes it on.                              *)
LEMMA ShutdownInv == ASSUME BrInv, CtrlC \/ WatcherFires PROVE BrInv'
<1>1. /\ {shutdown', asked', watching'} \subseteq BOOLEAN
      /\ UNCHANGED <<diskVars, main, client, startup, wiring, block, serverVars>>
  BY DEF BrInv, TypeOK, CtrlC, WatcherFires, clientVars
<1>2. TypeOK'
  BY <1>1 DEF BrInv, TypeOK, diskVars, wiring, serverVars
<1>3. ProcessOK' /\ ServerOK'
  BY <1>1 DEF BrInv, ProcessOK, ServerOK, wiring, serverVars
<1>4. ClientOK'
  BY <1>1, SameCache DEF BrInv, ClientOK, diskVars, wiring
<1> QED BY <1>2, <1>3, <1>4 DEF BrInv

(* The process is gone, at whatever point it was.                          *)
LEMMA ProcessEndsInv == ASSUME BrInv, ProcessEnds PROVE BrInv'
<1>1. /\ main' = "down" /\ client' = "none" /\ attached' = {}
      /\ live' = {} /\ connections' = 0 /\ cfg' = NoConfig
      /\ startup' = "empty" /\ peers' = "none"
      /\ {shutdown', asked', watching'} \subseteq BOOLEAN
      /\ UNCHANGED diskVars
  BY DEF ProcessEnds
<1>2. block' \in [Block -> {"new", "event", "lost", "refused", "indexed"}]
  BY DEF BrInv, TypeOK, ProcessEnds
<1>3. TypeOK'
  BY <1>1, <1>2 DEF BrInv, TypeOK, diskVars
<1>4. ProcessOK' /\ ClientOK'
  BY <1>1 DEF ProcessOK, ClientOK
<1>5. ServerOK'
  BY <1>1, FS_EmptySet DEF ServerOK
<1> QED BY <1>3, <1>4, <1>5 DEF BrInv

(* Every step.                                                             *)
LEMMA BridgeStep == ASSUME BrInv, [Next]_vars PROVE BrInv'
<1>1. CASE UNCHANGED vars
  <2>1. UNCHANGED <<diskVars, main, shutdown, clientVars, watching, wiring, block, serverVars>>
    BY <1>1 DEF vars, wiring
  <2>2. TypeOK'
    BY <2>1 DEF BrInv, TypeOK, diskVars, clientVars, wiring, serverVars
  <2>3. ProcessOK' /\ ServerOK'
    BY <2>1 DEF BrInv, ProcessOK, ServerOK, wiring, serverVars
  <2>4. ClientOK'
    BY <2>1, SameCache DEF BrInv, ClientOK, diskVars, clientVars, wiring
  <2> QED BY <2>2, <2>3, <2>4 DEF BrInv
<1>2. ASSUME NEW cli \in Cli, Start(cli) PROVE BrInv'
  BY <1>2, StartInv
<1>3. CASE Main
  BY <1>3, MainInv
<1>4. CASE ClientThread
  BY <1>4, ClientMovesInv, ClientWritesInv DEF ClientThread
<1>5. CASE PeersAnswer \/ WatcherFires \/ CtrlC \/ ProcessEnds
  BY <1>5, WiringInv, ShutdownInv, ProcessEndsInv
<1>6. ASSUME NEW b \in Block, ReportBlock(b) \/ SourceStep(b) PROVE BrInv'
  BY <1>6, BlockInv
<1>7. ASSUME NEW c \in Conn, Accept(c) \/ ClientThreadEnds(c) PROVE BrInv'
  BY <1>7, ConnectionInv
<1> QED BY <1>1, <1>2, <1>3, <1>4, <1>5, <1>6, <1>7 DEF Next

-----------------------------------------------------------------------------
(* Directories and networks.                                               *)

(* What can change the configuration or the contents of an index.          *)
LEMMA WhatChanges ==
  ASSUME BrInv, [Next]_vars
  PROVE  \/ contents' = contents /\ main' = "down"
         \/ contents' = contents /\ cfg' = cfg /\ (main' # "down" => main # "down")
         \/ contents' = contents /\ \E cli \in Cli : cfg' = IntoMode(cli)
         \/ /\ main # "down" /\ main' = main /\ cfg' = cfg
            /\ contents' = [contents EXCEPT ![cfg.index_dir] = @ \cup {cfg.network}]
<1>1. CASE \/ UNCHANGED vars \/ ClientThread \/ PeersAnswer \/ WatcherFires \/ CtrlC
           \/ \E b \in Block : ReportBlock(b)
           \/ \E c \in Conn : Accept(c) \/ ClientThreadEnds(c)
  BY <1>1 DEF vars, diskVars, wiring, ClientThread, ClientOpens, WriteHeader, WriteFilter,
              ClientEnds, PeersAnswer, WatcherFires, CtrlC, ReportBlock, Accept,
              ClientThreadEnds
<1>2. CASE CheckShutdown \/ Join \/ AwaitPeers \/ BindServer \/ StopServing \/ StopIdling
  BY <1>2 DEF CheckShutdown, Join, AwaitPeers, BindServer, StopServing, StopIdling, Goto,
              diskVars, wiring
<1>3. CASE ClearCache \/ SpawnClient \/ ClientEndedEarly \/ StartupTimeout
  BY <1>3 DEF ClearCache, SpawnClient, ClientEndedEarly, StartupTimeout, RemoveCache, Goto,
              diskVars, wiring
<1>4. CASE Wire \/ StartIndexer
  BY <1>4 DEF Wire, StartIndexer, Goto, diskVars, wiring
<1>5. ASSUME NEW cli \in Cli, Start(cli)
      PROVE  contents' = contents /\ cfg' = IntoMode(cli)
  BY <1>5 DEF Start
<1>6. CASE ProcessEnds
  BY <1>6 DEF ProcessEnds, diskVars
<1>7. ASSUME NEW b \in Block, SourceStep(b)
      PROVE  /\ main # "down" /\ main' = main /\ cfg' = cfg
             /\ \/ contents' = contents
                \/ contents' = [contents EXCEPT ![cfg.index_dir] = @ \cup {cfg.network}]
  BY <1>7 DEF SourceStep, wiring, BrInv, ProcessOK
<1>8. CASE Main
  BY <1>2, <1>3, <1>4, <1>8 DEF Main
<1> QED BY <1>1, <1>5, <1>6, <1>7, <1>8 DEF Next

(* The directory of one network is that of no other.                       *)
LEMMA DefaultsDiffer ==
  ASSUME NEW m, NEW n, DefaultIndexDir(m) = DefaultIndexDir(n)
  PROVE  m = n
BY DEF DefaultIndexDir

(* A start on the default directory of a network is a start on it, unless  *)
(* another network's directory is named on the command line.               *)
LEMMA StartOnOwnNetwork ==
  ASSUME DataDir \cap {DefaultIndexDir(n) : n \in Network} = {},
         NEW cli \in Cli, NEW n \in Network, IntoMode(cli).index_dir = DefaultIndexDir(n)
  PROVE  IntoMode(cli).network = n
<1>1. /\ cli.data_dir \in DataDir \cup {NotGiven} /\ IntoMode(cli).network = cli.network
      /\ IntoMode(cli).index_dir = IF cli.data_dir = NotGiven THEN DefaultIndexDir(cli.network)
                                                              ELSE cli.data_dir
  BY DEF Cli, IntoMode
<1>2. cli.data_dir = NotGiven
  BY <1>1
<1> QED BY <1>1, <1>2, DefaultsDiffer

(* Neither a start nor a block brings a second network into an index.      *)
LEMMA NetworkStep ==
  ASSUME DataDir \cap {DefaultIndexDir(n) : n \in Network} = {},
         BrInv, NetworkOK, OneNetworkPerIndex, [Next]_vars
  PROVE  NetworkOK' /\ OneNetworkPerIndex'
<1>1. contents \in [IndexDir -> SUBSET Network]
  BY DEF BrInv, TypeOK
<1>2. CASE contents' = contents /\ main' = "down"
  BY <1>2 DEF NetworkOK, OneNetworkPerIndex
<1>3. CASE contents' = contents /\ cfg' = cfg /\ (main' # "down" => main # "down")
  BY <1>3 DEF NetworkOK, OneNetworkPerIndex
<1>4. CASE contents' = contents /\ \E cli \in Cli : cfg' = IntoMode(cli)
  BY <1>4, StartOnOwnNetwork DEF NetworkOK, OneNetworkPerIndex
<1>5. CASE /\ main # "down" /\ main' = main /\ cfg' = cfg
           /\ contents' = [contents EXCEPT ![cfg.index_dir] = @ \cup {cfg.network}]
  <2>1. NetworkOK'
    BY <1>5 DEF NetworkOK
  <2>2. ASSUME NEW n \in Network PROVE contents'[DefaultIndexDir(n)] \subseteq {n}
    <3>1. DefaultIndexDir(n) \in IndexDir /\ contents[DefaultIndexDir(n)] \subseteq {n}
      BY DEF IndexDir, OneNetworkPerIndex
    <3>2. CASE cfg.index_dir = DefaultIndexDir(n)
      BY <1>1, <1>5, <3>1, <3>2 DEF NetworkOK
    <3>3. CASE cfg.index_dir # DefaultIndexDir(n)
      BY <1>1, <1>5, <3>1, <3>3
    <3> QED BY <3>2, <3>3
  <2> QED BY <2>1, <2>2 DEF OneNetworkPerIndex
<1> QED BY <1>2, <1>3, <1>4, <1>5, WhatChanges

-----------------------------------------------------------------------------
(* What is proved.                                                         *)

(* The invariant holds over any number of starts, kills and failed         *)
(* removals.                                                               *)
THEOREM BridgeInvariance == Spec => []BrInv
<1>1. Init => BrInv
  BY BridgeInit
<1>2. BrInv /\ [Next]_vars => BrInv'
  BY BridgeStep
<1> QED BY <1>1, <1>2, PTL DEF Spec

(* The variables keep their types: the files stay within their bounds and  *)
(* the connection gauge never goes below zero.                             *)
THEOREM BridgeTypes == Spec => []TypeOK
<1>1. BrInv => TypeOK
  BY DEF BrInv
<1> QED BY <1>1, BridgeInvariance, PTL

(* The client never opens an unusable cache.                               *)
THEOREM ClientOpensUsableCache == Spec => []OpensUsableCache
<1>1. BrInv => OpensUsableCache
  BY DEF BrInv, ClientOK, OpensUsableCache
<1> QED BY <1>1, BridgeInvariance, PTL

(* An index in a default directory holds blocks of one network, when no    *)
(* other directory given on the command line is one of these.              *)
THEOREM IndexesAreOfOneNetwork ==
  ASSUME DataDir \cap {DefaultIndexDir(n) : n \in Network} = {}
  PROVE  Spec => []OneNetworkPerIndex
<1>1. Init => NetworkOK /\ OneNetworkPerIndex
  BY DEF Init, NetworkOK, OneNetworkPerIndex, IndexDir
<1>2. BrInv /\ NetworkOK /\ OneNetworkPerIndex /\ [Next]_vars => NetworkOK' /\ OneNetworkPerIndex'
  BY NetworkStep
<1> QED BY <1>1, <1>2, BridgeInvariance, PTL DEF Spec
=============================================================================

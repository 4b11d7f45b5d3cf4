------------------------------- MODULE Bridge -------------------------------
(***************************************************************************)
(* The life of the two processes that app.rs starts, nakamoto-electrs      *)
(* (run_bridge) and the standalone nakamoto (run_nakamoto), over several   *)
(* starts on the same directories: the header and filter files that the    *)
(* nakamoto client keeps there, the start-up loop, the order in which the  *)
(* threads are wired together, the accept loop of the Electrum server, and *)
(* Ctrl-C or a kill at any point.                                          *)
(*                                                                         *)
(* External, modelled from how app.rs uses it: the nakamoto client runs in *)
(* its own thread, writes a record to headers.db before the matching one   *)
(* to filters.db, and may fail or panic at any time.                       *)
(*                                                                         *)
(* A block is followed from the event that reports it to the indexer; what *)
(* happens in between is the subject of BlockSource.  What a connection    *)
(* does is the subject of ElectrumClient and Requests.                     *)
(***************************************************************************)
EXTENDS Config, Integers

CONSTANTS
  HeaderSize,   \* bytes of a record in headers.db (80)
  FilterSize,   \* bytes of a record in filters.db (64)
  Block,        \* blocks that nakamoto reports
  Conn,         \* TCP connections
  MaxRecords,   \* bound: records in headers.db
  MaxStarts,    \* bound: starts of the process
  MaxFaults     \* bound: removals of a directory that fail

ASSUME BridgeAssumption ==
  /\ {HeaderSize, FilterSize} \subseteq Nat \ {0}
  /\ {MaxRecords, MaxStarts, MaxFaults} \subseteq Nat

Absent == -1    \* the length of a file that is not there

VARIABLES
  headers, filters,  \* lengths of headers.db and filters.db, per cache
  foreign,           \* the caches whose headers.db has another genesis block
  contents,          \* per directory, the networks whose blocks its index holds
  starts,            \* starts of the process so far
  faults,            \* removals that have failed so far
  main,              \* where the main thread is; "down": no process
  cfg,               \* the configuration of the process
  shutdown,          \* the flag set by Ctrl-C
  client,            \* the nakamoto thread
  startup,           \* what its end said on the start-up channel
  asked,             \* it has been told to shut down
  watching,          \* nakamoto-shutdown waits for the flag
  attached,          \* the source has its channels; the indexer is subscribed
  peers,             \* wait-for-peers
  block,             \* how far each block has come
  live,              \* client threads of the Electrum server
  connections        \* the electrum_connections metric

diskVars == <<headers, filters, foreign, contents, starts, faults>>
clientVars == <<client, startup, asked>>
wiring == <<cfg, attached, peers>>
serverVars == <<live, connections>>
vars == <<diskVars, main, cfg, shutdown, clientVars, watching, attached, peers,
          block, serverVars>>

(* nakamoto keeps a cache per network under the data directory; the index  *)
(* of a directory is shared by its networks.                               *)
NoConfig == [mode |-> "none"]
Cache == IndexDir \X Network
Mine == <<cfg.index_dir, cfg.network>>

Ended == {"ok", "err"}
InStartup == {"check", "clear", "spawn", "startup", "join"}

TypeOK ==
  /\ headers \in [Cache -> Absent..(MaxRecords * HeaderSize)]
  /\ filters \in [Cache -> Absent..(MaxRecords * FilterSize)]
  /\ foreign \subseteq Cache
  /\ contents \in [IndexDir -> SUBSET Network]
  /\ starts \in 0..MaxStarts /\ faults \in 0..MaxFaults
  /\ main \in InStartup \cup Ended
                \cup {"down", "wire", "index", "peers", "bind", "serve", "idle"}
  /\ cfg \in RunConfig \cup {NoConfig}
  /\ client \in {"none", "open", "run", "ended"}
  /\ startup \in {"empty", "genesis", "failed", "closed"}
  /\ attached \subseteq {"source", "indexer"}
  /\ peers \in {"none", "waiting", "answered"}
  /\ block \in [Block -> {"new", "event", "lost", "refused", "indexed"}]
  /\ {shutdown, asked, watching} \subseteq BOOLEAN
  /\ live \subseteq Conn /\ connections \in Nat

Init ==
  /\ headers = [p \in Cache |-> Absent] /\ filters = [p \in Cache |-> Absent]
  /\ foreign = {} /\ contents = [d \in IndexDir |-> {}]
  /\ starts = 0 /\ faults = 0
  /\ main = "down" /\ cfg = NoConfig /\ shutdown = FALSE
  /\ client = "none" /\ startup = "empty" /\ asked = FALSE /\ watching = FALSE
  /\ attached = {} /\ peers = "none"
  /\ block = [b \in Block |-> "new"]
  /\ live = {} /\ connections = 0

-----------------------------------------------------------------------------
(* External: the nakamoto thread, around client.run.                       *)

Records(len, size) == len \div size
Whole(len, size) == len <= 0 \/ len % size = 0

(* client.run opens its store: a foreign genesis ends it.                  *)
ClientOpens ==
  /\ client = "open"
  /\ client' = IF Mine \in foreign THEN "ended" ELSE "run"
  /\ startup' = IF Mine \in foreign THEN "genesis" ELSE startup
  /\ UNCHANGED <<diskVars, main, shutdown, asked, watching, wiring, block, serverVars>>

Grow(len) == IF len = Absent THEN 0 ELSE len + 1

(* Another byte of headers.db, or of filters.db, which lags behind.        *)
WriteHeader ==
  /\ client = "run"
  /\ headers[Mine] < MaxRecords * HeaderSize
  /\ headers' = [headers EXCEPT ![Mine] = Grow(@)]
  /\ UNCHANGED <<filters, foreign, contents, starts, faults, main, shutdown, clientVars,
                 watching, wiring, block, serverVars>>

WriteFilter ==
  /\ client = "run"
  /\ headers[Mine] > 0 /\ Whole(headers[Mine], HeaderSize)
  /\ filters[Mine] < Records(headers[Mine], HeaderSize) * FilterSize
  /\ filters' = [filters EXCEPT ![Mine] = Grow(@)]
  /\ UNCHANGED <<headers, foreign, contents, starts, faults, main, shutdown, clientVars,
                 watching, wiring, block, serverVars>>

BetweenRecords ==
  client = "run" => Whole(headers[Mine], HeaderSize) /\ Whole(filters[Mine], FilterSize)

(* The shutdown command, an error or a panic ends the thread.              *)
ClientEnds(how) ==
  /\ client \in {"open", "run"} /\ BetweenRecords
  /\ client' = "ended" /\ startup' = how
  /\ UNCHANGED <<diskVars, main, shutdown, asked, watching, wiring, block, serverVars>>

ClientStops == client = "run" /\ asked /\ ClientEnds("closed")

(* nakamoto connects a block and reports it on the channels it has.        *)
ReportBlock(b) ==
  /\ client = "run" /\ block[b] = "new"
  /\ block' = [block EXCEPT ![b] = IF "source" \in attached THEN "event" ELSE "lost"]
  /\ UNCHANGED <<diskVars, main, shutdown, clientVars, watching, wiring, serverVars>>

-----------------------------------------------------------------------------
(* The start-up loop of run_bridge and run_nakamoto.                       *)

Consistent ==
  LET h == headers[Mine]
      f == filters[Mine]
  IN /\ h > 0 /\ h % HeaderSize = 0
     /\ f > 0 /\ f % FilterSize = 0
     /\ Records(h, HeaderSize) = Records(f, FilterSize)

CacheUsable == (headers[Mine] = Absent /\ filters[Mine] = Absent) \/ Consistent

Without(files, gone) == [p \in Cache |-> IF p \in gone THEN Absent ELSE files[p]]

(* remove_dir_all of the cache directory, which holds the caches of every  *)
(* network.  Its error is dropped: any of the files may be left.           *)
RemoveCache ==
  LET all == {cfg.index_dir} \X Network
  IN /\ \E h, f \in SUBSET all :
          /\ headers' = Without(headers, h) /\ filters' = Without(filters, f)
          /\ foreign' = foreign \ h
          /\ \/ h = all /\ f = all /\ UNCHANGED faults
             \/ faults' = faults + 1 /\ faults' <= MaxFaults
     /\ UNCHANGED contents

(* A start from the command line: install_shutdown_handler has run.  A     *)
(* cache may have been made for another genesis block than the one the     *)
(* client now expects.                                                     *)
Start(cli) ==
  /\ main = "down" /\ starts < MaxStarts
  /\ starts' = starts + 1
  /\ main' = "check" /\ cfg' = IntoMode(cli)
  /\ foreign' \in {foreign, foreign \cup ({Mine'} \cap {p \in Cache : headers[p] > 0})}
  /\ UNCHANGED <<headers, filters, contents, faults, shutdown, clientVars, watching,
                 attached, peers, block, serverVars>>

(* The main thread moves on and touches nothing else.                      *)
Goto(place) ==
  /\ main' = place
  /\ UNCHANGED <<diskVars, shutdown, clientVars, watching, wiring, block, serverVars>>

CheckShutdown == main = "check" /\ Goto(IF shutdown THEN "ok" ELSE "clear")

(* Mutant: files that are not there are taken for a corrupt cache.         *)
MutClearCache ==
  /\ main = "clear"
  /\ \/ Consistent /\ main' = "spawn" /\ UNCHANGED diskVars
     \/ ~Consistent /\ RemoveCache /\ main' = "check" /\ UNCHANGED starts
  /\ UNCHANGED <<shutdown, clientVars, watching, wiring, block, serverVars>>

(* Mutant: once cleared, the cache is not looked at again.                 *)
MutClearOnce ==
  /\ main = "clear"
  /\ \/ CacheUsable /\ UNCHANGED diskVars
     \/ ~CacheUsable /\ RemoveCache /\ UNCHANGED starts
  /\ main' = "spawn"
  /\ UNCHANGED <<shutdown, clientVars, watching, wiring, block, serverVars>>

(* clear_corrupt_nakamoto_cache: true sends the loop round again.          *)
ClearCache ==
  /\ main = "clear"
  /\ \/ CacheUsable /\ main' = "spawn" /\ UNCHANGED diskVars
     \/ ~CacheUsable /\ RemoveCache /\ main' = "check" /\ UNCHANGED starts
  /\ UNCHANGED <<shutdown, clientVars, watching, wiring, block, serverVars>>

(* Client::new and the nakamoto thread; either can fail.                   *)
SpawnClient ==
  \/ /\ main = "spawn"
     /\ main' = "startup"
     /\ client' = "open" /\ startup' = "empty" /\ asked' = FALSE
     /\ UNCHANGED <<diskVars, shutdown, watching, wiring, block, serverVars>>
  \/ main = "spawn" /\ Goto("err")

(* The thread ended within CLIENT_STARTUP_WAIT: start over without the     *)
(* cache when its genesis was foreign, give up otherwise.                  *)
ClientEndedEarly ==
  \/ /\ main = "startup" /\ startup = "genesis"
     /\ RemoveCache
     /\ main' = "check" /\ client' = "none"
     /\ UNCHANGED <<starts, shutdown, startup, asked, watching, wiring, block, serverVars>>
  \/ main = "startup" /\ startup \in {"failed", "closed"} /\ Goto("err")

(* CLIENT_STARTUP_WAIT passes without a word from the thread.              *)
StartupTimeout ==
  /\ main = "startup" /\ startup = "empty"
  /\ main' = IF shutdown THEN "join" ELSE "wire"
  /\ asked' = (asked \/ shutdown)
  /\ UNCHANGED <<diskVars, shutdown, client, startup, watching, wiring, block, serverVars>>

Join == main = "join" /\ client = "ended" /\ Goto("ok")

-----------------------------------------------------------------------------
(* The wiring.  The watcher comes first, then the source, whose channels   *)
(* exist from here on; run_nakamoto only logs events.                      *)
Wire ==
  /\ main = "wire"
  /\ watching' = TRUE
  /\ IF cfg.mode = "nakamoto" THEN main' = "idle" /\ UNCHANGED attached
                          ELSE main' = "index" /\ attached' = {"source"}
  /\ UNCHANGED <<diskVars, shutdown, clientVars, cfg, peers, block, serverVars>>

(* Mutant: indexer.start is not called.                                    *)
MutStartIndexer ==
  /\ main = "index"
  /\ main' = "peers" /\ peers' = "waiting"
  /\ UNCHANGED <<diskVars, shutdown, clientVars, watching, cfg, attached, block, serverVars>>

(* Indexer::new, which can fail, and indexer.start, which subscribes; then *)
(* the fee-rate, tx-status and wait-for-peers threads.                     *)
StartIndexer ==
  \/ /\ main = "index"
     /\ main' = "peers" /\ peers' = "waiting"
     /\ attached' = attached \cup {"indexer"}
     /\ UNCHANGED <<diskVars, shutdown, clientVars, watching, cfg, block, serverVars>>
  \/ main = "index" /\ Goto("err")

(* wait-for-peers has its answer: a peer, a dead client or the shutdown.   *)
PeersAnswer ==
  /\ peers = "waiting"
  /\ peers' = "answered"
  /\ UNCHANGED <<diskVars, main, shutdown, clientVars, watching, cfg, attached, block,
                 serverVars>>

(* The loop around peers_rx.recv_timeout; a failure is good enough.        *)
AwaitPeers ==
  /\ main = "peers"
  /\ (shutdown /\ Goto("ok")) \/ (peers = "answered" /\ Goto("bind"))

BindServer ==
  /\ main = "bind"
  /\ IF shutdown THEN Goto("ok") ELSE Goto("serve") \/ Goto("err")

(* Mutant: the accepted connection is not counted.                         *)
MutAccept(c) ==
  /\ main = "serve" /\ c \notin live
  /\ live' = live \cup {c} /\ UNCHANGED connections
  /\ UNCHANGED <<diskVars, main, shutdown, clientVars, watching, wiring, block>>

(* ElectrumServer::run: a connection is counted, then gets its thread.     *)
Accept(c) ==
  /\ main = "serve" /\ c \notin live
  /\ live' = live \cup {c} /\ connections' = connections + 1
  /\ UNCHANGED <<diskVars, main, shutdown, clientVars, watching, wiring, block>>

(* handle_client has returned, with or without an error.                   *)
ClientThreadEnds(c) ==
  /\ c \in live
  /\ live' = live \ {c} /\ connections' = connections - 1
  /\ UNCHANGED <<diskVars, main, shutdown, clientVars, watching, wiring, block>>

(* Mutant: accept blocks, the flag is seen when a connection has come.     *)
MutStopServing == main = "serve" /\ shutdown /\ live # {} /\ Goto("ok")

(* The accept loop ends; run_bridge returns without joining a thread.      *)
StopServing == main = "serve" /\ shutdown /\ Goto("ok")

(* wait_for_shutdown *)
StopIdling == main = "idle" /\ shutdown /\ Goto("ok")

-----------------------------------------------------------------------------
(* The source's threads ask for the block of an event and broadcast it to  *)
(* whoever has subscribed.  When request_block or the conversion of the    *)
(* block fails, that is logged and the block never asked for again.        *)
SourceStep(b) ==
  /\ "source" \in attached /\ block[b] = "event" /\ ~shutdown
  /\ \/ IF "indexer" \in attached /\ client = "run"
        THEN /\ block' = [block EXCEPT ![b] = "indexed"]
             /\ contents' = [contents EXCEPT ![cfg.index_dir] = @ \cup {cfg.network}]
        ELSE /\ block' = [block EXCEPT ![b] = "lost"]
             /\ UNCHANGED contents
     \/ /\ block' = [block EXCEPT ![b] = "refused"]
        /\ UNCHANGED contents
  /\ UNCHANGED <<headers, filters, foreign, starts, faults, main, shutdown, clientVars,
                 watching, wiring, serverVars>>

CtrlC ==
  /\ main # "down" /\ ~shutdown
  /\ shutdown' = TRUE
  /\ UNCHANGED <<diskVars, main, clientVars, watching, wiring, block, serverVars>>

(* spawn_shutdown_watcher: handle.shutdown once the flag is set.           *)
WatcherFires ==
  /\ watching /\ shutdown
  /\ asked' = TRUE /\ watching' = FALSE
  /\ UNCHANGED <<diskVars, main, shutdown, client, startup, wiring, block, serverVars>>

(* The process is gone, and with it every thread, at whatever point it is: *)
(* main has returned, or the process was killed.                           *)
ProcessEnds ==
  /\ main # "down"
  /\ main' = "down" /\ shutdown' = FALSE
  /\ client' = "none" /\ startup' = "empty" /\ asked' = FALSE /\ watching' = FALSE
  /\ attached' = {} /\ peers' = "none"
  /\ block' = [b \in Block |-> IF block[b] = "event" THEN "lost" ELSE block[b]]
  /\ live' = {} /\ connections' = 0
  /\ cfg' = NoConfig
  /\ UNCHANGED diskVars

Main ==
  \/ CheckShutdown \/ ClearCache \/ SpawnClient \/ ClientEndedEarly \/ StartupTimeout \/ Join
  \/ Wire \/ StartIndexer \/ AwaitPeers \/ BindServer \/ StopServing \/ StopIdling

ClientThread ==
  \/ ClientOpens \/ WriteHeader \/ WriteFilter
  \/ ClientEnds("failed") \/ ClientEnds("closed")

Next ==
  \/ \E cli \in Cli : Start(cli)
  \/ Main
  \/ ClientThread
  \/ PeersAnswer \/ WatcherFires \/ CtrlC \/ ProcessEnds
  \/ \E b \in Block : ReportBlock(b) \/ SourceStep(b)
  \/ \E c \in Conn : Accept(c) \/ ClientThreadEnds(c)

(* The main thread waits only with a timeout, and the source's threads     *)
(* run.  The client opens its store, finishes the record it is at and      *)
(* obeys the shutdown command.                                             *)
Spec ==
  /\ Init /\ [][Next]_vars
  /\ WF_vars(Main)
  /\ WF_vars(ClientOpens) /\ SF_vars(ClientStops)
  /\ WF_vars(~BetweenRecords /\ (WriteHeader \/ WriteFilter))
  /\ \A b \in Block : WF_vars(SourceStep(b))

-----------------------------------------------------------------------------
(* The nakamoto client never opens a cache that an earlier process, ended  *)
(* in the middle of a record or between the two files, left unusable, even *)
(* when removing it failed half-way.                                       *)
OpensUsableCache == client = "open" => CacheUsable

(* The index of a directory that the program chose itself never gets       *)
(* blocks of two networks, whichever networks were run before.             *)
OneNetworkPerIndex == \A n \in Network : contents[DefaultIndexDir(n)] \subseteq {n}

(* The start-up loop comes to an end, in whatever state it found the cache *)
(* and however often the removal failed before it got through.             *)
StartupEnds == main \in InStartup ~> main \notin InStartup

(* Ctrl-C at any point makes the process return, from every wait and every *)
(* loop, clients connected or not.                                         *)
ShutdownReturns == (shutdown /\ main # "down") ~> main \in Ended \cup {"down"}

(* From the moment indexer.start has returned, long before clients are     *)
(* served, every block that nakamoto reports, and every one whose event    *)
(* still waits in the source, reaches the indexer or is logged as one that *)
(* could not be fetched or converted, unless the process stops or the      *)
(* client dies: none is broadcast to an empty subscriber list.             *)
ReportedBlocksIndexed ==
  \A b \in Block : (main \in {"peers", "bind", "serve"} /\ block[b] = "event") ~>
    (block[b] \in {"indexed", "refused"} \/ shutdown \/ main = "down" \/ client = "ended")
=============================================================================

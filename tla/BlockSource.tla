----------------------------- MODULE BlockSource -----------------------------
(***************************************************************************)
(* NakamotoBlockSource (nakamoto_source.rs) between the nakamoto client    *)
(* and the indexer thread.  Two threads feed the subscribers: nk-events    *)
(* turns BlockConnected into a request for the full block and broadcasts   *)
(* disconnections; nk-blocks broadcasts the full blocks when they arrive.  *)
(* The two run independently, each over its own channel from nakamoto.     *)
(*                                                                         *)
(* External, modelled from how the code uses it: nakamoto moves to a       *)
(* longer branch in one go and reports it top-down and then bottom-up; it  *)
(* answers a request in its own time, in any order, and only for a block   *)
(* that is still on its best chain.                                        *)
(*                                                                         *)
(* The index is kept at block granularity: which blocks' records it holds  *)
(* at which height.  IndexState has the inside of these two steps.         *)
(***************************************************************************)
EXTENDS Naturals, FiniteSets, SequencesExt

CONSTANTS
  Block,       \* blocks
  Branch,      \* Branch[b]: the chain of blocks from height 1 up to b
  Client,      \* notification threads of connected clients
  Indexer,     \* the indexer thread
  NoBlock,
  MaxFaults    \* bound: calls of the nakamoto handle and conversions that fail

Subscriber == Client \cup {Indexer}
MaxHeight == CHOOSE n \in {Len(Branch[b]) : b \in Block} :
               \A b \in Block : Len(Branch[b]) <= n

ASSUME BlockSourceAssumption ==
  /\ NoBlock \notin Block
  /\ Indexer \notin Client
  /\ MaxFaults \in Nat
  /\ Branch \in [Block -> Seq(Block)]
  /\ \A b \in Block : Len(Branch[b]) > 0 /\ Branch[b][Len(Branch[b])] = b
  /\ \A b \in Block : \A i \in DOMAIN Branch[b] :
       Branch[Branch[b][i]] = SubSeq(Branch[b], 1, i)

(* There is a highest block.                                               *)
ASSUME HeightBound ==
  MaxHeight \in Nat /\ \A b \in Block : Len(Branch[b]) <= MaxHeight

VARIABLES
  best,       \* nakamoto's best chain
  nkEvents,   \* channel of nakamoto events to nk-events
  requests,   \* blocks nakamoto is downloading
  nkBlocks,   \* channel of downloaded <<block, height>> to nk-blocks
  inHand,     \* the block nk-blocks has cached and not yet broadcast
  cache,      \* block_cache
  subs,       \* live entries of the subscriber list
  chans,      \* channel of block events, per subscriber
  indexed,    \* indexed[h]: the blocks the index holds records of at height h
  tip,        \* the indexer's tip_height
  due,        \* blocks nakamoto connected while the indexer was subscribed, and
              \* whose download and conversion did not fail
  faults      \* calls of the handle and conversions that have failed

nkVars == <<best, nkEvents, requests, nkBlocks>>
sourceVars == <<inHand, cache, subs, chans>>
indexVars == <<indexed, tip>>
vars == <<nkVars, sourceVars, indexVars, due, faults>>

Event == [type : {"BlockConnected", "BlockDisconnected", "Synced", "Connected",
                  "Disconnected"},
          block : Block, height : 1..MaxHeight]

TypeOK ==
  /\ best \in Seq(Block)
  /\ nkEvents \in Seq(Event)
  /\ requests \subseteq Block
  /\ nkBlocks \in Seq(Block \X (1..MaxHeight))
  /\ inHand \in Block \cup {NoBlock}
  /\ cache \subseteq Block
  /\ subs \subseteq Subscriber
  /\ chans \in [Subscriber -> Seq(Event)]
  /\ indexed \in [1..MaxHeight -> SUBSET Block]
  /\ tip \in 0..MaxHeight
  /\ due \subseteq Block
  /\ faults \in 0..MaxFaults

Init ==
  /\ best = <<>> /\ nkEvents = <<>> /\ requests = {} /\ nkBlocks = <<>>
  /\ inHand = NoBlock /\ cache = {}
  /\ subs = {} /\ chans = [s \in Subscriber |-> <<>>]
  /\ indexed = [h \in 1..MaxHeight |-> {}] /\ tip = 0
  /\ due = {} /\ faults = 0

Ev(type, b, h) == [type |-> type, block |-> b, height |-> h]

-----------------------------------------------------------------------------
(* External: the nakamoto client.                                          *)

(* Where the new branch leaves the best chain.                             *)
Fork(new) ==
  CHOOSE n \in 0..Len(best) :
    /\ SubSeq(best, 1, n) = SubSeq(new, 1, n)
    /\ n < Len(best) => best[n + 1] # new[n + 1]

(* A longer branch wins: its stale blocks are reported disconnected from   *)
(* the top down, its new ones connected from the bottom up, then Synced.   *)
Adopt(b) ==
  LET new == Branch[b]
      n == Fork(new)
      down == [i \in 1..(Len(best) - n) |->
                 Ev("BlockDisconnected", best[Len(best) + 1 - i], Len(best) + 1 - i)]
      up == [i \in 1..(Len(new) - n) |-> Ev("BlockConnected", new[n + i], n + i)]
  IN /\ Len(new) > Len(best)
     /\ best' = new
     /\ nkEvents' = nkEvents \o down \o up \o <<Ev("Synced", b, Len(new))>>
     /\ due' = IF Indexer \in subs THEN due \cup {new[i] : i \in (n + 1)..Len(new)}
                                   ELSE due
     /\ UNCHANGED <<requests, nkBlocks, sourceVars, indexVars, faults>>

Active(b) == b \in ToSet(best)

(* A requested block arrives from a peer.                                  *)
Deliver(b) ==
  /\ b \in requests
  /\ requests' = requests \ {b}
  /\ nkBlocks' = IF Active(b) THEN Append(nkBlocks, <<b, Len(Branch[b])>>) ELSE nkBlocks
  /\ UNCHANGED <<best, nkEvents, sourceVars, indexVars, due, faults>>

-----------------------------------------------------------------------------
(* subscribe: a fresh channel at the end of the subscriber list.           *)
Subscribe(s) ==
  /\ s \notin subs
  /\ subs' = subs \cup {s}
  /\ UNCHANGED <<nkVars, inHand, cache, chans, indexVars, due, faults>>

(* A client's receiver is dropped: broadcast removes its sender.           *)
Unsubscribe(s) ==
  /\ s \in subs \ {Indexer}
  /\ subs' = subs \ {s}
  /\ chans' = [chans EXCEPT ![s] = <<>>]
  /\ UNCHANGED <<nkVars, inHand, cache, indexVars, due, faults>>

(* broadcast: to every live subscriber, under the mutex of the list.       *)
Broadcast(e) ==
  chans' = [s \in Subscriber |-> IF s \in subs THEN Append(chans[s], e) ELSE chans[s]]

(* A call of the handle, or a conversion of what it delivered, returned an *)
(* error, which the threads only log.                                      *)
Refused == faults' = faults + 1 /\ faults' <= MaxFaults

(* nk-blocks takes a block and puts it into the cache ...                  *)
CacheBlock ==
  /\ inHand = NoBlock
  /\ nkBlocks # <<>>
  /\ inHand' = Head(nkBlocks)[1]
  /\ cache' = cache \cup {inHand'}
  /\ UNCHANGED <<nkVars, subs, chans, indexVars, due, faults>>

(* conv_block fails: the block is logged and dropped.                      *)
DropBlock ==
  /\ inHand = NoBlock
  /\ nkBlocks # <<>>
  /\ Refused
  /\ due' = due \ {Head(nkBlocks)[1]}
  /\ nkBlocks' = Tail(nkBlocks)
  /\ UNCHANGED <<best, nkEvents, requests, sourceVars, indexVars>>

(* ... and then broadcasts it.                                             *)
BroadcastBlock ==
  /\ inHand # NoBlock
  /\ Broadcast(Ev("Connected", inHand, Head(nkBlocks)[2]))
  /\ inHand' = NoBlock
  /\ nkBlocks' = Tail(nkBlocks)
  /\ UNCHANGED <<best, nkEvents, requests, cache, subs, indexVars, due, faults>>

(* Mutant: one request at a time, the others are dropped.                  *)
MutRequestOne(b) == IF requests = {} THEN {b} ELSE requests

(* Mutant: a block that is already in the cache is not asked for again.    *)
MutRequestUncached(b) == requests \cup ({b} \ cache)

(* request_block: nakamoto's downloads once it has accepted the request.   *)
Requested(b) == requests \cup {b}

(* nk-events, BlockConnected: ask for the full block.  A request that      *)
(* fails is not made again.                                                *)
RequestBlock ==
  /\ nkEvents # <<>> /\ Head(nkEvents).type = "BlockConnected"
  /\ LET b == Head(nkEvents).block
     IN \/ requests' = Requested(b) /\ UNCHANGED <<due, faults>>
        \/ Refused /\ due' = due \ {b} /\ UNCHANGED requests
  /\ nkEvents' = Tail(nkEvents)
  /\ UNCHANGED <<best, nkBlocks, sourceVars, indexVars>>

(* Mutant: a disconnected block leaves the cache.                          *)
MutBroadcastDisconnected ==
  /\ nkEvents # <<>> /\ Head(nkEvents).type = "BlockDisconnected"
  /\ Broadcast(Ev("Disconnected", Head(nkEvents).block, Head(nkEvents).height))
  /\ nkEvents' = Tail(nkEvents)
  /\ cache' = cache \ {Head(nkEvents).block}
  /\ UNCHANGED <<best, requests, nkBlocks, inHand, subs, indexVars, due, faults>>

(* nk-events, BlockDisconnected.  conv_hash copies the 32 bytes of a hash: *)
(* it has nothing to fail on.                                              *)
BroadcastDisconnected ==
  /\ nkEvents # <<>> /\ Head(nkEvents).type = "BlockDisconnected"
  /\ Broadcast(Ev("Disconnected", Head(nkEvents).block, Head(nkEvents).height))
  /\ nkEvents' = Tail(nkEvents)
  /\ UNCHANGED <<best, requests, nkBlocks, inHand, cache, subs, indexVars, due, faults>>

(* query_tree: the header that nakamoto's tree has at a height, if any.    *)
HeaderAt(h) == IF h \in DOMAIN best THEN best[h] ELSE NoBlock

(* nk-events, Synced: the thread blocks on a query of nakamoto's tree, so  *)
(* the hash is the one at that height when the answer comes.  A query that *)
(* fails, or finds no header, broadcasts nothing.                          *)
BroadcastSynced ==
  /\ nkEvents # <<>> /\ Head(nkEvents).type = "Synced"
  /\ LET h == Head(nkEvents).height
     IN \/ /\ IF HeaderAt(h) = NoBlock THEN UNCHANGED chans
                                        ELSE Broadcast(Ev("Synced", HeaderAt(h), h))
           /\ UNCHANGED faults
        \/ Refused /\ UNCHANGED chans
  /\ nkEvents' = Tail(nkEvents)
  /\ UNCHANGED <<best, requests, nkBlocks, inHand, cache, subs, indexVars, due>>

-----------------------------------------------------------------------------
(* The indexer's event loop.  Rolling back a height undoes every block     *)
(* indexed there; the hash of the event is not compared.                   *)
Rollback(h) ==
  /\ indexed' = [indexed EXCEPT ![h] = {}]
  /\ tip' = IF tip = h THEN h - 1 ELSE tip

(* Mutant: the tip counts blocks from the genesis block on.                *)
MutApply(b, h) ==
  /\ indexed' = [indexed EXCEPT ![h] = @ \cup {b}]
  /\ tip' = h + 1

Apply(b, h) ==
  /\ indexed' = [indexed EXCEPT ![h] = @ \cup {b}]
  /\ tip' = h

IndexEvent ==
  /\ chans[Indexer] # <<>>
  /\ LET e == Head(chans[Indexer])
     IN \/ e.type = "Connected" /\ Apply(e.block, e.height)
        \/ e.type = "Disconnected" /\ Rollback(e.height)
        \/ e.type = "Synced" /\ UNCHANGED indexVars
  /\ chans' = [chans EXCEPT ![Indexer] = Tail(@)]
  /\ UNCHANGED <<nkVars, inHand, cache, subs, due, faults>>

(* A client's notification thread takes its next event.                    *)
ClientEvent(s) ==
  /\ chans[s] # <<>>
  /\ chans' = [chans EXCEPT ![s] = Tail(@)]
  /\ UNCHANGED <<nkVars, inHand, cache, subs, indexVars, due, faults>>

EventsThread == RequestBlock \/ BroadcastDisconnected \/ BroadcastSynced
BlocksThread == CacheBlock \/ DropBlock \/ BroadcastBlock

Next ==
  \/ \E b \in Block : Adopt(b)
  \/ \E b \in Block : Deliver(b)
  \/ \E s \in Subscriber : Subscribe(s)
  \/ \E s \in Client : Unsubscribe(s) \/ ClientEvent(s)
  \/ EventsThread
  \/ BlocksThread
  \/ IndexEvent

(* The three threads run until shutdown and peers answer requests.         *)
Spec ==
  /\ Init /\ [][Next]_vars
  /\ WF_vars(EventsThread) /\ WF_vars(BlocksThread) /\ WF_vars(IndexEvent)
  /\ WF_vars(\E b \in Block : Deliver(b))

-----------------------------------------------------------------------------
Indexed == UNION {indexed[h] : h \in 1..MaxHeight}

Quiescent ==
  /\ nkEvents = <<>> /\ requests = {} /\ nkBlocks = <<>>
  /\ chans[Indexer] = <<>>

(* block_by_hash: only what the blocks thread has put into the cache.      *)
BlockByHash(b) == IF b \in cache THEN b ELSE NoBlock

(* A subscriber that is told of a connected block can fetch that block:    *)
(* block_by_hash finds every block named by an event still on its way.     *)
AnnouncedIsCached ==
  \A s \in Subscriber : \A i \in DOMAIN chans[s] :
    chans[s][i].type = "Connected" => BlockByHash(chans[s][i].block) # NoBlock

(* When everything on its way has arrived, no block of the best chain is   *)
(* missing from the index, whatever the two threads raced: a rollback      *)
(* meant for a stale block never takes an active one with it.              *)
NoActiveBlockMissing ==
  Quiescent => \A b \in due : Active(b) => b \in indexed[Len(Branch[b])]

(* A block that stays on the best chain is eventually indexed for good.    *)
ActiveBlocksGetIndexed ==
  \A b \in Block : <>[](b \in due /\ Active(b)) => <>[](b \in Indexed)

(* When everything on its way has arrived, the index holds no block that   *)
(* has left the best chain: each disconnection rolled its block back.      *)
NoStaleBlockIndexed ==
  Quiescent => \A b \in Indexed \cap due : Active(b)
=============================================================================

--------------------------- MODULE HeaderRequests ---------------------------
(***************************************************************************)
(* blockchain.block.headers and blockchain.block.header                    *)
(* (electrum_server.rs) over the point query of NakamotoBlockSource.  A    *)
(* range is answered by one query of nakamoto's header tree per height;    *)
(* the best chain can move between two of them.  A single header is a      *)
(* range of one.  Heights are taken to fit in 32 bits; the genesis header, *)
(* which no branch differs in, is left out.                                *)
(***************************************************************************)
EXTENDS BlockSource

CONSTANT Ranges    \* the <<start_height, count>> that clients ask for

ASSUME HeaderRequestsAssumption == Ranges \subseteq (Nat \ {0}) \X Nat

VARIABLES
  range,    \* the request being answered
  forked    \* a block left the best chain since its first query

hvars == <<vars, range, forked>>

(* The loop "for h in start..stop": next is h, got the headers so far.     *)
NoRange == [start |-> 0, next |-> 0, stop |-> 0, got |-> <<>>]

Asking == range # NoRange
InLoop == Asking /\ range.next < range.stop

(* handle_block_headers begins.                                            *)
AskHeaders(start, count) ==
  /\ ~Asking
  /\ range' = [start |-> start, next |-> start, stop |-> start + count, got |-> <<>>]
  /\ forked' = FALSE
  /\ UNCHANGED vars

(* Mutant: a height without a header is skipped.                           *)
MutQueryHeader ==
  /\ InLoop
  /\ range' = [range EXCEPT !.next = @ + 1,
                 !.got = IF HeaderAt(range.next) # NoBlock
                         THEN Append(@, HeaderAt(range.next)) ELSE @]
  /\ UNCHANGED <<vars, forked>>

(* block_header: nakamoto runs the closure on its tree and the handler,    *)
(* blocked in recv, takes the answer.  None ends the loop.                 *)
QueryHeader ==
  /\ InLoop
  /\ range' = IF HeaderAt(range.next) # NoBlock
              THEN [range EXCEPT !.next = @ + 1, !.got = Append(@, HeaderAt(range.next))]
              ELSE [range EXCEPT !.stop = range.next]
  /\ UNCHANGED <<vars, forked>>

(* The handle refuses the query, or the channel closes: the whole request  *)
(* is answered with an error.                                              *)
QueryFails ==
  /\ InLoop
  /\ Refused
  /\ range' = NoRange
  /\ forked' = FALSE
  /\ UNCHANGED <<nkVars, sourceVars, indexVars, due>>

(* The reply goes out.                                                     *)
ReplyHeaders ==
  /\ Asking /\ ~InLoop
  /\ range' = NoRange
  /\ forked' = FALSE
  /\ UNCHANGED vars

(* Everything else goes on while a request is answered.                    *)
Watch == UNCHANGED range /\ forked' = (Asking /\ (forked \/ ~IsPrefix(best, best')))

Meanwhile == Next /\ Watch

HInit == Init /\ range = NoRange /\ forked = FALSE

HNext ==
  \/ \E r \in Ranges : AskHeaders(r[1], r[2])
  \/ QueryHeader \/ QueryFails \/ ReplyHeaders
  \/ Meanwhile

(* As Spec: the threads of the source and of the index run.                *)
HSpec ==
  /\ HInit /\ [][HNext]_hvars
  /\ WF_hvars(EventsThread /\ Watch) /\ WF_hvars(BlocksThread /\ Watch)
  /\ WF_hvars(IndexEvent /\ Watch) /\ WF_hvars((\E b \in Block : Deliver(b)) /\ Watch)

-----------------------------------------------------------------------------
(* The headers of a reply are the ones from the height asked for on, each  *)
(* the parent of the next, even when the chain grew while the request was  *)
(* answered - as long as no block left the best chain meanwhile.           *)
HeadersLink ==
  [][ReplyHeaders /\ ~forked /\ range.got # <<>> =>
       range.got = SubSeq(Branch[Last(range.got)], range.start, Len(Branch[Last(range.got)]))]_hvars
=============================================================================

-------------------------- MODULE BlockSourceProofs --------------------------
(***************************************************************************)
(* Proofs about BlockSource and HeaderRequests: for any tree of blocks and *)
(* any number of clients, every announced block can be fetched, no block   *)
(* of the best chain is lost on its way into the index, however the two    *)
(* threads of the block source race, and a range of headers is a piece of  *)
(* one chain.                                                              *)
(***************************************************************************)
EXTENDS HeaderRequests, SequenceTheorems, WellFoundedInduction, TLAPS

HeightOf(b) == Len(Branch[b])

-----------------------------------------------------------------------------
(* The inductive invariant.                                                *)

(* The best chain is a branch of the tree.                                 *)
BestIsBranch == best = <<>> \/ \E b \in Block : best = Branch[b]

(* What nakamoto reports is not above its best chain, and carries the      *)
(* height of the block it names.                                           *)
NakamotoOK ==
  /\ \A i \in DOMAIN nkEvents : /\ nkEvents[i].height <= Len(best)
                                /\ nkEvents[i].height = HeightOf(nkEvents[i].block)
  /\ \A i \in DOMAIN nkBlocks : nkBlocks[i][2] = HeightOf(nkBlocks[i][1])

(* A block is in the cache before any subscriber hears of it.              *)
HandOK ==
  inHand # NoBlock => /\ nkBlocks # <<>>
                      /\ Head(nkBlocks)[1] = inHand
                      /\ inHand \in cache

Fetchable(e) ==
  /\ e.type \in {"Connected", "Disconnected", "Synced"}
  /\ e.type = "Connected" => e.block \in cache /\ e.height = HeightOf(e.block)

ChannelsOK == \A s \in Subscriber : \A i \in DOMAIN chans[s] : Fetchable(chans[s][i])

(* No event of this type for height h after position i.                    *)
NoneAfter(s, i, type, h) ==
  \A j \in DOMAIN s : j > i /\ s[j].type = type => s[j].height # h

(* Block b is named by an event that no disconnection of its height        *)
(* follows.                                                                *)
Standing(s, up, down, b) ==
  \E i \in DOMAIN s : /\ s[i].type = up /\ s[i].block = b
                      /\ NoneAfter(s, i, down, HeightOf(b))

(* Where b is on its way once nk-events has seen its connection.           *)
Underway(b) ==
  \/ b \in requests
  \/ \E i \in DOMAIN nkBlocks : nkBlocks[i][1] = b
  \/ Standing(chans[Indexer], "Connected", "Disconnected", b)
  \/ /\ b \in indexed[HeightOf(b)]
     /\ NoneAfter(chans[Indexer], 0, "Disconnected", HeightOf(b))

(* A block of the best chain is still to be reported, or it is on its way  *)
(* and no disconnection of its height is ahead of it.                      *)
OnItsWay(b) ==
  \/ Standing(nkEvents, "BlockConnected", "BlockDisconnected", b)
  \/ NoneAfter(nkEvents, 0, "BlockDisconnected", HeightOf(b)) /\ Underway(b)

NothingLost ==
  /\ due # {} => Indexer \in subs
  /\ \A b \in due : Active(b) => OnItsWay(b)

BInv == TypeOK /\ BestIsBranch /\ NakamotoOK /\ HandOK /\ ChannelsOK /\ NothingLost

-----------------------------------------------------------------------------
(* Blocks and branches.                                                    *)

(* A nonempty set of natural numbers has a least element.                  *)
LEMMA Least ==
  ASSUME NEW T, T \subseteq Nat, T # {}
  PROVE  \E x \in T : \A y \in T : x <= y
<1> DEFINE R == {ss \in Nat \X Nat : ss[1] < ss[2]}
<1>1. IsWellFoundedOn(OpToRel(<, Nat), Nat)
  BY NatLessThanWellFounded
<1>2. OpToRel(<, Nat) = R
  BY DEF OpToRel
<1>3. IsWellFoundedOn(R, Nat)
  BY <1>1, <1>2
<1> HIDE DEF R
<1>4. PICK x \in T : \A y \in T : ~(<<y, x>> \in R)
  BY <1>3, WFMin
<1>5. ASSUME NEW y \in T PROVE x <= y
  <2>1. x \in Nat /\ y \in Nat /\ <<y, x>> \notin R
    BY <1>4
  <2>2. <<y, x>> \in Nat \X Nat /\ <<y, x>>[1] = y /\ <<y, x>>[2] = x
    BY <2>1
  <2>3. ~(y < x)
    BY <2>1, <2>2 DEF R
  <2> QED BY <2>1, <2>3
<1> QED BY <1>5

(* A block stands at its own height, on top of its branch.                 *)
LEMMA BranchType ==
  ASSUME NEW b \in Block
  PROVE  /\ Branch[b] \in Seq(Block) /\ HeightOf(b) \in 1..MaxHeight
         /\ Branch[b][HeightOf(b)] = b
         /\ \A i \in 1..HeightOf(b) : Branch[b][i] \in Block /\ HeightOf(Branch[b][i]) = i
<1>1. /\ Branch[b] \in Seq(Block) /\ HeightOf(b) \in 1..MaxHeight
      /\ Branch[b][HeightOf(b)] = b /\ DOMAIN Branch[b] = 1..HeightOf(b)
  BY BlockSourceAssumption, HeightBound DEF HeightOf
<1>2. ASSUME NEW i \in 1..HeightOf(b) PROVE Branch[b][i] \in Block /\ HeightOf(Branch[b][i]) = i
  <2>0. Branch[b][i] \in Block
    BY <1>1, ElementOfSeq DEF HeightOf
  <2>1. Branch[Branch[b][i]] = SubSeq(Branch[b], 1, i)
    BY <1>1, BlockSourceAssumption
  <2>2. Len(SubSeq(Branch[b], 1, i)) = i
    BY <1>1, <1>2 DEF HeightOf
  <2> QED BY <2>0, <2>1, <2>2 DEF HeightOf
<1> QED BY <1>1, <1>2

(* So does a block of the best chain.                                      *)
LEMMA BestType ==
  ASSUME BestIsBranch
  PROVE  /\ best \in Seq(Block) /\ Len(best) \in 0..MaxHeight
         /\ \A i \in 1..Len(best) : best[i] \in Block /\ HeightOf(best[i]) = i
<1>1. CASE best = <<>>
  BY <1>1, HeightBound
<1>2. CASE \E b \in Block : best = Branch[b]
  <2>1. PICK b \in Block : best = Branch[b]
    BY <1>2
  <2>2. /\ Branch[b] \in Seq(Block) /\ HeightOf(b) \in 0..MaxHeight /\ HeightOf(b) = Len(best)
        /\ \A i \in 1..HeightOf(b) : Branch[b][i] \in Block /\ HeightOf(Branch[b][i]) = i
    BY <2>1, BranchType, HeightBound DEF HeightOf
  <2> QED BY <2>1, <2>2
<1> QED BY <1>1, <1>2 DEF BestIsBranch

(* An active block is the one of the best chain at its height.             *)
LEMMA ActivePlace ==
  ASSUME BestIsBranch, NEW b
  PROVE  Active(b) <=> b \in Block /\ HeightOf(b) \in 1..Len(best) /\ best[HeightOf(b)] = b
<1>1. Active(b) <=> \E i \in 1..Len(best) : b = best[i]
  BY BestType DEF Active, ToSet
<1> QED BY <1>1, BestType

(* A longer branch leaves the best chain somewhere.                        *)
LEMMA ForkFound ==
  ASSUME best \in Seq(Block), NEW new \in Seq(Block), Len(new) > Len(best)
  PROVE  /\ Fork(new) \in 0..Len(best)
         /\ \A i \in 1..Fork(new) : best[i] = new[i]
<1> DEFINE T == {n \in 0..Len(best) : n < Len(best) => best[n + 1] # new[n + 1]}
<1>1. Len(best) \in T /\ T \subseteq Nat
  OBVIOUS
<1>2. PICK n \in T : \A m \in T : n <= m
  BY <1>1, Least
<1>3. ASSUME NEW i \in 1..n PROVE best[i] = new[i]
  <2>1. i - 1 \in 0..Len(best) /\ i - 1 < Len(best) /\ ~(n <= i - 1) /\ (i - 1) + 1 = i
    OBVIOUS
  <2>2. i - 1 \notin T
    BY <1>2, <2>1
  <2> HIDE DEF T
  <2>3. best[(i - 1) + 1] = new[(i - 1) + 1]
    BY <2>1, <2>2 DEF T
  <2> QED BY <2>1, <2>3
<1>4. SubSeq(best, 1, n) = SubSeq(new, 1, n)
  <2> DEFINE s == SubSeq(best, 1, n)
             t == SubSeq(new, 1, n)
  <2>1. n \in 0..Len(best) /\ n \in 0..Len(new)
    OBVIOUS
  <2> HIDE DEF T
  <2>2. s \in Seq(Block) /\ Len(s) = n /\ \A i \in 1..n : s[i] = best[i]
    BY <2>1
  <2>3. t \in Seq(Block) /\ Len(t) = n /\ \A i \in 1..n : t[i] = new[i]
    BY <2>1
  <2> HIDE DEF s, t
  <2>4. s = t
    BY <1>3, <2>2, <2>3, SeqEqual
  <2> QED BY <2>4 DEF s, t
<1>5. \E m \in 0..Len(best) : /\ SubSeq(best, 1, m) = SubSeq(new, 1, m)
                              /\ m < Len(best) => best[m + 1] # new[m + 1]
  BY <1>4
<1>6. /\ Fork(new) \in 0..Len(best)
      /\ SubSeq(best, 1, Fork(new)) = SubSeq(new, 1, Fork(new))
  BY <1>5 DEF Fork
<1>7. ASSUME NEW i \in 1..Fork(new) PROVE best[i] = new[i]
  <2> DEFINE f == Fork(new)
  <2>1. f \in 0..Len(best) /\ SubSeq(best, 1, f) = SubSeq(new, 1, f)
    BY <1>6
  <2> HIDE DEF f
  <2>2. \A j \in 1..f : SubSeq(best, 1, f)[j] = best[j] /\ SubSeq(new, 1, f)[j] = new[j]
    BY <2>1
  <2> QED BY <2>1, <2>2 DEF f
<1> QED BY <1>6, <1>7

-----------------------------------------------------------------------------
(* Channels of events.                                                     *)

(* Taking the first event: what stood behind it stands.                    *)
LEMMA TailKeeps ==
  ASSUME NEW s \in Seq(Event), s # <<>>, NEW up, NEW down, NEW b
  PROVE  /\ NoneAfter(s, 0, down, HeightOf(b)) =>
              /\ NoneAfter(Tail(s), 0, down, HeightOf(b))
              /\ Head(s).type = down => Head(s).height # HeightOf(b)
         /\ Standing(s, up, down, b) =>
              \/ Standing(Tail(s), up, down, b)
              \/ /\ Head(s).type = up /\ Head(s).block = b
                 /\ NoneAfter(Tail(s), 0, down, HeightOf(b))
<1> DEFINE h == HeightOf(b)
           t == Tail(s)
           n == Len(s)
<1>1. /\ n \in Nat \ {0} /\ DOMAIN s = 1..n /\ DOMAIN t = 1..(n - 1) /\ Head(s) = s[1]
      /\ \A i \in 1..(n - 1) : t[i] = s[i + 1]
  OBVIOUS
<1> HIDE DEF h, t, n
<1>2. ASSUME NEW i \in 1..n, NoneAfter(s, i, down, h) PROVE NoneAfter(t, i - 1, down, h)
  <2> SUFFICES ASSUME NEW j \in 1..(n - 1), j > i - 1, t[j].type = down PROVE t[j].height # h
    BY <1>1 DEF NoneAfter
  <2>1. j + 1 \in 1..n /\ j + 1 > i /\ t[j] = s[j + 1]
    BY <1>1
  <2> QED BY <1>1, <1>2, <2>1 DEF NoneAfter
<1>3. ASSUME NoneAfter(s, 0, down, h)
      PROVE  NoneAfter(t, 0, down, h) /\ (Head(s).type = down => Head(s).height # h)
  <2>1. \A j \in 1..n : j > 0 /\ (j > 1 => j > 0)
    BY <1>1
  <2>2. NoneAfter(s, 1, down, h)
    BY <1>1, <1>3, <2>1 DEF NoneAfter
  <2>3. 1 \in 1..n /\ 1 - 1 = 0
    BY <1>1
  <2>4. NoneAfter(t, 0, down, h)
    BY <1>2, <2>2, <2>3
  <2> QED BY <1>1, <1>3, <2>1, <2>3, <2>4 DEF NoneAfter
<1>4. ASSUME Standing(s, up, down, b)
      PROVE  \/ Standing(t, up, down, b)
             \/ Head(s).type = up /\ Head(s).block = b /\ NoneAfter(t, 0, down, h)
  <2>1. PICK i \in 1..n : s[i].type = up /\ s[i].block = b /\ NoneAfter(s, i, down, h)
    BY <1>1, <1>4 DEF Standing, h
  <2>2. NoneAfter(t, i - 1, down, h)
    BY <1>2, <2>1
  <2>3. CASE i = 1
    <3>1. 1 - 1 = 0
      OBVIOUS
    <3> QED BY <1>1, <2>1, <2>2, <2>3, <3>1
  <2>4. CASE i > 1
    <3>1. i - 1 \in 1..(n - 1) /\ t[i - 1] = s[i]
      BY <1>1, <2>4
    <3> QED BY <1>1, <2>1, <2>2, <3>1 DEF Standing, h
  <2> QED BY <1>1, <2>3, <2>4
<1> QED BY <1>3, <1>4 DEF h, t

(* Adding events none of which takes the height of b down.                 *)
LEMMA ConcatKeeps ==
  ASSUME NEW s \in Seq(Event), NEW t \in Seq(Event), NEW up, NEW down, NEW b,
         NoneAfter(t, 0, down, HeightOf(b))
  PROVE  /\ NoneAfter(s, 0, down, HeightOf(b)) => NoneAfter(s \o t, 0, down, HeightOf(b))
         /\ Standing(s, up, down, b) => Standing(s \o t, up, down, b)
<1> DEFINE h == HeightOf(b)
           m == Len(s)
           n == Len(t)
           u == s \o t
<1>1. /\ m \in Nat /\ n \in Nat /\ DOMAIN s = 1..m /\ DOMAIN t = 1..n /\ DOMAIN u = 1..(m + n)
      /\ \A i \in 1..m : u[i] = s[i]
      /\ \A i \in (m + 1)..(m + n) : u[i] = t[i - m]
  OBVIOUS
<1> HIDE DEF h, m, n, u
<1>2. ASSUME NEW i \in Nat, NoneAfter(s, i, down, h) PROVE NoneAfter(u, i, down, h)
  <2> SUFFICES ASSUME NEW j \in 1..(m + n), j > i, u[j].type = down PROVE u[j].height # h
    BY <1>1 DEF NoneAfter
  <2>1. CASE j \in 1..m
    BY <1>1, <1>2, <2>1 DEF NoneAfter
  <2>2. CASE j \in (m + 1)..(m + n)
    <3>1. u[j] = t[j - m] /\ j - m \in 1..n /\ j - m > 0
      BY <1>1, <2>2
    <3> QED BY <1>1, <3>1 DEF NoneAfter, h
  <2> QED BY <1>1, <2>1, <2>2
<1>3. NoneAfter(s, 0, down, h) => NoneAfter(u, 0, down, h)
  BY <1>2
<1>4. ASSUME Standing(s, up, down, b) PROVE Standing(u, up, down, b)
  <2>1. PICK i \in 1..m : s[i].type = up /\ s[i].block = b /\ NoneAfter(s, i, down, h)
    BY <1>1, <1>4 DEF Standing, h
  <2>2. NoneAfter(u, i, down, h) /\ i \in 1..(m + n) /\ u[i] = s[i]
    BY <1>1, <1>2, <2>1
  <2> QED BY <1>1, <2>1, <2>2 DEF Standing, h
<1> QED BY <1>3, <1>4 DEF h, u

(* What stands at the end stands.                                          *)
LEMMA ConcatStands ==
  ASSUME NEW s \in Seq(Event), NEW t \in Seq(Event), NEW up, NEW down, NEW b,
         Standing(t, up, down, b)
  PROVE  Standing(s \o t, up, down, b)
<1> DEFINE h == HeightOf(b)
           m == Len(s)
           n == Len(t)
           u == s \o t
<1>1. /\ m \in Nat /\ n \in Nat /\ DOMAIN t = 1..n /\ DOMAIN u = 1..(m + n)
      /\ \A i \in (m + 1)..(m + n) : u[i] = t[i - m]
  OBVIOUS
<1> HIDE DEF h, m, n, u
<1>2. PICK i \in 1..n : t[i].type = up /\ t[i].block = b /\ NoneAfter(t, i, down, h)
  BY <1>1 DEF Standing, h
<1>3. m + i \in 1..(m + n) /\ u[m + i] = t[i]
  BY <1>1
<1>4. NoneAfter(u, m + i, down, h)
  <2> SUFFICES ASSUME NEW j \in 1..(m + n), j > m + i, u[j].type = down PROVE u[j].height # h
    BY <1>1 DEF NoneAfter
  <2>1. u[j] = t[j - m] /\ j - m \in 1..n /\ j - m > i
    BY <1>1
  <2> QED BY <1>1, <1>2, <2>1 DEF NoneAfter
<1>5. Standing(u, up, down, b)
  BY <1>1, <1>2, <1>3, <1>4 DEF Standing, h
<1> QED BY <1>5 DEF u

(* A single event.                                                         *)
LEMMA AppendKeeps ==
  ASSUME NEW s \in Seq(Event), NEW e \in Event, NEW up, NEW down, NEW b,
         e.type = down => e.height # HeightOf(b)
  PROVE  /\ NoneAfter(s, 0, down, HeightOf(b)) => NoneAfter(Append(s, e), 0, down, HeightOf(b))
         /\ Standing(s, up, down, b) => Standing(Append(s, e), up, down, b)
         /\ e.type = up /\ e.block = b => Standing(Append(s, e), up, down, b)
<1> DEFINE t == <<e>>
<1>1. t \in Seq(Event) /\ DOMAIN t = {1} /\ t[1] = e
  OBVIOUS
<1>2. Append(s, e) = s \o t
  BY AppendIsConcat
<1> HIDE DEF t
<1>3. NoneAfter(t, 0, down, HeightOf(b))
  BY <1>1 DEF NoneAfter
<1>4. e.type = up /\ e.block = b => Standing(t, up, down, b)
  BY <1>1 DEF Standing, NoneAfter
<1> QED BY <1>1, <1>2, <1>3, <1>4, ConcatKeeps, ConcatStands

-----------------------------------------------------------------------------
(* What the steps share.                                                   *)

(* A broadcast goes to the live subscribers.                               *)
LEMMA BroadcastType ==
  ASSUME TypeOK, NEW e \in Event, Broadcast(e)
  PROVE  /\ chans' \in [Subscriber -> Seq(Event)]
         /\ \A s \in Subscriber : chans'[s] = IF s \in subs THEN Append(chans[s], e) ELSE chans[s]
<1>1. chans' = [s \in Subscriber |-> IF s \in subs THEN Append(chans[s], e) ELSE chans[s]]
  BY DEF Broadcast
<1>2. \A s \in Subscriber : chans[s] \in Seq(Event) /\ Append(chans[s], e) \in Seq(Event)
  BY AppendProperties DEF TypeOK
<1> QED BY <1>1, <1>2

(* It names a block that can be fetched, like those before it.             *)
LEMMA BroadcastKeeps ==
  ASSUME TypeOK, ChannelsOK, NEW e \in Event, Broadcast(e), cache' = cache, Fetchable(e)
  PROVE  ChannelsOK'
<1>1. \A x : Fetchable(x) => Fetchable(x)'
  BY DEF Fetchable
<1>2. ASSUME NEW s \in Subscriber, NEW i \in DOMAIN chans'[s] PROVE Fetchable(chans'[s][i])
  <2>1. chans[s] \in Seq(Event)
    BY DEF TypeOK
  <2>2. CASE s \notin subs
    BY <1>2, <2>2, BroadcastType DEF ChannelsOK
  <2>3. CASE s \in subs
    <3>1. chans'[s] = Append(chans[s], e)
      BY <2>3, BroadcastType
    <3>2. chans'[s][i] = e \/ (i \in DOMAIN chans[s] /\ chans'[s][i] = chans[s][i])
      BY <1>2, <2>1, <3>1
    <3> QED BY <3>2 DEF ChannelsOK
  <2> QED BY <2>2, <2>3
<1> QED BY <1>1, <1>2 DEF ChannelsOK

(* A subscriber takes its next event.                                      *)
LEMMA TakeKeeps ==
  ASSUME TypeOK, ChannelsOK, NEW s \in Subscriber, chans[s] # <<>>,
         chans' = [chans EXCEPT ![s] = Tail(@)], cache' = cache
  PROVE  /\ chans' \in [Subscriber -> Seq(Event)] /\ ChannelsOK'
         /\ chans'[s] = Tail(chans[s]) /\ \A r \in Subscriber : r # s => chans'[r] = chans[r]
<1>1. chans[s] \in Seq(Event) /\ Tail(chans[s]) \in Seq(Event)
      /\ \A i \in DOMAIN Tail(chans[s]) : i + 1 \in DOMAIN chans[s] /\ Tail(chans[s])[i] = chans[s][i + 1]
  <2>1. chans[s] \in Seq(Event)
    BY DEF TypeOK
  <2> QED BY <2>1
<1>2. /\ chans' \in [Subscriber -> Seq(Event)] /\ chans'[s] = Tail(chans[s])
      /\ \A r \in Subscriber : r # s => chans'[r] = chans[r]
  BY <1>1 DEF TypeOK
<1>3. \A x : Fetchable(x) => Fetchable(x)'
  BY DEF Fetchable
<1>4. ASSUME NEW r \in Subscriber, NEW i \in DOMAIN chans'[r] PROVE Fetchable(chans'[r][i])
  <2>1. CASE r = s
    BY <1>1, <1>2, <1>4, <2>1 DEF ChannelsOK
  <2>2. CASE r # s
    BY <1>2, <1>4, <2>2 DEF ChannelsOK
  <2> QED BY <2>1, <2>2
<1> QED BY <1>2, <1>3, <1>4 DEF ChannelsOK

(* The first event of a channel from nakamoto is taken.                    *)
LEMMA EventTaken ==
  ASSUME TypeOK, NakamotoOK, nkEvents # <<>>, nkEvents' = Tail(nkEvents),
         UNCHANGED <<best, nkBlocks>>
  PROVE  /\ NakamotoOK' /\ nkEvents' \in Seq(Event) /\ nkEvents \in Seq(Event)
         /\ Head(nkEvents) \in Event
         /\ Head(nkEvents).height <= Len(best)
         /\ Head(nkEvents).height = HeightOf(Head(nkEvents).block)
<1>1. /\ nkEvents \in Seq(Event) /\ nkEvents' \in Seq(Event) /\ Head(nkEvents) \in Event
      /\ 1 \in DOMAIN nkEvents /\ Head(nkEvents) = nkEvents[1]
      /\ \A i \in DOMAIN nkEvents' : i + 1 \in DOMAIN nkEvents /\ nkEvents'[i] = nkEvents[i + 1]
  <2>1. nkEvents \in Seq(Event)
    BY DEF TypeOK
  <2> QED BY <2>1
<1> QED BY <1>1 DEF NakamotoOK

(* A downloaded block is taken.                                            *)
LEMMA BlockTaken ==
  ASSUME TypeOK, NakamotoOK, nkBlocks # <<>>
  PROVE  /\ Tail(nkBlocks) \in Seq(Block \X (1..MaxHeight))
         /\ Head(nkBlocks) \in Block \X (1..MaxHeight)
         /\ Head(nkBlocks)[2] = HeightOf(Head(nkBlocks)[1])
         /\ \A i \in DOMAIN Tail(nkBlocks) : /\ i + 1 \in DOMAIN nkBlocks
                                             /\ Tail(nkBlocks)[i] = nkBlocks[i + 1]
         /\ \A b : (\E i \in DOMAIN nkBlocks : nkBlocks[i][1] = b) =>
                     \/ b = Head(nkBlocks)[1]
                     \/ \E i \in DOMAIN Tail(nkBlocks) : Tail(nkBlocks)[i][1] = b
<1> DEFINE s == nkBlocks
           t == Tail(nkBlocks)
           n == Len(nkBlocks)
<1>1. /\ s \in Seq(Block \X (1..MaxHeight)) /\ t \in Seq(Block \X (1..MaxHeight))
      /\ Head(s) \in Block \X (1..MaxHeight) /\ Head(s) = s[1]
      /\ n \in Nat \ {0} /\ DOMAIN s = 1..n /\ DOMAIN t = 1..(n - 1)
      /\ \A i \in 1..(n - 1) : t[i] = s[i + 1]
  <2>1. s \in Seq(Block \X (1..MaxHeight)) /\ s # <<>>
    BY DEF TypeOK
  <2> QED BY <2>1
<1>2. s[1][2] = HeightOf(s[1][1])
  BY <1>1 DEF NakamotoOK
<1> HIDE DEF s, t, n
<1>3. \A i \in 1..(n - 1) : i + 1 \in 1..n
  BY <1>1
<1>4. ASSUME NEW i \in 1..n PROVE i = 1 \/ (i - 1 \in 1..(n - 1) /\ t[i - 1] = s[i])
  BY <1>1
<1>5. \A b : (\E i \in 1..n : s[i][1] = b) => \/ b = s[1][1]
                                              \/ \E i \in 1..(n - 1) : t[i][1] = b
  BY <1>1, <1>4
<1> QED BY <1>1, <1>2, <1>3, <1>5 DEF s, t

(* A step that moves no block keeps every block on its way.                *)
LEMMA SameWay ==
  ASSUME NothingLost, UNCHANGED <<best, nkEvents, requests, nkBlocks, indexed, due>>,
         chans'[Indexer] = chans[Indexer], Indexer \in subs => Indexer \in subs'
  PROVE  NothingLost'
BY DEF NothingLost, OnItsWay, Underway, Active

(* A step that keeps the chain only has to look after the due blocks.      *)
LEMMA WayKept ==
  ASSUME NothingLost, UNCHANGED <<best, subs>>, due' \subseteq due,
         \A b \in due' : Active(b) /\ OnItsWay(b) => OnItsWay(b)'
  PROVE  NothingLost'
BY DEF NothingLost, Active

-----------------------------------------------------------------------------
(* The steps.                                                              *)

(* The invariant holds before anything has happened.                       *)
LEMMA SourceInit == Init => BInv
<1> SUFFICES ASSUME Init PROVE BInv
  OBVIOUS
<1>1. TypeOK
  BY BlockSourceAssumption, HeightBound DEF Init, TypeOK
<1>2. BestIsBranch /\ NakamotoOK /\ HandOK /\ ChannelsOK /\ NothingLost
  BY DEF Init, BestIsBranch, NakamotoOK, HandOK, ChannelsOK, NothingLost, Subscriber
<1> QED BY <1>1, <1>2 DEF BInv

(* A subscriber comes.                                                     *)
LEMMA SubscribeInv ==
  ASSUME BInv, NEW s \in Subscriber, Subscribe(s)
  PROVE  BInv'
<1>1. UNCHANGED <<nkVars, inHand, cache, chans, indexVars, due, faults>> /\ subs' = subs \cup {s}
  BY DEF Subscribe
<1>2. TypeOK'
  BY <1>1 DEF BInv, TypeOK, nkVars, indexVars
<1>3. BestIsBranch' /\ NakamotoOK' /\ HandOK' /\ ChannelsOK'
  BY <1>1 DEF BInv, BestIsBranch, NakamotoOK, HandOK, ChannelsOK, Fetchable, nkVars
<1>4. NothingLost'
  BY <1>1, SameWay DEF BInv, nkVars, indexVars
<1> QED BY <1>2, <1>3, <1>4 DEF BInv

(* A client goes.                                                          *)
LEMMA UnsubscribeInv ==
  ASSUME BInv, NEW s \in Client, Unsubscribe(s)
  PROVE  BInv'
<1>1. /\ UNCHANGED <<nkVars, inHand, cache, indexVars, due, faults>> /\ subs' = subs \ {s}
      /\ chans' = [chans EXCEPT ![s] = <<>>] /\ s # Indexer
  BY DEF Unsubscribe
<1>2. /\ chans' \in [Subscriber -> Seq(Event)] /\ DOMAIN chans'[s] = {}
      /\ \A r \in Subscriber : r # s => chans'[r] = chans[r]
  BY <1>1 DEF BInv, TypeOK, Subscriber
<1>3. TypeOK'
  BY <1>1, <1>2 DEF BInv, TypeOK, nkVars, indexVars
<1>4. BestIsBranch' /\ NakamotoOK' /\ HandOK' /\ ChannelsOK'
  BY <1>1, <1>2 DEF BInv, BestIsBranch, NakamotoOK, HandOK, ChannelsOK, Fetchable, nkVars
<1>5. NothingLost'
  BY <1>1, <1>2, SameWay DEF BInv, nkVars, indexVars, Subscriber
<1> QED BY <1>3, <1>4, <1>5 DEF BInv

(* A client's thread takes an event.                                       *)
LEMMA ClientEventInv ==
  ASSUME BInv, NEW s \in Client, ClientEvent(s)
  PROVE  BInv'
<1>1. /\ UNCHANGED <<nkVars, inHand, cache, subs, indexVars, due, faults>>
      /\ chans[s] # <<>> /\ chans' = [chans EXCEPT ![s] = Tail(@)]
      /\ s \in Subscriber /\ s # Indexer /\ Indexer \in Subscriber
  BY BlockSourceAssumption DEF ClientEvent, Subscriber
<1>2. /\ chans' \in [Subscriber -> Seq(Event)] /\ ChannelsOK'
      /\ chans'[Indexer] = chans[Indexer]
  BY <1>1, TakeKeeps DEF BInv
<1>3. TypeOK'
  BY <1>1, <1>2 DEF BInv, TypeOK, nkVars, indexVars
<1>4. BestIsBranch' /\ NakamotoOK' /\ HandOK'
  BY <1>1 DEF BInv, BestIsBranch, NakamotoOK, HandOK, nkVars
<1>5. NothingLost'
  BY <1>1, <1>2, SameWay DEF BInv, nkVars, indexVars
<1> QED BY <1>2, <1>3, <1>4, <1>5 DEF BInv

(* A call of the handle fails.                                             *)
LEMMA CallFailsInv ==
  ASSUME BInv, UNCHANGED <<nkVars, sourceVars, indexVars, due>>, faults' \in 0..MaxFaults
  PROVE  BInv'
<1>1. TypeOK'
  BY DEF BInv, TypeOK, nkVars, sourceVars, indexVars
<1>2. BestIsBranch' /\ NakamotoOK' /\ HandOK' /\ ChannelsOK'
  BY DEF BInv, BestIsBranch, NakamotoOK, HandOK, ChannelsOK, Fetchable, nkVars, sourceVars
<1>3. NothingLost'
  BY SameWay DEF BInv, nkVars, sourceVars, indexVars
<1> QED BY <1>1, <1>2, <1>3 DEF BInv

(* A call that fails is counted.                                           *)
LEMMA RefusedType ==
  ASSUME TypeOK, Refused
  PROVE  faults' \in 0..MaxFaults
BY BlockSourceAssumption DEF TypeOK, Refused

(* nk-blocks puts a block into the cache.                                  *)
LEMMA CacheBlockInv ==
  ASSUME BInv, CacheBlock
  PROVE  BInv'
<1>1. /\ UNCHANGED <<nkVars, subs, chans, indexVars, due, faults>> /\ nkBlocks # <<>>
      /\ inHand' = Head(nkBlocks)[1] /\ cache' = cache \cup {inHand'}
  BY DEF CacheBlock
<1>2. Head(nkBlocks)[1] \in Block
  BY <1>1, BlockTaken DEF BInv
<1>3. TypeOK'
  BY <1>1, <1>2 DEF BInv, TypeOK, nkVars, indexVars
<1>4. BestIsBranch' /\ NakamotoOK' /\ HandOK' /\ ChannelsOK'
  BY <1>1 DEF BInv, BestIsBranch, NakamotoOK, HandOK, ChannelsOK, Fetchable, nkVars
<1>5. NothingLost'
  BY <1>1, SameWay DEF BInv, nkVars, indexVars
<1> QED BY <1>3, <1>4, <1>5 DEF BInv

(* nk-blocks drops a block it cannot convert.                              *)
LEMMA DropBlockInv ==
  ASSUME BInv, DropBlock
  PROVE  BInv'
<1>1. /\ UNCHANGED <<best, nkEvents, requests, sourceVars, indexVars>> /\ nkBlocks # <<>>
      /\ inHand = NoBlock /\ due' = due \ {Head(nkBlocks)[1]} /\ nkBlocks' = Tail(nkBlocks)
      /\ faults' \in 0..MaxFaults
  BY RefusedType DEF DropBlock, BInv
<1>2. /\ Tail(nkBlocks) \in Seq(Block \X (1..MaxHeight))
      /\ \A i \in DOMAIN Tail(nkBlocks) : i + 1 \in DOMAIN nkBlocks
                                          /\ Tail(nkBlocks)[i] = nkBlocks[i + 1]
      /\ \A b : (\E i \in DOMAIN nkBlocks : nkBlocks[i][1] = b) =>
                  \/ b = Head(nkBlocks)[1]
                  \/ \E i \in DOMAIN Tail(nkBlocks) : Tail(nkBlocks)[i][1] = b
  BY <1>1, BlockTaken DEF BInv
<1>3. TypeOK'
  BY <1>1, <1>2 DEF BInv, TypeOK, sourceVars, indexVars
<1>4. BestIsBranch' /\ NakamotoOK' /\ HandOK' /\ ChannelsOK'
  BY <1>1, <1>2 DEF BInv, BestIsBranch, NakamotoOK, HandOK, ChannelsOK, Fetchable, sourceVars
<1>5. NothingLost'
  <2>1. ASSUME NEW b \in due', OnItsWay(b) PROVE OnItsWay(b)'
    BY <1>1, <1>2, <2>1 DEF OnItsWay, Underway, sourceVars, indexVars
  <2> QED BY <1>1, <2>1, WayKept DEF BInv, sourceVars
<1> QED BY <1>3, <1>4, <1>5 DEF BInv

(* A requested block arrives: an active one moves into the channel.        *)
LEMMA DeliverInv ==
  ASSUME BInv, NEW c \in Block, Deliver(c)
  PROVE  BInv'
<1>1. /\ UNCHANGED <<best, nkEvents, sourceVars, indexVars, due, faults>>
      /\ requests' = requests \ {c} /\ c \in requests
      /\ nkBlocks' = IF Active(c) THEN Append(nkBlocks, <<c, HeightOf(c)>>) ELSE nkBlocks
  BY DEF Deliver, HeightOf
<1>2. nkBlocks \in Seq(Block \X (1..MaxHeight)) /\ <<c, HeightOf(c)>> \in Block \X (1..MaxHeight)
  BY BranchType DEF BInv, TypeOK
<1>3. /\ nkBlocks' \in Seq(Block \X (1..MaxHeight))
      /\ \A i \in DOMAIN nkBlocks : i \in DOMAIN nkBlocks' /\ nkBlocks'[i] = nkBlocks[i]
      /\ \A i \in DOMAIN nkBlocks' : \/ nkBlocks'[i] = <<c, HeightOf(c)>>
                                     \/ i \in DOMAIN nkBlocks /\ nkBlocks'[i] = nkBlocks[i]
      /\ Active(c) => \E i \in DOMAIN nkBlocks' : nkBlocks'[i] = <<c, HeightOf(c)>>
      /\ nkBlocks # <<>> => nkBlocks' # <<>> /\ Head(nkBlocks') = Head(nkBlocks)
  <2>1. CASE ~Active(c)
    BY <1>1, <1>2, <2>1
  <2>2. CASE Active(c)
    <3> DEFINE e == <<c, HeightOf(c)>>
    <3>1. nkBlocks' = Append(nkBlocks, e) /\ e \in Block \X (1..MaxHeight)
      BY <1>1, <1>2, <2>2
    <3> HIDE DEF e
    <3>2. /\ nkBlocks' \in Seq(Block \X (1..MaxHeight))
          /\ \A i \in DOMAIN nkBlocks : i \in DOMAIN nkBlocks' /\ nkBlocks'[i] = nkBlocks[i]
          /\ \A i \in DOMAIN nkBlocks' : \/ nkBlocks'[i] = e
                                         \/ i \in DOMAIN nkBlocks /\ nkBlocks'[i] = nkBlocks[i]
          /\ \E i \in DOMAIN nkBlocks' : nkBlocks'[i] = e
          /\ nkBlocks # <<>> => nkBlocks' # <<>> /\ Head(nkBlocks') = Head(nkBlocks)
      BY <1>2, <3>1
    <3> QED BY <3>2 DEF e
  <2> QED BY <2>1, <2>2
<1>4. TypeOK'
  BY <1>1, <1>3 DEF BInv, TypeOK, sourceVars, indexVars
<1>5. NakamotoOK'
  <2>1. <<c, HeightOf(c)>>[1] = c /\ <<c, HeightOf(c)>>[2] = HeightOf(c)
    OBVIOUS
  <2> QED BY <1>1, <1>3, <2>1 DEF BInv, NakamotoOK
<1>6. BestIsBranch' /\ HandOK' /\ ChannelsOK'
  BY <1>1, <1>3 DEF BInv, BestIsBranch, HandOK, ChannelsOK, Fetchable, sourceVars
<1>7. NothingLost'
  <2>1. ASSUME NEW b \in due', Active(b), OnItsWay(b) PROVE OnItsWay(b)'
    <3>1. Active(c) => \E i \in DOMAIN nkBlocks' : nkBlocks'[i][1] = c
      BY <1>3
    <3>2. Underway(b) => Underway(b)'
      BY <1>1, <1>3, <2>1, <3>1 DEF Underway, sourceVars, indexVars
    <3> QED BY <1>1, <2>1, <3>2 DEF OnItsWay
  <2> QED BY <1>1, <2>1, WayKept DEF BInv, sourceVars
<1> QED BY <1>4, <1>5, <1>6, <1>7 DEF BInv

(* nk-blocks broadcasts the block it has cached: the indexer, which is     *)
(* subscribed when a block is due, gets it.                                *)
LEMMA BroadcastBlockInv ==
  ASSUME BInv, BroadcastBlock
  PROVE  BInv'
<1> DEFINE e == Ev("Connected", inHand, Head(nkBlocks)[2])
<1>1. /\ UNCHANGED <<best, nkEvents, requests, cache, subs, indexVars, due, faults>>
      /\ inHand # NoBlock /\ Broadcast(e) /\ inHand' = NoBlock /\ nkBlocks' = Tail(nkBlocks)
  BY DEF BroadcastBlock
<1>2. nkBlocks # <<>> /\ Head(nkBlocks)[1] = inHand /\ inHand \in cache
  BY <1>1 DEF BInv, HandOK
<1>3. /\ Tail(nkBlocks) \in Seq(Block \X (1..MaxHeight))
      /\ Head(nkBlocks) \in Block \X (1..MaxHeight)
      /\ Head(nkBlocks)[2] = HeightOf(Head(nkBlocks)[1])
      /\ \A i \in DOMAIN Tail(nkBlocks) : i + 1 \in DOMAIN nkBlocks
                                          /\ Tail(nkBlocks)[i] = nkBlocks[i + 1]
      /\ \A b : (\E i \in DOMAIN nkBlocks : nkBlocks[i][1] = b) =>
                  \/ b = Head(nkBlocks)[1]
                  \/ \E i \in DOMAIN Tail(nkBlocks) : Tail(nkBlocks)[i][1] = b
  BY <1>2, BlockTaken DEF BInv
<1>4. /\ e \in Event /\ e.type = "Connected" /\ e.block = inHand /\ e.height = HeightOf(inHand)
  BY <1>2, <1>3 DEF Ev, Event
<1> HIDE DEF e
<1>5. Fetchable(e)
  BY <1>2, <1>4 DEF Fetchable
<1>6. /\ chans' \in [Subscriber -> Seq(Event)] /\ ChannelsOK'
      /\ \A s \in Subscriber : chans'[s] = IF s \in subs THEN Append(chans[s], e) ELSE chans[s]
  BY <1>1, <1>4, <1>5, BroadcastType, BroadcastKeeps DEF BInv
<1>7. TypeOK'
  BY <1>1, <1>3, <1>6 DEF BInv, TypeOK, indexVars
<1>8. BestIsBranch' /\ NakamotoOK' /\ HandOK'
  BY <1>1, <1>3 DEF BInv, BestIsBranch, NakamotoOK, HandOK
<1>9. NothingLost'
  <2>1. ASSUME NEW b \in due', OnItsWay(b) PROVE OnItsWay(b)'
    <3>1. chans[Indexer] \in Seq(Event) /\ chans'[Indexer] = Append(chans[Indexer], e)
      BY <1>1, <1>6, <2>1 DEF BInv, NothingLost, TypeOK, Subscriber
    <3>2. /\ NoneAfter(chans[Indexer], 0, "Disconnected", HeightOf(b)) =>
               NoneAfter(chans'[Indexer], 0, "Disconnected", HeightOf(b))
          /\ Standing(chans[Indexer], "Connected", "Disconnected", b) =>
               Standing(chans'[Indexer], "Connected", "Disconnected", b)
          /\ b = inHand => Standing(chans'[Indexer], "Connected", "Disconnected", b)
      <4>1. e.type # "Disconnected"
        BY <1>4
      <4> QED BY <1>4, <3>1, <4>1, AppendKeeps
    <3>3. Underway(b) => Underway(b)'
      BY <1>1, <1>2, <1>3, <3>2 DEF Underway, indexVars
    <3> QED BY <1>1, <2>1, <3>3 DEF OnItsWay
  <2> QED BY <1>1, <2>1, WayKept DEF BInv
<1> QED BY <1>6, <1>7, <1>8, <1>9 DEF BInv

(* nk-events asks for a connected block: from now on it is on its way, or  *)
(* it is no longer due.                                                    *)
LEMMA RequestBlockInv ==
  ASSUME BInv, RequestBlock
  PROVE  BInv'
<1> DEFINE c == Head(nkEvents).block
<1>1. /\ UNCHANGED <<best, nkBlocks, sourceVars, indexVars>> /\ nkEvents # <<>>
      /\ Head(nkEvents).type = "BlockConnected" /\ nkEvents' = Tail(nkEvents)
      /\ \/ requests' = requests \cup {c} /\ UNCHANGED <<due, faults>>
         \/ faults' \in 0..MaxFaults /\ due' = due \ {c} /\ UNCHANGED requests
  BY RefusedType DEF RequestBlock, Requested, BInv
<1>2. NakamotoOK' /\ nkEvents' \in Seq(Event) /\ nkEvents \in Seq(Event) /\ c \in Block
  <2>1. NakamotoOK' /\ nkEvents' \in Seq(Event) /\ nkEvents \in Seq(Event) /\ Head(nkEvents) \in Event
    BY <1>1, EventTaken DEF BInv
  <2> QED BY <2>1 DEF Event
<1>3. TypeOK'
  BY <1>1, <1>2 DEF BInv, TypeOK, sourceVars, indexVars
<1>4. BestIsBranch' /\ HandOK' /\ ChannelsOK'
  BY <1>1 DEF BInv, BestIsBranch, HandOK, ChannelsOK, Fetchable, sourceVars
<1>5. NothingLost'
  <2>1. ASSUME NEW b \in due', OnItsWay(b) PROVE OnItsWay(b)'
    <3>1. /\ NoneAfter(nkEvents, 0, "BlockDisconnected", HeightOf(b)) =>
               NoneAfter(nkEvents', 0, "BlockDisconnected", HeightOf(b))
          /\ Standing(nkEvents, "BlockConnected", "BlockDisconnected", b) =>
               \/ Standing(nkEvents', "BlockConnected", "BlockDisconnected", b)
               \/ b = c /\ NoneAfter(nkEvents', 0, "BlockDisconnected", HeightOf(b))
      BY <1>1, <1>2, TailKeeps
    <3>2. Underway(b) \/ b = c => Underway(b)'
      BY <1>1, <2>1 DEF Underway, sourceVars, indexVars
    <3> QED BY <2>1, <3>1, <3>2 DEF OnItsWay
  <2>2. due' \subseteq due
    BY <1>1
  <2> QED BY <1>1, <2>1, <2>2, WayKept DEF BInv, sourceVars
<1> QED BY <1>2, <1>3, <1>4, <1>5 DEF BInv

(* An event other than a connection is taken from nakamoto's channel and e *)
(* is broadcast: it does not take down a height that nakamoto's events     *)
(* leave standing.                                                         *)
LEMMA PassOnInv ==
  ASSUME BInv, nkEvents # <<>>, nkEvents' = Tail(nkEvents),
         Head(nkEvents).type # "BlockConnected",
         UNCHANGED <<best, requests, nkBlocks, inHand, cache, subs, indexVars, due>>,
         faults' \in 0..MaxFaults,
         \/ UNCHANGED chans
         \/ \E e \in Event : /\ Fetchable(e) /\ e.type # "Connected" /\ Broadcast(e)
                             /\ e.type = "Disconnected" =>
                                  /\ Head(nkEvents).type = "BlockDisconnected"
                                  /\ e.height = Head(nkEvents).height
  PROVE  BInv'
<1>1. NakamotoOK' /\ nkEvents' \in Seq(Event) /\ nkEvents \in Seq(Event)
  BY EventTaken DEF BInv
<1>2. chans' \in [Subscriber -> Seq(Event)] /\ ChannelsOK'
  <2>1. CASE UNCHANGED chans
    BY <2>1 DEF BInv, TypeOK, ChannelsOK, Fetchable
  <2>2. ASSUME NEW e \in Event, Fetchable(e), Broadcast(e)
        PROVE  chans' \in [Subscriber -> Seq(Event)] /\ ChannelsOK'
    BY <2>2, BroadcastType, BroadcastKeeps DEF BInv
  <2> QED BY <2>1, <2>2
<1>3. TypeOK'
  BY <1>1, <1>2 DEF BInv, TypeOK, indexVars
<1>4. BestIsBranch' /\ HandOK'
  BY DEF BInv, BestIsBranch, HandOK
<1>5. NothingLost'
  <2>1. ASSUME NEW b \in due', OnItsWay(b) PROVE OnItsWay(b)'
    <3>1. /\ NoneAfter(nkEvents, 0, "BlockDisconnected", HeightOf(b)) =>
               /\ NoneAfter(nkEvents', 0, "BlockDisconnected", HeightOf(b))
               /\ Head(nkEvents).type = "BlockDisconnected" => Head(nkEvents).height # HeightOf(b)
          /\ Standing(nkEvents, "BlockConnected", "BlockDisconnected", b) =>
               Standing(nkEvents', "BlockConnected", "BlockDisconnected", b)
      BY <1>1, TailKeeps
    <3>2. ASSUME NoneAfter(nkEvents, 0, "BlockDisconnected", HeightOf(b)), Underway(b)
          PROVE  Underway(b)'
      <4>1. CASE UNCHANGED chans
        BY <3>2, <4>1 DEF Underway, indexVars
      <4>2. ASSUME NEW e \in Event, e.type # "Connected", Broadcast(e),
                   e.type = "Disconnected" => /\ Head(nkEvents).type = "BlockDisconnected"
                                              /\ e.height = Head(nkEvents).height
            PROVE  Underway(b)'
        <5>1. chans[Indexer] \in Seq(Event) /\ chans'[Indexer] = Append(chans[Indexer], e)
          BY <2>1, <4>2, BroadcastType DEF BInv, NothingLost, TypeOK, Subscriber
        <5>2. e.type = "Disconnected" => e.height # HeightOf(b)
          BY <3>1, <3>2, <4>2
        <5>3. /\ NoneAfter(chans[Indexer], 0, "Disconnected", HeightOf(b)) =>
                   NoneAfter(chans'[Indexer], 0, "Disconnected", HeightOf(b))
              /\ Standing(chans[Indexer], "Connected", "Disconnected", b) =>
                   Standing(chans'[Indexer], "Connected", "Disconnected", b)
          BY <5>1, <5>2, AppendKeeps
        <5> QED BY <3>2, <5>3 DEF Underway, indexVars
      <4> QED BY <4>1, <4>2
    <3> QED BY <2>1, <3>1, <3>2 DEF OnItsWay
  <2> QED BY <2>1, WayKept DEF BInv
<1> QED BY <1>1, <1>2, <1>3, <1>4, <1>5 DEF BInv

(* nk-events broadcasts a disconnection.                                   *)
LEMMA BroadcastDisconnectedInv ==
  ASSUME BInv, BroadcastDisconnected
  PROVE  BInv'
<1> DEFINE e == Ev("Disconnected", Head(nkEvents).block, Head(nkEvents).height)
<1>1. /\ nkEvents # <<>> /\ Head(nkEvents).type = "BlockDisconnected" /\ Broadcast(e)
      /\ nkEvents' = Tail(nkEvents)
      /\ UNCHANGED <<best, requests, nkBlocks, inHand, cache, subs, indexVars, due, faults>>
  BY DEF BroadcastDisconnected
<1>2. Head(nkEvents) \in Event /\ faults' \in 0..MaxFaults
  BY <1>1, EventTaken DEF BInv, TypeOK
<1>3. e \in Event /\ e.type = "Disconnected" /\ e.height = Head(nkEvents).height
  BY <1>2 DEF Ev, Event
<1> HIDE DEF e
<1>4. Fetchable(e) /\ e.type # "Connected"
  BY <1>3 DEF Fetchable
<1> QED BY <1>1, <1>2, <1>3, <1>4, PassOnInv

(* nk-events broadcasts the header at the height that was synced, which    *)
(* the best chain still has.                                               *)
LEMMA BroadcastSyncedInv ==
  ASSUME BInv, BroadcastSynced
  PROVE  BInv'
<1> DEFINE h == Head(nkEvents).height
           e == Ev("Synced", HeaderAt(h), h)
<1>1. /\ nkEvents # <<>> /\ Head(nkEvents).type = "Synced" /\ nkEvents' = Tail(nkEvents)
      /\ UNCHANGED <<best, requests, nkBlocks, inHand, cache, subs, indexVars, due>>
      /\ Broadcast(e) \/ UNCHANGED chans
      /\ faults' \in 0..MaxFaults
  BY RefusedType DEF BroadcastSynced, BInv, TypeOK
<1>2. Head(nkEvents) \in Event /\ h <= Len(best)
  BY <1>1, EventTaken DEF BInv
<1>3. h \in 1..Len(best) /\ best[h] \in Block /\ DOMAIN best = 1..Len(best)
  BY <1>2, BestType, HeightBound DEF BInv, Event
<1>4. e \in Event /\ e.type = "Synced"
  BY <1>2, <1>3 DEF Ev, Event, HeaderAt
<1> HIDE DEF e
<1>5. Fetchable(e) /\ e.type # "Connected" /\ e.type # "Disconnected"
  BY <1>4 DEF Fetchable
<1> QED BY <1>1, <1>4, <1>5, PassOnInv

(* The indexer takes its next event: a block it is told of is indexed, and *)
(* only a height that is to be taken down loses its blocks.                *)
LEMMA IndexEventInv ==
  ASSUME BInv, IndexEvent
  PROVE  BInv'
<1> DEFINE e == Head(chans[Indexer])
           s == chans[Indexer]
<1>1. /\ UNCHANGED <<nkVars, inHand, cache, subs, due, faults>> /\ s # <<>>
      /\ chans' = [chans EXCEPT ![Indexer] = Tail(@)]
      /\ \/ e.type = "Connected" /\ Apply(e.block, e.height)
         \/ e.type = "Disconnected" /\ Rollback(e.height)
         \/ e.type = "Synced" /\ UNCHANGED indexVars
  BY DEF IndexEvent
<1>2. Indexer \in Subscriber
  BY DEF Subscriber
<1>3. chans' \in [Subscriber -> Seq(Event)] /\ ChannelsOK' /\ chans'[Indexer] = Tail(s)
  BY <1>1, <1>2, TakeKeeps DEF BInv
<1>4. s \in Seq(Event) /\ e \in Event /\ 1 \in DOMAIN s /\ e = s[1]
  <2>1. s \in Seq(Event)
    BY <1>2 DEF BInv, TypeOK
  <2> QED BY <1>1, <2>1
<1>5. Fetchable(e)
  BY <1>2, <1>4 DEF BInv, ChannelsOK
<1>6. e.block \in Block /\ e.height \in 1..MaxHeight
  BY <1>4 DEF Event
<1> HIDE DEF e, s
<1>7. /\ indexed' \in [1..MaxHeight -> SUBSET Block] /\ tip' \in 0..MaxHeight
      /\ \A b \in Block : b \in indexed[HeightOf(b)] =>
           \/ b \in indexed'[HeightOf(b)]
           \/ e.type = "Disconnected" /\ e.height = HeightOf(b)
      /\ e.type = "Connected" => e.block \in indexed'[HeightOf(e.block)]
  <2>0. indexed \in [1..MaxHeight -> SUBSET Block] /\ tip \in 0..MaxHeight
    BY DEF BInv, TypeOK
  <2>1. CASE e.type = "Connected" /\ Apply(e.block, e.height)
    <3>1. indexed' = [indexed EXCEPT ![e.height] = @ \cup {e.block}] /\ tip' = e.height
      BY <2>1 DEF Apply
    <3>2. e.height = HeightOf(e.block)
      BY <1>5, <2>1 DEF Fetchable
    <3>3. \A b \in Block : HeightOf(b) \in 1..MaxHeight
      BY BranchType
    <3> QED BY <1>6, <2>0, <2>1, <3>1, <3>2, <3>3, HeightBound
  <2>2. CASE e.type = "Disconnected" /\ Rollback(e.height)
    <3>1. indexed' = [indexed EXCEPT ![e.height] = {}]
          /\ tip' = IF tip = e.height THEN e.height - 1 ELSE tip
      BY <2>2 DEF Rollback
    <3>2. \A b \in Block : HeightOf(b) \in 1..MaxHeight
      BY BranchType
    <3> QED BY <1>6, <2>0, <2>2, <3>1, <3>2, HeightBound
  <2>3. CASE e.type = "Synced" /\ UNCHANGED indexVars
    BY <2>0, <2>3 DEF indexVars
  <2> QED BY <1>1, <2>1, <2>2, <2>3
<1>8. TypeOK'
  BY <1>1, <1>3, <1>7 DEF BInv, TypeOK, nkVars
<1>9. BestIsBranch' /\ NakamotoOK' /\ HandOK'
  BY <1>1 DEF BInv, BestIsBranch, NakamotoOK, HandOK, nkVars
<1>10. NothingLost'
  <2>1. ASSUME NEW b \in due', OnItsWay(b) PROVE OnItsWay(b)'
    <3>0. b \in Block
      BY <1>1, <2>1 DEF BInv, TypeOK
    <3>1. /\ NoneAfter(s, 0, "Disconnected", HeightOf(b)) =>
               /\ NoneAfter(Tail(s), 0, "Disconnected", HeightOf(b))
               /\ e.type = "Disconnected" => e.height # HeightOf(b)
          /\ Standing(s, "Connected", "Disconnected", b) =>
               \/ Standing(Tail(s), "Connected", "Disconnected", b)
               \/ /\ e.type = "Connected" /\ e.block = b
                  /\ NoneAfter(Tail(s), 0, "Disconnected", HeightOf(b))
      <4>1. s # <<>> /\ e = Head(s)
        BY <1>1 DEF e, s
      <4> QED BY <1>4, <4>1, TailKeeps
    <3>2. CASE Standing(s, "Connected", "Disconnected", b)
      BY <1>1, <1>3, <1>7, <2>1, <3>1, <3>2 DEF OnItsWay, Underway, nkVars
    <3>3. CASE b \in indexed[HeightOf(b)] /\ NoneAfter(s, 0, "Disconnected", HeightOf(b))
      BY <1>1, <1>3, <1>7, <2>1, <3>0, <3>1, <3>3 DEF OnItsWay, Underway, nkVars
    <3>4. CASE \/ Standing(nkEvents, "BlockConnected", "BlockDisconnected", b)
               \/ /\ NoneAfter(nkEvents, 0, "BlockDisconnected", HeightOf(b))
                  /\ b \in requests \/ \E i \in DOMAIN nkBlocks : nkBlocks[i][1] = b
      BY <1>1, <3>4 DEF OnItsWay, Underway, nkVars
    <3> QED BY <2>1, <3>2, <3>3, <3>4 DEF OnItsWay, Underway, s
  <2> QED BY <1>1, <2>1, WayKept DEF BInv, nkVars
<1> QED BY <1>3, <1>8, <1>9, <1>10 DEF BInv

(* A function on 1..n with values in S is a sequence over S.               *)
LEMMA FunctionIsSeq ==
  ASSUME NEW S, NEW n \in Nat, NEW f \in [1..n -> S]
  PROVE  f \in Seq(S)
BY SMT

(* The events that Adopt appends, with n the place of the fork.            *)
Down(n) == [i \in 1..(Len(best) - n) |->
              Ev("BlockDisconnected", best[Len(best) + 1 - i], Len(best) + 1 - i)]
Up(c, n) == [i \in 1..(Len(Branch[c]) - n) |-> Ev("BlockConnected", Branch[c][n + i], n + i)]
Sync(c) == <<Ev("Synced", c, Len(Branch[c]))>>

(* Of a longer branch: the events are well formed, those of the stale      *)
(* blocks name heights above the fork and every new block is announced.    *)
LEMMA AdoptEvents ==
  ASSUME BInv, NEW c \in Block, Len(Branch[c]) > Len(best), NEW n, n = Fork(Branch[c])
  PROVE  /\ Down(n) \in Seq(Event) /\ Up(c, n) \in Seq(Event) /\ Sync(c) \in Seq(Event)
         /\ \A i \in DOMAIN Down(n) : /\ Down(n)[i].type = "BlockDisconnected"
                                      /\ Down(n)[i].height \in (n + 1)..Len(best)
                                      /\ Down(n)[i].height = HeightOf(Down(n)[i].block)
         /\ \A i \in DOMAIN Up(c, n) : /\ Up(c, n)[i].type = "BlockConnected"
                                       /\ Up(c, n)[i].height \in (n + 1)..HeightOf(c)
                                       /\ Up(c, n)[i].height = HeightOf(Up(c, n)[i].block)
         /\ \A h \in (n + 1)..HeightOf(c) : \E i \in DOMAIN Up(c, n) :
              Up(c, n)[i].block = Branch[c][h]
         /\ DOMAIN Sync(c) = {1} /\ Sync(c)[1].type = "Synced"
         /\ Sync(c)[1].height = HeightOf(c) /\ Sync(c)[1].block = c
<1> DEFINE m == Len(best)
           k == Len(Branch[c])
           q == n
           bc == Branch[c]
           down == Down(q)
           up == Up(c, q)
<1>1. /\ m \in 0..MaxHeight /\ k \in 1..MaxHeight /\ q \in 0..m /\ k > m /\ k = HeightOf(c)
      /\ MaxHeight \in Nat
      /\ \A i \in 1..m : best[i] \in Block /\ HeightOf(best[i]) = i
      /\ \A i \in 1..k : bc[i] \in Block /\ HeightOf(bc[i]) = i
  <2>1. Branch[c] \in Seq(Block) /\ best \in Seq(Block)
    BY BranchType, BestType DEF BInv
  <2> QED BY <2>1, BranchType, BestType, ForkFound, HeightBound DEF HeightOf, BInv
<1>2. down = [i \in 1..(m - q) |-> Ev("BlockDisconnected", best[m + 1 - i], m + 1 - i)]
  BY DEF Down
<1>3. up = [i \in 1..(k - q) |-> Ev("BlockConnected", bc[q + i], q + i)]
  BY DEF Up
<1>4. Sync(c) = <<Ev("Synced", c, k)>>
  BY DEF Sync
<1> HIDE DEF m, k, q, bc, down, up
<1>5. m - q \in Nat /\ k - q \in Nat
  BY <1>1
<1>6. ASSUME NEW i \in 1..(m - q)
      PROVE  /\ down[i] \in Event /\ down[i].type = "BlockDisconnected"
             /\ down[i].height \in (q + 1)..m
             /\ down[i].height = HeightOf(down[i].block)
  <2>1. /\ m + 1 - i \in (q + 1)..m /\ m + 1 - i \in 1..m /\ m + 1 - i \in 1..MaxHeight
    BY <1>1
  <2>2. down[i] = Ev("BlockDisconnected", best[m + 1 - i], m + 1 - i)
    BY <1>2
  <2> QED BY <1>1, <2>1, <2>2 DEF Ev, Event
<1>7. ASSUME NEW i \in 1..(k - q)
      PROVE  /\ up[i] \in Event /\ up[i].type = "BlockConnected"
             /\ up[i].height \in (q + 1)..k /\ up[i].height = HeightOf(up[i].block)
             /\ up[i].block = bc[q + i]
  <2>1. q + i \in (q + 1)..k /\ q + i \in 1..k /\ q + i \in 1..MaxHeight
    BY <1>1
  <2>2. up[i] = Ev("BlockConnected", bc[q + i], q + i)
    BY <1>3
  <2> QED BY <1>1, <2>1, <2>2 DEF Ev, Event
<1>8. DOMAIN down = 1..(m - q) /\ down \in [1..(m - q) -> Event]
  BY <1>2, <1>6
<1>9. DOMAIN up = 1..(k - q) /\ up \in [1..(k - q) -> Event]
  BY <1>3, <1>7
<1>10. down \in Seq(Event) /\ up \in Seq(Event)
  BY <1>5, <1>8, <1>9, FunctionIsSeq
<1>11. /\ Sync(c) \in Seq(Event) /\ DOMAIN Sync(c) = {1} /\ Sync(c)[1].type = "Synced"
       /\ Sync(c)[1].height = HeightOf(c) /\ Sync(c)[1].block = c
  BY <1>1, <1>4 DEF Ev, Event
<1>12. ASSUME NEW h \in (q + 1)..k PROVE \E i \in DOMAIN up : up[i].block = bc[h]
  <2>1. h - q \in 1..(k - q) /\ q + (h - q) = h
    BY <1>1
  <2> QED BY <1>7, <1>9, <2>1
<1>13. /\ \A i \in DOMAIN down : /\ down[i].type = "BlockDisconnected"
                                 /\ down[i].height \in (q + 1)..m
                                 /\ down[i].height = HeightOf(down[i].block)
       /\ \A i \in DOMAIN up : /\ up[i].type = "BlockConnected"
                               /\ up[i].height \in (q + 1)..HeightOf(c)
                               /\ up[i].height = HeightOf(up[i].block)
       /\ \A h \in (q + 1)..HeightOf(c) : \E i \in DOMAIN up : up[i].block = bc[h]
  BY <1>1, <1>6, <1>7, <1>8, <1>9, <1>12
<1> QED BY <1>10, <1>11, <1>13 DEF m, q, bc, down, up

(* The elements of a concatenation.                                        *)
LEMMA ConcatElements ==
  ASSUME NEW s \in Seq(Event), NEW t \in Seq(Event), NEW G,
         \A i \in DOMAIN s : s[i] \in G, \A i \in DOMAIN t : t[i] \in G
  PROVE  \A i \in DOMAIN (s \o t) : (s \o t)[i] \in G
<1> DEFINE m == Len(s)
           n == Len(t)
           u == s \o t
<1>1. /\ m \in Nat /\ n \in Nat /\ DOMAIN s = 1..m /\ DOMAIN t = 1..n /\ DOMAIN u = 1..(m + n)
      /\ \A i \in 1..m : u[i] = s[i]
      /\ \A i \in (m + 1)..(m + n) : u[i] = t[i - m]
  OBVIOUS
<1> HIDE DEF m, n, u
<1>2. ASSUME NEW i \in 1..(m + n) PROVE u[i] \in G
  <2>1. CASE i \in 1..m
    BY <1>1, <2>1
  <2>2. CASE i \in (m + 1)..(m + n)
    <3>1. i - m \in 1..n /\ u[i] = t[i - m]
      BY <1>1, <2>2
    <3> QED BY <1>1, <3>1
  <2> QED BY <1>1, <2>1, <2>2
<1> QED BY <1>1, <1>2 DEF u

(* Four sequences in a row.                                                *)
LEMMA ConcatFour ==
  ASSUME NEW s \in Seq(Event), NEW t \in Seq(Event), NEW u \in Seq(Event), NEW v \in Seq(Event)
  PROVE  /\ s \o t \in Seq(Event) /\ u \o v \in Seq(Event)
         /\ s \o t \o u \o v = (s \o t) \o (u \o v)
         /\ (s \o t) \o (u \o v) \in Seq(Event)
<1>1. s \o t \in Seq(Event)
  BY ConcatProperties
<1>2. u \o v \in Seq(Event)
  BY ConcatProperties
<1>3. ASSUME NEW w \in Seq(Event) PROVE w \o u \o v = w \o (u \o v)
  BY ConcatAssociative, SMTT(20)
<1>4. \A w, x \in Seq(Event) : w \o x \in Seq(Event)
  BY ConcatProperties
<1>5. s \o t \o u \o v = (s \o t) \o (u \o v)
  BY <1>1, <1>3, Zenon
<1>6. (s \o t) \o (u \o v) \in Seq(Event)
  BY <1>1, <1>2, <1>4, Zenon
<1> QED BY <1>1, <1>2, <1>5, <1>6

(* After a run of connections, b stands when it is named by one of them.   *)
LEMMA UpStands ==
  ASSUME NEW s \in Seq(Event), NEW t \in Seq(Event), NEW b,
         \A i \in DOMAIN s : s[i].type = "BlockConnected",
         \A i \in DOMAIN t : t[i].type = "Synced",
         \E i \in DOMAIN s : s[i].block = b
  PROVE  Standing(s \o t, "BlockConnected", "BlockDisconnected", b)
<1>1. NoneAfter(t, 0, "BlockDisconnected", HeightOf(b))
  BY DEF NoneAfter
<1>2. Standing(s, "BlockConnected", "BlockDisconnected", b)
  BY DEF Standing, NoneAfter
<1> QED BY <1>1, <1>2, ConcatKeeps

(* Nakamoto moves to a longer branch.                                      *)
LEMMA AdoptInv == ASSUME BInv, NEW c \in Block, Adopt(c) PROVE BInv'
<1> DEFINE n == Fork(Branch[c])
           d == Down(n)
           u == Up(c, n)
           y == Sync(c)
           m == Len(best)
<1>1. /\ Len(Branch[c]) > Len(best) /\ best' = Branch[c]
      /\ nkEvents' = nkEvents \o d \o u \o y
      /\ due' = IF Indexer \in subs
                THEN due \cup {Branch[c][i] : i \in (n + 1)..Len(Branch[c])} ELSE due
      /\ UNCHANGED <<requests, nkBlocks, sourceVars, indexVars, faults>>
  BY DEF Adopt, Down, Up, Sync
<1>2. /\ d \in Seq(Event) /\ u \in Seq(Event) /\ y \in Seq(Event)
      /\ \A i \in DOMAIN d : /\ d[i].type = "BlockDisconnected"
                             /\ d[i].height \in (n + 1)..m
                             /\ d[i].height = HeightOf(d[i].block)
      /\ \A i \in DOMAIN u : /\ u[i].type = "BlockConnected"
                             /\ u[i].height \in (n + 1)..HeightOf(c)
                             /\ u[i].height = HeightOf(u[i].block)
      /\ \A h \in (n + 1)..HeightOf(c) : \E i \in DOMAIN u : u[i].block = Branch[c][h]
      /\ DOMAIN y = {1} /\ y[1].type = "Synced"
      /\ y[1].height = HeightOf(c) /\ y[1].block = c
  BY <1>1, AdoptEvents
<1>3. /\ best \in Seq(Block) /\ Branch[c] \in Seq(Block) /\ HeightOf(c) = Len(Branch[c])
      /\ HeightOf(c) \in 1..MaxHeight /\ MaxHeight \in Nat
      /\ m \in Nat /\ m < HeightOf(c) /\ nkEvents \in Seq(Event)
      /\ \A i \in 1..HeightOf(c) : Branch[c][i] \in Block /\ HeightOf(Branch[c][i]) = i
      /\ \A i \in 1..m : best[i] \in Block /\ HeightOf(best[i]) = i
  BY <1>1, BranchType, BestType, HeightBound DEF BInv, TypeOK, HeightOf
<1>4. n \in 0..m /\ \A i \in 1..n : best[i] = Branch[c][i]
  BY <1>1, <1>3, ForkFound
<1> HIDE DEF n, d, u, y, m
<1>5. /\ nkEvents \o d \in Seq(Event) /\ u \o y \in Seq(Event)
      /\ nkEvents' = (nkEvents \o d) \o (u \o y)
      /\ nkEvents' \in Seq(Event)
  <2>1. d \in Seq(Event) /\ u \in Seq(Event) /\ y \in Seq(Event) /\ nkEvents \in Seq(Event)
    BY <1>2, <1>3
  <2>2. nkEvents' = nkEvents \o d \o u \o y
    BY <1>1
  <2>3. /\ nkEvents \o d \in Seq(Event) /\ u \o y \in Seq(Event)
        /\ nkEvents \o d \o u \o y = (nkEvents \o d) \o (u \o y)
        /\ (nkEvents \o d) \o (u \o y) \in Seq(Event)
    BY <2>1, ConcatFour
  <2> QED BY <2>2, <2>3
<1>6. BestIsBranch'
  BY <1>1 DEF BestIsBranch
<1>7. TypeOK'
  <2>1. due' \subseteq Block
    <3>1. ASSUME NEW i \in (n + 1)..HeightOf(c) PROVE Branch[c][i] \in Block
      BY <1>3, <1>4
    <3> QED BY <1>1, <1>3, <3>1 DEF BInv, TypeOK
  <2> QED BY <1>1, <1>3, <1>5, <2>1 DEF BInv, TypeOK, sourceVars, indexVars
<1>8. NakamotoOK'
  <2> DEFINE G == {e \in Event : e.height <= HeightOf(c) /\ e.height = HeightOf(e.block)}
  <2>1. ASSUME NEW i \in DOMAIN nkEvents PROVE nkEvents[i] \in G
    <3>1. nkEvents[i] \in Event
      BY <1>3, ElementOfSeq
    <3>2. nkEvents[i].height <= m /\ nkEvents[i].height = HeightOf(nkEvents[i].block)
      BY <2>1 DEF BInv, NakamotoOK, m
    <3>3. nkEvents[i].height \in 1..MaxHeight
      BY <3>1 DEF Event
    <3>4. nkEvents[i].height <= HeightOf(c)
      BY <1>3, <3>2, <3>3
    <3> QED BY <3>1, <3>2, <3>4
  <2>2. ASSUME NEW i \in DOMAIN d PROVE d[i] \in G
    <3>1. d[i] \in Event
      BY <1>2, ElementOfSeq
    <3> QED BY <1>2, <1>3, <1>4, <3>1
  <2>3. ASSUME NEW i \in DOMAIN u PROVE u[i] \in G
    <3>1. u[i] \in Event
      BY <1>2, ElementOfSeq
    <3> QED BY <1>2, <1>3, <1>4, <3>1
  <2>4. ASSUME NEW i \in DOMAIN y PROVE y[i] \in G
    <3>1. y[i] \in Event
      <4>1. y \in Seq(Event)
        BY <1>2
      <4> QED BY <2>4, <4>1
    <3> QED BY <1>2, <1>3, <3>1
  <2> HIDE DEF G
  <2>5. \A i \in DOMAIN (nkEvents \o d) : (nkEvents \o d)[i] \in G
    BY <1>2, <1>3, <2>1, <2>2, ConcatElements
  <2>6. \A i \in DOMAIN (u \o y) : (u \o y)[i] \in G
    BY <1>2, <2>3, <2>4, ConcatElements
  <2>7. \A i \in DOMAIN nkEvents' : nkEvents'[i] \in G
    BY <1>5, <2>5, <2>6, ConcatElements
  <2> QED BY <1>1, <1>3, <2>7 DEF G, NakamotoOK, BInv
<1>9. HandOK' /\ ChannelsOK'
  BY <1>1 DEF BInv, HandOK, ChannelsOK, Fetchable, sourceVars
<1>10. NothingLost'
  <2>1. due' # {} => Indexer \in subs'
    BY <1>1 DEF BInv, NothingLost, sourceVars
  <2>2. ASSUME NEW b \in due', Active(b)' PROVE OnItsWay(b)'
    <3> DEFINE h == HeightOf(b)
    <3>1. b \in Block /\ h \in 1..HeightOf(c) /\ Branch[c][h] = b
      <4>1. Active(b)' <=> \E i \in 1..HeightOf(c) : b = Branch[c][i]
        BY <1>1, <1>3 DEF Active, ToSet
      <4> QED BY <1>3, <2>2, <4>1
    <3> HIDE DEF h
    <3>2. CASE h > n
      <4>1. \E i \in DOMAIN u : u[i].block = b
        <5>1. h \in (n + 1)..HeightOf(c)
          BY <1>3, <1>4, <3>1, <3>2
        <5> QED BY <1>2, <3>1, <5>1
      <4>2. Standing(u \o y, "BlockConnected", "BlockDisconnected", b)
        BY <1>2, <4>1, UpStands
      <4>3. Standing((nkEvents \o d) \o (u \o y), "BlockConnected", "BlockDisconnected", b)
        BY <1>5, <4>2, ConcatStands
      <4>4. Standing(nkEvents', "BlockConnected", "BlockDisconnected", b)
        BY <1>5, <4>3
      <4> QED BY <4>4 DEF OnItsWay
    <3>3. CASE ~(h > n)
      <4>1. h \in 1..n /\ h \in 1..m /\ best[h] = b
        BY <1>3, <1>4, <3>1, <3>3
      <4>2. Active(b)
        BY <3>1, <4>1, ActivePlace DEF BInv, h, m
      <4>3. b \in due
        <5>1. ASSUME NEW i \in (n + 1)..HeightOf(c), b = Branch[c][i] PROVE FALSE
          <6>1. i \in 1..HeightOf(c) /\ i > n
            BY <1>3, <1>4, <5>1
          <6>2. HeightOf(b) = i
            BY <1>3, <5>1, <6>1
          <6> QED BY <1>4, <4>1, <6>1, <6>2 DEF h
        <5> QED BY <1>1, <1>3, <2>2, <5>1
      <4>4. OnItsWay(b)
        BY <4>2, <4>3 DEF BInv, NothingLost
      <4>5. NoneAfter(d, 0, "BlockDisconnected", h)
        BY <1>2, <1>3, <1>4, <4>1 DEF NoneAfter
      <4>6. NoneAfter(u, 0, "BlockDisconnected", h) /\ NoneAfter(y, 0, "BlockDisconnected", h)
        BY <1>2 DEF NoneAfter
      <4>7. NoneAfter(u \o y, 0, "BlockDisconnected", h)
        BY <1>2, <4>6, ConcatKeeps DEF h
      <4>8. /\ NoneAfter(nkEvents, 0, "BlockDisconnected", h) =>
                 NoneAfter(nkEvents \o d, 0, "BlockDisconnected", h)
            /\ Standing(nkEvents, "BlockConnected", "BlockDisconnected", b) =>
                 Standing(nkEvents \o d, "BlockConnected", "BlockDisconnected", b)
        BY <1>2, <1>3, <4>5, ConcatKeeps DEF h
      <4>9. /\ NoneAfter(nkEvents \o d, 0, "BlockDisconnected", h) =>
                 NoneAfter(nkEvents', 0, "BlockDisconnected", h)
            /\ Standing(nkEvents \o d, "BlockConnected", "BlockDisconnected", b) =>
                 Standing(nkEvents', "BlockConnected", "BlockDisconnected", b)
        BY <1>5, <4>7, ConcatKeeps DEF h
      <4>10. Underway(b) => Underway(b)'
        BY <1>1 DEF Underway, sourceVars, indexVars
      <4> QED BY <4>4, <4>8, <4>9, <4>10 DEF OnItsWay, h
    <3> QED BY <3>2, <3>3
  <2> QED BY <2>1, <2>2 DEF NothingLost
<1> QED BY <1>6, <1>7, <1>8, <1>9, <1>10 DEF BInv

(* Every step of the block source and of the index keeps the invariant.    *)
LEMMA SourceStep == ASSUME BInv, [Next]_vars PROVE BInv'
<1>1. CASE UNCHANGED vars
  <2>1. faults' \in 0..MaxFaults
    BY <1>1 DEF BInv, TypeOK, vars
  <2> QED BY <1>1, <2>1, CallFailsInv DEF vars
<1>2. ASSUME NEW b \in Block, Adopt(b) \/ Deliver(b) PROVE BInv'
  BY <1>2, AdoptInv, DeliverInv
<1>3. ASSUME NEW s \in Subscriber, Subscribe(s) PROVE BInv'
  BY <1>3, SubscribeInv
<1>4. ASSUME NEW s \in Client, Unsubscribe(s) \/ ClientEvent(s) PROVE BInv'
  BY <1>4, UnsubscribeInv, ClientEventInv
<1>5. CASE EventsThread
  BY <1>5, RequestBlockInv, BroadcastDisconnectedInv, BroadcastSyncedInv DEF EventsThread
<1>6. CASE BlocksThread
  BY <1>6, CacheBlockInv, DropBlockInv, BroadcastBlockInv DEF BlocksThread
<1>7. CASE IndexEvent
  BY <1>7, IndexEventInv
<1> QED BY <1>1, <1>2, <1>3, <1>4, <1>5, <1>6, <1>7 DEF Next

-----------------------------------------------------------------------------
(* Ranges of headers.                                                      *)

(* The headers got so far are those of the best chain from the start on,   *)
(* unless a block has left it meanwhile.                                   *)
RangeOK ==
  /\ range \in [start : Nat, next : Nat, stop : Nat, got : Seq(Block)]
  /\ Asking => range.start > 0 /\ range.next = range.start + Len(range.got)
  /\ Asking /\ ~forked =>
       \A i \in DOMAIN range.got : /\ range.start + i - 1 <= Len(best)
                                   /\ range.got[i] = best[range.start + i - 1]

HInv == BInv /\ RangeOK

(* A chain that only grows keeps the headers it has.                       *)
LEMMA PrefixKeeps ==
  ASSUME NEW s \in Seq(Block), NEW t \in Seq(Block), IsPrefix(s, t)
  PROVE  Len(s) <= Len(t) /\ \A i \in 1..Len(s) : t[i] = s[i]
<1> DEFINE n == Len(s)
<1>1. /\ n \in Nat /\ n <= Len(s) /\ n <= Len(t)
      /\ SubSeq(s, 1, n) = SubSeq(t, 1, n)
  BY DEF IsPrefix
<1> HIDE DEF n
<1>2. \A i \in 1..n : SubSeq(s, 1, n)[i] = s[i] /\ SubSeq(t, 1, n)[i] = t[i]
  BY <1>1
<1> QED BY <1>1, <1>2 DEF n

(* A request begins, is answered or fails.                                 *)
LEMMA RangeEndsInv ==
  ASSUME HInv, \/ \E r \in Ranges : AskHeaders(r[1], r[2])
               \/ QueryFails
               \/ ReplyHeaders
  PROVE  HInv'
<1>1. BInv'
  <2>1. CASE UNCHANGED vars
    BY <2>1, SourceStep DEF HInv
  <2>2. CASE QueryFails
    BY <2>2, CallFailsInv, RefusedType DEF HInv, BInv, QueryFails
  <2> QED BY <2>1, <2>2 DEF AskHeaders, ReplyHeaders
<1>2. RangeOK'
  <2>1. ASSUME NEW r \in Ranges, AskHeaders(r[1], r[2]) PROVE RangeOK'
    <3>1. r[1] \in Nat \ {0} /\ r[2] \in Nat /\ r[1] + r[2] \in Nat
      BY HeaderRequestsAssumption
    <3>2. range' = [start |-> r[1], next |-> r[1], stop |-> r[1] + r[2], got |-> <<>>]
      BY <2>1 DEF AskHeaders
    <3>3. /\ range'.start = r[1] /\ range'.next = r[1] /\ range'.got = <<>>
          /\ range' \in [start : Nat, next : Nat, stop : Nat, got : Seq(Block)]
      BY <3>1, <3>2
    <3>4. DOMAIN range'.got = {} /\ Len(range'.got) = 0
      BY <3>3
    <3> QED BY <3>1, <3>3, <3>4 DEF RangeOK
  <2>2. CASE range' = NoRange
    BY <2>2 DEF RangeOK, NoRange, Asking
  <2> QED BY <2>1, <2>2 DEF QueryFails, ReplyHeaders
<1> QED BY <1>1, <1>2 DEF HInv

(* A query of the tree adds the header of the next height, or ends the     *)
(* range.                                                                  *)
LEMMA QueryHeaderInv == ASSUME HInv, QueryHeader PROVE HInv'
<1> DEFINE h == range.next
           a == range.start
           g == range.got
           n == Len(range.got)
<1>1. /\ UNCHANGED <<vars, forked>> /\ Asking /\ h < range.stop
      /\ range' = IF HeaderAt(h) # NoBlock
                  THEN [range EXCEPT !.next = h + 1, !.got = Append(g, HeaderAt(h))]
                  ELSE [range EXCEPT !.stop = h]
  BY DEF QueryHeader, InLoop
<1>2. BInv' /\ best' = best
  BY <1>1, SourceStep DEF HInv, vars, nkVars
<1>3. /\ h \in Nat /\ a \in Nat /\ a > 0 /\ g \in Seq(Block) /\ n \in Nat /\ h = a + n
      /\ range.stop \in Nat
      /\ range = [start |-> a, next |-> h, stop |-> range.stop, got |-> g]
  BY <1>1 DEF HInv, RangeOK
<1>4. /\ best \in Seq(Block) /\ DOMAIN best = 1..Len(best) /\ Len(best) \in Nat
      /\ \A i \in 1..Len(best) : best[i] \in Block
  BY BestType DEF HInv, BInv
<1>5. ~forked => \A i \in 1..n : a + i - 1 <= Len(best) /\ g[i] = best[a + i - 1]
  BY <1>1, <1>3 DEF HInv, RangeOK
<1>6. DOMAIN g = 1..n /\ Len(g) = n
  BY <1>3
<1> HIDE DEF h, a, g, n
<1>7. CASE HeaderAt(h) = NoBlock
  <2>1. range' = [start |-> a, next |-> h, stop |-> h, got |-> g]
    BY <1>1, <1>3, <1>7
  <2>2. /\ range'.start = a /\ range'.next = h /\ range'.got = g
        /\ range' \in [start : Nat, next : Nat, stop : Nat, got : Seq(Block)]
    BY <1>3, <2>1
  <2>3. RangeOK'
    BY <1>1, <1>2, <1>3, <1>5, <1>6, <2>2 DEF RangeOK
  <2> QED BY <1>2, <2>3 DEF HInv
<1>8. CASE HeaderAt(h) # NoBlock
  <2> DEFINE e == HeaderAt(h)
             t == Append(g, e)
  <2>1. h \in 1..Len(best) /\ e = best[h] /\ e \in Block
    BY <1>4, <1>8 DEF HeaderAt
  <2>2. /\ t \in Seq(Block) /\ Len(t) = n + 1 /\ DOMAIN t = 1..(n + 1)
        /\ (\A i \in 1..n : t[i] = g[i]) /\ t[n + 1] = e
    BY <1>3, <1>6, <2>1, AppendProperties
  <2> HIDE DEF e, t
  <2>3. range' = [range EXCEPT !.next = h + 1, !.got = t]
    BY <1>1, <1>8 DEF e, t
  <2>4. /\ range'.start = a /\ range'.next = h + 1 /\ range'.got = t
        /\ range' \in [start : Nat, next : Nat, stop : Nat, got : Seq(Block)]
    <3>1. range \in [start : Nat, next : Nat, stop : Nat, got : Seq(Block)] /\ range.start = a
      BY DEF HInv, RangeOK, a
    <3>2. h + 1 \in Nat
      BY <1>3
    <3> QED BY <2>2, <2>3, <3>1, <3>2
  <2>5. h + 1 = a + (n + 1)
    BY <1>3
  <2>6. ASSUME ~forked, NEW i \in 1..(n + 1)
        PROVE  a + i - 1 <= Len(best) /\ t[i] = best[a + i - 1]
    <3>1. CASE i \in 1..n
      BY <1>5, <2>2, <2>6, <3>1
    <3>2. CASE i = n + 1
      <4>1. a + i - 1 = h
        BY <1>3, <3>2
      <4> QED BY <1>4, <2>1, <2>2, <3>2, <4>1
    <3> QED BY <1>3, <3>1, <3>2
  <2>7. RangeOK'
    <3>1. range'.start > 0 /\ range'.next = range'.start + Len(range'.got)
      BY <1>3, <2>2, <2>4, <2>5
    <3>2. ~forked' => \A i \in DOMAIN range'.got :
                        /\ range'.start + i - 1 <= Len(best')
                        /\ range'.got[i] = best'[range'.start + i - 1]
      BY <1>1, <1>2, <2>2, <2>4, <2>6
    <3> QED BY <2>4, <3>1, <3>2 DEF RangeOK
  <2> QED BY <1>2, <2>7 DEF HInv
<1> QED BY <1>7, <1>8

(* The chain moves while a request is answered.                            *)
LEMMA MeanwhileInv == ASSUME HInv, Meanwhile PROVE HInv'
<1>1. BInv' /\ range' = range /\ forked' = (Asking /\ (forked \/ ~IsPrefix(best, best')))
  BY SourceStep DEF HInv, Meanwhile, Watch
<1>2. best \in Seq(Block) /\ best' \in Seq(Block) /\ Len(best) \in Nat /\ Len(best') \in Nat
  BY <1>1 DEF HInv, BInv, TypeOK
<1>3. Asking' = Asking
  BY <1>1 DEF Asking
<1>4. ASSUME Asking, ~forked', NEW i \in DOMAIN range.got
      PROVE  /\ range.start + i - 1 <= Len(best')
             /\ range.got[i] = best'[range.start + i - 1]
  <2> DEFINE k == range.start + i - 1
  <2>1. ~forked
    BY <1>1, <1>4
  <2>2. k <= Len(best) /\ range.got[i] = best[k]
    BY <1>4, <2>1 DEF HInv, RangeOK
  <2>3. range.start \in Nat /\ range.start > 0 /\ range.got \in Seq(Block)
    BY <1>4 DEF HInv, RangeOK
  <2>4. i \in Nat /\ i > 0
    BY <1>4, <2>3
  <2>5. k \in 1..Len(best)
    BY <1>2, <2>2, <2>3, <2>4
  <2> HIDE DEF k
  <2>6. Len(best) <= Len(best') /\ best'[k] = best[k]
    BY <1>1, <1>2, <1>4, <2>5, PrefixKeeps
  <2>7. k <= Len(best')
    BY <1>2, <2>5, <2>6
  <2> QED BY <2>2, <2>6, <2>7 DEF k
<1>5. RangeOK'
  BY <1>1, <1>3, <1>4 DEF HInv, RangeOK
<1> QED BY <1>1, <1>5 DEF HInv

(* Every step.                                                             *)
LEMMA HeaderStep == ASSUME HInv, [HNext]_hvars PROVE HInv'
<1>1. CASE UNCHANGED hvars
  <2>1. UNCHANGED vars /\ UNCHANGED range /\ UNCHANGED forked
    BY <1>1 DEF hvars
  <2>2. BInv'
    BY <2>1, SourceStep DEF HInv
  <2> QED BY <2>1, <2>2 DEF HInv, RangeOK, Asking, vars, nkVars
<1> QED BY <1>1, RangeEndsInv, QueryHeaderInv, MeanwhileInv DEF HNext

(* A reply whose range no block has left is a piece of one branch.         *)
LEMMA RangeLinks ==
  ASSUME HInv, Asking, ~forked, range.got # <<>>
  PROVE  range.got = SubSeq(Branch[Last(range.got)], range.start, Len(Branch[Last(range.got)]))
<1> DEFINE g == range.got
           a == range.start
           n == Len(range.got)
           k == range.start + Len(range.got) - 1
<1>1. /\ g \in Seq(Block) /\ n \in Nat /\ n > 0 /\ DOMAIN g = 1..n /\ a \in Nat /\ a > 0
      /\ Last(g) = g[n] /\ Len(g) = n
  BY DEF HInv, RangeOK, Last
<1>2. k = a + n - 1 /\ \A i \in 1..n : a + i - 1 <= Len(best) /\ g[i] = best[a + i - 1]
  BY <1>1 DEF HInv, RangeOK
<1> HIDE DEF g, a, n, k
<1>3. best \in Seq(Block) /\ Len(best) \in Nat
  BY BestType DEF HInv, BInv
<1>4. k \in 1..Len(best) /\ Last(g) = best[k] /\ a <= k /\ k - a + 1 = n
  <2>1. n \in 1..n
    BY <1>1
  <2> QED BY <1>1, <1>2, <1>3, <2>1
<1>5. PICK b \in Block : best = Branch[b]
  BY <1>3, <1>4 DEF HInv, BInv, BestIsBranch
<1>6. Branch[best[k]] = SubSeq(best, 1, k)
  <2>1. k \in DOMAIN Branch[b]
    BY <1>3, <1>4, <1>5
  <2>2. Branch[Branch[b][k]] = SubSeq(Branch[b], 1, k)
    BY <2>1, BlockSourceAssumption
  <2> QED BY <1>5, <2>2
<1> DEFINE c == SubSeq(best, 1, k)
           s == SubSeq(c, a, k)
<1>7. c \in Seq(Block) /\ Len(c) = k /\ \A i \in 1..k : c[i] = best[i]
  BY <1>3, <1>4
<1> HIDE DEF c
<1>8. s \in Seq(Block) /\ Len(s) = n /\ \A i \in 1..n : s[i] = c[a + i - 1]
  BY <1>1, <1>4, <1>7
<1> HIDE DEF s
<1>9. ASSUME NEW i \in 1..n PROVE g[i] = s[i]
  <2>1. a + i - 1 \in 1..k
    BY <1>1, <1>2
  <2> QED BY <1>2, <1>7, <1>8, <2>1
<1>10. g = s
  BY <1>1, <1>8, <1>9, SeqEqual
<1> QED BY <1>4, <1>6, <1>7, <1>10 DEF g, a, s, c

-----------------------------------------------------------------------------
(* What is proved.                                                         *)

(* The invariant holds, whatever the threads, nakamoto and the clients do. *)
THEOREM SourceInvariance == HSpec => []HInv
<1>1. HInit => HInv
  <2> SUFFICES ASSUME HInit PROVE HInv
    OBVIOUS
  <2>1. BInv /\ range = NoRange
    BY SourceInit DEF HInit
  <2> QED BY <2>1 DEF HInv, RangeOK, NoRange, Asking
<1>2. HInv /\ [HNext]_hvars => HInv'
  BY HeaderStep
<1> QED BY <1>1, <1>2, PTL DEF HSpec

(* The variables keep their types: no channel carries a block or a height  *)
(* that does not exist, the hash that a Synced event is given included.    *)
THEOREM SourceTypes == HSpec => []TypeOK
<1>1. HInv => TypeOK
  BY DEF HInv, BInv
<1> QED BY <1>1, SourceInvariance, PTL

(* block_by_hash finds every block that an event on its way announces.     *)
THEOREM AnnouncedBlocksAreCached == HSpec => []AnnouncedIsCached
<1>1. HInv => AnnouncedIsCached
  <2> SUFFICES ASSUME HInv, NEW s \in Subscriber, NEW i \in DOMAIN chans[s],
                      chans[s][i].type = "Connected"
               PROVE  BlockByHash(chans[s][i].block) # NoBlock
    BY DEF AnnouncedIsCached
  <2>1. chans[s][i].block \in cache /\ cache \subseteq Block
    BY DEF HInv, BInv, ChannelsOK, Fetchable, TypeOK
  <2> QED BY <2>1, BlockSourceAssumption DEF BlockByHash
<1> QED BY <1>1, SourceInvariance, PTL

(* Once all channels are empty no active block is missing from the index.  *)
THEOREM ActiveBlocksAreIndexed == HSpec => []NoActiveBlockMissing
<1>1. HInv => NoActiveBlockMissing
  <2> SUFFICES ASSUME HInv, Quiescent, NEW b \in due, Active(b)
               PROVE  b \in indexed[Len(Branch[b])]
    BY DEF NoActiveBlockMissing
  <2>1. OnItsWay(b)
    BY DEF HInv, BInv, NothingLost
  <2>2. /\ DOMAIN nkEvents = {} /\ requests = {} /\ DOMAIN nkBlocks = {}
        /\ DOMAIN chans[Indexer] = {}
    BY DEF Quiescent
  <2> QED BY <2>1, <2>2 DEF OnItsWay, Underway, Standing, HeightOf
<1> QED BY <1>1, SourceInvariance, PTL

(* A reply of headers is a piece of one branch, from the height asked for  *)
(* on, unless a block left the best chain while it was put together.       *)
THEOREM RepliesLink == HSpec => HeadersLink
<1>1. HInv /\ [HNext]_hvars =>
        [ReplyHeaders /\ ~forked /\ range.got # <<>> =>
           range.got = SubSeq(Branch[Last(range.got)], range.start,
                              Len(Branch[Last(range.got)]))]_hvars
  BY RangeLinks DEF ReplyHeaders
<1> QED BY <1>1, SourceInvariance, PTL DEF HSpec, HeadersLink
=============================================================================

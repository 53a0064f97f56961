----------------------------- MODULE RelayProofs -----------------------------
(***************************************************************************)
(* What TLAPS proves of a node's dealings with its peers.                  *)
(*                                                                         *)
(* Part 1 is Relay, for any network and tree of blocks: the store repeats  *)
(* no block and follows the ledger, a block of a peer is announced by the  *)
(* step that stores it, what is announced can be served, and requests and  *)
(* remembered blocks stay within their limits.                             *)
(*                                                                         *)
(* Part 2 is the table of the peers it may connect to (PeerTable): its     *)
(* index is exact, bans and records are kept and selections are good.      *)
(***************************************************************************)
EXTENDS Relay, PeerTable, SequenceTheorems, FiniteSetTheorems, NaturalsInduction, TLAPS

Messages ==
    [type : {"INV"}, from : Nodes, to : Nodes, hashes : Seq(Blocks)]
        \cup [type : {"GET_BLOCK", "BLOCK"}, from : Nodes, to : Nodes, block : Blocks]

TypeInv ==
    /\ ledger \in [Nodes -> Seq(Blocks)]
    /\ stored \in [Nodes -> Seq(Blocks)]
    /\ queue \in [Nodes -> Seq(Blocks)]
    /\ intact \in [Nodes -> BOOLEAN]
    /\ local \in [Nodes -> SUBSET Blocks]
    /\ pending \in [Nodes -> SUBSET [block : Blocks, peer : Nodes]]
    /\ net \subseteq Messages

(* A ledger grows on its tip from genesis, and repeats no block.           *)
Linked(n) ==
    \A i \in DOMAIN ledger[n] :
        Parent[ledger[n][i]] = IF i = 1 THEN Genesis ELSE ledger[n][i - 1]
Distinct(s) == \A i, j \in DOMAIN s : s[i] = s[j] => i = j
Follows(n) == Range(stored[n]) \subseteq Range(ledger[n]) /\ (intact[n] => stored[n] = ledger[n])

ChainInv ==
    \A n \in Nodes : Linked(n) /\ Distinct(ledger[n]) /\ Distinct(stored[n]) /\ Follows(n)

IInv == TypeInv /\ ChainInv /\ Servable

-----------------------------------------------------------------------------
LEMMA RangeOfAppend ==
    ASSUME NEW S, NEW s \in Seq(S), NEW b \in S
    PROVE  Range(Append(s, b)) = Range(s) \cup {b}
<1>1. Len(s) \in Nat /\ DOMAIN s = 1 .. Len(s) /\ DOMAIN Append(s, b) = 1 .. Len(s) + 1
  BY LenProperties, AppendProperties
<1>2. \A i \in 1 .. Len(s) + 1 : Append(s, b)[i] = IF i <= Len(s) THEN s[i] ELSE b
  BY <1>1
<1>3. Append(s, b)[Len(s) + 1] = b
  BY <1>1, <1>2
<1>4. \A i \in DOMAIN s : i \in DOMAIN Append(s, b) /\ Append(s, b)[i] = s[i]
  BY <1>1, <1>2
<1>5. \A i \in DOMAIN Append(s, b) : Append(s, b)[i] = b \/ i \in DOMAIN s
  BY <1>1, <1>2
<1>6. Len(s) + 1 \in DOMAIN Append(s, b)
  BY <1>1
<1> QED BY <1>3, <1>4, <1>5, <1>6 DEF Range

LEMMA RangeOfSubSeq ==
    ASSUME NEW S, NEW s \in Seq(S), NEW k \in 0 .. Len(s)
    PROVE  SubSeq(s, 1, k) \in Seq(S) /\ Range(SubSeq(s, 1, k)) \subseteq Range(s)
BY DEF Range

LEMMA DistinctAppend ==
    ASSUME NEW S, NEW s \in Seq(S), NEW b \in S, Distinct(s), b \notin Range(s)
    PROVE  Distinct(Append(s, b))
BY DEF Range, Distinct

(* A block that extends the tip is new to a ledger that grew in this way.  *)
LEMMA ExtensionIsNew ==
    ASSUME TypeInv, NEW n \in Nodes, Linked(n), Distinct(ledger[n]),
           NEW b \in Blocks, Parent[b] = Tip(n)
    PROVE  b \notin Range(ledger[n])
<1> DEFINE s == ledger[n]
<1>1. s \in Seq(Blocks) /\ Len(s) \in Nat /\ DOMAIN s = 1 .. Len(s)
  BY LenProperties DEF TypeInv
<1>2. SUFFICES ASSUME NEW i \in DOMAIN s, s[i] = b
               PROVE  FALSE
  BY DEF Range
<1>3. Tip(n) = s[Len(s)] /\ Len(s) \in DOMAIN s /\ s[Len(s)] \in Blocks
  BY <1>1, <1>2 DEF Tip
<1>4. CASE i = 1
  BY <1>2, <1>3, <1>4, RelayAssumption DEF Linked
<1>5. CASE i # 1
  <2>1. i - 1 \in DOMAIN s /\ s[i - 1] = s[Len(s)]
    BY <1>1, <1>2, <1>3, <1>5 DEF Linked
  <2>2. i - 1 = Len(s)
    BY <1>3, <2>1 DEF Distinct
  <2> QED BY <1>1, <2>2
<1> QED BY <1>4, <1>5

LEMMA LinkedAppend ==
    ASSUME TypeInv, NEW n \in Nodes, Linked(n), NEW b \in Blocks, Parent[b] = Tip(n),
           ledger'[n] = Append(ledger[n], b)
    PROVE  Linked(n)'
<1> DEFINE s == ledger[n]
<1>1. s \in Seq(Blocks) /\ Len(s) \in Nat /\ DOMAIN s = 1 .. Len(s)
  BY LenProperties DEF TypeInv
<1>2. s = <<>> <=> Len(s) = 0
  BY <1>1
<1>3. SUFFICES ASSUME NEW i \in 1 .. Len(s) + 1
               PROVE  Parent[Append(s, b)[i]] = IF i = 1 THEN Genesis ELSE Append(s, b)[i - 1]
  BY <1>1 DEF Linked
<1>4. CASE i = Len(s) + 1
  BY <1>1, <1>2, <1>4 DEF Tip
<1>5. CASE i # Len(s) + 1
  BY <1>1, <1>5 DEF Linked
<1> QED BY <1>4, <1>5

-----------------------------------------------------------------------------
(* The effect of a step on a node's chain and queue.                       *)
Stays(n) ==
    /\ ledger'[n] = ledger[n] /\ stored'[n] = stored[n] /\ intact'[n] = intact[n]
    /\ queue'[n] = queue[n] \/ queue'[n] = <<>>

Stores(n, b) ==
    /\ Parent[b] = Tip(n)
    /\ ledger'[n] = Append(ledger[n], b) /\ stored'[n] = Append(stored[n], b)
    /\ intact'[n] = intact[n]
    /\ queue'[n] = queue[n] \/ queue'[n] = Append(queue[n], b)

Loses(n, b) ==
    /\ Parent[b] = Tip(n)
    /\ ledger'[n] = Append(ledger[n], b) /\ stored'[n] = stored[n]
    /\ intact'[n] = FALSE /\ queue'[n] = queue[n]

Names(n, b) ==
    /\ ledger'[n] = ledger[n] /\ stored'[n] = stored[n] /\ intact'[n] = intact[n]
    /\ queue'[n] = queue[n] \/ queue'[n] = Append(queue[n], b)
    /\ b \in local'[n]
    /\ OnLocalBlock(n, b)

Effect(n) ==
    \/ Stays(n)
    \/ \E b \in Blocks : Stores(n, b) \/ Loses(n, b) \/ Names(n, b)

LEMMA StepEffect ==
    ASSUME TypeInv, [Next]_vars, NEW n \in Nodes
    PROVE  Effect(n)
<1> USE DEF TypeInv
<1>1. ASSUME NEW m \in Nodes, NEW b \in Blocks, OnLocalBlock(m, b)
      PROVE  Effect(n)
  <2>1. m = n => Names(n, b)
    BY <1>1 DEF OnLocalBlock, Names
  <2>2. m # n => Stays(n)
    BY <1>1 DEF OnLocalBlock, Stays
  <2> QED BY <2>1, <2>2 DEF Effect
<1>6. ASSUME NEW m \in Nodes, NEW b \in Blocks, AddOwnBlock(m, b)
      PROVE  Effect(n)
  <2>1. m = n => Stores(n, b) \/ Loses(n, b)
    BY <1>6 DEF AddOwnBlock, Stores, Loses
  <2>2. m # n => Stays(n)
    BY <1>6 DEF AddOwnBlock, Stays
  <2> QED BY <2>1, <2>2 DEF Effect
<1>2. ASSUME NEW m \in Nodes, Announce(m) \/ RequestBlocks(m) \/ Expire(m)
      PROVE  Effect(n)
  BY <1>2 DEF Announce, RequestBlocks, Expire, Effect, Stays
<1>3. ASSUME NEW m \in Nodes, NEW g \in net, HandleInv(m, g) \/ HandleGetBlock(m, g)
      PROVE  Effect(n)
  BY <1>3 DEF HandleInv, HandleGetBlock, Effect, Stays
<1>4. ASSUME NEW m \in Nodes, NEW g \in net, HandleBlock(m, g)
      PROVE  Effect(n)
  <2>1. g.block \in Blocks
    BY <1>4 DEF HandleBlock, Messages
  <2>2. CASE Duplicate(m, g.block) \/ Refused(m, g.block)
    BY <2>2 DEF Duplicate, Refused, Effect, Stays
  <2>3. CASE NotStored(m, g.block)
    <3>1. m = n => Loses(n, g.block)
      BY <2>3 DEF NotStored, Loses
    <3>2. m # n => Stays(n)
      BY <2>3 DEF NotStored, Stays
    <3> QED BY <2>1, <3>1, <3>2 DEF Effect
  <2>4. CASE Accepted(m, g.block)
    <3>1. m = n => Stores(n, g.block)
      BY <2>4 DEF Accepted, Stores
    <3>2. m # n => Stays(n)
      BY <2>4 DEF Accepted, Stays
    <3> QED BY <2>1, <3>1, <3>2 DEF Effect
  <2> QED BY <1>4, <2>2, <2>3, <2>4 DEF HandleBlock
<1>5. CASE UNCHANGED vars
  BY <1>5 DEF vars, Effect, Stays
<1>7. \A m \in Nodes : Own[m] \subseteq Blocks
  BY RelayAssumption
<1> QED BY <1>1, <1>2, <1>3, <1>4, <1>5, <1>6, <1>7 DEF Next

-----------------------------------------------------------------------------
LEMMA TypeNext ==
    ASSUME TypeInv, [Next]_vars
    PROVE  TypeInv'
<1> USE DEF TypeInv
<1>1. ASSUME NEW n \in Nodes, NEW b \in Blocks, OnLocalBlock(n, b)
      PROVE  TypeInv'
  <2>1. Append(queue[n], b) \in Seq(Blocks)
    BY AppendProperties
  <2>2. queue' \in [Nodes -> Seq(Blocks)]
    <3>1. queue' = queue \/ queue' = [queue EXCEPT ![n] = Append(queue[n], b)]
      BY <1>1 DEF OnLocalBlock
    <3> QED BY <2>1, <3>1
  <2>3. local' \in [Nodes -> SUBSET Blocks]
    <3>1. local' = [local EXCEPT ![n] = local[n] \cup {b}]
      BY <1>1 DEF OnLocalBlock
    <3> QED BY <3>1
  <2> QED BY <1>1, <2>2, <2>3 DEF OnLocalBlock
<1>9. ASSUME NEW n \in Nodes, NEW b \in Blocks, AddOwnBlock(n, b)
      PROVE  TypeInv'
  <2>1. Append(ledger[n], b) \in Seq(Blocks) /\ Append(stored[n], b) \in Seq(Blocks)
    BY AppendProperties
  <2>2. ledger' \in [Nodes -> Seq(Blocks)] /\ stored' \in [Nodes -> Seq(Blocks)]
    <3>1. /\ ledger' = [ledger EXCEPT ![n] = Append(ledger[n], b)]
          /\ stored' = stored \/ stored' = [stored EXCEPT ![n] = Append(stored[n], b)]
      BY <1>9 DEF AddOwnBlock
    <3> QED BY <2>1, <3>1
  <2>3. intact' \in [Nodes -> BOOLEAN]
    BY <1>9 DEF AddOwnBlock
  <2> QED BY <1>9, <2>2, <2>3 DEF AddOwnBlock
<1>2. ASSUME NEW n \in Nodes, Announce(n)
      PROVE  TypeInv'
  <2> DEFINE k == Fewer(MaxInv, Len(queue[n]))
             sent == {Inv(n, p, SubSeq(queue[n], 1, k)) : p \in Peers[n]}
  <2>1. k \in 0 .. Len(queue[n])
    BY RelayAssumption, LenProperties DEF Fewer
  <2>2. SubSeq(queue[n], 1, k) \in Seq(Blocks)
    BY <2>1, RangeOfSubSeq
  <2>3. sent \subseteq Messages
    <3>1. ASSUME NEW p \in Nodes
          PROVE  Inv(n, p, SubSeq(queue[n], 1, k)) \in Messages
      BY <2>2 DEF Inv, Messages
    <3>2. Peers[n] \subseteq Nodes
      BY RelayAssumption
    <3> QED BY <3>1, <3>2
  <2> QED BY <1>2, <2>3 DEF Announce
<1>3. ASSUME NEW n \in Nodes, NEW m \in net, HandleInv(n, m)
      PROVE  TypeInv'
  <2>1. m.from \in Nodes /\ Wanted(n, m.hashes) \subseteq Blocks
    <3>1. m.from \in Nodes /\ m.hashes \in Seq(Blocks)
      BY <1>3 DEF HandleInv, Messages
    <3>2. \A i \in DOMAIN m.hashes : m.hashes[i] \in Blocks
      BY <3>1
    <3> QED BY <3>1, <3>2 DEF Wanted, Unknown
  <2> QED BY <1>3, <2>1 DEF HandleInv
<1>4. ASSUME NEW n \in Nodes, RequestBlocks(n)
      PROVE  TypeInv'
  <2>1. {GetBlock(n, r.peer, r.block) : r \in pending[n]} \subseteq Messages
    BY DEF GetBlock, Messages
  <2> QED BY <1>4, <2>1 DEF RequestBlocks
<1>5. ASSUME NEW n \in Nodes, NEW m \in net, HandleGetBlock(n, m)
      PROVE  TypeInv'
  <2>1. m.from \in Nodes /\ m.block \in Blocks
    BY <1>5 DEF HandleGetBlock, Messages
  <2>2. BlockMessage(n, m.from, m.block) \in Messages
    BY <2>1 DEF BlockMessage, Messages
  <2> QED BY <1>5, <2>2 DEF HandleGetBlock
<1>6. ASSUME NEW n \in Nodes, NEW m \in net, HandleBlock(n, m)
      PROVE  TypeInv'
  <2>1. m.block \in Blocks
    BY <1>6 DEF HandleBlock, Messages
  <2>2. RequestDone(n, m.block) \in [Nodes -> SUBSET [block : Blocks, peer : Nodes]]
    BY DEF RequestDone
  <2>3. \A s \in Seq(Blocks) : Append(s, m.block) \in Seq(Blocks)
    BY <2>1
  <2>4. CASE Duplicate(n, m.block) \/ Refused(n, m.block)
    BY <2>2, <2>4 DEF Duplicate, Refused
  <2>5. CASE NotStored(n, m.block)
    BY <2>2, <2>3, <2>5 DEF NotStored
  <2>6. CASE Accepted(n, m.block)
    BY <2>2, <2>3, <2>6 DEF Accepted
  <2> QED BY <1>6, <2>4, <2>5, <2>6 DEF HandleBlock
<1>7. ASSUME NEW n \in Nodes, Expire(n)
      PROVE  TypeInv'
  BY <1>7 DEF Expire
<1>8. CASE UNCHANGED vars
  BY <1>8 DEF vars
<1>10. \A n \in Nodes : Own[n] \subseteq Blocks
  BY RelayAssumption
<1> QED BY <1>1, <1>2, <1>3, <1>4, <1>5, <1>6, <1>7, <1>8, <1>9, <1>10 DEF Next

LEMMA ChainNext ==
    ASSUME TypeInv, ChainInv, [Next]_vars
    PROVE  ChainInv'
<1> SUFFICES ASSUME NEW n \in Nodes
             PROVE  Linked(n)' /\ Distinct(ledger'[n]) /\ Distinct(stored'[n]) /\ Follows(n)'
  BY DEF ChainInv
<1>1. /\ Linked(n) /\ Distinct(ledger[n]) /\ Distinct(stored[n]) /\ Follows(n)
      /\ ledger[n] \in Seq(Blocks) /\ stored[n] \in Seq(Blocks)
  BY DEF ChainInv, TypeInv
<1>2. CASE Stays(n)
  BY <1>1, <1>2 DEF Stays, Linked, Follows
<1>3. ASSUME NEW b \in Blocks, Stores(n, b) \/ Loses(n, b)
      PROVE  Linked(n)' /\ Distinct(ledger'[n]) /\ Distinct(stored'[n]) /\ Follows(n)'
  <2>1. Parent[b] = Tip(n) /\ ledger'[n] = Append(ledger[n], b)
    BY <1>3 DEF Stores, Loses
  <2>2. Linked(n)'
    BY <1>1, <2>1, LinkedAppend
  <2>3. b \notin Range(ledger[n]) /\ b \notin Range(stored[n])
    BY <1>1, <2>1, ExtensionIsNew DEF Follows
  <2>4. Distinct(ledger'[n])
    BY <1>1, <2>1, <2>3, DistinctAppend
  <2>5. Range(ledger'[n]) = Range(ledger[n]) \cup {b}
    BY <1>1, <2>1, RangeOfAppend
  <2>6. CASE Stores(n, b)
    <3>1. Distinct(stored'[n])
      BY <1>1, <2>3, <2>6, DistinctAppend DEF Stores
    <3>2. Range(stored'[n]) = Range(stored[n]) \cup {b}
      BY <1>1, <2>6, RangeOfAppend DEF Stores
    <3>3. Follows(n)'
      BY <1>1, <2>5, <2>6, <3>2 DEF Stores, Follows
    <3> QED BY <2>2, <2>4, <3>1, <3>3
  <2>7. CASE Loses(n, b)
    BY <1>1, <2>2, <2>4, <2>5, <2>7 DEF Loses, Follows
  <2> QED BY <1>3, <2>6, <2>7
<1>4. ASSUME NEW b \in Blocks, Names(n, b)
      PROVE  Linked(n)' /\ Distinct(ledger'[n]) /\ Distinct(stored'[n]) /\ Follows(n)'
  BY <1>1, <1>4 DEF Names, Linked, Follows
<1> QED BY <1>2, <1>3, <1>4, StepEffect DEF Effect

-----------------------------------------------------------------------------
(* What a node can serve, and what its callers have had announced.         *)
Promised(n) == Range(stored[n]) \cup local[n]

(* A store never loses a block, and what callers have named stays named.   *)
LEMMA PromisesGrow ==
    ASSUME TypeInv, [Next]_vars, NEW n \in Nodes
    PROVE  Promised(n) \subseteq Promised(n)'
<1>1. stored[n] \in Seq(Blocks)
  BY DEF TypeInv
<1>2. ASSUME NEW b \in Blocks, Stores(n, b)
      PROVE  Range(stored[n]) \subseteq Range(stored'[n])
  BY <1>1, <1>2, RangeOfAppend DEF Stores
<1>3. Range(stored[n]) \subseteq Range(stored'[n])
  BY <1>2, StepEffect DEF Effect, Stays, Loses, Names
<1>4. local[n] \subseteq local'[n]
  <2>1. ASSUME NEW m \in Nodes, NEW b \in Blocks, OnLocalBlock(m, b)
        PROVE  local[n] \subseteq local'[n]
    BY <2>1 DEF OnLocalBlock, TypeInv
  <2>2. \A m \in Nodes : Own[m] \subseteq Blocks
    BY RelayAssumption
  <2> QED BY <2>1, <2>2 DEF Next, vars, AddOwnBlock, Announce, RequestBlocks, Expire, HandleInv,
                           HandleGetBlock, HandleBlock, Duplicate, Refused, NotStored, Accepted
<1> QED BY <1>3, <1>4 DEF Promised

ServesQueue(n) == Range(queue[n]) \subseteq Promised(n)
ServesInv(m) == m.type = "INV" => Range(m.hashes) \subseteq Promised(m.from)
ServesRequest(r) == r.block \in Promised(r.peer)

LEMMA ServableParts ==
    Servable <=> /\ \A n \in Nodes : ServesQueue(n)
                 /\ \A m \in net : ServesInv(m)
                 /\ \A n \in Nodes : \A r \in pending[n] : ServesRequest(r)
BY DEF Servable, Promised, ServesQueue, ServesInv, ServesRequest

LEMMA ServableNext ==
    ASSUME TypeInv, Servable, [Next]_vars
    PROVE  Servable'
<1>1. ASSUME NEW n \in Nodes
      PROVE  ServesQueue(n)'
  <2>1. stored[n] \in Seq(Blocks) /\ queue[n] \in Seq(Blocks) /\ ServesQueue(n)
    BY ServableParts DEF TypeInv
  <2>2. CASE queue'[n] = queue[n]
    BY <2>1, <2>2, PromisesGrow DEF ServesQueue
  <2>3. CASE queue'[n] = <<>>
    BY <2>3 DEF ServesQueue, Range
  <2>4. ASSUME NEW b \in Blocks, b \in Promised(n)', queue'[n] = Append(queue[n], b)
        PROVE  ServesQueue(n)'
    <3>1. Range(queue'[n]) = Range(queue[n]) \cup {b}
      BY <2>1, <2>4, RangeOfAppend
    <3> QED BY <2>1, <2>4, <3>1, PromisesGrow DEF ServesQueue
  <2>5. ASSUME NEW b \in Blocks, Stores(n, b)
        PROVE  b \in Promised(n)'
    BY <2>1, <2>5, RangeOfAppend DEF Stores, Promised
  <2>6. ASSUME NEW b \in Blocks, Names(n, b)
        PROVE  b \in Promised(n)'
    BY <2>6 DEF Names, Promised
  <2> QED BY <2>2, <2>3, <2>4, <2>5, <2>6, StepEffect DEF Effect, Stays, Stores, Loses, Names
<1>2. ASSUME NEW m \in net'
      PROVE  ServesInv(m)'
  <2>1. CASE m \in net
    <3>1. m.type = "INV" => m.from \in Nodes
      BY <2>1 DEF TypeInv, Messages
    <3> QED BY <2>1, <3>1, PromisesGrow, ServableParts DEF ServesInv
  <2>2. CASE m \notin net /\ m.type = "INV"
    <3>1. PICK n \in Nodes : Announce(n)
      BY <2>2 DEF Next, vars, OnLocalBlock, AddOwnBlock, HandleInv, RequestBlocks, HandleGetBlock,
                  HandleBlock, Duplicate, Refused, NotStored, Accepted, Expire,
                  GetBlock, BlockMessage
    <3> DEFINE k == Fewer(MaxInv, Len(queue[n]))
    <3>2. queue[n] \in Seq(Blocks) /\ k \in 0 .. Len(queue[n])
      BY RelayAssumption, LenProperties DEF TypeInv, Fewer
    <3>3. m.from = n /\ m.hashes = SubSeq(queue[n], 1, k)
      BY <2>2, <3>1 DEF Announce, Inv
    <3>4. Range(m.hashes) \subseteq Range(queue[n])
      BY <3>2, <3>3, RangeOfSubSeq
    <3>5. Range(queue[n]) \subseteq Promised(n) /\ Promised(n) \subseteq Promised(n)'
      BY PromisesGrow, ServableParts DEF ServesQueue
    <3> QED BY <3>3, <3>4, <3>5 DEF ServesInv
  <2> QED BY <2>1, <2>2 DEF ServesInv
<1>3. ASSUME NEW n \in Nodes, NEW r \in pending'[n]
      PROVE  ServesRequest(r)'
  <2>1. CASE r \in pending[n]
    <3>1. r.peer \in Nodes /\ ServesRequest(r)
      BY <2>1, ServableParts DEF TypeInv
    <3> QED BY <3>1, PromisesGrow DEF ServesRequest
  <2>2. CASE r \notin pending[n]
    <3>1. PICK m \in net : HandleInv(n, m)
      <4>1. \A p \in Nodes, b \in Blocks : RequestDone(p, b)[n] \subseteq pending[n]
        BY DEF TypeInv, RequestDone
      <4>2. ASSUME NEW p \in Nodes, NEW m \in net, HandleBlock(p, m)
            PROVE  FALSE
        <5>1. m.block \in Blocks
          BY <4>2 DEF TypeInv, HandleBlock, Messages
        <5>2. pending' = RequestDone(p, m.block)
          BY <4>2 DEF HandleBlock, Duplicate, Refused, NotStored, Accepted
        <5> QED BY <2>2, <4>1, <5>1, <5>2
      <4>3. pending' # pending
        BY <2>2
      <4>4. PICK p \in Nodes, m \in net : HandleInv(p, m)
        BY <4>2, <4>3 DEF Next, vars, OnLocalBlock, AddOwnBlock, Announce, RequestBlocks,
                          HandleGetBlock, Expire
      <4>5. p = n
        BY <2>2, <4>4 DEF TypeInv, HandleInv
      <4> QED BY <4>4, <4>5
    <3>2. r.peer = m.from /\ r.block \in Wanted(n, m.hashes)
      BY <2>2, <3>1 DEF TypeInv, HandleInv
    <3>3. Wanted(n, m.hashes) \subseteq Range(m.hashes)
      BY DEF Wanted, Unknown, Range
    <3>4. m.type = "INV" /\ m.from \in Nodes
      BY <3>1 DEF TypeInv, HandleInv, Messages
    <3>5. Range(m.hashes) \subseteq Promised(m.from) /\ Promised(m.from) \subseteq Promised(m.from)'
      BY <3>1, <3>4, PromisesGrow, ServableParts DEF ServesInv
    <3> QED BY <3>2, <3>3, <3>5 DEF ServesRequest
  <2> QED BY <2>1, <2>2
<1> QED BY <1>1, <1>2, <1>3 DEF Servable, Promised, ServesQueue, ServesInv, ServesRequest

-----------------------------------------------------------------------------
LEMMA Invariance == Spec => []IInv
<1>1. Init => IInv
  BY DEF Init, IInv, TypeInv, ChainInv, Servable, Linked, Distinct, Follows, Range, Messages
<1>2. IInv /\ [Next]_vars => IInv'
  BY TypeNext, ChainNext, ServableNext DEF IInv
<1> QED BY <1>1, <1>2, PTL DEF Spec

(* For any network: what a node announces, or is asked for because of it,  *)
(* is in its store, or is a block one of its callers named.                *)
THEOREM AlwaysServable == Spec => []Servable
<1>1. IInv => Servable
  BY DEF IInv
<1> QED BY <1>1, Invariance, PTL

(* No store repeats a block, and without a storage error it holds what the *)
(* ledger holds.                                                           *)
THEOREM AlwaysStoredAsTaken == Spec => []StoredAsTaken
<1>1. IInv => StoredAsTaken
  BY DEF IInv, ChainInv, Distinct, Follows, StoredAsTaken
<1> QED BY <1>1, Invariance, PTL

(* Messages have a block announced by the step that stores it and by no    *)
(* other; what is announced again has been named again by a caller.        *)
THEOREM AlwaysRelayedOnce == Spec => RelayedOnce
<1> DEFINE Once == \A n \in Nodes, b \in Blocks :
                       b \in Range(queue'[n]) \ Range(queue[n]) =>
                           \/ b \in Range(stored'[n]) \ Range(stored[n])
                           \/ OnLocalBlock(n, b)
<1>1. ASSUME IInv, [Next]_vars
      PROVE  Once
  <2> SUFFICES ASSUME NEW n \in Nodes, NEW b \in Blocks,
                      b \in Range(queue'[n]) \ Range(queue[n])
               PROVE  \/ b \in Range(stored'[n]) \ Range(stored[n])
                      \/ OnLocalBlock(n, b)
    OBVIOUS
  <2>1. /\ stored[n] \in Seq(Blocks) /\ queue[n] \in Seq(Blocks)
        /\ TypeInv /\ Linked(n) /\ Distinct(ledger[n]) /\ Follows(n)
    BY <1>1 DEF IInv, TypeInv, ChainInv
  <2>2. queue'[n] # queue[n] /\ queue'[n] # <<>>
    BY DEF Range
  <2>3. PICK c \in Blocks : /\ Stores(n, c) \/ Names(n, c)
                            /\ queue'[n] = Append(queue[n], c)
    BY <1>1, <2>1, <2>2, StepEffect DEF Effect, Stays, Stores, Loses, Names
  <2>4. b = c
    BY <2>1, <2>3, RangeOfAppend
  <2>5. CASE Names(n, c)
    BY <2>4, <2>5 DEF Names
  <2>6. CASE Stores(n, c)
    <3>1. b \notin Range(stored[n])
      BY <2>1, <2>4, <2>6, ExtensionIsNew DEF Stores, Follows
    <3>2. b \in Range(stored'[n])
      BY <2>1, <2>4, <2>6, RangeOfAppend DEF Stores
    <3> QED BY <3>1, <3>2
  <2> QED BY <2>3, <2>5, <2>6
<1>2. IInv /\ [Next]_vars => [Once]_vars
  BY <1>1
<1> QED BY <1>2, Invariance, PTL DEF RelayedOnce, Spec

-----------------------------------------------------------------------------
(* The image of a finite set has not more elements than the set.           *)
LEMMA ImageCount ==
    ASSUME NEW S, IsFiniteSet(S), NEW f
    PROVE  /\ IsFiniteSet({f[x] : x \in S})
           /\ Cardinality({f[x] : x \in S}) <= Cardinality(S)
<1> DEFINE T == {f[x] : x \in S}
           g == [x \in S |-> f[x]]
<1>1. g \in Surjection(S, T)
  BY DEF Surjection
<1> HIDE DEF g, T
<1>2. IsFiniteSet(T) /\ Cardinality(T) <= Cardinality(S)
  BY <1>1, FS_Surjection
<1> QED BY <1>2 DEF T

(* A set of numbers up to a bound that is not empty has a greatest one.    *)
LEMMA GreatestOf ==
    ASSUME NEW n \in Nat, NEW S \in SUBSET (1 .. n), S # {}
    PROVE  \E m \in S : \A k \in S : k <= m
<1> DEFINE Below == {i \in Nat : n - i \in S}
<1>1. Below # {} /\ Below \subseteq Nat
  <2>1. PICK m \in S : TRUE
    OBVIOUS
  <2>2. n - m \in Nat /\ n - (n - m) = m
    OBVIOUS
  <2> QED BY <2>1, <2>2
<1>2. PICK i \in Below : \A j \in Below : ~(<<j, i>> \in OpToRel(<, Nat))
  <2> HIDE DEF Below
  <2> QED BY <1>1, NatLessThanWellFounded, WFMin
<1>3. ASSUME NEW k \in S PROVE k <= n - i
  <2>1. n - k \in Nat /\ n - (n - k) = k /\ k \in Int
    OBVIOUS
  <2>2. n - k \in Below /\ i \in Nat
    BY <2>1
  <2>3. ~(n - k < i)
    <3> HIDE DEF Below
    <3> QED BY <1>2, <2>1, <2>2 DEF OpToRel
  <2> QED BY <2>1, <2>2, <2>3
<1>4. n - i \in S
  OBVIOUS
<1> HIDE DEF Below
<1> QED BY <1>3, <1>4

(* Of the unknown hashes, handle_inv wants no more than there is room for: *)
(* the last one it wants has fewer than that before it.                    *)
LEMMA WantedFits ==
    ASSUME NEW n \in Nodes, NEW hashes \in Seq(Blocks), IsFiniteSet(pending[n]),
           Cardinality(pending[n]) <= MaxPending
    PROVE  /\ IsFiniteSet(Wanted(n, hashes))
           /\ Cardinality(Wanted(n, hashes)) + Cardinality(pending[n]) <= MaxPending
<1> DEFINE U == Unknown(n, hashes)
           Before(j) == {hashes[k] : k \in {l \in U : l < j}}
           J == {j \in U : Cardinality(Before(j)) + Cardinality(pending[n]) < MaxPending}
           W == Wanted(n, hashes)
<1>1. /\ MaxPending \in Nat /\ Cardinality(pending[n]) \in Nat
      /\ Len(hashes) \in Nat /\ DOMAIN hashes = 1 .. Len(hashes)
  BY RelayAssumption, FS_CardinalityType, LenProperties
<1>2. U \in SUBSET (1 .. Len(hashes)) /\ J \in SUBSET U
  BY <1>1 DEF Unknown
<1>3. W = {hashes[i] : i \in J}
  BY DEF Wanted
<1> HIDE DEF U, W
<1>4. CASE J = {}
  <2>1. W = {}
    BY <1>3, <1>4
  <2> HIDE DEF J
  <2>2. IsFiniteSet(W) /\ Cardinality(W) = 0
    BY <2>1, FS_EmptySet
  <2> QED BY <1>1, <2>2 DEF W
<1>5. CASE J # {}
  <2>1. PICK m \in J : \A k \in J : k <= m
    <3> HIDE DEF J
    <3>1. J \in SUBSET (1 .. Len(hashes))
      BY <1>2
    <3> QED BY <1>1, <1>5, <3>1, GreatestOf
  <2>2. m \in U /\ m \in Int
    BY <1>1, <1>2
  <2>3. Cardinality(Before(m)) + Cardinality(pending[n]) < MaxPending
    OBVIOUS
  <2>4. IsFiniteSet(Before(m)) /\ Cardinality(Before(m)) \in Nat
    <3> DEFINE L == {l \in U : l < m}
    <3>1. IsFiniteSet(1 .. Len(hashes))
      BY <1>1, FS_Interval
    <3>2. IsFiniteSet(L)
      <4>1. L \subseteq 1 .. Len(hashes)
        BY <1>2
      <4> HIDE DEF L
      <4> QED BY <3>1, <4>1, FS_Subset
    <3> HIDE DEF L
    <3>3. IsFiniteSet({hashes[k] : k \in L})
      BY <3>2, ImageCount
    <3> QED BY <3>3, FS_CardinalityType DEF L
  <2>5. W \subseteq Before(m) \cup {hashes[m]}
    <3>1. ASSUME NEW k \in J PROVE hashes[k] \in Before(m) \cup {hashes[m]}
      <4>1. k \in U /\ k \in Int /\ k <= m
        BY <1>1, <1>2, <2>1
      <4> QED BY <2>2, <4>1
    <3> HIDE DEF J, Before
    <3> QED BY <1>3, <3>1
  <2> HIDE DEF J, Before
  <2> DEFINE V == Before(m) \cup {hashes[m]}
  <2>6. IsFiniteSet(V) /\ Cardinality(V) <= Cardinality(Before(m)) + 1
    <3>1. /\ IsFiniteSet(Before(m) \cup {hashes[m]})
          /\ Cardinality(Before(m) \cup {hashes[m]})
               = IF hashes[m] \in Before(m) THEN Cardinality(Before(m))
                                            ELSE Cardinality(Before(m)) + 1
      BY <2>4, FS_AddElement
    <3> QED BY <2>4, <3>1
  <2> HIDE DEF V
  <2>7. IsFiniteSet(W) /\ Cardinality(W) <= Cardinality(V)
    BY <2>5, <2>6, FS_Subset DEF V
  <2>8. Cardinality(W) \in Nat /\ Cardinality(V) \in Nat
    BY <2>6, <2>7, FS_CardinalityType
  <2> QED BY <1>1, <2>3, <2>4, <2>6, <2>7, <2>8 DEF W
<1> QED BY <1>4, <1>5

(* The limits of the requests and of the seen cache.                       *)
LimitInv ==
    /\ seen \in [Nodes -> Seq(Blocks)]
    /\ \A n \in Nodes :
          /\ Len(seen[n]) <= MaxSeen
          /\ IsFiniteSet(pending[n])
          /\ Cardinality(pending[n]) <= MaxPending

(* What a step does to the requests and to the seen cache of a node.       *)
Remembers(n) ==
    \/ seen'[n] = seen[n]
    \/ \E b \in Blocks : seen'[n] = Remember(n, b)
    \/ seen[n] # <<>> /\ seen'[n] = Tail(seen[n])

Requests(n) ==
    \/ pending'[n] \subseteq pending[n]
    \/ \E from \in Nodes, hashes \in Seq(Blocks) :
          pending'[n] = pending[n] \cup {[block |-> b, peer |-> from] : b \in Wanted(n, hashes)}

LEMMA StepLimits ==
    ASSUME TypeInv, LimitInv, [Next]_vars
    PROVE  /\ DOMAIN seen' = Nodes /\ seen' = [n \in Nodes |-> seen'[n]]
           /\ \A n \in Nodes : Remembers(n) /\ Requests(n)
<1> USE DEF TypeInv, LimitInv
<1>1. ASSUME NEW m \in Nodes, NEW b \in Blocks,
             seen' = seen \/ seen' = [seen EXCEPT ![m] = Remember(m, b)]
                          \/ (seen[m] # <<>> /\ seen' = [seen EXCEPT ![m] = Tail(@)])
      PROVE  /\ DOMAIN seen' = Nodes /\ seen' = [n \in Nodes |-> seen'[n]]
             /\ \A n \in Nodes : Remembers(n)
  BY <1>1 DEF Remembers
<1>2. ASSUME NEW m \in Nodes, NEW b \in Blocks,
             pending' = pending \/ pending' = RequestDone(m, b)
      PROVE  \A n \in Nodes : Requests(n)
  BY <1>2 DEF Requests, RequestDone
<1>3. ASSUME NEW m \in Nodes, NEW b \in Blocks, OnLocalBlock(m, b)
      PROVE  /\ DOMAIN seen' = Nodes /\ seen' = [n \in Nodes |-> seen'[n]]
             /\ \A n \in Nodes : Remembers(n) /\ Requests(n)
  <2>1. pending' = pending /\ (seen' = seen \/ seen' = [seen EXCEPT ![m] = Remember(m, b)])
    BY <1>3 DEF OnLocalBlock
  <2> QED BY <1>1, <1>2, <2>1
<1>10. ASSUME NEW m \in Nodes, NEW b \in Blocks, AddOwnBlock(m, b)
       PROVE  /\ DOMAIN seen' = Nodes /\ seen' = [n \in Nodes |-> seen'[n]]
              /\ \A n \in Nodes : Remembers(n) /\ Requests(n)
  BY <1>10 DEF AddOwnBlock, Remembers, Requests
<1>4. ASSUME NEW m \in Nodes, Announce(m) \/ RequestBlocks(m)
      PROVE  /\ DOMAIN seen' = Nodes /\ seen' = [n \in Nodes |-> seen'[n]]
             /\ \A n \in Nodes : Remembers(n) /\ Requests(n)
  BY <1>4 DEF Announce, RequestBlocks, Remembers, Requests
<1>5. ASSUME NEW m \in Nodes, Expire(m)
      PROVE  /\ DOMAIN seen' = Nodes /\ seen' = [n \in Nodes |-> seen'[n]]
             /\ \A n \in Nodes : Remembers(n) /\ Requests(n)
  BY <1>5 DEF Expire, Remembers, Requests
<1>6. ASSUME NEW m \in Nodes, NEW g \in net, HandleInv(m, g)
      PROVE  /\ DOMAIN seen' = Nodes /\ seen' = [n \in Nodes |-> seen'[n]]
             /\ \A n \in Nodes : Remembers(n) /\ Requests(n)
  <2>1. g.from \in Nodes /\ g.hashes \in Seq(Blocks)
    BY <1>6 DEF HandleInv, Messages
  <2>2. /\ seen' = seen
        /\ pending' = [pending EXCEPT ![m] =
              @ \cup {[block |-> b, peer |-> g.from] : b \in Wanted(m, g.hashes)}]
    BY <1>6 DEF HandleInv
  <2> QED BY <2>1, <2>2 DEF Remembers, Requests
<1>7. ASSUME NEW m \in Nodes, NEW g \in net, HandleGetBlock(m, g)
      PROVE  /\ DOMAIN seen' = Nodes /\ seen' = [n \in Nodes |-> seen'[n]]
             /\ \A n \in Nodes : Remembers(n) /\ Requests(n)
  BY <1>7 DEF HandleGetBlock, Remembers, Requests
<1>8. ASSUME NEW m \in Nodes, NEW g \in net, HandleBlock(m, g)
      PROVE  /\ DOMAIN seen' = Nodes /\ seen' = [n \in Nodes |-> seen'[n]]
             /\ \A n \in Nodes : Remembers(n) /\ Requests(n)
  <2>1. g.block \in Blocks
    BY <1>8 DEF HandleBlock, Messages
  <2>2. /\ pending' = RequestDone(m, g.block)
        /\ seen' = seen \/ seen' = [seen EXCEPT ![m] = Remember(m, g.block)]
    BY <1>8 DEF HandleBlock, Duplicate, Refused, NotStored, Accepted
  <2> QED BY <1>1, <1>2, <2>1, <2>2
<1>9. CASE UNCHANGED vars
  BY <1>9 DEF vars, Remembers, Requests
<1>11. \A m \in Nodes : Own[m] \subseteq Blocks
  BY RelayAssumption
<1> QED BY <1>3, <1>4, <1>5, <1>6, <1>7, <1>8, <1>9, <1>10, <1>11 DEF Next

LEMMA LimitNext ==
    ASSUME TypeInv, LimitInv, [Next]_vars
    PROVE  LimitInv'
<1>1. ASSUME NEW n \in Nodes PROVE seen'[n] \in Seq(Blocks) /\ Len(seen'[n]) <= MaxSeen
  <2>1. seen[n] \in Seq(Blocks) /\ Len(seen[n]) \in Nat /\ Len(seen[n]) <= MaxSeen
    BY LenProperties DEF LimitInv
  <2>2. MaxSeen \in Nat /\ MaxSeen >= 1
    BY RelayAssumption
  <2>3. seen[n] # <<>> => Tail(seen[n]) \in Seq(Blocks) /\ Len(Tail(seen[n])) = Len(seen[n]) - 1
    BY <2>1, HeadTailProperties
  <2>4. ASSUME NEW b \in Blocks
        PROVE  Remember(n, b) \in Seq(Blocks) /\ Len(Remember(n, b)) <= MaxSeen
    <3>1. CASE Seen(n, b)
      BY <2>1, <3>1 DEF Remember
    <3>2. CASE ~Seen(n, b) /\ Len(seen[n]) >= MaxSeen
      <4>1. seen[n] # <<>>
        BY <2>1, <2>2, <3>2
      <4>2. Remember(n, b) = Append(Tail(seen[n]), b)
        BY <3>2 DEF Remember
      <4>3. /\ Append(Tail(seen[n]), b) \in Seq(Blocks)
            /\ Len(Append(Tail(seen[n]), b)) = Len(seen[n]) - 1 + 1
        BY <2>3, <4>1, AppendProperties
      <4> QED BY <2>1, <4>2, <4>3
    <3>3. CASE ~Seen(n, b) /\ ~(Len(seen[n]) >= MaxSeen)
      <4>1. Remember(n, b) = Append(seen[n], b)
        BY <3>3 DEF Remember
      <4>2. /\ Append(seen[n], b) \in Seq(Blocks)
            /\ Len(Append(seen[n], b)) = Len(seen[n]) + 1
        BY <2>1, AppendProperties
      <4> QED BY <2>1, <2>2, <3>3, <4>1, <4>2
    <3> QED BY <3>1, <3>2, <3>3
  <2>5. seen[n] # <<>> /\ seen'[n] = Tail(seen[n]) =>
            seen'[n] \in Seq(Blocks) /\ Len(seen'[n]) <= MaxSeen
    BY <2>1, <2>2, <2>3
  <2>6. Remembers(n)
    BY StepLimits
  <2> QED BY <2>1, <2>4, <2>5, <2>6 DEF Remembers
<1>2. ASSUME NEW n \in Nodes
      PROVE  IsFiniteSet(pending'[n]) /\ Cardinality(pending'[n]) <= MaxPending
  <2>1. /\ IsFiniteSet(pending[n]) /\ Cardinality(pending[n]) <= MaxPending
        /\ MaxPending \in Nat /\ Cardinality(pending[n]) \in Nat
    BY RelayAssumption, FS_CardinalityType DEF LimitInv
  <2>2. CASE pending'[n] \subseteq pending[n]
    <3>1. /\ IsFiniteSet(pending'[n]) /\ Cardinality(pending'[n]) <= Cardinality(pending[n])
      BY <2>1, <2>2, FS_Subset
    <3>2. Cardinality(pending'[n]) \in Nat
      BY <3>1, FS_CardinalityType
    <3> QED BY <2>1, <3>1, <3>2
  <2>3. ASSUME NEW from \in Nodes, NEW hashes \in Seq(Blocks),
               pending'[n] = pending[n] \cup
                   {[block |-> b, peer |-> from] : b \in Wanted(n, hashes)}
        PROVE  IsFiniteSet(pending'[n]) /\ Cardinality(pending'[n]) <= MaxPending
    <3> DEFINE W == Wanted(n, hashes)
               f == [b \in W |-> [block |-> b, peer |-> from]]
               R == {f[b] : b \in W}
    <3>1. /\ IsFiniteSet(W) /\ Cardinality(W) + Cardinality(pending[n]) <= MaxPending
          /\ Cardinality(W) \in Nat
      <4>1. IsFiniteSet(W) /\ Cardinality(W) + Cardinality(pending[n]) <= MaxPending
        BY <2>1, WantedFits
      <4> QED BY <4>1, FS_CardinalityType
    <3> HIDE DEF W
    <3>2. pending'[n] = pending[n] \cup R
      BY <2>3 DEF W
    <3> HIDE DEF f
    <3>3. IsFiniteSet(R) /\ Cardinality(R) <= Cardinality(W)
      BY <3>1, ImageCount
    <3> HIDE DEF R
    <3>4. /\ IsFiniteSet(pending[n] \cup R)
          /\ Cardinality(pending[n] \cup R)
               = Cardinality(pending[n]) + Cardinality(R) - Cardinality(pending[n] \cap R)
      BY <2>1, <3>3, FS_Union
    <3>5. /\ Cardinality(R) \in Nat /\ Cardinality(pending[n] \cap R) \in Nat
      BY <2>1, <3>3, FS_Intersection, FS_CardinalityType
    <3> QED BY <2>1, <3>1, <3>2, <3>3, <3>4, <3>5
  <2>4. Requests(n)
    BY StepLimits
  <2> QED BY <2>2, <2>3, <2>4 DEF Requests
<1>3. seen' \in [Nodes -> Seq(Blocks)]
  <2>1. seen' = [n \in Nodes |-> seen'[n]]
    BY StepLimits
  <2> QED BY <1>1, <2>1
<1> QED BY <1>1, <1>2, <1>3 DEF LimitInv

(* No more requests than max_get_block_burst are pending, however many     *)
(* hashes an INV carries and whichever blocks arrive, and the seen cache   *)
(* does not outgrow its size.                                              *)
THEOREM WithinLimits == Spec => []TypeOK
<1>1. Init => LimitInv
  <2> SUFFICES ASSUME Init PROVE LimitInv
    OBVIOUS
  <2>1. /\ seen = [n \in Nodes |-> <<>>] /\ pending = [n \in Nodes |-> {}]
        /\ <<>> \in Seq(Blocks) /\ Len(<<>>) = 0
    BY EmptySeq DEF Init
  <2>2. IsFiniteSet({}) /\ Cardinality({}) = 0
    BY FS_EmptySet
  <2>3. 0 <= MaxSeen /\ 0 <= MaxPending
    BY RelayAssumption
  <2> QED BY <2>1, <2>2, <2>3 DEF LimitInv
<1>2. IInv /\ LimitInv /\ [Next]_vars => LimitInv'
  BY LimitNext DEF IInv
<1>3. IInv /\ LimitInv => TypeOK
  <2> SUFFICES ASSUME TypeInv, LimitInv, NEW n \in Nodes
               PROVE  /\ \A s \in {ledger[n], stored[n], seen[n], queue[n]} :
                              Range(s) \subseteq Blocks
                      /\ \A r \in pending[n] : r.block \in Blocks /\ r.peer \in Nodes
                      /\ Cardinality(pending[n]) <= MaxPending
                      /\ Len(seen[n]) <= MaxSeen
    BY DEF IInv, TypeOK
  <2>1. ASSUME NEW s \in Seq(Blocks) PROVE Range(s) \subseteq Blocks
    BY LenProperties DEF Range
  <2>2. \A s \in {ledger[n], stored[n], seen[n], queue[n]} : s \in Seq(Blocks)
    BY DEF TypeInv, LimitInv
  <2>3. \A r \in pending[n] : r.block \in Blocks /\ r.peer \in Nodes
    BY DEF TypeInv
  <2> QED BY <2>1, <2>2, <2>3 DEF LimitInv
<1> QED BY <1>1, <1>2, <1>3, Invariance, PTL DEF Spec

-----------------------------------------------------------------------------
(* Part 2: the peer table (PeerTable), for any number of peers, addresses, *)
(* sources and places, and any bootstrap lists.                            *)

PeerRecords ==
    [address : Addresses, source : Sources, score : 0 .. MaxScore,
     failures : 0 .. BanAfter, status : {"CANDIDATE", "ACTIVE", "FAILED", "BANNED"}]

(* What IndexMatches says, of any table, and that its records are typed.   *)
Indexed(t) ==
    /\ \A id \in DOMAIN t.records :
          LET address == t.records[id].address
          IN  address \in DOMAIN t.index /\ t.index[address] = id
    /\ \A address \in DOMAIN t.index :
          LET id == t.index[address]
          IN  id \in DOMAIN t.records /\ t.records[id].address = address

TableOK(t) ==
    /\ t = [records |-> t.records, index |-> t.index]
    /\ t.records \in [DOMAIN t.records -> PeerRecords]
    /\ IsFiniteSet(DOMAIN t.records) /\ Size(t) <= MaxEntries
    /\ Indexed(t)

LEMMA SizeNatural ==
    ASSUME NEW t, TableOK(t)
    PROVE  Size(t) \in Nat
BY FS_CardinalityType DEF TableOK, Size

LEMMA CandidateTyped ==
    ASSUME NEW offer \in Offers
    PROVE  Candidate(offer) \in PeerRecords /\ Candidate(offer).address = offer.address
<1>1. 0 \in 0 .. BanAfter
  BY PeerTableAssumption
<1>2. offer.score \in Scores /\ Scores \subseteq 0 .. MaxScore
  BY PeerTableAssumption DEF Offers
<1> QED
  BY <1>1, <1>2 DEF Candidate, PeerRecords, Offers

(* A record with a new id and a new address, where there is room.          *)
LEMMA InsertOK ==
    ASSUME NEW t, TableOK(t), NEW offer \in Offers, Size(t) < MaxEntries,
           offer.id \notin DOMAIN t.records, offer.address \notin DOMAIN t.index
    PROVE  TableOK(Insert(t, offer))
<1> DEFINE n == Insert(t, offer)
           new == Candidate(offer)
<1>1. /\ n = [records |-> n.records, index |-> n.index]
      /\ n.records = Put(t.records, offer.id, new)
      /\ n.index = Put(t.index, offer.address, offer.id)
  BY DEF Insert
<1>2. new \in PeerRecords /\ new.address = offer.address
  BY CandidateTyped
<1> HIDE DEF n, new
<1>3. /\ DOMAIN n.records = DOMAIN t.records \cup {offer.id}
      /\ n.records[offer.id] = new
      /\ \A id \in DOMAIN t.records : n.records[id] = t.records[id]
      /\ n.records \in [DOMAIN n.records -> PeerRecords]
  BY <1>1, <1>2 DEF Put, TableOK
<1>4. /\ DOMAIN n.index = DOMAIN t.index \cup {offer.address}
      /\ n.index[offer.address] = offer.id
      /\ \A address \in DOMAIN t.index : n.index[address] = t.index[address]
  BY <1>1 DEF Put
<1>5. IsFiniteSet(DOMAIN n.records) /\ Size(n) <= MaxEntries
  <2>1. Size(n) = Size(t) + 1 /\ IsFiniteSet(DOMAIN n.records)
    BY <1>3, FS_AddElement DEF TableOK, Size
  <2> QED
    BY <2>1, SizeNatural, PeerTableAssumption
<1>6. Indexed(n)
  BY <1>2, <1>3, <1>4 DEF TableOK, Indexed
<1> QED
  BY <1>1, <1>3, <1>5, <1>6 DEF TableOK, n

LEMMA WithoutOK ==
    ASSUME NEW t, TableOK(t), NEW id \in DOMAIN t.records
    PROVE  LET n == Without(t, id)
           IN  /\ TableOK(n) /\ Size(n) < Size(t)
               /\ DOMAIN n.records = DOMAIN t.records \ {id}
               /\ \A other \in DOMAIN n.records : n.records[other] = t.records[other]
               /\ DOMAIN n.index \subseteq DOMAIN t.index
<1> DEFINE n == Without(t, id)
<1>1. /\ n = [records |-> n.records, index |-> n.index]
      /\ n.records = Restrict(t.records, DOMAIN t.records \ {id})
      /\ n.index = Restrict(t.index, DOMAIN t.index \ {t.records[id].address})
  BY DEF Without
<1> HIDE DEF n
<1>2. /\ DOMAIN n.records = DOMAIN t.records \ {id}
      /\ \A other \in DOMAIN n.records : n.records[other] = t.records[other]
      /\ n.records \in [DOMAIN n.records -> PeerRecords]
  BY <1>1 DEF Restrict, TableOK
<1>3. /\ DOMAIN n.index = DOMAIN t.index \ {t.records[id].address}
      /\ \A address \in DOMAIN n.index : n.index[address] = t.index[address]
  BY <1>1 DEF Restrict
<1>4. IsFiniteSet(DOMAIN n.records) /\ Size(n) = Size(t) - 1
  BY <1>2, FS_RemoveElement DEF TableOK, Size
<1>5. Indexed(n)
  BY <1>2, <1>3 DEF TableOK, Indexed
<1>6. Size(n) <= MaxEntries /\ Size(n) < Size(t)
  BY <1>4, SizeNatural, PeerTableAssumption DEF TableOK
<1> QED
  BY <1>1, <1>2, <1>3, <1>4, <1>5, <1>6 DEF TableOK, n

(* A record is replaced by one of the same address.                        *)
LEMMA UpdateOK ==
    ASSUME NEW t, TableOK(t), NEW id \in DOMAIN t.records,
           NEW r \in PeerRecords, r.address = t.records[id].address,
           NEW n, n = [t EXCEPT !.records[id] = r]
    PROVE  /\ TableOK(n)
           /\ DOMAIN n.records = DOMAIN t.records
           /\ n.records[id] = r
           /\ \A other \in DOMAIN t.records : other # id => n.records[other] = t.records[other]
<1>1. n = [records |-> [t.records EXCEPT ![id] = r], index |-> t.index]
  <2>1. t = [records |-> t.records, index |-> t.index]
    BY DEF TableOK
  <2>2. ASSUME NEW f, NEW g
        PROVE  [[records |-> f, index |-> g] EXCEPT !.records[id] = r]
                   = [records |-> [f EXCEPT ![id] = r], index |-> g]
    OBVIOUS
  <2>3. [[records |-> t.records, index |-> t.index] EXCEPT !.records[id] = r]
            = [records |-> [t.records EXCEPT ![id] = r], index |-> t.index]
    BY <2>2
  <2> QED
    BY <2>1, <2>3
<1>2. /\ n = [records |-> n.records, index |-> n.index]
      /\ n.index = t.index /\ n.records = [t.records EXCEPT ![id] = r]
  BY <1>1
<1>3. /\ DOMAIN n.records = DOMAIN t.records
      /\ n.records[id] = r
      /\ \A other \in DOMAIN t.records : other # id => n.records[other] = t.records[other]
      /\ n.records \in [DOMAIN n.records -> PeerRecords]
  BY <1>2 DEF TableOK
<1>4. Indexed(n)
  BY <1>2, <1>3 DEF TableOK, Indexed
<1>5. IsFiniteSet(DOMAIN n.records) /\ Size(n) <= MaxEntries
  BY <1>3 DEF TableOK, Size
<1> QED
  BY <1>2, <1>3, <1>4, <1>5 DEF TableOK

LEMMA MergeOK ==
    ASSUME NEW t, TableOK(t), NEW id \in DOMAIN t.records, NEW offer \in Offers
    PROVE  LET n == Merge(t, id, offer)
           IN  /\ TableOK(n) /\ DOMAIN n.records = DOMAIN t.records
               /\ \A other \in DOMAIN t.records :
                     n.records[other].status = t.records[other].status
<1> DEFINE n == Merge(t, id, offer)
           old == t.records[id]
           r == [old EXCEPT !.score = Most(old.score, offer.score)]
<1>1. n = [t EXCEPT !.records[id] = r]
  BY DEF Merge
<1>2. old \in PeerRecords /\ offer.score \in 0 .. MaxScore
  <2>1. offer.score \in Scores /\ Scores \subseteq 0 .. MaxScore
    BY PeerTableAssumption DEF Offers
  <2> QED
    BY <2>1 DEF TableOK
<1> HIDE DEF n, old
<1>3. r \in PeerRecords /\ r.address = old.address /\ r.status = old.status
  <2>1. Most(old.score, offer.score) \in 0 .. MaxScore
    BY <1>2 DEF Most, PeerRecords
  <2> QED
    BY <1>2, <2>1 DEF PeerRecords
<1> HIDE DEF r
<1>4. /\ TableOK(n) /\ DOMAIN n.records = DOMAIN t.records /\ n.records[id] = r
      /\ \A other \in DOMAIN t.records : other # id => n.records[other] = t.records[other]
  BY <1>1, <1>3, UpdateOK DEF old
<1> QED
  BY <1>3, <1>4 DEF n, old

(* add leaves a table in order; what it removes is a banned record or a    *)
(* worse one of the same source, from a full table, and it lifts no ban;   *)
(* other steps may, those of the peers in lifted.                          *)
Kept(t, n, lifted) ==
    \A id \in DOMAIN t.records :
        LET r == t.records[id]
        IN  IF id \in DOMAIN n.records
            THEN IsBanned(r) => IsBanned(n.records[id]) \/ id \in lifted
            ELSE /\ Size(t) = MaxEntries
                 /\ \/ IsBanned(r)
                    \/ \E new \in DOMAIN n.records \ DOMAIN t.records :
                          /\ n.records[new].source = r.source
                          /\ n.records[new].score > r.score

LEMMA AddedOK ==
    ASSUME NEW t, TableOK(t), NEW offer \in Offers, NEW n \in Added(t, offer)
    PROVE  TableOK(n) /\ Kept(t, n, {})
<1>1. CASE offer.id \in DOMAIN t.records
  <2>1. n = Merge(t, offer.id, offer)
    BY <1>1 DEF Added
  <2> QED
    BY <1>1, <2>1, MergeOK DEF Kept, IsBanned
<1>2. CASE offer.id \notin DOMAIN t.records /\ offer.address \in DOMAIN t.index
  <2>1. n = Merge(t, t.index[offer.address], offer)
    BY <1>2 DEF Added
  <2>2. t.index[offer.address] \in DOMAIN t.records
    BY <1>2 DEF TableOK, Indexed
  <2> QED
    BY <2>1, <2>2, MergeOK DEF Kept, IsBanned
<1>3. ASSUME NEW u, offer.id \notin DOMAIN u.records
      PROVE  /\ Insert(u, offer).records[offer.id] = Candidate(offer)
             /\ DOMAIN Insert(u, offer).records = DOMAIN u.records \cup {offer.id}
             /\ \A id \in DOMAIN u.records : Insert(u, offer).records[id] = u.records[id]
  BY <1>3 DEF Insert, Put
<1>4. CASE /\ offer.id \notin DOMAIN t.records /\ offer.address \notin DOMAIN t.index
           /\ Size(t) < MaxEntries
  <2>1. n = Insert(t, offer)
    BY <1>4 DEF Added
  <2>2. TableOK(n)
    BY <1>4, <2>1, InsertOK
  <2> QED
    BY <1>3, <1>4, <2>1, <2>2 DEF Kept, IsBanned
<1>5. CASE /\ offer.id \notin DOMAIN t.records /\ offer.address \notin DOMAIN t.index
           /\ ~(Size(t) < MaxEntries)
  <2>1. PICK victim \in Victims(t, offer) : n = Insert(Without(t, victim), offer)
    BY <1>5 DEF Added
  <2> DEFINE rest == Without(t, victim)
             old == t.records[victim]
  <2>2. /\ victim \in DOMAIN t.records
        /\ IsBanned(old) \/ (old.source = offer.source /\ old.score < offer.score)
    BY DEF Victims, Evictable
  <2>3. /\ TableOK(rest) /\ Size(rest) < Size(t)
        /\ DOMAIN rest.records = DOMAIN t.records \ {victim}
        /\ \A other \in DOMAIN rest.records : rest.records[other] = t.records[other]
        /\ DOMAIN rest.index \subseteq DOMAIN t.index
    BY <2>2, WithoutOK
  <2> HIDE DEF rest
  <2>4. n = Insert(rest, offer)
    BY <2>1 DEF rest
  <2>5. Size(t) = MaxEntries /\ Size(rest) < MaxEntries
    <3>1. Size(t) \in Nat /\ Size(rest) \in Nat /\ MaxEntries \in Nat
      BY <2>3, SizeNatural, PeerTableAssumption
    <3>2. Size(t) <= MaxEntries
      BY DEF TableOK
    <3> QED
      BY <1>5, <2>3, <3>1, <3>2
  <2>6. offer.id \notin DOMAIN rest.records /\ offer.address \notin DOMAIN rest.index
    BY <1>5, <2>3
  <2>7. TableOK(n)
    BY <2>3, <2>4, <2>5, <2>6, InsertOK
  <2>8. /\ n.records[offer.id] = Candidate(offer)
        /\ DOMAIN n.records = (DOMAIN t.records \ {victim}) \cup {offer.id}
        /\ \A id \in DOMAIN t.records \ {victim} : n.records[id] = t.records[id]
    BY <1>3, <2>3, <2>4, <2>6
  <2>9. Candidate(offer).source = offer.source /\ Candidate(offer).score = offer.score
    BY DEF Candidate
  <2>10. offer.id \in DOMAIN n.records \ DOMAIN t.records /\ victim \notin DOMAIN n.records
    BY <1>5, <2>2, <2>8
  <2>11. ASSUME ~IsBanned(old)
         PROVE  n.records[offer.id].source = old.source /\ n.records[offer.id].score > old.score
    <3>1. old.score \in Int /\ offer.score \in Int
      <4>1. offer.score \in Scores /\ Scores \subseteq 0 .. MaxScore
        BY PeerTableAssumption DEF Offers
      <4> QED
        BY <2>2, <4>1 DEF TableOK, PeerRecords
    <3> QED
      BY <2>2, <2>8, <2>9, <2>11, <3>1
  <2> HIDE DEF old
  <2>12. ASSUME NEW id \in DOMAIN t.records, id # victim
         PROVE  id \in DOMAIN n.records /\ n.records[id] = t.records[id]
    BY <2>8, <2>12
  <2>13. Kept(t, n, {})
    BY <2>5, <2>10, <2>11, <2>12 DEF Kept, IsBanned, old
  <2> QED
    BY <2>7, <2>13
<1> QED
  BY <1>1, <1>2, <1>4, <1>5

-----------------------------------------------------------------------------
(* The recursive functions of the bootstrap and of the selection have the  *)
(* values their definitions say: one that did not would have a smallest    *)
(* bound for which there is no such function.                              *)
LEMMA LeastNatural ==
    ASSUME NEW S \in SUBSET Nat, S # {}
    PROVE  \E n \in S : \A m \in S : n <= m
<1>1. PICK n \in S : \A m \in S : ~(<<m, n>> \in OpToRel(<, Nat))
  BY NatLessThanWellFounded, WFMin
<1>2. \A m \in S : ~(m < n)
  BY <1>1 DEF OpToRel
<1>3. n \in Nat /\ \A m \in S : m \in Nat
  OBVIOUS
<1>4. \A m \in S : n <= m
  BY <1>2, <1>3
<1> QED
  BY <1>4

LoadStep(t, offers, n, f) ==
    f = [i \in 0 .. n |->
            IF i = 0 THEN {t} ELSE UNION {Added(l, offers[i]) : l \in f[i - 1]}]

LEMMA LoadStepExists ==
    ASSUME NEW t, NEW offers, NEW n \in Nat
    PROVE  \E f : LoadStep(t, offers, n, f)
<1> DEFINE Bad == {k \in Nat : ~\E f : LoadStep(t, offers, k, f)}
<1> SUFFICES ASSUME Bad # {} PROVE FALSE
  OBVIOUS
<1>1. PICK k \in Bad : \A j \in Bad : k <= j
  <2> HIDE DEF Bad
  <2>1. Bad \in SUBSET Nat
    BY DEF Bad
  <2> QED
    BY <2>1, LeastNatural
<1>2. k \in Nat /\ ~\E f : LoadStep(t, offers, k, f)
  OBVIOUS
<1>3. CASE k = 0
  <2>1. LoadStep(t, offers, k, [i \in 0 .. 0 |-> {t}])
    BY <1>3 DEF LoadStep
  <2> QED
    BY <1>2, <2>1
<1>4. CASE k # 0
  <2>1. k - 1 \in Nat /\ k - 1 \notin Bad
    BY <1>1, <1>2, <1>4
  <2>2. PICK g : LoadStep(t, offers, k - 1, g)
    BY <2>1
  <2> DEFINE f == [i \in 0 .. k |->
                      IF i = k THEN UNION {Added(l, offers[k]) : l \in g[k - 1]} ELSE g[i]]
  <2>3. ASSUME NEW i \in 0 .. k
        PROVE  f[i] = IF i = 0 THEN {t} ELSE UNION {Added(l, offers[i]) : l \in f[i - 1]}
    <3>1. CASE i = k
      <4>1. f[i - 1] = g[k - 1]
        BY <1>2, <1>4, <3>1
      <4> QED
        BY <1>4, <3>1, <4>1
    <3>2. CASE i # k
      <4>1. i \in 0 .. k - 1 /\ f[i] = g[i]
        BY <1>2, <3>2
      <4>2. i # 0 => f[i - 1] = g[i - 1]
        BY <1>2, <4>1
      <4>3. g[i] = IF i = 0 THEN {t} ELSE UNION {Added(l, offers[i]) : l \in g[i - 1]}
        BY <2>2, <4>1 DEF LoadStep
      <4> HIDE DEF f
      <4> QED
        BY <4>1, <4>2, <4>3
    <3> QED
      BY <3>1, <3>2
  <2>4. LoadStep(t, offers, k, f)
    BY <2>3 DEF LoadStep
  <2> QED
    BY <1>2, <2>4
<1> QED
  BY <1>3, <1>4

(* The records of one source leave the table in order.                     *)
LEMMA LoadedFromOK ==
    ASSUME NEW t, TableOK(t), NEW offers \in Seq(Offers), NEW n \in LoadedFrom(t, offers)
    PROVE  TableOK(n)
<1> DEFINE len == Len(offers)
           f == CHOOSE g : LoadStep(t, offers, len, g)
           Loaded == CHOOSE g : g = [i \in 0 .. len |->
               IF i = 0 THEN {t} ELSE UNION {Added(l, offers[i]) : l \in g[i - 1]}]
<1>1. len \in Nat /\ \A i \in 1 .. len : offers[i] \in Offers
  OBVIOUS
<1>2. LoadStep(t, offers, len, f)
  <2> HIDE DEF len
  <2> QED
    BY <1>1, LoadStepExists
<1>3. PICK i \in 0 .. len : n \in f[i]
  <2>1. f = Loaded
    BY DEF LoadStep
  <2>2. n \in UNION {{l \in f[i] : i = len \/ Added(l, offers[i + 1]) = {}} : i \in 0 .. len}
    BY <2>1 DEF LoadedFrom
  <2> HIDE DEF f, len
  <2> QED
    BY <2>2
<1> HIDE DEF f, Loaded, len
<1>4. ASSUME NEW i1 \in 0 .. len
      PROVE  f[i1] = IF i1 = 0 THEN {t} ELSE UNION {Added(l, offers[i1]) : l \in f[i1 - 1]}
  BY <1>2 DEF LoadStep
<1> DEFINE Bad == {j \in 0 .. len : \E m \in f[j] : ~TableOK(m)}
<1>5. Bad = {}
  <2> SUFFICES ASSUME Bad # {} PROVE FALSE
    OBVIOUS
  <2>1. PICK j \in Bad : \A h \in Bad : j <= h
    <3>1. Bad \in SUBSET Nat
      BY <1>1
    <3> HIDE DEF Bad
    <3> QED
      BY <3>1, LeastNatural
  <2>2. PICK m \in f[j] : ~TableOK(m)
    OBVIOUS
  <2>3. j \in 0 .. len /\ j # 0
    BY <1>1, <1>4, <2>2
  <2>4. PICK l \in f[j - 1] : m \in Added(l, offers[j])
    <3>1. f[j] = UNION {Added(l, offers[j]) : l \in f[j - 1]}
      BY <1>4, <2>3
    <3> QED
      BY <2>2, <3>1
  <2>5. j - 1 \in 0 .. len /\ j - 1 \notin Bad
    BY <1>1, <2>1, <2>3
  <2>6. TableOK(l)
    BY <2>4, <2>5
  <2> QED
    BY <1>1, <2>2, <2>3, <2>4, <2>6, AddedOK
<1> QED
  BY <1>3, <1>5

SourceStep(t, n, f) ==
    f = [i \in 0 .. n |->
            IF i = 0 THEN {t} ELSE UNION {LoadedFrom(l, Bootstrap[i]) : l \in f[i - 1]}]

LEMMA SourceStepExists ==
    ASSUME NEW t, NEW n \in Nat
    PROVE  \E f : SourceStep(t, n, f)
<1> DEFINE Bad == {k \in Nat : ~\E f : SourceStep(t, k, f)}
<1> SUFFICES ASSUME Bad # {} PROVE FALSE
  OBVIOUS
<1>1. PICK k \in Bad : \A j \in Bad : k <= j
  <2> HIDE DEF Bad
  <2>1. Bad \in SUBSET Nat
    BY DEF Bad
  <2> QED
    BY <2>1, LeastNatural
<1>2. k \in Nat /\ ~\E f : SourceStep(t, k, f)
  OBVIOUS
<1>3. CASE k = 0
  <2>1. SourceStep(t, k, [i \in 0 .. 0 |-> {t}])
    BY <1>3 DEF SourceStep
  <2> QED
    BY <1>2, <2>1
<1>4. CASE k # 0
  <2>1. k - 1 \in Nat /\ k - 1 \notin Bad
    BY <1>1, <1>2, <1>4
  <2>2. PICK g : SourceStep(t, k - 1, g)
    BY <2>1
  <2> DEFINE f == [i \in 0 .. k |->
                      IF i = k THEN UNION {LoadedFrom(l, Bootstrap[k]) : l \in g[k - 1]}
                      ELSE g[i]]
  <2>3. ASSUME NEW i \in 0 .. k
        PROVE  f[i] = IF i = 0 THEN {t}
                      ELSE UNION {LoadedFrom(l, Bootstrap[i]) : l \in f[i - 1]}
    <3>1. CASE i = k
      <4>1. f[i - 1] = g[k - 1]
        BY <1>2, <1>4, <3>1
      <4> QED
        BY <1>4, <3>1, <4>1
    <3>2. CASE i # k
      <4>1. i \in 0 .. k - 1 /\ f[i] = g[i]
        BY <1>2, <3>2
      <4>2. i # 0 => f[i - 1] = g[i - 1]
        BY <1>2, <4>1
      <4>3. g[i] = IF i = 0 THEN {t}
                   ELSE UNION {LoadedFrom(l, Bootstrap[i]) : l \in g[i - 1]}
        BY <2>2, <4>1 DEF SourceStep
      <4> HIDE DEF f
      <4> QED
        BY <4>1, <4>2, <4>3
    <3> QED
      BY <3>1, <3>2
  <2>4. SourceStep(t, k, f)
    BY <2>3 DEF SourceStep
  <2> QED
    BY <1>2, <2>4
<1> QED
  BY <1>3, <1>4

LEMMA LoadedSourcesOK ==
    ASSUME NEW t, TableOK(t), NEW n \in LoadedSources(t)[Len(Bootstrap)]
    PROVE  TableOK(n)
<1> DEFINE len == Len(Bootstrap)
           f == CHOOSE g : SourceStep(t, len, g)
<1>1. len \in Nat /\ \A i \in 1 .. len : Bootstrap[i] \in Seq(Offers)
  BY PeerTableAssumption
<1>2. SourceStep(t, len, f)
  <2> HIDE DEF len
  <2> QED
    BY <1>1, SourceStepExists
<1>3. LoadedSources(t) = f
  BY DEF LoadedSources, SourceStep
<1> HIDE DEF f, len
<1>4. ASSUME NEW i \in 0 .. len
      PROVE  f[i] = IF i = 0 THEN {t}
                    ELSE UNION {LoadedFrom(l, Bootstrap[i]) : l \in f[i - 1]}
  BY <1>2 DEF SourceStep
<1> DEFINE Bad == {j \in 0 .. len : \E m \in f[j] : ~TableOK(m)}
<1>5. Bad = {}
  <2> SUFFICES ASSUME Bad # {} PROVE FALSE
    OBVIOUS
  <2>1. PICK j \in Bad : \A h \in Bad : j <= h
    <3>1. Bad \in SUBSET Nat
      BY <1>1
    <3> HIDE DEF Bad
    <3> QED
      BY <3>1, LeastNatural
  <2>2. PICK m \in f[j] : ~TableOK(m)
    OBVIOUS
  <2>3. j \in 0 .. len /\ j # 0
    BY <1>1, <1>4, <2>2
  <2>4. PICK l \in f[j - 1] : m \in LoadedFrom(l, Bootstrap[j])
    <3>1. f[j] = UNION {LoadedFrom(l, Bootstrap[j]) : l \in f[j - 1]}
      BY <1>4, <2>3
    <3> QED
      BY <2>2, <3>1
  <2>5. j - 1 \in 0 .. len /\ j - 1 \notin Bad
    BY <1>1, <2>1, <2>3
  <2>6. TableOK(l)
    BY <2>4, <2>5
  <2> QED
    BY <1>1, <2>2, <2>3, <2>4, <2>6, LoadedFromOK
<1>6. n \in f[len] /\ len \in 0 .. len
  BY <1>1, <1>3 DEF len
<1> QED
  BY <1>5, <1>6

-----------------------------------------------------------------------------
LEMMA TableInitOK == TableInit => TableOK(table)
<1> SUFFICES ASSUME TableInit PROVE TableOK(table)
  OBVIOUS
<1>1. /\ table = [records |-> table.records, index |-> table.index]
      /\ DOMAIN table.records = {} /\ DOMAIN table.index = {}
      /\ table.records \in [DOMAIN table.records -> PeerRecords]
  BY DEF TableInit
<1> QED
  BY <1>1, FS_EmptySet, PeerTableAssumption DEF TableOK, Size, Indexed

(* Every step keeps the table in order, and one that is not a bootstrap    *)
(* keeps the records.                                                      *)
Succeeding == {id \in Ids : ReportSuccess(id)}

LEMMA TableStep ==
    ASSUME TableOK(table), TableNext
    PROVE  \E n : table' = n /\ TableOK(n) /\ (Kept(table, n, Succeeding) \/ LoadBootstrap)
<1> PICK n : n = table'
  OBVIOUS
<1> DEFINE old(id) == table.records[id]
<1>7. Kept(table, n, {}) => Kept(table, n, Succeeding)
  BY DEF Kept
<1>1. ASSUME NEW id \in DOMAIN table.records, NEW r \in PeerRecords,
             r.address = old(id).address,
             IsBanned(old(id)) => IsBanned(r) \/ id \in Succeeding,
             n = [table EXCEPT !.records[id] = r]
      PROVE  TableOK(n) /\ Kept(table, n, Succeeding)
  <2>1. /\ TableOK(n) /\ DOMAIN n.records = DOMAIN table.records /\ n.records[id] = r
        /\ \A other \in DOMAIN table.records : other # id =>
              n.records[other] = table.records[other]
    BY <1>1, UpdateOK
  <2> QED
    BY <1>1, <2>1 DEF Kept, IsBanned
<1>2. CASE \E offer \in Offers : AddDiscovered(offer)
  BY <1>2, <1>7, AddedOK DEF AddDiscovered
<1>3. CASE LoadBootstrap
  BY <1>3, LoadedSourcesOK DEF LoadBootstrap
<1>4. ASSUME NEW id \in Ids, ReportSuccess(id)
      PROVE  TableOK(n) /\ Kept(table, n, Succeeding)
  <2> DEFINE r == [old(id) EXCEPT !.failures = 0, !.status = "ACTIVE",
                                  !.score = Least(MaxScore, old(id).score + Reward)]
  <2>1. id \in DOMAIN table.records /\ n = [table EXCEPT !.records[id] = r]
    BY <1>4 DEF ReportSuccess
  <2>2. old(id) \in PeerRecords
    BY <2>1 DEF TableOK
  <2>3. Least(MaxScore, old(id).score + Reward) \in 0 .. MaxScore
    BY <2>2, PeerTableAssumption DEF Least, PeerRecords
  <2>4. 0 \in 0 .. BanAfter
    BY PeerTableAssumption
  <2> HIDE DEF old
  <2>5. r \in PeerRecords /\ r.address = old(id).address
    BY <2>2, <2>3, <2>4 DEF PeerRecords
  <2>6. id \in Succeeding
    BY <1>4 DEF Succeeding
  <2> QED
    BY <1>1, <2>1, <2>5, <2>6
<1>5. ASSUME NEW id \in Ids, ReportFailure(id)
      PROVE  TableOK(n) /\ Kept(table, n, Succeeding)
  <2> DEFINE r == AfterFailure(old(id))
  <2>1. id \in DOMAIN table.records /\ n = [table EXCEPT !.records[id] = r]
    BY <1>5 DEF ReportFailure
  <2>2. old(id) \in PeerRecords
    BY <2>1 DEF TableOK
  <2> HIDE DEF old
  <2> DEFINE failures == Least(BanAfter, old(id).failures + 1)
             score == Most(0, old(id).score - Penalty)
  <2>3. failures \in 0 .. BanAfter
    BY <2>2, PeerTableAssumption DEF Least, PeerRecords
  <2>4. score \in 0 .. MaxScore /\ 0 \in 0 .. MaxScore
    BY <2>2, PeerTableAssumption DEF Most, PeerRecords
  <2> HIDE DEF failures, score
  <2>5. r = IF failures = BanAfter
            THEN [old(id) EXCEPT !.failures = failures, !.status = "BANNED", !.score = 0]
            ELSE [old(id) EXCEPT !.failures = failures,
                     !.status = IF IsBanned(old(id)) THEN old(id).status ELSE "FAILED",
                     !.score = score]
    BY DEF AfterFailure, failures, score
  <2> HIDE DEF r
  <2>6. r \in PeerRecords /\ r.address = old(id).address
    BY <2>2, <2>3, <2>4, <2>5 DEF PeerRecords
  <2>7. IsBanned(old(id)) => IsBanned(r)
    BY <2>2, <2>5 DEF PeerRecords, IsBanned
  <2> QED
    BY <1>1, <2>1, <2>6, <2>7
<1>6. ASSUME NEW id \in Ids, Ban(id)
      PROVE  TableOK(n) /\ Kept(table, n, Succeeding)
  <2> DEFINE r == [old(id) EXCEPT !.status = "BANNED"]
  <2>1. id \in DOMAIN table.records /\ n = [table EXCEPT !.records[id] = r]
    BY <1>6 DEF Ban
  <2>2. old(id) \in PeerRecords
    BY <2>1 DEF TableOK
  <2> HIDE DEF old
  <2>3. r \in PeerRecords /\ r.address = old(id).address /\ IsBanned(r)
    BY <2>2 DEF PeerRecords, IsBanned
  <2> QED
    BY <1>1, <2>1, <2>3
<1> QED
  BY <1>2, <1>3, <1>4, <1>5, <1>6 DEF TableNext

TableInv == TableOK(table)

LEMMA TableInvNext == TableInv /\ [TableNext]_table => TableInv'
<1> SUFFICES ASSUME TableInv, [TableNext]_table PROVE TableInv'
  OBVIOUS
<1>1. CASE TableNext
  <2>1. PICK n : table' = n /\ TableOK(n)
    BY <1>1, TableStep DEF TableInv
  <2> QED
    BY <2>1 DEF TableInv
<1>2. CASE UNCHANGED table
  BY <1>2 DEF TableInv
<1> QED
  BY <1>1, <1>2

(* The index and the records name each other, and the table keeps its      *)
(* limit, whatever is merged, evicted and loaded.                          *)
THEOREM IndexAlwaysMatches == TableSpec => []IndexMatches
<1>1. TableInv => IndexMatches
  BY DEF TableInv, TableOK, Indexed, IndexMatches
<1>2. TableInit => TableInv
  BY TableInitOK DEF TableInv
<1> QED
  BY <1>1, <1>2, TableInvNext, PTL DEF TableSpec

(* No report and no offer lifts a ban but a handshake that succeeded, and  *)
(* only a full table drops a record, for a better one of the same source.  *)
THEOREM RecordsAlwaysKept == TableSpec => RecordsKept
<1>1. TableInv /\ [TableNext]_table =>
          [\/ \A id \in DOMAIN table.records :
                LET r == table.records[id]
                IN  IF id \in DOMAIN table'.records
                    THEN IsBanned(r) => IsBanned(table'.records[id]) \/ ReportSuccess(id)
                    ELSE /\ Size(table) = MaxEntries
                         /\ \/ IsBanned(r)
                            \/ \E n \in DOMAIN table'.records \ DOMAIN table.records :
                                  /\ table'.records[n].source = r.source
                                  /\ table'.records[n].score > r.score
           \/ LoadBootstrap]_table
  <2> SUFFICES ASSUME TableInv, TableNext, ~LoadBootstrap
               PROVE  \A id \in DOMAIN table.records :
                          LET r == table.records[id]
                          IN  IF id \in DOMAIN table'.records
                              THEN IsBanned(r) =>
                                      IsBanned(table'.records[id]) \/ ReportSuccess(id)
                              ELSE /\ Size(table) = MaxEntries
                                   /\ \/ IsBanned(r)
                                      \/ \E n \in DOMAIN table'.records \ DOMAIN table.records :
                                            /\ table'.records[n].source = r.source
                                            /\ table'.records[n].score > r.score
    OBVIOUS
  <2>1. PICK n : table' = n /\ Kept(table, n, Succeeding)
    BY TableStep DEF TableInv
  <2> QED
    BY <2>1 DEF Kept, Succeeding
<1>2. TableInit => TableInv
  BY TableInitOK DEF TableInv
<1> QED
  BY <1>1, <1>2, TableInvNext, PTL DEF TableSpec, RecordsKept

-----------------------------------------------------------------------------
(* Selection: what holds of the peers chosen among the first i ranked ones. *)
InShares(t, count, ids) ==
    \A c \in ids : /\ Cardinality(SameSource(t, ids, c)) <= PerSource(count)
                   /\ Cardinality(SamePrefix(t, ids, c)) <= MaxSamePrefix

AtLeastOf(t, ids, id) == {c \in ids : t.records[c].score >= t.records[id].score}

PassedOver(t, count, ids, id) ==
    \/ Cardinality(AtLeastOf(t, ids, id)) = count
    \/ ~HasRoom(t, count, AtLeastOf(t, ids, id), id)

GoodChoice(t, count, order, i, c) ==
    /\ c \in Seq(Viable(t)) /\ IsInjective(c) /\ Len(c) <= count
    /\ IsFiniteSet(Range(c)) /\ Cardinality(Range(c)) = Len(c)
    /\ Range(c) \subseteq {order[j] : j \in 1 .. i}
    /\ InShares(t, count, Range(c))
    /\ \A j \in 1 .. i : order[j] \notin Range(c) => PassedOver(t, count, Range(c), order[j])

LEMMA PerSourceInteger ==
    ASSUME NEW count \in Nat
    PROVE  PerSource(count) \in Int
<1>1. SharePercent \in Nat
  BY PeerTableAssumption
<1>2. SharePercent * count \in Nat
  BY <1>1
<1>3. (SharePercent * count) \div 100 \in Int
  BY <1>2
<1> QED
  BY <1>3 DEF PerSource, Most

(* More peers leave no more room.                                          *)
LEMMA RoomShrinks ==
    ASSUME NEW t, NEW count \in Nat, NEW ids, IsFiniteSet(ids), NEW some \in SUBSET ids, NEW id,
           HasRoom(t, count, ids, id)
    PROVE  HasRoom(t, count, some, id)
<1>1. /\ IsFiniteSet(SameSource(t, ids, id)) /\ IsFiniteSet(SamePrefix(t, ids, id))
      /\ SameSource(t, some, id) \in SUBSET SameSource(t, ids, id)
      /\ SamePrefix(t, some, id) \in SUBSET SamePrefix(t, ids, id)
  BY FS_Subset DEF SameSource, SamePrefix
<1>2. /\ Cardinality(SameSource(t, some, id)) <= Cardinality(SameSource(t, ids, id))
      /\ Cardinality(SamePrefix(t, some, id)) <= Cardinality(SamePrefix(t, ids, id))
      /\ Cardinality(SameSource(t, some, id)) \in Nat
      /\ Cardinality(SamePrefix(t, some, id)) \in Nat
      /\ Cardinality(SameSource(t, ids, id)) \in Nat
      /\ Cardinality(SamePrefix(t, ids, id)) \in Nat
  BY <1>1, FS_Subset, FS_CardinalityType
<1> QED
  BY <1>2, PerSourceInteger, PeerTableAssumption DEF HasRoom

(* A peer there was room for leaves everybody within their shares.         *)
LEMMA SharesAfter ==
    ASSUME NEW t, NEW count \in Nat, NEW ids, IsFiniteSet(ids), NEW id, id \notin ids,
           InShares(t, count, ids), HasRoom(t, count, ids, id)
    PROVE  InShares(t, count, ids \cup {id})
<1> DEFINE more == ids \cup {id}
<1>1. PerSource(count) \in Int /\ MaxSamePrefix \in Nat
  BY PerSourceInteger, PeerTableAssumption
<1>2. ASSUME NEW c PROVE IsFiniteSet(SameSource(t, ids, c)) /\ IsFiniteSet(SamePrefix(t, ids, c))
  BY FS_Subset DEF SameSource, SamePrefix
<1>3. ASSUME NEW c \in more
      PROVE  Cardinality(SameSource(t, more, c)) <= PerSource(count)
  <2>1. CASE t.records[c].source = t.records[id].source
    <3>1. SameSource(t, more, c) = SameSource(t, ids, id) \cup {id}
      BY <2>1 DEF SameSource
    <3>2. Cardinality(SameSource(t, ids, id)) \in Nat
          /\ Cardinality(SameSource(t, ids, id)) < PerSource(count)
      BY <1>2, FS_CardinalityType DEF HasRoom
    <3>3. Cardinality(SameSource(t, more, c)) <= Cardinality(SameSource(t, ids, id)) + 1
          /\ Cardinality(SameSource(t, more, c)) \in Int
      <4> DEFINE same == SameSource(t, ids, id)
      <4>1. IsFiniteSet(same)
        BY <1>2
      <4> HIDE DEF same
      <4>2. Cardinality(same \cup {id})
                = IF id \in same THEN Cardinality(same) ELSE Cardinality(same) + 1
        BY <4>1, FS_AddElement
      <4>3. Cardinality(same) \in Nat
        BY <3>2 DEF same
      <4>4. /\ Cardinality(same \cup {id}) <= Cardinality(same) + 1
            /\ Cardinality(same \cup {id}) \in Int
        BY <4>2, <4>3
      <4> QED
        BY <3>1, <4>4 DEF same
    <3> QED
      BY <1>1, <3>2, <3>3
  <2>2. CASE t.records[c].source # t.records[id].source
    <3>1. c \in ids /\ SameSource(t, more, c) = SameSource(t, ids, c)
      BY <2>2 DEF SameSource
    <3> QED
      BY <3>1 DEF InShares
  <2> QED
    BY <2>1, <2>2
<1>4. ASSUME NEW c \in more
      PROVE  Cardinality(SamePrefix(t, more, c)) <= MaxSamePrefix
  <2>1. CASE PrefixOf(t, c) = None
    <3>1. SamePrefix(t, more, c) = {}
      BY <2>1 DEF SamePrefix
    <3> QED
      BY <1>1, <3>1, FS_EmptySet
  <2>2. CASE PrefixOf(t, c) # None /\ PrefixOf(t, c) = PrefixOf(t, id)
    <3>1. SamePrefix(t, more, c) = SamePrefix(t, ids, id) \cup {id}
      BY <2>2 DEF SamePrefix
    <3>2. Cardinality(SamePrefix(t, ids, id)) \in Nat
          /\ Cardinality(SamePrefix(t, ids, id)) < MaxSamePrefix
      BY <1>2, <2>2, FS_CardinalityType DEF HasRoom
    <3>3. Cardinality(SamePrefix(t, more, c)) <= Cardinality(SamePrefix(t, ids, id)) + 1
          /\ Cardinality(SamePrefix(t, more, c)) \in Int
      <4> DEFINE same == SamePrefix(t, ids, id)
      <4>1. IsFiniteSet(same)
        BY <1>2
      <4> HIDE DEF same
      <4>2. Cardinality(same \cup {id})
                = IF id \in same THEN Cardinality(same) ELSE Cardinality(same) + 1
        BY <4>1, FS_AddElement
      <4>3. Cardinality(same) \in Nat
        BY <3>2 DEF same
      <4>4. /\ Cardinality(same \cup {id}) <= Cardinality(same) + 1
            /\ Cardinality(same \cup {id}) \in Int
        BY <4>2, <4>3
      <4> QED
        BY <3>1, <4>4 DEF same
    <3> QED
      BY <1>1, <3>2, <3>3
  <2>3. CASE PrefixOf(t, c) # None /\ PrefixOf(t, c) # PrefixOf(t, id)
    <3>1. c \in ids /\ SamePrefix(t, more, c) = SamePrefix(t, ids, c)
      BY <2>3 DEF SamePrefix
    <3> QED
      BY <3>1 DEF InShares
  <2> QED
    BY <2>1, <2>2, <2>3
<1> QED
  BY <1>3, <1>4 DEF InShares

(* One pass through the loop.                                              *)
LEMMA ConsideredGood ==
    ASSUME NEW t, IsFiniteSet(Viable(t)), NEW count \in Nat, NEW order \in Rankings(t),
           NEW i \in 1 .. Cardinality(Viable(t)),
           NEW c, GoodChoice(t, count, order, i - 1, c)
    PROVE  GoodChoice(t, count, order, i, Considered(t, count, c, order[i]))
<1> DEFINE id == order[i]
           ids == Range(c)
<1>1. /\ Cardinality(Viable(t)) \in Nat /\ i \in Nat /\ i - 1 \in Nat
      /\ id \in Viable(t)
      /\ \A j \in 1 .. i - 1 : j \in 1 .. Cardinality(Viable(t)) /\ order[j] # id
            /\ t.records[order[j]].score >= t.records[id].score
  <2>1. Cardinality(Viable(t)) \in Nat
    BY FS_CardinalityType
  <2> QED
    BY <2>1 DEF Rankings, IsInjective
<1>2. /\ c \in Seq(Viable(t)) /\ IsInjective(c) /\ Len(c) <= count /\ Len(c) \in Nat
      /\ IsFiniteSet(ids) /\ Cardinality(ids) = Len(c)
      /\ ids \subseteq {order[j] : j \in 1 .. i - 1}
      /\ InShares(t, count, ids)
  BY DEF GoodChoice
<1>3. id \notin ids
  BY <1>1, <1>2
<1>4. ASSUME NEW j \in 1 .. i - 1, order[j] \notin ids
      PROVE  PassedOver(t, count, ids, order[j])
  BY <1>4 DEF GoodChoice
<1>5. ASSUME NEW j \in 1 .. i, j # i PROVE j \in 1 .. i - 1
  BY <1>1, <1>5
<1> HIDE DEF id, ids
<1>6. CASE Len(c) < count /\ HasRoom(t, count, ids, id)
  <2> DEFINE d == Append(c, id)
  <2>1. Considered(t, count, c, order[i]) = d
    BY <1>6 DEF Considered, id, ids
  <2>2. /\ d \in Seq(Viable(t)) /\ Len(d) = Len(c) + 1
        /\ \A k \in 1 .. Len(c) : d[k] = c[k]
        /\ d[Len(c) + 1] = id
        /\ DOMAIN d = 1 .. Len(c) + 1 /\ DOMAIN c = 1 .. Len(c)
    <3>1. DOMAIN c = 1 .. Len(c) /\ DOMAIN d = 1 .. Len(d)
      BY <1>1, <1>2, AppendProperties
    <3> HIDE DEF d
    <3>2. /\ d \in Seq(Viable(t)) /\ Len(d) = Len(c) + 1
          /\ \A k \in 1 .. Len(c) : d[k] = c[k]
          /\ d[Len(c) + 1] = id
      BY <1>1, <1>2, AppendProperties DEF d
    <3> QED
      BY <3>1, <3>2
  <2> HIDE DEF d
  <2>3. Range(d) = ids \cup {id}
    <3>1. \A x \in ids : \E k \in 1 .. Len(c) : x = c[k]
      BY <2>2 DEF ids, Range
    <3>2. \A k \in 1 .. Len(c) : c[k] \in ids
      BY <2>2 DEF ids, Range
    <3>3. \A k \in 1 .. Len(c) + 1 : k \in 1 .. Len(c) \/ k = Len(c) + 1
      BY <1>2
    <3>4. \A k \in 1 .. Len(c) : k \in 1 .. Len(c) + 1
      BY <1>2
    <3>5. Len(c) + 1 \in 1 .. Len(c) + 1
      BY <1>2
    <3>6. Range(d) \subseteq ids \cup {id}
      BY <2>2, <3>2, <3>3 DEF Range
    <3>7. ids \cup {id} \subseteq Range(d)
      BY <2>2, <3>1, <3>4, <3>5 DEF Range
    <3> QED
      BY <3>6, <3>7
  <2>4. IsInjective(d)
    <3>1. \A k \in 1 .. Len(c) : c[k] # id
      BY <1>3, <2>2 DEF ids, Range
    <3>2. \A k \in 1 .. Len(c) + 1 : k \in 1 .. Len(c) \/ k = Len(c) + 1
      BY <1>2
    <3> QED
      BY <1>2, <2>2, <3>1, <3>2 DEF IsInjective
  <2>5. IsFiniteSet(Range(d)) /\ Cardinality(Range(d)) = Len(d)
    <3>1. IsFiniteSet(ids \cup {id})
          /\ Cardinality(ids \cup {id})
                 = IF id \in ids THEN Cardinality(ids) ELSE Cardinality(ids) + 1
      BY <1>2, FS_AddElement
    <3> QED
      BY <1>2, <1>3, <2>2, <2>3, <3>1
  <2>6. Range(d) \subseteq {order[j] : j \in 1 .. i}
    <3>1. i \in 1 .. i /\ \A j \in 1 .. i - 1 : j \in 1 .. i
      BY <1>1
    <3> QED
      BY <1>2, <2>3, <3>1 DEF id
  <2>7. InShares(t, count, Range(d))
    BY <1>2, <1>3, <1>6, <2>3, SharesAfter
  <2>8. ASSUME NEW j \in 1 .. i, order[j] \notin Range(d)
        PROVE  PassedOver(t, count, Range(d), order[j])
    <3>1. j \in 1 .. i - 1 /\ order[j] \notin ids
      BY <1>5, <2>3, <2>8 DEF id
    <3> DEFINE some == AtLeastOf(t, ids, order[j])
               all == AtLeastOf(t, Range(d), order[j])
    <3>2. some \in SUBSET ids /\ some \in SUBSET all /\ all \in SUBSET Range(d)
      BY <2>3 DEF AtLeastOf
    <3>3. IsFiniteSet(all) /\ Cardinality(some) \in Nat /\ Cardinality(some) <= Len(c)
      <4> HIDE DEF some, all
      <4> QED
        BY <1>2, <2>5, <3>2, FS_Subset, FS_CardinalityType
    <3>4. ~HasRoom(t, count, some, order[j])
      <4>1. Cardinality(some) # count
        BY <1>2, <1>6, <3>3
      <4> QED
        BY <1>4, <3>1, <4>1 DEF PassedOver
    <3>5. ~HasRoom(t, count, all, order[j])
      <4> HIDE DEF some, all
      <4> QED
        BY <3>2, <3>3, <3>4, RoomShrinks
    <3> QED
      BY <3>5 DEF PassedOver
  <2>9. Len(d) <= count
    BY <1>2, <1>6, <2>2
  <2> QED
    BY <2>1, <2>2, <2>4, <2>5, <2>6, <2>7, <2>8, <2>9 DEF GoodChoice
<1>7. CASE ~(Len(c) < count /\ HasRoom(t, count, ids, id))
  <2>1. Considered(t, count, c, order[i]) = c
    BY <1>7 DEF Considered, id, ids
  <2>2. AtLeastOf(t, ids, id) = ids
    BY <1>1, <1>2 DEF AtLeastOf
  <2>3. PassedOver(t, count, ids, id)
    <3>1. Len(c) < count \/ Len(c) = count
      BY <1>2
    <3> QED
      BY <1>2, <1>7, <2>2, <3>1 DEF PassedOver
  <2>4. ASSUME NEW j \in 1 .. i, order[j] \notin ids
        PROVE  PassedOver(t, count, ids, order[j])
    BY <1>4, <1>5, <2>3, <2>4 DEF id
  <2>5. ids \subseteq {order[j] : j \in 1 .. i}
    <3>1. \A j \in 1 .. i - 1 : j \in 1 .. i
      BY <1>1
    <3> QED
      BY <1>2, <3>1
  <2> QED
    BY <1>2, <2>1, <2>4, <2>5 DEF GoodChoice, ids
<1> QED
  BY <1>6, <1>7

ChoiceStep(t, count, order, n, f) ==
    f = [i \in 0 .. n |->
            IF i = 0 THEN << >> ELSE Considered(t, count, f[i - 1], order[i])]

LEMMA ChoiceStepExists ==
    ASSUME NEW t, NEW count, NEW order, NEW n \in Nat
    PROVE  \E f : ChoiceStep(t, count, order, n, f)
<1> DEFINE Bad == {k \in Nat : ~\E f : ChoiceStep(t, count, order, k, f)}
<1> SUFFICES ASSUME Bad # {} PROVE FALSE
  OBVIOUS
<1>1. PICK k \in Bad : \A j \in Bad : k <= j
  <2> HIDE DEF Bad
  <2>1. Bad \in SUBSET Nat
    BY DEF Bad
  <2> QED
    BY <2>1, LeastNatural
<1>2. k \in Nat /\ ~\E f : ChoiceStep(t, count, order, k, f)
  OBVIOUS
<1>3. CASE k = 0
  <2>1. ChoiceStep(t, count, order, k, [i \in 0 .. 0 |-> << >>])
    BY <1>3 DEF ChoiceStep
  <2> QED
    BY <1>2, <2>1
<1>4. CASE k # 0
  <2>1. k - 1 \in Nat /\ k - 1 \notin Bad
    BY <1>1, <1>2, <1>4
  <2>2. PICK g : ChoiceStep(t, count, order, k - 1, g)
    BY <2>1
  <2> DEFINE f == [i \in 0 .. k |->
                      IF i = k THEN Considered(t, count, g[k - 1], order[k]) ELSE g[i]]
  <2>3. ASSUME NEW i \in 0 .. k
        PROVE  f[i] = IF i = 0 THEN << >> ELSE Considered(t, count, f[i - 1], order[i])
    <3>1. CASE i = k
      <4>1. f[i - 1] = g[k - 1]
        BY <1>2, <1>4, <3>1
      <4> QED
        BY <1>4, <3>1, <4>1
    <3>2. CASE i # k
      <4>1. i \in 0 .. k - 1 /\ f[i] = g[i]
        BY <1>2, <3>2
      <4>2. i # 0 => f[i - 1] = g[i - 1]
        BY <1>2, <4>1
      <4>3. g[i] = IF i = 0 THEN << >> ELSE Considered(t, count, g[i - 1], order[i])
        BY <2>2, <4>1 DEF ChoiceStep
      <4> HIDE DEF f
      <4> QED
        BY <4>1, <4>2, <4>3
    <3> QED
      BY <3>1, <3>2
  <2>4. ChoiceStep(t, count, order, k, f)
    BY <2>3 DEF ChoiceStep
  <2> QED
    BY <1>2, <2>4
<1> QED
  BY <1>3, <1>4

LEMMA ChoicesGood ==
    ASSUME NEW t, IsFiniteSet(Viable(t)), NEW count \in Nat, NEW order \in Rankings(t)
    PROVE  GoodChoice(t, count, order, Cardinality(Viable(t)), Selected(t, count, order))
<1> DEFINE n == Cardinality(Viable(t))
           f == CHOOSE g : ChoiceStep(t, count, order, n, g)
<1>1. n \in Nat /\ Len(order) = n
  <2>1. n \in Nat
    BY FS_CardinalityType
  <2>2. order \in [1 .. n -> Viable(t)]
    BY DEF Rankings
  <2> HIDE DEF n
  <2> QED
    BY <2>1, <2>2
<1>2. ChoiceStep(t, count, order, n, f)
  <2> HIDE DEF n
  <2> QED
    BY <1>1, ChoiceStepExists
<1>3. Selected(t, count, order) = f[n]
  <2> HIDE DEF n
  <2>1. Selected(t, count, order)
            = (CHOOSE g : g = [i \in 0 .. n |->
                  IF i = 0 THEN << >> ELSE Considered(t, count, g[i - 1], order[i])])[n]
    BY <1>1 DEF Selected, Choices
  <2> QED
    BY <2>1 DEF ChoiceStep
<1> HIDE DEF f
<1>4. ASSUME NEW i \in 0 .. n
      PROVE  f[i] = IF i = 0 THEN << >> ELSE Considered(t, count, f[i - 1], order[i])
  <2> HIDE DEF n
  <2> QED
    BY <1>2 DEF ChoiceStep
<1>5. GoodChoice(t, count, order, 0, << >>)
  <2>1. Range(<< >>) = {} /\ << >> \in Seq(Viable(t)) /\ Len(<< >>) = 0 /\ IsInjective(<< >>)
    BY DEF Range, IsInjective
  <2>2. \A j \in 1 .. 0 : FALSE
    OBVIOUS
  <2>3. InShares(t, count, {})
    BY DEF InShares
  <2>4. IsFiniteSet({}) /\ Cardinality({}) = 0
    BY FS_EmptySet
  <2> DEFINE none == << >>
  <2>5. /\ Range(none) = {} /\ none \in Seq(Viable(t)) /\ IsInjective(none)
        /\ Len(none) = 0 /\ Len(none) <= count
    BY <2>1
  <2> HIDE DEF none
  <2>6. GoodChoice(t, count, order, 0, none)
    BY <2>2, <2>3, <2>4, <2>5 DEF GoodChoice
  <2> QED
    BY <2>6 DEF none
<1> DEFINE Bad == {j \in 0 .. n : ~GoodChoice(t, count, order, j, f[j])}
<1>6. Bad = {}
  <2> SUFFICES ASSUME Bad # {} PROVE FALSE
    OBVIOUS
  <2>1. PICK j \in Bad : \A h \in Bad : j <= h
    <3>1. Bad \in SUBSET Nat
      BY <1>1
    <3> HIDE DEF Bad
    <3> QED
      BY <3>1, LeastNatural
  <2>2. j \in 0 .. n /\ ~GoodChoice(t, count, order, j, f[j])
    OBVIOUS
  <2>3. j # 0
    BY <1>4, <1>5, <2>2
  <2>4. j \in 1 .. n /\ j - 1 \in 0 .. n /\ ~(j <= j - 1)
    BY <1>1, <2>2, <2>3
  <2>5. GoodChoice(t, count, order, j - 1, f[j - 1])
    BY <2>1, <2>4
  <2>6. f[j] = Considered(t, count, f[j - 1], order[j])
    BY <1>4, <2>2, <2>3
  <2> QED
    BY <2>2, <2>4, <2>5, <2>6, ConsideredGood
<1>7. n \in 0 .. n
  BY <1>1
<1> QED
  BY <1>3, <1>6, <1>7

(* Every selection is within its shares, of peers of different addresses,  *)
(* and passes nobody over who had room beside peers at least as good.      *)
THEOREM SelectionsAlwaysGood == TableSpec => []SelectionsGood
<1>1. TableInv => SelectionsGood
  <2> SUFFICES ASSUME TableInv, NEW count \in 0 .. MaxOutbound, NEW order \in Rankings(table)
               PROVE  GoodSelection(table, count, Selected(table, count, order))
    BY DEF SelectionsGood
  <2> DEFINE chosen == Selected(table, count, order)
             n == Cardinality(Viable(table))
  <2>1. IsFiniteSet(Viable(table)) /\ Viable(table) \subseteq DOMAIN table.records
    BY FS_Subset DEF TableInv, TableOK, Viable
  <2>2. GoodChoice(table, count, order, n, chosen)
    BY <2>1, ChoicesGood
  <2>3. \A id \in Viable(table) : \E j \in 1 .. n : order[j] = id
    <3>1. order \in Injection(1 .. n, Viable(table))
      BY DEF Rankings, Injection
    <3>2. n \in Nat /\ IsFiniteSet(1 .. n) /\ Cardinality(1 .. n) = n
      BY <2>1, FS_CardinalityType, FS_Interval
    <3>3. order \in Surjection(1 .. n, Viable(table))
      BY <2>1, <3>1, <3>2, FS_Injection
    <3> QED
      BY <3>3 DEF Surjection
  <2> HIDE DEF chosen, n
  <2>4. /\ IsInjective(chosen) /\ Len(chosen) <= count
        /\ Range(chosen) \subseteq Viable(table)
        /\ InShares(table, count, Range(chosen))
    <3>1. \A k \in 1 .. Len(chosen) : chosen[k] \in Viable(table)
      BY <2>2 DEF GoodChoice
    <3>2. DOMAIN chosen = 1 .. Len(chosen)
      BY <2>2 DEF GoodChoice
    <3> QED
      BY <2>2, <3>1, <3>2 DEF GoodChoice, Range
  <2>5. \A c, d \in Range(chosen) :
            table.records[c].address = table.records[d].address => c = d
    BY <2>1, <2>4 DEF TableInv, TableOK, Indexed
  <2>6. ASSUME NEW id \in Viable(table) \ Range(chosen)
        PROVE  PassedOver(table, count, Range(chosen), id)
    BY <2>2, <2>3 DEF GoodChoice
  <2> QED
    BY <2>4, <2>5, <2>6 DEF GoodSelection, InShares, PassedOver, AtLeastOf, chosen
<1>2. TableInit => TableInv
  BY TableInitOK DEF TableInv
<1> QED
  BY <1>1, <1>2, TableInvNext, PTL DEF TableSpec
==============================================================================

-------------------------------- MODULE Relay --------------------------------
(***************************************************************************)
(* RelayEngine (network/relay): nodes that announce the blocks they have   *)
(* stored and those their callers name, ask each other for the announced   *)
(* ones and hand what arrives to their ledger and store.                   *)
(*                                                                         *)
(* A message stays in the network, so it may be delivered late, twice, out *)
(* of order or never; an INV refused for its rate is one never delivered.  *)
(* A block is its hash; the ledger takes it on its tip only.  The orphan   *)
(* pool is left out: nothing calls add_orphan.                             *)
(***************************************************************************)
EXTENDS Integers, Sequences, FiniteSets, Functions

CONSTANTS
    Nodes,
    Peers,       \* whom a node announces its blocks to
    Blocks,
    Genesis,
    Parent,      \* header.prev_hash of every block
    Own,         \* bound: the blocks a node's callers mine, and announce
    MaxPending,  \* max_get_block_burst
    MaxInv,      \* max_inv_items
    MaxSeen,     \* seen_cache_size
    MaxQueue     \* bound: announcements a caller asks for before they are sent

ASSUME RelayAssumption ==
    /\ Peers \in [Nodes -> SUBSET Nodes]
    /\ Genesis \notin Blocks
    /\ Parent \in [Blocks -> Blocks \cup {Genesis}]
    /\ Own \in [Nodes -> SUBSET Blocks]
    /\ MaxPending \in Nat \ {0}
    /\ MaxInv \in Nat \ {0}
    /\ MaxSeen \in Nat \ {0}
    /\ MaxQueue \in Nat

VARIABLES
    ledger,   \* Ledger.chain above genesis
    stored,   \* the blocks the store holds, at heights 1, 2, ...
    pending,  \* _pending_requests: [block, peer]
    seen,     \* _seen_cache, oldest first
    queue,    \* _local_blocks_to_announce
    net,      \* the messages sent so far
    local,    \* history: the blocks on_local_block was called with
    intact    \* history: no block was taken by the ledger and lost by the store

vars == <<ledger, stored, pending, seen, queue, net, local, intact>>

Inv(n, p, hashes) == [type |-> "INV", from |-> n, to |-> p, hashes |-> hashes]
GetBlock(n, p, b) == [type |-> "GET_BLOCK", from |-> n, to |-> p, block |-> b]
BlockMessage(n, p, b) == [type |-> "BLOCK", from |-> n, to |-> p, block |-> b]

Tip(n) == IF ledger[n] = <<>> THEN Genesis ELSE ledger[n][Len(ledger[n])]
Seen(n, b) == b \in Range(seen[n])
IsPending(n, b) == \E r \in pending[n] : r.block = b
Fewer(a, b) == IF a <= b THEN a ELSE b

(* RelaySeenCache.add: the oldest entry makes room.                        *)
Remember(n, b) ==
    IF Seen(n, b) THEN seen[n]
    ELSE Append(IF Len(seen[n]) >= MaxSeen THEN Tail(seen[n]) ELSE seen[n], b)

-----------------------------------------------------------------------------
Init ==
    /\ ledger = [n \in Nodes |-> <<>>]
    /\ stored = [n \in Nodes |-> <<>>]
    /\ pending = [n \in Nodes |-> {}]
    /\ seen = [n \in Nodes |-> <<>>]
    /\ queue = [n \in Nodes |-> <<>>]
    /\ net = {}
    /\ local = [n \in Nodes |-> {}]
    /\ intact = [n \in Nodes |-> TRUE]

(* A caller's add_block_v2 and append_block of a block of its own; the     *)
(* second may fail.  It need not call on_local_block.                      *)
AddOwnBlock(n, b) ==
    /\ Parent[b] = Tip(n)
    /\ ledger' = [ledger EXCEPT ![n] = Append(@, b)]
    /\ \/ /\ stored' = [stored EXCEPT ![n] = Append(@, b)]
          /\ UNCHANGED intact
       \/ /\ intact' = [intact EXCEPT ![n] = FALSE]
          /\ UNCHANGED stored
    /\ UNCHANGED <<pending, seen, queue, net, local>>

(* on_local_block, which looks neither at the ledger nor at the store.     *)
OnLocalBlock(n, b) ==
    /\ Len(queue[n]) < MaxQueue
    /\ local' = [local EXCEPT ![n] = @ \cup {b}]
    /\ IF Seen(n, b)
       THEN UNCHANGED <<seen, queue>>
       ELSE /\ seen' = [seen EXCEPT ![n] = Remember(n, b)]
            /\ queue' = [queue EXCEPT ![n] = Append(@, b)]
    /\ UNCHANGED <<ledger, stored, pending, net, intact>>

(* build_announcements empties the queue; create_inv_message cuts off what *)
(* exceeds max_inv_items.                                                  *)
Announce(n) ==
    /\ queue[n] # <<>>
    /\ net' = net \cup {Inv(n, p, SubSeq(queue[n], 1, Fewer(MaxInv, Len(queue[n])))) :
                           p \in Peers[n]}
    /\ queue' = [queue EXCEPT ![n] = <<>>]
    /\ UNCHANGED <<ledger, stored, pending, seen, local, intact>>

(* handle_inv takes the first unknown hashes, as many as there is room for.*)
Unknown(n, hashes) == {i \in DOMAIN hashes : ~Seen(n, hashes[i]) /\ ~IsPending(n, hashes[i])}
(* Mutant: the room is compared once, not for every hash.                  *)
WantedWhileRoom(n, hashes) ==
    {hashes[i] : i \in {j \in Unknown(n, hashes) : Cardinality(pending[n]) < MaxPending}}

Wanted(n, hashes) ==
    {hashes[i] : i \in
        {j \in Unknown(n, hashes) :
            Cardinality({hashes[k] : k \in {l \in Unknown(n, hashes) : l < j}})
                + Cardinality(pending[n]) < MaxPending}}

HandleInv(n, m) ==
    /\ m.type = "INV" /\ m.to = n
    /\ pending' = [pending EXCEPT ![n] =
                     @ \cup {[block |-> b, peer |-> m.from] : b \in Wanted(n, m.hashes)}]
    /\ UNCHANGED <<ledger, stored, seen, queue, net, local, intact>>

(* next_get_block_requests: every pending request, each time it is called. *)
RequestBlocks(n) ==
    /\ net' = net \cup {GetBlock(n, r.peer, r.block) : r \in pending[n]}
    /\ UNCHANGED <<ledger, stored, pending, seen, queue, local, intact>>

(* handle_get_block: what read_block finds, or no answer.                  *)
HandleGetBlock(n, m) ==
    /\ m.type = "GET_BLOCK" /\ m.to = n
    /\ m.block \in Range(stored[n])
    /\ net' = net \cup {BlockMessage(n, m.from, m.block)}
    /\ UNCHANGED <<ledger, stored, pending, seen, queue, local, intact>>

-----------------------------------------------------------------------------
(* handle_block: whatever becomes of the block, its request is done.       *)
RequestDone(n, b) == [pending EXCEPT ![n] = {r \in @ : r.block # b}]

(* Mutant: a request is kept when the ledger refuses its block.            *)
IgnoreRefused(n, b) ==
    /\ ~Seen(n, b)
    /\ Parent[b] # Tip(n)
    /\ UNCHANGED vars

(* Mutant: a block that is remembered is announced all the same.           *)
AnnounceAgain(n, b) ==
    /\ Seen(n, b)
    /\ pending' = RequestDone(n, b)
    /\ queue' = [queue EXCEPT ![n] = Append(@, b)]
    /\ UNCHANGED <<ledger, stored, seen, net, local, intact>>

Duplicate(n, b) ==
    /\ Seen(n, b)
    /\ pending' = RequestDone(n, b)
    /\ UNCHANGED <<ledger, stored, seen, queue, net, local, intact>>

Refused(n, b) ==
    /\ ~Seen(n, b)
    /\ Parent[b] # Tip(n)
    /\ pending' = RequestDone(n, b)
    /\ UNCHANGED <<ledger, stored, seen, queue, net, local, intact>>

(* Mutant: the block is announced before it is stored.                     *)
AnnounceFirst(n, b) ==
    /\ ~Seen(n, b)
    /\ Parent[b] = Tip(n)
    /\ ledger' = [ledger EXCEPT ![n] = Append(@, b)]
    /\ queue' = [queue EXCEPT ![n] = Append(@, b)]
    /\ pending' = RequestDone(n, b)
    /\ intact' = [intact EXCEPT ![n] = FALSE]
    /\ UNCHANGED <<stored, seen, net, local>>

(* append_block raises after the ledger has taken the block.  The store    *)
(* does not compare prev_hash with its tip: what follows is stored on the  *)
(* gap.                                                                    *)
NotStored(n, b) ==
    /\ ~Seen(n, b)
    /\ Parent[b] = Tip(n)
    /\ ledger' = [ledger EXCEPT ![n] = Append(@, b)]
    /\ pending' = RequestDone(n, b)
    /\ intact' = [intact EXCEPT ![n] = FALSE]
    /\ UNCHANGED <<stored, seen, queue, net, local>>

(* Mutant: the block is announced and remembered, but the ledger is not   *)
(* asked.                                                                  *)
AcceptUnchecked(n, b) ==
    /\ ~Seen(n, b)
    /\ ledger' = [ledger EXCEPT ![n] = Append(@, b)]
    /\ stored' = [stored EXCEPT ![n] = Append(@, b)]
    /\ seen' = [seen EXCEPT ![n] = Remember(n, b)]
    /\ queue' = [queue EXCEPT ![n] = Append(@, b)]
    /\ pending' = RequestDone(n, b)
    /\ UNCHANGED <<net, local, intact>>

Accepted(n, b) ==
    /\ ~Seen(n, b)
    /\ Parent[b] = Tip(n)
    /\ ledger' = [ledger EXCEPT ![n] = Append(@, b)]
    /\ stored' = [stored EXCEPT ![n] = Append(@, b)]
    /\ seen' = [seen EXCEPT ![n] = Remember(n, b)]
    /\ queue' = [queue EXCEPT ![n] = Append(@, b)]
    /\ pending' = RequestDone(n, b)
    /\ UNCHANGED <<net, local, intact>>

HandleBlock(n, m) ==
    /\ m.type = "BLOCK" /\ m.to = n
    /\ \/ Duplicate(n, m.block) \/ Refused(n, m.block)
       \/ NotStored(n, m.block) \/ Accepted(n, m.block)

(* The oldest entry of the seen cache has outlived its time.               *)
Expire(n) ==
    /\ seen[n] # <<>>
    /\ seen' = [seen EXCEPT ![n] = Tail(@)]
    /\ UNCHANGED <<ledger, stored, pending, queue, net, local, intact>>

Next ==
    \E n \in Nodes :
        \/ \E b \in Own[n] : AddOwnBlock(n, b) \/ OnLocalBlock(n, b)
        \/ Announce(n) \/ RequestBlocks(n) \/ Expire(n)
        \/ \E m \in net : HandleInv(n, m) \/ HandleGetBlock(n, m) \/ HandleBlock(n, m)

Spec == Init /\ [][Next]_vars

(* Fairness: a node keeps sending its requests, and requests and answers   *)
(* arrive; INVs need not.                                                  *)
FairSpec ==
    /\ Spec
    /\ \A n \in Nodes :
          /\ WF_vars(RequestBlocks(n))
          /\ \A p \in Nodes, b \in Blocks :
                /\ WF_vars(GetBlock(p, n, b) \in net /\ HandleGetBlock(n, GetBlock(p, n, b)))
                /\ WF_vars(BlockMessage(p, n, b) \in net /\ HandleBlock(n, BlockMessage(p, n, b)))

-----------------------------------------------------------------------------
(* Sequences of blocks, requests within their limit, a cache within its.   *)
TypeOK ==
    \A n \in Nodes :
        /\ \A s \in {ledger[n], stored[n], seen[n], queue[n]} : Range(s) \subseteq Blocks
        /\ \A r \in pending[n] : r.block \in Blocks /\ r.peer \in Nodes
        /\ Cardinality(pending[n]) <= MaxPending
        /\ Len(seen[n]) <= MaxSeen

(* What a node announces, has announced or is asked for because of it, it  *)
(* can serve: it is in its store, not in its ledger only.  The exception   *)
(* are blocks a caller has had announced, which nothing looks up.          *)
Servable ==
    LET Promised(n) == Range(stored[n]) \cup local[n]
    IN  /\ \A n \in Nodes : Range(queue[n]) \subseteq Promised(n)
        /\ \A m \in net : m.type = "INV" => Range(m.hashes) \subseteq Promised(m.from)
        /\ \A n \in Nodes : \A r \in pending[n] : r.block \in Promised(r.peer)

(* Messages have a block announced by the step that stores it and by no    *)
(* other, so relaying ends although the caches forget: a repeated block is *)
(* never passed on again, also when it is no longer remembered.  Only      *)
(* on_local_block announces again what the cache has forgotten.            *)
RelayedOnce ==
    [][\A n \in Nodes, b \in Blocks :
          b \in Range(queue'[n]) \ Range(queue[n]) =>
              \/ b \in Range(stored'[n]) \ Range(stored[n])
              \/ OnLocalBlock(n, b)]_vars

(* A block is at most once in a ledger and in a store, and until a storage *)
(* error the two are the same.                                             *)
StoredAsTaken ==
    \A n \in Nodes :
        /\ \A i, j \in DOMAIN stored[n] : stored[n][i] = stored[n][j] => i = j
        /\ Range(stored[n]) \subseteq Range(ledger[n])
        /\ intact[n] => stored[n] = ledger[n]

(* A request to a peer that has the block does not stay for ever while the *)
(* peer lives, whether the answer is late, repeated or refused, or the     *)
(* store fails.                                                            *)
RequestsEnd ==
    \A n \in Nodes, b \in Blocks :
        (\E r \in pending[n] : r.block = b /\ b \in Range(stored[r.peer]))
            ~> ~IsPending(n, b)
=============================================================================

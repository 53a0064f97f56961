-------------------------------- MODULE Sync --------------------------------
(***************************************************************************)
(* SyncEngine (network/sync): a node that asks peers for headers, compares *)
(* their work with that of its own chain, fetches the blocks one by one    *)
(* into its ledger and, when the last one is in, writes them to its store. *)
(*                                                                         *)
(* Peers answer with any run of their chain, so an answer may be late,     *)
(* repeated or meant for an earlier question.  Headers stand for their     *)
(* blocks.  Clocks agree, and nobody mines ahead of them.                  *)
(***************************************************************************)
EXTENDS Ledger

CONSTANTS
    Peers,
    MaxHeight,  \* bound: how far each peer mines
    Gaps        \* time between the blocks of each peer; without one they may be refused

ASSUME SyncAssumption ==
    /\ MaxHeight \in [Peers -> Nat]
    /\ Gaps \in [Peers -> SUBSET Nat]

VARIABLES
    served,          \* the chain every peer serves
    ledger,          \* Ledger.chain of the node
    stored,          \* the blocks above genesis that the block store holds
    state,           \* SyncEngine._state
    pendingHeaders,  \* _pending_headers
    pendingBlocks,   \* _pending_blocks
    intact           \* no block was accepted and then dropped before the store had it

vars == <<served, ledger, stored, state, pendingHeaders, pendingBlocks, intact>>

(* compute_chain_work and Ledger.chain_work.                               *)
WorkOf(blocks) ==
    SumFunctionOnSet([k \in DOMAIN blocks |-> MaxTarget \div blocks[k].target],
                     DOMAIN blocks)

(* expected_target_at indexes beyond the end of the chain.                 *)
TargetRaises(chain, height) ==
    height >= RetargetInterval /\ height - 1 > Height(chain)

(* parse_headers_message up to the k-th header.                            *)
LinkedHeader(headers, k) ==
    headers[k].prev = IF k = 1 THEN LastBlock(ledger) ELSE headers[k - 1]
GoodHeader(headers, k) ==
    LET height == Height(ledger) + k
    IN  /\ LinkedHeader(headers, k)
        /\ ~TargetRaises(ledger, height)
        /\ headers[k].target = ExpectedTargetAt(ledger, height)
HeadersParsed(headers) == \A k \in DOMAIN headers : GoodHeader(headers, k)
HeadersRaise(headers) ==
    \E k \in DOMAIN headers :
        /\ \A j \in 1 .. k - 1 : GoodHeader(headers, j)
        /\ LinkedHeader(headers, k)
        /\ TargetRaises(ledger, Height(ledger) + k)

(* handle_headers compares the work of the headers received with the work  *)
(* of the whole local chain.                                               *)
BetterChain(headers) == WorkOf(headers) > WorkOf(ledger)

-----------------------------------------------------------------------------
Init ==
    /\ served = [p \in Peers |-> <<Genesis>>]
    /\ ledger = <<Genesis>>
    /\ stored = <<>>
    /\ state = "IDLE"
    /\ pendingHeaders = <<>>
    /\ pendingBlocks = <<>>
    /\ intact = TRUE

(* A peer's chain grows, by a block the rules accept or, if it comes too   *)
(* soon after the others, by one they refuse.                              *)
PeerMines(p, gap) ==
    LET tip == LastBlock(served[p])
        block == [prev |-> tip, time |-> tip.time + gap,
                  target |-> ExpectedTargetAt(served[p], Len(served[p])), miner |-> p]
    IN  /\ Height(served[p]) < MaxHeight[p]
        /\ served' = [served EXCEPT ![p] = Append(@, block)]
        /\ UNCHANGED <<ledger, stored, state, pendingHeaders, pendingBlocks, intact>>

(* start_header_sync.                                                      *)
StartHeaderSync ==
    /\ state' = "REQUESTING_HEADERS"
    /\ UNCHANGED <<served, ledger, stored, pendingHeaders, pendingBlocks, intact>>

(* Mutant: new headers drop the blocks of the download before.             *)
HandleHeadersAfresh(headers) ==
    /\ HeadersParsed(headers)
    /\ BetterChain(headers)
    /\ state' = "REQUESTING_BLOCKS"
    /\ pendingHeaders' = headers
    /\ pendingBlocks' = <<>>
    /\ UNCHANGED <<served, ledger, stored, intact>>

(* handle_headers.  An index error of expected_target_at is not caught and *)
(* leaves the state where it was set last.                                 *)
HandleHeaders(headers) ==
    /\ \/ /\ HeadersRaise(headers)
          /\ state' = "VALIDATING_HEADERS"
          /\ UNCHANGED pendingHeaders
       \/ /\ ~HeadersParsed(headers)
          /\ ~HeadersRaise(headers)
          /\ state' = "INVALID_DATA"
          /\ UNCHANGED pendingHeaders
       \/ /\ HeadersParsed(headers)
          /\ ~BetterChain(headers)
          /\ state' = "SYNCED"
          /\ UNCHANGED pendingHeaders
       \/ /\ HeadersParsed(headers)
          /\ BetterChain(headers)
          /\ state' = "REQUESTING_BLOCKS"
          /\ pendingHeaders' = headers
    /\ UNCHANGED <<served, ledger, stored, pendingBlocks, intact>>

(* parse_block_message: the height it takes the target of counts the       *)
(* pending blocks twice, as the ledger holds them already.                 *)
BlockHeight == Height(ledger) + 1 + Len(pendingBlocks)
ExpectedPrev == IF pendingBlocks = <<>> THEN LastBlock(ledger) ELSE LastBlock(pendingBlocks)
BlockRaises(block) == block.prev = ExpectedPrev /\ TargetRaises(ledger, BlockHeight)
(* Mutant: the ledger does not validate the block itself.                  *)
BlockParsed(block) ==
    /\ block.prev = ExpectedPrev
    /\ ~TargetRaises(ledger, BlockHeight)
    /\ block.target = ExpectedTargetAt(ledger, BlockHeight)

BlockAccepted(block) ==
    /\ block.prev = ExpectedPrev
    /\ ~TargetRaises(ledger, BlockHeight)
    /\ block.target = ExpectedTargetAt(ledger, BlockHeight)
    /\ Acceptable(ledger, block, block.time)

(* Mutant: the blocks are taken from the end of the list.                  *)
CommitLastFirst(blocks) ==
    /\ \E n \in 0 .. Len(blocks) :
          /\ stored' = stored \o [k \in 1 .. n |-> blocks[Len(blocks) + 1 - k]]
          /\ state' = IF n = Len(blocks) THEN "SYNCED" ELSE "STORAGE_FAILURE"
          /\ intact' = (intact /\ n = Len(blocks))
    /\ pendingBlocks' = <<>>

(* _commit appends the blocks one by one; the store, which does not look   *)
(* at their prev_hash, takes each at the next height or raises.            *)
Commit(blocks) ==
    /\ \E n \in 0 .. Len(blocks) :
          /\ stored' = stored \o SubSeq(blocks, 1, n)
          /\ state' = IF n = Len(blocks) THEN "SYNCED" ELSE "STORAGE_FAILURE"
          /\ intact' = (intact /\ n = Len(blocks))
    /\ pendingBlocks' = <<>>

(* handle_block: the block need not be the one that was asked for.         *)
RefuseBlock(block) ==
    /\ ~BlockAccepted(block)
    /\ state' = IF BlockRaises(block) THEN "VALIDATING_BLOCKS" ELSE "INVALID_DATA"
    /\ UNCHANGED <<served, ledger, stored, pendingHeaders, pendingBlocks, intact>>

TakeBlock(block) ==
    /\ BlockAccepted(block)
    /\ ledger' = Append(ledger, block)
    /\ pendingHeaders' = Tail(pendingHeaders)
    /\ IF Len(pendingHeaders) > 1
       THEN /\ pendingBlocks' = Append(pendingBlocks, block)
            /\ state' = "REQUESTING_BLOCKS"
            /\ UNCHANGED <<stored, intact>>
       ELSE Commit(Append(pendingBlocks, block))
    /\ UNCHANGED served

HandleBlock(block) ==
    /\ pendingHeaders # <<>>
    /\ RefuseBlock(block) \/ TakeBlock(block)

(* Mutant: the state is left as it is.                                     *)
ResetKeepsState ==
    /\ pendingHeaders' = <<>>
    /\ pendingBlocks' = <<>>
    /\ intact' = (intact /\ pendingBlocks = <<>>)
    /\ UNCHANGED <<served, ledger, stored, state>>

(* reset.  The blocks it forgets stay in the ledger.                       *)
Reset ==
    /\ state' = "IDLE"
    /\ pendingHeaders' = <<>>
    /\ pendingBlocks' = <<>>
    /\ intact' = (intact /\ pendingBlocks = <<>>)
    /\ UNCHANGED <<served, ledger, stored>>

(* The answers peers give, from any part of their chains.                  *)
Answers(p) == {<<>>} \cup
    {SubSeq(served[p], i, j) : i \in 2 .. Len(served[p]), j \in 2 .. Len(served[p])}

Next ==
    \/ \E p \in Peers : \E gap \in Gaps[p] : PeerMines(p, gap)
    \/ StartHeaderSync
    \/ \E p \in Peers : \E headers \in Answers(p) : HandleHeaders(headers)
    \/ \E p \in Peers : \E block \in Range(served[p]) : HandleBlock(block)
    \/ Reset

Spec == Init /\ [][Next]_vars

-----------------------------------------------------------------------------
(* The state is one of those the engine enters, and it asks for blocks only *)
(* while it has headers to ask with.                                       *)
TypeOK ==
    /\ state \in {"IDLE", "REQUESTING_HEADERS", "VALIDATING_HEADERS", "REQUESTING_BLOCKS",
                  "VALIDATING_BLOCKS", "SYNCED", "INVALID_DATA", "STORAGE_FAILURE"}
    /\ state = "REQUESTING_BLOCKS" => pendingHeaders # <<>>

(* Whatever peers answer and in whatever order, the ledger holds a chain   *)
(* validate_chain accepts.                                                 *)
LedgerValid == ValidChain(ledger)

(* Until a storage error or a reset drops blocks, the store and the blocks *)
(* waiting to be committed make up the ledger, also when a download was    *)
(* cut short and another one begun: every block is stored once, in order.  *)
LedgerIsStored == intact => ledger = <<Genesis>> \o stored \o pendingBlocks

(* Whatever fails, the store holds blocks of the ledger only, each once    *)
(* and in the order of the ledger.                                         *)
HeightInLedger(block) == CHOOSE h \in 1 .. Height(ledger) : At(ledger, h) = block
StoredInOrder ==
    /\ Range(stored) \subseteq Range(ledger) \ {Genesis}
    /\ \A i, j \in DOMAIN stored :
          i < j => HeightInLedger(stored[i]) < HeightInLedger(stored[j])

-----------------------------------------------------------------------------
(* What the documents say of sync and the code does not do.                *)

(* "If the received chain is better, proceed to block download": headers   *)
(* that extend the local chain are those of a better chain.                *)
ExtensionIsBetter ==
    \A p \in Peers : \A headers \in Answers(p) :
        headers # <<>> /\ HeadersParsed(headers) => BetterChain(headers)

(* "If a block fails validation: [...] Discard the partial segment": the   *)
(* blocks taken before a refused one are forgotten.  They stay, in the     *)
(* ledger as well, and the next commit writes them to the store.           *)
PartDiscarded ==
    [][\A p \in Peers : \A block \in Range(served[p]) :
          HandleBlock(block) /\ state' = "INVALID_DATA" => pendingBlocks' = <<>>]_vars

(* "Persist the validated chain extension atomically": the stored blocks   *)
(* are linked to genesis and to each other.                                *)
StoredLinked ==
    \A k \in DOMAIN stored :
        stored[k].prev = IF k = 1 THEN Genesis ELSE stored[k - 1]
=============================================================================

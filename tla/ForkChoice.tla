----------------------------- MODULE ForkChoice -----------------------------
(***************************************************************************)
(* Nodes that extend their ledgers with add_block_v2 and weigh the chains  *)
(* of others with ReorgEngine.evaluate_candidate (reorg.py): those of      *)
(* other nodes, and those of peers, who keep to no rule.  When it reports  *)
(* a switch, the node disconnects and connects the heights it names.       *)
(***************************************************************************)
EXTENDS Ledger

CONSTANTS
    Nodes,
    Peers,
    PeerTimes,      \* bound: timestamps of the blocks peers make
    PeerTargets,    \* bound: targets of the blocks peers make
    MaxReorgDepth,  \* ReorgEngine.max_reorg_depth
    MaxHeight,      \* bound: height of every chain
    MaxTime         \* bound: the clock

ASSUME ForkChoiceAssumption ==
    /\ Nodes \cap Peers = {}
    /\ PeerTimes \subseteq Int
    /\ MaxReorgDepth \in Nat
    /\ MaxHeight \in Nat
    /\ MaxTime \in Nat

VARIABLES
    chain,  \* Ledger.chain and ReorgEngine.current_chain of every node, and
            \* the branch every peer offers
    now     \* int(time.time())

vars == <<chain, now>>

(* find_common_ancestor.                                                   *)
CommonAncestor(current, candidate) ==
    LET shared == {h \in 0 .. AtMost(Height(current), Height(candidate)) :
                      At(current, h) = At(candidate, h)}
    IN  CHOOSE h \in shared : \A g \in shared : g <= h

(* ReorgEngine._expected_target_at: the target the current chain has or    *)
(* would have at that height; above its tip, the target of its tip.        *)
ExpectedOfCandidate(current, h) ==
    IF h <= Height(current) THEN ExpectedTargetAt(current, h)
                            ELSE LastBlock(current).target

(* validate_candidate_suffix: neither the timestamps nor the schema of the *)
(* transactions, nor the link of the first block to the common ancestor.   *)
SuffixAccepted(current, candidate, common) ==
    \A h \in common + 1 .. Height(candidate) :
        /\ h > common + 1 => At(candidate, h).prev = At(candidate, h - 1)
        /\ At(candidate, h).target = ExpectedOfCandidate(current, h)

(* Mutant: the depth counts the blocks between the two only. *)
WithinDepthBelow(current, common) ==
    Height(current) - common - 1 <= MaxReorgDepth

WithinDepth(current, common) == Height(current) - common <= MaxReorgDepth

(* Mutant: a tie goes to the candidate. *)
CandidateTies(current, candidate, common) ==
    BranchWork(candidate, common) >= BranchWork(current, common)

(* compare_work: a tie keeps the current chain.                            *)
CandidateWins(current, candidate, common) ==
    BranchWork(candidate, common) > BranchWork(current, common)

(* evaluate_candidate reports switched=True.                               *)
Switches(current, candidate) ==
    /\ At(candidate, 0) = At(current, 0)
    /\ LET common == CommonAncestor(current, candidate)
       IN  /\ WithinDepth(current, common)
           /\ SuffixAccepted(current, candidate, common)
           /\ CandidateWins(current, candidate, common)

(* disconnect_heights and connect_heights: the node's own blocks up to the *)
(* common ancestor, the candidate's above it.                              *)
Switched(current, candidate, common) ==
    [i \in 1 .. Len(candidate) |-> IF i <= common + 1 THEN current[i] ELSE candidate[i]]

-----------------------------------------------------------------------------
Init ==
    /\ chain = [n \in Nodes \cup Peers |-> <<Genesis>>]
    /\ now = 0

Tick ==
    /\ now < MaxTime
    /\ now' = now + 1
    /\ UNCHANGED chain

(* Blocks miners offer: on any block of the chain, at any target.          *)
Times == 1 .. MaxTime + FutureDrift
Offered(n) ==
    {[prev |-> At(chain[n], h), time |-> time, target |-> target, miner |-> n] :
        h \in 0 .. Height(chain[n]), time \in Times, target \in MinTarget .. MaxTarget}

(* add_block_v2.                                                           *)
AddBlock(n, block) ==
    /\ Height(chain[n]) < MaxHeight
    /\ Acceptable(chain[n], block, now)
    /\ chain' = [chain EXCEPT ![n] = Append(@, block)]
    /\ UNCHANGED now

(* What a peer puts on a branch: a block of its own with any link, time    *)
(* and target, or a block a node has.                                      *)
PeerBlocks(p, below) ==
    [prev : {below, NoBlock}, time : PeerTimes, target : PeerTargets, miner : {p}]
    \cup UNION {{At(chain[n], h) : h \in 1 .. Height(chain[n])} : n \in Nodes}

(* A peer forks any chain at any height.                                   *)
Fork(p, m, h) ==
    /\ h < MaxHeight
    /\ \E block \in PeerBlocks(p, At(chain[m], h)) :
          chain' = [chain EXCEPT ![p] = Append(SubSeq(chain[m], 1, h + 1), block)]
    /\ UNCHANGED now

(* evaluate_candidate of another's chain, and the switch.                  *)
Reorganise(n, m) ==
    /\ Switches(chain[n], chain[m])
    /\ chain' = [chain EXCEPT ![n] =
                     Switched(@, chain[m], CommonAncestor(@, chain[m]))]
    /\ UNCHANGED now

Next ==
    \/ Tick
    \/ \E n \in Nodes : \E block \in Offered(n) : AddBlock(n, block)
    \/ \E p \in Peers, m \in Nodes \cup Peers :
          \E h \in 0 .. Height(chain[m]) : Fork(p, m, h)
    \/ \E n \in Nodes, m \in Nodes \cup Peers : Reorganise(n, m)

Spec == Init /\ [][Next]_vars

-----------------------------------------------------------------------------
(* add_block_v2 and validate_chain write the rules of a block down twice,  *)
(* over a chain that ends below the block and over one that goes on above  *)
(* it.  Whatever chain a node has come to, what the first takes is what    *)
(* the second accepts later, the clock's limit apart.                      *)
AcceptedAsValidated ==
    \A n \in Nodes : \A block \in Offered(n) :
        Acceptable(chain[n], block, now)
            <=> /\ ValidAt(Append(chain[n], block), Len(chain[n]))
                /\ block.time <= now + FutureDrift

(* The work of a node's chain grows whenever the chain changes, whatever   *)
(* the peers offer, so no node ever comes back to a chain it has left.     *)
WorkGrows ==
    [][\A n \in Nodes :
          chain'[n] # chain[n] => BranchWork(chain'[n], -1) > BranchWork(chain[n], -1)]_vars

(* No step replaces a block MaxReorgDepth or more below the tip, whatever  *)
(* branches are offered.                                                   *)
DeepBlocksKept ==
    [][\A n \in Nodes : \A h \in 0 .. Height(chain[n]) - MaxReorgDepth :
          At(chain'[n], h) = At(chain[n], h)]_vars

(* The retargeting never asks for a target block verification refuses,     *)
(* which would leave the chain without any next block: neither on a        *)
(* branch adopted from a peer, whose timestamps nothing has checked.       *)
NextTargetPossible ==
    \A n \in Nodes :
        ExpectedTargetAt(chain[n], Len(chain[n])) \in MinTarget .. MaxTarget

-----------------------------------------------------------------------------
(* What the source and the documents say and the code does not do.         *)

(* "switched=True if candidate wins and is fully validated": a node that   *)
(* has adopted a branch still has a chain validate_chain accepts.          *)
SwitchedIsValid == \A n \in Nodes : ValidChain(chain[n])

(* "If two chains have equal chain work, the tie is broken by the lesser   *)
(* lexicographic hash of the tip"; compare_work keeps the current chain,   *)
(* so neither of two nodes with equal work ever follows the other.         *)
EqualWorkDecided ==
    \A n, m \in Nodes :
        /\ chain[n] # chain[m]
        /\ BranchWork(chain[n], -1) = BranchWork(chain[m], -1)
        => Switches(chain[n], chain[m]) \/ Switches(chain[m], chain[n])
=============================================================================

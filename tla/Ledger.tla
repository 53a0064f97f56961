------------------------------- MODULE Ledger -------------------------------
(***************************************************************************)
(* The consensus rules of a chain (chain.py, block.py): median past time,  *)
(* the proof-of-work target a height must have, what add_block_v2 accepts, *)
(* what validate_chain accepts, and the work of a chain.                   *)
(*                                                                         *)
(* A chain is the sequence of its blocks, genesis first.  A block is       *)
(* identified with its header: two blocks are equal iff their hashes are.  *)
(* Blocks whose proof of work, Merkle root, registry root or transactions  *)
(* are wrong are left out: they are refused whatever the chain.            *)
(***************************************************************************)
EXTENDS Integers, Sequences, FiniteSets, Functions

CONSTANTS
    RetargetInterval,   \* DIFFICULTY_RETARGET_INTERVAL
    BlockTime,          \* TARGET_BLOCK_TIME
    MaxRetargetFactor,  \* MAX_RETARGET_FACTOR
    MinTarget, MaxTarget,
    GenesisTarget,      \* target in the genesis header
    MedianCount,        \* blocks the median past time looks back
    FutureDrift,        \* how far a timestamp may lie ahead of the clock
    WorkScale,          \* 2**256
    NoBlock             \* prev_hash of genesis

ASSUME LedgerAssumption ==
    /\ RetargetInterval \in Nat \ {0, 1}
    /\ BlockTime \in Nat \ {0}
    /\ MaxRetargetFactor \in Nat \ {0}
    /\ MinTarget \in Nat \ {0}
    /\ MaxTarget \in Nat
    /\ GenesisTarget \in MinTarget .. MaxTarget
    /\ MedianCount \in Nat \ {0}
    /\ FutureDrift \in Nat
    /\ WorkScale \in Nat /\ MaxTarget < WorkScale

Genesis ==
    [prev |-> NoBlock, time |-> 0, target |-> GenesisTarget, miner |-> NoBlock]

(* The block at height h, and the height of the last one.                  *)
At(chain, h) == chain[h + 1]
Height(chain) == Len(chain) - 1
LastBlock(chain) == chain[Len(chain)]

AtLeast(a, b) == IF a >= b THEN a ELSE b
AtMost(a, b) == IF a <= b THEN a ELSE b

(* The element in the middle of the sorted values of f, the lower of two.  *)
LowerMedian(f) ==
    LET Below(v) == {x \in DOMAIN f : f[x] < v}
        UpTo(v) == {x \in DOMAIN f : f[x] <= v}
        middle == (Cardinality(DOMAIN f) - 1) \div 2
    IN  CHOOSE v \in Range(f) :
            Cardinality(Below(v)) <= middle /\ middle < Cardinality(UpTo(v))

(* median_past_time of the blocks below height end.                        *)
MedianPastTime(chain, end) ==
    LowerMedian([h \in AtLeast(0, end - MedianCount) .. end - 1 |-> At(chain, h).time])

(* Mutant: the bounds on the target are not applied. *)
RetargetUnbounded(chain, height) ==
    LET previous == At(chain, height - 1).target
        elapsed == AtLeast(1, At(chain, height - 1).time
                                - At(chain, height - RetargetInterval).time)
        scaled == (previous * elapsed) \div (BlockTime * RetargetInterval)
    IN  AtLeast(previous \div MaxRetargetFactor,
                AtMost(previous * MaxRetargetFactor, scaled))

(* retarget: the interval's first and last block are RetargetInterval - 1  *)
(* block times apart.                                                      *)
Retarget(chain, height) ==
    LET previous == At(chain, height - 1).target
        elapsed == AtLeast(1, At(chain, height - 1).time
                                - At(chain, height - RetargetInterval).time)
        scaled == (previous * elapsed) \div (BlockTime * RetargetInterval)
        bounded == AtLeast(MinTarget, AtMost(MaxTarget, scaled))
    IN  AtLeast(previous \div MaxRetargetFactor,
                AtMost(previous * MaxRetargetFactor, bounded))

(* Mutant: the target is read off the last block, not the one below height. *)
ExpectedTargetOfTip(chain, height) ==
    IF height < RetargetInterval THEN At(chain, 0).target
    ELSE IF height % RetargetInterval # 0 THEN LastBlock(chain).target
    ELSE Retarget(chain, height)

(* expected_target_at, which looks only at blocks below height.            *)
ExpectedTargetAt(chain, height) ==
    IF height < RetargetInterval THEN At(chain, 0).target
    ELSE IF height % RetargetInterval # 0 THEN At(chain, height - 1).target
    ELSE Retarget(chain, height)

(* BlockV2.verify without its reference time.                              *)
Verifies(block, median) ==
    /\ block.target \in MinTarget .. MaxTarget
    /\ block.time > 0
    /\ block.time > median

(* add_block_v2 with the clock at now.                                     *)
Acceptable(chain, block, now) ==
    /\ block.prev = LastBlock(chain)
    /\ block.target = ExpectedTargetAt(chain, Len(chain))
    /\ Verifies(block, MedianPastTime(chain, Len(chain)))
    /\ block.time <= now + FutureDrift

(* What validate_chain demands of the block at a height above genesis, and *)
(* of the chain; it has no clock.                                          *)
ValidAt(chain, h) ==
    /\ At(chain, h).prev = At(chain, h - 1)
    /\ At(chain, h).target = ExpectedTargetAt(chain, h)
    /\ Verifies(At(chain, h), MedianPastTime(chain, h))

ValidChain(chain) ==
    /\ At(chain, 0) = Genesis
    /\ \A h \in 1 .. Height(chain) : ValidAt(chain, h)

(* compute_work, and branch_work over the blocks above height from.        *)
ComputeWork(target) == WorkScale \div (target + 1)
BranchWork(chain, from) ==
    SumFunctionOnSet([h \in 0 .. Height(chain) |-> ComputeWork(At(chain, h).target)],
                     from + 1 .. Height(chain))
=============================================================================

---------------------------- MODULE StorageProofs ----------------------------
(* Proofs about the flat-file backend: its block store (Storage), for every  *)
(* set of blocks, height bound and snapshot interval, and the lock file that *)
(* keeps a second backend out (WriterLock), for any number of processes.     *)
(* Part 1, type correctness, and part 3, what recovery leaves and what a     *)
(* rising HEAD names, allow every fault; parts 2 and 4, durability and the   *)
(* refinement of DurableChain, assume what the store is designed for: no     *)
(* torn journal record, no height cap given to recovery, no damaged file,    *)
(* and callers that append children of the stored tip and switch to stored   *)
(* chains.  Part 5 is the lock.                                              *)
EXTENDS StorageRefinement, WriterLock, TLAPS, NaturalsInduction, WellFoundedInduction,
        SequenceTheorems

-----------------------------------------------------------------------------
(* HighestOf, the maximum the backward walk and the index rebuild take, is   *)
(* an element of its argument whenever that is a non-empty set of heights.   *)
LEMMA HighestOfElement ==
    ASSUME NEW n \in Nat, NEW S \in SUBSET (0 .. n), S # {}
    PROVE  /\ HighestOf(S) \in S
           /\ \A j \in S : j <= HighestOf(S)
<1> DEFINE T == {k \in Nat : k <= n /\ n - k \in S}
<1>1. T \subseteq Nat
  OBVIOUS
<1>2. T # {}
  <2>1. PICK i \in S : TRUE
    OBVIOUS
  <2>2. n - i \in T
    BY <2>1
  <2> QED
    BY <2>2
<1>3. PICK k \in T : \A j \in T : ~(<<j, k>> \in OpToRel(<, Nat))
  BY <1>1, <1>2, NatLessThanWellFounded, WFMin
<1>4. \A j \in T : ~(j < k)
  BY <1>3 DEF OpToRel
<1>5. n - k \in S
  OBVIOUS
<1>6. \A j \in S : j <= n - k
  <2> TAKE j \in S
  <2>1. n - j \in T
    OBVIOUS
  <2>2. ~(n - j < k)
    BY <1>4, <2>1
  <2> QED
    BY <2>2
<1>7. \E i \in S : \A j \in S : j <= i
  BY <1>5, <1>6
<1> QED
  BY <1>7 DEF HighestOf

(* It is a height also when the argument is empty. *)
LEMMA HighestOfType ==
    ASSUME NEW n \in Nat, NEW S \in SUBSET (0 .. n)
    PROVE  HighestOf(S) \in 0 .. n
<1>1. CASE S = {}
  BY <1>1 DEF HighestOf
<1>2. CASE S # {}
  BY <1>2, HighestOfElement
<1> QED
  BY <1>1, <1>2

-----------------------------------------------------------------------------
(* Part 1.  The local variables of the operation in progress have the types  *)
(* its writes need: append_block stores a block at a height, a snapshot goes *)
(* to a height, tip switches and recoveries put a hash into HEAD.            *)
OpTyped ==
    /\ pc \in AppendPcs => op.height \in Heights /\ op.hash \in Blocks
    /\ pc \in SwitchPcs \cup RecoveryPcs => op.hash \in Hashes
    /\ pc \in SnapshotPcs => op.height \in Heights
    /\ pc = "dropMeta" => op.at \in Heights

TypeInv == TypeOK /\ OpTyped

USE DEF Heights, Hashes, File, StateFile
USE StorageAssumption

LEMMA TypeInit == Init => TypeInv
BY DEF Init, TypeInv, TypeOK, OpTyped, JournalState, EmptyJournal, Op, NoOp,
       Running, ClosedPcs, AppendPcs, SwitchPcs, SnapshotPcs, RecoveryPcs,
       RecordTypes

LEMMA LoggedType ==
    ASSUME TypeOK, NEW type, NEW h \in 0 .. MaxHeight
    PROVE  Logged(type, h) \in JournalState
BY DEF TypeOK, Logged, JournalState

LEMMA InterruptedType ==
    ASSUME TypeOK
    PROVE  Interrupted \subseteq JournalState
BY DEF TypeOK, Interrupted, JournalState

(* What the callers pass, and what more is known of it without faults. *)
LEMMA AppendedBlocks ==
    ASSUME NEW b \in Appended
    PROVE  /\ b \in Blocks
           /\ Faults = {} => Parent[b] = BlockAt(head.height)
BY DEF Appended

LEMMA SwitchTargets ==
    ASSUME TypeOK, NEW t \in SwitchedTo
    PROVE  /\ t[1] \in SwitchHeights
           /\ t[2] \in Hashes
           /\ Faults = {} => LinkedUpTo(t[1]) /\ t[2] = BlockAt(t[1])
<1>1. CASE "unlinked" \in Faults
  BY <1>1 DEF SwitchedTo
<1>2. CASE "unlinked" \notin Faults
  <2>1. PICK h \in SwitchHeights : LinkedUpTo(h) /\ t = <<h, BlockAt(h)>>
    BY <1>2 DEF SwitchedTo
  <2>2. BlockAt(h) \in Hashes
    BY <2>1 DEF BlockAt, LinkedUpTo, TypeOK
  <2> QED
    BY <2>1, <2>2
<1> QED
  BY <1>1, <1>2

LEMMA TypeAppend ==
    ASSUME TypeInv, AppendBlock
    PROVE  TypeInv'
<1> USE DEF TypeInv, TypeOK, OpTyped, AppendPcs, SwitchPcs, SnapshotPcs,
            WriterPcs, RecoveryPcs, ClosedPcs, RecordTypes, Op, NoOp, Running,
            files, indexes
<1>1. ASSUME NEW b \in Appended, BeginAppend(b) PROVE TypeInv'
  <2>1. b \in Blocks /\ Parent[b] \in Hashes
    BY AppendedBlocks
  <2> QED
    BY <1>1, <2>1 DEF BeginAppend
<1>2. ASSUME NEW type \in RecordTypes, LogRecord(type) PROVE TypeInv'
  <2>1. op.height \in 0 .. MaxHeight
    OBVIOUS
  <2>2. journal' \in JournalState
    BY <1>2, <2>1, LoggedType DEF LogRecord
  <2> QED
    BY <1>2, <2>2 DEF LogRecord, AfterRecord
<1>3. CASE PublishHeader
  BY <1>3 DEF PublishHeader
<1>4. CASE PublishBlock
  BY <1>4 DEF PublishBlock
<1>5. CASE PublishSnapshot
  BY <1>5 DEF PublishSnapshot
<1>6. CASE IndexHeight
  BY <1>6 DEF IndexHeight
<1>7. CASE IndexHash
  BY <1>7 DEF IndexHash
<1>8. CASE PublishHead
  BY <1>8 DEF PublishHead
<1> QED
  BY <1>1, <1>2, <1>3, <1>4, <1>5, <1>6, <1>7, <1>8 DEF AppendBlock

LEMMA TypeSnapshot ==
    ASSUME TypeInv, WriteSnapshot
    PROVE  TypeInv'
<1> USE DEF TypeInv, TypeOK, OpTyped, AppendPcs, SwitchPcs, SnapshotPcs,
            WriterPcs, RecoveryPcs, ClosedPcs, RecordTypes, Op, NoOp, Running,
            files, indexes
<1>1. ASSUME NEW h \in SnapshotHeights, BeginSnapshot(h) PROVE TypeInv'
  BY <1>1 DEF BeginSnapshot
<1>2. CASE SnapshotState
  BY <1>2 DEF SnapshotState
<1>3. CASE SnapshotMeta
  BY <1>3 DEF SnapshotMeta
<1> QED
  BY <1>1, <1>2, <1>3 DEF WriteSnapshot

(* The index a rebuild derives from the block files is well typed. *)
LEMMA IndexedType ==
    ASSUME TypeOK, NEW h \in 0 .. MaxHeight
    PROVE  /\ Indexed(h) \in [Heights -> File]
           /\ IndexedHash(h) \in [Blocks -> 0 .. MaxHeight]
<1>1. Indexed(h) \in [Heights -> File]
  BY DEF TypeOK, Indexed
<1>2. \A b \in Blocks : HighestOf(StoredAt(b, h)) \in 0 .. MaxHeight
  <2> TAKE b \in Blocks
  <2>1. StoredAt(b, h) \in SUBSET (0 .. MaxHeight)
    BY DEF StoredAt
  <2> QED
    BY <2>1, HighestOfType
<1> QED
  BY <1>1, <1>2 DEF IndexedHash

LEMMA TypeSwitch ==
    ASSUME TypeInv, TipSwitch
    PROVE  TypeInv'
<1> USE DEF TypeInv, TypeOK, OpTyped, AppendPcs, SwitchPcs, SnapshotPcs,
            WriterPcs, RecoveryPcs, ClosedPcs, RecordTypes, Op, NoOp, Running,
            files, indexes
<1>1. ASSUME NEW t \in SwitchedTo, BeginSwitch(t[1], t[2]) PROVE TypeInv'
  <2>1. t[1] \in 0 .. MaxHeight /\ t[2] \in Hashes
    BY SwitchTargets
  <2> QED
    BY <1>1, <2>1 DEF BeginSwitch
<1>2. CASE SwitchCommit
  <2>1. op.height \in 0 .. MaxHeight
    OBVIOUS
  <2>2. journal' \in JournalState
    BY <1>2, <2>1, LoggedType DEF SwitchCommit
  <2> QED
    BY <1>2, <2>2 DEF SwitchCommit
<1>3. CASE SwitchHead
  BY <1>3 DEF SwitchHead
<1>4. CASE SwitchIndexHeight
  BY <1>4, IndexedType DEF SwitchIndexHeight
<1>5. CASE SwitchIndexHash
  <2>1. byHash' \in [Blocks -> 0 .. MaxHeight]
    BY <1>5, IndexedType DEF SwitchIndexHash
  <2> QED
    BY <1>5, <2>1 DEF SwitchIndexHash
<1> QED
  BY <1>1, <1>2, <1>3, <1>4, <1>5 DEF TipSwitch

(* Recovery settles on a height within the store and on a block hash. *)
LEMMA SafeType ==
    ASSUME TypeOK, NEW safe \in 0 .. MaxHeight
    PROVE  /\ SafeHeight(safe) \in 0 .. MaxHeight
           /\ SafeHash(safe) \in Hashes
<1>1. SafeHeight(safe) \in 0 .. MaxHeight
  <2>1. CASE Rejected(safe) = {}
    BY <2>1 DEF SafeHeight
  <2>2. CASE Rejected(safe) # {}
    <3>1. Rejected(safe) \in SUBSET (0 .. MaxHeight)
      BY DEF Rejected
    <3>2. HighestOf(Rejected(safe)) \in 1 .. safe
      BY <2>2, <3>1, HighestOfElement DEF Rejected
    <3> QED
      BY <2>2, <3>2 DEF SafeHeight
  <2> QED
    BY <2>1, <2>2
<1>2. SafeHash(safe) \in Hashes
  <2>1. HeadHash \in Hashes
    BY DEF TypeOK, HeadHash
  <2>2. CASE Rejected(safe) = {} /\ safe # 0
    <3>1. VerifiedAt(1, safe)
      BY <2>2 DEF Rejected
    <3>2. block[1] \in Blocks
      BY <2>2, <3>1 DEF TypeOK, VerifiedAt
    <3> QED
      BY <2>2, <3>2 DEF SafeHash
  <2> QED
    BY <2>1, <2>2 DEF SafeHash
<1> QED
  BY <1>1, <1>2

LEMMA TypeRecovery ==
    ASSUME TypeInv, Recovery
    PROVE  TypeInv'
<1> USE DEF TypeInv, TypeOK, OpTyped, AppendPcs, SwitchPcs, SnapshotPcs,
            WriterPcs, RecoveryPcs, ClosedPcs, RecordTypes, Op, NoOp, Running,
            files, indexes
<1>1. ASSUME NEW cap \in Caps, BeginRecovery(cap) PROVE TypeInv'
  <2> DEFINE safe == Lower(Lower(HeadHeight, journal.commit), cap)
  <2>1. safe \in 0 .. MaxHeight
    BY DEF Caps, Lower, HeadHeight, JournalState
  <2>2. /\ SafeHeight(safe) \in 0 .. MaxHeight
        /\ SafeHash(safe) \in Hashes
    BY <2>1, SafeType
  <2>3. op' = Running(SafeHeight(safe), SafeHash(safe), None)
    BY <1>1 DEF BeginRecovery
  <2> HIDE DEF safe
  <2> QED
    BY <1>1, <2>2, <2>3 DEF BeginRecovery
<1>2. CASE DropHeader
  BY <1>2 DEF DropHeader, AboveSafe
<1>3. CASE DropBlock
  BY <1>3 DEF DropBlock, AboveSafe
<1>4. CASE DropSnapshot
  <2>1. ASSUME NEW h \in AboveSafe(snap), snap' = [snap EXCEPT ![h] = None],
               op' = At(h), pc' = "dropMeta"
        PROVE  TypeInv'
    <3>1. h \in Heights
      BY <2>1 DEF AboveSafe
    <3>2. op' \in Op /\ op'.at = h /\ op'.hash = op.hash
      BY <2>1, <3>1 DEF At
    <3> QED
      BY <1>4, <2>1, <3>1, <3>2 DEF DropSnapshot
  <2>2. CASE pc' = "recoverHead" /\ UNCHANGED <<snap, op>>
    BY <1>4, <2>2 DEF DropSnapshot
  <2> QED
    BY <1>4, <2>1, <2>2 DEF DropSnapshot
<1>5. CASE DropMeta
  <2>1. op' \in Op /\ op'.hash = op.hash
    BY <1>5 DEF DropMeta, At
  <2> QED
    BY <1>5, <2>1 DEF DropMeta
<1>6. CASE RecoverHead
  BY <1>6 DEF RecoverHead
<1>7. CASE RecoverIndexHeight
  BY <1>7, IndexedType DEF RecoverIndexHeight
<1>8. CASE RecoverIndexHash
  <2>1. byHash' \in [Blocks -> 0 .. MaxHeight]
    BY <1>8, IndexedType DEF RecoverIndexHash
  <2> QED
    BY <1>8, <2>1 DEF RecoverIndexHash
<1> QED
  BY <1>1, <1>2, <1>3, <1>4, <1>5, <1>6, <1>7, <1>8 DEF Recovery

LEMMA TypeNext == TypeInv /\ [Next]_vars => TypeInv'
<1> SUFFICES ASSUME TypeInv, [Next]_vars PROVE TypeInv'
  OBVIOUS
<1> USE DEF TypeInv, TypeOK, OpTyped, AppendPcs, SwitchPcs, SnapshotPcs,
            WriterPcs, RecoveryPcs, ClosedPcs, RecordTypes, Op, NoOp, Running,
            files, indexes
<1>1. CASE Open
  BY <1>1 DEF Open
<1>2. CASE Close
  BY <1>2 DEF Close
<1>3. CASE Raise
  BY <1>3, InterruptedType DEF Raise
<1>4. CASE Crash
  BY <1>4, InterruptedType DEF Crash
<1>5. CASE Corrupt
  BY <1>5 DEF Corrupt, CorruptHeader, CorruptBlock, CorruptHead
<1>6. CASE UNCHANGED vars
  BY <1>6 DEF vars
<1> QED
  BY <1>1, <1>2, <1>3, <1>4, <1>5, <1>6, TypeAppend, TypeSnapshot,
     TypeSwitch, TypeRecovery DEF Next

(* Every file, index, journal and local variable of the store keeps its      *)
(* type in every behaviour, whatever faults occur.                           *)
THEOREM TypeCorrect == Spec => []TypeOK
<1>1. TypeInv => TypeOK
  BY DEF TypeInv
<1> QED
  BY <1>1, TypeInit, TypeNext, PTL DEF Spec

-----------------------------------------------------------------------------
(* Part 2.  HeadDurable is not inductive: it depends on what the operation   *)
(* in progress has already written when it replaces HEAD.                    *)

BlockWritten == {"publishSnapshot", "indexHeight", "indexHash", "INDEX_STAGED",
                 "COMMIT", "publishHead"}
HeaderWritten == BlockWritten \cup {"publishBlock"}

(* An append works one height above HEAD, on a child of the block HEAD       *)
(* names, and its header and block are published before it goes on.          *)
AppendAhead ==
    /\ pc \in AppendPcs => op.height = head.height + 1 /\ Parent[op.hash] = head.hash
    /\ pc \in HeaderWritten => header[op.height] = op.hash
    /\ pc \in BlockWritten => block[op.height] = op.hash

(* A tip switch keeps its target chain on disk until HEAD names it. *)
SwitchReady ==
    pc \in {"switchCommit", "switchHead"} =>
        LinkedUpTo(op.height) /\ op.hash = BlockAt(op.height)

(* The COMMIT record is durable before HEAD is replaced. *)
CommitBeforeHead ==
    pc \in {"publishHead", "switchHead"} => op.height <= journal.commit

(* Recovery settles on HEAD itself and deletes only above it. *)
RecoveryKeepsHead == pc \in RecoveryPcs => op.height = head.height

DurableInv ==
    /\ TypeInv
    /\ HeadDurable
    /\ ~journal.torn
    /\ AppendAhead
    /\ SwitchReady
    /\ CommitBeforeHead
    /\ RecoveryKeepsHead

LEMMA DurableInit == Init => DurableInv
<1> SUFFICES ASSUME Init PROVE DurableInv
  OBVIOUS
<1>1. TypeInv
  BY TypeInit
<1> QED
  BY <1>1 DEF Init, DurableInv, HeadDurable, AppendAhead, SwitchReady, CommitBeforeHead,
     RecoveryKeepsHead, LinkedUpTo, BlockAt, EmptyJournal, AppendPcs,
     RecoveryPcs, RecordTypes, HeaderWritten, BlockWritten

(* A linked chain stays linked while its headers and blocks are not touched. *)
LEMMA LinkedFrame ==
    ASSUME NEW n \in Nat, LinkedUpTo(n),
           \A i \in 1 .. n : header'[i] = header[i] /\ block'[i] = block[i]
    PROVE  LinkedUpTo(n)'
BY DEF LinkedUpTo

(* A journal append never lowers the highest COMMIT. *)
LEMMA LoggedCommit ==
    ASSUME TypeOK, ~journal.torn, NEW type, NEW h \in 0 .. MaxHeight
    PROVE  /\ ~Logged(type, h).torn
           /\ Logged(type, h).commit >= journal.commit
           /\ type = "COMMIT" => Logged(type, h).commit >= h
BY DEF TypeOK, Logged, JournalState

(* The steps that leave alone HEAD and the headers and blocks it stands on,  *)
(* and lose no COMMIT, keep HeadDurable.                                     *)
LEMMA HeadFrame ==
    ASSUME HeadDurable, TypeOK, head' = head,
           \A i \in 1 .. head.height : header'[i] = header[i] /\ block'[i] = block[i],
           journal'.commit >= journal.commit, journal' \in JournalState
    PROVE  HeadDurable'
<1>1. head.height \in Nat
  BY DEF TypeOK
<1>2. LinkedUpTo(head.height)'
  BY <1>1 DEF HeadDurable, LinkedUpTo
<1>3. head'.hash = BlockAt(head.height)'
  BY <1>1 DEF HeadDurable, BlockAt
<1> QED
  BY <1>1, <1>2, <1>3 DEF HeadDurable, TypeOK, JournalState

LEMMA DurableAppend ==
    ASSUME DurableInv, AppendBlock, Faults = {}
    PROVE  DurableInv'
<1> USE DEF AppendPcs, SwitchPcs, SnapshotPcs, RecoveryPcs, RecordTypes,
            HeaderWritten, BlockWritten, files, indexes
<1>t. TypeInv /\ TypeOK /\ TypeInv'
  BY TypeAppend DEF DurableInv, TypeInv
<1>a. TypeOK'
  BY <1>t DEF TypeInv
<1>1. ASSUME NEW b \in Appended, BeginAppend(b) PROVE DurableInv'
  <2>1. Parent[b] = head.hash
    BY AppendedBlocks DEF DurableInv, HeadDurable
  <2>2. HeadDurable'
    BY <1>1, <1>t, <1>a, HeadFrame DEF BeginAppend, DurableInv, TypeOK, JournalState
  <2>3. AppendAhead'
    BY <1>1, <2>1 DEF BeginAppend, AppendAhead, Running
  <2> QED
    BY <1>1, <1>t, <2>2, <2>3 DEF BeginAppend, DurableInv, SwitchReady,
       CommitBeforeHead, RecoveryKeepsHead
<1>2. ASSUME NEW type \in RecordTypes, LogRecord(type) PROVE DurableInv'
  <2>1. /\ ~journal'.torn
        /\ journal'.commit >= journal.commit
        /\ type = "COMMIT" => journal'.commit >= op.height
    BY <1>2, <1>t, LoggedCommit DEF LogRecord, DurableInv, TypeOK, Op
  <2>2. HeadDurable'
    BY <1>2, <1>t, <1>a, <2>1, HeadFrame DEF LogRecord, DurableInv, TypeOK
  <2>3. AppendAhead'
    BY <1>2 DEF LogRecord, AfterRecord, DurableInv, AppendAhead
  <2>4. CommitBeforeHead'
    BY <1>2, <1>t, <1>a, <2>1 DEF LogRecord, AfterRecord, CommitBeforeHead, TypeOK,
       Op, JournalState
  <2> QED
    BY <1>2, <1>t, <2>1, <2>2, <2>3, <2>4 DEF LogRecord, AfterRecord, DurableInv,
       SwitchReady, RecoveryKeepsHead
<1>3. CASE PublishHeader
  <2>1. op.height \in Heights /\ op.height = head.height + 1 /\ head.height \in Nat
    BY <1>3, <1>t DEF PublishHeader, DurableInv, AppendAhead, TypeInv, OpTyped, TypeOK
  <2>2. \A i \in 1 .. head.height : header'[i] = header[i] /\ block'[i] = block[i]
    BY <1>3, <1>t, <2>1 DEF PublishHeader, TypeOK
  <2>3. HeadDurable'
    BY <1>3, <1>t, <2>2, HeadFrame DEF PublishHeader, DurableInv, TypeOK, JournalState
  <2>4. AppendAhead'
    BY <1>3, <1>t, <2>1 DEF PublishHeader, DurableInv, AppendAhead, TypeOK
  <2> QED
    BY <1>3, <1>t, <2>3, <2>4 DEF PublishHeader, DurableInv, SwitchReady,
       CommitBeforeHead, RecoveryKeepsHead
<1>4. CASE PublishBlock
  <2>1. op.height \in Heights /\ op.height = head.height + 1 /\ head.height \in Nat
    BY <1>4, <1>t DEF PublishBlock, DurableInv, AppendAhead, TypeInv, OpTyped, TypeOK
  <2>2. \A i \in 1 .. head.height : header'[i] = header[i] /\ block'[i] = block[i]
    BY <1>4, <1>t, <2>1 DEF PublishBlock, TypeOK
  <2>3. HeadDurable'
    BY <1>4, <1>t, <2>2, HeadFrame DEF PublishBlock, DurableInv, TypeOK, JournalState
  <2>4. AppendAhead'
    BY <1>4, <1>t, <2>1 DEF PublishBlock, DurableInv, AppendAhead, TypeOK
  <2> QED
    BY <1>4, <1>t, <2>3, <2>4 DEF PublishBlock, DurableInv, SwitchReady,
       CommitBeforeHead, RecoveryKeepsHead
<1>5. CASE PublishSnapshot \/ IndexHeight \/ IndexHash
  <2>1. UNCHANGED <<head, journal, header, block, op>>
    BY <1>5 DEF PublishSnapshot, IndexHeight, IndexHash
  <2>2. HeadDurable'
    BY <2>1, <1>t, <1>a, HeadFrame DEF DurableInv, TypeOK, JournalState
  <2>3. AppendAhead'
    BY <1>5, <2>1 DEF PublishSnapshot, IndexHeight, IndexHash, DurableInv, AppendAhead
  <2> QED
    BY <1>5, <1>t, <2>1, <2>2, <2>3 DEF PublishSnapshot, IndexHeight, IndexHash,
       DurableInv, SwitchReady, CommitBeforeHead, RecoveryKeepsHead
<1>6. CASE PublishHead
  <2>1. /\ op.height \in Heights /\ op.height = head.height + 1
        /\ head.height \in Nat /\ op.hash \in Blocks
    BY <1>6, <1>t DEF PublishHead, DurableInv, AppendAhead, TypeInv, OpTyped, TypeOK
  <2>2. /\ header[op.height] = op.hash /\ block[op.height] = op.hash
        /\ Parent[op.hash] = head.hash /\ op.height <= journal.commit
    BY <1>6 DEF PublishHead, DurableInv, AppendAhead, CommitBeforeHead
  <2>3. head.hash = BlockAt(head.height)
    BY DEF DurableInv, HeadDurable
  <2>4. LinkedUpTo(op.height)
    BY <2>1, <2>2, <2>3 DEF DurableInv, HeadDurable, LinkedUpTo, BlockAt
  <2>5. /\ head'.ok /\ head'.height = op.height /\ head'.hash = op.hash
        /\ UNCHANGED <<journal, header, block>> /\ pc' = "idle"
    BY <1>6 DEF PublishHead
  <2>6. LinkedUpTo(head.height)'
    BY <2>4, <2>5 DEF LinkedUpTo
  <2>7. HeadDurable'
    BY <2>1, <2>2, <2>5, <2>6 DEF HeadDurable, BlockAt
  <2> QED
    BY <1>t, <2>5, <2>7 DEF DurableInv, AppendAhead, SwitchReady,
       CommitBeforeHead, RecoveryKeepsHead
<1> QED
  BY <1>1, <1>2, <1>3, <1>4, <1>5, <1>6 DEF AppendBlock

LEMMA DurableSnapshot ==
    ASSUME DurableInv, WriteSnapshot
    PROVE  DurableInv'
<1> USE DEF AppendPcs, SwitchPcs, SnapshotPcs, RecoveryPcs, RecordTypes,
            HeaderWritten, BlockWritten, files, indexes
<1>t. TypeOK /\ TypeInv'
  BY TypeSnapshot DEF DurableInv, TypeInv
<1>1. UNCHANGED <<head, journal, header, block>> /\ pc' \in {"snapState", "snapMeta", "idle"}
  BY DEF WriteSnapshot, BeginSnapshot, SnapshotState, SnapshotMeta
<1>2. HeadDurable'
  BY <1>1, <1>t, HeadFrame DEF DurableInv, TypeOK, JournalState
<1> QED
  BY <1>1, <1>2, <1>t DEF DurableInv, AppendAhead, SwitchReady, CommitBeforeHead,
     RecoveryKeepsHead

LEMMA DurableSwitch ==
    ASSUME DurableInv, TipSwitch, Faults = {}
    PROVE  DurableInv'
<1> USE DEF AppendPcs, SwitchPcs, SnapshotPcs, RecoveryPcs, RecordTypes,
            HeaderWritten, BlockWritten, files, indexes
<1>t. TypeOK /\ TypeInv /\ TypeInv'
  BY TypeSwitch DEF DurableInv, TypeInv
<1>a. TypeOK'
  BY <1>t DEF TypeInv
<1>1. ASSUME NEW t \in SwitchedTo, BeginSwitch(t[1], t[2]) PROVE DurableInv'
  <2> DEFINE h == t[1]
  <2>0. h \in SwitchHeights /\ LinkedUpTo(h) /\ t[2] = BlockAt(h)
    BY <1>t, SwitchTargets
  <2>1. HeadDurable'
    BY <1>1, <1>t, HeadFrame DEF BeginSwitch, DurableInv, TypeOK, JournalState
  <2>2. op'.height = h /\ op'.hash = BlockAt(h) /\ LinkedUpTo(h)
    BY <1>1, <2>0 DEF BeginSwitch, Running
  <2>3. UNCHANGED <<header, block>> /\ pc' = "switchCommit"
    BY <1>1 DEF BeginSwitch
  <2> HIDE DEF h
  <2>4. SwitchReady'
    BY <2>2, <2>3 DEF SwitchReady, LinkedUpTo, BlockAt
  <2> QED
    BY <1>1, <1>t, <2>1, <2>4 DEF BeginSwitch, DurableInv, AppendAhead,
       CommitBeforeHead, RecoveryKeepsHead
<1>2. CASE SwitchCommit
  <2>1. /\ ~journal'.torn
        /\ journal'.commit >= journal.commit
        /\ journal'.commit >= op.height
    BY <1>2, <1>t, LoggedCommit DEF SwitchCommit, DurableInv, TypeOK, Op
  <2>2. HeadDurable'
    BY <1>2, <1>t, <1>a, <2>1, HeadFrame DEF SwitchCommit, DurableInv, TypeOK
  <2>3. SwitchReady'
    BY <1>2 DEF SwitchCommit, DurableInv, SwitchReady, LinkedUpTo, BlockAt
  <2>4. CommitBeforeHead'
    BY <1>2, <1>t, <1>a, <2>1 DEF SwitchCommit, CommitBeforeHead, TypeOK, Op,
       JournalState
  <2> QED
    BY <1>2, <1>t, <2>1, <2>2, <2>3, <2>4 DEF SwitchCommit, DurableInv, AppendAhead,
       RecoveryKeepsHead
<1>3. CASE SwitchHead
  <2>1. /\ LinkedUpTo(op.height) /\ op.hash = BlockAt(op.height)
        /\ op.height <= journal.commit
    BY <1>3 DEF SwitchHead, DurableInv, SwitchReady, CommitBeforeHead
  <2>2. /\ head'.ok /\ head'.height = op.height /\ head'.hash = op.hash
        /\ UNCHANGED <<journal, header, block>> /\ pc' = "switchIndexHeight"
    BY <1>3 DEF SwitchHead
  <2>3. HeadDurable'
    BY <2>1, <2>2 DEF HeadDurable, LinkedUpTo, BlockAt
  <2> QED
    BY <1>t, <2>2, <2>3 DEF DurableInv, AppendAhead, SwitchReady, CommitBeforeHead,
       RecoveryKeepsHead
<1>4. CASE SwitchIndexHeight \/ SwitchIndexHash
  <2>1. /\ UNCHANGED <<head, journal, header, block>>
        /\ pc' \in {"switchIndexHash", "idle"}
    BY <1>4 DEF SwitchIndexHeight, SwitchIndexHash
  <2>2. HeadDurable'
    BY <2>1, <1>t, HeadFrame DEF DurableInv, TypeOK, JournalState
  <2> QED
    BY <2>1, <2>2, <1>t DEF DurableInv, AppendAhead, SwitchReady, CommitBeforeHead,
       RecoveryKeepsHead
<1> QED
  BY <1>1, <1>2, <1>3, <1>4 DEF TipSwitch

(* On a durable HEAD the backward walk accepts every block down to genesis,  *)
(* so recovery keeps the height it started from.                             *)
LEMMA WalkAccepts ==
    ASSUME TypeOK, HeadDurable
    PROVE  SafeHeight(head.height) = head.height
<1>1. head.height \in Nat /\ head.height <= MaxHeight
  BY DEF TypeOK
<1>2. HeadHash = BlockAt(head.height)
  BY DEF HeadDurable, HeadHash
<1>3. ASSUME NEW h \in 1 .. head.height PROVE VerifiedAt(h, head.height)
  <2>1. header[h] # None /\ header[h] = block[h]
    BY <1>1 DEF HeadDurable, LinkedUpTo
  <2>2. CASE h = head.height
    BY <1>1, <1>2, <2>1, <2>2 DEF VerifiedAt, ExpectedAt, BlockAt
  <2>3. CASE h # head.height
    <3>1. h + 1 \in 1 .. head.height /\ h + 1 # 1 /\ (h + 1) - 1 = h
      BY <1>1, <2>3
    <3>2. block[h + 1] # None /\ Parent[block[h + 1]] = block[(h + 1) - 1]
      BY <3>1 DEF HeadDurable, LinkedUpTo
    <3> QED
      BY <2>1, <2>3, <3>1, <3>2 DEF VerifiedAt, ExpectedAt
  <2> QED
    BY <2>2, <2>3
<1> QED
  BY <1>3 DEF SafeHeight, Rejected

LEMMA DurableRecovery ==
    ASSUME DurableInv, Recovery, Faults = {}
    PROVE  DurableInv'
<1> USE DEF AppendPcs, SwitchPcs, SnapshotPcs, RecoveryPcs, RecordTypes,
            HeaderWritten, BlockWritten, files, indexes
<1>t. TypeOK /\ TypeInv /\ TypeInv'
  BY TypeRecovery DEF DurableInv, TypeInv
<1>h. head.height \in Nat /\ head.height <= MaxHeight /\ HeadHeight = head.height
  BY <1>t DEF TypeOK, DurableInv, HeadDurable, HeadHeight
<1>1. ASSUME NEW cap \in Caps, BeginRecovery(cap) PROVE DurableInv'
  <2>1. cap = MaxHeight
    BY DEF Caps
  <2>2. Lower(Lower(HeadHeight, journal.commit), cap) = head.height
    BY <2>1, <1>h, <1>t DEF Lower, DurableInv, HeadDurable, TypeOK, JournalState
  <2>3. op'.height = head.height
    BY <1>1, <1>t, <2>2, WalkAccepts DEF BeginRecovery, Running, DurableInv
  <2>4. UNCHANGED <<head, journal, header, block>> /\ pc' = "dropHeaders"
    BY <1>1 DEF BeginRecovery
  <2>5. HeadDurable'
    BY <2>4, <1>t, HeadFrame DEF DurableInv, TypeOK, JournalState
  <2> QED
    BY <2>3, <2>4, <2>5, <1>t DEF DurableInv, AppendAhead, SwitchReady,
       CommitBeforeHead, RecoveryKeepsHead
<1>2. CASE DropHeader \/ DropBlock
  <2>1. op.height = head.height
    BY <1>2 DEF DropHeader, DropBlock, DurableInv, RecoveryKeepsHead
  <2>2. \A i \in 1 .. head.height : header'[i] = header[i] /\ block'[i] = block[i]
    BY <1>2, <1>h, <1>t, <2>1 DEF DropHeader, DropBlock, AboveSafe, TypeOK
  <2>3. /\ UNCHANGED <<head, journal, op>>
        /\ pc' \in {"dropHeaders", "dropBlocks", "dropSnapshots"}
    BY <1>2 DEF DropHeader, DropBlock
  <2>4. HeadDurable'
    BY <2>2, <2>3, <1>t, HeadFrame DEF DurableInv, TypeOK, JournalState
  <2> QED
    BY <2>1, <2>3, <2>4, <1>t DEF DurableInv, AppendAhead, SwitchReady,
       CommitBeforeHead, RecoveryKeepsHead
<1>3. CASE DropSnapshot \/ DropMeta \/ RecoverHead \/ RecoverIndexHeight
  <2>1. op.height = head.height
    BY <1>3 DEF DropSnapshot, DropMeta, RecoverHead, RecoverIndexHeight, DurableInv,
       RecoveryKeepsHead
  <2>2. /\ UNCHANGED <<head, journal, header, block>>
        /\ op'.height = op.height
        /\ pc' \in {"dropSnapshots", "dropMeta", "recoverHead", "recoverIndexHeight",
                    "recoverIndexHash"}
    BY <1>3, <1>h, <2>1 DEF DropSnapshot, DropMeta, RecoverHead, RecoverIndexHeight, At
  <2>3. HeadDurable'
    BY <2>2, <1>t, HeadFrame DEF DurableInv, TypeOK, JournalState
  <2> QED
    BY <2>1, <2>2, <2>3, <1>t DEF DurableInv, AppendAhead, SwitchReady,
       CommitBeforeHead, RecoveryKeepsHead
<1>4. CASE RecoverIndexHash
  <2>1. UNCHANGED <<head, journal, header, block>> /\ pc' = "recovered"
    BY <1>4 DEF RecoverIndexHash
  <2>2. HeadDurable'
    BY <2>1, <1>t, HeadFrame DEF DurableInv, TypeOK, JournalState
  <2> QED
    BY <2>1, <2>2, <1>t DEF DurableInv, AppendAhead, SwitchReady, CommitBeforeHead,
       RecoveryKeepsHead
<1> QED
  BY <1>1, <1>2, <1>3, <1>4 DEF Recovery

LEMMA DurableNext ==
    ASSUME Faults = {}
    PROVE  DurableInv /\ [Next]_vars => DurableInv'
<1> SUFFICES ASSUME DurableInv, [Next]_vars PROVE DurableInv'
  OBVIOUS
<1> USE DEF AppendPcs, SwitchPcs, SnapshotPcs, RecoveryPcs, ClosedPcs, RecordTypes,
            HeaderWritten, BlockWritten, files, indexes
<1>t. TypeOK /\ TypeInv'
  BY TypeNext DEF DurableInv, TypeInv
<1>1. CASE Open \/ Close \/ Raise \/ Crash
  <2>1. UNCHANGED <<head, journal, header, block>> /\ pc' \in {"idle", "closed", "crashed"}
    BY <1>1 DEF Open, Close, Raise, Crash, Interrupted
  <2>2. HeadDurable'
    BY <2>1, <1>t, HeadFrame DEF DurableInv, TypeOK, JournalState
  <2> QED
    BY <2>1, <2>2, <1>t DEF DurableInv, AppendAhead, SwitchReady, CommitBeforeHead,
       RecoveryKeepsHead
<1>2. ~Corrupt
  BY DEF Corrupt
<1>3. CASE UNCHANGED vars
  BY <1>3, <1>t DEF vars, DurableInv, HeadDurable, AppendAhead, SwitchReady,
     CommitBeforeHead, RecoveryKeepsHead, LinkedUpTo, BlockAt
<1> QED
  BY <1>1, <1>2, <1>3, DurableAppend, DurableSnapshot, DurableSwitch,
     DurableRecovery DEF Next

(* Without torn records, caps and damage, and with callers that append and   *)
(* switch to linked blocks, HEAD always names a completely stored, committed *)
(* and linked chain, wherever a crash or an error struck.                    *)
THEOREM HeadAlwaysDurable ==
    ASSUME Faults = {}
    PROVE  Spec => []HeadDurable
<1>1. DurableInv => HeadDurable
  BY DEF DurableInv
<1> QED
  BY <1>1, DurableInit, DurableNext, PTL DEF Spec

(* The steps that change the height HEAD stands at. *)
LEMMA HeadMoves ==
    ASSUME DurableInv, [Next]_vars, Faults = {}, head' # head
    PROVE  PublishHead \/ SwitchHead
<1>1. CASE AppendBlock
  BY <1>1 DEF AppendBlock, BeginAppend, LogRecord, PublishHeader, PublishBlock,
     PublishSnapshot, IndexHeight, IndexHash
<1>2. CASE WriteSnapshot
  BY <1>2 DEF WriteSnapshot, BeginSnapshot, SnapshotState, SnapshotMeta
<1>3. CASE TipSwitch
  BY <1>3 DEF TipSwitch, BeginSwitch, SwitchCommit, SwitchIndexHeight, SwitchIndexHash
<1>4. CASE Recovery
  <2>1. ~RecoverHead
    BY DEF RecoverHead, DurableInv, HeadDurable, RecoveryKeepsHead, RecoveryPcs,
       HeadHeight
  <2> QED
    BY <1>4, <2>1 DEF Recovery, BeginRecovery, DropHeader, DropBlock, DropSnapshot,
       DropMeta, RecoverIndexHeight, RecoverIndexHash
<1> QED
  BY <1>1, <1>2, <1>3, <1>4 DEF Next, Open, Close, Raise, Crash, Corrupt, vars

(* No failed append, crash or recovery takes a block away from the chain     *)
(* HEAD names: only a tip switch lowers it.                                  *)
THEOREM NoBlockLost ==
    ASSUME Faults = {}
    PROVE  Spec => TipNeverLost
<1>1. ASSUME DurableInv, [Next]_vars
      PROVE  [head'.height >= head.height \/ pc = "switchHead"]_vars
  <2>1. head.height \in Nat
    BY <1>1 DEF DurableInv, TypeInv, TypeOK
  <2>2. CASE head' = head
    BY <2>1, <2>2
  <2>3. CASE head' # head
    BY <1>1, <2>1, <2>3, HeadMoves DEF PublishHead, SwitchHead, DurableInv, AppendAhead,
       AppendPcs, RecordTypes
  <2> QED
    BY <2>2, <2>3
<1> QED
  BY <1>1, DurableInit, DurableNext, PTL DEF Spec, TipNeverLost

-----------------------------------------------------------------------------
(* Part 3.  What recovery leaves behind, whatever was torn, damaged or       *)
(* interrupted before it.                                                    *)

HeadersDropped == RecoveryPcs \ {"dropHeaders"}
BlocksDropped == HeadersDropped \ {"dropBlocks"}
SnapshotsDropped == BlocksDropped \ {"dropSnapshots", "dropMeta"}
HeadRewritten == SnapshotsDropped \ {"recoverHead"}

NoneAbove(file, n) == \A h \in Heights : h > n => file[h] = None

(* How far the recovery in progress has come: which files it has deleted,    *)
(* whether HEAD stands at the height it settled on, and which index it has   *)
(* rebuilt.                                                                  *)
RecoveryDone ==
    /\ pc \in RecoveryPcs => op.height <= journal.commit /\ op.height <= HeadHeight
    /\ pc \in HeadersDropped => NoneAbove(header, op.height)
    /\ pc \in BlocksDropped => NoneAbove(block, op.height)
    /\ pc \in SnapshotsDropped => NoneAbove(snap, op.height)
    /\ pc \in HeadRewritten => HeadHeight = op.height
    /\ pc = "recoverIndexHash" /\ BlocksLeft => byHeight = Indexed(op.height)

(* What it leaves holds until the store is opened or damaged. *)
RecoveryLeft ==
    pc = "recovered" =>
        /\ HeadHeight <= journal.commit
        /\ NoneAbove(header, HeadHeight)
        /\ NoneAbove(block, HeadHeight)
        /\ NoneAbove(snap, HeadHeight)
        /\ BlocksUpTo(HeadHeight) # {} =>
              byHeight = Indexed(HeadHeight) /\ byHash = IndexedHash(HeadHeight)

RecoveryInv == TypeInv /\ RecoveryDone /\ RecoveryLeft

LEMMA RecoveryInit == Init => RecoveryInv
<1> SUFFICES ASSUME Init PROVE RecoveryInv
  OBVIOUS
<1>1. TypeInv
  BY TypeInit
<1> QED
  BY <1>1 DEF Init, RecoveryInv, RecoveryDone, RecoveryLeft, HeadRewritten,
     SnapshotsDropped, BlocksDropped, HeadersDropped, RecoveryPcs

(* The backward walk never climbs. *)
LEMMA SafeBelow ==
    ASSUME NEW safe \in 0 .. MaxHeight
    PROVE  SafeHeight(safe) <= safe
<1>1. CASE Rejected(safe) = {}
  BY <1>1 DEF SafeHeight
<1>2. CASE Rejected(safe) # {}
  <2>1. Rejected(safe) \in SUBSET (0 .. safe) /\ safe \in Nat
    BY DEF Rejected
  <2>2. HighestOf(Rejected(safe)) \in 0 .. safe
    BY <2>1, HighestOfType
  <2> QED
    BY <1>2, <2>2 DEF SafeHeight
<1> QED
  BY <1>1, <1>2

LEMMA RecoveryStep ==
    ASSUME TypeInv, RecoveryDone, Recovery
    PROVE  RecoveryDone' /\ RecoveryLeft'
<1> USE DEF RecoveryPcs, HeadersDropped, BlocksDropped, SnapshotsDropped, HeadRewritten,
            files, indexes
<1>t. TypeOK /\ OpTyped
  BY DEF TypeInv
<1>h. HeadHeight \in 0 .. MaxHeight /\ op.height \in 0 .. MaxHeight
  BY <1>t DEF TypeOK, HeadHeight, Op
<1>1. ASSUME NEW cap \in Caps, BeginRecovery(cap) PROVE RecoveryDone' /\ RecoveryLeft'
  <2> DEFINE safe == Lower(Lower(HeadHeight, journal.commit), cap)
  <2>1. /\ safe \in 0 .. MaxHeight
        /\ safe <= HeadHeight /\ safe <= journal.commit
    BY <1>t, <1>h DEF Caps, Lower, TypeOK, JournalState
  <2>2. op'.height = SafeHeight(safe)
    BY <1>1 DEF BeginRecovery, Running
  <2>3. SafeHeight(safe) \in 0 .. MaxHeight /\ SafeHeight(safe) <= safe
    BY <1>t, <2>1, SafeType, SafeBelow
  <2>4. UNCHANGED <<head, journal>> /\ pc' = "dropHeaders"
    BY <1>1 DEF BeginRecovery
  <2> HIDE DEF safe
  <2>5. op'.height <= journal'.commit /\ op'.height <= HeadHeight'
    BY <1>t, <1>h, <2>1, <2>2, <2>3, <2>4 DEF HeadHeight, TypeOK, JournalState
  <2> QED
    BY <2>4, <2>5 DEF RecoveryDone, RecoveryLeft
<1>2. CASE DropHeader
  <2>1. UNCHANGED <<head, journal, block, snap, op>> /\ pc' \in {"dropHeaders", "dropBlocks"}
    BY <1>2 DEF DropHeader
  <2>2. pc' = "dropBlocks" => header' = header /\ NoneAbove(header, op.height)
    BY <1>2 DEF DropHeader, AboveSafe, NoneAbove
  <2> QED
    BY <1>2, <2>1, <2>2 DEF DropHeader, RecoveryDone, RecoveryLeft, NoneAbove, HeadHeight
<1>3. CASE DropBlock
  <2>1. UNCHANGED <<head, journal, header, snap, op>> /\ pc' \in {"dropBlocks", "dropSnapshots"}
    BY <1>3 DEF DropBlock
  <2>2. pc' = "dropSnapshots" => block' = block /\ NoneAbove(block, op.height)
    BY <1>3 DEF DropBlock, AboveSafe, NoneAbove
  <2> QED
    BY <1>3, <2>1, <2>2 DEF DropBlock, RecoveryDone, RecoveryLeft, NoneAbove, HeadHeight
<1>4. CASE DropSnapshot
  <2>1. /\ UNCHANGED <<head, journal, header, block>>
        /\ op'.height = op.height
        /\ pc' \in {"dropMeta", "recoverHead"}
    BY <1>4 DEF DropSnapshot, At
  <2>2. pc' = "recoverHead" => snap' = snap /\ NoneAbove(snap, op.height)
    BY <1>4 DEF DropSnapshot, AboveSafe, NoneAbove
  <2> QED
    BY <1>4, <2>1, <2>2 DEF DropSnapshot, RecoveryDone, RecoveryLeft, NoneAbove, HeadHeight
<1>5. CASE DropMeta
  <2>1. UNCHANGED <<head, journal, header, block>> /\ op'.height = op.height /\ pc' = "dropSnapshots"
    BY <1>5 DEF DropMeta, At
  <2> QED
    BY <1>5, <2>1 DEF DropMeta, RecoveryDone, RecoveryLeft, NoneAbove, HeadHeight
<1>6. CASE RecoverHead
  <2>1. UNCHANGED <<journal, header, block, snap, op>> /\ pc' = "recoverIndexHeight"
    BY <1>6 DEF RecoverHead
  <2>2. HeadHeight' = op.height
    BY <1>6 DEF RecoverHead, HeadHeight
  <2> QED
    BY <1>6, <1>h, <2>1, <2>2 DEF RecoverHead, RecoveryDone, RecoveryLeft, NoneAbove
<1>7. CASE RecoverIndexHeight
  <2>1. UNCHANGED <<head, journal, header, block, snap, op>> /\ pc' = "recoverIndexHash"
    BY <1>7 DEF RecoverIndexHeight
  <2>2. BlocksLeft' <=> BlocksLeft
    BY <2>1 DEF BlocksLeft, BlocksUpTo
  <2>3. Indexed(op.height)' = Indexed(op.height)
    BY <2>1 DEF Indexed
  <2>4. BlocksLeft => byHeight' = Indexed(op.height)
    BY <1>7 DEF RecoverIndexHeight
  <2> QED
    BY <1>7, <2>1, <2>2, <2>3, <2>4 DEF RecoverIndexHeight, RecoveryDone, RecoveryLeft, NoneAbove, HeadHeight
<1>8. CASE RecoverIndexHash
  <2>1. UNCHANGED <<head, journal, header, block, snap, byHeight>> /\ pc' = "recovered"
    BY <1>8 DEF RecoverIndexHash
  <2>2. /\ HeadHeight' = op.height /\ op.height <= journal.commit
        /\ NoneAbove(header, op.height) /\ NoneAbove(block, op.height)
        /\ NoneAbove(snap, op.height)
    BY <1>8, <2>1 DEF RecoverIndexHash, RecoveryDone, HeadHeight
  <2>3. BlocksLeft => byHeight = Indexed(op.height) /\ byHash' = IndexedHash(op.height)
    BY <1>8 DEF RecoverIndexHash, RecoveryDone
  <2>4. /\ BlocksUpTo(HeadHeight)' = BlocksUpTo(op.height)
        /\ Indexed(HeadHeight)' = Indexed(op.height)
        /\ IndexedHash(HeadHeight)' = IndexedHash(op.height)
    BY <2>1, <2>2 DEF BlocksUpTo, Indexed, IndexedHash, StoredAt
  <2>5. RecoveryLeft'
    BY <2>1, <2>2, <2>3, <2>4 DEF RecoveryLeft, NoneAbove, BlocksLeft
  <2> QED
    BY <2>1, <2>5 DEF RecoveryDone
<1> QED
  BY <1>1, <1>2, <1>3, <1>4, <1>5, <1>6, <1>7, <1>8 DEF Recovery

LEMMA RecoveryNext == RecoveryInv /\ [Next]_vars => RecoveryInv'
<1> SUFFICES ASSUME RecoveryInv, [Next]_vars PROVE RecoveryInv'
  OBVIOUS
<1> USE DEF RecoveryPcs, HeadersDropped, BlocksDropped, SnapshotsDropped, HeadRewritten,
            files, indexes
<1>1. TypeInv'
  BY TypeNext DEF RecoveryInv
<1>2. CASE Recovery
  BY <1>1, <1>2, RecoveryStep DEF RecoveryInv
<1>3. CASE UNCHANGED vars
  BY <1>1, <1>3 DEF vars, RecoveryInv, RecoveryDone, RecoveryLeft, NoneAbove, HeadHeight,
     BlocksLeft, BlocksUpTo, Indexed, IndexedHash, StoredAt
<1>4. CASE AppendBlock \/ WriteSnapshot \/ TipSwitch \/ Open \/ Close \/ Raise \/ Crash \/ Corrupt
  <2>1. pc' \notin RecoveryPcs /\ pc' # "recovered"
    BY <1>4 DEF AppendBlock, BeginAppend, LogRecord, AfterRecord, RecordTypes, PublishHeader,
       PublishBlock, PublishSnapshot, IndexHeight, IndexHash, PublishHead, WriteSnapshot,
       BeginSnapshot, SnapshotState, SnapshotMeta, TipSwitch, BeginSwitch, SwitchCommit,
       SwitchHead, SwitchIndexHeight, SwitchIndexHash, Open, Close, Raise, Crash, Corrupt
  <2> QED
    BY <1>1, <2>1 DEF RecoveryInv, RecoveryDone, RecoveryLeft
<1> QED
  BY <1>2, <1>3, <1>4 DEF Next

(* Whatever was torn, damaged or interrupted, recovery ends with HEAD at a   *)
(* committed height and no header, block or snapshot above it.               *)
THEOREM RecoveryTrims == Spec => []RecoveredTrimmed
<1>1. RecoveryInv => RecoveredTrimmed
  BY DEF RecoveryInv, RecoveryLeft, RecoveredTrimmed, NoneAbove
<1> QED
  BY <1>1, RecoveryInit, RecoveryNext, PTL DEF Spec

(* The two indexes a rebuild derives from the same files agree: a block in   *)
(* one is in the other, at a height that holds it.                           *)
LEMMA IndexesAgree ==
    ASSUME TypeInv, NEW n \in 0 .. MaxHeight, NEW b \in Blocks
    PROVE  IF \E h \in Heights : Indexed(n)[h] = b
           THEN IndexedHash(n)[b] \in Heights /\ Indexed(n)[IndexedHash(n)[b]] = b
           ELSE IndexedHash(n)[b] = 0
<1>t. TypeOK
  BY DEF TypeInv
<1> DEFINE S == StoredAt(b, n)
<1>1. S \in SUBSET (0 .. n) /\ S \subseteq Heights /\ n \in Nat
  BY DEF StoredAt
<1>2. IndexedHash(n)[b] = HighestOf(S)
  BY DEF IndexedHash
<1>3. \A h \in Heights : Indexed(n)[h] = b <=> h \in S
  BY <1>t DEF Indexed, StoredAt, TypeOK
<1> HIDE DEF S
<1>4. CASE S = {}
  BY <1>2, <1>3, <1>4 DEF HighestOf
<1>5. CASE S # {}
  <2>1. HighestOf(S) \in S
    BY <1>1, <1>5, HighestOfElement
  <2> QED
    BY <1>1, <1>2, <1>3, <2>1
<1> QED
  BY <1>4, <1>5

(* After recovery height_to_hash lists the blocks it kept and hash_to_height *)
(* agrees with it, whatever stale entries were there before.                 *)
THEOREM RecoveryIndexes == Spec => []RecoveredIndexes
<1>1. RecoveryInv => RecoveredIndexes
  <2> SUFFICES ASSUME RecoveryInv, pc = "recovered", BlocksUpTo(HeadHeight) # {}
               PROVE  /\ byHeight = Indexed(HeadHeight)
                      /\ \A b \in Blocks :
                            IF \E h \in Heights : byHeight[h] = b
                            THEN byHash[b] \in Heights /\ byHeight[byHash[b]] = b
                            ELSE byHash[b] = 0
    BY DEF RecoveredIndexes
  <2>1. byHeight = Indexed(HeadHeight) /\ byHash = IndexedHash(HeadHeight)
    BY DEF RecoveryInv, RecoveryLeft
  <2>2. HeadHeight \in 0 .. MaxHeight
    BY DEF RecoveryInv, TypeInv, TypeOK, HeadHeight
  <2> QED
    BY <2>1, <2>2, IndexesAgree DEF RecoveryInv
<1> QED
  BY <1>1, RecoveryInit, RecoveryNext, PTL DEF Spec

(* What the append in progress has written at the height above HEAD. *)
AppendFiles ==
    /\ pc \in AppendPcs => op.height = head.height + 1
    /\ pc \in HeaderWritten => header[op.height] = op.hash
    /\ pc \in BlockWritten => block[op.height] = op.hash
    /\ pc \in {"indexHash", "INDEX_STAGED", "COMMIT", "publishHead"} =>
          byHeight[op.height] = op.hash
    /\ pc \in {"INDEX_STAGED", "COMMIT", "publishHead"} => byHash[op.hash] = op.height

LEMMA FilesInit == Init => AppendFiles
BY DEF Init, AppendFiles, AppendPcs, RecordTypes, HeaderWritten, BlockWritten

LEMMA FilesNext == TypeInv /\ AppendFiles /\ [Next]_vars => AppendFiles'
<1> SUFFICES ASSUME TypeInv, AppendFiles, [Next]_vars PROVE AppendFiles'
  OBVIOUS
<1> USE DEF AppendFiles, AppendPcs, RecordTypes, HeaderWritten, BlockWritten, files, indexes
<1>t. TypeOK /\ OpTyped
  BY DEF TypeInv
<1>1. ASSUME NEW b \in Appended, BeginAppend(b) PROVE AppendFiles'
  BY <1>1, <1>t DEF BeginAppend, Running, TypeOK
<1>2. ASSUME NEW type \in RecordTypes, LogRecord(type) PROVE AppendFiles'
  BY <1>2, <1>t DEF LogRecord, AfterRecord
<1>3. CASE PublishHeader
  BY <1>3, <1>t DEF PublishHeader, TypeOK, OpTyped
<1>4. CASE PublishBlock
  BY <1>4, <1>t DEF PublishBlock, TypeOK, OpTyped
<1>5. CASE PublishSnapshot
  BY <1>5, <1>t DEF PublishSnapshot
<1>6. CASE IndexHeight
  BY <1>6, <1>t DEF IndexHeight, TypeOK, OpTyped
<1>7. CASE IndexHash
  BY <1>7, <1>t DEF IndexHash, TypeOK, OpTyped
<1>8. CASE PublishHead
  BY <1>8 DEF PublishHead
<1>9. CASE WriteSnapshot \/ TipSwitch \/ Recovery \/ Open \/ Close \/ Raise \/ Crash \/ Corrupt
  <2>1. pc' \notin AppendPcs
    BY <1>9 DEF WriteSnapshot, BeginSnapshot, SnapshotState, SnapshotMeta, TipSwitch,
       BeginSwitch, SwitchCommit, SwitchHead, SwitchIndexHeight, SwitchIndexHash, Recovery,
       BeginRecovery, DropHeader, DropBlock, DropSnapshot, DropMeta, RecoverHead,
       RecoverIndexHeight, RecoverIndexHash, Open, Close, Raise, Crash, Corrupt
  <2> QED
    BY <2>1
<1>10. CASE UNCHANGED vars
  BY <1>10 DEF vars
<1> QED
  BY <1>1, <1>2, <1>3, <1>4, <1>5, <1>6, <1>7, <1>8, <1>9, <1>10 DEF Next, AppendBlock

(* Under every fault, and whatever blocks callers append, HEAD climbs one    *)
(* height at a time onto a block that is published and indexed.              *)
THEOREM TipClimbsPublished == Spec => TipPublished
<1>1. ASSUME RecoveryInv, AppendFiles, [Next]_vars
      PROVE  [head'.height > head.height /\ pc # "switchHead" =>
                 /\ head'.height = head.height + 1
                 /\ header[head'.height] = head'.hash
                 /\ block[head'.height] = head'.hash
                 /\ byHeight[head'.height] = head'.hash
                 /\ byHash[head'.hash] = head'.height]_vars
  <2>t. TypeOK /\ head.height \in Nat
    BY <1>1 DEF RecoveryInv, TypeInv, TypeOK
  <2> SUFFICES ASSUME head'.height > head.height, pc # "switchHead"
               PROVE  PublishHead
    BY <1>1 DEF PublishHead, AppendFiles, AppendPcs, RecordTypes, HeaderWritten, BlockWritten
  <2>1. head' # head
    BY <2>t
  <2>2. CASE AppendBlock
    BY <2>1, <2>2 DEF AppendBlock, BeginAppend, LogRecord, PublishHeader, PublishBlock,
       PublishSnapshot, IndexHeight, IndexHash
  <2>3. ~RecoverHead
    <3>1. RecoverHead => op.height <= head.height
      BY <1>1, <2>t DEF RecoverHead, RecoveryInv, RecoveryDone, RecoveryPcs, HeadHeight, TypeOK, Op
    <3> QED
      BY <2>t, <2>1, <3>1 DEF RecoverHead, TypeOK, Op
  <2>4. ~Recovery
    BY <2>1, <2>3 DEF Recovery, BeginRecovery, DropHeader, DropBlock, DropSnapshot, DropMeta,
       RecoverIndexHeight, RecoverIndexHash
  <2>5. ~Corrupt
    BY <2>t, <2>1 DEF Corrupt, CorruptHeader, CorruptBlock, CorruptHead, TypeOK
  <2>6. ~TipSwitch /\ ~WriteSnapshot
    BY <2>1 DEF TipSwitch, BeginSwitch, SwitchCommit, SwitchHead, SwitchIndexHeight,
       SwitchIndexHash, WriteSnapshot, BeginSnapshot, SnapshotState, SnapshotMeta
  <2> QED
    BY <1>1, <2>1, <2>2, <2>4, <2>5, <2>6 DEF Next, Open, Close, Raise, Crash, vars
<1>2. RecoveryInv => TypeInv
  BY DEF RecoveryInv
<1> QED
  BY <1>1, <1>2, RecoveryInit, RecoveryNext, FilesInit, FilesNext, PTL DEF Spec, TipPublished

-----------------------------------------------------------------------------
(* Part 4.  The store implements DurableChain, again without torn records,   *)
(* caps and damage and with callers that append and switch to linked blocks: *)
(* every step of the store is, seen from HEAD, a step of the promised chain  *)
(* or nothing.                                                               *)

(* Linked block files hold a chain. *)
LEMMA LinkedIsChain ==
    ASSUME TypeOK, NEW n \in 0 .. MaxHeight, LinkedUpTo(n)
    PROVE  /\ Durable!IsChain(ChainUpTo(n))
           /\ ChainUpTo(n) \in Seq(Blocks)
           /\ Len(ChainUpTo(n)) = n
<1> DEFINE c == ChainUpTo(n)
<1>1. n \in Nat /\ \A i \in 1 .. n : block[i] \in Blocks
  BY DEF TypeOK, LinkedUpTo
<1>2. c \in [1 .. n -> Blocks]
  BY <1>1 DEF ChainUpTo
<1>3. c \in Seq(Blocks)
  BY <1>1, <1>2, SeqDef
<1>4. Len(c) = n
  BY <1>1, <1>3, LenProperties DEF ChainUpTo
<1>5. ASSUME NEW i \in 1 .. n
      PROVE  Parent[c[i]] = IF i = 1 THEN Genesis ELSE c[i - 1]
  BY <1>1, <1>5 DEF LinkedUpTo, ChainUpTo
<1> HIDE DEF c
<1>6. Durable!IsChain(c)
  BY <1>3, <1>4, <1>5 DEF Durable!IsChain
<1> QED
  BY <1>3, <1>4, <1>6 DEF c

(* The chain is unchanged while HEAD and the blocks under it are. *)
LEMMA ChainFrame ==
    ASSUME NEW n \in Nat, \A i \in 1 .. n : block'[i] = block[i]
    PROVE  ChainUpTo(n)' = ChainUpTo(n)
BY DEF ChainUpTo

(* Steps that are nothing to the callers of the store. *)
QuietStep ==
    /\ head' = head
    /\ \A i \in 1 .. head.height : block'[i] = block[i]

LEMMA QuietChain ==
    ASSUME TypeOK, QuietStep
    PROVE  durableChain' = durableChain
BY ChainFrame DEF TypeOK, QuietStep, durableChain

LEMMA AppendRefines ==
    ASSUME DurableInv, AppendBlock
    PROVE  [Durable!Next]_<<durableChain, switchRequest>>
<1> USE DEF AppendPcs, SwitchPcs, RecordTypes, files, indexes
<1>t. TypeOK /\ OpTyped
  BY DEF DurableInv, TypeInv
<1>1. CASE PublishHead
  <2>1. /\ op.height = head.height + 1 /\ Parent[op.hash] = head.hash
        /\ op.hash \in Blocks /\ block[op.height] = op.hash
        /\ head.height \in 0 .. MaxHeight /\ op.height \in 0 .. MaxHeight
    BY <1>1, <1>t DEF PublishHead, DurableInv, AppendAhead, BlockWritten, OpTyped, TypeOK
  <2>2. LinkedUpTo(head.height) /\ head.hash = BlockAt(head.height)
    BY DEF DurableInv, HeadDurable
  <2>3. /\ durableChain \in Seq(Blocks) /\ Len(durableChain) = head.height
        /\ Durable!IsChain(durableChain)
    BY <1>t, <2>1, <2>2, LinkedIsChain DEF durableChain
  <2>4. /\ head'.height = op.height /\ block' = block
        /\ switchRequest = {} /\ switchRequest' = {}
    BY <1>1 DEF PublishHead, switchRequest
  <2>5. LinkedUpTo(op.height)
    <3>1. header[op.height] = op.hash
      BY <1>1 DEF PublishHead, DurableInv, AppendAhead, HeaderWritten, BlockWritten
    <3> QED
      BY <2>1, <2>2, <3>1 DEF LinkedUpTo, BlockAt
  <2> DEFINE c == ChainUpTo(op.height)
  <2>6. durableChain' = c
    BY <2>4 DEF durableChain, ChainUpTo
  <2>7. c \in Seq(Blocks) /\ Len(c) = head.height + 1 /\ Durable!IsChain(c)
    BY <1>t, <2>1, <2>5, LinkedIsChain
  <2>8. c = Append(durableChain, op.hash)
    <3>1. /\ Append(durableChain, op.hash) \in Seq(Blocks)
          /\ Len(Append(durableChain, op.hash)) = head.height + 1
          /\ \A i \in 1 .. head.height : Append(durableChain, op.hash)[i] = durableChain[i]
          /\ Append(durableChain, op.hash)[head.height + 1] = op.hash
      BY <2>1, <2>3, AppendProperties
    <3>2. \A i \in 1 .. head.height + 1 : Append(durableChain, op.hash)[i] = c[i]
      BY <2>1, <3>1 DEF durableChain, ChainUpTo
    <3> HIDE DEF c
    <3> QED
      BY <2>7, <3>1, <3>2, SeqEqual
  <2>9. Durable!Extend(op.hash)
    BY <2>4, <2>6, <2>7, <2>8 DEF Durable!Extend
  <2> QED
    BY <2>1, <2>9 DEF Durable!Next
<1>2. CASE ~PublishHead
  <2>1. head' = head /\ pc \notin {"switchCommit", "switchHead"}
        /\ pc' \notin {"switchCommit", "switchHead"}
    BY <1>2 DEF AppendBlock, BeginAppend, LogRecord, AfterRecord, PublishHeader,
       PublishBlock, PublishSnapshot, IndexHeight, IndexHash
  <2>2. \A i \in 1 .. head.height : block'[i] = block[i]
    <3>1. CASE PublishBlock
      <4>1. op.height = head.height + 1 /\ head.height \in Nat
        BY <1>t, <3>1 DEF PublishBlock, DurableInv, AppendAhead, TypeOK
      <4> QED
        BY <1>t, <3>1, <4>1 DEF PublishBlock, TypeOK
    <3>2. CASE ~PublishBlock
      BY <1>2, <3>2 DEF AppendBlock, BeginAppend, LogRecord, PublishHeader,
         PublishSnapshot, IndexHeight, IndexHash
    <3> QED
      BY <3>1, <3>2
  <2>3. durableChain' = durableChain
    BY <1>t, <2>1, <2>2, QuietChain DEF QuietStep
  <2>4. switchRequest' = switchRequest
    BY <2>1 DEF switchRequest
  <2> QED
    BY <2>3, <2>4
<1> QED
  BY <1>1, <1>2

LEMMA SwitchRefines ==
    ASSUME DurableInv, TipSwitch, Faults = {}
    PROVE  [Durable!Next]_<<durableChain, switchRequest>>
<1> USE DEF files, indexes
<1>t. TypeOK /\ head.height \in Nat
  BY DEF DurableInv, TypeInv, TypeOK
<1>1. ASSUME NEW t \in SwitchedTo, BeginSwitch(t[1], t[2])
      PROVE  [Durable!Next]_<<durableChain, switchRequest>>
  <2> DEFINE h == t[1]
  <2>0. h \in SwitchHeights /\ LinkedUpTo(h)
    BY <1>t, SwitchTargets
  <2>1. /\ UNCHANGED <<head, block>> /\ pc = "idle" /\ pc' = "switchCommit"
        /\ op'.height = h /\ LinkedUpTo(h) /\ h \in 0 .. MaxHeight
    BY <1>1, <2>0 DEF BeginSwitch, Running
  <2> HIDE DEF h
  <2>2. durableChain' = durableChain
    BY <1>t, <2>1, QuietChain DEF QuietStep
  <2>3. switchRequest = {} /\ switchRequest' = {ChainUpTo(h)}
    BY <2>1 DEF switchRequest, ChainUpTo
  <2>4. Durable!IsChain(ChainUpTo(h))
    BY <1>t, <2>1, LinkedIsChain
  <2>5. Durable!Ask
    BY <2>2, <2>3, <2>4 DEF Durable!Ask
  <2> QED
    BY <2>5 DEF Durable!Next
<1>2. CASE SwitchHead
  <2>1. /\ block' = block /\ head'.height = op.height
        /\ pc = "switchHead" /\ pc' = "switchIndexHeight"
    BY <1>2 DEF SwitchHead
  <2>2. switchRequest = {durableChain'} /\ switchRequest' = {}
    BY <2>1 DEF switchRequest, durableChain, ChainUpTo
  <2>3. Durable!Switch
    BY <2>2 DEF Durable!Switch
  <2> QED
    BY <2>3 DEF Durable!Next
<1>3. CASE SwitchCommit \/ SwitchIndexHeight \/ SwitchIndexHash
  <2>1. UNCHANGED <<head, block>>
    BY <1>3 DEF SwitchCommit, SwitchIndexHeight, SwitchIndexHash
  <2>2. durableChain' = durableChain
    BY <1>t, <2>1, QuietChain DEF QuietStep
  <2>3. switchRequest' = switchRequest
    BY <1>3, <2>1 DEF SwitchCommit, SwitchIndexHeight, SwitchIndexHash, switchRequest, ChainUpTo
  <2> QED
    BY <2>2, <2>3
<1> QED
  BY <1>1, <1>2, <1>3 DEF TipSwitch

LEMMA RecoveryRefines ==
    ASSUME DurableInv, Recovery
    PROVE  [Durable!Next]_<<durableChain, switchRequest>>
<1> USE DEF RecoveryPcs, ClosedPcs, files, indexes
<1>t. TypeOK /\ head.height \in Nat
  BY DEF DurableInv, TypeInv, TypeOK
<1>1. head' = head
  <2>1. RecoverHead => op.height = HeadHeight
    BY DEF RecoverHead, DurableInv, HeadDurable, RecoveryKeepsHead, HeadHeight
  <2> QED
    BY <2>1 DEF Recovery, BeginRecovery, DropHeader, DropBlock, DropSnapshot, DropMeta,
       RecoverHead, RecoverIndexHeight, RecoverIndexHash
<1>2. \A i \in 1 .. head.height : block'[i] = block[i]
  <2>1. CASE DropBlock
    <3>1. op.height = head.height
      BY <2>1 DEF DropBlock, DurableInv, RecoveryKeepsHead
    <3> QED
      BY <1>t, <2>1, <3>1 DEF DropBlock, AboveSafe, TypeOK
  <2>2. CASE ~DropBlock
    BY <2>2 DEF Recovery, BeginRecovery, DropHeader, DropSnapshot, DropMeta,
       RecoverHead, RecoverIndexHeight, RecoverIndexHash
  <2> QED
    BY <2>1, <2>2
<1>3. durableChain' = durableChain
  BY <1>t, <1>1, <1>2, QuietChain DEF QuietStep
<1>4. switchRequest' = switchRequest
  BY DEF Recovery, BeginRecovery, DropHeader, DropBlock, DropSnapshot, DropMeta,
     RecoverHead, RecoverIndexHeight, RecoverIndexHash, switchRequest
<1> QED
  BY <1>3, <1>4

LEMMA StepRefines ==
    ASSUME Faults = {}
    PROVE  DurableInv /\ [Next]_vars => [Durable!Next]_<<durableChain, switchRequest>>
<1> SUFFICES ASSUME DurableInv, [Next]_vars
             PROVE  [Durable!Next]_<<durableChain, switchRequest>>
  OBVIOUS
<1> USE DEF ClosedPcs, files, indexes
<1>t. TypeOK
  BY DEF DurableInv, TypeInv
<1>1. CASE WriteSnapshot \/ Open \/ Close
  <2>1. UNCHANGED <<head, block>> /\ switchRequest = {} /\ switchRequest' = {}
    BY <1>1 DEF WriteSnapshot, BeginSnapshot, SnapshotState, SnapshotMeta, Open, Close,
       switchRequest
  <2> QED
    BY <1>t, <2>1, QuietChain DEF QuietStep
<1>2. CASE Raise \/ Crash
  <2>1. UNCHANGED <<head, block>> /\ switchRequest' = {}
    BY <1>2 DEF Raise, Crash, switchRequest
  <2>2. durableChain' = durableChain
    BY <1>t, <2>1, QuietChain DEF QuietStep
  <2> QED
    BY <2>1, <2>2 DEF Durable!Withdraw, Durable!Next
<1>3. ~Corrupt
  BY DEF Corrupt
<1>4. CASE UNCHANGED vars
  BY <1>4 DEF vars, durableChain, switchRequest, ChainUpTo
<1> QED
  BY <1>1, <1>2, <1>3, <1>4, AppendRefines, SwitchRefines, RecoveryRefines DEF Next

LEMMA InitRefines == Init => Durable!Init
<1> SUFFICES ASSUME Init PROVE Durable!Init
  OBVIOUS
<1>1. durableChain = [i \in 1 .. 0 |-> block[i]] /\ switchRequest = {}
  BY DEF Init, durableChain, ChainUpTo, switchRequest
<1>2. [i \in 1 .. 0 |-> block[i]] = <<>>
  OBVIOUS
<1> QED
  BY <1>1, <1>2 DEF Durable!Init

(* Callers of the store see a chain that only returned appends and requested *)
(* tip switches change, through every crash, error and recovery.             *)
THEOREM StoreImplementsDurableChain ==
    ASSUME Faults = {}
    PROVE  Spec => ImplementsDurableChain
<1>1. Init => Durable!Init
  BY InitRefines
<1>2. DurableInv /\ [Next]_vars => [Durable!Next]_<<durableChain, switchRequest>>
  BY StepRefines
<1> QED
  BY <1>1, <1>2, DurableInit, DurableNext, PTL DEF Spec, ImplementsDurableChain, Durable!Spec

-----------------------------------------------------------------------------
(* What a process inside acquire has learnt stays true until it acts on it:  *)
(* between the check and the rename nobody else takes the lock, and a        *)
(* process found dead does not come back.                                    *)
AcquireSound ==
    /\ \A p \in Procs : lockPc[p] # "out" => p \in alive
    /\ \A p, q \in Procs :
          lockPc[p] \in Acquiring /\ lockPc[q] \in Acquiring => p = q
    /\ \A p \in Procs : lockPc[p] = "unlink" => lock \notin alive
    /\ \A p \in Procs : lockPc[p] = "replace" => lock = NoOne

LockInv == LockTypeOK /\ LockNamesWriter /\ AcquireSound

LEMMA LockInvInit == LockInit => LockInv
BY DEF LockInit, LockInv, LockTypeOK, PcValues, LockNamesWriter, Writers,
       AcquireSound, Acquiring

LEMMA LockInvNext ==
    ASSUME Overlap = FALSE
    PROVE  LockInv /\ [LockNext]_lockVars => LockInv'
<1> SUFFICES ASSUME LockInv, [LockNext]_lockVars PROVE LockInv'
  OBVIOUS
<1> USE DEF LockInv, LockTypeOK, PcValues, LockNamesWriter, Writers,
            AcquireSound, Acquiring, Goto
<1> USE LockAssumption
<1>1. ASSUME NEW p \in alive, Start(p) PROVE LockInv'
  BY <1>1 DEF Start
<1>2. ASSUME NEW p \in alive, Check(p) PROVE LockInv'
  BY <1>2 DEF Check
<1>3. ASSUME NEW p \in alive, ReadPid(p) PROVE LockInv'
  BY <1>3 DEF ReadPid
<1>4. ASSUME NEW p \in alive, UnlinkStale(p) PROVE LockInv'
  BY <1>4 DEF UnlinkStale
<1>5. ASSUME NEW p \in alive, Replace(p) PROVE LockInv'
  BY <1>5 DEF Replace
<1>6. ASSUME NEW p \in alive, Release(p) PROVE LockInv'
  BY <1>6 DEF Release
<1>7. ASSUME NEW p \in alive, Die(p) PROVE LockInv'
  BY <1>7 DEF Die
<1>8. CASE UNCHANGED lockVars
  BY <1>8 DEF lockVars
<1> QED
  BY <1>1, <1>2, <1>3, <1>4, <1>5, <1>6, <1>7, <1>8 DEF LockNext, Step

(* Calls of acquire that do not overlap let at most one process write, over  *)
(* any history of releases, crashes and stale lock files.                    *)
THEOREM SerialLockExcludes ==
    ASSUME Overlap = FALSE
    PROVE  LockSpec => []SingleWriter
<1>1. LockInv => SingleWriter
  BY DEF LockInv, LockNamesWriter, SingleWriter
<1> QED
  BY <1>1, LockInvInit, LockInvNext, PTL DEF LockSpec

(* The writer is the process the lock file names, so an acquire that reads   *)
(* the file while somebody writes finds a living process and raises.         *)
THEOREM LockNames ==
    ASSUME Overlap = FALSE
    PROVE  LockSpec => []LockNamesWriter
<1>1. LockInv => LockNamesWriter
  BY DEF LockInv
<1> QED
  BY <1>1, LockInvInit, LockInvNext, PTL DEF LockSpec
=============================================================================

------------------------------ MODULE Storage ------------------------------
(***************************************************************************)
(* The flat-file block store: FlatFileStorageBackend.append_block,         *)
(* write_snapshot and atomic_tip_switch (storage/backend.py), the          *)
(* write-ahead journal (storage/journal.py) and recover_store              *)
(* (storage/recovery.py), with a crash or an I/O error possible between    *)
(* any two durable writes.                                                 *)
(*                                                                         *)
(* Every file is written by atomic_write (temporary file, fsync, rename,   *)
(* fsync of the directory), so one write is one step; only the journal is  *)
(* appended in place and can be torn.  A block is identified by its hash,  *)
(* a registry state by the block after which it holds.  A file that is     *)
(* missing and a file that does not decode are both None: every reader of  *)
(* the store treats them alike.                                            *)
(***************************************************************************)
EXTENDS Integers, FiniteSets

CONSTANTS
    Blocks,            \* block hashes the ledger may hand to the store
    Genesis,           \* hash of the genesis block, never stored in a file
    Parent,            \* header.prev_hash of every block
    None,              \* absent or undecodable
    MaxHeight,         \* bound: highest height ever appended
    SnapshotInterval,  \* FlatFileStorageBackend.SNAPSHOT_INTERVAL
    SnapshotHeights,   \* heights the caller passes to write_snapshot
    SwitchHeights,     \* heights the caller passes to atomic_tip_switch
    Faults             \* which of the faults below this instance allows

(* "torn": an interrupted journal append leaves a partial record;          *)
(* "cap": recover_store is called with max_height;                         *)
(* "corrupt": a stored file becomes unreadable while the store is closed;  *)
(* "unlinked": a caller appends a block that is not a child of the stored  *)
(* tip, or switches to a tip whose chain is not stored.                    *)
FaultKinds == {"torn", "cap", "corrupt", "unlinked"}

ASSUME StorageAssumption ==
    /\ Genesis \notin Blocks
    /\ None \notin Blocks \cup {Genesis}
    /\ Parent \in [Blocks -> Blocks \cup {Genesis}]
    /\ MaxHeight \in Nat
    /\ SnapshotInterval \in Nat \ {0}
    /\ SnapshotHeights \subseteq 1 .. MaxHeight
    /\ SwitchHeights \subseteq 0 .. MaxHeight
    /\ Faults \subseteq FaultKinds

VARIABLES
    head,      \* HEAD: [ok, height, hash]; a missing HEAD reads as genesis
    journal,   \* readable part of the journal, see JournalState
    header,    \* headers/{h}.hdr
    block,     \* blocks/{h}.bin
    snap,      \* registry/snapshots/{h}.state
    meta,      \* registry/snapshots/{h}.meta (the state its hash stands for)
    byHeight,  \* indexes/height_to_hash.json
    byHash,    \* indexes/hash_to_height.json, 0 for no entry
    pc,        \* the next durable write of the operation in progress
    op         \* its local variables

files == <<header, block, snap, meta>>
indexes == <<byHeight, byHash>>
vars == <<head, journal, header, block, snap, meta, byHeight, byHash, pc, op>>

Heights == 1 .. MaxHeight
Hashes == Blocks \cup {Genesis}
File == Blocks \cup {None}
StateFile == Hashes \cup {None}

-----------------------------------------------------------------------------
(* The journal.  Readers stop at the first record that does not decode, so *)
(* what matters of the file is its readable prefix: the highest COMMIT     *)
(* height in it, the height of the COMMIT it ends with (0 if it ends with  *)
(* another record), and whether a torn record follows it (in which case    *)
(* nothing appended later is ever read).                                   *)

RecordTypes == {"BEGIN", "HEADER_STAGED", "BLOCK_STAGED", "REGISTRY_STAGED",
                "INDEX_STAGED", "COMMIT"}

JournalState ==
    [commit : 0 .. MaxHeight, final : 0 .. MaxHeight, torn : BOOLEAN]

EmptyJournal == [commit |-> 0, final |-> 0, torn |-> FALSE]

(* Journal.append: the record lands at the end of the file, after a torn   *)
(* record if there is one.                                                 *)
Logged(type, h) ==
    IF journal.torn
    THEN journal
    ELSE [commit |-> IF type = "COMMIT" /\ h > journal.commit
                     THEN h ELSE journal.commit,
          final |-> IF type = "COMMIT" THEN h ELSE 0,
          torn |-> FALSE]

(* Mutant: HEAD is replaced without a COMMIT record. *)
AfterRecordNoCommit(type) ==
    CASE type = "BEGIN"           -> "HEADER_STAGED"
      [] type = "HEADER_STAGED"   -> "BLOCK_STAGED"
      [] type = "BLOCK_STAGED"    -> "REGISTRY_STAGED"
      [] type = "REGISTRY_STAGED" -> "publishHeader"
      [] type = "INDEX_STAGED"    -> "publishHead"
      [] type = "COMMIT"          -> "publishHead"

(* What append_block does after each record it writes. *)
AfterRecord(type) ==
    CASE type = "BEGIN"           -> "HEADER_STAGED"
      [] type = "HEADER_STAGED"   -> "BLOCK_STAGED"
      [] type = "BLOCK_STAGED"    -> "REGISTRY_STAGED"
      [] type = "REGISTRY_STAGED" -> "publishHeader"
      [] type = "INDEX_STAGED"    -> "COMMIT"
      [] type = "COMMIT"          -> "publishHead"

-----------------------------------------------------------------------------
(* Program counters. *)

AppendPcs == RecordTypes \cup
    {"publishHeader", "publishBlock", "publishSnapshot", "indexHeight",
     "indexHash", "publishHead"}
SwitchPcs == {"switchCommit", "switchHead", "switchIndexHeight", "switchIndexHash"}
SnapshotPcs == {"snapState", "snapMeta"}
WriterPcs == AppendPcs \cup SwitchPcs \cup SnapshotPcs
RecoveryPcs == {"dropHeaders", "dropBlocks", "dropSnapshots", "dropMeta",
                "recoverHead", "recoverIndexHeight", "recoverIndexHash"}
ClosedPcs == {"closed", "crashed", "recovered"}
JournalPcs == RecordTypes \cup {"switchCommit"}

Op == [height : 0 .. MaxHeight, hash : StateFile, state : StateFile,
       at : 0 .. MaxHeight]
Running(h, hash, state) == [height |-> h, hash |-> hash, state |-> state, at |-> 0]
NoOp == Running(0, None, None)
At(h) == [height |-> op.height, hash |-> op.hash, state |-> op.state, at |-> h]

-----------------------------------------------------------------------------
Init ==
    /\ head = [ok |-> TRUE, height |-> 0, hash |-> Genesis]
    /\ journal = EmptyJournal
    /\ header = [h \in Heights |-> None]
    /\ block = [h \in Heights |-> None]
    /\ snap = [h \in Heights |-> None]
    /\ meta = [h \in Heights |-> None]
    /\ byHeight = [h \in Heights |-> None]
    /\ byHash = [b \in Blocks |-> 0]
    /\ pc = "closed"
    /\ op = NoOp

(* FlatFileStorageBackend.__init__ takes the lock, makes the directories    *)
(* and opens the journal.  It does not call recover_store.                 *)
Open ==
    /\ pc \in ClosedPcs
    /\ pc' = "idle"
    /\ UNCHANGED <<head, journal, files, indexes, op>>

Close ==
    /\ pc = "idle"
    /\ pc' = "closed"
    /\ UNCHANGED <<head, journal, files, indexes, op>>

-----------------------------------------------------------------------------
(* append_block *)

(* Mutant: the next height is taken from the journal instead of HEAD. *)
BeginAppendAfterCommit(b) ==
    /\ pc = "idle"
    /\ head.ok
    /\ journal.commit < MaxHeight
    /\ op' = Running(journal.commit + 1, b, Parent[b])
    /\ pc' = "BEGIN"
    /\ UNCHANGED <<head, journal, files, indexes>>

(* append_block reads the tip and takes the next height for whatever block *)
(* it is given: it never compares prev_hash with the tip.  The replay of   *)
(* the transactions looks at a "type" key that registry transactions do    *)
(* not carry, so the state it stages is the previous state it was given,   *)
(* which its callers take after the parent of the block.                   *)
BeginAppend(b) ==
    /\ pc = "idle"
    /\ head.ok
    /\ head.height < MaxHeight
    /\ op' = Running(head.height + 1, b, Parent[b])
    /\ pc' = "BEGIN"
    /\ UNCHANGED <<head, journal, files, indexes>>

(* One journal record of append_block.  The staged copy of the header,     *)
(* block or state goes to tmp/ just before its record; tmp/ is read only   *)
(* by this same call, so the copy is op.                                   *)
LogRecord(type) ==
    /\ pc = type
    /\ journal' = Logged(type, op.height)
    /\ pc' = AfterRecord(type)
    /\ UNCHANGED <<head, files, indexes, op>>

PublishHeader ==
    /\ pc = "publishHeader"
    /\ header' = [header EXCEPT ![op.height] = op.hash]
    /\ pc' = "publishBlock"
    /\ UNCHANGED <<head, journal, block, snap, meta, indexes, op>>

PublishBlock ==
    /\ pc = "publishBlock"
    /\ block' = [block EXCEPT ![op.height] = op.hash]
    /\ pc' = "publishSnapshot"
    /\ UNCHANGED <<head, journal, header, snap, meta, indexes, op>>

(* The snapshot is written when one is already there or at the interval;   *)
(* its .meta file is not touched.                                          *)
PublishSnapshot ==
    /\ pc = "publishSnapshot"
    /\ snap' = IF snap[op.height] # None \/ op.height % SnapshotInterval = 0
               THEN [snap EXCEPT ![op.height] = op.state]
               ELSE snap
    /\ pc' = "indexHeight"
    /\ UNCHANGED <<head, journal, header, block, meta, indexes, op>>

(* _update_indexes: two files, written one after the other; entries of     *)
(* other blocks at this height stay in hash_to_height.                     *)
IndexHeight ==
    /\ pc = "indexHeight"
    /\ byHeight' = [byHeight EXCEPT ![op.height] = op.hash]
    /\ pc' = "indexHash"
    /\ UNCHANGED <<head, journal, files, byHash, op>>

IndexHash ==
    /\ pc = "indexHash"
    /\ byHash' = [byHash EXCEPT ![op.hash] = op.height]
    /\ pc' = "INDEX_STAGED"
    /\ UNCHANGED <<head, journal, files, byHeight, op>>

(* HEAD is replaced last; append_block then returns. *)
PublishHead ==
    /\ pc = "publishHead"
    /\ head' = [ok |-> TRUE, height |-> op.height, hash |-> op.hash]
    /\ pc' = "idle"
    /\ op' = NoOp
    /\ UNCHANGED <<journal, files, indexes>>

-----------------------------------------------------------------------------
(* write_snapshot: the state file, then the metadata with its hash. *)

BeginSnapshot(h) ==
    /\ pc = "idle"
    /\ head.ok
    /\ h <= head.height
    /\ block[h] # None
    /\ op' = Running(h, None, block[h])
    /\ pc' = "snapState"
    /\ UNCHANGED <<head, journal, files, indexes>>

SnapshotState ==
    /\ pc = "snapState"
    /\ snap' = [snap EXCEPT ![op.height] = op.state]
    /\ pc' = "snapMeta"
    /\ UNCHANGED <<head, journal, header, block, meta, indexes, op>>

SnapshotMeta ==
    /\ pc = "snapMeta"
    /\ meta' = [meta EXCEPT ![op.height] = op.state]
    /\ pc' = "idle"
    /\ op' = NoOp
    /\ UNCHANGED <<head, journal, header, block, snap, indexes>>

-----------------------------------------------------------------------------
(* atomic_tip_switch *)

(* atomic_tip_switch takes the height and the hash it is given: it only    *)
(* rejects negative heights and never looks at the stored blocks.          *)
BeginSwitch(h, hash) ==
    /\ pc = "idle"
    /\ op' = Running(h, hash, None)
    /\ pc' = "switchCommit"
    /\ UNCHANGED <<head, journal, files, indexes>>

SwitchCommit ==
    /\ pc = "switchCommit"
    /\ journal' = Logged("COMMIT", op.height)
    /\ pc' = "switchHead"
    /\ UNCHANGED <<head, files, indexes, op>>

SwitchHead ==
    /\ pc = "switchHead"
    /\ head' = [ok |-> TRUE, height |-> op.height, hash |-> op.hash]
    /\ pc' = "switchIndexHeight"
    /\ UNCHANGED <<journal, files, indexes, op>>

(* The indexes a rebuild derives from the block files up to height h.  A   *)
(* hash stored at two heights keeps the higher one.                        *)
Indexed(h) == [i \in Heights |-> IF i <= h THEN block[i] ELSE None]
StoredAt(b, h) == {i \in 1 .. h : block[i] = b}
HighestOf(S) == IF S = {} THEN 0 ELSE CHOOSE i \in S : \A j \in S : j <= i
IndexedHash(h) == [b \in Blocks |-> HighestOf(StoredAt(b, h))]

(* rebuild_indexes; with no block left it unlinks the two files. *)
SwitchIndexHeight ==
    /\ pc = "switchIndexHeight"
    /\ byHeight' = Indexed(head.height)
    /\ pc' = "switchIndexHash"
    /\ UNCHANGED <<head, journal, files, byHash, op>>

SwitchIndexHash ==
    /\ pc = "switchIndexHash"
    /\ byHash' = IndexedHash(head.height)
    /\ pc' = "idle"
    /\ op' = NoOp
    /\ UNCHANGED <<head, journal, files, byHeight>>

-----------------------------------------------------------------------------
(* recover_store *)

(* An unreadable HEAD is taken for a missing one. *)
HeadHeight == IF head.ok THEN head.height ELSE 0
HeadHash == IF head.ok THEN head.hash ELSE Genesis

Lower(a, b) == IF a < b THEN a ELSE b

(* Mutant: the walk forgets to follow prev_hash. *)
ExpectedHead(h, safe) == HeadHash

(* The hash the backward walk from height safe expects at height h: the    *)
(* HEAD hash where it starts, the prev_hash of the block above elsewhere.  *)
ExpectedAt(h, safe) ==
    IF h = safe THEN HeadHash
    ELSE IF block[h + 1] = None THEN None ELSE Parent[block[h + 1]]

(* _verify_block_at_height *)
VerifiedAt(h, safe) ==
    /\ header[h] # None
    /\ header[h] = ExpectedAt(h, safe)
    /\ block[h] = ExpectedAt(h, safe)

Rejected(safe) == {h \in 1 .. safe : ~VerifiedAt(h, safe)}

(* Mutant: the walk steps below the height it accepted, too. *)
SafeHeightBelow(safe) ==
    (IF Rejected(safe) = {} THEN safe ELSE HighestOf(Rejected(safe))) - 1

(* The walk stops at the highest height it rejects, falls to the height    *)
(* below it without looking at that one, and forgets the hash.             *)
SafeHeight(safe) ==
    IF Rejected(safe) = {} THEN safe ELSE HighestOf(Rejected(safe)) - 1
SafeHash(safe) ==
    IF Rejected(safe) # {} THEN Genesis
    ELSE IF safe = 0 THEN HeadHash ELSE Parent[block[1]]

(* cap is the max_height argument; MaxHeight stands for no cap. *)
BeginRecovery(cap) ==
    /\ pc \in ClosedPcs
    /\ LET safe == Lower(Lower(HeadHeight, journal.commit), cap)
       IN  op' = Running(SafeHeight(safe), SafeHash(safe), None)
    /\ pc' = "dropHeaders"
    /\ UNCHANGED <<head, journal, files, indexes>>

(* Mutants: the deletion loops are off by one, either way. *)
AtOrAboveSafe(file) == {h \in Heights : h >= op.height /\ file[h] # None}
FarAboveSafe(file) == {h \in Heights : h > op.height + 1 /\ file[h] # None}

(* The three deletion loops unlink one file after another, in no order     *)
(* that matters to the program.                                            *)
AboveSafe(file) == {h \in Heights : h > op.height /\ file[h] # None}

DropHeader ==
    /\ pc = "dropHeaders"
    /\ \/ \E h \in AboveSafe(header) :
            /\ header' = [header EXCEPT ![h] = None]
            /\ pc' = pc
       \/ /\ AboveSafe(header) = {}
          /\ pc' = "dropBlocks"
          /\ UNCHANGED header
    /\ UNCHANGED <<head, journal, block, snap, meta, indexes, op>>

DropBlock ==
    /\ pc = "dropBlocks"
    /\ \/ \E h \in AboveSafe(block) :
            /\ block' = [block EXCEPT ![h] = None]
            /\ pc' = pc
       \/ /\ AboveSafe(block) = {}
          /\ pc' = "dropSnapshots"
          /\ UNCHANGED block
    /\ UNCHANGED <<head, journal, header, snap, meta, indexes, op>>

DropSnapshot ==
    /\ pc = "dropSnapshots"
    /\ \/ \E h \in AboveSafe(snap) :
            /\ snap' = [snap EXCEPT ![h] = None]
            /\ op' = At(h)
            /\ pc' = "dropMeta"
       \/ /\ AboveSafe(snap) = {}
          /\ pc' = "recoverHead"
          /\ UNCHANGED <<snap, op>>
    /\ UNCHANGED <<head, journal, header, block, meta, indexes>>

DropMeta ==
    /\ pc = "dropMeta"
    /\ meta' = [meta EXCEPT ![op.at] = None]
    /\ op' = At(0)
    /\ pc' = "dropSnapshots"
    /\ UNCHANGED <<head, journal, header, block, snap, indexes>>

(* HEAD is rewritten only when the height it was read with changes. *)
RecoverHead ==
    /\ pc = "recoverHead"
    /\ head' = IF op.height # HeadHeight
               THEN [ok |-> TRUE, height |-> op.height, hash |-> op.hash]
               ELSE head
    /\ pc' = "recoverIndexHeight"
    /\ UNCHANGED <<journal, files, indexes, op>>

(* The rebuilt indexes are written only if some block is left. *)
BlocksUpTo(h) == {i \in 1 .. h : block[i] # None}
BlocksLeft == BlocksUpTo(op.height) # {}

(* Mutant: the rebuilt index is merged into the old one. *)
RecoverIndexMerge ==
    /\ pc = "recoverIndexHash"
    /\ byHash' = [b \in Blocks |-> IF StoredAt(b, op.height) = {} THEN byHash[b]
                                   ELSE HighestOf(StoredAt(b, op.height))]
    /\ pc' = "recovered"
    /\ op' = NoOp
    /\ UNCHANGED <<head, journal, files, byHeight>>

RecoverIndexHeight ==
    /\ pc = "recoverIndexHeight"
    /\ byHeight' = IF BlocksLeft THEN Indexed(op.height) ELSE byHeight
    /\ pc' = "recoverIndexHash"
    /\ UNCHANGED <<head, journal, files, byHash, op>>

RecoverIndexHash ==
    /\ pc = "recoverIndexHash"
    /\ byHash' = IF BlocksLeft THEN IndexedHash(op.height) ELSE byHash
    /\ pc' = "recovered"
    /\ op' = NoOp
    /\ UNCHANGED <<head, journal, files, byHeight>>

-----------------------------------------------------------------------------
(* Failures. *)

(* The journal when a process stops in the middle of what pc was doing. *)
Interrupted ==
    {journal} \cup IF "torn" \in Faults /\ pc \in JournalPcs
                   THEN {[journal EXCEPT !.torn = TRUE]}
                   ELSE {}

(* An I/O error: append_block, write_snapshot or atomic_tip_switch raises  *)
(* where it stands, writes nothing more (no ABORT record), and the process *)
(* lives on with the same backend.                                         *)
Raise ==
    /\ pc \in WriterPcs
    /\ journal' \in Interrupted
    /\ pc' = "idle"
    /\ op' = NoOp
    /\ UNCHANGED <<head, files, indexes>>

(* The process dies, while writing or while recovering. *)
Crash ==
    /\ pc \in WriterPcs \cup RecoveryPcs \cup {"idle"}
    /\ journal' \in Interrupted
    /\ pc' = "crashed"
    /\ op' = NoOp
    /\ UNCHANGED <<head, files, indexes>>

(* A stored file is damaged while nothing runs. *)
CorruptHeader(h) ==
    /\ header[h] # None
    /\ header' = [header EXCEPT ![h] = None]
    /\ UNCHANGED <<head, block>>

CorruptBlock(h) ==
    /\ block[h] # None
    /\ block' = [block EXCEPT ![h] = None]
    /\ UNCHANGED <<head, header>>

CorruptHead ==
    /\ head.ok
    /\ head.height > 0
    /\ head' = [head EXCEPT !.ok = FALSE]
    /\ UNCHANGED <<header, block>>

Corrupt ==
    /\ "corrupt" \in Faults
    /\ pc \in ClosedPcs
    /\ \/ \E h \in Heights : CorruptHeader(h) \/ CorruptBlock(h)
       \/ CorruptHead
    /\ pc' = "crashed"
    /\ UNCHANGED <<journal, snap, meta, indexes, op>>

-----------------------------------------------------------------------------
Caps == IF "cap" \in Faults THEN 0 .. MaxHeight ELSE {MaxHeight}

(* h heights of stored blocks, header and block agreeing, each the child   *)
(* of the one below.                                                       *)
LinkedUpTo(h) ==
    \A i \in 1 .. h :
        /\ header[i] # None
        /\ header[i] = block[i]
        /\ Parent[block[i]] = IF i = 1 THEN Genesis ELSE block[i - 1]

BlockAt(h) == IF h = 0 THEN Genesis ELSE block[h]

(* What the callers pass.  The store checks none of it: unless "unlinked"  *)
(* is among the faults, every result about it rests on callers that append *)
(* children of the stored tip and switch to a tip whose chain is stored.   *)
Appended ==
    IF "unlinked" \in Faults THEN Blocks
    ELSE {b \in Blocks : Parent[b] = BlockAt(head.height)}
SwitchedTo ==
    IF "unlinked" \in Faults THEN SwitchHeights \X Hashes
    ELSE {<<h, BlockAt(h)>> : h \in {i \in SwitchHeights : LinkedUpTo(i)}}

AppendBlock ==
    \/ \E b \in Appended : BeginAppend(b)
    \/ \E type \in RecordTypes : LogRecord(type)
    \/ PublishHeader \/ PublishBlock \/ PublishSnapshot
    \/ IndexHeight \/ IndexHash \/ PublishHead

WriteSnapshot ==
    \/ \E h \in SnapshotHeights : BeginSnapshot(h)
    \/ SnapshotState \/ SnapshotMeta

TipSwitch ==
    \/ \E t \in SwitchedTo : BeginSwitch(t[1], t[2])
    \/ SwitchCommit \/ SwitchHead \/ SwitchIndexHeight \/ SwitchIndexHash

Recovery ==
    \/ \E cap \in Caps : BeginRecovery(cap)
    \/ DropHeader \/ DropBlock \/ DropSnapshot \/ DropMeta
    \/ RecoverHead \/ RecoverIndexHeight \/ RecoverIndexHash

Next ==
    \/ Open \/ Close
    \/ AppendBlock \/ WriteSnapshot \/ TipSwitch \/ Recovery
    \/ Raise \/ Crash \/ Corrupt

Spec == Init /\ [][Next]_vars

-----------------------------------------------------------------------------
TypeOK ==
    /\ head \in [ok : BOOLEAN, height : 0 .. MaxHeight, hash : Hashes]
    /\ journal \in JournalState
    /\ header \in [Heights -> File]
    /\ block \in [Heights -> File]
    /\ snap \in [Heights -> StateFile]
    /\ meta \in [Heights -> StateFile]
    /\ byHeight \in [Heights -> File]
    /\ byHash \in [Blocks -> 0 .. MaxHeight]
    /\ pc \in {"idle"} \cup ClosedPcs \cup WriterPcs \cup RecoveryPcs
    /\ op \in Op

(* Whatever was interrupted, HEAD names a block that is completely stored: *)
(* its COMMIT is in the journal, its header and block files and those of   *)
(* all its ancestors are published and linked to genesis, and its hash is  *)
(* the one HEAD records.  This is the ordering append_block and            *)
(* atomic_tip_switch rely on (HEAD is replaced last), and the core         *)
(* invariant of docs/STORAGE_CRASH_RECOVERY.md.                            *)
HeadDurable ==
    /\ head.ok
    /\ head.height <= journal.commit
    /\ LinkedUpTo(head.height)
    /\ head.hash = BlockAt(head.height)

(* When recover_store returns, every block at or below HEAD is stored and  *)
(* linked to genesis, also when an earlier recovery was interrupted half   *)
(* way through its deletions.                                              *)
RecoveredLinked == pc = "recovered" => LinkedUpTo(HeadHeight)

(* When recover_store returns, HEAD is not above the last readable COMMIT  *)
(* and no header, block or snapshot is left above HEAD, whatever was torn, *)
(* damaged or interrupted before.                                          *)
RecoveredTrimmed ==
    pc = "recovered" =>
        /\ HeadHeight <= journal.commit
        /\ \A h \in Heights : h > HeadHeight =>
              header[h] = None /\ block[h] = None /\ snap[h] = None

(* When recover_store returns with blocks left, height_to_hash lists those *)
(* blocks and hash_to_height has an entry for exactly them, each naming a  *)
(* height that holds the block, whatever stale entries aborted appends,    *)
(* interrupted rebuilds and appends over a gap had left.                   *)
RecoveredIndexes ==
    pc = "recovered" /\ BlocksUpTo(HeadHeight) # {} =>
        /\ byHeight = Indexed(HeadHeight)
        /\ \A b \in Blocks :
              IF \E h \in Heights : byHeight[h] = b
              THEN byHash[b] \in Heights /\ byHeight[byHash[b]] = b
              ELSE byHash[b] = 0

(* Only the HEAD write of a tip switch lowers the tip: no failed append,   *)
(* crash or recovery loses a block whose append returned.                  *)
TipNeverLost ==
    [][head'.height >= head.height \/ pc = "switchHead"]_vars

(* However appends were abandoned, retried or made over a gap, HEAD climbs  *)
(* one height at a time, and only onto a block whose header file, block    *)
(* file and two index entries were all written before.                     *)
TipPublished ==
    [][head'.height > head.height /\ pc # "switchHead" =>
          /\ head'.height = head.height + 1
          /\ header[head'.height] = head'.hash
          /\ block[head'.height] = head'.hash
          /\ byHeight[head'.height] = head'.hash
          /\ byHash[head'.hash] = head'.height]_vars

-----------------------------------------------------------------------------
(* What the documents say of the store and the code does not do.           *)

(* docs/STORAGE_CRASH_RECOVERY.md 3.6: recovery rewrites HEAD to the safe  *)
(* height and the hash of the block stored there.                          *)
RecoveredHash == pc = "recovered" => HeadHash = BlockAt(HeadHeight)

(* docs/STORAGE_CRASH_RECOVERY.md 4: after a crash between the COMMIT      *)
(* record and the HEAD write, recovery brings HEAD to the COMMIT height.   *)
CommitRollsForward ==
    pc = "recovered" /\ journal.final > 0 => HeadHeight = journal.final

(* docs/STORAGE_CRASH_RECOVERY.md 3.8: after recovery the node resumes at  *)
(* the height above HEAD, so get_tip must be able to read HEAD.            *)
RecoveredHeadReadable == pc = "recovered" => head.ok

(* docs/STORAGE_CRASH_RECOVERY.md 3.5: recovery deletes the index entries  *)
(* of every height above the one it keeps.                                 *)
RecoveredNoStaleIndex ==
    pc = "recovered" =>
        \A h \in Heights : h > HeadHeight => byHeight[h] = None

(* docs/adr/005-snapshot-and-pruning-model.md, invariant 1: a snapshot     *)
(* under HEAD holds the registry state its height ends with.               *)
SnapshotExact ==
    pc = "idle" =>
        \A h \in Heights : h <= HeadHeight => snap[h] \in {None, block[h]}
=============================================================================

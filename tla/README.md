# Chain Breaker: verification development

TLA+ modules of the parts of Chain Breaker that keep state, TLC runs that
check them on small instances, and TLAPS proofs of what holds for every value
of the parameters. The repository's code is the reference: the modules say what
the code does. Where a document, comment or docstring says something else, the
statement is a property of its own that TLC refutes, or the difference is an
exception that a property names.

- [Inventory](#inventory)
- [Modules](#modules)
- [Runs, bounds and fairness](#runs-bounds-and-fairness)
- [Proofs](#proofs)
- [Where code and documents part](#where-code-and-documents-part)
- [Limits of the development](#limits-of-the-development)
- [Plan](#plan)

## Inventory

Chain Breaker is a proof-of-work chain of blocks that carry attestations and the
governance of a registry of curators. `chainbreaker/` is the Python
implementation, `rust-verifier/` a second, stateless verifier. The parts, the
state each keeps, what can go wrong in it, and what makes it correct:

| Part | State | Operations | Hard behaviour | What makes it correct |
|---|---|---|---|---|
| Flat-file block store (`storage/backend.py`, `journal.py`, `recovery.py`, `formats.py`) | HEAD, journal, one header and one block file per height, snapshots with metadata, two index files | `append_block`, `write_snapshot`, `atomic_tip_switch`, `rebuild_indexes`, `recover_store` | an error or crash between any two of some fifteen durable writes, also during recovery; a torn journal record; a damaged file; retries over the remains of a failed append | HEAD names a complete linked chain; no returned append is lost; recovery leaves nothing above HEAD and exact indexes |
| Writer lock (`storage/filesystem.py`) | the lock file | `acquire`, `release` | other processes between the existence test, the read, the unlink and the rename; dead owners | one writer at a time; a dead owner's lock can be taken |
| Curator registry (`registry_state.py`, `governance.py`) | records, governance keys | register, rotate, revoke, `by_id`, `key_was_valid_at` | rotations before the last one is due; revocation of a pending key; rotation of a revoked curator | one curator per key; one signer once rotations are due; a revoked curator has no valid key until it is rotated again |
| Attestation (`witness.py`) | none | `verify_attestation_v2` | the answer depends on the height asked about | a revoked or foreign key does not attest |
| Ledger (`chain.py`, `block.py`) | the chain and the registry state after every block | `add_block_v2`, `validate_chain`, `retarget`, `expected_target_at`, mining | retargeting at the limits of its range; timestamps against the median of the past; incremental against whole-chain validation | `add_block_v2` and whole-chain validation agree on every block; a next block is always possible |
| Reorganisation (`reorg.py`) | the current chain | `evaluate_candidate` and its helpers | branches met in different orders; depth policy; targets, times and links of a foreign branch | only a heavier branch is adopted; no deep block is replaced; no node goes in circles |
| Sync (`network/sync`) | engine state, pending headers and blocks, the ledger, the store | `start_header_sync`, `handle_headers`, `handle_block`, `reset` | late, repeated or mixed answers of several peers; blocks enter the ledger before the download is complete; a storage error half way | the ledger stays valid; ledger and store agree until an error; what is stored is stored once and in order |
| Relay (`network/relay`) | pending requests, seen cache, orphans, announcements | `handle_inv`, `next_get_block_requests`, `handle_block`, `handle_get_block`, `add_orphan` | unanswered requests; a child before its parent; a storage error after the ledger took the block; caches that forget | a block taken from a peer can be served once it is announced, and is stored and passed on once; a request to a peer that has the block ends |
| Gossip (`network/gossip`) | seen cache, token bucket per peer | `receive`, `forward_targets`, `prepare_forward` | loops of peers, expiry of the cache, hop limits | a message dies out and reaches every peer within its hops |
| Peer table and discovery (`network/discovery`) | peer records with source, status, score, and an index by address | `add`, `remove`, `ban`, `select_candidates`, eviction; `load_bootstrap`, `add_discovered`, reports of handshakes | records found by id or by address; a full table; bans against new reports of the same peer | the index names the records; no offer and no failure lifts a ban; one source cannot drive another out; a selection keeps to its shares |
| Handshake (`network/transport/handshake.py`) | session state and capabilities | `send_hello`, `handle_hello`, `handle_hello_ack`, `reject`, `close` | both sides at once, both sides waiting, messages out of order, `close` from NEW | only nodes of one network establish; every handshake ends |
| Connection manager (`network/transport/manager.py`, `memory.py`) | connections by id, rejections per peer, bans | `accept`, `register_inbound`, `remove`, `cleanup` | other handshakes and `remove` at every `await`; ids used again; timeouts | a failed handshake gives its slot back, except from session NEW; what leaves the table is closed; only rejections count towards a ban |
| Message queue (`network/transport/queue.py`) | queue, bytes used, drops | `put`, `get`, `close` | tasks that wait for room at once, timeouts, closing | order, no silent loss, exact count of bytes |
| Socket transport, framing (`network/socket`) | receive buffer, open flag | `open`, `send`, `receive`, `consume` | partial frames, several frames in one read | every frame is delivered once, in order |
| Wire messages (`network/envelope.py`, `messages.py`, `codec.py`, `validation.py`) | none | encode, decode, check fields | none beyond the functions themselves | decoding inverts encoding |
| Codec and crypto (`codec.py`, `crypto.py`) | none | canonical bytes, hashes, signatures | none beyond the functions themselves | canonical form is unique |
| Network identity (`network_identity.py`) | a descriptor file, read once | derive, load, verify | a ledger's network against the constant a command signs for | a ledger only takes transactions of its own network |
| Archive (`archive.py`) | objects and manifests by hash | `add_document`, `get` | files written before their manifests | a manifest's object exists |
| Command line (`cli.py`, `cli_v2.py`) | ledger, block, governance transaction and attestation files | `chain init`, `block mine`, `block add`, `governance register`, `rotate`, `revoke`, `attest create`, `verify` | operators who share files without a lock; commands that overlap or are killed; transactions and blocks that are stale when used | what is saved verifies; what is signed is accepted but for two checks the commands lack; no block is lost without force or an overlap; an attestation stays valid |

How they interact. A block comes in through `SyncEngine`, `RelayEngine` or the
command line. The caller hands it to `Ledger.add_block_v2`, which checks it
against the chain in memory and folds its governance transactions into a new
registry state, and afterwards to `append_block` of the store, which writes it
durably. Nothing ties the two calls together, so an error between them leaves
ledger and store apart. The commands of `cli_v2.py` use no store: they keep the
whole ledger in a JSON file that each of them loads, checks and replaces. `ReorgEngine.evaluate_candidate` compares a branch with
the current chain and reports whether to switch; its caller then moves the store
with `atomic_tip_switch`. The registry state decides which keys may sign
attestations at a height. The network below (handshake, connection manager,
queues, framing) delivers envelopes to the engines. `SyncEngine`, `RelayEngine`
and `ReorgEngine` are driven by their callers, today the tests: the repository
holds no main loop that schedules them, so the modules let every handler run at
any time it can be called.

## Modules

Variables and actions keep the names of the code where TLA+ allows it.
Definitions that a comment calls mutants are broken variants of the definition
that follows them; no specification uses them.

| Module | Models |
|---|---|
| `Storage` | the block store. One action per durable write, `pc` is the next write of the operation in progress |
| `DurableChain` | what the store promises: a chain that returned appends extend and requested switches replace |
| `StorageRefinement` | `Storage` implements `DurableChain` |
| `MCStorage` | three block trees for TLC |
| `WriterLock` | the lock file, `acquire` split at every access to the file system |
| `StorageProofs` | theorems on the backend: `Storage`, its refinement, and `WriterLock` |
| `Registry`, `RegistryProofs` | the reducer of governance transactions and `key_was_valid_at` |
| `Ledger`, `LedgerProofs` | the consensus rules as operators on chains: median past time, retargeting, acceptance, whole-chain validation, work |
| `ForkChoice`, `ForkChoiceProofs` | nodes that accept blocks and weigh the branches of peers |
| `Sync`, `MCSync`, `SyncProofs` | a syncing node with its ledger and store, and the peers that answer it |
| `Relay`, `MCRelay`, `RelayProofs` | nodes that announce, request and serve blocks, each with its ledger and store |
| `Cli`, `MCCli`, `CliProofs` | operators whose commands share ledger, block and transaction files; composes the reducer of `Registry` with the ledger files |
| `Connections`, `ConnectionsProofs` | two connection managers and the handshakes they drive over memory transports |
| `PeerTable`, `MCPeerTable` | the peer table and the discovery manager over it; its theorems are in `RelayProofs` |

**Storage.** `atomic_write` makes a file appear at once, so a write is a step;
only the journal is appended in place, and an interrupted append may leave a
torn record (`"torn"` in `Faults`). Of the journal only what its readers compute
is kept: the highest COMMIT and the last record of the readable prefix, and
whether a torn record ends it. Blocks are their hashes, a registry state is the
block after which it holds. Missing and undecodable files are both `None`,
because every reader treats them alike. `Raise` interrupts any operation in a
process that lives on; `Crash` ends the process, also during recovery; `Corrupt`
damages a file while the store is closed; `max_height` of `recover_store` is the
`"cap"` fault. Staging files are not state, since the call that wrote them is
the only reader. `append_block` and `atomic_tip_switch` never look at what
they are given: not at the link of a block to the tip, not at the height or hash
of a switch, so `BeginAppend` and `BeginSwitch` have no such guard. What callers
pass is `Appended` and `SwitchedTo`: without the fault `"unlinked"`, children of
the stored tip and tips whose chain is stored; with it, any block and any height
and hash. That callers keep to the former is an assumption about them, and one
they can break: after a failed commit `SyncEngine` appends over a gap
(`Sync!StoredLinked` is refuted). After an unlinked append the next
recovery rejects the block *below* it, as that is not its parent, and drops both.

**WriterLock.** `acquire` is `Check`, `ReadPid`, `UnlinkStale`, `Replace`, each a
step other processes can come between. `Overlap = FALSE` is an operator who
starts one process at a time, `TRUE` is any number at once. Process ids are not
reused.

**Registry.** A transaction is an action, a block ends with `CompleteBlock`, and
properties about attestation look at heights after that block only. Signatures
are abstracted: every transaction considered carries those the reducer demands.
The key a transaction names, its activation and the records it meets are free.

**Ledger** has no state of its own. A block is a record of its parent, time,
target and miner; equal records are equal hashes. What the rules refuse whatever
the chain is left out (proof of work, Merkle root, version), and so is the
replay of the registry, which `Registry` models. `Acceptable` is `add_block_v2`,
`ValidChain` is `validate_chain`.

**ForkChoice** puts nodes on top of it. A miner may offer any timestamp, parent
and target. A peer keeps to no rule: its branch forks from any chain at any
height with any link, time and target from small sets, or repeats blocks of the
node (`Fork`, external). Nodes weigh the chains of other nodes and of peers with
`Switches` (`evaluate_candidate`), which computes expected targets from the
node's *own* chain, as `ReorgEngine._expected_target_at` does, and looks neither
at times nor at the link to the common ancestor. The switch (`Switched`) is that
of the heights `evaluate_candidate` reports. So a node may adopt a chain
`validate_chain` refuses, and no property here says otherwise.

**Sync** is one node and its peers. Every handler is an action with all of its
branches. The peers are external: each extends its chain (`served`) and answers
with any run of it at any time, which covers late, repeated and reordered
answers, and answers to other questions. The requested hash and the locator are
left out, because `handle_headers` and `handle_block` compare no answer with
them. The store is the sequence of blocks it took: `append_block` writes at the
height above its tip and never compares `prev_hash`; `Commit` fails at any block.
`expected_target_at` indexes beyond the chain for the second new header above a
retargeting height; the `IndexError` is not caught, and `HeadersRaise` and
`BlockRaises` leave the state where the handler had set it. The variable
`intact` is history: no block was taken by the ledger and then dropped before
the store had it.

**Relay** is a network of nodes. A block is its hash, with a parent; the ledger
takes it on its tip only, which is what `add_block_v2` does with a block that is
valid otherwise. `OnLocalBlock` is `on_local_block`: the seen cache and the queue,
and nothing else. It is called with any block of `Own`, at any time, whether the
node has the block or not; `local` is history of these calls. `AddOwnBlock`
(external) is a caller's `add_block_v2` and `append_block` of a block of its own,
the second of which may fail. A message stays in
`net` once it is sent, so it may come late, out of order, again or never; the
rate limits refuse a message, which is to never deliver it. `HandleBlock` has a
branch for each outcome of the code (`Duplicate`, `Refused`, `NotStored`,
`Accepted`); in all of them the request is done. `Expire` forgets the oldest
entry of the seen cache, which is what time does, since entries are in the order
of their time. `Announce` sends one list to every peer: `create_inv_message`
without hashes would empty the queue for the first of them. Left out: the orphan
pool, which no code fills, and the inventory tracker, which no code reads. As in
`Sync`, the store appends without comparing `prev_hash`, and `intact` is history.

**Cli.** A ledger file is a network and its blocks; the registry state is
replayed from it with the transitions of `Registry` (`StateAt`), over the
transactions of its blocks in their order, as `_state_at` does; the height of a
block decides whether a transaction applies, never what it changes. A hash stands for what was hashed. A command that
replaces a ledger is two steps, the load with all checks (`ChainInit`,
`BlockAdd`) and the replacement of the file (`Save`), or it is killed between
them (`Interrupted`); other commands come between, which `Overlapped` records.
Commands that read a ledger and write a file of their own are one step.
`GovernanceRegister`, `GovernanceRotate` and `GovernanceRevoke` carry the checks
of the commands themselves, which are not those of the reducer (`AppliesAt`);
how far they fit together is `SignedVerdict`. The private key an operator gives
is that of the public key it names. `AttestCreates` and `AttestVerifies` read
files only and are predicates.

**Connections.** An end of a link is a task in `accept` or `register_inbound`;
`step` is the call of the transport it waits for, `session` the state of its
`HandshakeSession`. A step runs from one call to the next: `SendHello`,
`ReceiveHello`, `SendAck`, `SendNack`, `ReceiveAck`, `Timeout`, and `Remove` of
any connection at any time. What ends a handshake runs `GiveUp`, the `finally`
clause: `close` of the session, which raises from NEW, the transport, and the
entry of the table. A connection id may be used again as soon as its entry is
gone, which is how the `finally` clause of a removed handshake comes to take out
the entry of another. Closing a link closes both ends, as `MemoryTransport.close`
does; messages sent before it still arrive. Capabilities and rate limits are left
out, and so is a queue that is full, which a handshake of three messages never
makes.

**PeerTable.** One action per operation. `Added` gives the tables `add` may
leave: there are several when eviction has to choose between records of equal
score, because `last_seen` is left out. `load_bootstrap` adds the records of all
sources in one step and passes to the next source when the table is full, as the
code does. The order of a selection is any ranking by score. `Selected` is the
loop of `select_candidates`, `GoodSelection` a definition of what it should
return that does not mention the loop.

## Runs, bounds and fairness

| Run | Distinct states | Shows |
|---|---|---|
| `storage_crash` | 1.3 million | `HeadDurable`, `RecoveredIndexes`, `TipNeverLost` and the refinement of `DurableChain`, with errors and crashes between any two writes of appends, switches to any height and recoveries |
| `storage_damage` | 7.2 million | `RecoveredTrimmed`, `RecoveredIndexes` and `TipPublished` with snapshots, torn records, caps, damaged files and callers that append any block |
| `storage_torn_loss` | violation | a torn record makes a later recovery lose blocks |
| `lock_serial` | 128 | `SingleWriter`, `LockNamesWriter`, `StaleLockTakenOver` when acquisitions do not overlap |
| `lock_race` | violation | two acquisitions at once give two writers |
| `registry_keys` | 74 thousand | `KeyHasOneCurator`, `SettledKey`, `RevokedKeyInvalid` |
| `fork_choice` | 419 thousand | `AcceptedAsValidated`, `NextTargetPossible`, `WorkGrows`, `DeepBlocksKept` |
| `sync` | 29 thousand | `LedgerValid`, `LedgerIsStored`, `StoredInOrder` |
| `relay` | 48 thousand | `Servable`, `StoredAsTaken`, `RelayedOnce`, `RequestsEnd` |
| `cli_files` | 835 thousand | `LedgersVerify`, `SignedVerdict`, `BlocksKeptUnlessOverlapped`, `AttestationLasts` |
| `connections` | 147 thousand | `OutcomeJustified`, `SlotsKeptOnlyFromNew`, `LeavesClosed`, `HandshakesEnd` |
| `peer_table` | 21 thousand | `IndexMatches`, `SelectionsGood`, `RecordsKept` |

The two runs that end in a violation show why the run before them makes its
restriction: no torn record, no overlapping acquisition.

Bounds, and why they are enough:

- *Storage.* `MaxHeight` is 3 in `storage_crash`, on a tree `a1-a2-a3` with a
  sibling `b2`: an abandoned append is retried with another block, a switch goes
  down and back up and to any height, and a recovery meets remains two heights
  above HEAD. `storage_damage` uses two heights and two blocks, either of which
  may be appended at either height, snapshots both from the interval and from
  `write_snapshot`, and all four faults; it leaves tip switches to
  `storage_crash`, since an append that stops between COMMIT and HEAD leaves the
  same remains above HEAD, and unlinked switches to the proofs. The
  actions look at one height and its neighbours, so a third or fourth height
  repeats the cases.
- *Lock.* Three processes: an owner that dies, one that takes over, one that
  asks meanwhile.
- *Registry.* Two curators, three keys, three blocks, activation heights up to
  5: enough for two rotations pending at once, a revocation of either, and the
  reuse of a key a curator has left.
- *Fork choice.* One node and one peer. Retargeting every second block, so the
  block after a chain of height 3 crosses the second retargeting; targets 2 to 5
  make both pairs of bounds of `retarget` apply; depth 1 is exceeded by chains of
  height 2. The peer's blocks are of time 0, which no median allows, or 3, and
  of two targets, with a link or without. `WorkScale` 60 keeps the work of
  neighbouring targets distinct except where integer division makes them equal,
  as it may in the code.
- *Sync.* One peer with ten blocks, as many as the real retargeting interval,
  and one with a fork of two whose second block may be too early. Ten headers
  reach the height at which `expected_target_at` raises; the fork interleaves
  with a download of the other chain.

- *Relay.* Three nodes, each announcing to the next, so that a block comes back
  to its miner; two nodes with a block of their own, the second block on top of
  the first. `MaxPending` 1 makes every further hash find the
  table full, `MaxInv` 2 lets both blocks share an inventory, `MaxSeen` 1 makes
  the cache forget with every block, besides by age, and a
  caller has at most `MaxQueue` blocks waiting when it names another.

- *Cli.* Two operators, so that any two commands overlap, one of them may be
  killed, and a third and fourth run meanwhile through the commands of one step;
  one ledger path, on the alpha network or another and made anew with `--force`;
  one curator and two keys; three blocks and activation heights up to 3, enough
  for a registration, a rotation or revocation and a block on top. `MaxGoverned`
  2: a block of height 3 carries no transaction, as none signed for its state can
  name a height the bounds allow. What two curators do to each other's keys is
  the question of `registry_keys`.
- *Connections.* Two nodes with two links and one connection id, so that a
  second handshake waits for the id of the first and takes it when it is removed;
  one place in each table; two networks; the second rejection bans (the third in
  the code). The safety properties also hold with two ids and two places (2.3
  million states, not a run).
- *Peer table.* Three peers, three addresses and two sources over a table of
  two, so that every addition is an insertion, a merge by id or by address, or an
  eviction; scores up to 3, penalties larger than rewards, a ban at the second
  failure in a row; selections of none to four with a share of one half per
  source and of one per prefix.

Deadlock is checked in the storage, sync, relay, cli and peer table runs. The others stop where the
instance ends: at `MaxHeight`, or with every process dead.

Fairness is assumed three times. `StaleLockTakenOver` takes a process that has called
`acquire` to go on until it returns: it is straight-line code without waiting.
`RequestsEnd` takes a node to keep sending its
requests, as `next_get_block_requests` does for all of them each time it is
called, and these and their answers to arrive in the end; inventories may be
lost. It is claimed only of a peer that has the block, and not of silent ones:
neither the timeout nor the retries of `RelayLimitPolicy` are read by any code.
`HandshakesEnd` takes a task to go on as long as it can: a send to a
queue with room returns, and a receive returns with a message or by
`receive_timeout_seconds`. It needs nothing of the peer. No other property needs
fairness. Of sync no liveness is stated: it asks for blocks by a hash no block
has, has no timer and asks nobody else, so a fairness under which the blocks
arrive would assume what the code does not bring about.

## Proofs

Every statement below is checked by TLAPS to the last leaf, for all values of
the constants that satisfy the modules' `ASSUME`s.

| Theorem | Says | Extra assumption |
|---|---|---|
| `StorageProofs!TypeCorrect` | `[]TypeOK` | none, all faults allowed |
| `StorageProofs!RecoveryTrims` | `[]RecoveredTrimmed` | none, all faults allowed |
| `StorageProofs!RecoveryIndexes` | `[]RecoveredIndexes` | none, all faults allowed |
| `StorageProofs!TipClimbsPublished` | `TipPublished` | none, all faults allowed |
| `StorageProofs!HeadAlwaysDurable` | `[]HeadDurable` | no torn record, cap or damage, and callers that append children of the tip and switch to stored chains (`Faults = {}`) |
| `StorageProofs!NoBlockLost` | `TipNeverLost` | the same |
| `StorageProofs!StoreImplementsDurableChain` | `ImplementsDurableChain` | the same |
| `StorageProofs!SerialLockExcludes` | `[]SingleWriter` | acquisitions do not overlap |
| `StorageProofs!LockNames` | `[]LockNamesWriter` | the same |
| `RegistryProofs!RegistryTypeCorrect` | `[]TypeOK` | none |
| `RegistryProofs!KeysStayApart` | `[]KeyHasOneCurator` | none |
| `RegistryProofs!RotationSettles` | `[]SettledKey` | none |
| `RegistryProofs!RevocationHolds` | `[]RevokedKeyInvalid` | none |
| `ForkChoiceProofs!RulesAgree` | `[]AcceptedAsValidated` | none |
| `ForkChoiceProofs!AlwaysMinable` | `[]NextTargetPossible` | none |
| `ForkChoiceProofs!DeepBlocksStay` | `DeepBlocksKept` | none |
| `ForkChoiceProofs!WorkOnlyGrows` | `WorkGrows` | none |
| `SyncProofs!LedgerAlwaysValid` | `[]LedgerValid` | none |
| `SyncProofs!StoreKeepsUp` | `[]LedgerIsStored` | none |
| `SyncProofs!StoreInOrder` | `[]StoredInOrder` | none |
| `SyncProofs!AsksWithHeaders` | `[]TypeOK` | none |
| `RelayProofs!AlwaysServable` | `[]Servable` | none |
| `RelayProofs!AlwaysStoredAsTaken` | `[]StoredAsTaken` | none |
| `RelayProofs!AlwaysRelayedOnce` | `RelayedOnce` | none |
| `RelayProofs!WithinLimits` | `[]TypeOK`, the limits of requests and cache included | none |
| `RelayProofs!IndexAlwaysMatches` | `[]IndexMatches` of `PeerTable` | none |
| `RelayProofs!RecordsAlwaysKept` | `RecordsKept` of `PeerTable` | none |
| `RelayProofs!SelectionsAlwaysGood` | `[]SelectionsGood` of `PeerTable` | none |
| `CliProofs!SavedLedgersVerify` | `[]LedgersVerify` | none |
| `CliProofs!BlocksStay` | `BlocksKeptUnlessOverlapped` | none |
| `CliProofs!AttestationsLast` | `AttestationLasts` | `None`, the absent file, is no ledger |
| `CliProofs!SignedVerdictHolds` | `[]SignedVerdict` | none |
| `ConnectionsProofs!ConnectionsTypeCorrect` | `[]TypeOK` | none |
| `ConnectionsProofs!SlotsComeBack` | `[]SlotsKeptOnlyFromNew` | none |
| `ConnectionsProofs!EstablishesWithinNetwork` | `[]EstablishedCompatible`, the first half of `OutcomeJustified` | none |
| `ConnectionsProofs!RejectsOnlyWithReason` | `[]OutcomeJustified` | none |
| `ConnectionsProofs!ConnectionsLeaveClosed` | `LeavesClosed` | none |

The arguments:

- *Storage.* `HeadDurable` is not inductive: it depends on what the operation in
  progress has written when it replaces HEAD. `DurableInv` adds that an append
  works one height above HEAD on a child of the tip and has published its header
  and block before it goes on (`AppendAhead`), that a switch keeps its target on
  disk (`SwitchReady`), that COMMIT precedes HEAD (`CommitBeforeHead`), and that
  recovery settles on HEAD itself (`RecoveryKeepsHead`). The last needs a lemma:
  on a durable HEAD the backward walk rejects no height. For `RecoveredTrimmed`
  and `RecoveredIndexes` nothing may be said of what the faults left on disk, so
  the invariant is one of recovery alone: what each of its loops has deleted or
  rebuilt so far, up to the height the loop stands at. The refinement is proved
  step by step: from HEAD, a returned append appends, a switch replaces,
  `DurableInv` makes every other step a stutter. These rest on `Faults = {}`, and
  with it on what callers pass (`Appended`, `SwitchedTo`): the store itself
  compares no block with its tip. `TipPublished` needs neither: `AppendFiles`
  says what an append has written by the time it stands at each of its steps,
  whatever the block and whatever lies on disk.
- *Lock.* What a process has learnt stays true until it acts on it
  (`AcquireSound`): past the test there is no lock file, and the owner it found
  dead does not come back. This is what overlapping acquisitions break. The
  proof is in `StorageProofs`, the module of the backend the lock belongs to.
- *Registry.* `HeightsMeet`: of two records the first is revoked where the
  second is activated, and a single record is not revoked before it is
  activated. The attestation properties follow from it arithmetically.
- *Ledger.* The rules of a block look only at the blocks below it, so a block on
  top changes neither the median nor the target of an older one
  (`LedgerProofs!SameMedian`, `SameTarget`); hence `add_block_v2` takes exactly
  what `validate_chain` accepts afterwards (`AcceptedExactly`), and a chain built
  by acceptance alone is one it accepts (`AcceptedKeepsValid`). `TargetsInBounds` carries
  the bounds through both clamps of `retarget`. Work is a sum over a set of
  heights, so what is said of it rests on lemmas about sums (`SumTableExists` to
  `SumSplit`): a finite set on which one failed would have a smallest subset on
  which it fails (`Smallest`).
- *Fork choice.* The invariant is only that chains start at genesis and hold
  blocks of the right types with targets in bounds, since that is all an adopted
  branch is sure to have; `AcceptedExactly` needs no more, and the targets of a
  candidate are in bounds because they are those expected of the node's own
  chain. `SwitchedChain` says what the switch leaves: the node's blocks up to the
  common ancestor and the candidate's above it, whatever the candidate has
  below. `BranchWorkSplit` turns more work
  above the ancestor into more work of the whole chain (`SwitchedWork`). The depth
  policy puts the ancestor within `MaxReorgDepth` of the tip, which is
  `DeepBlocksKept`. Every block has positive work because no target reaches the
  number `compute_work` divides.
- *Sync.* `LedgerAlwaysValid` uses the lemmas of the ledger. `StoreKeepsUp` is a
  statement about sequences: taking a block moves it to the end of the pending
  blocks, a commit moves all of them to the end of the store. `StoredInOrder`
  has to hold after blocks were dropped too: its invariant gives every stored and
  every pending block a position in the ledger, and positions rise.
- *Relay.* What keeps a block that the cache has forgotten from being stored and
  announced again is the ledger: a chain that is linked and repeats no block has
  no child of its tip in it (`ExtensionIsNew`). `ChainInv` carries that, and
  `StepEffect` reduces a step to what it does to one node's chain and queue.
  `Servable` is inductive once stores, and the blocks callers have named, are
  known to grow (`PromisesGrow`). The limit on requests is
  a count: an inventory adds at most as many as there is room for
  (`WantedFits`).
- *Command line.* Every saved and every pending ledger verifies (`Sound`), and a
  pending write that was neither forced nor overlapped keeps the blocks of the
  file it replaces (`SafeWrite`). Each step keeps this because a ledger counts
  only by its network and the bodies of its blocks (`SameBodies`), and the hash
  of a sound ledger's last block commits to all of them (`TipCommits`). For the
  signed transactions the invariant is what the command asked of the registry
  whose root it wrote (`SignedTx`): a ledger with that root has that registry, and
  there the checks of the command give each condition of the reducer
  but two (`SignedApplies`).
- *Peer table.* `TableOK` adds the types of the records, that they are finitely
  many, and the index to the limit; `UpdateOK`, `InsertOK` and `WithoutOK` say what
  the three ways to change a table keep. A bootstrap and a selection are recursive
  functions over lists: that one has the values its definition says
  (`LoadStepExists`, `SourceStepExists`, `ChoiceStepExists`), and that it keeps
  what one pass keeps, is shown by the smallest index at which it would not. The
  invariant of the selection loop (`GoodChoice`) is that nobody is passed over
  wrongly so far; it holds on because more peers leave no more room
  (`RoomShrinks`).
- *Connections.* `SlotInv` adds that an entry is one of its own node, under the
  id of its handshake, which has begun (`EntriesBegun`), so a `finally` clause
  that takes out its id takes out all there is of it; and that only
  `register_inbound` ever waits in NEW (`NewIsRegister`). `OneEnd` is the shape
  every step but a start has. `NetworkInv` adds that messages on their way tell
  the network of their sender and that a session past its HELLO has a compatible
  peer; with two nodes the other end of the other end is one's own. Rejections
  need the order of messages too (`OrderInv`): what is on its way to an end is
  what its peer has said of its script and the end has not yet heard, and who
  does not speak first stays silent until it has heard something. So an end that
  refuses a HELLO or an ack of its own network called `accept` where the peer
  called `register_inbound`. `Turn` is what a step of a handshake does, as far as
  this order is concerned.

The assumptions on constants are those of the code's constants. The one on
`Ledger` says `MaxTarget < WorkScale`: `MAX_TARGET` (`block.py:31`) is below the
2**256 that `compute_work` divides (`reorg.py:90`).

Only model-checked: the three liveness properties, which are out of the prover's
reach. Every invariant and every other action property of a passing run is a
theorem. No module uses a RECURSIVE operator.

## Where code and documents part

Shown by a run:

- **A torn journal record hides all later ones** (`journal.py:57`). The tail is
  never truncated and readers stop at the first undecodable record, so recovery
  lowers HEAD below blocks whose append returned. `storage_torn_loss`.
- **Two acquisitions at once both succeed** (`filesystem.py:91`). `lock_race`.

Stated as properties in the modules, each refuted by TLC in the instances above
when put in place of their properties (with the named constants), but without a
run of their own, so that the runs stay one per question:

- `Storage!RecoveredHash` (`Faults = {"cap"}`): a walk that starts below HEAD
  compares with the HEAD hash, and HEAD is rewritten with the genesis hash
  (`recovery.py:119`; docs/STORAGE_CRASH_RECOVERY.md:90).
- `Storage!CommitRollsForward` (`Faults = {}`): after a crash between COMMIT and
  HEAD the committed block is deleted (`recovery.py:101`;
  docs/STORAGE_CRASH_RECOVERY.md:115).
- `Storage!RecoveredLinked` (`Faults = {"corrupt"}`): the walk stops at the
  first rejected height and never looks at the one below (`recovery.py:121`;
  docs/STORAGE_CRASH_RECOVERY.md:75).
- `Storage!RecoveredHeadReadable` (`Faults = {"corrupt"}`): an undecodable HEAD
  is not rewritten and all blocks go (`recovery.py:138`).
- `Storage!RecoveredNoStaleIndex` (`Faults = {}`): with no block left the index
  files stay (`recovery.py:161`; docs/STORAGE_CRASH_RECOVERY.md:85).
- `Storage!SnapshotExact` (`SnapshotInterval = 2`): `append_block` looks for a
  key its transactions do not carry and stages the previous state
  (`backend.py:215`; docs/adr/005-snapshot-and-pruning-model.md:41).
- `Registry!RevocationPermanent`: a rotation revives a revoked curator, since
  `_apply_rotate` looks neither at activity nor at revocation
  (`registry_state.py:967`; docs/EXTERNAL_AUDIT_CHECKLIST.md:38).
- `Registry!GovernanceKeysImmutable`: `_apply_revoke` drops the governance keys
  (`registry_state.py:1081`), after which `append_block` takes no block.
- `Registry!PendingKeyInvalid`, `AttestingKeyHasOneCurator`,
  `RotatedKeyIsCurrent`: a second rotation before the first is due makes the
  pending key valid at once, frees the first key for another curator although it
  still attests, or leaves the old record as the current one
  (`registry_state.py:225`, `:785`, `:181`).
- `Sync!StoredLinked`: a failed commit or a reset drops blocks the ledger has
  taken, and the next download is stored on the gap (`sync/engine.py:153`;
  `sync/engine.py:143`: "Persist the validated chain extension atomically").
- `Sync!ExtensionIsBetter`: the work of the headers received is compared with
  that of the whole local chain (`sync/engine.py:87`).
- `ForkChoice!SwitchedIsValid`: a candidate branch is checked neither for median
  past time nor for the link of its first block (`reorg.py:274`; `reorg.py:490`
  says "if candidate wins and is fully validated").
- `ForkChoice!EqualWorkDecided`, with a second node: `compare_work` never breaks a
  tie (docs/CONSENSUS_INVARIANTS.md:144 gives it to the lesser hash).
- `Sync!PartDiscarded`: blocks taken before a refused one stay in the ledger and
  among the pending ones, and the next commit stores them (`sync/engine.py:91`,
  `:131`; docs/BLOCK_SYNC_DESIGN.md:113: "Discard the partial segment", and :90:
  "Sync never writes uncommitted intermediate state to storage"); a storage error
  in the middle of a commit leaves a part of it stored as well.
- `Cli!SignedIsAccepted`: the governance commands sign what no block of the ledger
  takes. They sign for the constant `NETWORK_ID`, while the reducer compares with
  the network of the ledger (`cli_v2.py:1522`), and a rotation to the current key
  (`cli_v2.py:1562`), which the reducer refuses (`registry_state.py:959`);
  `cli_v2.py:1766` says "Run the same validation the ledger reducer performs".
  `SignedVerdict` says that these two are all that is missing.
- `Connections!SlotsGivenBack`: a `register_inbound` whose session is NEW when it
  fails keeps its slot, since `close` has no transition from NEW and raises in the
  `finally` clause (`manager.py:166`;
  docs/PHASE8D_CONNECTION_HANDSHAKE_REPORT.md:65: "Failed or timed-out handshakes
  clean up their connection slot"). That is one whose peer said nothing in time,
  and one that finds the link closed (`manager.py:148`), also when the peer's HELLO
  is waiting. `SlotsKeptOnlyFromNew` says that these are all.
- `PeerTable!BansLapse`: no code lifts a ban because its time is over
  (docs/PEER_ABUSE_POLICY.md:75: "Bans have a default duration of 1 hour";
  docs/PEER_SCORING_MODEL.md:67 gives durations that grow). A banned peer is never
  selected, so only a handshake it opens itself, or an eviction, ends its ban.
  `RecordsKept` says only which operations do not lift one.
- `PeerTable!TrustedExempt`: the share of a source is kept for every source
  (`peer_table.py:159`), where docs/PEER_DISCOVERY_ARCHITECTURE.md:182 exempts
  trusted manual and bootstrap peers; and one place per source is always left,
  where :178 sets a plain quarter.
- `PeerTable!FailedFiltered`: a peer that has just failed stays a candidate
  (docs/PEER_SCORING_MODEL.md:107: "Filter out banned and recently failed peers").
  `SelectionsGood` is the rule of the code in both respects.

Part of the properties that hold, as their exceptions:

- `block add` and `chain init` lose the blocks of a command they overlap
  (`cli_v2.py:330`). `BlocksKeptUnlessOverlapped`.
- `on_local_block` has a block announced that the node need not hold
  (`relay/engine.py:57`; tests/test_relay_engine.py:36 does so), and again once the
  seen cache has forgotten it. `Servable`, `RelayedOnce`.
- Nothing in the store ties a block to its tip or a switch to what is stored
  (`backend.py:190`, `:431`). The fault `"unlinked"`, and the assumption of the
  theorems about `HeadDurable`, `TipNeverLost` and `ImplementsDurableChain`.
- `accept` waits for HELLO and HELLO_ACK, `register_inbound` sends the ack only:
  between the two the latter may take itself for established while `accept`
  rejects the ack it gets for a HELLO, and counts it towards a ban
  (`manager.py:106`, `:159`; docs/PEER_HANDSHAKE.md:36 has each side send an
  ack). `OutcomeJustified`.
- The `finally` clause of a handshake that was removed takes out whatever bears
  its id by then, without closing it (`manager.py:131`); `remove` of a connection
  in NEW raises once the entry is out. `LeavesClosed`.
- `load_bootstrap` may evict a banned peer and offer it anew, without its ban
  (`peer_table.py:199`). `RecordsKept`.

Read in the code and modelled, or left out as noted, without a property:

- From the first retargeting height on, headers and blocks received by sync make
  `expected_target_at` raise an `IndexError` nobody catches; `handle_block`
  counts pending blocks twice, so a download spanning height 10 stops there with
  the state left at VALIDATING_BLOCKS. Modelled by `HeadersRaise`, `BlockRaises`.
- `next_block_request` asks by `header_hash`, a hash of a JSON text that is no
  block's hash (`header_sync.py:90`), so the `GET_BLOCK` server of
  `relay/engine.py:183` finds nothing; and no timer ends the wait
  (docs/SYNC_PROTOCOL_ARCHITECTURE.md:209: "Retry with another peer"). This is why
  no liveness of a download is stated.
- A relay request to a silent peer, or one answered with another block, stays for
  ever, and 16 of them stop relay: nothing reads `block_response_timeout_seconds`
  (docs/BLOCK_RELAY_ARCHITECTURE.md:188 describes timeout and retry). In `Relay`
  this is the step that never comes.
- A relayed block that comes before its parent is refused and forgotten
  (docs/BLOCK_RELAY_ARCHITECTURE.md:134 describes an orphan pool). Modelled by
  `Refused`.
- SYNCED is reported on late headers while blocks of a download still wait.
  Modelled by `HandleHeaders`.
- The targets expected of a branch come from the node's own chain
  (`reorg.py:718`). Modelled by `ExpectedOfCandidate`.
- `chain_work` divides the maximal target, `reorg.py` divides 2**256; the two
  rank chains differently where rounding differs. Modelled by `WorkOf` and
  `ComputeWork`.

## Limits of the development

- Cryptography, encodings and the wire format are abstracted or left out: their
  correctness is about bytes, and they keep no state.
- Of the command line, the v1 commands of `cli.py`, `curator generate`, and the
  network and archive commands are left out. `curator generate` writes the
  private key before it refuses to replace the public key, and `archive add`
  stores its objects before it refuses the output; no other command reads what is
  left behind.
- v1 blocks and the legacy registry of `witness.py` are left out; no running
  code produces them.
- Clocks of different nodes agree in `ForkChoice` and `Sync`.
- A refused block stands for every reason to refuse one; the reasons that depend
  on the chain (parent, target, time) are modelled one by one.
- In `Relay` peers are truthful: a block that does not hash to what it is listed
  as, and lists beyond the limits of a message, are refused before any state
  changes and are left out.
- Gossip, the message queue under contention, and framing are not yet modelled
  (see the plan); `Connections` takes a queue to be first in, first out.

## Plan

In this order, the most important behaviour first:

1. `MessageQueue`: tasks in `put` and `get` split at their awaits. Properties:
   first in first out, no item lost, bytes used equal to the bytes queued,
   against an abstract bounded queue.
2. `Node`, composing `Ledger`, `Storage`'s abstraction `DurableChain`, `Sync` and
   `Relay`: the two engines share one ledger and one store.
3. `Gossip`: forwarding with hop limits and an expiring cache.
4. `Framing`: the frame decoder as a function of the bytes received, checked
   against the concatenation of frames, and the transports' `receive`.
5. `Archive` and the remaining commands, as files a killed command leaves.

Theorems to come: those of these modules, and for `Node` that both engines
together keep what `Sync` and `Relay` keep alone.

--------------------------------- MODULE Cli ---------------------------------
(***************************************************************************)
(* The v2 commands of cli_v2.py on the files operators share: ledgers,     *)
(* mined blocks, signed governance transactions and attestations.  Every   *)
(* command loads what it needs, checks it, and replaces one output file    *)
(* (_atomic_write).  Nothing locks a ledger between the load and the       *)
(* replacement, so `chain init` and `block add` are two steps other        *)
(* commands may come between.  The commands that only read a ledger and    *)
(* write a file of their own are one step.                                 *)
(*                                                                         *)
(* A ledger file is a network and the blocks above its genesis.  A hash    *)
(* stands for what was hashed: the hash of a block for its network and the *)
(* bodies of the transactions up to it, a registry root for the network    *)
(* and the bodies applied so far (records carry the ids of their           *)
(* transactions, and each transaction the root before it).                 *)
(* Merkle root, proof of work, target and timestamp are those of a block   *)
(* the miner finished for that parent.  The reducer is that of Registry.   *)
(***************************************************************************)
EXTENDS Integers, Sequences, FiniteSets

CONSTANTS
    Operators,      \* the processes that run commands
    Ledgers,        \* paths of ledger files
    Networks,       \* network ids of ledgers
    Alpha,          \* NETWORK_ID, the frozen network
    Curators, Keys, \* of the registry
    None,           \* no file, no command, no transaction, no key
    MaxHeight,      \* bound: blocks in a ledger
    MaxGoverned,    \* bound: height of a block mined with a transaction
    MaxActivation   \* bound: heights named by transactions

ASSUME CliAssumption ==
    /\ Alpha \in Networks
    /\ None \notin Keys
    /\ MaxHeight \in Nat /\ MaxGoverned \in Nat /\ MaxActivation \in Nat

VARIABLES
    ledgers,        \* content of every ledger file
    txFile,         \* output of the governance commands
    blockFile,      \* output of `block mine`
    running         \* the ledger write each operator's command has pending

vars == <<ledgers, txFile, blockFile, running>>

(* The registry after `height` blocks, with the given records.             *)
R(records, height) == INSTANCE Registry WITH governed <- TRUE

NoTransaction == [network |-> None, root |-> None, body |-> None]

NoRecords == [c \in Curators |-> << >>]

-----------------------------------------------------------------------------
(* Loading and validating a ledger (chain.py) *)

Height(led) == Len(led.chain)

(* apply_registry_transaction on a transaction that applies: the height of *)
(* the block decides whether it does, not what it changes.                 *)
After(rs, body) ==
    CASE body.action = "register" ->
            R(rs, 0)!Registered(body.curator, body.key, body.height)
      [] body.action = "rotate" ->
            R(rs, 0)!Rotated(body.curator, body.new, body.height)
      [] body.action = "revoke" ->
            R(rs, 0)!AfterRevocation(body.curator, body.height)

(* _apply_transactions, from genesis over the transactions of the blocks.  *)
Replayed(bodies) ==
    LET Replay[i \in 0 .. Len(bodies)] ==
            IF i = 0 THEN NoRecords
            ELSE LET rs == Replay[i - 1] IN After(rs, bodies[i])
    IN  Replay[Len(bodies)]

Bodies(led, h) == [i \in 1 .. h |-> led.chain[i].body]
Applied(bodies) == SelectSeq(bodies, LAMBDA body : body # None)

(* _state_at: the state after h blocks. *)
StateAt(led, h) == Replayed(Applied(Bodies(led, h)))
State(led) == StateAt(led, Height(led))

(* registry_root of _state_at(h). *)
RootAt(led, h) == <<led.network, Applied(Bodies(led, h))>>
Root(led) == RootAt(led, Height(led))

(* last_block.hash: what the last block's header commits to.               *)
TipHash(led) ==
    IF led.chain = << >> THEN <<led.network, << >>>>
    ELSE LET last == led.chain[Height(led)]
         IN  <<last.prev[1], Append(last.prev[2], last.body)>>

(* _require_active_record, with the signature of the key it names.         *)
SignedByCurator(rs, h, body) ==
    /\ rs[body.curator] # << >>
    /\ R(rs, h)!Latest(body.curator).key = body.key

(* apply_registry_transaction, after from_dict has compared the network.   *)
AppliesAt(led, h, tx) ==
    LET rs == StateAt(led, h)
        body == tx.body
    IN  body # None =>
          /\ tx.network = led.network
          /\ tx.root = RootAt(led, h)
          /\ \/ /\ body.action = "register"
                /\ R(rs, h)!Registrable(body.curator, body.key, body.height)
             \/ /\ body.action = "rotate"
                /\ SignedByCurator(rs, h, body)
                /\ R(rs, h)!Rotatable(body.curator, body.new, body.height)
             \/ /\ body.action = "revoke"
                /\ SignedByCurator(rs, h, body)
                /\ R(rs, h)!Revocable(body.curator, body.height)

(* validate_chain: every link, and every transaction against the state     *)
(* replayed up to it.                                                      *)
Verifies(led) ==
    \A i \in 1 .. Height(led) :
        /\ led.chain[i].prev = <<led.network, Bodies(led, i - 1)>>
        /\ AppliesAt(led, i - 1, led.chain[i])

(* _load_ledger: Ledger.from_dict replays the transactions and raises if   *)
(* one does not apply; links are not looked at.                            *)
Loads(led) ==
    /\ led # None
    /\ \A i \in 1 .. Height(led) : AppliesAt(led, i - 1, led.chain[i])

-----------------------------------------------------------------------------
Init ==
    /\ ledgers = [l \in Ledgers |-> None]
    /\ txFile = NoTransaction
    /\ blockFile = None
    /\ running = [p \in Operators |-> None]

Idle(p) == running[p] = None

(* What a command is about to write.  mayLose: forced over a file that was  *)
(* there, or the file has changed since it looked; for the properties only. *)
Pending(out, content, replaces) ==
    [out |-> out, content |-> content, mayLose |-> replaces]

Overlapped(write, out) ==
    IF write # None /\ write.out = out THEN [write EXCEPT !.mayLose = TRUE] ELSE write

Fresh(network) == [network |-> network, chain |-> << >>]

ChainInitOverwrites(p, out, network, force) ==  \* mutant: no look at the file there
    /\ Idle(p)
    /\ running' = [running EXCEPT ![p] =
           Pending(out, Fresh(network), force /\ ledgers[out] # None)]
    /\ UNCHANGED <<ledgers, txFile, blockFile>>

(* v2_chain_init, up to _save_ledger.                                      *)
ChainInit(p, out, network, force) ==
    /\ Idle(p)
    /\ ledgers[out] = None \/ force
    /\ running' = [running EXCEPT ![p] = Pending(out, Fresh(network), force /\ ledgers[out] # None)]
    /\ UNCHANGED <<ledgers, txFile, blockFile>>

AcceptsUnapplied(led, block) == block.prev = TipHash(led)  \* mutant

(* add_block_v2 and the checks v2_block_add makes before it.               *)
Accepts(led, block) ==
    /\ block.prev = TipHash(led)
    /\ AppliesAt(led, Height(led), block)

(* v2_block_add, up to _save_ledger. *)
BlockAdd(p, l, out, force) ==
    /\ Idle(p)
    /\ ledgers[out] = None \/ force \/ out = l
    /\ blockFile # None /\ ledgers[l] # None
    /\ Accepts(ledgers[l], blockFile)
    /\ Loads(ledgers[l])
    /\ running' = [running EXCEPT ![p] =
           Pending(out, [ledgers[l] EXCEPT !.chain = Append(@, blockFile)],
                   force /\ ledgers[out] # None /\ out # l)]
    /\ UNCHANGED <<ledgers, txFile, blockFile>>

(* _save_ledger: os.replace, whatever other commands are about to write. *)
Save(p) ==
    /\ ~Idle(p)
    /\ ledgers' = [ledgers EXCEPT ![running[p].out] = running[p].content]
    /\ running' = [q \in Operators |->
           IF q = p THEN None ELSE Overlapped(running[q], running[p].out)]
    /\ UNCHANGED <<txFile, blockFile>>

(* The process dies, or the write fails: the temporary file is not the     *)
(* ledger.                                                                 *)
Interrupted(p) ==
    /\ ~Idle(p)
    /\ running' = [running EXCEPT ![p] = None]
    /\ UNCHANGED <<ledgers, txFile, blockFile>>

(* mine_block_v2, with one transaction or NoTransaction. *)
Mined(led, tx) ==
    [prev |-> TipHash(led), network |-> tx.network, root |-> tx.root, body |-> tx.body]

(* v2_block_mine: the transaction's schema is checked, not that it applies. *)
BlockMine(l, tx) ==
    /\ ledgers[l] # None
    /\ Height(ledgers[l]) < IF tx = NoTransaction THEN MaxHeight ELSE MaxGoverned
    /\ Loads(ledgers[l])
    /\ blockFile' = Mined(ledgers[l], tx)
    /\ UNCHANGED <<ledgers, txFile, running>>

-----------------------------------------------------------------------------
(* Governance commands.  The governance keys named on the command line     *)
(* reach the threshold, else nothing is written.                           *)

(* _candidate_block_height *)
Candidate(led) == Height(led) + 1
FutureHeightsFromCandidate(led) == Candidate(led) .. MaxActivation  \* mutant
FutureHeights(led) == Candidate(led) + 1 .. MaxActivation

(* _require_active_curator_key *)
ActiveCuratorKey(rs, h, c, key) ==
    /\ rs[c] # << >>
    /\ R(rs, h)!Latest(c).key = key
    /\ R(rs, h)!Latest(c).revocation = R(rs, h)!Never

UsedBy(rs, h, others, key) == \E d \in others : R(rs, h)!KeyUsedBy(d, key)

(* What _build_sign_governance_tx asks of the state for each action.        *)
RegisterBody(rs, h, c, key) == rs[c] = << >> /\ ~UsedBy(rs, h, Curators, key)

RotateBody(rs, h, c, key, new) ==
    ActiveCuratorKey(rs, h, c, key) /\ ~UsedBy(rs, h, Curators \ {c}, new)

RevokeBody(rs, h, c, key, revocation) ==
    ActiveCuratorKey(rs, h, c, key) /\ revocation >= R(rs, h)!Latest(c).activation

(* CuratorRegisterTx, CuratorRotateTx, CuratorRevokeTx. *)
Body(action, c, key, new, height) ==
    [action |-> action, curator |-> c, key |-> key, new |-> new, height |-> height]

(* _build_sign_governance_tx from the body to the file: the network id and *)
(* the domain of the signatures are NETWORK_ID, whatever the ledger's; the *)
(* root is that of the ledger loaded.  The curator's private key is that   *)
(* of the public key given.                                                *)
WriteTx(led, body) ==
    /\ txFile' = [network |-> Alpha, root |-> Root(led), body |-> body]
    /\ UNCHANGED <<ledgers, blockFile, running>>

GovernanceRegister(l, c, key, activation) ==
    /\ ledgers[l] # None
    /\ activation \in FutureHeights(ledgers[l])
    /\ RegisterBody(State(ledgers[l]), Height(ledgers[l]), c, key)
    /\ Loads(ledgers[l])
    /\ WriteTx(ledgers[l], Body("register", c, key, None, activation))

GovernanceRotate(l, c, key, new, activation) ==
    /\ ledgers[l] # None
    /\ activation \in FutureHeights(ledgers[l])
    /\ RotateBody(State(ledgers[l]), Height(ledgers[l]), c, key, new)
    /\ Loads(ledgers[l])
    /\ WriteTx(ledgers[l], Body("rotate", c, key, new, activation))

GovernanceRevoke(l, c, key, revocation) ==
    /\ ledgers[l] # None
    /\ revocation \in FutureHeights(ledgers[l])
    /\ RevokeBody(State(ledgers[l]), Height(ledgers[l]), c, key, revocation)
    /\ Loads(ledgers[l])
    /\ WriteTx(ledgers[l], Body("revoke", c, key, None, revocation))

-----------------------------------------------------------------------------
(* Attestations *)

ValidAtTip(led, c, key, h) ==  \* mutant
    R(State(led), Height(led))!KeyWasValidAt(c, key, Height(led))

ValidAt(led, c, key, h) == R(StateAt(led, h), h)!KeyWasValidAt(c, key, h)

(* v2_attest_create writes an attestation of height h; no other command    *)
(* reads the file but v2_attest_verify, so both are conditions here.       *)
AttestCreates(l, c, key, h) ==
    /\ ledgers[l] # None
    /\ h \in 0 .. Height(ledgers[l])
    /\ ValidAt(ledgers[l], c, key, h)
    /\ Loads(ledgers[l])

(* v2_attest_verify, asked about height h. *)
AttestVerifies(l, att, h) ==
    /\ ledgers[l] # None
    /\ h \in 0 .. Height(ledgers[l])
    /\ att.height = h
    /\ ValidAt(ledgers[l], att.curator, att.key, h)
    /\ Loads(ledgers[l])

-----------------------------------------------------------------------------
Heights == 1 .. MaxActivation

Next ==
    \/ \E p \in Operators, out \in Ledgers, n \in Networks, force \in BOOLEAN :
          ChainInit(p, out, n, force)
    \/ \E p \in Operators, l, out \in Ledgers, force \in BOOLEAN : BlockAdd(p, l, out, force)
    \/ \E p \in Operators : Save(p)
    \/ \E p \in Operators : Interrupted(p)
    \/ \E l \in Ledgers, tx \in {NoTransaction, txFile} : BlockMine(l, tx)
    \/ \E l \in Ledgers, c \in Curators, key \in Keys, h \in Heights :
          GovernanceRegister(l, c, key, h)
    \/ \E l \in Ledgers, c \in Curators, key, new \in Keys, h \in Heights :
          GovernanceRotate(l, c, key, new, h)
    \/ \E l \in Ledgers, c \in Curators, key \in Keys, h \in Heights :
          GovernanceRevoke(l, c, key, h)

Spec == Init /\ [][Next]_vars

-----------------------------------------------------------------------------
(* A saved ledger always passes `chain verify`, however blocks, stale or   *)
(* fresh, and transactions made for another state or another ledger are    *)
(* offered, and whatever commands overlap.                                 *)
LedgersVerify == \A l \in Ledgers : ledgers[l] # None => Verifies(ledgers[l])

KeepsUpto(led, old, h) ==
    /\ led.network = old.network
    /\ h <= Height(led)
    /\ SubSeq(led.chain, 1, h) = SubSeq(old.chain, 1, h)

Extends(led, old) ==
    \/ old = None
    \/ KeepsUpto(led, old, Height(old))

(* A ledger file loses a block, or its network, only to a forced command   *)
(* or to one that overlapped another: the file had changed since the       *)
(* command looked at it.                                                   *)
BlocksKeptUnlessOverlapped ==
    [][\A l \in Ledgers :
          ~Extends(ledgers'[l], ledgers[l]) =>
              \E p \in Operators :
                  /\ ~Idle(p) /\ Idle(p)'
                  /\ running[p].out = l
                  /\ running[p].mayLose]_vars

(* The transaction was made for the state the ledger is in, and its height *)
(* has not been passed by blocks without governance.                       *)
StillCurrent(tx, led) ==
    /\ tx.body # None /\ led # None
    /\ tx.root = Root(led)
    /\ tx.body.height \in FutureHeights(led)

(* The reducer's verdict on a signed transaction in the next block of every *)
(* ledger still in the state it was signed for.  It takes the transaction  *)
(* unless the ledger is of another network than alpha or the transaction   *)
(* rotates a curator to the key it has: the two checks of the reducer that *)
(* the governance commands lack.  In every other respect their own checks  *)
(* are no weaker than the consensus rules.                                 *)
SignedVerdict ==
    \A l \in Ledgers : StillCurrent(txFile, ledgers[l]) =>
        (AppliesAt(ledgers[l], Height(ledgers[l]), txFile) <=>
            /\ ledgers[l].network = Alpha
            /\ txFile.body.new # txFile.body.key)

(* "Verification resolves the curator registry at the attested height, so  *)
(* validity depends only on on-chain state": what could be attested for a  *)
(* height can be verified after any change of the ledger file that leaves  *)
(* the blocks up to that height, whatever is rotated or revoked above.     *)
AttestationLasts ==
    [][\A l \in Ledgers : ledgers'[l] # ledgers[l] =>
          \A c \in Curators, key \in Keys, h \in 0 .. MaxHeight :
              LET att == [curator |-> c, key |-> key, height |-> h]
              IN  AttestCreates(l, c, key, h) /\ KeepsUpto(ledgers'[l], ledgers[l], h)
                      => AttestVerifies(l, att, h)']_ledgers

-----------------------------------------------------------------------------
(* What the source says of the commands and they do not do.                *)

(* src/chainbreaker/cli_v2.py:1766: the governance commands "run the same  *)
(* validation the ledger reducer performs", so what they sign for a state  *)
(* applies in that state.  They sign rotations to the current key          *)
(* (RotateBody), which the reducer refuses (registry_state.py:959), and    *)
(* sign for NETWORK_ID on a ledger of any network.                         *)
SignedIsAccepted ==
    \A l \in Ledgers : StillCurrent(txFile, ledgers[l]) =>
        AppliesAt(ledgers[l], Height(ledgers[l]), txFile)
=============================================================================

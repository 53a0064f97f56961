------------------------------ MODULE Registry ------------------------------
(***************************************************************************)
(* The curator registry: the reducer of registry_state.py that folds the   *)
(* governance transactions of a block (curator_register, curator_rotate,   *)
(* curator_revoke) into the registry state, and the question attestation   *)
(* checking asks of it, key_was_valid_at.                                  *)
(*                                                                         *)
(* A transaction names the root of the state it was made for, so it is     *)
(* applied to exactly that state; signatures are abstracted: every         *)
(* transaction considered here carries the governance signatures and the   *)
(* curator signature the reducer asks for.                                 *)
(***************************************************************************)
EXTENDS Integers, Sequences

CONSTANTS
    Curators,       \* curator ids
    Keys,           \* curator public keys
    None,           \* no previous key
    MaxHeight,      \* bound: blocks applied
    MaxActivation   \* bound: activation and revocation heights transactions name

ASSUME RegistryAssumption ==
    /\ None \notin Keys
    /\ MaxHeight \in Nat
    /\ MaxActivation \in Nat

VARIABLES
    height,     \* height of the last complete block
    records,    \* RegistryState.records, grouped by curator
    governed    \* RegistryState.governance_keys still holds the genesis keys

vars == <<height, records, governed>>

(* revocation_height None: later than every height.                        *)
Never == MaxActivation + 1
(* The height of the block whose transactions are being applied.           *)
BlockHeight == height + 1
(* The activation and revocation heights a transaction may name.           *)
Future == BlockHeight + 1 .. MaxActivation

CuratorRecord ==
    [key : Keys, activation : 1 .. MaxActivation, revocation : 1 .. Never,
     previous : Keys \cup {None}]

Fresh(key, activation, previous) ==
    [key |-> key, activation |-> activation, revocation |-> Never,
     previous |-> previous]

IsActiveAt(r, h) == r.activation <= h /\ h < r.revocation

RecordsOf(c) == {records[c][i] : i \in DOMAIN records[c]}

(* RegistryState.by_id: the first record with the highest activation.      *)
Latest(c) ==
    LET Highest(i) == \A j \in DOMAIN records[c] :
                          records[c][j].activation <= records[c][i].activation
    IN  records[c][CHOOSE i \in DOMAIN records[c] :
                       Highest(i) /\ \A j \in 1 .. i - 1 : ~Highest(j)]

(* RegistryState.key_was_valid_at.                                         *)
KeyWasValidAt(c, key, h) ==
    \E r \in RecordsOf(c) :
        \/ r.key = key /\ IsActiveAt(r, h)
        \/ r.previous = key /\ h < r.activation

ValidKeys(c, h) == {key \in Keys : KeyWasValidAt(c, key, h)}

KeyUsedBy(c, key) == \E r \in RecordsOf(c) : r.key = key

-----------------------------------------------------------------------------
(* RegistryState.genesis. *)
Init ==
    /\ height = 0
    /\ records = [c \in Curators |-> << >>]
    /\ governed = TRUE

(* Mutant: registration compares the key with the curator's own records.   *)
RegisterOwnKeysOnly(c, key, activation) ==
    /\ height < MaxHeight
    /\ activation \in Future
    /\ records[c] = << >>
    /\ ~KeyUsedBy(c, key)
    /\ records' = [records EXCEPT ![c] = <<Fresh(key, activation, None)>>]
    /\ UNCHANGED <<height, governed>>

(* _require_not_registered, and the height _apply_register asks for.       *)
Registrable(c, key, activation) ==
    /\ activation \in Future
    /\ records[c] = << >>
    /\ \A d \in Curators : ~KeyUsedBy(d, key)

Registered(c, key, activation) ==
    [records EXCEPT ![c] = <<Fresh(key, activation, None)>>]

(* _apply_register. *)
Register(c, key, activation) ==
    /\ height < MaxHeight
    /\ Registrable(c, key, activation)
    /\ records' = Registered(c, key, activation)
    /\ UNCHANGED <<height, governed>>

(* Mutant: the old record is kept without a revocation height.             *)
RotateKeepsOldOpen(c, key, activation) ==
    /\ height < MaxHeight
    /\ activation \in Future
    /\ records[c] # << >>
    /\ key # Latest(c).key
    /\ \A d \in Curators \ {c} : ~KeyUsedBy(d, key)
    /\ records' = [records EXCEPT ![c] =
                     <<Latest(c), Fresh(key, activation, Latest(c).key)>>]
    /\ UNCHANGED <<height, governed>>

(* Mutant: a rotation filters no record out. *)
RotateKeepsAll(c, key, activation) ==
    /\ height < MaxHeight
    /\ activation \in Future
    /\ records[c] # << >>
    /\ key # Latest(c).key
    /\ \A d \in Curators \ {c} : ~KeyUsedBy(d, key)
    /\ records' = [records EXCEPT ![c] =
                     Append(@, Fresh(key, activation, Latest(c).key))]
    /\ UNCHANGED <<height, governed>>

(* What _apply_rotate asks: nothing about a revocation of the old record.  *)
Rotatable(c, key, activation) ==
    /\ activation \in Future
    /\ records[c] # << >>
    /\ key # Latest(c).key
    /\ \A d \in Curators \ {c} : ~KeyUsedBy(d, key)

(* Whatever records the curator had, two remain.  The old record's         *)
(* revocation height is overwritten, even if it was revoked.               *)
Rotated(c, key, activation) ==
    [records EXCEPT ![c] = <<[Latest(c) EXCEPT !.revocation = activation],
                             Fresh(key, activation, Latest(c).key)>>]

(* _apply_rotate. *)
Rotate(c, key, activation) ==
    /\ height < MaxHeight
    /\ Rotatable(c, key, activation)
    /\ records' = Rotated(c, key, activation)
    /\ UNCHANGED <<height, governed>>

(* Mutant: the revocation may precede the activation.                      *)
RevokeAnyTime(c, revocation) ==
    /\ height < MaxHeight
    /\ revocation \in Future
    /\ records[c] # << >>
    /\ Latest(c).revocation = Never
    /\ records' = [records EXCEPT ![c] =
                     <<[Latest(c) EXCEPT !.revocation = revocation]>>]
    /\ governed' = FALSE
    /\ UNCHANGED height

(* What _apply_revoke asks. *)
Revocable(c, revocation) ==
    /\ revocation \in Future
    /\ records[c] # << >>
    /\ Latest(c).revocation = Never
    /\ revocation >= Latest(c).activation

(* The latest record alone remains of the curator's.                       *)
AfterRevocation(c, revocation) ==
    [records EXCEPT ![c] = <<[Latest(c) EXCEPT !.revocation = revocation]>>]

(* _apply_revoke: RegistryState(records=...) leaves the governance keys    *)
(* and threshold at their defaults, none and 0.                            *)
Revoke(c, revocation) ==
    /\ height < MaxHeight
    /\ Revocable(c, revocation)
    /\ records' = AfterRevocation(c, revocation)
    /\ governed' = FALSE
    /\ UNCHANGED height

(* The block is complete; the next one is validated against this state.    *)
CompleteBlock ==
    /\ height < MaxHeight
    /\ height' = height + 1
    /\ UNCHANGED <<records, governed>>

Next ==
    \/ \E c \in Curators, key \in Keys, h \in Future : Register(c, key, h)
    \/ \E c \in Curators, key \in Keys, h \in Future : Rotate(c, key, h)
    \/ \E c \in Curators, h \in Future : Revoke(c, h)
    \/ CompleteBlock

Spec == Init /\ [][Next]_vars

-----------------------------------------------------------------------------
(* What holds.  A state reached inside block BlockHeight is, once the block *)
(* is complete, the state later blocks are attested against: properties     *)
(* about attestation speak of the heights in Future only.                   *)

(* No curator has more than the two records a rotation leaves, all of them *)
(* well formed.                                                            *)
TypeOK ==
    /\ height \in 0 .. MaxHeight
    /\ records \in [Curators -> Seq(CuratorRecord)]
    /\ \A c \in Curators : Len(records[c]) <= 2
    /\ governed \in BOOLEAN

(* A public key is on record for one curator only, whatever sequence of    *)
(* registrations and rotations led here (_require_not_registered,          *)
(* _require_public_key_unused).                                            *)
KeyHasOneCurator ==
    \A c, d \in Curators, key \in Keys :
        KeyUsedBy(c, key) /\ KeyUsedBy(d, key) => c = d

(* Once every activation of a curator has passed, key_was_valid_at accepts *)
(* one key at most for that curator: rotations leave no second signer.     *)
SettledKey ==
    \A c \in Curators, h \in Future :
        (\A r \in RecordsOf(c) : r.activation <= h)
            => \A k, l \in ValidKeys(c, h) : k = l

(* _apply_revoke leaves the curator this one record, revoked.              *)
Revoked(c) == Len(records[c]) = 1 /\ records[c][1].revocation # Never

(* A curator revoked by _apply_revoke has no key key_was_valid_at accepts  *)
(* from the revocation height on, the key it was rotated from included.    *)
RevokedKeyInvalid ==
    \A c \in Curators, h \in Future :
        Revoked(c) /\ h >= records[c][1].revocation => ValidKeys(c, h) = {}

-----------------------------------------------------------------------------
(* What the documents say and the code does not do.                        *)

(* "The genesis governance key list is immutable for the life of the       *)
(* network"; _apply_revoke builds the new state without it.                *)
GovernanceKeysImmutable == governed

(* "revoke permanently removes the curator from the active set"; a         *)
(* rotation asks nothing of the revocation height of the record it         *)
(* replaces.                                                               *)
RevocationPermanent ==
    [][\A c \in Curators :
          Revoked(c) =>
              \A h \in Future' :
                  h >= records[c][1].revocation => ValidKeys(c, h)' = {}]_vars

(* "a key not yet activated is invalid"; a second rotation makes the       *)
(* pending key the previous key of its successor, valid before it.         *)
PendingKeyInvalid ==
    \A c \in Curators, h \in Future :
        \A r \in RecordsOf(c) :
            h < r.activation /\ (\A s \in RecordsOf(c) \ {r} : s.key # r.key)
                => ~KeyWasValidAt(c, r.key, h)

(* "a revoked public key cannot be reused under a different curator ID";   *)
(* the key of a record a second rotation dropped is still accepted as a    *)
(* previous key and may be registered by another curator.                  *)
AttestingKeyHasOneCurator ==
    \A c, d \in Curators, h \in Future :
        c # d => ValidKeys(c, h) \cap ValidKeys(d, h) = {}

(* "The new public_key_hex becomes the active key at activation_height";   *)
(* a rotation may name a height no later than the old activation, and      *)
(* by_id then keeps answering with the old record.                         *)
RotatedKeyIsCurrent ==
    \A c \in Curators :
        Len(records[c]) = 2 => Latest(c) = records[c][2]
=============================================================================

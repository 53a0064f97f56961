--------------------------- MODULE RegistryProofs ---------------------------
(***************************************************************************)
(* What TLAPS proves of Registry, for every set of curators and keys and   *)
(* every bound.  Inv adds to the type and to KeyHasOneCurator the relation *)
(* between the heights of a curator's records that the two attestation     *)
(* properties follow from.                                                 *)
(***************************************************************************)
EXTENDS Registry, SequenceTheorems, TLAPS

(* A single record is not revoked before it is activated; of two, the      *)
(* first is revoked where the second is activated.                         *)
HeightsMeet ==
    \A c \in Curators :
        /\ Len(records[c]) = 1 =>
               records[c][1].activation <= records[c][1].revocation
        /\ Len(records[c]) = 2 =>
               records[c][1].revocation = records[c][2].activation

Inv == TypeOK /\ KeyHasOneCurator /\ HeightsMeet

(* The lengths a curator's sequence of records can have.                   *)
LEMMA Lengths ==
    ASSUME NEW m
    PROVE  m \in {0, 1, 2} <=> m \in Nat /\ m <= 2
OBVIOUS

(* The arithmetic of heights, stated once.                                 *)
LEMMA Heights ==
    ASSUME TypeOK, NEW h \in Future
    PROVE  /\ h \in Int /\ MaxActivation \in Int
           /\ h \in 1 .. MaxActivation
           /\ h \in 1 .. Never
           /\ h < Never
           /\ Never \in 1 .. Never
<1>1. height \in Int /\ height >= 0 /\ MaxActivation \in Int
  BY RegistryAssumption DEF TypeOK
<1> QED BY <1>1 DEF Future, BlockHeight, Never

LEMMA RecordHeights ==
    ASSUME NEW r \in CuratorRecord
    PROVE  /\ r.activation \in Int /\ r.activation \in 1 .. MaxActivation
           /\ r.revocation \in Int /\ r.revocation \in 1 .. Never
BY RegistryAssumption DEF CuratorRecord, Never

LEMMA RevokedRecord ==
    ASSUME NEW r \in CuratorRecord, NEW h \in 1 .. Never
    PROVE  LET s == [r EXCEPT !.revocation = h]
           IN  /\ s \in CuratorRecord
               /\ s.key = r.key
               /\ s.activation = r.activation
               /\ s.revocation = h
BY DEF CuratorRecord

LEMMA FreshRecord ==
    ASSUME NEW key \in Keys, NEW h \in 1 .. MaxActivation,
           NEW previous \in Keys \cup {None}, Never \in 1 .. Never
    PROVE  LET r == Fresh(key, h, previous)
           IN  /\ r \in CuratorRecord
               /\ r.key = key
               /\ r.activation = h
               /\ r.revocation = Never
BY DEF CuratorRecord, Fresh

LEMMA CuratorRecords ==
    ASSUME TypeOK, NEW c \in Curators
    PROVE  /\ records[c] \in Seq(CuratorRecord)
           /\ Len(records[c]) \in {0, 1, 2}
           /\ DOMAIN records[c] = 1 .. Len(records[c])
           /\ records[c] # << >> => Len(records[c]) # 0
           /\ \A i \in 1 .. Len(records[c]) :
                  /\ records[c][i] \in CuratorRecord
                  /\ records[c][i].activation \in Int
                  /\ records[c][i].revocation \in Int
<1>1. records[c] \in Seq(CuratorRecord) /\ Len(records[c]) <= 2
  BY DEF TypeOK
<1>2. Len(records[c]) \in Nat /\ DOMAIN records[c] = 1 .. Len(records[c])
  BY <1>1, LenProperties
<1>3. records[c] # << >> => Len(records[c]) # 0
  BY <1>1, EmptySeq
<1>4. \A i \in 1 .. Len(records[c]) : records[c][i] \in CuratorRecord
  BY <1>1, ElementOfSeq
<1>5. Len(records[c]) \in {0, 1, 2}
  BY <1>1, <1>2, Lengths
<1>6. \A i \in 1 .. Len(records[c]) :
          records[c][i].activation \in Int /\ records[c][i].revocation \in Int
  BY <1>4, RecordHeights
<1> QED BY <1>1, <1>2, <1>3, <1>4, <1>5, <1>6

(* by_id answers with one of the curator's records.                        *)
LEMMA LatestIsRecord ==
    ASSUME TypeOK, NEW c \in Curators, records[c] # << >>
    PROVE  /\ Latest(c) \in RecordsOf(c)
           /\ Latest(c) \in CuratorRecord
<1> DEFINE n == Len(records[c])
           Highest(i) == \A j \in DOMAIN records[c] :
                             records[c][j].activation <= records[c][i].activation
           First(i) == Highest(i) /\ \A j \in 1 .. i - 1 : ~Highest(j)
<1>1. n \in {1, 2} /\ DOMAIN records[c] = 1 .. n
  BY CuratorRecords
<1>2. \A i \in 1 .. n :
          records[c][i] \in CuratorRecord /\ records[c][i].activation \in Int
  BY CuratorRecords
<1>3. \E i \in DOMAIN records[c] : First(i)
  <2>1. CASE n = 1
    <3>1. First(1)
      BY <1>1, <1>2, <2>1
    <3> QED BY <1>1, <2>1, <3>1
  <2>2. CASE n = 2
    <3>1. CASE records[c][2].activation <= records[c][1].activation
      <4>1. First(1)
        BY <1>1, <1>2, <2>2, <3>1
      <4> QED BY <1>1, <2>2, <4>1
    <3>2. CASE records[c][1].activation < records[c][2].activation
      <4>1. Highest(2)
        BY <1>1, <1>2, <2>2, <3>2
      <4>2. ~Highest(1)
        BY <1>1, <1>2, <2>2, <3>2
      <4>3. First(2)
        BY <4>1, <4>2
      <4> QED BY <1>1, <2>2, <4>3
    <3> QED BY <1>1, <1>2, <2>2, <3>1, <3>2
  <2> QED BY <1>1, <2>1, <2>2
<1>4. Latest(c) = records[c][CHOOSE i \in DOMAIN records[c] : First(i)]
  BY DEF Latest
<1>5. \E i \in DOMAIN records[c] : Latest(c) = records[c][i]
  <2> HIDE DEF First
  <2> QED BY <1>3, <1>4
<1> QED BY <1>1, <1>2, <1>5 DEF RecordsOf

(* What a step that replaces the records of one curator has to show.       *)
LEMMA ReplaceRecords ==
    ASSUME Inv, NEW c \in Curators, NEW new \in Seq(CuratorRecord),
           Len(new) \in {1, 2},
           records' = [records EXCEPT ![c] = new],
           \A i \in 1 .. Len(new), d \in Curators \ {c} : ~KeyUsedBy(d, new[i].key),
           Len(new) = 1 => new[1].activation <= new[1].revocation,
           Len(new) = 2 => new[1].revocation = new[2].activation,
           height' = height, governed' \in BOOLEAN
    PROVE  Inv'
<1> USE DEF Inv
<1>1. /\ records \in [Curators -> Seq(CuratorRecord)]
      /\ records'[c] = new
      /\ \A d \in Curators \ {c} : records'[d] = records[d]
  BY DEF TypeOK
<1>2. TypeOK'
  <2>1. records' \in [Curators -> Seq(CuratorRecord)]
    BY <1>1
  <2>2. \A d \in Curators : Len(records'[d]) <= 2
    <3>1. Len(new) <= 2
      BY Lengths
    <3> QED BY <1>1, <3>1 DEF TypeOK
  <2> QED BY <2>1, <2>2 DEF TypeOK
<1>3. KeyHasOneCurator'
  <2> SUFFICES ASSUME NEW d \in Curators, NEW e \in Curators, NEW key \in Keys,
                      KeyUsedBy(d, key)', KeyUsedBy(e, key)', d # e
               PROVE  FALSE
    BY DEF KeyHasOneCurator
  <2>1. \A f \in Curators \ {c} : KeyUsedBy(f, key)' => KeyUsedBy(f, key)
    BY <1>1 DEF KeyUsedBy, RecordsOf
  <2>2. KeyUsedBy(c, key)' => \A f \in Curators \ {c} : ~KeyUsedBy(f, key)
    <3> SUFFICES ASSUME KeyUsedBy(c, key)'
                 PROVE  \A f \in Curators \ {c} : ~KeyUsedBy(f, key)
      OBVIOUS
    <3>1. PICK i \in 1 .. Len(new) : new[i].key = key
      BY <1>1 DEF KeyUsedBy, RecordsOf
    <3> QED BY <3>1
  <2>3. CASE d = c \/ e = c
    BY <2>1, <2>2, <2>3
  <2>4. CASE d # c /\ e # c
    BY <2>1, <2>4 DEF KeyHasOneCurator
  <2> QED BY <2>3, <2>4
<1>4. HeightsMeet'
  <2> SUFFICES ASSUME NEW d \in Curators
               PROVE  /\ Len(records'[d]) = 1 =>
                           records'[d][1].activation <= records'[d][1].revocation
                      /\ Len(records'[d]) = 2 =>
                           records'[d][1].revocation = records'[d][2].activation
    BY DEF HeightsMeet
  <2>1. CASE d = c
    BY <1>1, <2>1
  <2>2. CASE d # c
    BY <1>1, <2>2 DEF HeightsMeet
  <2> QED BY <2>1, <2>2
<1> QED BY <1>2, <1>3, <1>4

LEMMA InitInv == Init => Inv
<1> SUFFICES ASSUME Init PROVE Inv
  OBVIOUS
<1>1. TypeOK
  <2>1. << >> \in Seq(CuratorRecord) /\ Len(<< >>) = 0
    BY EmptySeq
  <2> QED BY <2>1, RegistryAssumption DEF Init, TypeOK
<1>2. KeyHasOneCurator
  BY DEF Init, KeyHasOneCurator, KeyUsedBy, RecordsOf
<1>3. HeightsMeet
  <2>1. \A c \in Curators : Len(records[c]) = 0
    BY EmptySeq DEF Init
  <2>2. \A c \in Curators : Len(records[c]) # 1 /\ Len(records[c]) # 2
    <3> SUFFICES ASSUME NEW c \in Curators
                 PROVE  Len(records[c]) # 1 /\ Len(records[c]) # 2
      OBVIOUS
    <3>1. Len(records[c]) = 0
      BY <2>1
    <3> QED BY <3>1
  <2> QED BY <2>2 DEF HeightsMeet
<1> QED BY <1>1, <1>2, <1>3 DEF Inv

LEMMA NextInv == Inv /\ [Next]_vars => Inv'
<1> SUFFICES ASSUME Inv, [Next]_vars PROVE Inv'
  OBVIOUS
<1>0. TypeOK /\ KeyHasOneCurator /\ HeightsMeet /\ governed \in BOOLEAN
  BY DEF Inv, TypeOK
<1>1. ASSUME NEW c \in Curators, NEW key \in Keys, NEW h \in Future,
             Register(c, key, h)
      PROVE  Inv'
  <2> DEFINE new == <<Fresh(key, h, None)>>
  <2>1. /\ Fresh(key, h, None) \in CuratorRecord
        /\ Fresh(key, h, None).key = key
        /\ Fresh(key, h, None).activation < Fresh(key, h, None).revocation
    BY <1>0, FreshRecord, Heights
  <2>2. new \in Seq(CuratorRecord) /\ Len(new) = 1 /\ Len(new) \in {1, 2} /\ new[1] = Fresh(key, h, None)
    BY <2>1
  <2>3. \A i \in 1 .. Len(new), d \in Curators \ {c} : ~KeyUsedBy(d, new[i].key)
    BY <1>1, <2>1, <2>2 DEF Register, Registrable, Registered
  <2>4. new[1].activation <= new[1].revocation
    BY <2>1, <2>2, RecordHeights
  <2>5. /\ records' = [records EXCEPT ![c] = new]
        /\ height' = height
        /\ governed' \in BOOLEAN
    BY <1>0, <1>1 DEF Register, Registrable, Registered
  <2> HIDE DEF new
  <2>6. /\ Len(new) = 1 => new[1].activation <= new[1].revocation
        /\ Len(new) = 2 => new[1].revocation = new[2].activation
    BY <2>2, <2>4
  <2> QED BY <2>2, <2>3, <2>5, <2>6, ReplaceRecords
<1>2. ASSUME NEW c \in Curators, NEW key \in Keys, NEW h \in Future,
             Rotate(c, key, h)
      PROVE  Inv'
  <2> DEFINE old == Latest(c)
             retired == [old EXCEPT !.revocation = h]
             added == Fresh(key, h, old.key)
             new == <<retired, added>>
  <2>1. old \in CuratorRecord /\ old \in RecordsOf(c)
    BY <1>0, <1>2, LatestIsRecord DEF Rotate, Rotatable, Rotated
  <2>2. /\ retired \in CuratorRecord
        /\ retired.key = old.key
        /\ retired.revocation = h
    BY <1>0, <2>1, RevokedRecord, Heights
  <2>3. added \in CuratorRecord /\ added.key = key /\ added.activation = h
    <3>1. old.key \in Keys \cup {None}
      BY <2>1 DEF CuratorRecord
    <3> QED BY <1>0, <3>1, FreshRecord, Heights
  <2>4. new \in Seq(CuratorRecord) /\ Len(new) = 2 /\ Len(new) \in {1, 2}
        /\ new[1] = retired /\ new[2] = added
    BY <2>2, <2>3
  <2>5. \A d \in Curators \ {c} : ~KeyUsedBy(d, old.key)
    <3>1. KeyUsedBy(c, old.key) /\ old.key \in Keys
      BY <2>1 DEF KeyUsedBy, CuratorRecord
    <3> QED BY <1>0, <3>1 DEF KeyHasOneCurator
  <2>6. \A d \in Curators \ {c} : ~KeyUsedBy(d, key)
    BY <1>2 DEF Rotate, Rotatable, Rotated
  <2>7. /\ records' = [records EXCEPT ![c] = new]
        /\ height' = height
        /\ governed' \in BOOLEAN
    BY <1>0, <1>2 DEF Rotate, Rotatable, Rotated
  <2> HIDE DEF old, retired, added, new
  <2>8. \A i \in 1 .. Len(new), d \in Curators \ {c} : ~KeyUsedBy(d, new[i].key)
    BY <2>2, <2>3, <2>4, <2>5, <2>6
  <2>9. /\ Len(new) = 1 => new[1].activation <= new[1].revocation
        /\ Len(new) = 2 => new[1].revocation = new[2].activation
    BY <2>2, <2>3, <2>4
  <2> QED BY <2>4, <2>7, <2>8, <2>9, ReplaceRecords
<1>3. ASSUME NEW c \in Curators, NEW h \in Future, Revoke(c, h)
      PROVE  Inv'
  <2> DEFINE old == Latest(c)
             retired == [old EXCEPT !.revocation = h]
             new == <<retired>>
  <2>1. old \in CuratorRecord /\ old \in RecordsOf(c)
    BY <1>0, <1>3, LatestIsRecord DEF Revoke, Revocable, AfterRevocation
  <2>2. /\ retired \in CuratorRecord
        /\ retired.key = old.key
        /\ retired.revocation = h
        /\ retired.activation = old.activation
    BY <1>0, <2>1, RevokedRecord, Heights
  <2>3. new \in Seq(CuratorRecord) /\ Len(new) = 1 /\ Len(new) \in {1, 2} /\ new[1] = retired
    BY <2>2
  <2>4. \A d \in Curators \ {c} : ~KeyUsedBy(d, old.key)
    <3>1. KeyUsedBy(c, old.key) /\ old.key \in Keys
      BY <2>1 DEF KeyUsedBy, CuratorRecord
    <3> QED BY <1>0, <3>1 DEF KeyHasOneCurator
  <2>5. old.activation <= h
    BY <1>3 DEF Revoke, Revocable, AfterRevocation
  <2>6. /\ records' = [records EXCEPT ![c] = new]
        /\ height' = height
        /\ governed' \in BOOLEAN
    BY <1>3 DEF Revoke, Revocable, AfterRevocation
  <2> HIDE DEF old, retired, new
  <2>7. \A i \in 1 .. Len(new), d \in Curators \ {c} : ~KeyUsedBy(d, new[i].key)
    BY <2>2, <2>3, <2>4
  <2>8. /\ Len(new) = 1 => new[1].activation <= new[1].revocation
        /\ Len(new) = 2 => new[1].revocation = new[2].activation
    BY <2>2, <2>3, <2>5
  <2> QED BY <2>3, <2>6, <2>7, <2>8, ReplaceRecords
<1>4. ASSUME CompleteBlock PROVE Inv'
  BY <1>4, RegistryAssumption DEF CompleteBlock, Inv, TypeOK, KeyHasOneCurator, KeyUsedBy, RecordsOf, HeightsMeet
<1>5. ASSUME UNCHANGED vars PROVE Inv'
  BY <1>5 DEF vars, Inv, TypeOK, KeyHasOneCurator, KeyUsedBy, RecordsOf, HeightsMeet
<1> QED BY <1>1, <1>2, <1>3, <1>4, <1>5 DEF Next

(* Every reachable state satisfies the inductive invariant.                *)
LEMMA AlwaysInv == Spec => []Inv
BY InitInv, NextInv, PTL DEF Spec

(* The registry state is well formed, and no rotation leaves a curator     *)
(* with more than two records.                                             *)
THEOREM RegistryTypeCorrect == Spec => []TypeOK
<1>1. Inv => TypeOK
  BY DEF Inv
<1> QED BY AlwaysInv, <1>1, PTL

(* A public key is never on record for two curators.                       *)
THEOREM KeysStayApart == Spec => []KeyHasOneCurator
<1>1. Inv => KeyHasOneCurator
  BY DEF Inv
<1> QED BY AlwaysInv, <1>1, PTL

(* With at most two records that meet at one height, the records active    *)
(* after both activations are one.                                         *)
THEOREM RotationSettles == Spec => []SettledKey
<1>1. Inv => SettledKey
  <2> SUFFICES ASSUME Inv, NEW c \in Curators, NEW h \in Future,
                      \A r \in RecordsOf(c) : r.activation <= h,
                      NEW k \in ValidKeys(c, h), NEW l \in ValidKeys(c, h)
               PROVE  k = l
    BY DEF SettledKey
  <2>1. /\ Len(records[c]) \in {0, 1, 2}
        /\ DOMAIN records[c] = 1 .. Len(records[c])
        /\ \A i \in 1 .. Len(records[c]) :
               /\ records[c][i] \in CuratorRecord
               /\ records[c][i].activation \in Int
               /\ records[c][i].revocation \in Int
        /\ h \in Int
    BY CuratorRecords, Heights DEF Inv
  <2>2. \A key \in ValidKeys(c, h) :
            \E i \in 1 .. Len(records[c]) :
                records[c][i].key = key /\ h < records[c][i].revocation
    <3> SUFFICES ASSUME NEW key \in ValidKeys(c, h)
                 PROVE  \E i \in 1 .. Len(records[c]) :
                            records[c][i].key = key /\ h < records[c][i].revocation
      OBVIOUS
    <3>1. PICK i \in DOMAIN records[c] :
              \/ records[c][i].key = key /\ IsActiveAt(records[c][i], h)
              \/ records[c][i].previous = key /\ h < records[c][i].activation
      BY DEF ValidKeys, KeyWasValidAt, RecordsOf
    <3>2. records[c][i].activation <= h /\ records[c][i].activation \in Int
      BY <2>1, <3>1 DEF RecordsOf
    <3> QED BY <2>1, <3>1, <3>2 DEF IsActiveAt
  <2>3. Len(records[c]) = 2 => ~(h < records[c][1].revocation)
    <3> SUFFICES ASSUME Len(records[c]) = 2
                 PROVE  ~(h < records[c][1].revocation)
      OBVIOUS
    <3>1. records[c][2].activation <= h /\ records[c][2].activation \in Int
      BY <2>1 DEF RecordsOf
    <3>2. records[c][1].revocation = records[c][2].activation
      BY DEF Inv, HeightsMeet
    <3> QED BY <2>1, <3>1, <3>2
  <2> QED BY <2>1, <2>2, <2>3
<1> QED BY AlwaysInv, <1>1, PTL

(* The one record _apply_revoke leaves is revoked no earlier than it is    *)
(* activated, so neither its key nor its previous key is valid afterwards. *)
THEOREM RevocationHolds == Spec => []RevokedKeyInvalid
<1>1. Inv => RevokedKeyInvalid
  <2> SUFFICES ASSUME Inv, NEW c \in Curators, NEW h \in Future, Revoked(c),
                      h >= records[c][1].revocation,
                      NEW key \in Keys, KeyWasValidAt(c, key, h)
               PROVE  FALSE
    BY DEF RevokedKeyInvalid, ValidKeys
  <2>1. /\ Len(records[c]) = 1
        /\ DOMAIN records[c] = 1 .. 1
        /\ h \in Int
        /\ records[c][1].activation <= records[c][1].revocation
    BY CuratorRecords, Heights DEF Inv, HeightsMeet, Revoked
  <2>2. \/ IsActiveAt(records[c][1], h)
        \/ h < records[c][1].activation
    BY <2>1 DEF KeyWasValidAt, RecordsOf
  <2>3. /\ records[c][1].activation \in Int
        /\ records[c][1].revocation \in Int
    BY <2>1, CuratorRecords DEF Inv
  <2> QED BY <2>1, <2>2, <2>3 DEF IsActiveAt
<1> QED BY AlwaysInv, <1>1, PTL
=============================================================================

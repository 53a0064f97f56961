------------------------------ MODULE MCStorage ------------------------------
(* Small instances of Storage.  The short tree a1-a2 with the sibling b2 of *)
(* a2 lets an abandoned append be retried with another block and a tip      *)
(* switch change branch; the long tree adds a third height; the pair is for *)
(* the instance whose callers append any block at any height.               *)
EXTENDS StorageRefinement, TLC

CONSTANTS G, a1, a2, a3, b2

ShortBlocks == {a1, a2, b2}
ShortParent == a1 :> G @@ a2 :> a1 @@ b2 :> a1

PairBlocks == {a1, a2}
PairParent == a1 :> G @@ a2 :> a1

LongBlocks == {a1, a2, a3, b2}
LongParent == a1 :> G @@ a2 :> a1 @@ a3 :> a2 @@ b2 :> a1
=============================================================================

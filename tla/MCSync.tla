------------------------------- MODULE MCSync -------------------------------
(* An instance of Sync with two peers: one with a long chain, one with a    *)
(* short fork of it, whose blocks may come too fast.                        *)
EXTENDS Sync

CONSTANTS p, q

LongAndFork == [peer \in {p, q} |-> IF peer = p THEN 10 ELSE 2]
RegularAndHasty == [peer \in {p, q} |-> IF peer = p THEN {1} ELSE {0, 1}]
=============================================================================

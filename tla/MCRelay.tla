------------------------------- MODULE MCRelay -------------------------------
(* An instance of Relay: three nodes, each announcing to the next one; one  *)
(* mines a block, another the block on top of it.                           *)
EXTENDS Relay, TLC

CONSTANTS left, middle, right, b1, b2

Ring == left :> {middle} @@ middle :> {right} @@ right :> {left}
Tree == b1 :> Genesis @@ b2 :> b1
Mining == left :> {b2} @@ middle :> {} @@ right :> {b1}
=============================================================================

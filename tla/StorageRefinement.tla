-------------------------- MODULE StorageRefinement --------------------------
(* The block store implements DurableChain: the promised chain is what the   *)
(* block files hold up to HEAD.                                              *)
EXTENDS Storage

ChainUpTo(h) == [i \in 1 .. h |-> block[i]]

durableChain == ChainUpTo(head.height)

switchRequest ==
    IF pc \in {"switchCommit", "switchHead"} THEN {ChainUpTo(op.height)} ELSE {}

Durable == INSTANCE DurableChain WITH
    chain <- durableChain, request <- switchRequest

(* Seen from HEAD, appends, failed appends, tip switches, crashes and        *)
(* recoveries are the steps of a chain that only returned appends and        *)
(* requested switches change.                                                *)
ImplementsDurableChain == Durable!Spec
=============================================================================

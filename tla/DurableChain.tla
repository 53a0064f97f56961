---------------------------- MODULE DurableChain ----------------------------
(* What the block store promises its callers, with no files, journal,       *)
(* crashes or recovery in it: a chain of blocks linked to genesis.  It grows *)
(* by one block when an append returns, it becomes another chain only when   *)
(* the caller asked for that one, and it never changes otherwise.            *)
EXTENDS Integers, Sequences

CONSTANTS Blocks, Genesis, Parent

VARIABLES
    chain,   \* the blocks at heights 1, 2, ...
    request  \* {c} while a switch to chain c is asked for, else {}

IsChain(c) ==
    /\ c \in Seq(Blocks)
    /\ \A i \in 1 .. Len(c) :
          Parent[c[i]] = IF i = 1 THEN Genesis ELSE c[i - 1]

Init ==
    /\ chain = <<>>
    /\ request = {}

(* append_block returned. *)
Extend(b) ==
    /\ request = {}
    /\ chain' = Append(chain, b)
    /\ IsChain(chain')
    /\ UNCHANGED request

(* atomic_tip_switch was called, replaced HEAD, or gave up. *)
Ask ==
    /\ request = {}
    /\ \E c \in request' : IsChain(c) /\ request' = {c}
    /\ UNCHANGED chain

Switch ==
    /\ request = {chain'}
    /\ request' = {}

Withdraw ==
    /\ request' = {}
    /\ UNCHANGED chain

Next == (\E b \in Blocks : Extend(b)) \/ Ask \/ Switch \/ Withdraw

Spec == Init /\ [][Next]_<<chain, request>>
=============================================================================

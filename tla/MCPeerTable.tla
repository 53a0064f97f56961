----------------------------- MODULE MCPeerTable -----------------------------
(* Three addresses, two of them in one network; one bootstrap source with two *)
(* records.                                                                   *)
EXTENDS PeerTable, TLC

CONSTANTS p1, p2, p3, a1, a2, a3, net, BOOTSTRAP

MCPrefix == (a1 :> net) @@ (a2 :> net) @@ (a3 :> None)

MCBootstrap ==
    <<<<[id |-> p1, address |-> a1, source |-> BOOTSTRAP, score |-> 1],
        [id |-> p2, address |-> a2, source |-> BOOTSTRAP, score |-> 2]>>>>
=============================================================================

-------------------------- MODULE ForkChoiceProofs --------------------------
(***************************************************************************)
(* What TLAPS proves of ForkChoice for every retargeting rule and clock,   *)
(* any number of nodes, and whatever branches peers offer.                 *)
(***************************************************************************)
EXTENDS ForkChoice, LedgerProofs

(* A branch of a peer: a chain with any links and targets.                 *)
Timed(c) == Blockchain(c) /\ \A i \in 1 .. Len(c) : c[i].time \in Int

Inv ==
    /\ chain = [m \in Nodes \cup Peers |-> chain[m]]
    /\ \A n \in Nodes : WellFormed(chain[n])
    /\ \A p \in Peers : Timed(chain[p])

LEMMA EveryChainTimed ==
    ASSUME Inv, NEW m \in Nodes \cup Peers
    PROVE  Timed(chain[m])
BY DEF Inv, Timed, WellFormed

-----------------------------------------------------------------------------
(* The common ancestor is a height at which both chains have the block.    *)
LEMMA CommonAncestorHighest ==
    ASSUME NEW c, NEW d, Blockchain(c), Blockchain(d), At(d, 0) = At(c, 0)
    PROVE  /\ CommonAncestor(c, d) \in Nat
           /\ CommonAncestor(c, d) <= Height(c) /\ CommonAncestor(c, d) <= Height(d)
<1> DEFINE top == AtMost(Height(c), Height(d))
           shared == {h \in 0 .. top : At(c, h) = At(d, h)}
           Below == {i \in Nat : top - i \in shared}
<1>1. /\ Height(c) \in Int /\ Height(d) \in Int /\ top \in Nat
      /\ top <= Height(c) /\ top <= Height(d)
  BY Length DEF Height, AtMost
<1>2. 0 \in shared
  BY <1>1
<1>3. \E h \in shared : \A g \in shared : g <= h
  <2>1. shared \subseteq 0 .. top
    OBVIOUS
  <2> HIDE DEF shared, top
  <2>2. top - 0 \in Nat /\ top - (top - 0) = 0
    BY <1>1
  <2>3. Below \subseteq Nat /\ Below # {}
    BY <1>1, <1>2, <2>2
  <2>4. PICK i \in Below : \A j \in Below : ~(<<j, i>> \in OpToRel(<, Nat))
    <3> HIDE DEF Below
    <3> QED BY <2>3, NatLessThanWellFounded, WFMin
  <2>5. ASSUME NEW g \in shared PROVE g <= top - i
    <3>1. g \in Int /\ g <= top /\ top - g \in Nat /\ top - (top - g) = g
      BY <1>1, <2>1
    <3>2. top - g \in Below
      BY <3>1
    <3>3. ~(top - g < i)
      <4>1. i \in Nat
        OBVIOUS
      <4> HIDE DEF Below
      <4> QED BY <2>4, <3>1, <3>2, <4>1 DEF OpToRel
    <3> QED BY <1>1, <3>1, <3>3
  <2>6. top - i \in shared
    OBVIOUS
  <2> HIDE DEF Below
  <2> QED BY <2>5, <2>6
<1> HIDE DEF Below
<1>4. CommonAncestor(c, d) \in shared
  <2>1. CommonAncestor(c, d) = CHOOSE h \in shared : \A g \in shared : g <= h
    BY DEF CommonAncestor
  <2> HIDE DEF shared
  <2> QED BY <1>3, <2>1
<1>5. CommonAncestor(c, d) \in 0 .. top
  <2> HIDE DEF top
  <2> QED BY <1>4
<1> HIDE DEF top
<1> QED BY <1>1, <1>5

(* What a node that switches holds: its own blocks up to the common        *)
(* ancestor and the candidate's above it, whose targets are those the      *)
(* node's own chain asks for, hence within the bounds.                     *)
LEMMA SwitchedChain ==
    ASSUME NEW c, NEW d, WellFormed(c), Timed(d), Switches(c, d),
           NEW k, k = CommonAncestor(c, d), NEW e, e = Switched(c, d, k)
    PROVE  /\ WellFormed(e)
           /\ k \in Nat /\ k <= Height(c) /\ k <= Height(e) /\ Height(e) = Height(d)
           /\ \A h \in 0 .. k : At(e, h) = At(c, h)
           /\ \A h \in k + 1 .. Height(d) : At(e, h) = At(d, h)
<1>1. /\ Len(c) \in Nat /\ Len(c) >= 1 /\ Height(c) = Len(c) - 1
      /\ Len(d) \in Nat /\ Len(d) >= 1 /\ Height(d) = Len(d) - 1
  BY Length DEF WellFormed, Timed, Height
<1>2. k \in Nat /\ k <= Height(c) /\ k <= Height(d)
  BY CommonAncestorHighest DEF WellFormed, Timed, Switches
<1>3. e = [i \in 1 .. Len(d) |-> IF i <= k + 1 THEN c[i] ELSE d[i]]
  BY DEF Switched
<1>4. Len(e) = Len(d) /\ e \in Seq(Blocks(e))
  <2>1. e \in Seq({e[i] : i \in 1 .. Len(d)})
    <3>1. e = [i \in 1 .. Len(d) |-> e[i]]
      BY <1>3
    <3> QED BY <1>1, <3>1, IsASeq
  <2>2. Len(e) = Len(d)
    <3>1. DOMAIN e = 1 .. Len(d)
      BY <1>3
    <3>2. Len(e) \in Nat /\ DOMAIN e = 1 .. Len(e)
      BY <2>1, LenProperties
    <3> QED BY <1>1, <3>1, <3>2
  <2> QED BY <2>1, <2>2 DEF Blocks
<1>5. \A h \in 0 .. k : At(e, h) = At(c, h)
  BY <1>1, <1>2, <1>3 DEF At
<1>6. \A h \in k + 1 .. Height(d) : At(e, h) = At(d, h)
  BY <1>1, <1>2, <1>3 DEF At
<1>7. ASSUME NEW i \in 1 .. Len(e)
      PROVE  e[i].time \in Int /\ e[i].target \in MinTarget .. MaxTarget
  <2>1. CASE i <= k + 1
    <3>1. e[i] = c[i] /\ i \in 1 .. Len(c)
      BY <1>1, <1>2, <1>3, <1>4, <2>1
    <3> QED BY <3>1 DEF WellFormed
  <2>2. CASE ~(i <= k + 1)
    <3>1. /\ e[i] = d[i] /\ i \in 1 .. Len(d) /\ e[i] = At(e, i - 1)
          /\ i - 1 \in k + 1 .. Height(d) /\ At(e, i - 1) = At(d, i - 1)
      BY <1>1, <1>2, <1>3, <1>4, <1>6, <2>2 DEF At
    <3>2. e[i].target = ExpectedOfCandidate(c, i - 1)
      BY <3>1 DEF Switches, SuffixAccepted
    <3>3. CASE i - 1 <= Height(c)
      <4>1. i - 1 \in 1 .. Len(c)
        BY <1>1, <1>2, <2>2, <3>3
      <4> QED BY <3>1, <3>2, <3>3, <4>1, TargetsInBounds DEF ExpectedOfCandidate, Timed
    <3>4. CASE ~(i - 1 <= Height(c))
      <4>1. LastBlock(c).target \in MinTarget .. MaxTarget
        BY <1>1 DEF LastBlock, WellFormed
      <4> QED BY <3>1, <3>2, <3>4, <4>1 DEF ExpectedOfCandidate, Timed
    <3> QED BY <3>3, <3>4
  <2> QED BY <2>1, <2>2
<1>8. WellFormed(e)
  BY <1>1, <1>4, <1>7 DEF WellFormed, Blockchain
<1> QED BY <1>1, <1>2, <1>4, <1>5, <1>6, <1>8 DEF Height

(* What a peer offers: a chain cut off at a height, and a block on it.     *)
LEMMA ForkedChain ==
    ASSUME Inv, NEW p \in Peers, NEW m \in Nodes \cup Peers,
           NEW h \in 0 .. Height(chain[m]), Fork(p, m, h)
    PROVE  Timed(chain'[p])
<1> DEFINE c == chain[m]
           s == SubSeq(c, 1, h + 1)
<1>1. Timed(c)
  BY EveryChainTimed
<1>2. Len(c) \in Nat /\ Len(c) >= 1 /\ Height(c) = Len(c) - 1
  BY <1>1, Length DEF Timed, Height
<1>3. PICK block \in PeerBlocks(p, At(c, h)) : chain' = [chain EXCEPT ![p] = Append(s, block)]
  BY DEF Fork
<1>4. chain'[p] = Append(s, block)
  BY <1>3 DEF Inv
<1>5. block.time \in Int
  <2>1. CASE block \in [prev : {At(c, h), NoBlock}, time : PeerTimes,
                        target : PeerTargets, miner : {p}]
    BY <2>1, ForkChoiceAssumption
  <2>2. ASSUME NEW n \in Nodes, NEW g \in 1 .. Height(chain[n]), block = At(chain[n], g)
        PROVE  block.time \in Int
    <3>1. WellFormed(chain[n])
      BY DEF Inv
    <3>2. g \in 0 .. Len(chain[n]) - 1
      BY <3>1, Length DEF WellFormed, Height
    <3> QED BY <2>2, <3>1, <3>2, Heights
  <2> QED BY <2>1, <2>2 DEF PeerBlocks
<1> HIDE DEF c
<1>6. /\ s = [i \in 1 .. h + 1 |-> c[i]]
      /\ \A i \in 1 .. h + 1 : i \in 1 .. Len(c) /\ c[i].time \in Int
  <2>1. \A i \in 1 .. h + 1 : i \in 1 .. Len(c)
    BY <1>2 DEF c
  <2>2. c \in Seq(Blocks(c))
    BY <1>1 DEF Timed, Blockchain
  <2>3. h + 1 \in 1 .. Len(c)
    BY <1>2 DEF c
  <2>4. s = [i \in 1 .. h + 1 |-> c[i]]
    BY <1>2, <2>2, <2>3, SubSeqProperties
  <2> QED BY <1>1, <2>1, <2>4 DEF Timed
<1>7. h + 1 \in Nat /\ h + 1 >= 1
  BY <1>2 DEF c
<1> HIDE DEF s
<1>8. Len(s) = h + 1 /\ Blockchain(s)
  <2>1. s \in Seq({s[i] : i \in 1 .. h + 1})
    <3>1. s = [i \in 1 .. h + 1 |-> s[i]]
      BY <1>6
    <3> QED BY <1>7, <3>1, IsASeq
  <2>2. Len(s) = h + 1
    <3>1. DOMAIN s = 1 .. h + 1
      BY <1>6
    <3>2. Len(s) \in Nat /\ DOMAIN s = 1 .. Len(s)
      BY <2>1, LenProperties
    <3> QED BY <1>7, <3>1, <3>2
  <2> QED BY <1>7, <2>1, <2>2 DEF Blockchain, Blocks
<1>9. Extends(Append(s, block), s, block) /\ Blockchain(Append(s, block))
  BY <1>8, Appended, AppendKeepsBlockchain
<1>10. ASSUME NEW i \in 1 .. Len(Append(s, block)) PROVE Append(s, block)[i].time \in Int
  <2>1. Len(Append(s, block)) = h + 2 /\ i \in 1 .. h + 2
    BY <1>7, <1>8, <1>9 DEF Extends
  <2>2. Append(s, block)[i] = At(Append(s, block), i - 1)
    BY <2>1 DEF At
  <2>3. CASE i = h + 2
    BY <1>5, <1>7, <1>8, <1>9, <2>2, <2>3 DEF Extends
  <2>4. CASE i # h + 2
    <3>1. i - 1 \in 0 .. h /\ i \in 1 .. h + 1 /\ At(s, i - 1) = s[i]
      BY <1>7, <2>1, <2>4 DEF At
    <3>2. Append(s, block)[i] = s[i]
      BY <1>7, <1>8, <1>9, <2>2, <3>1 DEF Extends
    <3> QED BY <1>6, <3>1, <3>2
  <2> QED BY <2>3, <2>4
<1> QED BY <1>4, <1>9, <1>10 DEF Timed

-----------------------------------------------------------------------------
(* The two ways in which a node's chain changes.                           *)
LEMMA ChainChanges ==
    ASSUME Inv, [Next]_vars, NEW k \in Nodes, chain'[k] # chain[k]
    PROVE  \/ \E block : /\ block.time \in Int
                         /\ Acceptable(chain[k], block, now)
                         /\ chain'[k] = Append(chain[k], block)
           \/ \E m \in Nodes \cup Peers :
                  /\ Switches(chain[k], chain[m])
                  /\ chain'[k] = Switched(chain[k], chain[m],
                                          CommonAncestor(chain[k], chain[m]))
<1>1. CASE Tick
  BY <1>1 DEF Tick
<1>2. ASSUME NEW n \in Nodes, NEW block \in Offered(n), AddBlock(n, block)
      PROVE  \E b : /\ b.time \in Int
                    /\ Acceptable(chain[k], b, now)
                    /\ chain'[k] = Append(chain[k], b)
  <2>1. block.time \in Int
    BY Bounds, ForkChoiceAssumption DEF Offered, Times
  <2>2. n = k /\ chain'[k] = Append(chain[k], block)
    BY <1>2 DEF AddBlock, Inv
  <2> QED BY <1>2, <2>1, <2>2 DEF AddBlock
<1>3. ASSUME NEW p \in Peers, NEW m \in Nodes \cup Peers,
             NEW h \in 0 .. Height(chain[m]), Fork(p, m, h)
      PROVE  FALSE
  <2>1. p # k
    BY ForkChoiceAssumption
  <2> QED BY <1>3, <2>1 DEF Fork, Inv
<1>4. ASSUME NEW n \in Nodes, NEW m \in Nodes \cup Peers, Reorganise(n, m)
      PROVE  /\ Switches(chain[k], chain[m])
             /\ chain'[k] = Switched(chain[k], chain[m],
                                     CommonAncestor(chain[k], chain[m]))
  <2>1. n = k
    BY <1>4 DEF Reorganise, Inv
  <2> QED BY <1>4, <2>1 DEF Reorganise, Inv
<1>5. CASE UNCHANGED vars
  BY <1>5 DEF vars
<1> QED BY <1>1, <1>2, <1>3, <1>4, <1>5 DEF Next

LEMMA InvInit == Init => Inv
<1> SUFFICES ASSUME Init PROVE Inv
  OBVIOUS
<1>1. chain = [m \in Nodes \cup Peers |-> <<Genesis>>]
  BY DEF Init
<1>2. WellFormed(<<Genesis>>) /\ Timed(<<Genesis>>)
  BY GenesisChain DEF WellFormed, Timed
<1> HIDE DEF Init
<1> QED BY <1>1, <1>2 DEF Inv

LEMMA InvNext == Inv /\ [Next]_vars => Inv'
<1> SUFFICES ASSUME Inv, [Next]_vars PROVE Inv'
  OBVIOUS
<1>1. (chain = [m \in Nodes \cup Peers |-> chain[m]])'
  <2>1. CASE Tick
    BY <2>1 DEF Tick, Inv
  <2>2. ASSUME NEW n \in Nodes, NEW block \in Offered(n), AddBlock(n, block)
        PROVE  (chain = [m \in Nodes \cup Peers |-> chain[m]])'
    BY <2>2 DEF AddBlock, Inv
  <2>3. ASSUME NEW p \in Peers, NEW m \in Nodes \cup Peers,
               NEW h \in 0 .. Height(chain[m]), Fork(p, m, h)
        PROVE  (chain = [k \in Nodes \cup Peers |-> chain[k]])'
    BY <2>3 DEF Fork, Inv
  <2>4. ASSUME NEW n \in Nodes, NEW m \in Nodes \cup Peers, Reorganise(n, m)
        PROVE  (chain = [k \in Nodes \cup Peers |-> chain[k]])'
    BY <2>4 DEF Reorganise, Inv
  <2>5. CASE UNCHANGED vars
    BY <2>5 DEF vars, Inv
  <2> QED BY <2>1, <2>2, <2>3, <2>4, <2>5 DEF Next
<1>2. ASSUME NEW k \in Nodes PROVE WellFormed(chain'[k])
  <2>1. WellFormed(chain[k])
    BY DEF Inv
  <2>2. ASSUME NEW block, block.time \in Int, Acceptable(chain[k], block, now),
               chain'[k] = Append(chain[k], block)
        PROVE  WellFormed(chain'[k])
    BY <2>1, <2>2, AcceptedKeepsWellFormed
  <2>3. ASSUME NEW m \in Nodes \cup Peers, Switches(chain[k], chain[m]),
               chain'[k] = Switched(chain[k], chain[m], CommonAncestor(chain[k], chain[m]))
        PROVE  WellFormed(chain'[k])
    BY <2>1, <2>3, EveryChainTimed, SwitchedChain
  <2> QED BY <2>1, <2>2, <2>3, ChainChanges
<1>3. ASSUME NEW q \in Peers PROVE Timed(chain'[q])
  <2>1. Timed(chain[q]) /\ q \notin Nodes
    BY ForkChoiceAssumption DEF Inv
  <2>2. CASE Tick
    BY <2>1, <2>2 DEF Tick
  <2>3. ASSUME NEW n \in Nodes, NEW block \in Offered(n), AddBlock(n, block)
        PROVE  Timed(chain'[q])
    <3>1. chain'[q] = chain[q]
      BY <2>1, <2>3 DEF AddBlock, Inv
    <3> QED BY <2>1, <3>1
  <2>4. ASSUME NEW p \in Peers, NEW m \in Nodes \cup Peers,
               NEW h \in 0 .. Height(chain[m]), Fork(p, m, h)
        PROVE  Timed(chain'[q])
    <3>1. q # p => chain'[q] = chain[q]
      BY <2>4 DEF Fork, Inv
    <3> QED BY <2>1, <2>4, <3>1, ForkedChain
  <2>5. ASSUME NEW n \in Nodes, NEW m \in Nodes \cup Peers, Reorganise(n, m)
        PROVE  Timed(chain'[q])
    <3>1. chain'[q] = chain[q]
      BY <2>1, <2>5 DEF Reorganise, Inv
    <3> QED BY <2>1, <3>1
  <2>6. CASE UNCHANGED vars
    BY <2>1, <2>6 DEF vars
  <2> QED BY <2>2, <2>3, <2>4, <2>5, <2>6 DEF Next
<1> QED BY <1>1, <1>2, <1>3 DEF Inv

-----------------------------------------------------------------------------
(* On any chain a node comes to, adopted branches included, add_block_v2   *)
(* takes exactly the blocks validate_chain accepts later.                  *)
THEOREM RulesAgree == Spec => []AcceptedAsValidated
<1>1. Inv => AcceptedAsValidated
  <2>1. ASSUME NEW n \in Nodes, Inv PROVE Blockchain(chain[n])
    BY <2>1 DEF Inv, WellFormed
  <2> QED BY <2>1, AcceptedExactly DEF AcceptedAsValidated
<1> QED BY <1>1, InvInit, InvNext, PTL DEF Spec

(* The target the next block must have is always one that verification     *)
(* lets through, whatever the timestamps in the retargeting window.        *)
THEOREM AlwaysMinable == Spec => []NextTargetPossible
<1>1. Inv => NextTargetPossible
  <2> SUFFICES ASSUME Inv, NEW n \in Nodes
               PROVE  ExpectedTargetAt(chain[n], Len(chain[n])) \in MinTarget .. MaxTarget
    BY DEF NextTargetPossible
  <2>1. WellFormed(chain[n])
    BY DEF Inv
  <2>2. Len(chain[n]) \in 1 .. Len(chain[n])
    BY <2>1, Length DEF WellFormed
  <2> QED BY <2>1, <2>2, TargetsInBounds
<1> QED BY <1>1, InvInit, InvNext, PTL DEF Spec

(* No step replaces a block max_reorg_depth or more below the tip: a       *)
(* reorganisation connects above the common ancestor only, which is not    *)
(* deeper than that, and add_block_v2 keeps every block.                   *)
THEOREM DeepBlocksStay == Spec => DeepBlocksKept
<1>1. ASSUME Inv, [Next]_vars, NEW n \in Nodes,
             NEW h \in 0 .. Height(chain[n]) - MaxReorgDepth
      PROVE  At(chain'[n], h) = At(chain[n], h)
  <2> SUFFICES ASSUME chain'[n] # chain[n] PROVE At(chain'[n], h) = At(chain[n], h)
    OBVIOUS
  <2>1. WellFormed(chain[n])
    BY <1>1 DEF Inv
  <2>2. /\ Height(chain[n]) \in Int /\ Len(chain[n]) = Height(chain[n]) + 1
        /\ MaxReorgDepth \in Nat
    BY <2>1, WorksNat, ForkChoiceAssumption
  <2>3. ASSUME NEW block, chain'[n] = Append(chain[n], block)
        PROVE  At(chain'[n], h) = At(chain[n], h)
    <3>1. Extends(chain'[n], chain[n], block)
      BY <2>1, <2>3, Appended DEF WellFormed
    <3>2. h \in 0 .. Len(chain[n]) - 1
      BY <2>2
    <3> QED BY <3>1, <3>2 DEF Extends
  <2>4. ASSUME NEW m \in Nodes \cup Peers, Switches(chain[n], chain[m]),
               chain'[n] = Switched(chain[n], chain[m], CommonAncestor(chain[n], chain[m]))
        PROVE  At(chain'[n], h) = At(chain[n], h)
    <3> DEFINE common == CommonAncestor(chain[n], chain[m])
    <3>1. common \in Nat /\ \A g \in 0 .. common : At(chain'[n], g) = At(chain[n], g)
      BY <1>1, <2>1, <2>4, EveryChainTimed, SwitchedChain
    <3>2. Height(chain[n]) - common <= MaxReorgDepth
      BY <2>4 DEF Switches, WithinDepth
    <3> HIDE DEF common
    <3>3. h \in 0 .. common
      BY <2>2, <3>1, <3>2
    <3> QED BY <3>1, <3>3
  <2> QED BY <1>1, <2>3, <2>4, ChainChanges
<1>2. Inv /\ [Next]_vars =>
          [\A n \in Nodes : \A h \in 0 .. Height(chain[n]) - MaxReorgDepth :
              At(chain'[n], h) = At(chain[n], h)]_vars
  BY <1>1
<1> QED BY <1>2, InvInit, InvNext, PTL DEF Spec, DeepBlocksKept

(* A switch gives more work: the blocks up to the common ancestor are the  *)
(* same before and after, so comparing the branches above it compares the  *)
(* chains.                                                                 *)
LEMMA SwitchedWork ==
    ASSUME NEW c, NEW d, WellFormed(c), Timed(d), Switches(c, d),
           NEW e, e = Switched(c, d, CommonAncestor(c, d))
    PROVE  BranchWork(e, -1) > BranchWork(c, -1)
<1> DEFINE k == CommonAncestor(c, d)
<1>1. /\ WellFormed(e)
      /\ k \in Nat /\ k <= Height(c) /\ k <= Height(e) /\ Height(e) = Height(d)
      /\ \A h \in 0 .. k : At(e, h) = At(c, h)
      /\ \A h \in k + 1 .. Height(d) : At(e, h) = At(d, h)
  BY SwitchedChain
<1>2. BranchWork(d, k) > BranchWork(c, k)
  BY DEF Switches, CandidateWins
<1> HIDE DEF k
<1>3. /\ Height(c) \in Int /\ Height(e) \in Int
      /\ k \in -1 .. Height(c) /\ k \in -1 .. Height(e)
  BY <1>1, WorksNat
<1>4. BranchWork(e, k) = BranchWork(d, k)
  <2> DEFINE above == k + 1 .. Height(e)
  <2>1. IsFiniteSet(above) /\ \A h \in above : Works(e)[h] = Works(d)[h]
    <3>1. IsFiniteSet(above)
      BY <1>1, <1>3, FS_Interval
    <3>2. \A h \in above : Works(e)[h] = Works(d)[h]
      BY <1>1, <1>3 DEF Works
    <3> QED BY <3>1, <3>2
  <2> HIDE DEF above
  <2>2. SumFunctionOnSet(Works(e), above) = SumFunctionOnSet(Works(d), above)
    BY <2>1, SumSame
  <2> QED BY <1>1, <2>2 DEF BranchWork, Works, above
<1>5. /\ BranchWork(c, -1) = SumFunctionOnSet(Works(c), 0 .. k) + BranchWork(c, k)
      /\ BranchWork(e, -1) = SumFunctionOnSet(Works(e), 0 .. k) + BranchWork(e, k)
  BY <1>1, <1>3, BranchWorkSplit
<1>6. /\ SumFunctionOnSet(Works(c), 0 .. k) = SumFunctionOnSet(Works(e), 0 .. k)
      /\ SumFunctionOnSet(Works(c), 0 .. k) \in Nat
  <2>1. IsFiniteSet(0 .. k)
    BY <1>1, FS_Interval
  <2>2. \A h \in 0 .. k : Works(c)[h] = Works(e)[h]
    BY <1>1, <1>3 DEF Works
  <2>3. \A h \in 0 .. k : Works(c)[h] \in Nat
    BY <1>1, <1>3, WorksNat
  <2> QED BY <2>1, <2>2, <2>3, SumSame, SumNat
<1>7. BranchWork(c, k) \in Nat /\ BranchWork(e, k) \in Nat
  BY <1>1, <1>3, BranchWorkNat
<1> QED BY <1>2, <1>4, <1>5, <1>6, <1>7

(* The work of a node's chain grows whenever the chain changes, whatever   *)
(* branches peers offer.                                                   *)
THEOREM WorkOnlyGrows == Spec => WorkGrows
<1>1. ASSUME Inv, Inv', [Next]_vars, NEW n \in Nodes, chain'[n] # chain[n]
      PROVE  BranchWork(chain'[n], -1) > BranchWork(chain[n], -1)
  <2>1. WellFormed(chain[n]) /\ WellFormed(chain'[n])
    BY <1>1 DEF Inv
  <2>2. ASSUME NEW block, chain'[n] = Append(chain[n], block)
        PROVE  BranchWork(chain'[n], -1) > BranchWork(chain[n], -1)
    BY <2>1, <2>2, WorkAppended
  <2>3. ASSUME NEW m \in Nodes \cup Peers, Switches(chain[n], chain[m]),
               chain'[n] = Switched(chain[n], chain[m], CommonAncestor(chain[n], chain[m]))
        PROVE  BranchWork(chain'[n], -1) > BranchWork(chain[n], -1)
    BY <1>1, <2>1, <2>3, EveryChainTimed, SwitchedWork
  <2> QED BY <1>1, <2>2, <2>3, ChainChanges
<1>2. Inv /\ Inv' /\ [Next]_vars =>
          [\A n \in Nodes :
              chain'[n] # chain[n] => BranchWork(chain'[n], -1) > BranchWork(chain[n], -1)]_vars
  BY <1>1
<1> QED BY <1>2, InvInit, InvNext, PTL DEF Spec, WorkGrows
=============================================================================

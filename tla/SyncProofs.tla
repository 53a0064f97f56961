----------------------------- MODULE SyncProofs -----------------------------
(***************************************************************************)
(* What TLAPS proves of Sync for any peers and chains: the ledger stays    *)
(* one validate_chain accepts whatever is answered; until an error or a    *)
(* reset drops blocks, ledger and store differ by the blocks waiting to be *)
(* committed only, and after one the store still holds blocks of the       *)
(* ledger in its order; blocks are asked for while there are headers to    *)
(* ask with, and stored with the last of them.                             *)
(***************************************************************************)
EXTENDS Sync, LedgerProofs

ValidInv == Blockchain(ledger) /\ ValidChain(ledger)

LEMMA ValidInvNext == ValidInv /\ [Next]_vars => ValidInv'
<1> SUFFICES ASSUME ValidInv, [Next]_vars
             PROVE  Blockchain(ledger') /\ ValidChain(ledger')
  BY DEF ValidInv
<1>1. CASE UNCHANGED ledger
  BY <1>1 DEF ValidInv
<1>2. ASSUME NEW block, TakeBlock(block)
      PROVE  Blockchain(ledger') /\ ValidChain(ledger')
  <2>1. ledger' = Append(ledger, block) /\ Acceptable(ledger, block, block.time)
    BY <1>2 DEF TakeBlock, BlockAccepted
  <2> QED BY <2>1, AcceptedKeepsValid DEF ValidInv
<1>3. \/ UNCHANGED ledger
      \/ \E block : TakeBlock(block)
  BY DEF Next, PeerMines, StartHeaderSync, HandleHeaders, HandleBlock, RefuseBlock, Reset, vars
<1> QED BY <1>1, <1>2, <1>3

(* Whatever peers answer, and in whatever order, the ledger holds a chain  *)
(* validate_chain accepts.                                                 *)
THEOREM LedgerAlwaysValid == Spec => []LedgerValid
<1>1. Init => ValidInv
  BY GenesisChain DEF Init, ValidInv, WellFormed
<1>2. ValidInv => LedgerValid
  BY DEF ValidInv, LedgerValid
<1> QED BY <1>1, <1>2, ValidInvNext, PTL DEF Spec

-----------------------------------------------------------------------------
(* A finite sequence.                                                      *)
Run(s) == s \in Seq(Blocks(s))

LEMMA Runs ==
    ASSUME NEW s, Run(s), NEW S, Blocks(s) \subseteq S
    PROVE  s \in Seq(S)
<1>1. Len(s) \in Nat /\ \A i \in 1 .. Len(s) : s[i] \in S
  BY LenProperties DEF Run, Blocks
<1>2. s = [i \in 1 .. Len(s) |-> s[i]]
  BY LenProperties DEF Run
<1> QED BY <1>1, <1>2, IsASeq

LEMMA MembersOf ==
    ASSUME NEW S, NEW s \in Seq(S)
    PROVE  Run(s)
<1>1. Len(s) \in Nat /\ \A i \in 1 .. Len(s) : s[i] \in Blocks(s)
  BY LenProperties DEF Blocks
<1>2. s = [i \in 1 .. Len(s) |-> s[i]]
  BY LenProperties
<1>3. s \in Seq(Blocks(s))
  BY <1>1, <1>2, IsASeq
<1> QED BY <1>3 DEF Run

(* A block put on the ledger is a block put on what waits to be stored.    *)
AppendsToLast(g, s, p, b) ==
    /\ Run(Append(p, b))
    /\ Run(s \o Append(p, b))
    /\ Append(<<g>> \o s \o p, b) = <<g>> \o s \o Append(p, b)

LEMMA AppendToLast ==
    ASSUME NEW g, NEW s, NEW p, NEW b, Run(s), Run(p)
    PROVE  AppendsToLast(g, s, p, b)
<1> DEFINE S == Blocks(s) \cup Blocks(p) \cup {b, g}
<1>1. s \in Seq(S) /\ p \in Seq(S) /\ <<g>> \in Seq(S) /\ b \in S
  BY Runs
<1> HIDE DEF S
<1>2. Append(p, b) \in Seq(S) /\ s \o Append(p, b) \in Seq(S)
  BY <1>1
<1>3. Append(<<g>> \o s \o p, b) = <<g>> \o s \o Append(p, b)
  <2>1. <<g>> \o s \in Seq(S)
    BY <1>1, ConcatProperties
  <2>2. <<g>> \o s \o p \in Seq(S)
    BY <1>1, <2>1, ConcatProperties
  <2>3. Append(<<g>> \o s \o p, b) = <<g>> \o s \o p \o <<b>>
    BY <1>1, <2>2, AppendIsConcat
  <2>4. Append(p, b) = p \o <<b>>
    BY <1>1, AppendIsConcat
  <2>5. <<b>> \in Seq(S) /\ p \o <<b>> \in Seq(S)
    BY <1>1, <1>2, <2>4
  <2>6. (<<g>> \o s) \o p \o <<b>> = (<<g>> \o s) \o (p \o <<b>>)
    BY <1>1, <2>1, <2>5, ConcatAssociative
  <2> QED BY <2>3, <2>4, <2>6
<1> QED BY <1>2, <1>3, MembersOf DEF AppendsToLast

LEMMA AllOf ==
    ASSUME NEW s, Run(s)
    PROVE  SubSeq(s, 1, Len(s)) = s
BY SubSeqFull DEF Run

LEMMA MoveToStore ==
    ASSUME NEW g, NEW s, NEW p, Run(s), Run(p)
    PROVE  <<g>> \o s \o p = <<g>> \o (s \o p) \o <<>>
<1> DEFINE S == Blocks(s) \cup Blocks(p) \cup {g}
<1>1. s \in Seq(S) /\ p \in Seq(S) /\ <<g>> \in Seq(S)
  BY Runs
<1> HIDE DEF S
<1> QED BY <1>1

-----------------------------------------------------------------------------
StoreInv ==
    intact => /\ Run(stored) /\ Run(pendingBlocks)
              /\ ledger = <<Genesis>> \o stored \o pendingBlocks

LEMMA StoreInvNext == StoreInv /\ [Next]_vars => StoreInv'
<1> SUFFICES ASSUME StoreInv, [Next]_vars, intact'
             PROVE  /\ Run(stored') /\ Run(pendingBlocks')
                    /\ ledger' = <<Genesis>> \o stored' \o pendingBlocks'
  BY DEF StoreInv
<1>1. CASE UNCHANGED <<ledger, stored, pendingBlocks, intact>>
  BY <1>1 DEF StoreInv
<1>2. ASSUME NEW block, TakeBlock(block)
      PROVE  /\ Run(stored') /\ Run(pendingBlocks')
             /\ ledger' = <<Genesis>> \o stored' \o pendingBlocks'
  <2> DEFINE blocks == Append(pendingBlocks, block)
  <2>1. /\ intact
        /\ ledger' = Append(ledger, block)
        /\ \/ stored' = stored /\ pendingBlocks' = blocks
           \/ stored' = stored \o SubSeq(blocks, 1, Len(blocks)) /\ pendingBlocks' = <<>>
    BY <1>2 DEF TakeBlock, Commit
  <2>2. /\ Run(stored) /\ Run(pendingBlocks)
        /\ ledger = <<Genesis>> \o stored \o pendingBlocks
    BY <2>1 DEF StoreInv
  <2>3. AppendsToLast(Genesis, stored, pendingBlocks, block)
    BY <2>2, AppendToLast
  <2>4. /\ Run(blocks) /\ Run(stored \o blocks)
        /\ Append(<<Genesis>> \o stored \o pendingBlocks, block)
             = <<Genesis>> \o stored \o blocks
    BY <2>3 DEF AppendsToLast
  <2> HIDE DEF blocks
  <2>5. SubSeq(blocks, 1, Len(blocks)) = blocks
    BY <2>4, AllOf
  <2>6. Run(<<>>)
    BY DEF Run
  <2>7. <<Genesis>> \o stored \o blocks = <<Genesis>> \o (stored \o blocks) \o <<>>
    BY <2>2, <2>4, MoveToStore
  <2> QED BY <2>1, <2>2, <2>4, <2>5, <2>6, <2>7
<1>3. CASE Reset
  <2>1. intact /\ pendingBlocks = <<>> /\ UNCHANGED <<ledger, stored, pendingBlocks>>
    BY <1>3 DEF Reset
  <2> QED BY <2>1 DEF StoreInv
<1>4. \/ UNCHANGED <<ledger, stored, pendingBlocks, intact>>
      \/ \E block : TakeBlock(block)
      \/ Reset
  BY DEF Next, PeerMines, StartHeaderSync, HandleHeaders, HandleBlock, RefuseBlock, vars
<1> QED BY <1>1, <1>2, <1>3, <1>4

(* Until a storage error or a reset drops blocks, every block of the       *)
(* ledger is stored or waits to be, once and in order.                     *)
THEOREM StoreKeepsUp == Spec => []LedgerIsStored
<1>1. Init => StoreInv
  <2>1. Run(<<>>)
    BY DEF Run
  <2>2. <<Genesis>> = <<Genesis>> \o <<>> \o <<>>
    OBVIOUS
  <2> QED BY <2>1, <2>2 DEF Init, StoreInv
<1>2. StoreInv => LedgerIsStored
  BY DEF StoreInv, LedgerIsStored
<1> QED BY <1>1, <1>2, StoreInvNext, PTL DEF Spec

-----------------------------------------------------------------------------
(* What waits to be stored is the end of the ledger, from height base + 1  *)
(* on, and what is stored was taken from the heights up to base, in order. *)
PlacedUpTo(c, s, base) ==
    \E pos \in [1 .. Len(s) -> 1 .. base] :
        /\ \A i \in 1 .. Len(s) : s[i] = At(c, pos[i])
        /\ \A i, j \in 1 .. Len(s) : i < j => pos[i] < pos[j]
WaitsAbove(c, p, base) ==
    /\ base + Len(p) = Height(c)
    /\ \A k \in 1 .. Len(p) : p[k] = At(c, base + k)

LEMMA PlacedKept ==
    ASSUME NEW c, NEW d, NEW s, NEW base \in Nat, base <= Height(c), PlacedUpTo(c, s, base),
           Height(c) \in Nat, \A h \in 0 .. Height(c) : At(d, h) = At(c, h),
           NEW top \in Nat, base <= top
    PROVE  PlacedUpTo(d, s, top)
<1>1. PICK pos \in [1 .. Len(s) -> 1 .. base] :
          /\ \A i \in 1 .. Len(s) : s[i] = At(c, pos[i])
          /\ \A i, j \in 1 .. Len(s) : i < j => pos[i] < pos[j]
  BY DEF PlacedUpTo
<1>2. \A i \in 1 .. Len(s) : pos[i] \in 1 .. base /\ pos[i] \in 0 .. Height(c)
  BY <1>1
<1>3. pos \in [1 .. Len(s) -> 1 .. top]
  BY <1>1, <1>2
<1>4. \A i \in 1 .. Len(s) : s[i] = At(d, pos[i])
  BY <1>1, <1>2
<1> QED BY <1>1, <1>3, <1>4 DEF PlacedUpTo

(* The first n of the waiting blocks go to the store.                      *)
LEMMA PlacedMore ==
    ASSUME NEW c, NEW s, NEW p, NEW base \in Nat, Run(s), Run(p),
           PlacedUpTo(c, s, base), WaitsAbove(c, p, base), NEW n \in 0 .. Len(p)
    PROVE  /\ Run(s \o SubSeq(p, 1, n))
           /\ PlacedUpTo(c, s \o SubSeq(p, 1, n), Height(c))
<1> DEFINE S == Blocks(s) \cup Blocks(p)
           m == Len(s)
           t == s \o SubSeq(p, 1, n)
<1>1. s \in Seq(S) /\ p \in Seq(S)
  BY Runs
<1>2. m \in Nat /\ Len(p) \in Nat /\ n \in Nat
  BY <1>1, LenProperties
<1>3. /\ SubSeq(p, 1, n) \in Seq(S)
      /\ Len(SubSeq(p, 1, n)) = n
      /\ \A i \in 1 .. n : SubSeq(p, 1, n)[i] = p[i]
  <2>1. \A i \in 1 .. n : p[i] \in S
    BY <1>2 DEF Blocks
  <2> HIDE DEF S
  <2>2. /\ SubSeq(p, 1, n) \in Seq(S)
        /\ Len(SubSeq(p, 1, n)) = IF 1 <= n THEN n - 1 + 1 ELSE 0
        /\ \A i \in 1 .. n - 1 + 1 : SubSeq(p, 1, n)[i] = p[1 + i - 1]
    BY <1>2, <2>1, SubSeqProperties
  <2> QED BY <1>2, <2>2
<1> HIDE DEF S, m
<1>4. /\ t \in Seq(S) /\ Len(t) = m + n
      /\ \A i \in 1 .. m + n : t[i] = IF i <= m THEN s[i] ELSE SubSeq(p, 1, n)[i - m]
  BY <1>1, <1>3, ConcatProperties DEF m
<1> HIDE DEF t
<1>5. PICK pos \in [1 .. m -> 1 .. base] :
          /\ \A i \in 1 .. m : s[i] = At(c, pos[i])
          /\ \A i, j \in 1 .. m : i < j => pos[i] < pos[j]
  BY DEF PlacedUpTo, m
<1> DEFINE new == [i \in 1 .. m + n |-> IF i <= m THEN pos[i] ELSE base + (i - m)]
<1>6. /\ base + Len(p) = Height(c)
      /\ \A k \in 1 .. Len(p) : p[k] = At(c, base + k)
  BY DEF WaitsAbove
<1>7. ASSUME NEW i \in 1 .. m + n
      PROVE  new[i] \in 1 .. Height(c) /\ t[i] = At(c, new[i])
  <2>1. CASE i <= m
    <3>1. i \in 1 .. m
      BY <1>2, <2>1
    <3>2. pos[i] \in 1 .. base /\ new[i] = pos[i] /\ t[i] = s[i]
      BY <1>4, <1>5, <2>1, <3>1
    <3> QED BY <1>2, <1>5, <1>6, <3>1, <3>2
  <2>2. CASE ~(i <= m)
    <3>1. i - m \in 1 .. n /\ i - m \in 1 .. Len(p)
      BY <1>2, <2>2
    <3>2. new[i] = base + (i - m) /\ t[i] = p[i - m]
      BY <1>3, <1>4, <2>2, <3>1
    <3> QED BY <1>2, <1>6, <3>1, <3>2
  <2> QED BY <2>1, <2>2
<1>8. ASSUME NEW i \in 1 .. m + n, NEW j \in 1 .. m + n, i < j
      PROVE  new[i] < new[j]
  <2>1. CASE j <= m
    <3>1. i \in 1 .. m /\ j \in 1 .. m
      BY <1>2, <1>8, <2>1
    <3>2. new[i] = pos[i] /\ new[j] = pos[j]
      BY <3>1
    <3> HIDE DEF new
    <3> QED BY <1>5, <1>8, <3>1, <3>2
  <2>2. CASE i <= m /\ ~(j <= m)
    <3>1. i \in 1 .. m
      BY <1>2, <2>2
    <3>2. new[i] = pos[i] /\ new[j] = base + (j - m) /\ pos[i] \in 1 .. base
      BY <1>5, <2>2, <3>1
    <3> HIDE DEF new
    <3> QED BY <1>2, <2>2, <3>2
  <2>3. CASE ~(i <= m) /\ ~(j <= m)
    <3>1. new[i] = base + (i - m) /\ new[j] = base + (j - m)
      BY <2>3
    <3> HIDE DEF new
    <3> QED BY <1>2, <1>8, <3>1
  <2> QED BY <1>2, <1>8, <2>1, <2>2, <2>3
<1>9. new \in [1 .. m + n -> 1 .. Height(c)]
  <2>1. new = [i \in 1 .. m + n |-> new[i]]
    OBVIOUS
  <2> HIDE DEF new
  <2> QED BY <1>7, <2>1
<1> HIDE DEF new
<1>10. PlacedUpTo(c, t, Height(c))
  <2>1. /\ new \in [1 .. Len(t) -> 1 .. Height(c)]
        /\ \A i \in 1 .. Len(t) : t[i] = At(c, new[i])
        /\ \A i, j \in 1 .. Len(t) : i < j => new[i] < new[j]
    BY <1>4, <1>7, <1>8, <1>9
  <2> QED BY <2>1 DEF PlacedUpTo
<1>11. Run(t)
  BY <1>4, MembersOf
<1> QED BY <1>10, <1>11 DEF t

LEMMA WaitsMore ==
    ASSUME NEW c, NEW p, NEW b, NEW base \in Nat, Blockchain(c), Run(p), WaitsAbove(c, p, base)
    PROVE  Run(Append(p, b)) /\ WaitsAbove(Append(c, b), Append(p, b), base)
<1> DEFINE S == Blocks(p) \cup {b}
           d == Append(c, b)
           q == Append(p, b)
<1>1. p \in Seq(S) /\ b \in S
  BY Runs
<1> HIDE DEF S
<1>2. /\ q \in Seq(S) /\ Len(q) = Len(p) + 1 /\ Len(p) \in Nat
      /\ \A i \in 1 .. Len(p) : q[i] = p[i]
      /\ q[Len(p) + 1] = b
  BY <1>1, AppendProperties, LenProperties
<1>3. Run(q)
  BY <1>2, MembersOf
<1>0. Extends(d, c, b) /\ Len(c) \in Nat
  BY Appended, Length
<1> HIDE DEF q, d
<1>4. /\ Len(d) = Len(c) + 1 /\ Len(c) \in Nat
      /\ \A h \in 0 .. Len(c) - 1 : At(d, h) = At(c, h)
      /\ At(d, Len(c)) = b
  BY <1>0 DEF Extends
<1>5. /\ base + Len(p) = Len(c) - 1
      /\ \A k \in 1 .. Len(p) : p[k] = At(c, base + k)
  BY DEF WaitsAbove, Height
<1>6. ASSUME NEW k \in 1 .. Len(q) PROVE q[k] = At(d, base + k)
  <2>1. CASE k = Len(p) + 1
    <3>1. base + k = Len(c)
      BY <1>2, <1>4, <1>5, <2>1
    <3> QED BY <1>2, <1>4, <2>1, <3>1
  <2>2. CASE k # Len(p) + 1
    <3>1. k \in 1 .. Len(p) /\ base + k \in 0 .. Len(c) - 1
      BY <1>2, <1>4, <1>5, <2>2
    <3> QED BY <1>2, <1>4, <1>5, <3>1
  <2> QED BY <2>1, <2>2
<1>7. base + Len(q) = Height(d)
  BY <1>2, <1>4, <1>5 DEF Height
<1>8. Run(q) /\ WaitsAbove(d, q, base)
  BY <1>3, <1>6, <1>7 DEF WaitsAbove
<1> QED BY <1>8 DEF d, q

OrderInv ==
    /\ Run(stored) /\ Run(pendingBlocks)
    /\ \E base \in Nat :
          PlacedUpTo(ledger, stored, base) /\ WaitsAbove(ledger, pendingBlocks, base)

LEMMA OrderInvNext == ValidInv /\ OrderInv /\ [Next]_vars => OrderInv'
<1> SUFFICES ASSUME ValidInv, OrderInv, [Next]_vars PROVE OrderInv'
  OBVIOUS
<1>0. PICK base \in Nat :
          PlacedUpTo(ledger, stored, base) /\ WaitsAbove(ledger, pendingBlocks, base)
  BY DEF OrderInv
<1>1. /\ Run(stored) /\ Run(pendingBlocks) /\ Blockchain(ledger)
      /\ Len(ledger) \in Nat /\ Height(ledger) \in Nat
  BY Length DEF OrderInv, ValidInv, Height
<1>2. Len(pendingBlocks) \in Nat /\ base <= Height(ledger)
  <2>1. Len(pendingBlocks) \in Nat
    BY <1>1, LenProperties DEF Run
  <2>2. base + Len(pendingBlocks) = Height(ledger)
    BY <1>0 DEF WaitsAbove
  <2> QED BY <1>1, <2>1, <2>2
<1>3. Run(<<>>) /\ Len(<<>>) = 0
  BY DEF Run
<1>4. ASSUME NEW c, Height(c) \in Nat PROVE WaitsAbove(c, <<>>, Height(c))
  BY <1>3, <1>4 DEF WaitsAbove
<1>5. CASE UNCHANGED <<ledger, stored, pendingBlocks>>
  BY <1>5 DEF OrderInv
<1>6. CASE Reset
  <2>1. ledger' = ledger /\ stored' = stored /\ pendingBlocks' = <<>>
    BY <1>6 DEF Reset
  <2>2. PlacedUpTo(ledger, stored, Height(ledger))
    BY <1>0, <1>1, <1>2, PlacedKept
  <2>3. WaitsAbove(ledger, <<>>, Height(ledger))
    BY <1>1, <1>4
  <2> QED BY <1>1, <1>3, <2>1, <2>2, <2>3 DEF OrderInv
<1>7. ASSUME NEW block, TakeBlock(block) PROVE OrderInv'
  <2> DEFINE blocks == Append(pendingBlocks, block)
             d == Append(ledger, block)
  <2>1. /\ ledger' = d
        /\ \/ stored' = stored /\ pendingBlocks' = blocks
           \/ /\ \E n \in 0 .. Len(blocks) : stored' = stored \o SubSeq(blocks, 1, n)
              /\ pendingBlocks' = <<>>
    BY <1>7 DEF TakeBlock, Commit
  <2>2. Run(blocks) /\ WaitsAbove(d, blocks, base)
    BY <1>0, <1>1, WaitsMore
  <2>3. /\ Height(d) \in Nat
        /\ \A h \in 0 .. Height(ledger) : At(d, h) = At(ledger, h)
    <3>1. Extends(d, ledger, block)
      BY <1>1, Appended
    <3> HIDE DEF d
    <3> QED BY <1>1, <3>1 DEF Extends, Height
  <2> HIDE DEF blocks, d
  <2>4. PlacedUpTo(d, stored, base)
    BY <1>0, <1>1, <1>2, <2>3, PlacedKept
  <2>5. CASE stored' = stored /\ pendingBlocks' = blocks
    BY <1>1, <2>1, <2>2, <2>4, <2>5 DEF OrderInv
  <2>6. CASE /\ \E n \in 0 .. Len(blocks) : stored' = stored \o SubSeq(blocks, 1, n)
             /\ pendingBlocks' = <<>>
    <3>1. PICK n \in 0 .. Len(blocks) : stored' = stored \o SubSeq(blocks, 1, n)
      BY <2>6
    <3>2. Run(stored') /\ PlacedUpTo(d, stored', Height(d))
      BY <1>1, <2>2, <2>4, <3>1, PlacedMore
    <3>3. WaitsAbove(d, <<>>, Height(d))
      BY <1>4, <2>3
    <3> QED BY <1>3, <2>1, <2>3, <2>6, <3>2, <3>3 DEF OrderInv
  <2> QED BY <2>1, <2>5, <2>6
<1>8. \/ UNCHANGED <<ledger, stored, pendingBlocks>>
      \/ \E block : TakeBlock(block)
      \/ Reset
  BY DEF Next, PeerMines, StartHeaderSync, HandleHeaders, HandleBlock, RefuseBlock, vars
<1> QED BY <1>5, <1>6, <1>7, <1>8

(* Whatever fails, the store holds blocks of the ledger only, each once    *)
(* and in the order of the ledger.                                         *)
THEOREM StoreInOrder == Spec => []StoredInOrder
<1>1. Init => ValidInv /\ OrderInv
  <2> SUFFICES ASSUME Init PROVE ValidInv /\ OrderInv
    OBVIOUS
  <2>1. ValidInv
    BY GenesisChain DEF Init, ValidInv, WellFormed
  <2>2. stored = <<>> /\ pendingBlocks = <<>> /\ Len(<<>>) = 0 /\ Height(ledger) = 0
    BY DEF Init, Height
  <2>3. WaitsAbove(ledger, pendingBlocks, 0)
    BY <2>2 DEF WaitsAbove
  <2>4. PlacedUpTo(ledger, stored, 0)
    <3>1. <<>> \in [1 .. Len(stored) -> 1 .. 0]
      BY <2>2
    <3>2. \A i \in 1 .. Len(stored) : FALSE
      BY <2>2
    <3> QED BY <3>1, <3>2 DEF PlacedUpTo
  <2>5. Run(<<>>)
    BY DEF Run
  <2> QED BY <2>1, <2>2, <2>3, <2>4, <2>5 DEF OrderInv
<1>2. ValidInv /\ OrderInv => StoredInOrder
  <2> SUFFICES ASSUME ValidInv, OrderInv PROVE StoredInOrder
    OBVIOUS
  <2>1. PICK base \in Nat :
            PlacedUpTo(ledger, stored, base) /\ WaitsAbove(ledger, pendingBlocks, base)
    BY DEF OrderInv
  <2>2. /\ Blockchain(ledger) /\ ValidChain(ledger)
        /\ Height(ledger) \in Nat /\ DOMAIN ledger = 1 .. Height(ledger) + 1
    BY Length DEF ValidInv, Height
  <2>3. base <= Height(ledger) /\ DOMAIN stored = 1 .. Len(stored)
    <3>1. base + Len(pendingBlocks) = Height(ledger)
      BY <2>1 DEF WaitsAbove
    <3>2. Len(pendingBlocks) \in Nat /\ DOMAIN stored = 1 .. Len(stored)
      BY LenProperties DEF OrderInv, Run
    <3> QED BY <2>2, <3>1, <3>2
  <2>4. PICK pos \in [1 .. Len(stored) -> 1 .. base] :
            /\ \A i \in 1 .. Len(stored) : stored[i] = At(ledger, pos[i])
            /\ \A i, j \in 1 .. Len(stored) : i < j => pos[i] < pos[j]
    BY <2>1 DEF PlacedUpTo
  <2>5. ASSUME NEW h \in 1 .. Height(ledger), NEW b, b = At(ledger, h)
        PROVE  HeightInLedger(b) = h
    <3>1. ASSUME NEW g \in 1 .. Height(ledger), At(ledger, g) = b PROVE g = h
      <4>1. g \in Nat /\ h \in Nat /\ g <= Height(ledger) /\ h <= Height(ledger)
        BY <2>2
      <4>2. ~(g < h) /\ ~(h < g)
        BY <2>2, <2>5, <3>1, <4>1, BlocksDiffer
      <4> QED BY <4>1, <4>2
    <3>2. \E g \in 1 .. Height(ledger) : At(ledger, g) = b
      BY <2>5
    <3> QED BY <3>1, <3>2 DEF HeightInLedger
  <2>6. ASSUME NEW i \in DOMAIN stored
        PROVE  /\ stored[i] = At(ledger, pos[i]) /\ pos[i] \in 1 .. Height(ledger)
               /\ HeightInLedger(stored[i]) = pos[i]
    <3>1. stored[i] = At(ledger, pos[i]) /\ pos[i] \in 1 .. Height(ledger)
      BY <2>2, <2>3, <2>4
    <3> QED BY <2>5, <3>1
  <2>7. ASSUME NEW i \in DOMAIN stored PROVE stored[i] \in Range(ledger) \ {Genesis}
    <3>1. pos[i] \in 1 .. Height(ledger) /\ pos[i] + 1 \in DOMAIN ledger
      BY <2>2, <2>6
    <3>2. stored[i] \in Range(ledger)
      BY <2>6, <3>1 DEF Range, At
    <3>3. At(ledger, 0) # At(ledger, pos[i])
      <4>1. 0 \in Nat /\ pos[i] \in Nat /\ 0 < pos[i] /\ pos[i] <= Height(ledger)
        BY <2>2, <3>1
      <4> QED BY <2>2, <4>1, BlocksDiffer
    <3>4. At(ledger, 0) = Genesis
      BY <2>2 DEF ValidChain
    <3> QED BY <2>6, <3>2, <3>3, <3>4
  <2>8. Range(stored) \subseteq Range(ledger) \ {Genesis}
    BY <2>7 DEF Range
  <2>9. \A i, j \in DOMAIN stored :
            i < j => HeightInLedger(stored[i]) < HeightInLedger(stored[j])
    BY <2>3, <2>4, <2>6
  <2> QED BY <2>8, <2>9 DEF StoredInOrder
<1> QED BY <1>1, <1>2, ValidInvNext, OrderInvNext, PTL DEF Spec

-----------------------------------------------------------------------------
(* The work of no headers at all is not more than that of the ledger, so   *)
(* the engine asks for blocks only when there are headers.                 *)
LEMMA WorkOfHeaders == WorkOf(<<>>) = 0
<1>1. DOMAIN <<>> = {}
  OBVIOUS
<1> QED BY <1>1, SumEmpty DEF WorkOf

LEMMA WorkOfChain ==
    ASSUME NEW c, Blockchain(c), ValidChain(c)
    PROVE  WorkOf(c) \in Nat
<1>1. Len(c) \in Nat /\ DOMAIN c = 1 .. Len(c)
  BY Length
<1>2. ASSUME NEW k \in DOMAIN c PROVE MaxTarget \div c[k].target \in Nat
  <2>1. c[k].target \in MinTarget .. MaxTarget
    <3>1. CASE k = 1
      <4>1. c[k] = Genesis
        BY <3>1 DEF ValidChain, At
      <4> QED BY <4>1, Bounds DEF Genesis
    <3>2. CASE k # 1
      <4>1. k - 1 \in 1 .. Height(c) /\ c[k] = At(c, k - 1)
        BY <1>1, <3>2 DEF Height, At
      <4> QED BY <4>1 DEF ValidChain, ValidAt, Verifies
    <3> QED BY <3>1, <3>2
  <2>2. c[k].target \in Int /\ c[k].target > 0 /\ MaxTarget \in Nat
    BY <2>1, Bounds
  <2>3. ASSUME NEW t \in Int, t > 0, NEW m \in Nat PROVE m \div t \in Nat
    BY <2>3, SMT
  <2> QED BY <2>2, <2>3
<1>3. IsFiniteSet(DOMAIN c)
  BY <1>1, FS_Interval
<1> DEFINE f == [k \in DOMAIN c |-> MaxTarget \div c[k].target]
<1>4. \A k \in DOMAIN c : f[k] \in Nat
  BY <1>2
<1>5. SumFunctionOnSet(f, DOMAIN c) \in Nat
  <2> HIDE DEF f
  <2> QED BY <1>3, <1>4, SumNat
<1> QED BY <1>5 DEF WorkOf

TypeInv ==
    /\ TypeOK
    /\ Run(pendingHeaders)
    /\ \A p \in Peers : Blockchain(served[p])

LEMMA AnswersAreRuns ==
    ASSUME NEW p, Blockchain(served[p]), NEW headers \in Answers(p)
    PROVE  Run(headers)
<1>1. CASE headers = <<>>
  BY <1>1 DEF Run
<1>2. ASSUME NEW i \in 2 .. Len(served[p]), NEW j \in 2 .. Len(served[p]),
             headers = SubSeq(served[p], i, j)
      PROVE  Run(headers)
  <2> DEFINE c == served[p]
             S == Blocks(c)
  <2>1. Len(c) \in Nat /\ i \in Int /\ j \in Int
    BY Length
  <2>2. \A k \in i .. j : c[k] \in S
    BY <2>1 DEF Blocks
  <2> HIDE DEF c, S
  <2>3. SubSeq(c, i, j) \in Seq(S)
    BY <2>1, <2>2, SubSeqProperties
  <2>4. Run(SubSeq(c, i, j))
    BY <2>3, MembersOf
  <2> QED BY <1>2, <2>4 DEF c
<1> QED BY <1>1, <1>2 DEF Answers

LEMMA TailOfRun ==
    ASSUME NEW s, Run(s), s # <<>>
    PROVE  /\ Run(Tail(s))
           /\ Tail(s) = <<>> <=> ~(Len(s) > 1)
<1> DEFINE S == Blocks(s)
<1>1. s \in Seq(S)
  BY DEF Run
<1> HIDE DEF S
<1>2. /\ Len(s) \in Nat /\ Len(s) # 0 /\ Tail(s) \in Seq(S) /\ Len(Tail(s)) = Len(s) - 1
  BY <1>1, LenProperties, EmptySeq, HeadTailProperties
<1>3. Run(Tail(s))
  BY <1>2, MembersOf
<1>4. Tail(s) = <<>> <=> Len(Tail(s)) = 0
  BY <1>2, EmptySeq
<1> QED BY <1>2, <1>3, <1>4

LEMMA TypeInvInit == Init => TypeInv
<1> SUFFICES ASSUME Init PROVE TypeInv
  OBVIOUS
<1>1. Blockchain(<<Genesis>>)
  BY GenesisChain DEF WellFormed
<1>2. Run(<<>>)
  BY DEF Run
<1> QED BY <1>1, <1>2 DEF Init, TypeInv, TypeOK

LEMMA TypeInvNext == ValidInv /\ TypeInv /\ [Next]_vars => TypeInv'
<1> SUFFICES ASSUME ValidInv, TypeInv, [Next]_vars PROVE TypeInv'
  OBVIOUS
<1> USE DEF TypeInv, TypeOK
<1>1. ASSUME NEW p \in Peers, NEW gap \in Gaps[p], PeerMines(p, gap) PROVE TypeInv'
  <2>1. PICK b : served' = [served EXCEPT ![p] = Append(@, b)]
    BY <1>1 DEF PeerMines
  <2>2. ASSUME NEW q \in Peers PROVE Blockchain(served'[q])
    <3>1. served'[q] = served[q] \/ served'[q] = Append(served[q], b)
      BY <2>1
    <3> QED BY <3>1, AppendKeepsBlockchain
  <2> QED BY <1>1, <2>2 DEF PeerMines
<1>2. CASE StartHeaderSync
  BY <1>2 DEF StartHeaderSync
<1>3. ASSUME NEW p \in Peers, NEW headers \in Answers(p), HandleHeaders(headers)
      PROVE  TypeInv'
  <2>1. Run(headers)
    BY AnswersAreRuns
  <2>2. BetterChain(headers) => headers # <<>>
    <3>1. WorkOf(ledger) \in Nat
      BY WorkOfChain DEF ValidInv
    <3> QED BY <3>1, WorkOfHeaders DEF BetterChain
  <2>3. UNCHANGED <<served, ledger, stored, pendingBlocks, intact>>
    BY <1>3 DEF HandleHeaders
  <2>4. \/ state' \in {"VALIDATING_HEADERS", "INVALID_DATA", "SYNCED"} /\ UNCHANGED pendingHeaders
        \/ state' = "REQUESTING_BLOCKS" /\ pendingHeaders' = headers /\ headers # <<>>
    BY <1>3, <2>2 DEF HandleHeaders
  <2> QED BY <2>1, <2>3, <2>4
<1>4. ASSUME NEW block, HandleBlock(block) PROVE TypeInv'
  <2>1. CASE RefuseBlock(block)
    BY <2>1 DEF RefuseBlock
  <2>2. CASE TakeBlock(block)
    <3>1. pendingHeaders # <<>> /\ served' = served
      BY <1>4, <2>2 DEF HandleBlock, TakeBlock
    <3>2. pendingHeaders' = Tail(pendingHeaders)
      BY <2>2 DEF TakeBlock
    <3>3. /\ Run(Tail(pendingHeaders))
          /\ Tail(pendingHeaders) = <<>> <=> ~(Len(pendingHeaders) > 1)
      BY <3>1, TailOfRun
    <3>4. \/ Len(pendingHeaders) > 1 /\ state' = "REQUESTING_BLOCKS"
          \/ state' \in {"SYNCED", "STORAGE_FAILURE"}
      BY <2>2 DEF TakeBlock, Commit
    <3> QED BY <3>1, <3>2, <3>3, <3>4
  <2> QED BY <1>4, <2>1, <2>2 DEF HandleBlock
<1>5. CASE Reset
  BY <1>5 DEF Reset, Run
<1>6. CASE UNCHANGED vars
  BY <1>6 DEF vars
<1> QED BY <1>1, <1>2, <1>3, <1>4, <1>5, <1>6 DEF Next

(* The engine asks for blocks only while it has headers to ask with: no    *)
(* answer without headers is one of a better chain, and the last block of  *)
(* a download ends it.                                                     *)
THEOREM AsksWithHeaders == Spec => []TypeOK
<1>1. Init => ValidInv
  BY GenesisChain DEF Init, ValidInv, WellFormed
<1>2. TypeInv => TypeOK
  BY DEF TypeInv
<1> QED BY <1>1, <1>2, ValidInvNext, TypeInvInit, TypeInvNext, PTL DEF Spec
=============================================================================

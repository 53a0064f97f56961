----------------------------- MODULE CliProofs -----------------------------
(***************************************************************************)
(* What the commands keep in the ledger files, for any number of           *)
(* operators, files, curators and keys, and ledgers of any height.         *)
(***************************************************************************)
EXTENDS Cli, SequenceTheorems, TLAPS

(* A ledger as the commands build it, and one that `chain verify` accepts. *)
Blocks(led) == {led.chain[i] : i \in DOMAIN led.chain}
IsLedger(led) ==
    /\ led = [network |-> led.network, chain |-> led.chain]
    /\ led.chain \in Seq(Blocks(led))
Sound(led) == IsLedger(led) /\ Verifies(led)

(* A pending write is one of a sound ledger, and one that keeps the blocks *)
(* of the file it replaces unless it was forced or overlapped.             *)
IsPending(write) == write = Pending(write.out, write.content, write.mayLose)
SafeWrite(write, files) ==
    /\ IsPending(write)
    /\ write.out \in Ledgers
    /\ Sound(write.content)
    /\ write.mayLose \/ Extends(write.content, files[write.out])

FilesInv ==
    /\ ledgers = [l \in Ledgers |-> ledgers[l]]
    /\ running = [p \in Operators |-> running[p]]
    /\ \A l \in Ledgers : ledgers[l] # None => Sound(ledgers[l])
    /\ \A p \in Operators : ~Idle(p) => SafeWrite(running[p], ledgers)

-----------------------------------------------------------------------------
(* A ledger counts only by its network and the bodies of its blocks.       *)
LEMMA SameBodies ==
    ASSUME NEW a, NEW b, a.network = b.network, NEW h \in Nat,
           \A i \in 1 .. h : a.chain[i] = b.chain[i]
    PROVE  /\ Bodies(a, h) = Bodies(b, h)
           /\ \A tx : AppliesAt(a, h, tx) <=> AppliesAt(b, h, tx)
           /\ \A c, key : ValidAt(a, c, key, h) <=> ValidAt(b, c, key, h)
<1>1. Bodies(a, h) = Bodies(b, h)
  BY DEF Bodies
<1>2. StateAt(a, h) = StateAt(b, h) /\ RootAt(a, h) = RootAt(b, h)
  BY <1>1 DEF StateAt, RootAt
<1>3. ASSUME NEW tx PROVE AppliesAt(a, h, tx) <=> AppliesAt(b, h, tx)
  BY <1>2 DEF AppliesAt
<1>4. ASSUME NEW c, NEW key PROVE ValidAt(a, c, key, h) <=> ValidAt(b, c, key, h)
  BY <1>2 DEF ValidAt
<1> QED
  BY <1>1, <1>3, <1>4

(* The hash of the last block is that of the network and all bodies.       *)
LEMMA TipCommits ==
    ASSUME NEW led, Sound(led)
    PROVE  TipHash(led) = <<led.network, Bodies(led, Height(led))>>
<1> DEFINE n == Height(led)
           all == {led.chain[i].body : i \in 1 .. n}
<1>1. led.chain \in Seq(Blocks(led)) /\ n \in Nat
  BY LenProperties DEF Sound, IsLedger, Height
<1>2. CASE led.chain = << >>
  <2>1. n = 0
    BY <1>2 DEF Height
  <2>2. Bodies(led, 0) \in Seq({}) /\ Len(Bodies(led, 0)) = 0
    BY DEF Bodies
  <2>3. Bodies(led, n) = << >>
    BY <2>1, <2>2, EmptySeq
  <2> QED
    BY <1>2, <2>3 DEF TipHash
<1>3. CASE led.chain # << >>
  <2>1. n \in Nat \ {0} /\ n \in 1 .. n
    BY <1>1, <1>3, EmptySeq DEF Height
  <2>2. led.chain[n].prev = <<led.network, Bodies(led, n - 1)>>
    BY <2>1 DEF Sound, Verifies
  <2>3. /\ Bodies(led, n) \in Seq(all) /\ Len(Bodies(led, n)) = n
        /\ \A i \in 1 .. n : Bodies(led, n)[i] = led.chain[i].body
    BY <1>1 DEF Bodies
  <2>4. /\ Bodies(led, n - 1) \in Seq(all) /\ Len(Bodies(led, n - 1)) = n - 1
        /\ \A i \in 1 .. n - 1 : Bodies(led, n - 1)[i] = led.chain[i].body
    BY <1>1, <2>1 DEF Bodies
  <2>5. led.chain[n].body \in all
    BY <2>1
  <2> DEFINE whole == Append(Bodies(led, n - 1), led.chain[n].body)
  <2> HIDE DEF all, n
  <2>6. /\ whole \in Seq(all) /\ Len(whole) = n
        /\ whole[n] = led.chain[n].body
        /\ \A i \in 1 .. n - 1 : whole[i] = Bodies(led, n - 1)[i]
    BY <2>1, <2>4, <2>5, AppendProperties
  <2> HIDE DEF whole
  <2>7. \A i \in 1 .. Len(whole) : whole[i] = Bodies(led, n)[i]
    BY <2>1, <2>3, <2>4, <2>6
  <2>8. whole = Bodies(led, n)
    BY <2>3, <2>6, <2>7, SeqEqual
  <2>9. TipHash(led) = <<led.chain[n].prev[1], Append(led.chain[n].prev[2], led.chain[n].body)>>
    BY <1>3 DEF TipHash, n
  <2> QED
    BY <2>2, <2>8, <2>9 DEF whole, n
<1> QED
  BY <1>2, <1>3

(* A block that add_block_v2 accepts leaves a sound ledger, with the       *)
(* blocks it had.                                                          *)
LEMMA AddedBlock ==
    ASSUME NEW led, Sound(led), NEW block, Accepts(led, block)
    PROVE  /\ Sound([led EXCEPT !.chain = Append(@, block)])
           /\ Extends([led EXCEPT !.chain = Append(@, block)], led)
<1> DEFINE new == [led EXCEPT !.chain = Append(@, block)]
           n == Height(led)
           some == Blocks(led) \cup {block}
<1>1. led = [network |-> led.network, chain |-> led.chain] /\ led.chain \in Seq(some)
      /\ n \in Nat /\ n = Len(led.chain)
  BY DEF Sound, IsLedger, Height
<1>2. new.network = led.network /\ new.chain = Append(led.chain, block)
      /\ new = [network |-> new.network, chain |-> new.chain]
  <2>1. ASSUME NEW a, NEW c, NEW d
        PROVE  [[network |-> a, chain |-> c] EXCEPT !.chain = d] = [network |-> a, chain |-> d]
    OBVIOUS
  <2>2. new = [[network |-> led.network, chain |-> led.chain]
                  EXCEPT !.chain = Append(led.chain, block)]
    BY <1>1
  <2>3. new = [network |-> led.network, chain |-> Append(led.chain, block)]
    BY <2>1, <2>2
  <2> QED
    BY <2>3
<1>3. /\ new.chain \in Seq(some) /\ Len(new.chain) = n + 1
      /\ new.chain[n + 1] = block
      /\ \A i \in 1 .. n : new.chain[i] = led.chain[i]
  <2> HIDE DEF new, some
  <2>1. block \in some
    BY DEF some
  <2> QED
    BY <1>1, <1>2, <2>1, AppendProperties
<1> HIDE DEF new
<1>4. IsLedger(new)
  <2>1. new.chain \in Seq(Blocks(new))
    BY <1>3 DEF Blocks
  <2> QED
    BY <1>2, <2>1 DEF IsLedger
<1>5. Verifies(new)
  <2> SUFFICES ASSUME NEW i \in 1 .. n + 1
               PROVE  /\ new.chain[i].prev = <<new.network, Bodies(new, i - 1)>>
                      /\ AppliesAt(new, i - 1, new.chain[i])
    BY <1>3 DEF Verifies, Height
  <2>1. i - 1 \in Nat /\ \A j \in 1 .. i - 1 : new.chain[j] = led.chain[j]
    BY <1>1, <1>3
  <2>2. /\ Bodies(new, i - 1) = Bodies(led, i - 1)
        /\ \A tx : AppliesAt(new, i - 1, tx) <=> AppliesAt(led, i - 1, tx)
    BY <1>2, <2>1, SameBodies
  <2>3. CASE i \in 1 .. n
    <3>1. /\ led.chain[i].prev = <<led.network, Bodies(led, i - 1)>>
          /\ AppliesAt(led, i - 1, led.chain[i])
      BY <2>3 DEF Sound, Verifies
    <3> QED
      BY <1>2, <1>3, <2>2, <2>3, <3>1
  <2>4. CASE i = n + 1
    <3>1. i - 1 = n
      BY <1>1, <2>4
    <3>2. block.prev = <<led.network, Bodies(led, n)>> /\ AppliesAt(led, n, block)
      BY TipCommits DEF Accepts
    <3> QED
      BY <1>2, <1>3, <2>2, <2>4, <3>1, <3>2
  <2> QED
    BY <1>1, <2>3, <2>4
<1>6. Extends(new, led)
  <2>1. Height(new) = n + 1
    BY <1>3 DEF Height
  <2>2. SubSeq(new.chain, 1, n) = SubSeq(led.chain, 1, n)
    BY <1>1, <1>3
  <2> QED
    BY <1>1, <1>2, <2>1, <2>2 DEF Extends, KeepsUpto
<1> QED
  BY <1>4, <1>5, <1>6 DEF Sound, new

(* A command that writes is running until it has written.                  *)
LEMMA FilesInit == Init => FilesInv
BY DEF Init, FilesInv, Idle

LEMMA FreshIsSound == \A network : Sound(Fresh(network))
<1> SUFFICES ASSUME NEW network PROVE Sound(Fresh(network))
  OBVIOUS
<1>1. Fresh(network) = [network |-> network, chain |-> << >>]
  BY DEF Fresh
<1>2. << >> \in Seq(Blocks(Fresh(network))) /\ Len(<< >>) = 0
  BY EmptySeq
<1> QED
  BY <1>1, <1>2 DEF Sound, IsLedger, Verifies, Height

LEMMA PendingFields ==
    ASSUME NEW out, NEW content, NEW mayLose
    PROVE  LET w == Pending(out, content, mayLose)
           IN  IsPending(w) /\ w.out = out /\ w.content = content /\ w.mayLose = mayLose
BY DEF Pending, IsPending

(* A command that starts to write keeps the invariant.                     *)
LEMMA BeginKeeps ==
    ASSUME FilesInv, NEW p \in Operators, NEW write, SafeWrite(write, ledgers),
           running' = [running EXCEPT ![p] = write], ledgers' = ledgers
    PROVE  FilesInv'
<1>1. running' = [q \in Operators |-> IF q = p THEN write ELSE running[q]]
  BY DEF FilesInv
<1>2. ASSUME NEW q \in Operators, running'[q] # None PROVE SafeWrite(running[q], ledgers)'
  BY <1>1, <1>2 DEF FilesInv, Idle
<1> QED
  BY <1>1, <1>2 DEF FilesInv, Idle

LEMMA ChainInitKeeps ==
    ASSUME FilesInv, NEW p \in Operators, NEW out \in Ledgers, NEW network \in Networks,
           NEW force \in BOOLEAN, ChainInit(p, out, network, force)
    PROVE  FilesInv'
<1> DEFINE lose == force /\ ledgers[out] # None
           write == Pending(out, Fresh(network), lose)
<1>1. running' = [running EXCEPT ![p] = write] /\ ledgers' = ledgers
  BY DEF ChainInit
<1>2. ledgers[out] = None \/ lose
  BY DEF ChainInit
<1>3. IsPending(write) /\ write.out = out /\ write.content = Fresh(network)
      /\ write.mayLose = lose
  BY PendingFields
<1> HIDE DEF write
<1>4. SafeWrite(write, ledgers)
  BY <1>2, <1>3, FreshIsSound DEF SafeWrite, Extends
<1> QED
  BY <1>1, <1>4, BeginKeeps

LEMMA BlockAddKeeps ==
    ASSUME FilesInv, NEW p \in Operators, NEW l \in Ledgers, NEW out \in Ledgers,
           NEW force \in BOOLEAN, BlockAdd(p, l, out, force)
    PROVE  FilesInv'
<1> DEFINE lose == force /\ ledgers[out] # None /\ out # l
           new == [ledgers[l] EXCEPT !.chain = Append(@, blockFile)]
           write == Pending(out, new, lose)
<1>1. running' = [running EXCEPT ![p] = write] /\ ledgers' = ledgers
  BY DEF BlockAdd
<1>2. Sound(ledgers[l]) /\ Accepts(ledgers[l], blockFile)
  BY DEF BlockAdd, FilesInv
<1>3. Sound(new) /\ Extends(new, ledgers[l])
  BY <1>2, AddedBlock
<1>4. ledgers[out] = None \/ lose \/ out = l
  BY DEF BlockAdd
<1>5. IsPending(write) /\ write.out = out /\ write.content = new /\ write.mayLose = lose
  BY PendingFields
<1> HIDE DEF write, new
<1>6. SafeWrite(write, ledgers)
  BY <1>3, <1>4, <1>5 DEF SafeWrite, Extends
<1> QED
  BY <1>1, <1>6, BeginKeeps

(* What Save puts in place, and what other pending writes know of it.      *)
LEMMA SaveKeeps ==
    ASSUME FilesInv, NEW p \in Operators, Save(p)
    PROVE  FilesInv'
<1> DEFINE w == running[p]
<1>1. ~Idle(p) /\ SafeWrite(w, ledgers)
  BY DEF Save, FilesInv
<1>2. ledgers' = [l \in Ledgers |-> IF l = w.out THEN w.content ELSE ledgers[l]]
  BY DEF Save, FilesInv
<1>3. running' = [q \in Operators |->
           IF q = p THEN None ELSE Overlapped(running[q], w.out)]
  BY DEF Save
<1> HIDE DEF w
<1>4. ASSUME NEW l \in Ledgers, ledgers'[l] # None PROVE Sound(ledgers[l])'
  BY <1>1, <1>2, <1>4 DEF SafeWrite, FilesInv
<1>5. ASSUME NEW q \in Operators, running'[q] # None PROVE SafeWrite(running[q], ledgers)'
  <2> DEFINE v == running[q]
  <2>1. q # p /\ running'[q] = Overlapped(v, w.out)
    BY <1>3, <1>5
  <2>2. v # None
    BY <1>5, <2>1 DEF Overlapped
  <2>3. SafeWrite(v, ledgers)
    BY <2>2 DEF FilesInv, Idle
  <2> HIDE DEF v
  <2>4. CASE v.out = w.out
    <3>1. running'[q] = [v EXCEPT !.mayLose = TRUE]
      BY <2>1, <2>2, <2>4 DEF Overlapped
    <3>2. v = Pending(v.out, v.content, v.mayLose)
      BY <2>3 DEF SafeWrite, IsPending
    <3>3. ASSUME NEW a, NEW b, NEW c
          PROVE  [Pending(a, b, c) EXCEPT !.mayLose = TRUE] = Pending(a, b, TRUE)
      <4> DEFINE new == [Pending(a, b, c) EXCEPT !.mayLose = TRUE]
      <4>1. DOMAIN new = {"out", "content", "mayLose"}
        BY DEF Pending
      <4>2. new.out = a /\ new.content = b /\ new.mayLose = TRUE
        BY DEF Pending
      <4>3. new = [x \in {"out", "content", "mayLose"} |-> new[x]]
        BY <4>1
      <4> HIDE DEF new
      <4>4. new = [out |-> a, content |-> b, mayLose |-> TRUE]
        BY <4>2, <4>3
      <4> QED
        BY <4>4 DEF new, Pending
    <3>4. running'[q] = Pending(v.out, v.content, TRUE)
      <4>1. [v EXCEPT !.mayLose = TRUE]
                = [Pending(v.out, v.content, v.mayLose) EXCEPT !.mayLose = TRUE]
        BY <3>2
      <4> QED
        BY <3>1, <3>3, <4>1
    <3> DEFINE u == running'[q]
    <3>5. u = Pending(v.out, v.content, TRUE)
      BY <3>4
    <3> HIDE DEF u
    <3>6. u.out = v.out /\ u.content = v.content /\ u.mayLose
      BY <3>5, Zenon DEF Pending
    <3>7. u.mayLose = TRUE
      BY <3>5, Zenon DEF Pending
    <3>8. IsPending(u)
      BY <3>5, <3>6, <3>7, Zenon DEF IsPending
    <3> QED
      BY <2>3, <3>6, <3>8 DEF SafeWrite, u
  <2>5. CASE v.out # w.out
    <3>1. running'[q] = v
      BY <2>1, <2>5 DEF Overlapped
    <3>2. ledgers'[v.out] = ledgers[v.out]
      BY <1>2, <2>3, <2>5 DEF SafeWrite
    <3> QED
      BY <2>3, <3>1, <3>2 DEF SafeWrite
  <2> QED
    BY <2>4, <2>5
<1> QED
  BY <1>2, <1>3, <1>4, <1>5 DEF FilesInv, Idle

LEMMA FilesStep == FilesInv /\ [Next]_vars => FilesInv'
<1> SUFFICES ASSUME FilesInv, [Next]_vars PROVE FilesInv'
  OBVIOUS
<1>1. ASSUME NEW p \in Operators, NEW out \in Ledgers, NEW n \in Networks, NEW force \in BOOLEAN,
             ChainInit(p, out, n, force)
      PROVE  FilesInv'
  BY <1>1, ChainInitKeeps
<1>2. ASSUME NEW p \in Operators, NEW l \in Ledgers, NEW out \in Ledgers, NEW force \in BOOLEAN,
             BlockAdd(p, l, out, force)
      PROVE  FilesInv'
  BY <1>2, BlockAddKeeps
<1>3. ASSUME NEW p \in Operators, Save(p) PROVE FilesInv'
  BY <1>3, SaveKeeps
<1>4. ASSUME NEW p \in Operators, Interrupted(p) PROVE FilesInv'
  <2>1. /\ running' = [q \in Operators |-> IF q = p THEN None ELSE running[q]]
        /\ ledgers' = ledgers
    BY <1>4 DEF Interrupted, FilesInv
  <2> QED
    BY <2>1 DEF FilesInv, Idle, SafeWrite
<1>5. ASSUME UNCHANGED <<ledgers, running>> PROVE FilesInv'
  BY <1>5 DEF FilesInv, Idle, SafeWrite
<1>6. ASSUME NEW l \in Ledgers, NEW tx, BlockMine(l, tx) PROVE FilesInv'
  BY <1>5, <1>6 DEF BlockMine
<1>7. ASSUME NEW l \in Ledgers, NEW c, NEW key, NEW h, GovernanceRegister(l, c, key, h)
      PROVE  FilesInv'
  BY <1>5, <1>7 DEF GovernanceRegister, WriteTx
<1>8. ASSUME NEW l \in Ledgers, NEW c, NEW key, NEW new, NEW h, GovernanceRotate(l, c, key, new, h)
      PROVE  FilesInv'
  BY <1>5, <1>8 DEF GovernanceRotate, WriteTx
<1>9. ASSUME NEW l \in Ledgers, NEW c, NEW key, NEW h, GovernanceRevoke(l, c, key, h)
      PROVE  FilesInv'
  BY <1>5, <1>9 DEF GovernanceRevoke, WriteTx
<1>10. CASE UNCHANGED vars
  BY <1>5, <1>10 DEF vars
<1> QED
  BY <1>1, <1>2, <1>3, <1>4, <1>6, <1>7, <1>8, <1>9, <1>10 DEF Next

(* Every ledger file passes `chain verify`: each of its blocks follows the *)
(* one before and carries a transaction that applied there, whatever was   *)
(* offered to `block add` and whatever commands overlapped.                *)
THEOREM SavedLedgersVerify == Spec => []LedgersVerify
<1>1. FilesInv => LedgersVerify
  BY DEF FilesInv, Sound, LedgersVerify
<1> QED
  BY <1>1, FilesInit, FilesStep, PTL DEF Spec

-----------------------------------------------------------------------------
(* Only Save writes a ledger file, and only the one of its command.        *)
LEMMA Written ==
    ASSUME FilesInv, [Next]_vars, NEW l \in Ledgers, ledgers'[l] # ledgers[l]
    PROVE  \E p \in Operators :
              /\ ~Idle(p) /\ Idle(p)' /\ SafeWrite(running[p], ledgers)
              /\ running[p].out = l /\ ledgers'[l] = running[p].content
<1>1. ledgers' # ledgers
  OBVIOUS
<1>2. PICK p \in Operators : Save(p)
  BY <1>1 DEF Next, ChainInit, BlockAdd, Interrupted, BlockMine, GovernanceRegister,
              GovernanceRotate, GovernanceRevoke, WriteTx, vars
<1>3. ~Idle(p) /\ SafeWrite(running[p], ledgers)
  BY <1>2 DEF Save, FilesInv
<1>4. ledgers' = [k \in Ledgers |-> IF k = running[p].out THEN running[p].content ELSE ledgers[k]]
  BY <1>2 DEF Save, FilesInv
<1>5. Idle(p)'
  BY <1>2 DEF Save, Idle
<1>6. running[p].out = l /\ ledgers'[l] = running[p].content
  BY <1>4
<1> QED
  BY <1>3, <1>5, <1>6

(* A ledger file loses blocks only to a command that was forced, or that   *)
(* another one overlapped between its look at the file and its write.      *)
THEOREM BlocksStay == Spec => BlocksKeptUnlessOverlapped
<1> DEFINE Kept(l) ==
        ~Extends(ledgers'[l], ledgers[l]) =>
            \E p \in Operators :
                /\ ~Idle(p) /\ Idle(p)'
                /\ running[p].out = l
                /\ running[p].mayLose
<1>1. ASSUME FilesInv, [Next]_vars, NEW l \in Ledgers PROVE Kept(l)
  <2>1. CASE ledgers'[l] = ledgers[l]
    <3>1. ledgers[l] = None \/ Sound(ledgers[l])
      BY <1>1 DEF FilesInv
    <3>2. Sound(ledgers[l]) => Height(ledgers[l]) \in Nat
      BY LenProperties DEF Sound, IsLedger, Height
    <3> QED
      BY <2>1, <3>1, <3>2 DEF Extends, KeepsUpto
  <2>2. CASE ledgers'[l] # ledgers[l]
    <3>1. PICK p \in Operators :
              /\ ~Idle(p) /\ Idle(p)' /\ SafeWrite(running[p], ledgers)
              /\ running[p].out = l /\ ledgers'[l] = running[p].content
      BY <1>1, <2>2, Written
    <3> QED
      BY <3>1 DEF SafeWrite
  <2> QED
    BY <2>1, <2>2
<1>2. FilesInv /\ [Next]_vars => [\A l \in Ledgers : Kept(l)]_vars
  BY <1>1
<1> QED
  BY <1>2, FilesInit, FilesStep, PTL DEF Spec, BlocksKeptUnlessOverlapped

(* What can be attested for a height can be verified after the file has    *)
(* changed, as long as it has the blocks up to that height.  None stands   *)
(* for a file that is not there, and so is no ledger.                      *)
THEOREM AttestationsLast ==
    ASSUME \A led : IsLedger(led) => led # None
    PROVE  Spec => AttestationLasts
<1> DEFINE Att(c, key, h) == [curator |-> c, key |-> key, height |-> h]
           Lasts(l, c, key, h) ==
               AttestCreates(l, c, key, h) /\ KeepsUpto(ledgers'[l], ledgers[l], h)
                   => AttestVerifies(l, Att(c, key, h), h)'
<1>1. ASSUME FilesInv, [Next]_vars, NEW l \in Ledgers, ledgers'[l] # ledgers[l],
             NEW c, NEW key, NEW h \in 0 .. MaxHeight,
             AttestCreates(l, c, key, h), KeepsUpto(ledgers'[l], ledgers[l], h)
      PROVE  AttestVerifies(l, Att(c, key, h), h)'
  <2> DEFINE old == ledgers[l]
  <2> PICK new : new = ledgers'[l]
    OBVIOUS
  <2>1. Sound(old) /\ h \in 0 .. Height(old) /\ ValidAt(old, c, key, h)
    BY <1>1 DEF AttestCreates, FilesInv
  <2>2. Sound(new)
    BY <1>1, Written DEF SafeWrite
  <2>3. /\ new.network = old.network /\ h <= Height(new)
        /\ SubSeq(new.chain, 1, h) = SubSeq(old.chain, 1, h)
    BY <1>1 DEF KeepsUpto
  <2>4. Height(new) \in Nat /\ Height(old) \in Nat /\ h \in Nat /\ h \in 0 .. Height(new)
    BY <2>1, <2>2, <2>3, LenProperties DEF Sound, IsLedger, Height
  <2>5. ASSUME NEW i \in 1 .. h PROVE new.chain[i] = old.chain[i]
    <3>1. SubSeq(new.chain, 1, h)[i] = new.chain[i]
      BY <2>4
    <3>2. SubSeq(old.chain, 1, h)[i] = old.chain[i]
      BY <2>4
    <3> QED
      BY <2>3, <3>1, <3>2
  <2> HIDE DEF old
  <2>6. ValidAt(new, c, key, h)
    BY <2>1, <2>3, <2>4, <2>5, SameBodies
  <2>7. Loads(new)
    BY <2>2 DEF Sound, Verifies, Loads
  <2>8. new # None
    BY <2>2 DEF Sound
  <2>9. /\ Att(c, key, h).height = h /\ Att(c, key, h).curator = c /\ Att(c, key, h).key = key
    OBVIOUS
  <2> HIDE DEF Att
  <2> QED
    BY <2>4, <2>6, <2>7, <2>8, <2>9 DEF AttestVerifies
<1>2. FilesInv /\ [Next]_vars =>
          [\A l \in Ledgers : ledgers'[l] # ledgers[l] =>
              \A c \in Curators, key \in Keys, h \in 0 .. MaxHeight : Lasts(l, c, key, h)]_ledgers
  BY <1>1
<1> QED
  BY <1>2, FilesInit, FilesStep, PTL DEF Spec, AttestationLasts

-----------------------------------------------------------------------------
(* What the governance commands ask of a registry before they sign, and    *)
(* that it holds of the registry the signed transaction names.             *)
SignedFor(rs, h, body) ==
    \/ body.action = "register" /\ RegisterBody(rs, h, body.curator, body.key)
    \/ body.action = "rotate" /\ RotateBody(rs, h, body.curator, body.key, body.new)
    \/ body.action = "revoke" /\ RevokeBody(rs, h, body.curator, body.key, body.height)

SignedTx(tx) ==
    tx.body # None =>
        /\ tx.network = Alpha
        /\ \E h : SignedFor(Replayed(tx.root[2]), h, tx.body)
        /\ tx.body.action \in {"register", "revoke"} =>
              tx.body.new = None /\ tx.body.key \in Keys

SignedInv == SignedTx(txFile)

(* The records of a curator are those of the state, whatever the height.   *)
LEMMA HeightIrrelevant ==
    ASSUME NEW rs, NEW g, NEW h, NEW c, NEW key
    PROVE  /\ R(rs, g)!Latest(c) = R(rs, h)!Latest(c)
           /\ R(rs, g)!KeyUsedBy(c, key) <=> R(rs, h)!KeyUsedBy(c, key)
           /\ R(rs, g)!Never = R(rs, h)!Never
<1>1. R(rs, g)!Latest(c) = R(rs, h)!Latest(c)
  BY DEF R!Latest
<1>2. R(rs, g)!KeyUsedBy(c, key) <=> R(rs, h)!KeyUsedBy(c, key)
  BY DEF R!KeyUsedBy, R!RecordsOf
<1>3. R(rs, g)!Never = R(rs, h)!Never
  BY DEF R!Never
<1> QED
  BY <1>1, <1>2, <1>3

(* The reducer asks nothing of a transaction that the command that signed  *)
(* it did not: but for the height, which the ledger must not have passed,  *)
(* and a rotation to the key the curator has.                              *)
LEMMA SignedApplies ==
    ASSUME NEW led, NEW tx, SignedTx(tx), StillCurrent(tx, led), tx.body.new # tx.body.key,
           led.network = Alpha
    PROVE  AppliesAt(led, Height(led), tx)
<1> DEFINE rs == State(led)
           g == Height(led)
           body == tx.body
<1>1. /\ tx.network = led.network /\ tx.root = RootAt(led, g)
      /\ body.height \in g + 1 + 1 .. MaxActivation
  BY DEF SignedTx, StillCurrent, Root, FutureHeights, Candidate
<1>2. PICK h : SignedFor(rs, h, body)
  <2>1. tx.root[2] = Applied(Bodies(led, g))
    BY <1>1 DEF RootAt
  <2> QED
    BY <2>1 DEF SignedTx, StillCurrent, State, StateAt
<1>3. rs = StateAt(led, g)
  BY DEF State
<1> HIDE DEF rs, g, body
<1>4. body.height \in R(rs, g)!Future
  BY <1>1 DEF R!Future, R!BlockHeight
<1>5. CASE body.action = "register" /\ RegisterBody(rs, h, body.curator, body.key)
  <2>1. R(rs, g)!Registrable(body.curator, body.key, body.height)
    BY <1>4, <1>5, HeightIrrelevant DEF RegisterBody, UsedBy, R!Registrable
  <2> QED
    BY <1>1, <1>3, <1>5, <2>1 DEF AppliesAt, body, g
<1>6. ASSUME ActiveCuratorKey(rs, h, body.curator, body.key)
      PROVE  /\ SignedByCurator(rs, g, body)
             /\ R(rs, g)!Latest(body.curator).revocation = R(rs, g)!Never
  BY <1>6, HeightIrrelevant DEF ActiveCuratorKey, SignedByCurator
<1>7. CASE body.action = "rotate" /\ RotateBody(rs, h, body.curator, body.key, body.new)
  <2>1. SignedByCurator(rs, g, body)
    BY <1>6, <1>7 DEF RotateBody
  <2>2. R(rs, g)!Rotatable(body.curator, body.new, body.height)
    BY <1>4, <1>7, <2>1, HeightIrrelevant
       DEF RotateBody, UsedBy, SignedByCurator, R!Rotatable, body
  <2> QED
    BY <1>1, <1>3, <1>7, <2>1, <2>2 DEF AppliesAt, body, g
<1>8. CASE body.action = "revoke" /\ RevokeBody(rs, h, body.curator, body.key, body.height)
  <2>1. SignedByCurator(rs, g, body) /\ R(rs, g)!Latest(body.curator).revocation = R(rs, g)!Never
    BY <1>6, <1>8 DEF RevokeBody
  <2>2. R(rs, g)!Revocable(body.curator, body.height)
    BY <1>4, <1>8, <2>1, HeightIrrelevant DEF RevokeBody, SignedByCurator, R!Revocable
  <2> QED
    BY <1>1, <1>3, <1>8, <2>1, <2>2 DEF AppliesAt, body, g
<1> QED
  BY <1>2, <1>5, <1>7, <1>8 DEF SignedFor

(* Only a governance command writes the transaction file.                  *)
LEMMA WriteTxKeeps ==
    ASSUME NEW led, NEW body, NEW h, SignedFor(State(led), h, body), WriteTx(led, body),
           body.action \in {"register", "revoke"} => body.new = None /\ body.key \in Keys
    PROVE  SignedInv'
<1>1. PICK tx : tx = [network |-> Alpha, root |-> Root(led), body |-> body] /\ txFile' = tx
  BY DEF WriteTx
<1>2. tx.network = Alpha /\ tx.body = body /\ Replayed(tx.root[2]) = State(led)
  BY <1>1 DEF Root, RootAt, State, StateAt
<1>3. SignedTx(tx)
  BY <1>2 DEF SignedTx
<1> QED
  BY <1>1, <1>3 DEF SignedInv

LEMMA SignedStep == SignedInv /\ [Next]_vars => SignedInv'
<1> SUFFICES ASSUME SignedInv, [Next]_vars PROVE SignedInv'
  OBVIOUS
<1>1. ASSUME NEW action, NEW c, NEW key, NEW new, NEW height,
             NEW body, body = Body(action, c, key, new, height)
      PROVE  /\ body.action = action /\ body.curator = c /\ body.key = key
             /\ body.new = new /\ body.height = height
  BY <1>1 DEF Body
<1>2. CASE UNCHANGED txFile
  BY <1>2 DEF SignedInv
<1>3. ASSUME NEW l \in Ledgers, NEW c \in Curators, NEW key \in Keys, NEW h \in Heights,
             GovernanceRegister(l, c, key, h)
      PROVE  SignedInv'
  <2> DEFINE body == Body("register", c, key, None, h)
  <2>1. /\ body.action = "register" /\ body.curator = c /\ body.key = key
        /\ body.new = None
    BY <1>1
  <2> HIDE DEF body
  <2>2. SignedFor(State(ledgers[l]), Height(ledgers[l]), body)
    BY <1>3, <2>1 DEF GovernanceRegister, SignedFor
  <2>3. WriteTx(ledgers[l], body)
    BY <1>3 DEF GovernanceRegister, body
  <2> QED
    BY <2>1, <2>2, <2>3, WriteTxKeeps
<1>4. ASSUME NEW l \in Ledgers, NEW c \in Curators, NEW key \in Keys, NEW new \in Keys,
             NEW h \in Heights, GovernanceRotate(l, c, key, new, h)
      PROVE  SignedInv'
  <2> DEFINE body == Body("rotate", c, key, new, h)
  <2>1. body.action = "rotate" /\ body.curator = c /\ body.key = key /\ body.new = new
    BY <1>1
  <2> HIDE DEF body
  <2>2. SignedFor(State(ledgers[l]), Height(ledgers[l]), body)
    BY <1>4, <2>1 DEF GovernanceRotate, SignedFor
  <2>3. WriteTx(ledgers[l], body)
    BY <1>4 DEF GovernanceRotate, body
  <2> QED
    BY <2>1, <2>2, <2>3, WriteTxKeeps
<1>5. ASSUME NEW l \in Ledgers, NEW c \in Curators, NEW key \in Keys, NEW h \in Heights,
             GovernanceRevoke(l, c, key, h)
      PROVE  SignedInv'
  <2> DEFINE body == Body("revoke", c, key, None, h)
  <2>1. /\ body.action = "revoke" /\ body.curator = c /\ body.key = key /\ body.height = h
        /\ body.new = None
    BY <1>1
  <2> HIDE DEF body
  <2>2. SignedFor(State(ledgers[l]), Height(ledgers[l]), body)
    BY <1>5, <2>1 DEF GovernanceRevoke, SignedFor
  <2>3. WriteTx(ledgers[l], body)
    BY <1>5 DEF GovernanceRevoke, body
  <2> QED
    BY <2>1, <2>2, <2>3, WriteTxKeeps
<1> QED
  BY <1>2, <1>3, <1>4, <1>5
     DEF Next, vars, ChainInit, BlockAdd, Save, Interrupted, BlockMine

(* The verdict of the consensus rules on what the command line signed: the *)
(* transaction applies on an alpha ledger, unless it rotates a curator to  *)
(* the key it has, and on no ledger of another network.                    *)
THEOREM SignedVerdictHolds == Spec => []SignedVerdict
<1>1. Init => SignedInv
  BY DEF Init, SignedInv, SignedTx, NoTransaction
<1>2. SignedInv => SignedVerdict
  <2> SUFFICES ASSUME SignedInv, NEW l \in Ledgers, StillCurrent(txFile, ledgers[l])
               PROVE  AppliesAt(ledgers[l], Height(ledgers[l]), txFile) <=>
                          /\ ledgers[l].network = Alpha
                          /\ txFile.body.new # txFile.body.key
    BY DEF SignedVerdict
  <2> DEFINE led == ledgers[l]
             body == txFile.body
  <2>1. txFile.network = Alpha /\ body # None
    BY DEF SignedInv, SignedTx, StillCurrent
  <2>2. ASSUME AppliesAt(led, Height(led), txFile)
        PROVE  led.network = Alpha /\ body.new # body.key
    <3>1. led.network = Alpha
      BY <2>1, <2>2 DEF AppliesAt
    <3>2. body.action \in {"register", "revoke"} \/
              /\ body.action = "rotate"
              /\ SignedByCurator(State(led), Height(led), body)
              /\ R(State(led), Height(led))!Rotatable(body.curator, body.new, body.height)
      BY <2>1, <2>2 DEF AppliesAt, State
    <3>3. body.action \in {"register", "revoke"} => body.new = None /\ body.key \in Keys
      BY <2>1 DEF SignedInv, SignedTx
    <3> QED
      BY <3>1, <3>2, <3>3, CliAssumption DEF SignedByCurator, R!Rotatable
  <2>3. ASSUME led.network = Alpha, body.new # body.key
        PROVE  AppliesAt(led, Height(led), txFile)
    BY <2>3, SignedApplies DEF SignedInv
  <2> QED
    BY <2>2, <2>3
<1> QED
  BY <1>1, <1>2, SignedStep, PTL DEF Spec
=============================================================================

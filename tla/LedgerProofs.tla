---------------------------- MODULE LedgerProofs ----------------------------
(***************************************************************************)
(* Lemmas about the consensus rules, for every retargeting rule and every  *)
(* chain.  Those about validity rest on one fact: what the rules say of a  *)
(* height depends on the blocks below that height only, so appending a     *)
(* block leaves the validity of the blocks below it alone.  Those about    *)
(* work rest on what the sum over a finite set is, which is proved first.  *)
(***************************************************************************)
EXTENDS Ledger, SequenceTheorems, FiniteSetTheorems, NaturalsInduction, TLAPS

(* Induction over the subsets of a finite set: a set of bad subsets that is  *)
(* not empty has a smallest member.                                          *)
LEMMA Smallest ==
    ASSUME NEW S, IsFiniteSet(S), NEW Bad \in SUBSET (SUBSET S), Bad # {}
    PROVE  \E s \in Bad : \A t \in SUBSET s : t # s => t \notin Bad
<1>1. FiniteSubsetsOf(S) = SUBSET S
  BY FS_FiniteSubsetsOfFinite
<1>2. IsWellFoundedOn(StrictSubsetOrdering(S), SUBSET S)
  BY <1>1, FS_StrictSubsetOrderingWellFounded
<1>3. PICK s \in Bad : \A t \in Bad : ~(<<t, s>> \in StrictSubsetOrdering(S))
  BY <1>2, WFMin
<1>4. ASSUME NEW t \in SUBSET s, t # s PROVE t \notin Bad
  <2>1. s \in SUBSET S /\ t \in SUBSET S
    OBVIOUS
  <2>2. <<t, s>> \in StrictSubsetOrdering(S)
    BY <1>4, <2>1 DEF StrictSubsetOrdering
  <2> QED BY <1>3, <2>2
<1> QED BY <1>4

-----------------------------------------------------------------------------
(* SumFunctionOnSet takes one element after another out of the set.          *)
AnyOf(s) == CHOOSE x \in s : TRUE
SumStep(f, S, g) ==
    g = [s \in SUBSET S |-> IF s = {} THEN 0 ELSE f[AnyOf(s)] + g[s \ {AnyOf(s)}]]
SumTable(f, S) == CHOOSE g : SumStep(f, S, g)

LEMMA SumIsTable ==
    ASSUME NEW f, NEW S
    PROVE  SumFunctionOnSet(f, S) = SumTable(f, S)[S]
BY DEF SumFunctionOnSet, FoldFunctionOnSet, MapThenFoldSet, SumTable, SumStep, AnyOf

LEMMA AnyOfIn == ASSUME NEW s, s # {} PROVE AnyOf(s) \in s
BY DEF AnyOf

LEMMA SumStepAt ==
    ASSUME NEW f, NEW S, NEW g, SumStep(f, S, g)
    PROVE  \A s \in SUBSET S :
               g[s] = IF s = {} THEN 0 ELSE f[AnyOf(s)] + g[s \ {AnyOf(s)}]
<1> DEFINE h == [t \in SUBSET S |-> IF t = {} THEN 0 ELSE f[AnyOf(t)] + g[t \ {AnyOf(t)}]]
<1>1. \A s \in SUBSET S : h[s] = IF s = {} THEN 0 ELSE f[AnyOf(s)] + g[s \ {AnyOf(s)}]
  OBVIOUS
<1>2. g = h
  BY DEF SumStep
<1> HIDE DEF h
<1> QED BY <1>1, <1>2

SumsUp(f, S, g) ==
    \A s \in SUBSET S : s # {} => g[s] = f[AnyOf(s)] + g[s \ {AnyOf(s)}]

LEMMA SumStepSums ==
    ASSUME NEW f, NEW S, NEW g, SumStep(f, S, g) PROVE SumsUp(f, S, g)
BY SumStepAt DEF SumsUp

(* Two tables agree where they both are defined.                             *)
LEMMA SumTablesAgree ==
    ASSUME NEW f, NEW S, IsFiniteSet(S), NEW T \in SUBSET S,
           NEW g, SumStep(f, S, g), NEW h, SumStep(f, T, h)
    PROVE  \A s \in SUBSET T : g[s] = h[s]
<1>a. SumsUp(f, S, g) /\ SumsUp(f, T, h)
  BY SumStepSums
<1> DEFINE Bad == {s \in SUBSET T : g[s] # h[s]}
<1> SUFFICES ASSUME Bad # {} PROVE FALSE
  OBVIOUS
<1>1. IsFiniteSet(T)
  BY FS_Subset
<1>2. Bad \in SUBSET (SUBSET T)
  OBVIOUS
<1>3. PICK s \in Bad : \A t \in SUBSET s : t # s => t \notin Bad
  <2> HIDE DEF Bad
  <2> QED BY <1>1, <1>2, Smallest
<1>4. s \in SUBSET T /\ s \in SUBSET S /\ g[s] # h[s]
  OBVIOUS
<1>5. s # {}
  <2> SUFFICES ASSUME s = {} PROVE FALSE
    OBVIOUS
  <2>1. g[s] = 0 /\ h[s] = 0
    BY <1>4, SumStepAt
  <2> QED BY <1>4, <2>1
<1> DEFINE t == s \ {AnyOf(s)}
<1>6. t \in SUBSET s /\ t # s /\ t \in SUBSET T
  BY <1>4, <1>5, AnyOfIn
<1>7. t \notin Bad
  BY <1>3, <1>6
<1>8. g[t] = h[t]
  BY <1>6, <1>7
<1> HIDE DEF Bad
<1>9. g[s] = f[AnyOf(s)] + g[t] /\ h[s] = f[AnyOf(s)] + h[t]
  BY <1>a, <1>4, <1>5 DEF SumsUp
<1> HIDE DEF t
<1> QED BY <1>4, <1>8, <1>9

LEMMA SumTableExists ==
    ASSUME NEW f, NEW S, IsFiniteSet(S)
    PROVE  SumStep(f, S, SumTable(f, S))
<1> DEFINE Bad == {s \in SUBSET S : ~ \E g : SumStep(f, s, g)}
<1>1. Bad = {}
  <2> SUFFICES ASSUME Bad # {} PROVE FALSE
    OBVIOUS
  <2>1. Bad \in SUBSET (SUBSET S)
    OBVIOUS
  <2>2. PICK s \in Bad : \A t \in SUBSET s : t # s => t \notin Bad
    <3> HIDE DEF Bad
    <3> QED BY <2>1, Smallest
  <2>3. s \in SUBSET S /\ ~ \E g : SumStep(f, s, g)
    OBVIOUS
  <2>4. ASSUME NEW t \in SUBSET s, t # s
        PROVE  SumStep(f, t, SumTable(f, t)) /\ IsFiniteSet(t)
    <3>1. t \in SUBSET S /\ t \notin Bad
      BY <2>2, <2>3, <2>4
    <3>2. \E g : SumStep(f, t, g)
      BY <3>1
    <3>3. IsFiniteSet(t)
      BY <3>1, FS_Subset
    <3> QED BY <3>2, <3>3 DEF SumTable
  <2> DEFINE Rest(u) == u \ {AnyOf(u)}
             G == [u \in SUBSET s |->
                     IF u = {} THEN 0 ELSE f[AnyOf(u)] + SumTable(f, Rest(u))[Rest(u)]]
  <2>5. ASSUME NEW u \in SUBSET s, u # {}
        PROVE  G[Rest(u)] = SumTable(f, Rest(u))[Rest(u)]
    <3> DEFINE v == Rest(u)
               w == Rest(v)
               h == SumTable(f, v)
    <3>1. v \in SUBSET s /\ v # s /\ v \in SUBSET v
      BY <2>5, AnyOfIn
    <3>2. SumStep(f, v, h) /\ IsFiniteSet(v)
      <4> HIDE DEF v
      <4> QED BY <2>4, <3>1
    <3>3. G[v] = IF v = {} THEN 0 ELSE f[AnyOf(v)] + SumTable(f, w)[w]
      <4> HIDE DEF v
      <4> QED BY <3>1
    <3>4. h[v] = IF v = {} THEN 0 ELSE f[AnyOf(v)] + h[w]
      <4> HIDE DEF v, h
      <4> QED BY <3>1, <3>2, SumStepAt
    <3>5. CASE v = {}
      BY <3>3, <3>4, <3>5
    <3>6. CASE v # {}
      <4>1. w \in SUBSET s /\ w # s /\ w \in SUBSET v /\ w \in SUBSET w
        <5> HIDE DEF v
        <5> QED BY <3>1, <3>6, AnyOfIn
      <4>2. SumStep(f, w, SumTable(f, w))
        <5> HIDE DEF w
        <5> QED BY <2>4, <4>1
      <4>3. h[w] = SumTable(f, w)[w]
        <5> HIDE DEF v, w, h
        <5> QED BY <3>2, <4>1, <4>2, SumTablesAgree
      <4> HIDE DEF v, w, h, G
      <4>4. G[v] = h[v]
        BY <3>3, <3>4, <3>6, <4>3
      <4> QED BY <4>4 DEF v, h
    <3> QED BY <3>5, <3>6
  <2>6. SumStep(f, s, G)
    <3>1. G = [u \in SUBSET s |-> IF u = {} THEN 0 ELSE f[AnyOf(u)] + G[u \ {AnyOf(u)}]]
      <4> DEFINE H == [u \in SUBSET s |-> IF u = {} THEN 0 ELSE f[AnyOf(u)] + G[Rest(u)]]
      <4>1. ASSUME NEW u \in SUBSET s PROVE G[u] = H[u]
        <5>1. G[u] = IF u = {} THEN 0 ELSE f[AnyOf(u)] + SumTable(f, Rest(u))[Rest(u)]
          OBVIOUS
        <5>2. H[u] = IF u = {} THEN 0 ELSE f[AnyOf(u)] + G[Rest(u)]
          <6> HIDE DEF G, Rest
          <6> QED OBVIOUS
        <5> HIDE DEF G, H, Rest
        <5> QED BY <2>5, <5>1, <5>2
      <4>2. G = [u \in SUBSET s |-> G[u]]
        OBVIOUS
      <4>3. H = [u \in SUBSET s |-> H[u]]
        <5> HIDE DEF G
        <5> QED OBVIOUS
      <4>4. G = H
        <5> HIDE DEF G, H
        <5> QED BY <4>1, <4>2, <4>3
      <4> HIDE DEF G
      <4> QED BY <4>4 DEF H, Rest
    <3> HIDE DEF G
    <3> QED BY <3>1 DEF SumStep
  <2> QED BY <2>3, <2>6
<1>2. \E g : SumStep(f, S, g)
  BY <1>1
<1> QED BY <1>2 DEF SumTable

LEMMA SumEmpty == ASSUME NEW f PROVE SumFunctionOnSet(f, {}) = 0
<1>1. SumStep(f, {}, SumTable(f, {}))
  BY FS_EmptySet, SumTableExists
<1>2. SumTable(f, {})[{}] = 0
  BY <1>1, SumStepAt
<1> QED BY <1>2, SumIsTable

LEMMA SumTake ==
    ASSUME NEW f, NEW S, IsFiniteSet(S), S # {}
    PROVE  SumFunctionOnSet(f, S) = f[AnyOf(S)] + SumFunctionOnSet(f, S \ {AnyOf(S)})
<1> DEFINE T == S \ {AnyOf(S)}
<1>1. T \in SUBSET S /\ S \in SUBSET S /\ T \in SUBSET T
  OBVIOUS
<1>2. IsFiniteSet(T)
  BY <1>1, FS_Subset
<1>3. SumStep(f, S, SumTable(f, S)) /\ SumStep(f, T, SumTable(f, T))
  BY <1>2, SumTableExists
<1>4. SumTable(f, S)[S] = f[AnyOf(S)] + SumTable(f, S)[T]
  BY <1>1, <1>3, SumStepAt
<1>5. SumTable(f, S)[T] = SumTable(f, T)[T]
  <2> HIDE DEF T
  <2> QED BY <1>1, <1>3, SumTablesAgree
<1> HIDE DEF T
<1>6. SumFunctionOnSet(f, S) = f[AnyOf(S)] + SumFunctionOnSet(f, T)
  BY <1>4, <1>5, SumIsTable
<1> QED BY <1>6 DEF T

-----------------------------------------------------------------------------
(* A sum of naturals is a natural.                                           *)
LEMMA SumNat ==
    ASSUME NEW f, NEW S, IsFiniteSet(S), \A x \in S : f[x] \in Nat
    PROVE  SumFunctionOnSet(f, S) \in Nat
<1> DEFINE Bad == {s \in SUBSET S : SumFunctionOnSet(f, s) \notin Nat}
<1> SUFFICES ASSUME Bad # {} PROVE FALSE
  OBVIOUS
<1>1. Bad \in SUBSET (SUBSET S)
  OBVIOUS
<1>2. PICK s \in Bad : \A t \in SUBSET s : t # s => t \notin Bad
  <2> HIDE DEF Bad
  <2> QED BY <1>1, Smallest
<1>3. s \in SUBSET S /\ SumFunctionOnSet(f, s) \notin Nat
  OBVIOUS
<1>4. IsFiniteSet(s) /\ s # {}
  <2>1. IsFiniteSet(s)
    BY <1>3, FS_Subset
  <2>2. SumFunctionOnSet(f, {}) \in Nat
    BY SumEmpty
  <2> QED BY <1>3, <2>1, <2>2
<1> DEFINE t == s \ {AnyOf(s)}
<1>5. t \in SUBSET s /\ t # s /\ t \in SUBSET S /\ AnyOf(s) \in S
  BY <1>3, <1>4, AnyOfIn
<1>6. SumFunctionOnSet(f, t) \in Nat
  BY <1>2, <1>5
<1>7. SumFunctionOnSet(f, s) = f[AnyOf(s)] + SumFunctionOnSet(f, t)
  BY <1>4, SumTake
<1> HIDE DEF t
<1> QED BY <1>3, <1>5, <1>6, <1>7

(* Functions that agree on a set have the same sum there.                    *)
LEMMA SumSame ==
    ASSUME NEW f, NEW g, NEW S, IsFiniteSet(S), \A x \in S : f[x] = g[x]
    PROVE  SumFunctionOnSet(f, S) = SumFunctionOnSet(g, S)
<1> DEFINE Bad == {s \in SUBSET S : SumFunctionOnSet(f, s) # SumFunctionOnSet(g, s)}
<1> SUFFICES ASSUME Bad # {} PROVE FALSE
  <2>1. S \in SUBSET S
    OBVIOUS
  <2> QED BY <2>1
<1>1. Bad \in SUBSET (SUBSET S)
  OBVIOUS
<1>2. PICK s \in Bad : \A t \in SUBSET s : t # s => t \notin Bad
  <2> HIDE DEF Bad
  <2> QED BY <1>1, Smallest
<1>3. s \in SUBSET S /\ SumFunctionOnSet(f, s) # SumFunctionOnSet(g, s)
  OBVIOUS
<1>4. IsFiniteSet(s) /\ s # {}
  <2>1. IsFiniteSet(s)
    BY <1>3, FS_Subset
  <2>2. SumFunctionOnSet(f, {}) = SumFunctionOnSet(g, {})
    BY SumEmpty
  <2> QED BY <1>3, <2>1, <2>2
<1> DEFINE t == s \ {AnyOf(s)}
<1>5. t \in SUBSET s /\ t # s /\ t \in SUBSET S /\ AnyOf(s) \in S
  BY <1>3, <1>4, AnyOfIn
<1>6. SumFunctionOnSet(f, t) = SumFunctionOnSet(g, t)
  BY <1>2, <1>5
<1>7. SumFunctionOnSet(f, s) = f[AnyOf(s)] + SumFunctionOnSet(f, t)
  BY <1>4, SumTake
<1>8. SumFunctionOnSet(g, s) = g[AnyOf(s)] + SumFunctionOnSet(g, t)
  BY <1>4, SumTake
<1> HIDE DEF t
<1> QED BY <1>3, <1>5, <1>6, <1>7, <1>8

(* The order in which the elements are taken does not matter: any one of     *)
(* them may come first.                                                      *)
LEMMA SumAdd ==
    ASSUME NEW f, NEW S, IsFiniteSet(S), NEW x, x \notin S,
           \A y \in S \cup {x} : f[y] \in Nat
    PROVE  SumFunctionOnSet(f, S \cup {x}) = f[x] + SumFunctionOnSet(f, S)
<1> DEFINE U == S \cup {x}
           Sum(s) == SumFunctionOnSet(f, s)
           Bad == {s \in SUBSET U : \E z \in U \ s : Sum(s \cup {z}) # f[z] + Sum(s)}
<1> SUFFICES ASSUME Bad # {} PROVE FALSE
  <2>1. S \in SUBSET U /\ x \in U \ S
    OBVIOUS
  <2>2. Bad = {} => Sum(S \cup {x}) = f[x] + Sum(S)
    <3> HIDE DEF Sum, U
    <3> QED BY <2>1
  <2> QED BY <2>2
<1>1. Bad \in SUBSET (SUBSET U) /\ IsFiniteSet(U)
  BY FS_AddElement
<1>2. PICK s \in Bad : \A t \in SUBSET s : t # s => t \notin Bad
  <2> HIDE DEF Bad, U
  <2> QED BY <1>1, Smallest
<1>3. s \in SUBSET U /\ \E z \in U \ s : Sum(s \cup {z}) # f[z] + Sum(s)
  <2> HIDE DEF Sum, U
  <2> QED OBVIOUS
<1>4. PICK z \in U \ s : Sum(s \cup {z}) # f[z] + Sum(s)
  BY <1>3
<1>5. ASSUME NEW t \in SUBSET s, t # s, NEW v \in U \ t
      PROVE  Sum(t \cup {v}) = f[v] + Sum(t)
  <2>1. t \notin Bad /\ t \in SUBSET U
    <3> HIDE DEF Bad, U, Sum
    <3> QED BY <1>2, <1>3, <1>5
  <2> HIDE DEF Sum, U
  <2> QED BY <1>5, <2>1
<1>6. \A v \in U : f[v] \in Nat
  OBVIOUS
<1>7. ASSUME NEW u \in SUBSET U PROVE IsFiniteSet(u) /\ Sum(u) \in Nat
  <2> HIDE DEF U
  <2>1. IsFiniteSet(u)
    BY <1>1, FS_Subset
  <2> QED BY <1>6, <2>1, SumNat
<1>8. ASSUME NEW u \in SUBSET U, u # {}
      PROVE  Sum(u) = f[AnyOf(u)] + Sum(u \ {AnyOf(u)}) /\ AnyOf(u) \in u
  <2> HIDE DEF U
  <2> QED BY <1>7, <1>8, SumTake, AnyOfIn
<1> HIDE DEF Sum, Bad, U
<1> DEFINE all == s \cup {z}
           y == AnyOf(all)
           t == s \ {y}
<1>9. all \in SUBSET U /\ all # {}
  BY <1>3
<1>10. Sum(all) = f[y] + Sum(all \ {y}) /\ y \in all
  <2> HIDE DEF all
  <2> QED BY <1>8, <1>9
<1>11. y # z
  <2> SUFFICES ASSUME y = z PROVE FALSE
    OBVIOUS
  <2>1. all \ {y} = s
    BY <1>4
  <2> HIDE DEF y
  <2> QED BY <1>4, <1>10, <2>1
<1>12. y \in s /\ y \in U
  BY <1>3, <1>10, <1>11
<1> HIDE DEF y
<1>13. /\ t \in SUBSET s /\ t # s /\ t \in SUBSET U
       /\ all \ {y} = t \cup {z} /\ s = t \cup {y}
       /\ y \in U \ t /\ z \in U \ t
  BY <1>3, <1>4, <1>11, <1>12
<1> HIDE DEF t, all
<1>14. Sum(t \cup {z}) = f[z] + Sum(t) /\ Sum(t \cup {y}) = f[y] + Sum(t)
  BY <1>5, <1>13
<1>15. Sum(all) = f[y] + (f[z] + Sum(t)) /\ Sum(s) = f[y] + Sum(t)
  BY <1>10, <1>13, <1>14
<1>16. Sum(t) \in Nat /\ f[y] \in Nat /\ f[z] \in Nat
  BY <1>4, <1>6, <1>7, <1>12, <1>13
<1>17. Sum(all) = f[z] + Sum(s)
  BY <1>15, <1>16
<1> QED BY <1>4, <1>17 DEF all

(* The sum over an interval is the sum over its two parts.                   *)
LEMMA SumSplit ==
    ASSUME NEW f, NEW a \in Int, NEW m \in Int, NEW b \in Int, a <= m + 1, m <= b,
           \A i \in a .. b : f[i] \in Nat
    PROVE  SumFunctionOnSet(f, a .. b)
             = SumFunctionOnSet(f, a .. m) + SumFunctionOnSet(f, m + 1 .. b)
<1> DEFINE Sum(s) == SumFunctionOnSet(f, s)
           Bad == {n \in Nat : m + n <= b /\ Sum(a .. m + n) # Sum(a .. m) + Sum(m + 1 .. m + n)}
<1>1. Bad = {}
  <2> SUFFICES ASSUME Bad # {} PROVE FALSE
    OBVIOUS
  <2>1. PICK n \in Bad : \A k \in Bad : ~(<<k, n>> \in OpToRel(<, Nat))
    <3>1. Bad \subseteq Nat
      OBVIOUS
    <3> HIDE DEF Bad
    <3> QED BY <3>1, NatLessThanWellFounded, WFMin
  <2>2. n \in Nat /\ m + n <= b /\ Sum(a .. m + n) # Sum(a .. m) + Sum(m + 1 .. m + n)
    <3> HIDE DEF Sum
    <3> QED OBVIOUS
  <2>3. ASSUME NEW k \in Nat, k < n PROVE k \notin Bad
    <3> HIDE DEF Bad
    <3> QED BY <2>1, <2>2, <2>3 DEF OpToRel
  <2>4. ASSUME NEW i \in Int, NEW j \in Int, a <= i, j <= b
        PROVE  Sum(i .. j) \in Nat /\ IsFiniteSet(i .. j)
    <3>1. IsFiniteSet(i .. j)
      BY FS_Interval
    <3>2. \A e \in i .. j : f[e] \in Nat
      BY <2>4
    <3> QED BY <3>1, <3>2, SumNat
  <2>5. n # 0
    <3> SUFFICES ASSUME n = 0 PROVE FALSE
      OBVIOUS
    <3>1. m + 1 .. m + n = {} /\ m + n = m
      OBVIOUS
    <3>2. Sum(m + 1 .. m + n) = 0
      BY <3>1, SumEmpty
    <3>3. Sum(a .. m) \in Nat
      BY <2>4
    <3> HIDE DEF Sum
    <3> QED BY <2>2, <3>1, <3>2, <3>3
  <2> DEFINE k == n - 1
  <2>6. k \in Nat /\ k < n /\ m + k <= b
    BY <2>2, <2>5
  <2>7. Sum(a .. m + k) = Sum(a .. m) + Sum(m + 1 .. m + k)
    <3>1. k \notin Bad
      <4> HIDE DEF Bad, k
      <4> QED BY <2>3, <2>6
    <3> HIDE DEF Sum, k
    <3> QED BY <2>6, <3>1
  <2>8. ASSUME NEW i \in Int, a <= i, i <= m + n
        PROVE  Sum(i .. m + n) = f[m + n] + Sum(i .. m + k)
    <3>1. i .. m + n = (i .. m + k) \cup {m + n} /\ m + n \notin i .. m + k
      BY <2>2, <2>6, <2>8
    <3>4. \A e \in (i .. m + k) \cup {m + n} : f[e] \in Nat
      <4>1. i .. m + n \subseteq a .. b
        BY <2>2, <2>8
      <4> HIDE DEF k
      <4> QED BY <3>1, <4>1
    <3>2. IsFiniteSet(i .. m + k)
      BY <2>6, FS_Interval
    <3> HIDE DEF k
    <3> QED BY <3>1, <3>2, <3>4, SumAdd
  <2> HIDE DEF Sum, Bad
  <2>9. /\ Sum(a .. m + n) = f[m + n] + Sum(a .. m + k)
        /\ Sum(m + 1 .. m + n) = f[m + n] + Sum(m + 1 .. m + k)
    <3>1. m + 1 <= m + n /\ a <= m + n /\ m + 1 \in Int
      BY <2>2, <2>5
    <3> QED BY <2>8, <3>1
  <2>10. /\ f[m + n] \in Nat /\ Sum(a .. m) \in Nat
         /\ Sum(m + 1 .. m + k) \in Nat
    <3>1. /\ m + n \in a .. b /\ m + 1 \in Int /\ a <= m + 1
          /\ m + k \in Int /\ m + k <= b /\ a <= a
      BY <2>2, <2>5, <2>6
    <3> HIDE DEF k
    <3> QED BY <2>4, <3>1
  <2> HIDE DEF k
  <2> QED BY <2>2, <2>7, <2>9, <2>10
<1>2. b - m \in Nat /\ m + (b - m) = b
  OBVIOUS
<1> HIDE DEF Sum
<1>3. b - m \notin Bad
  BY <1>1
<1>4. Sum(a .. b) = Sum(a .. m) + Sum(m + 1 .. b)
  BY <1>2, <1>3
<1> QED BY <1>4 DEF Sum

-----------------------------------------------------------------------------
(* A finite sequence with at least a genesis block, and one with every     *)
(* time a number and every target within the bounds of verification.       *)
Blocks(c) == {c[i] : i \in 1 .. Len(c)}
Blockchain(c) == c \in Seq(Blocks(c)) /\ Len(c) >= 1
WellFormed(c) ==
    /\ Blockchain(c)
    /\ \A i \in 1 .. Len(c) :
          c[i].time \in Int /\ c[i].target \in MinTarget .. MaxTarget

LEMMA Bounds ==
    /\ MinTarget \in Int /\ MaxTarget \in Int /\ MinTarget > 0
    /\ MinTarget <= MaxTarget
    /\ GenesisTarget \in MinTarget .. MaxTarget
    /\ RetargetInterval \in Int /\ RetargetInterval > 1
    /\ BlockTime \in Int /\ BlockTime > 0
    /\ MaxRetargetFactor \in Int /\ MaxRetargetFactor > 0
    /\ MedianCount \in Int /\ MedianCount > 0
    /\ FutureDrift \in Int
BY LedgerAssumption

LEMMA Length ==
    ASSUME NEW c, Blockchain(c)
    PROVE  Len(c) \in Nat /\ Len(c) \in Int /\ Len(c) >= 1 /\ DOMAIN c = 1 .. Len(c)
BY LenProperties DEF Blockchain

LEMMA Heights ==
    ASSUME NEW c, WellFormed(c), NEW h \in 0 .. Len(c) - 1
    PROVE  /\ Len(c) \in Int /\ Len(c) >= 1
           /\ h \in Int /\ h + 1 \in 1 .. Len(c)
           /\ At(c, h).time \in Int
           /\ At(c, h).target \in MinTarget .. MaxTarget
<1>1. Len(c) \in Nat /\ Len(c) >= 1
  BY Length DEF WellFormed
<1>2. h + 1 \in 1 .. Len(c)
  BY <1>1
<1> QED BY <1>1, <1>2 DEF WellFormed, At

(* Scaling a target within the bounds and limiting it keeps it within.     *)
LEMMA Limited ==
    ASSUME NEW t \in MinTarget .. MaxTarget, NEW s \in Int
    PROVE  AtLeast(t \div MaxRetargetFactor,
                   AtMost(t * MaxRetargetFactor, AtLeast(MinTarget, AtMost(MaxTarget, s))))
               \in MinTarget .. MaxTarget
<1> DEFINE f == MaxRetargetFactor
           low == t \div f
           high == t * f
           bounded == AtLeast(MinTarget, AtMost(MaxTarget, s))
<1>1. t \in Int /\ t > 0 /\ f \in Int /\ f > 0 /\ MinTarget <= t /\ t <= MaxTarget
  BY Bounds
<1>2. low \in Int /\ low <= t
  BY <1>1, SMT
<1>3. high \in Int /\ t <= high
  BY <1>1, SMT
<1>4. bounded \in Int /\ MinTarget <= bounded /\ bounded <= MaxTarget
  BY Bounds DEF AtLeast, AtMost
<1> HIDE DEF f, low, high, bounded
<1>5. AtLeast(low, AtMost(high, bounded)) \in MinTarget .. MaxTarget
  BY <1>1, <1>2, <1>3, <1>4, Bounds DEF AtLeast, AtMost
<1> QED BY <1>5 DEF f, low, high, bounded

LEMMA TargetsInBounds ==
    ASSUME NEW c, WellFormed(c), NEW h \in 1 .. Len(c)
    PROVE  ExpectedTargetAt(c, h) \in MinTarget .. MaxTarget
<1>1. Len(c) \in Int /\ Len(c) >= 1 /\ h \in Int
  BY Length DEF WellFormed
<1>2. At(c, 0).target \in MinTarget .. MaxTarget
  BY <1>1, Heights
<1>3. At(c, h - 1).target \in MinTarget .. MaxTarget /\ At(c, h - 1).time \in Int
  <2>1. h - 1 \in 0 .. Len(c) - 1
    BY <1>1
  <2> QED BY <2>1, Heights
<1>4. CASE h < RetargetInterval
  BY <1>2, <1>4 DEF ExpectedTargetAt
<1>5. CASE ~(h < RetargetInterval) /\ h % RetargetInterval # 0
  BY <1>1, <1>3, <1>5, Bounds DEF ExpectedTargetAt
<1>6. CASE ~(h < RetargetInterval) /\ h % RetargetInterval = 0
  <2> DEFINE first == At(c, h - RetargetInterval).time
             last == At(c, h - 1).time
             t == At(c, h - 1).target
             elapsed == AtLeast(1, last - first)
             s == (t * elapsed) \div (BlockTime * RetargetInterval)
  <2>1. h - RetargetInterval \in 0 .. Len(c) - 1
    BY <1>1, <1>6, Bounds
  <2>2. elapsed \in Int
    BY <1>3, <2>1, Heights DEF AtLeast
  <2>3. s \in Int
    <3>1. t \in Int
      BY <1>3, Bounds
    <3>2. BlockTime * RetargetInterval \in Int /\ BlockTime * RetargetInterval > 0
      BY Bounds, SMT
    <3>3. t * elapsed \in Int
      BY <2>2, <3>1
    <3> HIDE DEF t, elapsed
    <3> QED BY <3>2, <3>3
  <2>4. Retarget(c, h) \in MinTarget .. MaxTarget
    <3> HIDE DEF s
    <3>1. AtLeast(t \div MaxRetargetFactor,
                  AtMost(t * MaxRetargetFactor, AtLeast(MinTarget, AtMost(MaxTarget, s))))
              \in MinTarget .. MaxTarget
      BY <1>3, <2>3, Limited
    <3> QED BY <3>1 DEF Retarget, s
  <2>5. ExpectedTargetAt(c, h) = Retarget(c, h)
    BY <1>1, <1>6, Bounds DEF ExpectedTargetAt
  <2> QED BY <2>4, <2>5
<1> QED BY <1>1, <1>4, <1>5, <1>6, Bounds

-----------------------------------------------------------------------------
(* d is c with b on top: what a block put on a chain leaves alone.         *)
Extends(d, c, b) ==
    /\ Len(d) = Len(c) + 1
    /\ \A h \in 0 .. Len(c) - 1 : At(d, h) = At(c, h)
    /\ At(d, Len(c)) = b
    /\ d \in Seq(Blocks(c) \cup {b})

LEMMA Appended ==
    ASSUME NEW c, Blockchain(c), NEW b
    PROVE  Extends(Append(c, b), c, b)
<1> DEFINE S == Blocks(c) \cup {b}
<1>1. c \in Seq(S) /\ b \in S
  <2>1. Len(c) \in Nat /\ \A i \in 1 .. Len(c) : c[i] \in S
    BY LenProperties DEF Blockchain, Blocks
  <2>2. c = [i \in 1 .. Len(c) |-> c[i]]
    BY LenProperties DEF Blockchain
  <2> HIDE DEF S
  <2>3. c \in Seq(S)
    BY <2>1, <2>2, IsASeq
  <2> QED BY <2>3 DEF S
<1>2. /\ Append(c, b) \in Seq(S)
      /\ Len(Append(c, b)) = Len(c) + 1
      /\ \A i \in 1 .. Len(c) : Append(c, b)[i] = c[i]
      /\ Append(c, b)[Len(c) + 1] = b
  BY <1>1, AppendProperties
<1>3. \A h \in 0 .. Len(c) - 1 : h + 1 \in 1 .. Len(c)
  BY Length
<1> QED BY <1>2, <1>3 DEF At, Extends

LEMMA SameMedian ==
    ASSUME NEW c, Blockchain(c), NEW b, NEW e \in 1 .. Len(c)
    PROVE  MedianPastTime(Append(c, b), e) = MedianPastTime(c, e)
<1>1. Len(c) \in Int /\ e \in Int
  BY Length
<1>2. \A h \in AtLeast(0, e - MedianCount) .. e - 1 : h \in 0 .. Len(c) - 1
  BY <1>1, Bounds DEF AtLeast
<1>3. Extends(Append(c, b), c, b)
  BY Appended
<1>4. [h \in AtLeast(0, e - MedianCount) .. e - 1 |-> At(Append(c, b), h).time]
        = [h \in AtLeast(0, e - MedianCount) .. e - 1 |-> At(c, h).time]
  BY <1>2, <1>3 DEF Extends
<1> QED BY <1>4 DEF MedianPastTime

LEMMA SameTarget ==
    ASSUME NEW c, Blockchain(c), NEW b, NEW e \in 1 .. Len(c)
    PROVE  ExpectedTargetAt(Append(c, b), e) = ExpectedTargetAt(c, e)
<1>1. Len(c) \in Int /\ e \in Int /\ Len(c) >= 1
  BY Length
<1>2. 0 \in 0 .. Len(c) - 1 /\ e - 1 \in 0 .. Len(c) - 1
  BY <1>1
<1>3. ~(e < RetargetInterval) => e - RetargetInterval \in 0 .. Len(c) - 1
  BY <1>1, Bounds
<1>4. Extends(Append(c, b), c, b)
  BY Appended
<1>5. /\ At(Append(c, b), 0) = At(c, 0)
      /\ At(Append(c, b), e - 1) = At(c, e - 1)
      /\ ~(e < RetargetInterval)
            => At(Append(c, b), e - RetargetInterval) = At(c, e - RetargetInterval)
  BY <1>2, <1>3, <1>4 DEF Extends
<1> QED BY <1>5 DEF ExpectedTargetAt, Retarget

(* A block on top of a chain; one the rules accept keeps the chain one     *)
(* validate_chain accepts, and a well-formed one well formed.              *)
LEMMA AppendKeepsBlockchain ==
    ASSUME NEW c, Blockchain(c), NEW b
    PROVE  Blockchain(Append(c, b))
<1> DEFINE d == Append(c, b)
<1>1. Extends(d, c, b) /\ Len(c) \in Int /\ Len(c) >= 1
  BY Appended, Length
<1> HIDE DEF d
<1>2. Len(d) \in Nat /\ Len(d) >= 1 /\ \A i \in 1 .. Len(d) : d[i] \in Blocks(d)
  BY <1>1 DEF Blocks, Extends
<1>3. d = [i \in 1 .. Len(d) |-> d[i]]
  BY <1>1, LenProperties DEF Extends
<1>4. d \in Seq(Blocks(d))
  BY <1>2, <1>3, IsASeq
<1> QED BY <1>2, <1>4 DEF Blockchain, d

(* What a chain demands of the block at a height depends on those below.   *)
LEMMA SameRules ==
    ASSUME NEW c, Blockchain(c), NEW b, NEW h \in 1 .. Len(c)
    PROVE  /\ ExpectedTargetAt(Append(c, b), h) = ExpectedTargetAt(c, h)
           /\ MedianPastTime(Append(c, b), h) = MedianPastTime(c, h)
           /\ At(Append(c, b), h - 1) = At(c, h - 1)
<1>1. Len(c) \in Int /\ h - 1 \in 0 .. Len(c) - 1
  BY Length
<1>2. At(Append(c, b), h - 1) = At(c, h - 1)
  <2>1. Extends(Append(c, b), c, b)
    BY Appended
  <2> QED BY <1>1, <2>1 DEF Extends
<1> QED BY <1>2, SameTarget, SameMedian

(* add_block_v2 takes a block exactly if validate_chain does, the clock's   *)
(* limit apart.                                                            *)
LEMMA AcceptedExactly ==
    ASSUME NEW c, Blockchain(c), NEW b, NEW t
    PROVE  Acceptable(c, b, t)
             <=> ValidAt(Append(c, b), Len(c)) /\ b.time <= t + FutureDrift
<1>1. Len(c) \in 1 .. Len(c) /\ At(c, Len(c) - 1) = LastBlock(c)
  BY Length DEF At, LastBlock
<1>2. At(Append(c, b), Len(c)) = b
  BY Appended DEF Extends
<1> QED BY <1>1, <1>2, SameRules DEF Acceptable, ValidAt

LEMMA AcceptedKeepsValid ==
    ASSUME NEW c, Blockchain(c), ValidChain(c), NEW b, NEW t, Acceptable(c, b, t)
    PROVE  Blockchain(Append(c, b)) /\ ValidChain(Append(c, b))
<1> DEFINE d == Append(c, b)
<1>1. Len(c) \in Int /\ Len(c) >= 1
  BY Length
<1>2. /\ Len(d) = Len(c) + 1
      /\ \A h \in 0 .. Len(c) - 1 : At(d, h) = At(c, h)
  <2>1. Extends(d, c, b)
    BY Appended
  <2> HIDE DEF d
  <2> QED BY <2>1 DEF Extends
<1>3. At(d, 0) = Genesis
  <2>1. 0 \in 0 .. Len(c) - 1
    BY <1>1
  <2> HIDE DEF d
  <2> QED BY <1>2, <2>1 DEF ValidChain
<1>4. ASSUME NEW h \in 1 .. Height(d) PROVE ValidAt(d, h)
  <2>1. h \in 1 .. Len(c)
    BY <1>1, <1>2 DEF Height
  <2>2. CASE h = Len(c)
    BY <2>2, AcceptedExactly
  <2>3. CASE h # Len(c)
    <3>1. h \in 1 .. Height(c) /\ h \in 0 .. Len(c) - 1
      BY <1>1, <2>1, <2>3 DEF Height
    <3>2. ValidAt(c, h) /\ At(d, h) = At(c, h)
      <4> HIDE DEF d
      <4> QED BY <1>2, <3>1 DEF ValidChain
    <3> QED BY <2>1, <3>2, SameRules DEF ValidAt
  <2> QED BY <2>2, <2>3
<1>5. ValidChain(d)
  <2> HIDE DEF d
  <2> QED BY <1>3, <1>4 DEF ValidChain
<1> QED BY <1>5, AppendKeepsBlockchain

LEMMA AcceptedKeepsWellFormed ==
    ASSUME NEW c, WellFormed(c), NEW b, NEW t, Acceptable(c, b, t), b.time \in Int
    PROVE  WellFormed(Append(c, b))
<1> DEFINE d == Append(c, b)
<1>1. Blockchain(c) /\ Len(c) \in Int /\ Len(c) >= 1
  BY Length DEF WellFormed
<1>2. Extends(d, c, b)
  BY <1>1, Appended
<1>3. /\ Len(d) = Len(c) + 1
      /\ \A h \in 0 .. Len(c) - 1 : At(d, h) = At(c, h)
      /\ At(d, Len(c)) = b
  BY <1>2 DEF Extends
<1>4. b.target \in MinTarget .. MaxTarget
  BY DEF Acceptable, Verifies
<1>5. Blockchain(d)
  BY <1>1, AppendKeepsBlockchain
<1> HIDE DEF d
<1>6. ASSUME NEW i \in 1 .. Len(d)
      PROVE  d[i].time \in Int /\ d[i].target \in MinTarget .. MaxTarget
  <2>1. d[i] = At(d, i - 1)
    BY <1>1, <1>3 DEF At
  <2>2. CASE i = Len(c) + 1
    <3>1. d[i] = b
      BY <1>1, <1>3, <2>1, <2>2
    <3> QED BY <3>1, <1>4
  <2>3. CASE i # Len(c) + 1
    <3>1. i - 1 \in 0 .. Len(c) - 1
      BY <1>1, <1>3, <2>3
    <3>2. d[i] = At(c, i - 1)
      BY <1>3, <2>1, <3>1
    <3> QED BY <3>1, <3>2, Heights
  <2> QED BY <2>2, <2>3
<1> QED BY <1>5, <1>6 DEF WellFormed, d

(* The chain of the genesis block alone.                                   *)
LEMMA GenesisChain == WellFormed(<<Genesis>>) /\ ValidChain(<<Genesis>>)
<1>1. Len(<<Genesis>>) = 1 /\ <<Genesis>>[1] = Genesis
  OBVIOUS
<1>2. Genesis.time \in Int /\ Genesis.target \in MinTarget .. MaxTarget
  BY Bounds DEF Genesis
<1>3. <<Genesis>> \in Seq(Blocks(<<Genesis>>))
  BY <1>1 DEF Blocks
<1> HIDE DEF Genesis
<1>4. WellFormed(<<Genesis>>)
  BY <1>1, <1>2, <1>3 DEF WellFormed, Blockchain
<1>5. ValidChain(<<Genesis>>)
  BY <1>1 DEF ValidChain, Height, At
<1> QED BY <1>4, <1>5

-----------------------------------------------------------------------------
(* Every block adds work.                                                  *)
LEMMA WorkOfBlock ==
    ASSUME NEW t \in MinTarget .. MaxTarget
    PROVE  ComputeWork(t) \in Nat \ {0}
<1>1. /\ WorkScale \in Int /\ t + 1 \in Int
      /\ 0 < t + 1 /\ t + 1 <= WorkScale
  BY LedgerAssumption
<1>2. ASSUME NEW w \in Int, NEW d \in Int, 0 < d, d <= w PROVE w \div d \in Int /\ w \div d > 0
  BY <1>2, SMT
<1>3. WorkScale \div (t + 1) \in Int /\ WorkScale \div (t + 1) > 0
  BY <1>1, <1>2
<1> QED BY <1>3 DEF ComputeWork

Works(c) == [h \in 0 .. Height(c) |-> ComputeWork(At(c, h).target)]

LEMMA WorksNat ==
    ASSUME NEW c, WellFormed(c)
    PROVE  /\ Height(c) \in Int /\ Height(c) >= 0 /\ Len(c) = Height(c) + 1
           /\ \A h \in 0 .. Height(c) : Works(c)[h] \in Nat
<1>1. Height(c) \in Int /\ Height(c) >= 0 /\ Len(c) = Height(c) + 1
  BY Length DEF WellFormed, Height
<1>2. ASSUME NEW h \in 0 .. Height(c) PROVE Works(c)[h] \in Nat
  <2>1. At(c, h).target \in MinTarget .. MaxTarget
    BY Heights DEF Height
  <2> QED BY <2>1, WorkOfBlock DEF Works
<1> QED BY <1>1, <1>2

LEMMA BranchWorkNat ==
    ASSUME NEW c, WellFormed(c), NEW k \in -1 .. Height(c)
    PROVE  BranchWork(c, k) \in Nat
<1>1. Height(c) \in Int
  BY WorksNat
<1>2. IsFiniteSet(k + 1 .. Height(c))
  BY <1>1, FS_Interval
<1>3. \A h \in k + 1 .. Height(c) : Works(c)[h] \in Nat
  BY <1>1, WorksNat
<1>4. SumFunctionOnSet(Works(c), k + 1 .. Height(c)) \in Nat
  BY <1>2, <1>3, SumNat
<1> QED BY <1>4 DEF BranchWork, Works

(* The work of a chain is that up to a block and that above it.            *)
LEMMA BranchWorkSplit ==
    ASSUME NEW c, WellFormed(c), NEW k \in -1 .. Height(c)
    PROVE  BranchWork(c, -1) = SumFunctionOnSet(Works(c), 0 .. k) + BranchWork(c, k)
<1>1. /\ Height(c) \in Int /\ k \in Int /\ 0 <= k + 1 /\ k <= Height(c)
      /\ \A h \in 0 .. Height(c) : Works(c)[h] \in Nat
  BY WorksNat
<1>2. SumFunctionOnSet(Works(c), 0 .. Height(c))
        = SumFunctionOnSet(Works(c), 0 .. k)
            + SumFunctionOnSet(Works(c), k + 1 .. Height(c))
  BY <1>1, SumSplit
<1>3. (-1) + 1 = 0
  OBVIOUS
<1> QED BY <1>2, <1>3 DEF BranchWork, Works

(* A block on top adds its own work.                                       *)
LEMMA WorkAppended ==
    ASSUME NEW c, WellFormed(c), NEW b, WellFormed(Append(c, b))
    PROVE  BranchWork(Append(c, b), -1) > BranchWork(c, -1)
<1> DEFINE d == Append(c, b)
           H == Height(c)
<1>1. /\ H \in Int /\ H >= 0 /\ Len(c) = H + 1
      /\ Extends(d, c, b)
  BY WorksNat, Appended DEF WellFormed
<1>2. Height(d) = H + 1 /\ \A h \in 0 .. H : At(d, h) = At(c, h)
  BY <1>1 DEF Extends, Height
<1> HIDE DEF d, H
<1>3. \A h \in 0 .. H + 1 : Works(d)[h] \in Nat
  BY <1>2, WorksNat DEF d
<1>4. \A h \in 0 .. H : Works(d)[h] = Works(c)[h]
  BY <1>1, <1>2 DEF Works, H
<1>5. Works(d)[H + 1] > 0
  <2>1. H + 1 \in 0 .. Height(d) /\ H + 1 \in 0 .. Len(d) - 1
    BY <1>1, <1>2 DEF Height
  <2>2. At(d, H + 1).target \in MinTarget .. MaxTarget
    BY <2>1, Heights DEF d
  <2>3. Works(d)[H + 1] = ComputeWork(At(d, H + 1).target)
    BY <2>1 DEF Works
  <2> QED BY <2>2, <2>3, WorkOfBlock
<1>6. /\ 0 .. H + 1 = (0 .. H) \cup {H + 1} /\ H + 1 \notin 0 .. H
      /\ IsFiniteSet(0 .. H)
  <2>1. IsFiniteSet(0 .. H)
    BY <1>1, FS_Interval
  <2> QED BY <1>1, <2>1
<1>7. SumFunctionOnSet(Works(d), 0 .. H + 1)
        = Works(d)[H + 1] + SumFunctionOnSet(Works(d), 0 .. H)
  BY <1>3, <1>6, SumAdd
<1>8. /\ SumFunctionOnSet(Works(d), 0 .. H) = SumFunctionOnSet(Works(c), 0 .. H)
      /\ SumFunctionOnSet(Works(d), 0 .. H) \in Nat
  <2>1. \A h \in 0 .. H : Works(d)[h] \in Nat
    BY <1>1, <1>3
  <2> QED BY <1>4, <1>6, <2>1, SumSame, SumNat
<1>9. /\ BranchWork(d, -1) = SumFunctionOnSet(Works(d), 0 .. H + 1)
      /\ BranchWork(c, -1) = SumFunctionOnSet(Works(c), 0 .. H)
  <2>1. (-1) + 1 = 0
    OBVIOUS
  <2> QED BY <1>2, <2>1 DEF BranchWork, Works, H
<1>10. Works(d)[H + 1] \in Nat
  BY <1>1, <1>3
<1>11. BranchWork(d, -1) > BranchWork(c, -1)
  BY <1>5, <1>7, <1>8, <1>9, <1>10
<1> QED BY <1>11 DEF d

LEMMA WorkOfNone == BranchWork(<<>>, -1) = 0
<1>1. (-1) + 1 .. Height(<<>>) = {}
  BY DEF Height
<1> QED BY <1>1, SumEmpty DEF BranchWork

-----------------------------------------------------------------------------
(* No block comes twice in a valid chain: the one of the two that is lower *)
(* would have genesis, whose time is zero, as deep below it as the other   *)
(* has a block that verification let through.                              *)
LEMMA BlocksDiffer ==
    ASSUME NEW c, Blockchain(c), ValidChain(c),
           NEW i \in Nat, NEW j \in Nat, i < j, j <= Height(c)
    PROVE  At(c, i) # At(c, j)
<1> DEFINE Bad == {m \in Nat : \E n \in Nat : m < n /\ n <= Height(c) /\ At(c, m) = At(c, n)}
<1>1. Bad = {}
  <2> SUFFICES ASSUME Bad # {} PROVE FALSE
    OBVIOUS
  <2>1. PICK m \in Bad : \A k \in Bad : ~(<<k, m>> \in OpToRel(<, Nat))
    <3>1. Bad \subseteq Nat
      OBVIOUS
    <3> HIDE DEF Bad
    <3> QED BY <3>1, NatLessThanWellFounded, WFMin
  <2>2. m \in Nat /\ \E n \in Nat : m < n /\ n <= Height(c) /\ At(c, m) = At(c, n)
    OBVIOUS
  <2>3. PICK n \in Nat : m < n /\ n <= Height(c) /\ At(c, m) = At(c, n)
    BY <2>2
  <2>4. ASSUME NEW k \in Nat, k < m PROVE k \notin Bad
    <3> HIDE DEF Bad
    <3> QED BY <2>1, <2>2, <2>4 DEF OpToRel
  <2>5. Height(c) \in Int /\ n \in 1 .. Height(c)
    BY <2>2, <2>3, Length DEF Height
  <2>6. At(c, n).prev = At(c, n - 1) /\ At(c, n).time > 0
    BY <2>5 DEF ValidChain, ValidAt, Verifies
  <2>7. m # 0
    <3> SUFFICES ASSUME m = 0 PROVE FALSE
      OBVIOUS
    <3>1. At(c, n) = Genesis
      BY <2>3 DEF ValidChain
    <3>2. Genesis.time = 0
      BY DEF Genesis
    <3>3. ~(0 > 0)
      OBVIOUS
    <3> QED BY <2>6, <3>1, <3>2, <3>3
  <2>8. m \in 1 .. Height(c) /\ m - 1 \in Nat /\ m - 1 < m /\ n - 1 \in Nat
        /\ m - 1 < n - 1 /\ n - 1 <= Height(c)
    BY <2>2, <2>3, <2>5, <2>7
  <2>9. At(c, m).prev = At(c, m - 1)
    BY <2>8 DEF ValidChain, ValidAt
  <2>10. At(c, m - 1) = At(c, n - 1)
    BY <2>3, <2>6, <2>9
  <2>11. m - 1 \in Bad
    BY <2>8, <2>10
  <2> QED BY <2>4, <2>8, <2>11
<1> QED BY <1>1
=============================================================================

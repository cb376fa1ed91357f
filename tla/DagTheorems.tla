----------------------------- MODULE DagTheorems ----------------------------
(***************************************************************************)
(* Facts about the dags of module Dag, for every k and dags of any size:   *)
(* what insert keeps of them, and that the linearization lists every block *)
(* once, after its parents.  The theorems about the modules that grow a    *)
(* dag rest on these.                                                      *)
(***************************************************************************)
EXTENDS Dag, DataTheorems

Past(D, b) == D.nodes[b].past
PastSize(D, b) == D.nodes[b].past_size
SelectedParent(D, b) == D.nodes[b].selected_parent

\* What insert guarantees of one node.
NodeOK(D, b) ==
    /\ Parents(D, b) \subseteq Blocks(D)
    /\ Past(D, b) = Parents(D, b) \cup UNION {Past(D, p) : p \in Parents(D, b)}
    /\ Past(D, b) \subseteq Blocks(D) \ {b}
    /\ \A a \in Past(D, b) : Past(D, a) \subseteq Past(D, b)
    /\ PastSize(D, b) = Cardinality(Past(D, b))
    /\ D.nodes[b].blue_score \in Int /\ D.nodes[b].blue_work \in Int /\ Work(D, b) \in Int
    /\ DOMAIN D.nodes[b].blue_anticone_sizes \subseteq Past(D, b)
    /\ IF b = GenesisId THEN Parents(D, b) = {} /\ SelectedParent(D, b) = NoBlock
       ELSE SelectedParent(D, b) \in Parents(D, b) /\ GenesisId \in Past(D, b)

\* What insert guarantees of a dag.
DagOK(D) ==
    /\ IsFiniteSet(Blocks(D)) /\ Blocks(D) \subseteq Nat /\ GenesisId \in Blocks(D)
    /\ \A b \in Blocks(D) : NodeOK(D, b)
    /\ D.tips \subseteq Blocks(D) /\ D.tips # {}
    /\ \A b \in Blocks(D) : \E t \in D.tips : b = t \/ b \in Past(D, t)

----------------------------------------------------------------------------
(***************************************************************************)
(* The two orders of blocks.                                               *)
(***************************************************************************)
TopoOrder(D) == {p \in Blocks(D) \X Blocks(D) : TopoKeyLess(D, p[1], p[2])}
ChainOrder(D) == {p \in Blocks(D) \X Blocks(D) : ChainKeyLess(D, p[1], p[2])}

\* The sizes of pasts are numbers, and a block has a greater past than its ancestors.
LEMMA PastSizes ==
    ASSUME NEW D, DagOK(D), NEW b \in Blocks(D)
    PROVE  /\ b \in Nat
           /\ PastSize(D, b) \in Nat /\ PastSize(D, b) < Cardinality(Blocks(D))
           /\ Cardinality(Blocks(D)) \in Nat
           /\ \A a \in Past(D, b) : a \in Blocks(D) /\ PastSize(D, a) < PastSize(D, b)
  <1>1. IsFiniteSet(Blocks(D)) /\ b \in Nat /\ NodeOK(D, b) /\ \A a \in Blocks(D) : NodeOK(D, a)
    BY DEF DagOK
  <1>2. Past(D, b) \in SUBSET Blocks(D) /\ b \notin Past(D, b) /\ PastSize(D, b) = Cardinality(Past(D, b))
    BY <1>1 DEF NodeOK
  <1>3. Cardinality(Blocks(D)) \in Nat
    BY <1>1, FS_CardinalityType
  <1>4. IsFiniteSet(Past(D, b)) /\ Cardinality(Past(D, b)) \in Nat
        /\ Cardinality(Past(D, b)) <= Cardinality(Blocks(D))
        /\ Cardinality(Past(D, b)) # Cardinality(Blocks(D))
    BY <1>1, <1>2, FS_Subset, FS_CardinalityType
  <1>5. ASSUME NEW a \in Past(D, b) PROVE a \in Blocks(D) /\ PastSize(D, a) < PastSize(D, b)
    <2>1. a \in Blocks(D) /\ NodeOK(D, a)
      BY <1>1, <1>2
    <2>2. Past(D, a) \in SUBSET Past(D, b) /\ a \notin Past(D, a) /\ PastSize(D, a) = Cardinality(Past(D, a))
      BY <1>1, <2>1 DEF NodeOK
    <2>3. Cardinality(Past(D, a)) <= Cardinality(Past(D, b)) /\ Cardinality(Past(D, a)) # Cardinality(Past(D, b))
          /\ Cardinality(Past(D, a)) \in Nat
      BY <1>4, <2>2, FS_Subset, FS_CardinalityType
    <2> QED BY <1>2, <1>4, <2>1, <2>2, <2>3
  <1> QED
    BY <1>1, <1>2, <1>3, <1>4, <1>5

\* topo_key and chain_key order blocks strictly.
LEMMA KeyOrders ==
    ASSUME NEW D, DagOK(D), NEW S \in SUBSET Blocks(D)
    PROVE  IsFiniteSet(S) /\ StrictOrder(S, TopoOrder(D)) /\ StrictOrder(S, ChainOrder(D))
  <1>1. IsFiniteSet(S)
    BY FS_Subset DEF DagOK
  <1>2. \A b \in S : b \in Blocks(D) /\ b \in Int /\ PastSize(D, b) \in Int
    BY PastSizes
  <1>3. \A a, b \in S : <<a, b>> \in TopoOrder(D) <=> TopoKeyLess(D, a, b)
    BY DEF TopoOrder
  <1>4. \A a, b \in S : <<a, b>> \in ChainOrder(D) <=> ChainKeyLess(D, a, b)
    BY DEF ChainOrder
  <1>5. \A b \in S : D.nodes[b].blue_score \in Int /\ D.nodes[b].blue_work \in Int
    BY DEF DagOK, NodeOK
  <1>6. StrictOrder(S, TopoOrder(D))
    BY <1>2, <1>3 DEF StrictOrder, TopoKeyLess, PastSize
  <1>7. StrictOrder(S, ChainOrder(D))
    BY <1>2, <1>4, <1>5 DEF StrictOrder, ChainKeyLess
  <1> QED
    BY <1>1, <1>6, <1>7

\* The heaviest block of some is one of them, and heavier than the others.
LEMMA HeaviestIn ==
    ASSUME NEW D, DagOK(D), NEW S \in SUBSET Blocks(D), S # {}
    PROVE  /\ Heaviest(D, S) \in S
           /\ \A b \in S \ {Heaviest(D, S)} : ChainKeyLess(D, b, Heaviest(D, S))
  <1>1. \E a \in S : \A b \in S \ {a} : <<b, a>> \in ChainOrder(D)
    BY KeyOrders, FiniteGreatest
  <1>2. \E a \in S : \A b \in S \ {a} : ChainKeyLess(D, b, a)
    BY <1>1 DEF ChainOrder
  <1> QED
    BY <1>2 DEF Heaviest

\* s lists S, each member once and every block after those of its past.
Lists(D, s, S) ==
    /\ Cardinality(S) \in Nat
    /\ s \in [1..Cardinality(S) -> S]
    /\ \A a \in S : \E i \in 1..Cardinality(S) : s[i] = a
    /\ \A i, j \in 1..Cardinality(S) : s[i] = s[j] => i = j
    /\ \A i, j \in 1..Cardinality(S) : s[i] \in Past(D, s[j]) => i < j

\* Sorting blocks by topo_key lists them.
LEMMA SortLists ==
    ASSUME NEW D, DagOK(D), NEW S \in SUBSET Blocks(D)
    PROVE  Lists(D, SortByTopoKey(D, S), S)
  <1> DEFINE s == SortByTopoKey(D, S)
             n == Cardinality(S)
  <1>1. IsFiniteSet(S) /\ n \in Nat /\ StrictOrder(S, TopoOrder(D))
    BY KeyOrders, FS_CardinalityType
  <1>2. \A a \in S : {b \in S : <<b, a>> \in TopoOrder(D)} = {b \in S : TopoKeyLess(D, b, a)}
    BY DEF TopoOrder
  <1>3. s = Ranked(S, TopoOrder(D))
    <2> DEFINE sorted(i) == CHOOSE a \in S : Cardinality({b \in S : TopoKeyLess(D, b, a)}) = i - 1
               ranked(i) == CHOOSE a \in S : Cardinality({b \in S : <<b, a>> \in TopoOrder(D)}) = i - 1
    <2>1. \A i \in 1..n : sorted(i) = ranked(i)
      BY <1>2
    <2>2. s = [i \in 1..n |-> sorted(i)] /\ Ranked(S, TopoOrder(D)) = [i \in 1..n |-> ranked(i)]
      BY DEF SortByTopoKey, Ranked
    <2> HIDE DEF s, sorted, ranked
    <2> QED BY <2>1, <2>2
  <1>4. Enumerates(s, S, TopoOrder(D))
    BY <1>1, <1>3, RankEnumerates
  <1> HIDE DEF s, n
  <1>5. /\ s \in [1..n -> S] /\ \A a \in S : \E i \in 1..n : s[i] = a
        /\ \A i, j \in 1..n : <<s[i], s[j]>> \in TopoOrder(D) <=> i < j
    BY <1>4 DEF Enumerates, n
  <1>6. ASSUME NEW i \in 1..n, NEW j \in 1..n, s[i] = s[j] PROVE i = j
    <2>1. ~(i < j) /\ ~(j < i)
      BY <1>1, <1>5, <1>6 DEF StrictOrder
    <2> QED BY <1>1, <2>1
  <1>7. ASSUME NEW i \in 1..n, NEW j \in 1..n, s[i] \in Past(D, s[j]) PROVE i < j
    <2>1. s[i] \in Blocks(D) /\ s[j] \in Blocks(D)
      BY <1>5
    <2>2. PastSize(D, s[i]) < PastSize(D, s[j])
      BY <1>7, <2>1, PastSizes
    <2>3. <<s[i], s[j]>> \in TopoOrder(D)
      BY <2>1, <2>2 DEF TopoOrder, TopoKeyLess, PastSize
    <2> QED BY <1>5, <2>3
  <1> QED
    BY <1>1, <1>5, <1>6, <1>7 DEF Lists, s, n

----------------------------------------------------------------------------
(***************************************************************************)
(* The mergeset.                                                           *)
(***************************************************************************)

\* Between a block and one of its past there is a last edge.
LEMMA LastEdge ==
    ASSUME NEW D, DagOK(D)
    PROVE  \A b \in Blocks(D) : \A x \in Past(D, b) :
               \E y \in Past(D, b) \cup {b} : x \in Parents(D, y)
  <1> DEFINE Edge(b) == \A x \in Past(D, b) : \E y \in Past(D, b) \cup {b} : x \in Parents(D, y)
             S == {n \in Nat : \A b \in Blocks(D) : PastSize(D, b) = n => Edge(b)}
  <1>1. ASSUME NEW n \in Nat, \A m \in 0..(n - 1) : m \in S PROVE n \in S
    <2> SUFFICES ASSUME NEW b \in Blocks(D), PastSize(D, b) = n, NEW x \in Past(D, b)
                 PROVE  \E y \in Past(D, b) \cup {b} : x \in Parents(D, y)
      OBVIOUS
    <2>1. NodeOK(D, b)
      BY DEF DagOK
    <2>2. CASE x \in Parents(D, b)
      BY <2>2
    <2>3. CASE x \notin Parents(D, b)
      <3>1. PICK p \in Parents(D, b) : x \in Past(D, p)
        BY <2>1, <2>3 DEF NodeOK
      <3>2. p \in Past(D, b) /\ Past(D, p) \subseteq Past(D, b)
        BY <2>1, <3>1 DEF NodeOK
      <3>3. p \in Blocks(D) /\ PastSize(D, p) \in Nat /\ PastSize(D, p) < n
        BY <3>2, PastSizes
      <3>4. PastSize(D, p) \in 0..(n - 1)
        BY <3>3
      <3>5. Edge(p)
        BY <1>1, <3>3, <3>4
      <3> QED BY <3>1, <3>2, <3>5
    <2> QED BY <2>2, <2>3
  <1>2. Nat \subseteq S
    <2> HIDE DEF S
    <2> QED BY <1>1, NatSetStrong
  <1>3. \A b \in Blocks(D) : PastSize(D, b) \in Nat
    BY PastSizes
  <1> QED
    BY <1>2, <1>3

\* The past of a block on these parents.
PastOver(D, ps) == ps \cup UNION {Past(D, p) : p \in ps}

Boundary(D, sp) == Past(D, sp) \cup {sp}

\* The blocks a block on the parents ps merges over its selected parent sp.
Merged(D, sp, ps) == PastOver(D, ps) \ Boundary(D, sp)

\* One round of the backward walk.
Round(D, boundary, found) == found \cup ((UNION {Parents(D, b) : b \in found}) \ boundary)

\* What one round finds.
LEMMA InRound ==
    ASSUME NEW D, NEW boundary, NEW found, NEW x
    PROVE  x \in Round(D, boundary, found)
           <=> (x \in found \/ (x \notin boundary /\ \E y \in found : x \in Parents(D, y)))
  <1> DEFINE U == UNION {Parents(D, b) : b \in found}
  <1>1. x \in U <=> \E y \in found : x \in Parents(D, y)
    BY Zenon
  <1>2. Round(D, boundary, found) = found \cup (U \ boundary)
    BY DEF Round
  <1> HIDE DEF U
  <1> QED
    BY <1>1, <1>2

IsWalk(D, boundary, ps, walk) ==
    walk = [n \in Nat |-> IF n = 0 THEN ps \ boundary ELSE Round(D, boundary, walk[n - 1])]

\* The walk of MergesetOrdered is well defined.
LEMMA WalkExists ==
    ASSUME NEW D, DagOK(D), NEW boundary, NEW ps \in SUBSET Blocks(D)
    PROVE  \E walk : IsWalk(D, boundary, ps, walk)
  <1> DEFINE V == SUBSET Blocks(D)
             G == [found \in V |-> Round(D, boundary, found)]
  <1>1. \A found \in V : Round(D, boundary, found) \in V
    BY DEF Round, DagOK, NodeOK
  <1>2. G \in [V -> V] /\ ps \ boundary \in V
    BY <1>1
  <1>3. PICK w \in [Nat -> V] : w[0] = ps \ boundary /\ \A n \in Nat : w[n + 1] = G[w[n]]
    <2> HIDE DEF G, V
    <2> QED BY <1>2, NatIteration, SMTT(30)
  <1>4. ASSUME NEW n \in Nat, n # 0 PROVE w[n] = Round(D, boundary, w[n - 1])
    <2>1. n - 1 \in Nat /\ (n - 1) + 1 = n
      BY <1>4
    <2>2. w[n] = G[w[n - 1]] /\ w[n - 1] \in V
      BY <1>3, <2>1
    <2> QED BY <2>2
  <1>5. IsWalk(D, boundary, ps, w)
    <2> HIDE DEF V, G
    <2>1. w = [n \in Nat |-> w[n]]
      BY <1>3
    <2> QED BY <1>3, <1>4, <2>1 DEF IsWalk
  <1> QED
    BY <1>5

\* The backward walk finds what is merged: the past of the parents without that of the
\* selected one (mergeset_ordered, ghostdag.rs).
LEMMA WalkFindsMerged ==
    ASSUME NEW D, DagOK(D), NEW ps \in SUBSET Blocks(D), NEW sp \in Blocks(D),
           NEW walk, IsWalk(D, Boundary(D, sp), ps, walk)
    PROVE  walk[Cardinality(Blocks(D))] = Merged(D, sp, ps)
  <1> DEFINE bd == Boundary(D, sp)
             M == Merged(D, sp, ps)
             N == Cardinality(Blocks(D))
  <1>1. walk[0] = ps \ bd /\ \A n \in Nat : walk[n + 1] = Round(D, bd, walk[n])
    <2>1. ASSUME NEW n \in Nat PROVE walk[n + 1] = Round(D, bd, walk[n])
      <3>1. n + 1 \in Nat /\ n + 1 # 0 /\ (n + 1) - 1 = n
        OBVIOUS
      <3>2. \A k \in Nat : walk[k] = IF k = 0 THEN ps \ bd ELSE Round(D, bd, walk[k - 1])
        BY DEF IsWalk
      <3> QED BY <3>1, <3>2
    <2> QED BY <2>1 DEF IsWalk
  <1>2. \A b \in Blocks(D) : NodeOK(D, b)
    BY DEF DagOK
  <1>3. \A x \in bd : x \in Blocks(D) /\ Past(D, x) \subseteq bd
    BY <1>2 DEF Boundary, NodeOK
  <1>4. M \subseteq Blocks(D) /\ PastOver(D, ps) \subseteq Blocks(D)
    BY <1>2 DEF Merged, PastOver, NodeOK
  <1>5. \A n \in Nat : walk[n] \subseteq M
    <2> DEFINE S == {n \in Nat : walk[n] \subseteq M}
    <2>1. 0 \in S
      BY <1>1 DEF Merged, PastOver
    <2>2. ASSUME NEW n \in Nat, n \in S PROVE n + 1 \in S
      <3>1. ASSUME NEW y \in walk[n], NEW x \in Parents(D, y), x \notin bd PROVE x \in M
        <4>1. y \in PastOver(D, ps) /\ y \in Blocks(D)
          BY <2>2, <1>4 DEF Merged
        <4>2. x \in Past(D, y)
          BY <1>2, <4>1 DEF NodeOK
        <4>3. x \in PastOver(D, ps)
          <5>1. CASE y \in ps
            BY <4>2, <5>1 DEF PastOver
          <5>2. CASE y \notin ps
            <6>1. PICK p \in ps : y \in Past(D, p)
              BY <4>1, <5>2 DEF PastOver
            <6>2. Past(D, y) \subseteq Past(D, p)
              BY <1>2, <6>1 DEF NodeOK
            <6> QED BY <4>2, <6>1, <6>2 DEF PastOver
          <5> QED BY <5>1, <5>2
        <4> QED BY <3>1, <4>3 DEF Merged
      <3>2. Round(D, bd, walk[n]) \subseteq M
        BY <2>2, <3>1, InRound
      <3> QED BY <1>1, <3>2
    <2>3. Nat \subseteq S
      <3> HIDE DEF S
      <3> QED BY <2>1, <2>2, NatSet
    <2> QED BY <2>3
  <1>6. \A n \in Nat : ps \ bd \subseteq walk[n]
    <2> DEFINE S == {n \in Nat : ps \ bd \subseteq walk[n]}
    <2>1. 0 \in S
      BY <1>1
    <2>2. ASSUME NEW n \in Nat, n \in S PROVE n + 1 \in S
      BY <1>1, <2>2 DEF Round
    <2>3. Nat \subseteq S
      <3> HIDE DEF S
      <3> QED BY <2>1, <2>2, NatSet
    <2> QED BY <2>3
  <1>7. ASSUME NEW x \in M, x \notin ps
        PROVE  \E y \in M : x \in Parents(D, y) /\ PastSize(D, x) < PastSize(D, y)
    <2>1. x \notin bd
      BY DEF Merged
    <2>2. PICK p \in ps : x \in Past(D, p)
      BY <1>7 DEF Merged, PastOver
    <2>3. PICK y \in Past(D, p) \cup {p} : x \in Parents(D, y)
      BY <2>2, LastEdge
    <2>4. y \in PastOver(D, ps) /\ y \in Blocks(D)
      BY <2>2, <2>3, <1>4 DEF PastOver
    <2>5. x \in Past(D, y)
      BY <1>2, <2>3, <2>4 DEF NodeOK
    <2>6. y \notin bd
      BY <1>3, <2>1, <2>5
    <2>7. PastSize(D, x) < PastSize(D, y)
      BY <2>4, <2>5, PastSizes
    <2> QED BY <2>3, <2>4, <2>6, <2>7 DEF Merged
  <1>8. N \in Nat /\ \A x \in Blocks(D) : PastSize(D, x) \in Nat /\ PastSize(D, x) < N
    <2>1. N \in Nat
      BY FS_CardinalityType DEF DagOK
    <2> QED BY <2>1, PastSizes
  <1> HIDE DEF bd, M, N
  <1>9. \A n \in Nat : \A x \in M : PastSize(D, x) + n >= N => x \in walk[n]
    <2> DEFINE S == {n \in Nat : \A x \in M : PastSize(D, x) + n >= N => x \in walk[n]}
    <2>1. 0 \in S
      BY <1>4, <1>8
    <2>2. ASSUME NEW n \in Nat, n \in S PROVE n + 1 \in S
      <3> SUFFICES ASSUME NEW x \in M, PastSize(D, x) + (n + 1) >= N PROVE x \in walk[n + 1]
        OBVIOUS
      <3>1. x \notin bd
        BY DEF M, Merged, bd
      <3>2. CASE x \in ps
        BY <1>6, <3>1, <3>2
      <3>3. CASE x \notin ps
        <4>1. PICK y \in M : x \in Parents(D, y) /\ PastSize(D, x) < PastSize(D, y)
          BY <1>7, <3>3
        <4>2. PastSize(D, x) \in Nat /\ PastSize(D, y) \in Nat
          BY <1>4, <1>8
        <4>3. y \in walk[n]
          BY <1>8, <2>2, <4>1, <4>2
        <4>4. x \in Round(D, bd, walk[n])
          BY <3>1, <4>1, <4>3, InRound
        <4> QED BY <1>1, <4>4
      <3> QED BY <3>2, <3>3
    <2>3. Nat \subseteq S
      <3> HIDE DEF S
      <3> QED BY <2>1, <2>2, NatSet
    <2> QED BY <2>3
  <1>10. M \subseteq walk[N]
    BY <1>4, <1>8, <1>9
  <1>11. walk[N] = M
    BY <1>5, <1>8, <1>10
  <1> QED
    BY <1>11 DEF M, N

\* mergeset_ordered sorts what is merged.
LEMMA MergesetIsMerged ==
    ASSUME NEW D, DagOK(D), NEW ps \in SUBSET Blocks(D), NEW sp \in Blocks(D)
    PROVE  MergesetOrdered(D, sp, ps) = SortByTopoKey(D, Merged(D, sp, ps))
  <1> DEFINE walk == CHOOSE w : IsWalk(D, Boundary(D, sp), ps, w)
  <1>1. IsWalk(D, Boundary(D, sp), ps, walk)
    BY WalkExists
  <1>2. MergesetOrdered(D, sp, ps) = SortByTopoKey(D, walk[Cardinality(Blocks(D))])
    BY DEF MergesetOrdered, IsWalk, Round, Boundary, Past
  <1> HIDE DEF walk
  <1> QED
    BY <1>1, <1>2, WalkFindsMerged

\* What is merged is new: blocks outside the selected parent's past.
LEMMA MergedNew ==
    ASSUME NEW D, DagOK(D), NEW ps \in SUBSET Blocks(D), NEW sp \in ps
    PROVE  /\ Merged(D, sp, ps) \in SUBSET Blocks(D) /\ sp \in Blocks(D)
           /\ Boundary(D, sp) \cup Merged(D, sp, ps) = PastOver(D, ps)
           /\ PastOver(D, ps) \in SUBSET Blocks(D)
           /\ \A b \in PastOver(D, ps) : Past(D, b) \subseteq PastOver(D, ps)
           /\ IsFiniteSet(PastOver(D, ps))
           /\ Cardinality(PastOver(D, ps)) = PastSize(D, sp) + 1 + Cardinality(Merged(D, sp, ps))
  <1> DEFINE M == Merged(D, sp, ps)
             P == Past(D, sp)
             B == Boundary(D, sp)
             Q == PastOver(D, ps)
  <1>1. IsFiniteSet(Blocks(D)) /\ \A b \in Blocks(D) : NodeOK(D, b)
    BY DEF DagOK
  <1>2. P \in SUBSET Blocks(D) /\ sp \notin P /\ PastSize(D, sp) = Cardinality(P) /\ sp \in Blocks(D)
    BY <1>1 DEF NodeOK
  <1>3. ASSUME NEW b \in Q PROVE b \in Blocks(D) /\ Past(D, b) \subseteq Q
    <2>1. CASE b \in ps
      BY <2>1 DEF PastOver
    <2>2. CASE b \notin ps
      <3>1. PICK p \in ps : b \in Past(D, p)
        BY <2>2 DEF PastOver
      <3>2. Past(D, b) \subseteq Past(D, p) /\ b \in Blocks(D)
        BY <1>1, <3>1 DEF NodeOK
      <3> QED BY <3>1, <3>2 DEF PastOver
    <2> QED BY <2>1, <2>2
  <1>4. B \cup M = Q
    BY DEF PastOver, Boundary, Merged
  <1>5. Q \in SUBSET Blocks(D) /\ M \in SUBSET Blocks(D)
    BY <1>3 DEF Merged
  <1>6. IsFiniteSet(M) /\ IsFiniteSet(P) /\ IsFiniteSet(Q)
    BY <1>1, <1>2, <1>5, FS_Subset
  <1>7. IsFiniteSet(B) /\ Cardinality(B) = PastSize(D, sp) + 1
    BY <1>2, <1>6, FS_AddElement DEF Boundary
  <1>8. Cardinality(B \cap M) = 0 /\ Cardinality(B) \in Nat /\ Cardinality(M) \in Nat
    <2>1. B \cap M = {}
      BY DEF Merged
    <2> QED BY <1>6, <1>7, <2>1, FS_EmptySet, FS_CardinalityType
  <1>9. Cardinality(B \cup M) = Cardinality(B) + Cardinality(M) - Cardinality(B \cap M)
    BY <1>6, <1>7, FS_Union
  <1>10. Cardinality(Q) = PastSize(D, sp) + 1 + Cardinality(M)
    <2> HIDE DEF B, M, Q, P
    <2>1. Cardinality(Q) = Cardinality(B) + Cardinality(M) - 0
      BY <1>4, <1>8, <1>9
    <2> QED BY <2>1, <1>7, <1>8
  <1> QED
    BY <1>2, <1>3, <1>4, <1>5, <1>6, <1>10

----------------------------------------------------------------------------
(***************************************************************************)
(* Colouring.                                                              *)
(***************************************************************************)
Colouring == INSTANCE DataTheorems WITH FoldStep <- ColourCandidate

AddWork(D, sum, b) == sum + Work(D, b)
WorkSum == INSTANCE DataTheorems WITH FoldStep <- AddWork

Seed(D, sp) ==
    [b \in DOMAIN D.nodes[sp].blue_anticone_sizes \cup {sp} |->
        IF b = sp THEN 0 ELSE D.nodes[sp].blue_anticone_sizes[b]]

\* What colouring has done after i candidates of s.
Coloured(seed, s, i, acc) ==
    /\ acc = [sizes |-> acc.sizes, blues |-> acc.blues, reds |-> acc.reds]
    /\ acc.blues \in Seq(Range(s)) /\ acc.reds \in Seq(Range(s))
    /\ Len(acc.blues) + Len(acc.reds) = i
    /\ DOMAIN acc.sizes \subseteq DOMAIN seed \cup Range(s)

\* One candidate more.
LEMMA ColourStep ==
    ASSUME NEW D, NEW seed, NEW s, NEW i \in Nat, NEW acc, Coloured(seed, s, i, acc),
           NEW c \in Range(s)
    PROVE  Coloured(seed, s, i + 1, ColourCandidate(D, acc, c))
  <1> DEFINE next == ColourCandidate(D, acc, c)
             try == TryColourBlue(D, c, acc.sizes)
             f == [b \in DOMAIN acc.sizes \cup {c} |->
                     IF b = c THEN Cardinality(try.increments)
                     ELSE IF b \in try.increments THEN acc.sizes[b] + 1 ELSE acc.sizes[b]]
  <1>1. next = IF try.blue THEN [acc EXCEPT !.sizes = f, !.blues = Append(@, c)]
               ELSE [acc EXCEPT !.reds = Append(@, c)]
    BY DEF ColourCandidate
  <1>2. DOMAIN f = DOMAIN acc.sizes \cup {c}
    OBVIOUS
  <1> HIDE DEF next, try, f
  <1>3. /\ acc = [sizes |-> acc.sizes, blues |-> acc.blues, reds |-> acc.reds]
        /\ acc.blues \in Seq(Range(s)) /\ acc.reds \in Seq(Range(s))
        /\ Len(acc.blues) + Len(acc.reds) = i
        /\ DOMAIN acc.sizes \subseteq DOMAIN seed \cup Range(s)
    BY DEF Coloured
  <1>4. Len(acc.blues) \in Nat /\ Len(acc.reds) \in Nat
    BY <1>3
  <1>5. CASE try.blue
    <2>1. next = [sizes |-> f, blues |-> Append(acc.blues, c), reds |-> acc.reds]
      BY <1>1, <1>3, <1>5
    <2>2. Append(acc.blues, c) \in Seq(Range(s)) /\ Len(Append(acc.blues, c)) = Len(acc.blues) + 1
      BY <1>3
    <2>3. Coloured(seed, s, i + 1, next)
      BY <1>2, <1>3, <1>4, <2>1, <2>2 DEF Coloured
    <2> QED BY <2>3 DEF next
  <1>6. CASE ~try.blue
    <2>1. next = [sizes |-> acc.sizes, blues |-> acc.blues, reds |-> Append(acc.reds, c)]
      BY <1>1, <1>3, <1>6
    <2>2. Append(acc.reds, c) \in Seq(Range(s)) /\ Len(Append(acc.reds, c)) = Len(acc.reds) + 1
      BY <1>3
    <2>3. Coloured(seed, s, i + 1, next)
      BY <1>3, <1>4, <2>1, <2>2 DEF Coloured
    <2> QED BY <2>3 DEF next
  <1> QED
    BY <1>5, <1>6

\* h lists the steps of colouring the n candidates of s.
ColourRun(D, seed, s, n, h) ==
    /\ h[0] = [sizes |-> seed, blues |-> <<>>, reds |-> <<>>]
    /\ \A i \in 1..n : h[i] = ColourCandidate(D, h[i - 1], s[i])
    /\ \A i \in 0..n : Coloured(seed, s, i, h[i])
    /\ ColourAll(D, seed, s) = h[n]

\* There is such a list.
LEMMA ColourSteps ==
    ASSUME NEW D, NEW seed, NEW s, NEW n \in Nat, DOMAIN s = 1..n
    PROVE  \E h : ColourRun(D, seed, s, n, h)
  <1> DEFINE base == [sizes |-> seed, blues |-> <<>>, reds |-> <<>>]
  <1>1. PICK h : Colouring!Steps(D, base, s, n, h) /\ Colouring!Fold(D, base, s) = h[n]
    BY Colouring!FoldSteps
  <1>2. h[0] = base /\ \A i \in 1..n : h[i] = ColourCandidate(D, h[i - 1], s[i])
    BY <1>1 DEF Colouring!Steps
  <1> DEFINE S == {i \in Nat : Coloured(seed, s, i, h[i])}
  <1>3. 0 \in S
    <2>1. <<>> \in Seq(Range(s)) /\ Len(<<>>) = 0
      OBVIOUS
    <2>2. Coloured(seed, s, 0, base)
      BY <2>1 DEF Coloured
    <2> QED BY <1>2, <2>2
  <1>4. ASSUME NEW i \in 0..(n - 1), i \in S PROVE i + 1 \in S
    <2>1. i + 1 \in 1..n /\ (i + 1) - 1 = i /\ i + 1 \in Nat
      OBVIOUS
    <2>2. h[i + 1] = ColourCandidate(D, h[i], s[i + 1])
      BY <1>2, <2>1
    <2>3. s[i + 1] \in Range(s)
      BY <2>1 DEF Range
    <2>4. Coloured(seed, s, i, h[i])
      BY <1>4
    <2> QED BY <2>1, <2>2, <2>3, <2>4, ColourStep
  <1>5. 0..n \subseteq S
    <2> HIDE DEF S
    <2> QED BY <1>3, <1>4, NatSetTo
  <1>6. ColourAll(D, seed, s) = Colouring!Fold(D, base, s)
    BY DEF ColourAll, Colouring!Fold, FoldLeft, MapThenFoldSet, Max, Colouring!Largest
  <1>7. ColourRun(D, seed, s, n, h)
    BY <1>1, <1>2, <1>5, <1>6 DEF ColourRun
  <1> QED
    BY <1>7

\* Every candidate is coloured, blue or red.
LEMMA ColourSplits ==
    ASSUME NEW D, NEW seed, NEW s, NEW n \in Nat, DOMAIN s = 1..n
    PROVE  Coloured(seed, s, n, ColourAll(D, seed, s))
  <1>1. PICK h : ColourRun(D, seed, s, n, h)
    BY ColourSteps
  <1>2. n \in 0..n
    OBVIOUS
  <1> QED
    BY <1>1, <1>2 DEF ColourRun

\* Works add up to a number.
LEMMA SumWorkInt ==
    ASSUME NEW D, DagOK(D), NEW blues \in Seq(Blocks(D))
    PROVE  SumWork(D, blues) \in Int
  <1>1. \A i \in 1..Len(blues) : Work(D, blues[i]) \in Int
    <2>1. \A b \in Blocks(D) : Work(D, b) \in Int
      BY DEF DagOK, NodeOK
    <2>2. \A i \in 1..Len(blues) : blues[i] \in Blocks(D)
      OBVIOUS
    <2> QED BY <2>1, <2>2
  <1>2. \A sum \in Int, i \in 1..Len(blues) : AddWork(D, sum, blues[i]) \in Int
    BY <1>1 DEF AddWork
  <1>3. WorkSum!Fold(D, 0, blues) \in Int
    BY <1>2, WorkSum!FoldInvariant
  <1>4. SumWork(D, blues) = WorkSum!Fold(D, 0, blues)
    BY DEF SumWork, AddWork, WorkSum!Fold, FoldLeft, MapThenFoldSet, Max, WorkSum!Largest
  <1> QED
    BY <1>3, <1>4

\* What compute_ghostdag returns for a block on the parents ps: a selected parent among
\* them, numbers, and a mergeset that with the selected parent's past is the block's.
LEMMA GhostdagTyped ==
    ASSUME NEW D, DagOK(D), NEW ps \in SUBSET Blocks(D), ps # {}
    PROVE  /\ ComputeGhostdag(D, ps).selected_parent = Heaviest(D, ps)
           /\ Heaviest(D, ps) \in ps
           /\ ComputeGhostdag(D, ps).blue_score \in Int
           /\ ComputeGhostdag(D, ps).blue_work \in Int
           /\ DOMAIN ComputeGhostdag(D, ps).blue_anticone_sizes \subseteq PastOver(D, ps)
           /\ PastSize(D, Heaviest(D, ps)) + 1 + Len(ComputeGhostdag(D, ps).mergeset_blues)
                + Len(ComputeGhostdag(D, ps).mergeset_reds) = Cardinality(PastOver(D, ps))
  <1> DEFINE sp == Heaviest(D, ps)
             g == ComputeGhostdag(D, ps)
             s == MergesetOrdered(D, sp, ps)
             M == Merged(D, sp, ps)
             done == ColourAll(D, Seed(D, sp), s)
             n == Cardinality(M)
  <1>1. sp \in ps /\ sp \in Blocks(D)
    BY HeaviestIn
  <1>2. g = [selected_parent |-> sp,
             mergeset_blues |-> done.blues, mergeset_reds |-> done.reds,
             blue_score |-> D.nodes[sp].blue_score + 1 + Len(done.blues),
             blue_work |-> D.nodes[sp].blue_work + Work(D, sp) + SumWork(D, done.blues),
             blue_anticone_sizes |-> done.sizes]
    BY DEF ComputeGhostdag, Seed
  <1> HIDE DEF sp, g, s, done
  <1>3. s = SortByTopoKey(D, M)
    BY <1>1, MergesetIsMerged DEF s
  <1>4. M \in SUBSET Blocks(D) /\ Boundary(D, sp) \cup M = PastOver(D, ps)
        /\ Cardinality(PastOver(D, ps)) = PastSize(D, sp) + 1 + n
    BY <1>1, MergedNew
  <1> HIDE DEF M
  <1>5. Lists(D, s, M)
    BY <1>3, <1>4, SortLists
  <1> HIDE DEF n
  <1>6. n \in Nat /\ DOMAIN s = 1..n /\ Range(s) \subseteq M
    BY <1>5 DEF Lists, Range, n
  <1>7. Coloured(Seed(D, sp), s, n, done)
    BY <1>6, ColourSplits DEF done
  <1>8. /\ done.blues \in Seq(Range(s)) /\ done.reds \in Seq(Range(s))
        /\ Len(done.blues) + Len(done.reds) = n
        /\ DOMAIN done.sizes \subseteq DOMAIN Seed(D, sp) \cup Range(s)
    BY <1>7 DEF Coloured
  <1>9. Len(done.blues) \in Nat /\ Len(done.reds) \in Nat /\ done.blues \in Seq(Blocks(D))
    BY <1>4, <1>6, <1>8
  <1>10. SumWork(D, done.blues) \in Int
    BY <1>9, SumWorkInt
  <1>11. NodeOK(D, sp) /\ PastSize(D, sp) \in Nat
    BY <1>1, PastSizes DEF DagOK
  <1>12. DOMAIN Seed(D, sp) \subseteq Boundary(D, sp)
    BY <1>11 DEF Seed, Boundary, NodeOK
  <1>13. g.blue_score \in Int /\ g.blue_work \in Int
    <2>1. D.nodes[sp].blue_score \in Int /\ D.nodes[sp].blue_work \in Int /\ Work(D, sp) \in Int
      BY <1>11 DEF NodeOK
    <2>2. /\ g.blue_score = D.nodes[sp].blue_score + 1 + Len(done.blues)
          /\ g.blue_work = D.nodes[sp].blue_work + Work(D, sp) + SumWork(D, done.blues)
      BY <1>2
    <2>3. Len(done.blues) \in Int
      BY <1>9
    <2>4. \A a, b \in Int : a + 1 + b \in Int
      OBVIOUS
    <2>5. \A a, b, c \in Int : a + b + c \in Int
      OBVIOUS
    <2>6. g.blue_score \in Int
      BY <2>1, <2>2, <2>3, <2>4
    <2>7. g.blue_work \in Int
      BY <1>10, <2>1, <2>2, <2>5
    <2> QED BY <2>6, <2>7
  <1>14. DOMAIN g.blue_anticone_sizes \subseteq PastOver(D, ps)
    BY <1>2, <1>4, <1>6, <1>8, <1>12
  <1>15. PastSize(D, sp) + 1 + Len(g.mergeset_blues) + Len(g.mergeset_reds) = Cardinality(PastOver(D, ps))
    <2>1. g.mergeset_blues = done.blues /\ g.mergeset_reds = done.reds
      BY <1>2
    <2>2. \A a, x, y \in Nat : x + y = n => a + 1 + x + y = a + 1 + n
      BY <1>6
    <2>3. PastSize(D, sp) + 1 + Len(done.blues) + Len(done.reds) = PastSize(D, sp) + 1 + n
      BY <1>8, <1>9, <1>11, <2>2
    <2> QED BY <1>4, <2>1, <2>3
  <1> QED
    BY <1>1, <1>2, <1>13, <1>14, <1>15 DEF sp, g

----------------------------------------------------------------------------
(***************************************************************************)
(* Insertion.                                                              *)
(***************************************************************************)

\* E is part of D: what it has, D has too.
Within(E, D) == Blocks(E) \subseteq Blocks(D) /\ \A b \in Blocks(E) : E.nodes[b] = D.nodes[b]

\* A node is right in every dag that has the blocks it speaks of.
LEMMA NodeWithin ==
    ASSUME NEW D, NEW E, Within(E, D), NEW b \in Blocks(E), NodeOK(E, b),
           \A a \in Past(E, b) : a \in Blocks(E)
    PROVE  NodeOK(D, b)
  <1>1. \A a \in Blocks(E) : /\ Parents(D, a) = Parents(E, a) /\ Past(D, a) = Past(E, a)
                             /\ PastSize(D, a) = PastSize(E, a) /\ Work(D, a) = Work(E, a)
                             /\ SelectedParent(D, a) = SelectedParent(E, a)
                             /\ D.nodes[a] = E.nodes[a] /\ a \in Blocks(D)
    BY DEF Within, Parents, Past, PastSize, Work, SelectedParent
  <1>2. {Past(D, p) : p \in Parents(D, b)} = {Past(E, p) : p \in Parents(E, b)}
    BY <1>1 DEF NodeOK
  <1>3. /\ Parents(D, b) \subseteq Blocks(D)
        /\ Past(D, b) \subseteq Blocks(D) \ {b}
        /\ \A a \in Past(D, b) : Past(D, a) \subseteq Past(D, b)
    BY <1>1 DEF NodeOK
  <1>4. Past(D, b) = Parents(D, b) \cup UNION {Past(D, p) : p \in Parents(D, b)}
    BY <1>1, <1>2 DEF NodeOK
  <1> QED
    BY <1>1, <1>3, <1>4 DEF NodeOK

\* The dag insert makes: one node more, the others as they were.
LEMMA InsertNodes ==
    ASSUME NEW D, DagOK(D), NEW id, NEW block, CanInsert(D, id, block)
    PROVE  /\ Blocks(InsertBlock(D, id, block)) = Blocks(D) \cup {id}
           /\ Within(D, InsertBlock(D, id, block))
           /\ InsertBlock(D, id, block).tips = (D.tips \ block.parents) \cup {id}
           /\ InsertBlock(D, id, block).nodes[id] =
                NodeFor(D, block, Cardinality(PastOver(D, block.parents)),
                        ComputeGhostdag(D, block.parents))
           /\ PastOver(D, block.parents) \in SUBSET Blocks(D)
           /\ InsertBlock(D, id, block).nodes[id].past = PastOver(D, block.parents)
  <1> DEFINE ps == block.parents
             g == ComputeGhostdag(D, ps)
             node == NodeFor(D, block, D.nodes[g.selected_parent].past_size + 1
                                         + Len(g.mergeset_blues) + Len(g.mergeset_reds), g)
             E == InsertBlock(D, id, block)
  <1>1. E = [nodes |-> Put(D.nodes, id, node), tips |-> (D.tips \ ps) \cup {id}]
    BY DEF InsertBlock
  <1>2. ps \in SUBSET Blocks(D) /\ ps # {} /\ id \notin Blocks(D)
    BY DEF CanInsert
  <1>3. node = NodeFor(D, block, Cardinality(PastOver(D, ps)), g)
    BY <1>2, GhostdagTyped DEF PastSize
  <1>4. NodeFor(D, block, Cardinality(PastOver(D, ps)), g).past = PastOver(D, ps)
    BY DEF NodeFor, PastOver, Past
  <1>5. PastOver(D, ps) \in SUBSET Blocks(D)
    BY <1>2, HeaviestIn, MergedNew
  <1> HIDE DEF node, g, E
  <1> QED
    BY <1>1, <1>2, <1>3, <1>4, <1>5 DEF Put, Blocks, Within, E, g

\* insert keeps a dag a dag.
LEMMA InsertKeeps ==
    ASSUME NEW D, DagOK(D), NEW id \in Nat \ {GenesisId}, NEW block, block.work \in Int,
           CanInsert(D, id, block)
    PROVE  DagOK(InsertBlock(D, id, block))
  <1> DEFINE E == InsertBlock(D, id, block)
             ps == block.parents
             g == ComputeGhostdag(D, ps)
             Q == PastOver(D, ps)
  <1>1. ps \in SUBSET Blocks(D) /\ ps # {} /\ id \notin Blocks(D)
    BY DEF CanInsert
  <1>2. /\ Blocks(E) = Blocks(D) \cup {id} /\ Within(D, E) /\ E.tips = (D.tips \ ps) \cup {id}
        /\ E.nodes[id] = NodeFor(D, block, Cardinality(Q), g)
        /\ Q \in SUBSET Blocks(D)
    BY InsertNodes
  <1> HIDE DEF E
  <1>3. \A b \in Blocks(D) : NodeOK(D, b) /\ \A a \in Past(D, b) : a \in Blocks(D)
    BY DEF DagOK, NodeOK
  <1>4. \A b \in Blocks(D) : NodeOK(E, b)
    BY <1>2, <1>3, NodeWithin
  <1>5. \A b \in Blocks(D) : Past(E, b) = Past(D, b) /\ b \in Blocks(E)
    BY <1>2 DEF Within, Past
  <1>6. /\ Parents(E, id) = ps /\ Past(E, id) = Q /\ PastSize(E, id) = Cardinality(Q)
        /\ SelectedParent(E, id) = g.selected_parent
        /\ E.nodes[id].blue_score = g.blue_score /\ E.nodes[id].blue_work = g.blue_work
        /\ E.nodes[id].blue_anticone_sizes = g.blue_anticone_sizes
        /\ Work(E, id) = block.work
    BY <1>2 DEF NodeFor, Parents, Past, PastSize, SelectedParent, Work, PastOver
  <1>7. NodeOK(E, id)
    <2>1. /\ g.selected_parent \in ps /\ g.blue_score \in Int /\ g.blue_work \in Int
          /\ DOMAIN g.blue_anticone_sizes \subseteq Q
      BY <1>1, GhostdagTyped
    <2>2. \A b \in Q : Past(D, b) \subseteq Q
      BY <1>1, <2>1, MergedNew
    <2>3. Q = ps \cup UNION {Past(E, p) : p \in ps}
      <3>1. {Past(E, p) : p \in ps} = {Past(D, p) : p \in ps}
        BY <1>1, <1>5
      <3> QED BY <3>1 DEF PastOver
    <2>4. GenesisId \in Q
      <3>1. PICK p \in ps : TRUE
        BY <1>1
      <3>2. p = GenesisId \/ GenesisId \in Past(D, p)
        BY <1>1, <1>3 DEF NodeOK
      <3> QED BY <3>1, <3>2 DEF PastOver
    <2> HIDE DEF g, ps, Q
    <2>5. /\ ps \subseteq Blocks(E) /\ Q \subseteq Blocks(E) \ {id}
          /\ \A a \in Q : Past(E, a) \subseteq Q
      BY <1>1, <1>2, <1>5, <2>2
    <2> QED BY <1>6, <2>1, <2>3, <2>4, <2>5 DEF NodeOK
  <1>8. /\ IsFiniteSet(Blocks(E)) /\ Blocks(E) \subseteq Nat /\ GenesisId \in Blocks(E)
        /\ E.tips \subseteq Blocks(E) /\ E.tips # {}
    BY <1>2, FS_AddElement DEF DagOK
  <1>9. ASSUME NEW b \in Blocks(E) PROVE \E t \in E.tips : b = t \/ b \in Past(E, t)
    <2>1. id \in E.tips
      BY <1>2
    <2>2. CASE b \in Q \/ b = id
      BY <1>6, <2>1, <2>2
    <2>3. CASE b \notin Q /\ b # id
      <3>1. b \in Blocks(D)
        BY <1>2, <2>3
      <3>2. PICK t \in D.tips : b = t \/ b \in Past(D, t)
        BY <3>1 DEF DagOK
      <3>3. t \notin ps
        BY <2>3, <3>2 DEF PastOver
      <3>4. t \in E.tips /\ t \in Blocks(D)
        BY <1>2, <3>3 DEF DagOK
      <3> QED BY <1>5, <3>2, <3>4
    <2> QED BY <2>2, <2>3
  <1> QED
    BY <1>2, <1>4, <1>7, <1>8, <1>9 DEF DagOK, E

\* The first dag is one.
LEMMA NewDagOK ==
    ASSUME NEW genesis, genesis.parents = {}, genesis.work \in Int
    PROVE  DagOK(NewDag(genesis)) /\ Blocks(NewDag(genesis)) = {GenesisId}
  <1> DEFINE D == NewDag(genesis)
  <1>1. /\ Blocks(D) = {GenesisId} /\ D.tips = {GenesisId}
        /\ D.nodes[GenesisId].block = genesis /\ D.nodes[GenesisId].past = {}
        /\ D.nodes[GenesisId].past_size = 0 /\ D.nodes[GenesisId].selected_parent = NoBlock
        /\ D.nodes[GenesisId].blue_score = 0 /\ D.nodes[GenesisId].blue_work = 0
        /\ DOMAIN D.nodes[GenesisId].blue_anticone_sizes = {}
    BY DEF NewDag, Blocks
  <1> HIDE DEF D
  <1>2. Cardinality({}) = 0 /\ IsFiniteSet({GenesisId}) /\ GenesisId \in Nat
    BY FS_EmptySet, FS_Singleton DEF GenesisId
  <1>3. NodeOK(D, GenesisId)
    BY <1>1, <1>2 DEF NodeOK, Parents, Past, PastSize, SelectedParent, Work
  <1> QED
    BY <1>1, <1>2, <1>3 DEF DagOK, D

----------------------------------------------------------------------------
(***************************************************************************)
(* The selected chain.                                                     *)
(***************************************************************************)
OnChain(D, c, b) ==
    IF SelectedParent(D, b) = NoBlock THEN <<b>> ELSE Append(c[SelectedParent(D, b)], b)

\* The recursive function of selected_chain, as a fact about c.
IsChain(D, c) == c = [b \in Blocks(D) |-> OnChain(D, c, b)]

\* The selected chain that ends in b.
ChainTo(D, b) == (CHOOSE c : IsChain(D, c))[b]

\* Only genesis has no selected parent; that of another block is in its past.
LEMMA ParentSelected ==
    ASSUME NEW D, DagOK(D), NEW b \in Blocks(D)
    PROVE  /\ SelectedParent(D, b) = NoBlock <=> b = GenesisId
           /\ b # GenesisId =>
                /\ SelectedParent(D, b) \in Past(D, b) /\ SelectedParent(D, b) \in Blocks(D)
                /\ SelectedParent(D, b) \in Parents(D, b)
                /\ PastSize(D, SelectedParent(D, b)) < PastSize(D, b)
  <1>1. NodeOK(D, b)
    BY DEF DagOK
  <1>2. NoBlock \notin Blocks(D)
    BY DEF DagOK, NoBlock
  <1>3. b # GenesisId => SelectedParent(D, b) \in Past(D, b) /\ SelectedParent(D, b) \in Parents(D, b)
    BY <1>1 DEF NodeOK
  <1>4. b = GenesisId => SelectedParent(D, b) = NoBlock
    BY <1>1 DEF NodeOK
  <1> QED
    BY <1>2, <1>3, <1>4, PastSizes

\* The chains of SelectedChain are well defined.
LEMMA ChainExists ==
    ASSUME NEW D, DagOK(D)
    PROVE  \E c : IsChain(D, c)
  <1> DEFINE Q == Seq(Blocks(D))
             V == [Blocks(D) -> Q]
             N == Cardinality(Blocks(D))
             Extend(c) == [b \in Blocks(D) |-> OnChain(D, c, b)]
             G == [c \in V |-> Extend(c)]
             none == [b \in Blocks(D) |-> <<>>]
  <1>1. \A b \in Blocks(D) : /\ b # GenesisId => SelectedParent(D, b) \in Blocks(D)
                             /\ SelectedParent(D, b) = NoBlock <=> b = GenesisId
    BY ParentSelected
  <1>2. ASSUME NEW c \in V PROVE Extend(c) \in V
    <2>1. ASSUME NEW b \in Blocks(D) PROVE OnChain(D, c, b) \in Q
      <3>1. CASE b = GenesisId
        BY <1>1, <3>1 DEF OnChain
      <3>2. CASE b # GenesisId
        <4>1. c[SelectedParent(D, b)] \in Q
          BY <1>1, <3>2
        <4> QED BY <1>1, <3>2, <4>1 DEF OnChain
      <3> QED BY <3>1, <3>2
    <2> QED BY <2>1
  <1>3. G \in [V -> V] /\ none \in V
    BY <1>2
  <1>4. PICK w \in [Nat -> V] : w[0] = none /\ \A n \in Nat : w[n + 1] = G[w[n]]
    <2> HIDE DEF G, V, none
    <2> QED BY <1>3, NatIteration
  <1>5. \A n \in Nat : w[n + 1] = Extend(w[n]) /\ w[n] \in V
    BY <1>4
  <1> HIDE DEF G, Q
  <1>6. \A n \in Nat : \A b \in Blocks(D) : w[n + 1][b] = OnChain(D, w[n], b)
    BY <1>5
  <1>7. \A n \in Nat : \A b \in Blocks(D) : PastSize(D, b) < n => w[n + 1][b] = w[n][b]
    <2> DEFINE S == {n \in Nat : \A b \in Blocks(D) : PastSize(D, b) < n => w[n + 1][b] = w[n][b]}
    <2>1. 0 \in S
      BY PastSizes
    <2>2. ASSUME NEW n \in Nat, n \in S PROVE n + 1 \in S
      <3> SUFFICES ASSUME NEW b \in Blocks(D), PastSize(D, b) < n + 1
                   PROVE  w[(n + 1) + 1][b] = w[n + 1][b]
        OBVIOUS
      <3>1. w[(n + 1) + 1][b] = OnChain(D, w[n + 1], b) /\ w[n + 1][b] = OnChain(D, w[n], b)
        BY <1>6
      <3>2. CASE b = GenesisId
        BY <1>1, <3>1, <3>2 DEF OnChain
      <3>3. CASE b # GenesisId
        <4>1. SelectedParent(D, b) \in Blocks(D) /\ PastSize(D, SelectedParent(D, b)) < PastSize(D, b)
          BY <3>3, ParentSelected
        <4>2. PastSize(D, SelectedParent(D, b)) < n
          BY <4>1, PastSizes
        <4>3. w[n + 1][SelectedParent(D, b)] = w[n][SelectedParent(D, b)]
          BY <2>2, <4>1, <4>2
        <4> QED BY <3>1, <4>3 DEF OnChain
      <3> QED BY <3>2, <3>3
    <2>3. Nat \subseteq S
      <3> HIDE DEF S
      <3> QED BY <2>1, <2>2, NatSet
    <2> QED BY <2>3
  <1>8. N \in Nat /\ \A b \in Blocks(D) : PastSize(D, b) < N
    <2>1. N \in Nat
      BY FS_CardinalityType DEF DagOK
    <2> QED BY <2>1, PastSizes
  <1>9. \A b \in Blocks(D) : w[N][b] = OnChain(D, w[N], b)
    BY <1>6, <1>7, <1>8
  <1>10. w[N] = [b \in Blocks(D) |-> w[N][b]]
    BY <1>5, <1>8
  <1>11. IsChain(D, w[N])
    BY <1>9, <1>10 DEF IsChain
  <1> QED
    BY <1>11

\* The chain to a block is the one to its selected parent, and the block.
LEMMA ChainStep ==
    ASSUME NEW D, DagOK(D), NEW b \in Blocks(D)
    PROVE  ChainTo(D, b) = IF b = GenesisId THEN <<b>>
                           ELSE Append(ChainTo(D, SelectedParent(D, b)), b)
  <1> DEFINE c == CHOOSE c : IsChain(D, c)
  <1>1. IsChain(D, c)
    BY ChainExists
  <1> HIDE DEF c
  <1>2. c[b] = OnChain(D, c, b)
    BY <1>1 DEF IsChain
  <1>3. SelectedParent(D, b) = NoBlock <=> b = GenesisId
    BY ParentSelected
  <1> QED
    BY <1>2, <1>3 DEF OnChain, ChainTo, c

\* selected_chain is the chain of the selected tip.
LEMMA SelectedChainTo ==
    ASSUME NEW D
    PROVE  SelectedChain(D) = ChainTo(D, SelectedTip(D))
  BY DEF SelectedChain, ChainTo, IsChain, OnChain, SelectedParent

\* A chain of selected parents that ends in b.
Linked(D, c, b) ==
    /\ c \in Seq(Blocks(D)) /\ c # <<>> /\ c[Len(c)] = b
    /\ \A i \in 2..Len(c) : c[i - 1] = SelectedParent(D, c[i]) /\ c[i] # GenesisId

\* The selected chain is such a chain.
LEMMA ChainLinked ==
    ASSUME NEW D, DagOK(D)
    PROVE  \A b \in Blocks(D) : Linked(D, ChainTo(D, b), b)
  <1> DEFINE S == {n \in Nat : \A b \in Blocks(D) : PastSize(D, b) = n => Linked(D, ChainTo(D, b), b)}
  <1>1. ASSUME NEW n \in Nat, \A m \in 0..(n - 1) : m \in S PROVE n \in S
    <2> SUFFICES ASSUME NEW b \in Blocks(D), PastSize(D, b) = n PROVE Linked(D, ChainTo(D, b), b)
      OBVIOUS
    <2> DEFINE sp == SelectedParent(D, b)
               c == ChainTo(D, sp)
               e == Append(c, b)
    <2>1. CASE b = GenesisId
      <3>1. ChainTo(D, b) = <<b>>
        BY <2>1, ChainStep
      <3>2. <<b>> \in Seq(Blocks(D)) /\ <<b>> # <<>> /\ Len(<<b>>) = 1 /\ <<b>>[1] = b
        OBVIOUS
      <3> QED BY <3>1, <3>2 DEF Linked
    <2>2. CASE b # GenesisId
      <3>1. ChainTo(D, b) = e /\ sp \in Blocks(D) /\ PastSize(D, sp) < n
        BY <2>2, ChainStep, ParentSelected
      <3>2. PastSize(D, sp) \in 0..(n - 1)
        BY <3>1, PastSizes
      <3>3. Linked(D, c, sp)
        BY <1>1, <3>1, <3>2
      <3> HIDE DEF c, e, sp
      <3>4. c \in Seq(Blocks(D)) /\ c # <<>> /\ c[Len(c)] = sp
        BY <3>3 DEF Linked
      <3>5. /\ e \in Seq(Blocks(D)) /\ e # <<>> /\ Len(e) = Len(c) + 1 /\ e[Len(e)] = b
            /\ \A i \in 1..Len(c) : e[i] = c[i]
            /\ Len(c) \in Nat \ {0}
        BY <3>4 DEF e
      <3>6. ASSUME NEW i \in 2..Len(e) PROVE e[i - 1] = SelectedParent(D, e[i]) /\ e[i] # GenesisId
        <4>1. CASE i = Len(e)
          BY <2>2, <3>4, <3>5, <4>1 DEF sp
        <4>2. CASE i # Len(e)
          <5>1. i \in 2..Len(c) /\ i \in 1..Len(c) /\ i - 1 \in 1..Len(c)
            BY <3>5, <4>2
          <5> QED BY <3>3, <3>5, <5>1 DEF Linked
        <4> QED BY <4>1, <4>2
      <3> QED BY <3>1, <3>5, <3>6 DEF Linked
    <2> QED BY <2>1, <2>2
  <1>2. Nat \subseteq S
    <2> HIDE DEF S
    <2> QED BY <1>1, NatSetStrong
  <1> QED
    BY <1>2, PastSizes

----------------------------------------------------------------------------
(***************************************************************************)
(* The linearization.                                                      *)
(***************************************************************************)

\* Two lists, one after the other, list both sets if no block of the first has one of
\* the second in its past.
LEMMA ListsConcat ==
    ASSUME NEW D, NEW S, NEW R, NEW s, NEW r, Lists(D, s, S), Lists(D, r, R),
           IsFiniteSet(S), IsFiniteSet(R), S \cap R = {},
           \A x \in R, y \in S : x \notin Past(D, y)
    PROVE  Lists(D, s \o r, S \cup R)
  <1> DEFINE n == Cardinality(S)
             m == Cardinality(R)
             q == s \o r
  <1>1. n \in Nat /\ m \in Nat /\ Cardinality(S \cup R) = n + m
    <2>1. Cardinality(S \cap R) = 0
      BY FS_EmptySet
    <2>2. n \in Nat /\ m \in Nat
      BY FS_CardinalityType
    <2>3. Cardinality(S \cup R) = n + m - Cardinality(S \cap R)
      BY FS_Union
    <2> QED BY <2>1, <2>2, <2>3
  <1>2. s \in [1..n -> S] /\ r \in [1..m -> R]
    BY DEF Lists
  <1>3. s \in Seq(S \cup R) /\ r \in Seq(S \cup R) /\ Len(s) = n /\ Len(r) = m
    BY <1>1, <1>2
  <1>4. /\ q \in [1..(n + m) -> S \cup R]
        /\ \A i \in 1..(n + m) : q[i] = IF i <= n THEN s[i] ELSE r[i - n]
    <2> HIDE DEF n, m
    <2>1. /\ q \in Seq(S \cup R) /\ Len(q) = Len(s) + Len(r)
          /\ \A i \in 1..(Len(s) + Len(r)) : q[i] = IF i <= Len(s) THEN s[i] ELSE r[i - Len(s)]
      BY <1>3
    <2>2. q \in [1..Len(q) -> S \cup R]
      <3> HIDE DEF q
      <3> QED BY <2>1
    <2> HIDE DEF q
    <2> QED BY <1>3, <2>1, <2>2
  <1> HIDE DEF n, m, q
  <1>5. /\ \A a \in S : \E i \in 1..n : s[i] = a
        /\ \A i, j \in 1..n : s[i] = s[j] => i = j
        /\ \A i, j \in 1..n : s[i] \in Past(D, s[j]) => i < j
    BY DEF Lists, n
  <1>6. /\ \A a \in R : \E i \in 1..m : r[i] = a
        /\ \A i, j \in 1..m : r[i] = r[j] => i = j
        /\ \A i, j \in 1..m : r[i] \in Past(D, r[j]) => i < j
    BY DEF Lists, m
  <1>7. \A i \in 1..(n + m) : \/ i \in 1..n /\ q[i] = s[i] /\ s[i] \in S
                              \/ i > n /\ i - n \in 1..m /\ q[i] = r[i - n] /\ r[i - n] \in R
    BY <1>1, <1>2, <1>4
  <1>8. ASSUME NEW a \in S \cup R PROVE \E i \in 1..(n + m) : q[i] = a
    <2>1. CASE a \in S
      <3>1. PICK i \in 1..n : s[i] = a
        BY <1>5, <2>1
      <3>2. i \in 1..(n + m) /\ i <= n
        BY <1>1
      <3> QED BY <1>4, <3>1, <3>2
    <2>2. CASE a \in R
      <3>1. PICK i \in 1..m : r[i] = a
        BY <1>6, <2>2
      <3>2. n + i \in 1..(n + m) /\ ~(n + i <= n) /\ (n + i) - n = i
        BY <1>1
      <3> QED BY <1>4, <3>1, <3>2
    <2> QED BY <2>1, <2>2
  <1>9. ASSUME NEW i \in 1..(n + m), NEW j \in 1..(n + m), q[i] = q[j] PROVE i = j
    <2>1. CASE i <= n /\ j <= n
      BY <1>1, <1>5, <1>7, <1>9, <2>1
    <2>2. CASE i > n /\ j > n
      <3>1. i - n \in 1..m /\ j - n \in 1..m /\ r[i - n] = r[j - n]
        BY <1>1, <1>7, <1>9, <2>2
      <3>2. i - n = j - n
        BY <1>6, <3>1
      <3> QED BY <1>1, <3>2
    <2>3. ~(i <= n /\ j > n) /\ ~(i > n /\ j <= n)
      BY <1>1, <1>7, <1>9
    <2> QED BY <1>1, <2>1, <2>2, <2>3
  <1>10. ASSUME NEW i \in 1..(n + m), NEW j \in 1..(n + m), q[i] \in Past(D, q[j]) PROVE i < j
    <2>1. CASE i <= n /\ j <= n
      BY <1>1, <1>5, <1>7, <1>10, <2>1
    <2>2. CASE i > n /\ j > n
      <3>1. i - n \in 1..m /\ j - n \in 1..m /\ r[i - n] \in Past(D, r[j - n])
        BY <1>1, <1>7, <1>10, <2>2
      <3>2. i - n < j - n
        BY <1>6, <3>1
      <3> QED BY <1>1, <3>2
    <2>3. ~(i > n /\ j <= n)
      BY <1>1, <1>7, <1>10
    <2> QED BY <1>1, <2>1, <2>2, <2>3
  <1> QED
    <2> DEFINE T == S \cup R
    <2>1. Cardinality(T) = n + m /\ n + m \in Nat
      BY <1>1
    <2>2. q \in [1..(n + m) -> T] /\ \A a \in T : \E i \in 1..(n + m) : q[i] = a
      BY <1>4, <1>8
    <2> HIDE DEF T
    <2>3. Lists(D, q, T)
      BY <1>9, <1>10, <2>1, <2>2 DEF Lists
    <2> QED BY <2>3 DEF q, T

\* One block lists itself.
LEMMA ListsOne ==
    ASSUME NEW D, NEW b, b \notin Past(D, b)
    PROVE  Lists(D, <<b>>, {b}) /\ IsFiniteSet({b})
  <1>1. IsFiniteSet({b}) /\ Cardinality({b}) = 1
    BY FS_Singleton
  <1>2. <<b>> \in [1..1 -> {b}] /\ <<b>>[1] = b
    OBVIOUS
  <1> QED
    BY <1>1, <1>2 DEF Lists

\* A list is a sequence of what it lists.
LEMMA ListsSeq ==
    ASSUME NEW D, NEW s, NEW S, Lists(D, s, S)
    PROVE  s \in Seq(S) /\ Len(s) = Cardinality(S) /\ Range(s) = S /\ Cardinality(S) \in Nat
  <1>1. s \in [1..Cardinality(S) -> S] /\ Cardinality(S) \in Nat
        /\ \A a \in S : \E i \in 1..Cardinality(S) : s[i] = a
    BY DEF Lists
  <1>2. s \in Seq(S) /\ Len(s) = Cardinality(S) /\ DOMAIN s = 1..Cardinality(S)
    BY <1>1
  <1> QED
    BY <1>1, <1>2 DEF Range

\* linearize's step: a block of the selected chain after what it merges.
Emit(D, order, b) == order \o MergesetOrder(D, b) \o <<b>>
Emitting == INSTANCE DataTheorems WITH FoldStep <- Emit

\* The order that ends in b.
SpineTo(D, b) == Emitting!Fold(D, <<>>, ChainTo(D, b))

\* The spine of the DAG is the order that ends in its selected tip.
LEMMA SpineOfTip ==
    ASSUME NEW D
    PROVE  Spine(D) = SpineTo(D, SelectedTip(D))
  <1> DEFINE c == SelectedChain(D)
  <1>1. Spine(D) = Emitting!Fold(D, <<>>, c)
    <2> HIDE DEF c
    <2> QED BY DEF Spine, c, Emit, Emitting!Fold, FoldLeft, MapThenFoldSet, Max, Emitting!Largest
  <1> QED
    BY <1>1, SelectedChainTo DEF SpineTo

\* The order of a block continues that of its selected parent: the blocks it merges, and
\* the block.
LEMMA SpineStep ==
    ASSUME NEW D, DagOK(D), NEW b \in Blocks(D)
    PROVE  SpineTo(D, b) =
             IF b = GenesisId THEN <<b>>
             ELSE SpineTo(D, SelectedParent(D, b))
                    \o MergesetOrdered(D, SelectedParent(D, b), Parents(D, b)) \o <<b>>
  <1> DEFINE sp == SelectedParent(D, b)
             c == ChainTo(D, sp)
  <1>1. CASE b = GenesisId
    <2>1. MergesetOrder(D, b) = <<>>
      BY <1>1, ParentSelected DEF MergesetOrder, SelectedParent
    <2>2. ChainTo(D, b) = <<b>>
      BY <1>1, ChainStep
    <2>3. SpineTo(D, b) = Emit(D, <<>>, b)
      BY <2>2, Emitting!FoldOne DEF SpineTo
    <2>4. Emit(D, <<>>, b) = <<>> \o <<>> \o <<b>>
      BY <2>1 DEF Emit
    <2>5. <<>> \o <<>> \o <<b>> = <<b>>
      OBVIOUS
    <2> QED BY <1>1, <2>3, <2>4, <2>5
  <1>2. CASE b # GenesisId
    <2>1. MergesetOrder(D, b) = MergesetOrdered(D, sp, Parents(D, b))
      BY <1>2, ParentSelected DEF MergesetOrder, SelectedParent
    <2>2. ChainTo(D, b) = Append(c, b) /\ sp \in Blocks(D)
      BY <1>2, ChainStep, ParentSelected
    <2>3. c \in Seq(Blocks(D)) /\ <<b>> \in Seq(Blocks(D))
      BY <2>2, ChainLinked DEF Linked
    <2> HIDE DEF c
    <2>4. Append(c, b) = c \o <<b>>
      BY <2>3
    <2>5. Emitting!Fold(D, <<>>, c \o <<b>>) = Emitting!Fold(D, Emitting!Fold(D, <<>>, c), <<b>>)
      <3> DEFINE one == <<b>>
                 none == <<>>
      <3>1. one \in Seq(Blocks(D))
        BY <2>3
      <3> HIDE DEF one, none
      <3>2. Emitting!Fold(D, none, c \o one) = Emitting!Fold(D, Emitting!Fold(D, none, c), one)
        BY <2>3, <3>1, Emitting!FoldConcat
      <3> QED BY <3>2 DEF one, none
    <2>6. SpineTo(D, b) = Emit(D, SpineTo(D, sp), b)
      BY <2>2, <2>4, <2>5, Emitting!FoldOne DEF SpineTo, c
    <2> QED BY <1>2, <2>1, <2>6 DEF Emit
  <1> QED
    BY <1>1, <1>2

\* The past of a block is what its selected parent and its mergeset have.
LEMMA PastParts ==
    ASSUME NEW D, DagOK(D), NEW b \in Blocks(D), b # GenesisId
    PROVE  /\ PastOver(D, Parents(D, b)) = Past(D, b)
           /\ Past(D, b) = Boundary(D, SelectedParent(D, b))
                             \cup Merged(D, SelectedParent(D, b), Parents(D, b))
           /\ Parents(D, b) \in SUBSET Blocks(D)
  <1>1. NodeOK(D, b)
    BY DEF DagOK
  <1>2. PastOver(D, Parents(D, b)) = Past(D, b) /\ Parents(D, b) \in SUBSET Blocks(D)
    BY <1>1 DEF NodeOK, PastOver
  <1>3. SelectedParent(D, b) \in Parents(D, b)
    BY ParentSelected
  <1> QED
    BY <1>2, <1>3, MergedNew

\* The boundary of a block has the pasts of its members.
LEMMA BoundaryClosed ==
    ASSUME NEW D, DagOK(D), NEW b \in Blocks(D)
    PROVE  /\ Boundary(D, b) \in SUBSET Blocks(D) /\ IsFiniteSet(Boundary(D, b))
           /\ \A y \in Boundary(D, b) : Past(D, y) \subseteq Boundary(D, b)
           /\ b \notin Past(D, b)
  <1>1. \A a \in Blocks(D) : NodeOK(D, a)
    BY DEF DagOK
  <1>2. Boundary(D, b) \in SUBSET Blocks(D) /\ b \notin Past(D, b)
    BY <1>1 DEF NodeOK, Boundary
  <1>3. \A y \in Boundary(D, b) : Past(D, y) \subseteq Boundary(D, b)
    BY <1>1 DEF NodeOK, Boundary
  <1> QED
    BY <1>2, <1>3, FS_Subset DEF DagOK

\* The order that ends in b lists b and its past.
LEMMA SpineLists ==
    ASSUME NEW D, DagOK(D)
    PROVE  \A b \in Blocks(D) : Lists(D, SpineTo(D, b), Boundary(D, b))
  <1> DEFINE S == {n \in Nat : \A b \in Blocks(D) : PastSize(D, b) = n => Lists(D, SpineTo(D, b), Boundary(D, b))}
  <1>1. ASSUME NEW n \in Nat, \A m \in 0..(n - 1) : m \in S PROVE n \in S
    <2> SUFFICES ASSUME NEW b \in Blocks(D), PastSize(D, b) = n
                 PROVE  Lists(D, SpineTo(D, b), Boundary(D, b))
      OBVIOUS
    <2> DEFINE sp == SelectedParent(D, b)
               M == Merged(D, sp, Parents(D, b))
               r == MergesetOrdered(D, sp, Parents(D, b))
               B == Boundary(D, sp)
               P == Past(D, b)
    <2>0. b \notin Past(D, b)
      BY BoundaryClosed
    <2>1. CASE b = GenesisId
      <3>1. SpineTo(D, b) = <<b>>
        BY <2>1, SpineStep
      <3>2. Past(D, b) = {}
        <4>1. NodeOK(D, b) /\ Parents(D, b) = {}
          BY <2>1 DEF DagOK, NodeOK
        <4> QED BY <4>1 DEF NodeOK
      <3>3. Boundary(D, b) = {b}
        BY <3>2 DEF Boundary
      <3> QED BY <2>0, <3>1, <3>3, ListsOne
    <2>2. CASE b # GenesisId
      <3>1. sp \in Blocks(D) /\ PastSize(D, sp) < n /\ sp \in Parents(D, b)
        BY <2>2, ParentSelected
      <3>2. PastSize(D, sp) \in 0..(n - 1)
        BY <3>1, PastSizes
      <3>3. Lists(D, SpineTo(D, sp), B)
        BY <1>1, <3>1, <3>2
      <3>4. P = B \cup M /\ Parents(D, b) \in SUBSET Blocks(D)
        BY <2>2, PastParts
      <3>5. M \in SUBSET Blocks(D) /\ B \cap M = {}
        BY <3>1, <3>4, MergedNew DEF Merged
      <3>6. r = SortByTopoKey(D, M)
        BY <3>1, <3>4, MergesetIsMerged
      <3>7. SpineTo(D, b) = SpineTo(D, sp) \o r \o <<b>>
        BY <2>2, SpineStep
      <3>8. Boundary(D, b) = P \cup {b}
        BY DEF Boundary
      <3>9. IsFiniteSet(M) /\ IsFiniteSet(B) /\ IsFiniteSet(P) /\ \A y \in B : Past(D, y) \subseteq B
        <4>1. P \in SUBSET Blocks(D)
          BY <3>1, <3>4, <3>5, BoundaryClosed
        <4> QED BY <3>1, <3>5, <4>1, BoundaryClosed, FS_Subset DEF DagOK
      <3> HIDE DEF sp, M, r, B, P
      <3>10. Lists(D, r, M)
        BY <3>5, <3>6, SortLists
      <3>11. Lists(D, SpineTo(D, sp) \o r, P)
        BY <3>3, <3>4, <3>5, <3>9, <3>10, ListsConcat
      <3>12. \A y \in P : b \notin Past(D, y)
        <4>1. \A y \in P : Past(D, y) \subseteq P
          BY DEF P, DagOK, NodeOK
        <4> QED BY <2>0, <4>1 DEF P
      <3>13. Lists(D, (SpineTo(D, sp) \o r) \o <<b>>, P \cup {b})
        BY <2>0, <3>9, <3>11, <3>12, ListsOne, ListsConcat DEF P
      <3> QED BY <3>7, <3>8, <3>13
    <2> QED BY <2>1, <2>2
  <1>2. Nat \subseteq S
    <2> HIDE DEF S
    <2> QED BY <1>1, NatSetStrong
  <1> QED
    BY <1>2, PastSizes

\* The blocks the selected chain has not merged.
Unmerged(D) == Blocks(D) \ Boundary(D, SelectedTip(D))

\* linearize is the order of the selected tip, and the rest in topological order.
LEMMA LinearizeParts ==
    ASSUME NEW D, DagOK(D)
    PROVE  /\ SelectedTip(D) \in Blocks(D) /\ SelectedTip(D) \in D.tips
           /\ Linearize(D) = SpineTo(D, SelectedTip(D)) \o SortByTopoKey(D, Unmerged(D))
           /\ Lists(D, SpineTo(D, SelectedTip(D)), Boundary(D, SelectedTip(D)))
           /\ Lists(D, SortByTopoKey(D, Unmerged(D)), Unmerged(D))
           /\ Lists(D, Linearize(D), Blocks(D))
  <1> DEFINE tip == SelectedTip(D)
             s == SpineTo(D, tip)
             r == SortByTopoKey(D, Unmerged(D))
  <1>1. tip \in D.tips /\ tip \in Blocks(D)
    BY HeaviestIn DEF SelectedTip, DagOK
  <1>2. Lists(D, s, Boundary(D, tip))
    BY <1>1, SpineLists
  <1>3. Range(s) = Boundary(D, tip)
    BY <1>2, ListsSeq
  <1>4. Linearize(D) = s \o r
    BY <1>3, SpineOfTip DEF Linearize, Unmerged
  <1>5. Unmerged(D) \in SUBSET Blocks(D)
    BY DEF Unmerged
  <1>6. Lists(D, r, Unmerged(D))
    BY <1>5, SortLists
  <1>7. /\ IsFiniteSet(Boundary(D, tip)) /\ IsFiniteSet(Unmerged(D))
        /\ Boundary(D, tip) \cap Unmerged(D) = {}
        /\ Boundary(D, tip) \cup Unmerged(D) = Blocks(D)
        /\ \A x \in Unmerged(D), y \in Boundary(D, tip) : x \notin Past(D, y)
    BY <1>1, <1>5, BoundaryClosed, FS_Subset DEF Unmerged, DagOK
  <1> HIDE DEF s, r, tip
  <1>8. Lists(D, s \o r, Boundary(D, tip) \cup Unmerged(D))
    BY <1>2, <1>6, <1>7, ListsConcat
  <1> QED
    BY <1>1, <1>2, <1>4, <1>6, <1>7, <1>8 DEF s, r, tip

\* The rest is what a block on all tips would merge.
LEMMA TailMerged ==
    ASSUME NEW D, DagOK(D)
    PROVE  MergesetOrdered(D, SelectedTip(D), D.tips) = SortByTopoKey(D, Unmerged(D))
  <1>1. SelectedTip(D) \in D.tips /\ SelectedTip(D) \in Blocks(D) /\ D.tips \in SUBSET Blocks(D)
    BY LinearizeParts DEF DagOK
  <1>2. PastOver(D, D.tips) = Blocks(D)
    <2>1. PastOver(D, D.tips) \subseteq Blocks(D)
      BY <1>1, MergedNew
    <2>2. \A b \in Blocks(D) : \E t \in D.tips : b = t \/ b \in Past(D, t)
      BY DEF DagOK
    <2> QED BY <2>1, <2>2 DEF PastOver
  <1>3. Merged(D, SelectedTip(D), D.tips) = Unmerged(D)
    BY <1>2 DEF Merged, Unmerged
  <1> QED
    BY <1>1, <1>3, MergesetIsMerged

----------------------------------------------------------------------------
(***************************************************************************)
(* Parts of a dag: what is computed of a block depends on its past alone.  *)
(***************************************************************************)

\* The queries have the same answers in a part.
LEMMA SameNodes ==
    ASSUME NEW D, NEW E, Within(E, D)
    PROVE  \A b \in Blocks(E) :
              /\ b \in Blocks(D) /\ D.nodes[b] = E.nodes[b]
              /\ Past(D, b) = Past(E, b) /\ Parents(D, b) = Parents(E, b)
              /\ PastSize(D, b) = PastSize(E, b) /\ Work(D, b) = Work(E, b)
              /\ SelectedParent(D, b) = SelectedParent(E, b)
              /\ Boundary(D, b) = Boundary(E, b)
  BY DEF Within, Past, Parents, PastSize, Work, SelectedParent, Boundary

\* So has the sort.
LEMMA SortWithin ==
    ASSUME NEW D, NEW E, Within(E, D), NEW S \in SUBSET Blocks(E)
    PROVE  SortByTopoKey(E, S) = SortByTopoKey(D, S)
  <1> DEFINE inE(i) == CHOOSE a \in S : Cardinality({b \in S : TopoKeyLess(E, b, a)}) = i - 1
             inD(i) == CHOOSE a \in S : Cardinality({b \in S : TopoKeyLess(D, b, a)}) = i - 1
  <1>1. \A a, b \in S : TopoKeyLess(E, b, a) <=> TopoKeyLess(D, b, a)
    BY SameNodes DEF TopoKeyLess
  <1>2. \A a \in S : {b \in S : TopoKeyLess(E, b, a)} = {b \in S : TopoKeyLess(D, b, a)}
    BY <1>1
  <1>3. \A i \in 1..Cardinality(S) : inE(i) = inD(i)
    BY <1>2
  <1>4. /\ SortByTopoKey(E, S) = [i \in 1..Cardinality(S) |-> inE(i)]
        /\ SortByTopoKey(D, S) = [i \in 1..Cardinality(S) |-> inD(i)]
    BY DEF SortByTopoKey
  <1> HIDE DEF inE, inD
  <1> QED
    BY <1>3, <1>4

\* And the heaviest block.
LEMMA HeaviestWithin ==
    ASSUME NEW D, NEW E, Within(E, D), NEW S \in SUBSET Blocks(E)
    PROVE  Heaviest(E, S) = Heaviest(D, S)
  <1>1. \A a, b \in S : ChainKeyLess(E, b, a) <=> ChainKeyLess(D, b, a)
    BY SameNodes DEF ChainKeyLess
  <1>2. \A a \in S : (\A b \in S \ {a} : ChainKeyLess(E, b, a)) <=> (\A b \in S \ {a} : ChainKeyLess(D, b, a))
    BY <1>1
  <1> QED
    BY <1>2 DEF Heaviest

\* And the mergeset.
LEMMA MergesetWithin ==
    ASSUME NEW D, DagOK(D), NEW E, DagOK(E), Within(E, D),
           NEW ps \in SUBSET Blocks(E), NEW sp \in ps
    PROVE  /\ MergesetOrdered(E, sp, ps) = MergesetOrdered(D, sp, ps)
           /\ PastOver(E, ps) = PastOver(D, ps) /\ Merged(E, sp, ps) = Merged(D, sp, ps)
  <1>1. ps \in SUBSET Blocks(D) /\ sp \in Blocks(D) /\ sp \in Blocks(E)
    BY DEF Within
  <1>2. {Past(E, p) : p \in ps} = {Past(D, p) : p \in ps}
    BY SameNodes
  <1>3. PastOver(E, ps) = PastOver(D, ps)
    BY <1>2 DEF PastOver
  <1>4. Merged(E, sp, ps) = Merged(D, sp, ps)
    BY <1>1, <1>3, SameNodes DEF Merged
  <1>5. Merged(E, sp, ps) \in SUBSET Blocks(E)
    BY MergedNew
  <1> QED
    BY <1>1, <1>3, <1>4, <1>5, SortWithin, MergesetIsMerged

\* And the order that ends in a block.
LEMMA SpineWithin ==
    ASSUME NEW D, DagOK(D), NEW E, DagOK(E), Within(E, D)
    PROVE  \A b \in Blocks(E) : SpineTo(E, b) = SpineTo(D, b)
  <1> DEFINE S == {n \in Nat : \A b \in Blocks(E) : PastSize(E, b) = n => SpineTo(E, b) = SpineTo(D, b)}
  <1>1. ASSUME NEW n \in Nat, \A m \in 0..(n - 1) : m \in S PROVE n \in S
    <2> SUFFICES ASSUME NEW b \in Blocks(E), PastSize(E, b) = n
                 PROVE  SpineTo(E, b) = SpineTo(D, b)
      OBVIOUS
    <2> DEFINE sp == SelectedParent(E, b)
    <2>1. /\ b \in Blocks(D) /\ SelectedParent(D, b) = sp /\ Parents(D, b) = Parents(E, b)
      BY SameNodes
    <2>2. CASE b = GenesisId
      BY <2>1, <2>2, SpineStep
    <2>3. CASE b # GenesisId
      <3>1. sp \in Blocks(E) /\ PastSize(E, sp) < n /\ sp \in Parents(E, b) /\ Parents(E, b) \in SUBSET Blocks(E)
        BY <2>3, ParentSelected, PastParts
      <3>2. PastSize(E, sp) \in 0..(n - 1)
        BY <3>1, PastSizes
      <3>3. SpineTo(E, sp) = SpineTo(D, sp)
        BY <1>1, <3>1, <3>2
      <3>4. MergesetOrdered(E, sp, Parents(E, b)) = MergesetOrdered(D, sp, Parents(E, b))
        BY <3>1, MergesetWithin
      <3> HIDE DEF sp
      <3>5. SpineTo(E, b) = SpineTo(E, sp) \o MergesetOrdered(E, sp, Parents(E, b)) \o <<b>>
        BY <2>3, SpineStep DEF sp
      <3>6. SpineTo(D, b) = SpineTo(D, sp) \o MergesetOrdered(D, sp, Parents(E, b)) \o <<b>>
        BY <2>1, <2>3, SpineStep
      <3> QED BY <3>3, <3>4, <3>5, <3>6
    <2> QED BY <2>2, <2>3
  <1>2. Nat \subseteq S
    <2> HIDE DEF S
    <2> QED BY <1>1, NatSetStrong
  <1> QED
    BY <1>2, PastSizes

\* The part a block needs: itself and its past.
View(D, b) == [nodes |-> [x \in D.nodes[b].past \cup {b} |-> D.nodes[x]], tips |-> {b}]

\* It is a dag, and its linearization is the order that ends in the block.
LEMMA ViewOrder ==
    ASSUME NEW D, DagOK(D), NEW b \in Blocks(D)
    PROVE  /\ DagOK(View(D, b)) /\ Within(View(D, b), D)
           /\ Blocks(View(D, b)) = Boundary(D, b)
           /\ Linearize(View(D, b)) = SpineTo(D, b)
  <1> DEFINE E == View(D, b)
             B == Boundary(D, b)
  <1>1. Blocks(E) = B /\ E.tips = {b} /\ \A x \in B : E.nodes[x] = D.nodes[x]
    BY DEF View, Blocks, Boundary, Past
  <1>2. B \in SUBSET Blocks(D) /\ IsFiniteSet(B) /\ b \in B /\ \A y \in B : Past(D, y) \subseteq B
    BY BoundaryClosed DEF Boundary
  <1> HIDE DEF E, B
  <1>3. Within(E, D)
    BY <1>1, <1>2 DEF Within
  <1>4. ASSUME NEW x \in B PROVE NodeOK(E, x)
    <2>1. NodeOK(D, x)
      BY <1>2 DEF DagOK
    <2>2. \A a \in B : /\ Parents(E, a) = Parents(D, a) /\ Past(E, a) = Past(D, a)
                       /\ PastSize(E, a) = PastSize(D, a) /\ Work(E, a) = Work(D, a)
                       /\ SelectedParent(E, a) = SelectedParent(D, a)
                       /\ E.nodes[a] = D.nodes[a]
      BY <1>1 DEF Parents, Past, PastSize, Work, SelectedParent
    <2>3. Past(D, x) \subseteq B /\ Parents(D, x) \subseteq Past(D, x) /\ x \notin Past(D, x)
      BY <1>2, <2>1 DEF NodeOK
    <2>4. {Past(E, p) : p \in Parents(E, x)} = {Past(D, p) : p \in Parents(D, x)}
      BY <2>2, <2>3
    <2>5. Past(E, x) = Parents(E, x) \cup UNION {Past(E, p) : p \in Parents(E, x)}
      BY <2>1, <2>2, <2>4 DEF NodeOK
    <2>6. /\ Parents(E, x) \subseteq Blocks(E) /\ Past(E, x) \subseteq Blocks(E) \ {x}
          /\ \A a \in Past(E, x) : Past(E, a) \subseteq Past(E, x)
      BY <1>1, <2>1, <2>2, <2>3 DEF NodeOK
    <2> QED BY <2>1, <2>2, <2>5, <2>6 DEF NodeOK
  <1>5. GenesisId \in B
    BY DEF B, Boundary, DagOK, NodeOK
  <1>6. DagOK(E)
    <2>1. Past(E, b) = Past(D, b)
      BY <1>1, <1>2 DEF Past
    <2>2. \A x \in B : x = b \/ x \in Past(E, b)
      BY <2>1 DEF B, Boundary
    <2>3. B \subseteq Nat
      BY <1>2 DEF DagOK
    <2> QED BY <1>1, <1>2, <1>4, <1>5, <2>2, <2>3 DEF DagOK
  <1>7. SelectedTip(E) = b
    BY <1>1, <1>6, LinearizeParts
  <1>8. SpineTo(E, b) = SpineTo(D, b) /\ Boundary(E, b) = B
    BY <1>1, <1>2, <1>3, <1>6, SpineWithin, SameNodes DEF B
  <1>9. Unmerged(E) = {}
    BY <1>1, <1>7, <1>8 DEF Unmerged
  <1>10. SortByTopoKey(E, Unmerged(E)) = <<>>
    <2>1. Lists(E, SortByTopoKey(E, {}), {})
      BY <1>6, <1>9, LinearizeParts
    <2>2. SortByTopoKey(E, {}) \in Seq({}) /\ Len(SortByTopoKey(E, {})) = 0
      BY <2>1, ListsSeq, FS_EmptySet
    <2> QED BY <1>9, <2>2
  <1>11. Linearize(E) = SpineTo(D, b) \o <<>>
    BY <1>6, <1>7, <1>8, <1>10, LinearizeParts
  <1>12. SpineTo(D, b) \in Seq(B)
    BY SpineLists, ListsSeq DEF B
  <1>13. SpineTo(D, b) \o <<>> = SpineTo(D, b)
    BY <1>12
  <1> QED
    BY <1>1, <1>3, <1>6, <1>11, <1>13 DEF E, B

\* A candidate is coloured the same in a part.
LEMMA CandidateWithin ==
    ASSUME NEW D, NEW E, Within(E, D), NEW acc, DOMAIN acc.sizes \subseteq Blocks(E),
           NEW c \in Blocks(E)
    PROVE  ColourCandidate(E, acc, c) = ColourCandidate(D, acc, c)
  <1>1. \A b \in DOMAIN acc.sizes : InAnticone(E, b, c) <=> InAnticone(D, b, c)
    BY DEF Within, InAnticone, IsAncestor
  <1>2. {b \in DOMAIN acc.sizes : InAnticone(E, b, c)} = {b \in DOMAIN acc.sizes : InAnticone(D, b, c)}
    BY <1>1
  <1>3. TryColourBlue(E, c, acc.sizes) = TryColourBlue(D, c, acc.sizes)
    BY <1>2 DEF TryColourBlue
  <1> QED
    BY <1>3 DEF ColourCandidate

\* All of them are.
LEMMA ColourWithin ==
    ASSUME NEW D, NEW E, Within(E, D), NEW seed, DOMAIN seed \subseteq Blocks(E),
           NEW s, NEW n \in Nat, DOMAIN s = 1..n, Range(s) \subseteq Blocks(E)
    PROVE  ColourAll(E, seed, s) = ColourAll(D, seed, s)
  <1>1. PICK h : ColourRun(E, seed, s, n, h)
    BY ColourSteps
  <1>2. PICK g : ColourRun(D, seed, s, n, g)
    BY ColourSteps
  <1> DEFINE S == {i \in Nat : h[i] = g[i]}
  <1>3. 0 \in S
    BY <1>1, <1>2 DEF ColourRun
  <1>4. ASSUME NEW i \in 0..(n - 1), i \in S PROVE i + 1 \in S
    <2>1. i + 1 \in 1..n /\ (i + 1) - 1 = i /\ i \in 0..n /\ i + 1 \in Nat
      OBVIOUS
    <2>2. h[i + 1] = ColourCandidate(E, h[i], s[i + 1]) /\ g[i + 1] = ColourCandidate(D, g[i], s[i + 1])
      BY <1>1, <1>2, <2>1 DEF ColourRun
    <2>3. Coloured(seed, s, i, h[i])
      BY <1>1, <2>1 DEF ColourRun
    <2>4. DOMAIN h[i].sizes \subseteq Blocks(E)
      BY <2>3 DEF Coloured
    <2>5. s[i + 1] \in Blocks(E)
      BY <2>1 DEF Range
    <2>6. h[i] = g[i]
      BY <1>4
    <2> QED BY <2>1, <2>2, <2>4, <2>5, <2>6, CandidateWithin
  <1>5. 0..n \subseteq S
    <2> HIDE DEF S
    <2> QED BY <1>3, <1>4, NatSetTo
  <1> QED
    BY <1>1, <1>2, <1>5 DEF ColourRun

\* Works add up to the same.
LEMMA SumWorkWithin ==
    ASSUME NEW D, NEW E, Within(E, D), NEW blues \in Seq(Blocks(E))
    PROVE  SumWork(E, blues) = SumWork(D, blues)
  <1>1. \A i \in 1..Len(blues) : Work(E, blues[i]) = Work(D, blues[i])
    <2>1. \A i \in 1..Len(blues) : blues[i] \in Blocks(E)
      OBVIOUS
    <2> QED BY <2>1, SameNodes
  <1>2. \A i \in 1..Len(blues) : \A sum : AddWork(E, sum, blues[i]) = AddWork(D, sum, blues[i])
    BY <1>1 DEF AddWork
  <1>3. WorkSum!Fold(E, 0, blues) = WorkSum!Fold(D, 0, blues)
    BY <1>2, WorkSum!FoldSame
  <1>4. SumWork(E, blues) = WorkSum!Fold(E, 0, blues)
    BY DEF SumWork, AddWork, WorkSum!Fold, FoldLeft, MapThenFoldSet, Max, WorkSum!Largest
  <1>5. SumWork(D, blues) = WorkSum!Fold(D, 0, blues)
    BY DEF SumWork, AddWork, WorkSum!Fold, FoldLeft, MapThenFoldSet, Max, WorkSum!Largest
  <1> QED
    BY <1>3, <1>4, <1>5

\* compute_ghostdag returns the same for parents in a part: the data of a block depends
\* on its past alone.
LEMMA GhostdagWithin ==
    ASSUME NEW D, DagOK(D), NEW E, DagOK(E), Within(E, D), NEW ps \in SUBSET Blocks(E), ps # {}
    PROVE  ComputeGhostdag(E, ps) = ComputeGhostdag(D, ps)
  <1> DEFINE sp == Heaviest(E, ps)
             s == MergesetOrdered(E, sp, ps)
             M == Merged(E, sp, ps)
             done == ColourAll(E, Seed(E, sp), s)
  <1>1. sp = Heaviest(D, ps) /\ sp \in ps /\ sp \in Blocks(E)
    BY HeaviestWithin, HeaviestIn
  <1>2. E.nodes[sp] = D.nodes[sp] /\ Work(E, sp) = Work(D, sp)
    BY <1>1, SameNodes
  <1>3. s = MergesetOrdered(D, sp, ps)
    BY <1>1, MergesetWithin
  <1>4. Seed(E, sp) = Seed(D, sp)
    BY <1>2 DEF Seed
  <1>5. ComputeGhostdag(E, ps) =
            [selected_parent |-> sp,
             mergeset_blues |-> done.blues, mergeset_reds |-> done.reds,
             blue_score |-> E.nodes[sp].blue_score + 1 + Len(done.blues),
             blue_work |-> E.nodes[sp].blue_work + Work(E, sp) + SumWork(E, done.blues),
             blue_anticone_sizes |-> done.sizes]
    BY DEF ComputeGhostdag, Seed
  <1>6. /\ M \in SUBSET Blocks(E) /\ s = SortByTopoKey(E, M)
    BY <1>1, MergedNew, MergesetIsMerged
  <1>7. Lists(E, s, M)
    BY <1>6, SortLists
  <1> DEFINE n == Cardinality(M)
  <1> HIDE DEF M, s, sp
  <1>8. n \in Nat /\ DOMAIN s = 1..n /\ Range(s) \subseteq Blocks(E)
    <2>1. s \in Seq(M) /\ Len(s) = n /\ Range(s) = M /\ n \in Nat
      BY <1>7, ListsSeq
    <2> HIDE DEF n
    <2>2. DOMAIN s = 1..n
      BY <2>1
    <2> QED BY <1>6, <2>1, <2>2
  <1>9. DOMAIN Seed(E, sp) \subseteq Blocks(E)
    BY <1>1 DEF Seed, DagOK, NodeOK
  <1>10. done = ColourAll(D, Seed(D, sp), s)
    BY <1>4, <1>8, <1>9, ColourWithin
  <1>11. Coloured(Seed(E, sp), s, n, done)
    BY <1>8, ColourSplits
  <1> HIDE DEF done, n
  <1>12. done.blues \in Seq(Blocks(E))
    BY <1>8, <1>11 DEF Coloured
  <1>13. SumWork(E, done.blues) = SumWork(D, done.blues)
    BY <1>12, SumWorkWithin
  <1>14. ComputeGhostdag(D, ps) =
            [selected_parent |-> sp,
             mergeset_blues |-> done.blues, mergeset_reds |-> done.reds,
             blue_score |-> D.nodes[sp].blue_score + 1 + Len(done.blues),
             blue_work |-> D.nodes[sp].blue_work + Work(D, sp) + SumWork(D, done.blues),
             blue_anticone_sizes |-> done.sizes]
    BY <1>1, <1>3, <1>10 DEF ComputeGhostdag, Seed
  <1> QED
    BY <1>2, <1>5, <1>13, <1>14

----------------------------------------------------------------------------
(***************************************************************************)
(* A dag is determined by its blocks.                                      *)
(***************************************************************************)

\* The node insert derives for the block b from the others.
Derived(D, b) ==
    NodeFor(D, D.nodes[b].block, Cardinality(PastOver(D, Parents(D, b))),
            ComputeGhostdag(D, Parents(D, b)))

\* Nothing in a dag but what its blocks determine.
Canonical(D) ==
    /\ D = [nodes |-> D.nodes, tips |-> D.tips]
    /\ D.nodes = [b \in Blocks(D) |-> D.nodes[b]]
    /\ D.nodes[GenesisId] = NewDag(D.nodes[GenesisId].block).nodes[GenesisId]
    /\ \A b \in Blocks(D) \ {GenesisId} : D.nodes[b] = Derived(D, b)
    /\ D.tips = {b \in Blocks(D) : \A c \in Blocks(D) : b \notin Parents(D, c)}

\* The first dag is so.
LEMMA NewDagCanonical ==
    ASSUME NEW genesis, genesis.parents = {}, genesis.work \in Int
    PROVE  Canonical(NewDag(genesis)) /\ NewDag(genesis).nodes[GenesisId].block = genesis
  <1> DEFINE D == NewDag(genesis)
  <1>1. /\ D = [nodes |-> D.nodes, tips |-> D.tips]
        /\ D.nodes = [b \in Blocks(D) |-> D.nodes[b]]
        /\ Blocks(D) = {GenesisId} /\ D.tips = {GenesisId}
        /\ D.nodes[GenesisId].block = genesis
    BY DEF NewDag, Blocks
  <1>2. Parents(D, GenesisId) = {}
    BY <1>1 DEF Parents
  <1> HIDE DEF D
  <1>3. D.tips = {b \in Blocks(D) : \A c \in Blocks(D) : b \notin Parents(D, c)}
    BY <1>1, <1>2
  <1>4. D.nodes[GenesisId] = NewDag(D.nodes[GenesisId].block).nodes[GenesisId]
    BY <1>1 DEF D
  <1>5. Canonical(D)
    BY <1>1, <1>3, <1>4 DEF Canonical
  <1> QED
    BY <1>1, <1>5 DEF D

\* A node is derived the same in a part that has its past.
LEMMA DerivedWithin ==
    ASSUME NEW D, DagOK(D), NEW E, DagOK(E), Within(E, D), NEW block,
           block.parents \in SUBSET Blocks(E), block.parents # {}
    PROVE  NodeFor(E, block, Cardinality(PastOver(E, block.parents)), ComputeGhostdag(E, block.parents))
             = NodeFor(D, block, Cardinality(PastOver(D, block.parents)), ComputeGhostdag(D, block.parents))
  <1> DEFINE ps == block.parents
  <1>1. ComputeGhostdag(E, ps) = ComputeGhostdag(D, ps)
    BY GhostdagWithin
  <1>2. PICK p \in ps : TRUE
    OBVIOUS
  <1>3. PastOver(E, ps) = PastOver(D, ps)
    BY <1>2, MergesetWithin
  <1>4. \A X, n, g : NodeFor(X, block, n, g) =
            [block |-> block, past |-> PastOver(X, ps), past_size |-> n,
             selected_parent |-> g.selected_parent, mergeset_blues |-> g.mergeset_blues,
             mergeset_reds |-> g.mergeset_reds, blue_score |-> g.blue_score,
             blue_work |-> g.blue_work, blue_anticone_sizes |-> g.blue_anticone_sizes]
    BY DEF NodeFor, PastOver, Past
  <1> QED
    BY <1>1, <1>3, <1>4

\* insert keeps it so.
LEMMA InsertCanonical ==
    ASSUME NEW D, DagOK(D), Canonical(D), NEW id \in Nat \ {GenesisId}, NEW block, block.work \in Int,
           CanInsert(D, id, block)
    PROVE  Canonical(InsertBlock(D, id, block))
  <1> DEFINE E == InsertBlock(D, id, block)
             ps == block.parents
  <1>1. ps \in SUBSET Blocks(D) /\ ps # {} /\ id \notin Blocks(D)
    BY DEF CanInsert
  <1>2. /\ Blocks(E) = Blocks(D) \cup {id} /\ Within(D, E) /\ E.tips = (D.tips \ ps) \cup {id}
        /\ E.nodes[id] = NodeFor(D, block, Cardinality(PastOver(D, ps)), ComputeGhostdag(D, ps))
    BY InsertNodes
  <1>3. DagOK(E)
    BY InsertKeeps
  <1>4. E = [nodes |-> E.nodes, tips |-> E.tips] /\ E.nodes = [b \in Blocks(E) |-> E.nodes[b]]
    BY DEF InsertBlock, Put, Blocks
  <1> HIDE DEF E
  <1>5. E.nodes[GenesisId] = NewDag(E.nodes[GenesisId].block).nodes[GenesisId]
    BY <1>2 DEF Within, Canonical, DagOK
  <1>6. E.nodes[id].block = block /\ Parents(E, id) = ps
    BY <1>2 DEF NodeFor, Parents
  <1>7. E.nodes[id] = Derived(E, id)
    BY <1>1, <1>2, <1>3, <1>6, DerivedWithin DEF Derived
  <1>8. ASSUME NEW b \in Blocks(D) \ {GenesisId} PROVE E.nodes[b] = Derived(E, b)
    <2>1. E.nodes[b] = D.nodes[b] /\ D.nodes[b] = Derived(D, b) /\ Parents(E, b) = Parents(D, b)
      BY <1>2 DEF Within, Canonical, Parents
    <2>2. Parents(D, b) \in SUBSET Blocks(D) /\ Parents(D, b) # {}
      BY ParentSelected, PastParts
    <2>3. D.nodes[b].block.parents = Parents(D, b)
      BY DEF Parents
    <2> QED BY <1>2, <1>3, <2>1, <2>2, <2>3, DerivedWithin DEF Derived
  <1>9. E.tips = {b \in Blocks(E) : \A c \in Blocks(E) : b \notin Parents(E, c)}
    <2>1. \A c \in Blocks(D) : Parents(E, c) = Parents(D, c) /\ Parents(D, c) \subseteq Blocks(D)
      BY <1>2, SameNodes DEF DagOK, NodeOK
    <2>2. D.tips = {b \in Blocks(D) : \A c \in Blocks(D) : b \notin Parents(D, c)}
      BY DEF Canonical
    <2> HIDE DEF ps
    <2> QED BY <1>1, <1>2, <1>6, <2>1, <2>2
  <1> QED
    BY <1>2, <1>4, <1>5, <1>7, <1>8, <1>9 DEF Canonical, E

\* A is a dag of some blocks of D, as insert would have made it of them.
Grown(A, D, S) == DagOK(A) /\ Canonical(A) /\ Within(A, D) /\ Blocks(A) = S

\* A dag grows from the genesis of another one.
LEMMA RegrowFirst ==
    ASSUME NEW D, DagOK(D), Canonical(D)
    PROVE  Grown(NewDag(D.nodes[GenesisId].block), D, {GenesisId})
  <1> DEFINE genesis == D.nodes[GenesisId].block
             A == NewDag(genesis)
  <1>1. genesis.parents = {} /\ genesis.work \in Int /\ GenesisId \in Blocks(D)
    BY DEF DagOK, NodeOK, Parents, Work
  <1>2. DagOK(A) /\ Canonical(A) /\ Blocks(A) = {GenesisId}
    BY <1>1, NewDagOK, NewDagCanonical
  <1>3. A.nodes[GenesisId] = D.nodes[GenesisId]
    BY DEF Canonical
  <1> QED
    BY <1>1, <1>2, <1>3 DEF Grown, Within

\* It takes every block that it has the parents of, and makes the same node of it.
LEMMA RegrowStep ==
    ASSUME NEW D, DagOK(D), Canonical(D), NEW A, NEW S, Grown(A, D, S),
           NEW b \in Blocks(D) \ S, b # GenesisId, Parents(D, b) \subseteq S
    PROVE  /\ CanInsert(A, b, D.nodes[b].block)
           /\ Grown(InsertBlock(A, b, D.nodes[b].block), D, S \cup {b})
  <1> DEFINE block == D.nodes[b].block
             E == InsertBlock(A, b, block)
  <1>1. DagOK(A) /\ Canonical(A) /\ Within(A, D) /\ Blocks(A) = S
    BY DEF Grown
  <1>2. block.parents = Parents(D, b) /\ block.work \in Int /\ b \in Nat \ {GenesisId}
    BY DEF Parents, DagOK, NodeOK, Work
  <1>3. Parents(D, b) # {}
    BY ParentSelected
  <1>4. CanInsert(A, b, block)
    BY <1>1, <1>2, <1>3 DEF CanInsert
  <1>5. DagOK(E) /\ Canonical(E)
    BY <1>1, <1>2, <1>4, InsertKeeps, InsertCanonical
  <1>6. /\ Blocks(E) = S \cup {b} /\ Within(A, E)
        /\ E.nodes[b] = NodeFor(A, block, Cardinality(PastOver(A, block.parents)), ComputeGhostdag(A, block.parents))
    BY <1>1, <1>4, InsertNodes
  <1>7. E.nodes[b] = NodeFor(D, block, Cardinality(PastOver(D, block.parents)), ComputeGhostdag(D, block.parents))
    BY <1>1, <1>2, <1>3, <1>6, DerivedWithin
  <1>8. E.nodes[b] = D.nodes[b]
    BY <1>2, <1>7 DEF Canonical, Derived
  <1> HIDE DEF E
  <1>9. Within(E, D)
    BY <1>1, <1>6, <1>8 DEF Within
  <1> QED
    BY <1>4, <1>5, <1>6, <1>9 DEF Grown, E

\* With all the blocks it is the other one.
LEMMA RegrowLast ==
    ASSUME NEW D, Canonical(D), NEW A, Grown(A, D, Blocks(D))
    PROVE  A = D
  <1>1. Canonical(A) /\ Within(A, D) /\ Blocks(A) = Blocks(D)
    BY DEF Grown
  <1>2. A.nodes = [b \in Blocks(D) |-> A.nodes[b]] /\ D.nodes = [b \in Blocks(D) |-> D.nodes[b]]
    BY <1>1 DEF Canonical
  <1>3. \A b \in Blocks(D) : A.nodes[b] = D.nodes[b]
    BY <1>1 DEF Within
  <1>4. A.nodes = D.nodes
    BY <1>2, <1>3
  <1>5. A.tips = D.tips
    BY <1>1, <1>4 DEF Canonical, Parents
  <1>6. A = [nodes |-> A.nodes, tips |-> A.tips] /\ D = [nodes |-> D.nodes, tips |-> D.tips]
    BY <1>1 DEF Canonical
  <1> QED
    BY <1>4, <1>5, <1>6

\* The first n of a list.
FirstOf(s, n) == {s[i] : i \in 1..n}

\* The linearization starts at genesis, and has the parents of every other block before it.
LEMMA LinearizeGrows ==
    ASSUME NEW D, DagOK(D)
    PROVE  /\ Linearize(D) \in Seq(Blocks(D)) /\ Len(Linearize(D)) = Cardinality(Blocks(D))
           /\ Cardinality(Blocks(D)) \in Nat \ {0}
           /\ Linearize(D)[1] = GenesisId
           /\ FirstOf(Linearize(D), Cardinality(Blocks(D))) = Blocks(D)
           /\ \A i \in 2..Cardinality(Blocks(D)) :
                 /\ Linearize(D)[i] \in Blocks(D) \ FirstOf(Linearize(D), i - 1)
                 /\ Linearize(D)[i] # GenesisId
                 /\ Parents(D, Linearize(D)[i]) \subseteq FirstOf(Linearize(D), i - 1)
  <1> DEFINE s == Linearize(D)
             B == Blocks(D)
             n == Cardinality(B)
  <1>1. Lists(D, s, B)
    BY LinearizeParts
  <1>2. s \in Seq(B) /\ Len(s) = n /\ n \in Nat
    BY <1>1, ListsSeq
  <1>3. /\ s \in [1..n -> B]
        /\ \A a \in B : \E i \in 1..n : s[i] = a
        /\ \A i, j \in 1..n : s[i] = s[j] => i = j
        /\ \A i, j \in 1..n : s[i] \in Past(D, s[j]) => i < j
    BY <1>1 DEF Lists
  <1>4. GenesisId \in B /\ \A b \in B : /\ b # GenesisId => GenesisId \in Past(D, b)
                                       /\ Parents(D, b) \subseteq B /\ Parents(D, b) \subseteq Past(D, b)
    BY DEF DagOK, NodeOK
  <1> HIDE DEF s, n, B
  <1>5. PICK g \in 1..n : s[g] = GenesisId
    BY <1>3, <1>4
  <1>6. n # 0 /\ 1 \in 1..n /\ s[1] \in B
    BY <1>2, <1>3, <1>5
  <1>7. s[1] = GenesisId
    <2>1. ASSUME s[1] # GenesisId PROVE FALSE
      <3>1. g < 1
        BY <1>3, <1>4, <1>5, <1>6, <2>1
      <3> QED BY <1>2, <3>1
    <2> QED BY <2>1
  <1>8. FirstOf(s, n) = B
    BY <1>3 DEF FirstOf
  <1>9. ASSUME NEW i \in 2..n
        PROVE  /\ s[i] \in B \ FirstOf(s, i - 1) /\ s[i] # GenesisId
               /\ Parents(D, s[i]) \subseteq FirstOf(s, i - 1)
    <2>1. i \in 1..n /\ 1 \in 1..n /\ i # 1
      BY <1>2
    <2>2. s[i] # GenesisId /\ s[i] \in B
      BY <1>3, <1>7, <2>1
    <2>3. s[i] \notin FirstOf(s, i - 1)
      <3>1. \A j \in 1..(i - 1) : j \in 1..n /\ j # i
        BY <1>2
      <3> QED BY <1>3, <2>1, <3>1 DEF FirstOf
    <2>4. ASSUME NEW p \in Parents(D, s[i]) PROVE p \in FirstOf(s, i - 1)
      <3>1. p \in B /\ p \in Past(D, s[i])
        BY <1>4, <2>2
      <3>2. PICK j \in 1..n : s[j] = p
        BY <1>3, <3>1
      <3>3. j < i
        BY <1>3, <2>1, <3>1, <3>2
      <3>4. j \in 1..(i - 1)
        BY <1>2, <3>3
      <3> QED BY <3>2, <3>4 DEF FirstOf
    <2> QED BY <2>2, <2>3, <2>4
  <1> QED
    BY <1>2, <1>6, <1>7, <1>8, <1>9 DEF s, n, B

Readd(d, D, r) == IF CanInsert(D, r.id, r.block) THEN InsertBlock(D, r.id, r.block) ELSE Failed
Reading == INSTANCE DataTheorems WITH FoldStep <- Readd

\* A snapshot read is the dag it was written of: no block is refused, and no data of it
\* depends on the order of arrival (snapshot.rs).
THEOREM SnapshotIdentity ==
    ASSUME NEW D, DagOK(D), Canonical(D)
    PROVE  ReadSnapshot(WriteSnapshot(D)) = D
  <1> DEFINE s == Linearize(D)
             B == Blocks(D)
             n == Cardinality(B)
             log == WriteSnapshot(D)
             rest == Tail(log)
             first == NewDag(Head(log).block)
  <1>1. /\ s \in Seq(B) /\ Len(s) = n /\ n \in Nat \ {0} /\ s[1] = GenesisId /\ FirstOf(s, n) = B
        /\ \A i \in 2..n : /\ s[i] \in B \ FirstOf(s, i - 1) /\ s[i] # GenesisId
                           /\ Parents(D, s[i]) \subseteq FirstOf(s, i - 1)
    BY LinearizeGrows
  <1>2. log = [i \in DOMAIN s |-> [id |-> s[i], block |-> D.nodes[s[i]].block]]
    BY DEF WriteSnapshot
  <1> HIDE DEF s, n, B, log
  <1> DEFINE R == {log[i] : i \in 1..n}
  <1>3. DOMAIN s = 1..n
    BY <1>1
  <1>4. log \in [1..n -> R] /\ \A i \in 1..n : log[i].id = s[i] /\ log[i].block = D.nodes[s[i]].block
    BY <1>2, <1>3
  <1> HIDE DEF R
  <1>5. log \in Seq(R) /\ Len(log) = n /\ log # <<>>
    BY <1>1, <1>4
  <1>6. /\ rest \in Seq(R) /\ Len(rest) = n - 1 /\ Head(log) = log[1]
        /\ \A i \in 1..(n - 1) : rest[i] = log[i + 1]
    BY <1>1, <1>5
  <1> DEFINE m == n - 1
  <1>7. m \in Nat /\ DOMAIN rest = 1..m
    BY <1>1, <1>6
  <1>8. Grown(first, D, FirstOf(s, 1))
    <2>1. Head(log).block = D.nodes[GenesisId].block
      BY <1>1, <1>4, <1>6
    <2>2. FirstOf(s, 1) = {GenesisId}
      BY <1>1 DEF FirstOf
    <2> QED BY <2>1, <2>2, RegrowFirst
  <1>9. ReadSnapshot(log) = Reading!Fold(0, first, rest)
    BY DEF ReadSnapshot, Readd, Reading!Fold, FoldLeft, MapThenFoldSet, Max, Reading!Largest
  <1> HIDE DEF rest, first, m
  <1>10. PICK h : Reading!Steps(0, first, rest, m, h) /\ Reading!Fold(0, first, rest) = h[m]
    BY <1>7, Reading!FoldSteps
  <1> DEFINE S == {i \in Nat : Grown(h[i], D, FirstOf(s, i + 1))}
  <1>11. 0 \in S
    BY <1>8, <1>10 DEF Reading!Steps
  <1>12. ASSUME NEW i \in 0..(m - 1), i \in S PROVE i + 1 \in S
    <2> DEFINE b == s[i + 2]
               P == FirstOf(s, i + 1)
    <2>1. /\ i + 1 \in 1..m /\ (i + 1) - 1 = i /\ i + 1 \in Nat /\ i + 2 \in 2..n /\ i + 2 \in 1..n
          /\ (i + 2) - 1 = i + 1 /\ (i + 1) + 1 = i + 2
      BY <1>1 DEF m
    <2>2. h[i + 1] = Readd(0, h[i], rest[i + 1])
      BY <1>10, <2>1 DEF Reading!Steps
    <2>3. rest[i + 1].id = b /\ rest[i + 1].block = D.nodes[b].block
      BY <1>4, <1>6, <2>1 DEF m
    <2>4. Grown(h[i], D, P)
      BY <1>12
    <2>5. b \in B \ P /\ b # GenesisId /\ Parents(D, b) \subseteq P
      BY <1>1, <2>1
    <2> HIDE DEF b
    <2>6. /\ CanInsert(h[i], b, D.nodes[b].block)
          /\ Grown(InsertBlock(h[i], b, D.nodes[b].block), D, P \cup {b})
      <3> HIDE DEF P
      <3> QED BY <2>4, <2>5, RegrowStep DEF B
    <2>7. P \cup {b} = FirstOf(s, (i + 1) + 1)
      BY <2>1 DEF b, FirstOf
    <2>8. h[i + 1] = InsertBlock(h[i], b, D.nodes[b].block)
      BY <2>2, <2>3, <2>6 DEF Readd
    <2> QED BY <2>1, <2>6, <2>7, <2>8
  <1>13. 0..m \subseteq S
    <2> HIDE DEF S
    <2> QED BY <1>7, <1>11, <1>12, NatSetTo
  <1>14. Grown(h[m], D, B)
    <2>1. m \in 0..m /\ m + 1 = n
      BY <1>1, <1>7 DEF m
    <2>2. Grown(h[m], D, FirstOf(s, m + 1))
      BY <1>13, <2>1
    <2> QED BY <1>1, <2>1, <2>2
  <1>15. h[m] = D
    BY <1>14, RegrowLast DEF B
  <1> QED
    BY <1>9, <1>10, <1>15 DEF log

\* The chain to a block is the same in a part.
LEMMA ChainWithin ==
    ASSUME NEW D, DagOK(D), NEW E, DagOK(E), Within(E, D)
    PROVE  \A b \in Blocks(E) : ChainTo(E, b) = ChainTo(D, b)
  <1> DEFINE S == {n \in Nat : \A b \in Blocks(E) : PastSize(E, b) = n => ChainTo(E, b) = ChainTo(D, b)}
  <1>1. ASSUME NEW n \in Nat, \A m \in 0..(n - 1) : m \in S PROVE n \in S
    <2> SUFFICES ASSUME NEW b \in Blocks(E), PastSize(E, b) = n PROVE ChainTo(E, b) = ChainTo(D, b)
      OBVIOUS
    <2>1. b \in Blocks(D) /\ SelectedParent(D, b) = SelectedParent(E, b)
      BY SameNodes
    <2>2. CASE b = GenesisId
      BY <2>1, <2>2, ChainStep
    <2>3. CASE b # GenesisId
      <3>1. SelectedParent(E, b) \in Blocks(E) /\ PastSize(E, SelectedParent(E, b)) < n
        BY <2>3, ParentSelected
      <3>2. PastSize(E, SelectedParent(E, b)) \in 0..(n - 1)
        BY <3>1, PastSizes
      <3>3. ChainTo(E, SelectedParent(E, b)) = ChainTo(D, SelectedParent(E, b))
        BY <1>1, <3>1, <3>2
      <3> QED BY <2>1, <2>3, <3>3, ChainStep
    <2> QED BY <2>2, <2>3
  <1>2. Nat \subseteq S
    <2> HIDE DEF S
    <2> QED BY <1>1, NatSetStrong
  <1> QED
    BY <1>2, PastSizes
=============================================================================

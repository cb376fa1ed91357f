------------------------- MODULE ReachabilityProofs -------------------------
(***************************************************************************)
(* Proofs about the reachability oracle: intervals mirror the tree, the    *)
(* future-covering sets are those of a rebuild, and the queries answer     *)
(* what the pasts say, for every set of ids and every order of arrival.    *)
(*                                                                         *)
(* Trees come first (induction and recursion from a block to its children, *)
(* chains), then intervals that are nested locally and what follows of     *)
(* them globally, subtree sizes, the arithmetic of a relayout, pasts and   *)
(* mergesets, and at last the invariant and its preservation.              *)
(***************************************************************************)
EXTENDS Reachability, DataTheorems

----------------------------------------------------------------------------
(***************************************************************************)
(* Trees.                                                                  *)
(***************************************************************************)

\* par leads every block of B but genesis upwards: rank, a number below N, falls.
Tree(B, par, rank, N) ==
    /\ GenesisId \in B
    /\ par \in [B \ {GenesisId} -> B]
    /\ N \in Nat
    /\ rank \in [B -> 0..N]
    /\ \A x \in B \ {GenesisId} : rank[par[x]] < rank[x]

\* S has genesis and with a parent its children.
Inherited(B, par, S) ==
    /\ GenesisId \in S
    /\ \A x \in B \ {GenesisId} : par[x] \in S => x \in S

\* Such a set has every block.
LEMMA TreeInduction ==
    ASSUME NEW B, NEW par, NEW rank, NEW N, Tree(B, par, rank, N), NEW S, Inherited(B, par, S)
    PROVE  B \subseteq S
  <1> DEFINE T == {n \in Nat : \A x \in B : rank[x] = n => x \in S}
  <1>1. \A x \in B : rank[x] \in Nat
    BY DEF Tree
  <1>2. ASSUME NEW n \in Nat, \A m \in 0..(n - 1) : m \in T PROVE n \in T
    <2>1. SUFFICES ASSUME NEW x \in B, rank[x] = n, x # GenesisId PROVE x \in S
      BY DEF Inherited
    <2>2. par[x] \in B /\ rank[par[x]] \in Nat /\ rank[par[x]] < n
      BY <2>1, <1>1 DEF Tree
    <2>3. rank[par[x]] \in T
      BY <2>2, <1>2
    <2>4. par[x] \in S
      BY <2>2, <2>3
    <2> QED BY <2>1, <2>4 DEF Inherited
  <1>3. Nat \subseteq T
    <2> HIDE DEF T
    <2> QED BY <1>2, NatSetStrong
  <1> QED BY <1>1, <1>3

\* f is defined from its value at genesis and from parent to child by H.
Recurs(B, par, a, H, f) ==
    /\ f[GenesisId] = a
    /\ \A x \in B \ {GenesisId} : f[x] = H[x][f[par[x]]]

\* There is such a function.
LEMMA TreeRecursion ==
    ASSUME NEW B, NEW par, NEW rank, NEW N, Tree(B, par, rank, N),
           NEW V, NEW a \in V, NEW H \in [B -> [V -> V]]
    PROVE  \E f \in [B -> V] : Recurs(B, par, a, H, f)
  <1> DEFINE Low(n) == {x \in B : rank[x] < n}
             Good(f, n) == /\ f \in [B -> V]
                           /\ f[GenesisId] = a
                           /\ \A x \in Low(n) \ {GenesisId} : f[x] = H[x][f[par[x]]]
             S == {n \in Nat : \E f : Good(f, n)}
  <1>1. \A x \in B : rank[x] \in Nat /\ rank[x] <= N
    BY DEF Tree
  <1>2. 0 \in S
    <2>1. Good([x \in B |-> a], 0)
      BY <1>1 DEF Tree
    <2> QED BY <2>1
  <1>3. ASSUME NEW n \in Nat, n \in S PROVE n + 1 \in S
    <2>1. PICK f : Good(f, n)
      BY <1>3
    <2> DEFINE g == [x \in B |-> IF x # GenesisId /\ rank[x] = n THEN H[x][f[par[x]]] ELSE f[x]]
    <2>2. \A x \in B \ {GenesisId} : par[x] \in B /\ rank[par[x]] < rank[x]
      BY DEF Tree
    <2>3. g \in [B -> V]
      BY <2>1, <2>2
    <2>4. g[GenesisId] = a
      BY <2>1 DEF Tree
    <2>5. ASSUME NEW x \in Low(n + 1) \ {GenesisId} PROVE g[x] = H[x][g[par[x]]]
      <3>1. x \in B /\ rank[x] \in Nat /\ rank[x] <= n /\ par[x] \in B /\ rank[par[x]] \in Nat
            /\ rank[par[x]] < rank[x]
        BY <1>1, <2>2
      <3>2. rank[par[x]] # n
        BY <3>1
      <3>3. g[par[x]] = f[par[x]]
        BY <3>1, <3>2
      <3>4. CASE rank[x] = n
        BY <3>1, <3>3, <3>4
      <3>5. CASE rank[x] # n
        <4>1. x \in Low(n) \ {GenesisId}
          BY <3>1, <3>5
        <4> QED BY <3>1, <3>3, <3>5, <4>1, <2>1
      <3> QED BY <3>4, <3>5
    <2>6. Good(g, n + 1)
      <3> HIDE DEF g
      <3> QED BY <2>3, <2>4, <2>5
    <2>7. n + 1 \in Nat
      OBVIOUS
    <2> HIDE DEF Good, g
    <2> QED BY <2>6, <2>7
  <1>4. Nat \subseteq S
    <2> HIDE DEF S
    <2> QED BY <1>2, <1>3, NatSet
  <1>5. N + 1 \in S
    <2>1. N + 1 \in Nat
      BY DEF Tree
    <2> HIDE DEF S
    <2> QED BY <1>4, <2>1
  <1>6. PICK f : Good(f, N + 1)
    BY <1>5
  <1>7. \A x \in B : x \in Low(N + 1)
    BY <1>1 DEF Tree
  <1>8. Recurs(B, par, a, H, f)
    BY <1>6, <1>7 DEF Recurs
  <1> QED BY <1>6, <1>8

\* up is the chain of every block up to genesis.
Chains(B, par, up) ==
    /\ up \in [B -> SUBSET B]
    /\ up[GenesisId] = {GenesisId}
    /\ \A x \in B \ {GenesisId} : up[x] = {x} \cup up[par[x]]

\* There is one function of chains.
LEMMA ChainsUnique ==
    ASSUME NEW B, NEW par, NEW rank, NEW N, Tree(B, par, rank, N), NEW up, NEW wp,
           Chains(B, par, up), Chains(B, par, wp)
    PROVE  up = wp
  <1> DEFINE S == {x \in B : up[x] = wp[x]}
  <1>1. Inherited(B, par, S)
    BY DEF Inherited, Chains, Tree
  <1>2. B \subseteq S
    <2> HIDE DEF S
    <2> QED BY <1>1, TreeInduction
  <1>3. \A x \in B : up[x] = wp[x]
    BY <1>2
  <1> QED BY <1>3 DEF Chains

LEMMA ChainsUpChains ==
    ASSUME NEW B, NEW par, NEW rank, NEW N, Tree(B, par, rank, N)
    PROVE  Chains(B, par, ChainsUp(par))
  <1> DEFINE V == SUBSET B
             H == [x \in B |-> [v \in V |-> {x} \cup v]]
  <1>1. {GenesisId} \in V /\ H \in [B -> [V -> V]]
    BY DEF Tree
  <1>2. PICK f \in [B -> V] : Recurs(B, par, {GenesisId}, H, f)
    <2> HIDE DEF V, H
    <2> QED BY <1>1, TreeRecursion
  <1>3. DOMAIN par \cup {GenesisId} = B
    BY DEF Tree
  <1>4. \A x \in B \ {GenesisId} : par[x] \in B
    BY DEF Tree
  <1>5. f = [x \in B |-> {x} \cup (IF x = GenesisId THEN {} ELSE f[par[x]])]
    <2>1. ASSUME NEW x \in B PROVE f[x] = {x} \cup (IF x = GenesisId THEN {} ELSE f[par[x]])
      BY <1>2, <1>4 DEF Recurs
    <2> QED BY <1>2, <2>1
  <1> DEFINE Is(up) == up = [x \in B |-> {x} \cup (IF x = GenesisId THEN {} ELSE up[par[x]])]
             up == CHOOSE up : Is(up)
  <1>6. ChainsUp(par) = up
    BY <1>3 DEF ChainsUp
  <1>7. Is(up)
    BY <1>5
  <1> HIDE DEF up
  <1>8. \A x \in B : up[x] = {x} \cup (IF x = GenesisId THEN {} ELSE up[par[x]])
    BY <1>7
  <1> DEFINE S == {x \in B : up[x] \subseteq B}
  <1>9. Inherited(B, par, S)
    BY <1>8, <1>4 DEF Inherited, Tree
  <1>10. B \subseteq S
    <2> HIDE DEF S
    <2> QED BY <1>9, TreeInduction
  <1>11. up \in [B -> SUBSET B]
    BY <1>7, <1>10
  <1>12. up[GenesisId] = {GenesisId}
    BY <1>8 DEF Tree
  <1>13. \A x \in B \ {GenesisId} : up[x] = {x} \cup up[par[x]]
    BY <1>8
  <1> HIDE DEF Is
  <1>14. Chains(B, par, up)
    BY <1>11, <1>12, <1>13 DEF Chains
  <1> QED BY <1>6, <1>14

\* The blocks of a tree are ordered by their chains: above is transitive and
\* antisymmetric, the blocks above one block are in line, and between a block and
\* one above it comes a child of that one.
Ancestry(B, par, rank, up) ==
    /\ \A x \in B : up[x] \subseteq B /\ x \in up[x] /\ GenesisId \in up[x]
    /\ \A b, c \in B : b \in up[c] => up[b] \subseteq up[c]
    /\ \A a, b \in B : a \in up[b] /\ a # b => rank[a] < rank[b]
    /\ \A a, b \in B : a \in up[b] /\ b \in up[a] => a = b
    /\ \A a, b, c \in B : a \in up[c] /\ b \in up[c] => a \in up[b] \/ b \in up[a]
    /\ \A a, b \in B : a \in up[b] /\ a # b => b # GenesisId /\ a \in up[par[b]]
    /\ \A a, b \in B : a \in up[b] /\ a # b => \E c \in B \ {GenesisId} : c \in up[b] /\ par[c] = a

LEMMA TreeAncestry ==
    ASSUME NEW B, NEW par, NEW rank, NEW N, Tree(B, par, rank, N), NEW up, Chains(B, par, up)
    PROVE  Ancestry(B, par, rank, up)
  <1>1. \A x \in B : up[x] \subseteq B
    BY DEF Chains
  <1>2. \A x \in B \ {GenesisId} : up[x] = {x} \cup up[par[x]] /\ par[x] \in B
    BY DEF Chains, Tree
  <1>3. up[GenesisId] = {GenesisId} /\ GenesisId \in B
    BY DEF Chains, Tree
  <1>4. \A x \in B : x \in up[x]
    BY <1>2, <1>3
  <1>5. \A x \in B : GenesisId \in up[x]
    <2> DEFINE S == {x \in B : GenesisId \in up[x]}
    <2>1. Inherited(B, par, S)
      BY <1>2, <1>3 DEF Inherited
    <2>2. B \subseteq S
      <3> HIDE DEF S
      <3> QED BY <2>1, TreeInduction
    <2> QED BY <2>2
  <1>6. \A b, c \in B : b \in up[c] => up[b] \subseteq up[c]
    <2> DEFINE S == {c \in B : \A b \in B : b \in up[c] => up[b] \subseteq up[c]}
    <2>1. GenesisId \in S
      BY <1>3
    <2>2. \A x \in B \ {GenesisId} : par[x] \in S => x \in S
      BY <1>2
    <2>3. Inherited(B, par, S)
      BY <2>1, <2>2 DEF Inherited
    <2>4. B \subseteq S
      <3> HIDE DEF S
      <3> QED BY <2>3, TreeInduction
    <2> QED BY <2>4
  <1>7. \A a, b \in B : a \in up[b] /\ a # b => b # GenesisId /\ a \in up[par[b]]
    BY <1>2, <1>3
  <1>8. \A a, b \in B : a \in up[b] /\ a # b => rank[a] < rank[b]
    <2> DEFINE S == {b \in B : \A a \in B : a \in up[b] /\ a # b => rank[a] < rank[b]}
    <2>1. GenesisId \in S
      BY <1>3
    <2>2. ASSUME NEW x \in B \ {GenesisId}, par[x] \in S PROVE x \in S
      <3>1. SUFFICES ASSUME NEW a \in B, a \in up[x], a # x PROVE rank[a] < rank[x]
        OBVIOUS
      <3>2. a \in up[par[x]] /\ par[x] \in B
        BY <3>1, <1>2
      <3>3. rank[par[x]] < rank[x] /\ rank[x] \in Nat /\ rank[par[x]] \in Nat /\ rank[a] \in Nat
        BY <3>2 DEF Tree
      <3>4. a = par[x] \/ rank[a] < rank[par[x]]
        BY <2>2, <3>2
      <3> QED BY <3>3, <3>4
    <2>3. Inherited(B, par, S)
      BY <2>1, <2>2 DEF Inherited
    <2>4. B \subseteq S
      <3> HIDE DEF S
      <3> QED BY <2>3, TreeInduction
    <2> QED BY <2>4
  <1>9. \A a, b \in B : a \in up[b] /\ b \in up[a] => a = b
    <2>1. \A x \in B : rank[x] \in Nat
      BY DEF Tree
    <2> QED BY <1>8, <2>1
  <1>10. \A a, b, c \in B : a \in up[c] /\ b \in up[c] => a \in up[b] \/ b \in up[a]
    <2> DEFINE S == {c \in B : \A a, b \in B : a \in up[c] /\ b \in up[c] => a \in up[b] \/ b \in up[a]}
    <2>1. GenesisId \in S
      BY <1>3
    <2>2. ASSUME NEW x \in B \ {GenesisId}, par[x] \in S PROVE x \in S
      <3>1. SUFFICES ASSUME NEW a \in B, NEW b \in B, a \in up[x], b \in up[x]
                     PROVE  a \in up[b] \/ b \in up[a]
        OBVIOUS
      <3>2. CASE a = x \/ b = x
        BY <3>1, <3>2
      <3>3. CASE a # x /\ b # x
        BY <3>1, <3>3, <2>2, <1>2
      <3> QED BY <3>2, <3>3
    <2>3. Inherited(B, par, S)
      BY <2>1, <2>2 DEF Inherited
    <2>4. B \subseteq S
      <3> HIDE DEF S
      <3> QED BY <2>3, TreeInduction
    <2> QED BY <2>4
  <1>11. \A a, b \in B : a \in up[b] /\ a # b => \E c \in B \ {GenesisId} : c \in up[b] /\ par[c] = a
    <2> DEFINE S == {b \in B : \A a \in B : a \in up[b] /\ a # b =>
                                 \E c \in B \ {GenesisId} : c \in up[b] /\ par[c] = a}
    <2>1. GenesisId \in S
      BY <1>3
    <2>2. ASSUME NEW x \in B \ {GenesisId}, par[x] \in S PROVE x \in S
      <3>1. SUFFICES ASSUME NEW a \in B, a \in up[x], a # x
                     PROVE  \E c \in B \ {GenesisId} : c \in up[x] /\ par[c] = a
        OBVIOUS
      <3>2. CASE a = par[x]
        BY <3>2, <1>4
      <3>3. CASE a # par[x]
        BY <3>1, <3>3, <2>2, <1>2
      <3> QED BY <3>2, <3>3
    <2>3. Inherited(B, par, S)
      BY <2>1, <2>2 DEF Inherited
    <2>4. B \subseteq S
      <3> HIDE DEF S
      <3> QED BY <2>3, TreeInduction
    <2> QED BY <2>4
  <1> QED
    BY <1>1, <1>4, <1>5, <1>6, <1>7, <1>8, <1>9, <1>10, <1>11 DEF Ancestry

\* A new leaf below sp leaves the chains of the others as they are.
LEMMA ChainsGrow ==
    ASSUME NEW B, NEW par, NEW rank, NEW N, Tree(B, par, rank, N), NEW up, Chains(B, par, up),
           NEW id, id \notin B, NEW sp \in B
    PROVE  Chains(B \cup {id}, Put(par, id, sp), Put(up, id, {id} \cup up[sp]))
  <1> DEFINE C == B \cup {id}
             q == Put(par, id, sp)
             w == Put(up, id, {id} \cup up[sp])
  <1>1. DOMAIN par = B \ {GenesisId} /\ DOMAIN up = B /\ id # GenesisId /\ GenesisId \in B
    BY DEF Tree, Chains
  <1>2. w = [x \in C |-> IF x = id THEN {id} \cup up[sp] ELSE up[x]]
    BY <1>1 DEF Put
  <1>3. q = [x \in C \ {GenesisId} |-> IF x = id THEN sp ELSE par[x]]
    BY <1>1 DEF Put
  <1>4. up \in [B -> SUBSET B] /\ \A x \in B \ {GenesisId} : up[x] = {x} \cup up[par[x]] /\ par[x] \in B
    BY DEF Chains, Tree
  <1> HIDE DEF w, q
  <1>5. w \in [C -> SUBSET C]
    BY <1>2, <1>4
  <1>6. w[GenesisId] = {GenesisId}
    BY <1>1, <1>2 DEF Chains
  <1>7. ASSUME NEW x \in C \ {GenesisId} PROVE w[x] = {x} \cup w[q[x]]
    <2>1. CASE x = id
      <3>1. q[x] = sp /\ w[sp] = up[sp]
        BY <2>1, <1>1, <1>2, <1>3
      <3> QED BY <3>1, <2>1, <1>2
    <2>2. CASE x # id
      <3>1. q[x] = par[x] /\ par[x] \in B /\ w[par[x]] = up[par[x]] /\ w[x] = up[x]
        BY <2>2, <1>2, <1>3, <1>4
      <3> QED BY <3>1, <2>2, <1>4
    <2> QED BY <2>1, <2>2
  <1> QED BY <1>5, <1>6, <1>7 DEF Chains, w, q

----------------------------------------------------------------------------
(***************************************************************************)
(* Nested intervals.                                                       *)
(***************************************************************************)

\* Every block has an interval with some points handed out, at least its own; a
\* child is placed among those, beside its siblings and after its parent's point.
Nested(B, par, ivs, free) ==
    /\ \A x \in B : /\ ivs[x].lo \in Int /\ ivs[x].hi \in Int /\ free[x] \in Int
                    /\ ivs[x].lo < free[x] /\ free[x] <= ivs[x].hi + 1
    /\ \A x \in B \ {GenesisId} : ivs[par[x]].lo < ivs[x].lo /\ ivs[x].hi < free[par[x]]
    /\ \A x, y \in B \ {GenesisId} :
         par[x] = par[y] /\ x # y => ivs[x].hi < ivs[y].lo \/ ivs[y].hi < ivs[x].lo

Apart(ivs, x, y) == ivs[x].hi < ivs[y].lo \/ ivs[y].hi < ivs[x].lo

\* Intervals are contained as blocks are above one another, and otherwise apart.
Mirrored(B, up, ivs) ==
    /\ \A x \in B : ivs[x].lo \in Int /\ ivs[x].hi \in Int /\ ivs[x].lo <= ivs[x].hi
    /\ \A a, b \in B : a \in up[b] => Covers(ivs, a, b)
    /\ \A a, b \in B : a \in up[b] /\ a # b => ivs[a].lo < ivs[b].lo
    /\ \A a, b \in B : a \notin up[b] /\ b \notin up[a] => Apart(ivs, a, b)

LEMMA NestedMirrors ==
    ASSUME NEW B, NEW par, NEW rank, NEW N, Tree(B, par, rank, N), NEW up, Chains(B, par, up),
           NEW ivs, NEW free, Nested(B, par, ivs, free)
    PROVE  Mirrored(B, up, ivs)
  <1> USE DEF Covers
  <1>1. Ancestry(B, par, rank, up)
    BY TreeAncestry
  <1>2. \A x \in B : ivs[x].lo \in Int /\ ivs[x].hi \in Int /\ ivs[x].lo <= ivs[x].hi
    BY DEF Nested
  <1>3. ASSUME NEW x \in B \ {GenesisId}
        PROVE  par[x] \in B /\ ivs[par[x]].lo < ivs[x].lo /\ ivs[x].hi <= ivs[par[x]].hi
    BY DEF Nested, Tree
  <1>4. \A a, b \in B : a \in up[b] => Covers(ivs, a, b)
    <2> DEFINE S == {b \in B : \A a \in B : a \in up[b] => Covers(ivs, a, b)}
    <2>1. GenesisId \in S
      BY <1>2 DEF Chains, Tree
    <2>2. ASSUME NEW x \in B \ {GenesisId}, par[x] \in S PROVE x \in S
      <3>1. SUFFICES ASSUME NEW a \in B, a \in up[x] PROVE Covers(ivs, a, x)
        OBVIOUS
      <3>2. CASE a = x
        BY <3>2, <1>2
      <3>3. CASE a # x
        <4>1. a \in up[par[x]]
          BY <3>1, <3>3, <1>1 DEF Ancestry
        <4>2. Covers(ivs, a, par[x])
          BY <4>1, <2>2
        <4> QED BY <4>2, <1>2, <1>3
      <3> QED BY <3>2, <3>3
    <2>3. Inherited(B, par, S)
      BY <2>1, <2>2 DEF Inherited
    <2>4. B \subseteq S
      <3> HIDE DEF S
      <3> QED BY <2>3, TreeInduction
    <2> QED BY <2>4
  <1>5. ASSUME NEW a \in B, NEW b \in B, a \in up[b], a # b PROVE ivs[a].lo < ivs[b].lo
    <2>1. b # GenesisId /\ a \in up[par[b]]
      BY <1>1, <1>5 DEF Ancestry
    <2>2. Covers(ivs, a, par[b])
      BY <2>1, <1>3, <1>4
    <2> QED BY <2>1, <2>2, <1>2, <1>3
  <1>6. \A a, b \in B : a \notin up[b] /\ b \notin up[a] => Apart(ivs, a, b)
    <2> DEFINE S == {a \in B : \A b \in B : a \notin up[b] /\ b \notin up[a] => Apart(ivs, a, b)}
    <2>1. GenesisId \in S
      BY <1>1 DEF Ancestry, Tree
    <2>2. ASSUME NEW x \in B \ {GenesisId}, par[x] \in S PROVE x \in S
      <3>1. SUFFICES ASSUME NEW b \in B, x \notin up[b], b \notin up[x] PROVE Apart(ivs, x, b)
        OBVIOUS
      <3>2. b \notin up[par[x]] /\ par[x] \in B
        BY <3>1 DEF Chains, Tree
      <3>3. CASE par[x] \notin up[b]
        <4>1. Apart(ivs, par[x], b)
          BY <3>2, <3>3, <2>2
        <4>2. Covers(ivs, par[x], x)
          BY <1>2, <1>3
        <4> QED BY <4>1, <4>2, <1>2, <3>2 DEF Apart
      <3>4. CASE par[x] \in up[b]
        <4>1. par[x] # b
          BY <3>2, <1>1 DEF Ancestry
        <4>2. PICK c \in B \ {GenesisId} : c \in up[b] /\ par[c] = par[x]
          BY <3>2, <3>4, <4>1, <1>1 DEF Ancestry
        <4>3. c # x
          BY <4>2, <3>1
        <4>4. Apart(ivs, x, c)
          BY <4>2, <4>3 DEF Nested, Apart
        <4>5. Covers(ivs, c, b)
          BY <4>2, <1>4
        <4> QED BY <4>4, <4>5, <1>2 DEF Apart
      <3> QED BY <3>3, <3>4
    <2>3. Inherited(B, par, S)
      BY <2>1, <2>2 DEF Inherited
    <2>4. B \subseteq S
      <3> HIDE DEF S
      <3> QED BY <2>3, TreeInduction
    <2> QED BY <2>4
  <1> QED
    BY <1>2, <1>4, <1>5, <1>6 DEF Mirrored

\* The tree query answers what the chains say.
LEMMA MirroredReach ==
    ASSUME NEW B, NEW up, NEW ivs, Mirrored(B, up, ivs), NEW x \in B, NEW y \in B
    PROVE  ivs[y].lo \in ivs[x].lo .. ivs[x].hi <=> x \in up[y]
  <1>1. \A z \in B : ivs[z].lo \in Int /\ ivs[z].hi \in Int /\ ivs[z].lo <= ivs[z].hi
    BY DEF Mirrored
  <1>2. ASSUME x \in up[y] PROVE ivs[y].lo \in ivs[x].lo .. ivs[x].hi
    <2>1. Covers(ivs, x, y)
      BY <1>2 DEF Mirrored
    <2> QED BY <2>1, <1>1 DEF Covers
  <1>3. ASSUME x \notin up[y] PROVE ivs[y].lo \notin ivs[x].lo .. ivs[x].hi
    <2>1. CASE y \in up[x]
      <3>1. x = y \/ ivs[y].lo < ivs[x].lo
        BY <2>1 DEF Mirrored
      <3>2. x # y
        BY <1>3, <2>1
      <3> QED BY <3>1, <3>2, <1>1
    <2>2. CASE y \notin up[x]
      <3>1. Apart(ivs, x, y)
        BY <1>3, <2>2 DEF Mirrored
      <3> QED BY <3>1, <1>1 DEF Apart
    <2> QED BY <2>1, <2>2
  <1> QED BY <1>2, <1>3

\* So does the comparison of two intervals.
LEMMA MirroredCovers ==
    ASSUME NEW B, NEW up, NEW ivs, Mirrored(B, up, ivs), NEW x \in B, NEW y \in B, Covers(ivs, x, y)
    PROVE  x \in up[y]
  <1>1. ivs[y].lo \in ivs[x].lo .. ivs[x].hi
    BY DEF Mirrored, Covers
  <1> QED BY <1>1, MirroredReach

\* An interval has a point for every block below.
LEMMA MirroredWidth ==
    ASSUME NEW B, IsFiniteSet(B), NEW up, NEW ivs, Mirrored(B, up, ivs), NEW b \in B
    PROVE  ivs[b].hi - ivs[b].lo + 1 >= Cardinality({x \in B : b \in up[x]})
  <1> DEFINE S == {x \in B : b \in up[x]}
             T == ivs[b].lo .. ivs[b].hi
             f == [x \in S |-> ivs[x].lo]
  <1>1. ivs[b].lo \in Int /\ ivs[b].hi \in Int /\ ivs[b].lo <= ivs[b].hi
    BY DEF Mirrored
  <1>2. f \in [S -> T]
    BY MirroredReach
  <1>3. ASSUME NEW x \in S, NEW y \in S, x # y PROVE f[x] # f[y]
    <2>1. ivs[x].lo \in Int /\ ivs[y].lo \in Int /\ ivs[x].hi \in Int /\ ivs[y].hi \in Int
          /\ ivs[x].lo <= ivs[x].hi /\ ivs[y].lo <= ivs[y].hi
      BY DEF Mirrored
    <2>2. ivs[x].lo < ivs[y].lo \/ ivs[y].lo < ivs[x].lo \/ Apart(ivs, x, y)
      BY <1>3 DEF Mirrored
    <2> QED BY <2>1, <2>2 DEF Apart
  <1>4. f \in Injection(S, T)
    BY <1>2, <1>3 DEF Injection, IsInjective
  <1>5. IsFiniteSet(T) /\ Cardinality(T) = ivs[b].hi - ivs[b].lo + 1
    BY <1>1, FS_Interval
  <1>7. Cardinality(S) <= Cardinality(T)
    <2> HIDE DEF S, T, f
    <2> QED BY <1>4, <1>5, FS_Injection
  <1>8. Cardinality(S) \in Nat
    BY FS_Subset, FS_CardinalityType
  <1> QED BY <1>1, <1>5, <1>7, <1>8

----------------------------------------------------------------------------
(***************************************************************************)
(* Subtree sizes.                                                          *)
(***************************************************************************)

\* sizes counts the blocks below each, itself included: one and those below its
\* children.
Sized(B, par, up, sizes) ==
    /\ \A x \in B : sizes[x] \in Nat /\ sizes[x] = Cardinality({y \in B : x \in up[y]})
    /\ \A x \in B : sizes[x] = 1 + Sum(sizes, Children(par, x))

\* What a new leaf below sp does to them.
Counted(B, up, sizes, id, sp) ==
    [b \in B \cup {id} |->
        IF b = id THEN 1 ELSE IF b \in up[sp] THEN sizes[b] + 1 ELSE sizes[b]]

LEMMA ChildrenOf ==
    ASSUME NEW B, IsFiniteSet(B), NEW par, NEW rank, NEW N, Tree(B, par, rank, N), NEW x
    PROVE  /\ Children(par, x) = {c \in B \ {GenesisId} : par[c] = x}
           /\ Children(par, x) \subseteq B \ {GenesisId}
           /\ IsFiniteSet(Children(par, x))
  <1>1. Children(par, x) = {c \in B \ {GenesisId} : par[c] = x}
    BY DEF Children, Tree
  <1>2. Children(par, x) \subseteq B
    BY <1>1
  <1> QED BY <1>1, <1>2, FS_Subset

LEMMA ChildrenGrow ==
    ASSUME NEW B, NEW par, NEW rank, NEW N, Tree(B, par, rank, N),
           NEW id, id \notin B, NEW sp \in B, NEW x \in B \cup {id}
    PROVE  Children(Put(par, id, sp), x) =
             IF x = sp THEN Children(par, x) \cup {id} ELSE Children(par, x)
  <1>1. DOMAIN par = B \ {GenesisId} /\ id \notin DOMAIN par
    BY DEF Tree
  <1> QED BY <1>1 DEF Children, Put

LEMMA NoChildren ==
    ASSUME NEW B, NEW par, NEW rank, NEW N, Tree(B, par, rank, N), NEW id, id \notin B
    PROVE  Children(par, id) = {}
  BY DEF Children, Tree

\* The subtrees of sp and of the blocks above it have the leaf, no other has.
LEMMA SubtreeGrow ==
    ASSUME NEW B, IsFiniteSet(B), NEW par, NEW rank, NEW N, Tree(B, par, rank, N),
           NEW up, Chains(B, par, up), NEW sizes, Sized(B, par, up, sizes),
           NEW id, id \notin B, NEW sp \in B, NEW x \in B \cup {id}
    PROVE  /\ Counted(B, up, sizes, id, sp)[x] \in Nat
           /\ Counted(B, up, sizes, id, sp)[x] =
                Cardinality({y \in B \cup {id} : x \in Put(up, id, {id} \cup up[sp])[y]})
  <1> DEFINE C == B \cup {id}
             sz == Counted(B, up, sizes, id, sp)
             w == Put(up, id, {id} \cup up[sp])
             new == {y \in C : x \in w[y]}
             old == {y \in B : x \in up[y]}
  <1>1. DOMAIN up = B /\ \A y \in B : up[y] \subseteq B
    BY DEF Chains
  <1>2. \A y \in C : w[y] = IF y = id THEN {id} \cup up[sp] ELSE up[y]
    BY <1>1 DEF Put
  <1>3. sz[x] = IF x = id THEN 1 ELSE IF x \in up[sp] THEN sizes[x] + 1 ELSE sizes[x]
    BY DEF Counted
  <1> HIDE DEF w
  <1>4. CASE x = id
    <2>1. new = {id}
      BY <1>1, <1>2, <1>4
    <2>2. Cardinality(new) = 1
      BY <2>1, FS_Singleton
    <2> QED BY <1>3, <1>4, <2>2 DEF w
  <1>5. CASE x # id
    <2>1. IsFiniteSet(old) /\ id \notin old
      BY FS_Subset
    <2>2. sizes[x] \in Nat /\ sizes[x] = Cardinality(old)
      BY <1>5 DEF Sized
    <2>3. CASE x \in up[sp]
      <3>1. new = old \cup {id}
        BY <1>2, <1>5, <2>3
      <3>2. Cardinality(new) = Cardinality(old) + 1
        <4> HIDE DEF old, new
        <4> QED BY <2>1, <3>1, FS_AddElement
      <3> QED BY <1>3, <1>5, <2>2, <2>3, <3>2 DEF w
    <2>4. CASE x \notin up[sp]
      <3>1. new = old
        BY <1>2, <1>5, <2>4
      <3> QED BY <1>3, <1>5, <2>2, <2>4, <3>1 DEF w
    <2> QED BY <2>3, <2>4
  <1> QED BY <1>4, <1>5

\* One member of S counts one more.
LEMMA SumBump ==
    ASSUME NEW f, NEW g, NEW S, IsFiniteSet(S), NEW c \in S,
           \A x \in S : f[x] \in Nat,
           \A x \in S \ {c} : g[x] = f[x], g[c] = f[c] + 1
    PROVE  Sum(g, S) = Sum(f, S) + 1 /\ Sum(f, S) \in Int
  <1>1. Numbers(f, S) /\ Numbers(g, S)
    BY DEF Numbers
  <1>2. Sum(f, S) = f[c] + Sum(f, S \ {c}) /\ Sum(g, S) = g[c] + Sum(g, S \ {c})
    BY <1>1, SumRemove
  <1>3. IsFiniteSet(S \ {c})
    BY FS_RemoveElement
  <1>4. Sum(f, S \ {c}) = Sum(g, S \ {c}) /\ Sum(f, S \ {c}) \in Nat
    BY <1>3, SumSame
  <1> QED BY <1>2, <1>4

\* No two children of one block are above the same block.
LEMMA OneChildAbove ==
    ASSUME NEW B, NEW par, NEW rank, NEW N, Tree(B, par, rank, N), NEW up, Chains(B, par, up),
           NEW b \in B, NEW x \in B \ {GenesisId}, NEW y \in B \ {GenesisId},
           x \in up[b], y \in up[b], par[x] = par[y]
    PROVE  x = y
  <1>1. Ancestry(B, par, rank, up)
    BY TreeAncestry
  <1>2. SUFFICES ASSUME x # y PROVE FALSE
    OBVIOUS
  <1>3. x \in up[y] \/ y \in up[x]
    BY <1>1 DEF Ancestry
  <1>4. x \in up[par[y]] \/ y \in up[par[x]]
    BY <1>1, <1>2, <1>3 DEF Ancestry
  <1>5. par[x] \in B /\ par[x] \in up[x] /\ par[y] \in up[y]
    BY <1>1 DEF Chains, Ancestry, Tree
  <1>6. x = par[x] \/ y = par[x]
    BY <1>1, <1>4, <1>5 DEF Ancestry
  <1>7. \A z \in B \ {GenesisId} : par[z] # z
    BY DEF Tree
  <1> QED BY <1>6, <1>7

LEMMA SumGrow ==
    ASSUME NEW B, IsFiniteSet(B), NEW par, NEW rank, NEW N, Tree(B, par, rank, N),
           NEW up, Chains(B, par, up), NEW sizes, Sized(B, par, up, sizes),
           NEW id, id \notin B, NEW sp \in B, NEW x \in B \cup {id}
    PROVE  Counted(B, up, sizes, id, sp)[x] =
             1 + Sum(Counted(B, up, sizes, id, sp), Children(Put(par, id, sp), x))
  <1> DEFINE C == B \cup {id}
             sz == Counted(B, up, sizes, id, sp)
             q == Put(par, id, sp)
             old == Children(par, x)
  <1>1. Ancestry(B, par, rank, up)
    BY TreeAncestry
  <1>2. \A b \in C : sz[b] = IF b = id THEN 1 ELSE IF b \in up[sp] THEN sizes[b] + 1 ELSE sizes[b]
    BY DEF Counted
  <1>3. Children(q, x) = IF x = sp THEN old \cup {id} ELSE old
    BY ChildrenGrow
  <1>4. \A b \in B : sizes[b] \in Nat
    BY DEF Sized
  <1>5. /\ old = {c \in B \ {GenesisId} : par[c] = x}
        /\ old \subseteq B \ {GenesisId}
        /\ IsFiniteSet(old)
    BY ChildrenOf
  <1> HIDE DEF sz, q, old
  <1>6. id \notin old /\ \A c \in old : sizes[c] \in Nat /\ c \in B /\ c # id
    BY <1>4, <1>5
  <1>7. CASE x = id
    <2>1. old = {} /\ x # sp
      BY <1>7, NoChildren DEF old
    <2>2. Sum(sz, Children(q, x)) = 0
      BY <1>3, <2>1, SumEmpty
    <2> QED BY <2>2, <1>2, <1>7 DEF sz, q
  <1>8. CASE x # id
    <2>1. x \in B /\ sizes[x] = 1 + Sum(sizes, old)
      BY <1>8 DEF Sized, old
    <2>2. CASE x = sp
      <3>1. \A c \in old : c \notin up[sp]
        <4>1. SUFFICES ASSUME NEW c \in old, c \in up[sp] PROVE FALSE
          OBVIOUS
        <4>2. c \in B \ {GenesisId} /\ par[c] = sp /\ c # sp
          BY <1>5, <2>2 DEF Tree
        <4>3. rank[c] < rank[sp] /\ rank[sp] < rank[c] /\ rank[c] \in Nat /\ rank[sp] \in Nat
          BY <4>1, <4>2, <1>1 DEF Ancestry, Tree
        <4> QED BY <4>3
      <3>2. \A c \in old : sizes[c] = sz[c] /\ sizes[c] \in Nat
        BY <3>1, <1>2, <1>6
      <3>3. Sum(sizes, old) = Sum(sz, old) /\ Sum(sizes, old) \in Nat
        BY <3>2, <1>5, SumSame
      <3>4. sz[id] = 1
        BY <1>2
      <3>5. Numbers(sz, old \cup {id})
        BY <3>2, <3>4 DEF Numbers
      <3>6. Sum(sz, old \cup {id}) = Sum(sz, old) + sz[id]
        BY <3>5, <1>5, <1>6, SumAdd
      <3>7. sz[x] = sizes[x] + 1
        BY <1>1, <1>2, <1>8, <2>1, <2>2 DEF Ancestry
      <3> QED BY <2>1, <2>2, <3>3, <3>4, <3>6, <3>7, <1>3 DEF sz, q
    <2>3. CASE x # sp /\ x \in up[sp]
      <3>1. PICK c \in B \ {GenesisId} : c \in up[sp] /\ par[c] = x
        BY <2>1, <2>3, <1>1 DEF Ancestry
      <3>2. c \in old
        BY <3>1, <1>5
      <3>3. \A d \in old \ {c} : d \notin up[sp]
        BY <3>1, <1>5, OneChildAbove
      <3>4. \A d \in old \ {c} : sz[d] = sizes[d]
        BY <3>3, <1>2, <1>6
      <3>5. sz[c] = sizes[c] + 1
        BY <3>1, <3>2, <1>2, <1>6
      <3>6. Sum(sz, old) = Sum(sizes, old) + 1 /\ Sum(sizes, old) \in Int
        BY <3>2, <3>4, <3>5, <1>5, <1>6, SumBump
      <3>7. sz[x] = sizes[x] + 1
        BY <1>2, <1>8, <2>1, <2>3
      <3> QED BY <2>1, <2>3, <3>6, <3>7, <1>3 DEF sz, q
    <2>4. CASE x \notin up[sp]
      <3>1. \A c \in old : c \notin up[sp]
        <4>1. SUFFICES ASSUME NEW c \in old, c \in up[sp] PROVE FALSE
          OBVIOUS
        <4>2. c \in B \ {GenesisId} /\ par[c] = x
          BY <1>5
        <4>3. x \in up[c]
          BY <4>2, <2>1, <1>1 DEF Chains, Ancestry
        <4>4. x \in up[sp]
          BY <4>1, <4>2, <4>3, <1>1 DEF Ancestry
        <4> QED BY <4>4, <2>4
      <3>2. \A c \in old : sizes[c] = sz[c] /\ sizes[c] \in Nat
        BY <3>1, <1>2, <1>6
      <3>3. Sum(sizes, old) = Sum(sz, old)
        BY <3>2, <1>5, SumSame
      <3>4. x # sp
        BY <2>4, <1>1 DEF Ancestry
      <3>5. sz[x] = sizes[x]
        BY <1>2, <1>8, <2>1, <2>4
      <3> QED BY <2>1, <3>3, <3>4, <3>5, <1>3 DEF sz, q
    <2> QED BY <2>2, <2>3, <2>4
  <1> QED BY <1>7, <1>8

LEMMA SizedGrow ==
    ASSUME NEW B, IsFiniteSet(B), NEW par, NEW rank, NEW N, Tree(B, par, rank, N),
           NEW up, Chains(B, par, up), NEW sizes, Sized(B, par, up, sizes),
           NEW id, id \notin B, NEW sp \in B
    PROVE  Sized(B \cup {id}, Put(par, id, sp), Put(up, id, {id} \cup up[sp]),
                 Counted(B, up, sizes, id, sp))
  <1> DEFINE C == B \cup {id}
             q == Put(par, id, sp)
             w == Put(up, id, {id} \cup up[sp])
             sz == Counted(B, up, sizes, id, sp)
  <1>1. ASSUME NEW x \in C PROVE sz[x] \in Nat /\ sz[x] = Cardinality({y \in C : x \in w[y]})
    BY SubtreeGrow
  <1>2. ASSUME NEW x \in C PROVE sz[x] = 1 + Sum(sz, Children(q, x))
    BY SumGrow
  <1> HIDE DEF C, q, w, sz
  <1>3. Sized(C, q, w, sz)
    BY <1>1, <1>2 DEF Sized
  <1> QED BY <1>3 DEF C, q, w, sz

----------------------------------------------------------------------------
(***************************************************************************)
(* Slices and cursors.                                                     *)
(***************************************************************************)

\* Division rounds down.
LEMMA DivBound ==
    ASSUME NEW m \in Nat, NEW t \in Nat \ {0}
    PROVE  m \div t \in Nat /\ t * (m \div t) <= m
  OBVIOUS

LEMMA DivInt ==
    ASSUME NEW m \in Int, NEW t \in Nat \ {0}
    PROVE  m \div t \in Int
  OBVIOUS

LEMMA Spread ==
    ASSUME NEW a \in Int, NEW b \in Int, NEW c \in Int
    PROVE  a * (b + c) = a * b + a * c /\ (b + c) * a = b * a + c * a /\ a * b = b * a
           /\ a * b \in Int
  OBVIOUS

LEMMA NatProduct ==
    ASSUME NEW a \in Nat, NEW b \in Nat
    PROVE  a * b \in Nat
  OBVIOUS

\* A slice has its subtree's points, and its share of the t descendants is no more
\* than its share of the interval.
LEMMA SliceBounds ==
    ASSUME NEW iv, iv.lo \in Int, iv.hi \in Int, NEW t \in Nat \ {0}, iv.hi - iv.lo >= t,
           NEW size \in Nat
    PROVE  /\ Slice(iv, t, size) \in Nat /\ Slice(iv, t, size) >= size
           /\ t * Slice(iv, t, size) <= (iv.hi - iv.lo) * size
  <1> DEFINE d == (iv.hi - iv.lo) - t
             m == d * size
             k == m \div t
  <1>1. d \in Nat /\ iv.hi - iv.lo = t + d
    OBVIOUS
  <1>2. Slice(iv, t, size) = size + k
    BY DEF Slice
  <1> HIDE DEF d
  <1>3. m \in Nat
    BY <1>1, NatProduct
  <1> HIDE DEF m
  <1>4. k \in Nat /\ t * k <= m
    BY <1>3, DivBound
  <1> HIDE DEF k
  <1>5. t * (size + k) = t * size + t * k /\ t * size \in Int /\ t * k \in Int
    BY <1>4, Spread
  <1>6. (t + d) * size = t * size + m
    BY <1>1, Spread DEF m
  <1> QED BY <1>1, <1>2, <1>3, <1>4, <1>5, <1>6

\* What holds of each summand up to factors holds of the sums.
LEMMA SumScaled ==
    ASSUME NEW f, NEW g, NEW S, IsFiniteSet(S), NEW t \in Nat, NEW r \in Nat,
           \A x \in S : f[x] \in Nat /\ g[x] \in Nat /\ t * g[x] <= r * f[x]
    PROVE  t * Sum(g, S) <= r * Sum(f, S) /\ Sum(f, S) \in Nat /\ Sum(g, S) \in Nat
  <1> DEFINE Good(u) == t * Sum(g, u) <= r * Sum(f, u) /\ Sum(f, u) \in Nat /\ Sum(g, u) \in Nat
             N == {n \in Nat : \A u \in SUBSET S : Cardinality(u) = n => Good(u)}
  <1>0. \A u \in SUBSET S : IsFiniteSet(u) /\ Cardinality(u) \in Nat
    BY FS_Subset, FS_CardinalityType
  <1>1. 0 \in N
    <2> SUFFICES ASSUME NEW u \in SUBSET S, Cardinality(u) = 0 PROVE Good(u)
      OBVIOUS
    <2>1. u = {}
      BY <1>0, FS_EmptySet
    <2>2. Sum(f, u) = 0 /\ Sum(g, u) = 0
      BY <2>1, SumEmpty
    <2> QED BY <2>2
  <1>2. ASSUME NEW n \in Nat, n \in N PROVE n + 1 \in N
    <2> SUFFICES ASSUME NEW u \in SUBSET S, Cardinality(u) = n + 1 PROVE Good(u)
      OBVIOUS
    <2>1. u # {} /\ IsFiniteSet(u)
      BY <1>0, FS_EmptySet
    <2> DEFINE c == Picked(u)
               a == Sum(f, u \ {c})
               b == Sum(g, u \ {c})
    <2>0. c \in u /\ Cardinality(u \ {c}) = Cardinality(u) - 1
      BY <2>1, PickedOut
    <2>2. c \in u /\ u \ {c} \in SUBSET S /\ Cardinality(u \ {c}) = n
      <3> HIDE DEF c
      <3> QED BY <2>0
    <2>3. Sum(f, u) = f[c] + a /\ Sum(g, u) = g[c] + b
      BY <2>1, SumUnfold
    <2>4. t * b <= r * a /\ a \in Nat /\ b \in Nat
      BY <1>2, <2>2
    <2>5. f[c] \in Nat /\ g[c] \in Nat /\ t * g[c] <= r * f[c]
      BY <2>2
    <2> HIDE DEF c, a, b
    <2>6. t * (g[c] + b) = t * g[c] + t * b /\ t * g[c] \in Int /\ t * b \in Int
      BY <2>4, <2>5, Spread
    <2>7. r * (f[c] + a) = r * f[c] + r * a /\ r * f[c] \in Int /\ r * a \in Int
      BY <2>4, <2>5, Spread
    <2> QED BY <2>3, <2>4, <2>5, <2>6, <2>7
  <1>3. N = Nat
    <2> HIDE DEF N
    <2>1. N \subseteq Nat
      BY DEF N
    <2> QED BY <1>1, <1>2, <2>1, NatSet
  <1> QED
    BY <1>0, <1>3

\* A sum of naturals over more is no less.
LEMMA SumMore ==
    ASSUME NEW f, NEW S, IsFiniteSet(S), \A x \in S : f[x] \in Nat, NEW R \in SUBSET S
    PROVE  Sum(f, R) <= Sum(f, S) /\ Sum(f, R) \in Nat /\ Sum(f, S) \in Nat
  <1>1. IsFiniteSet(R) /\ IsFiniteSet(S \ R)
    BY FS_Subset
  <1>2. R \cup (S \ R) = S /\ R \cap (S \ R) = {}
    OBVIOUS
  <1>3. Numbers(f, R \cup (S \ R))
    BY DEF Numbers
  <1>4. Sum(f, R \cup (S \ R)) = Sum(f, R) + Sum(f, S \ R)
    BY <1>1, <1>2, <1>3, SumUnion
  <1>5. Sum(f, R) \in Nat /\ Sum(f, S \ R) \in Nat /\ Sum(f, S) \in Nat
    BY <1>1, SumSame
  <1> QED BY <1>2, <1>4, <1>5, SMTT(30)

\* iv has room for the t descendants of a block with the children K.
Roomy(iv, K, sizes, t) ==
    /\ iv.lo \in Int /\ iv.hi \in Int
    /\ IsFiniteSet(K) /\ \A c \in K : sizes[c] \in Nat \ {0}
    /\ t = Sum(sizes, K) /\ iv.hi - iv.lo >= t

\* The slices of all children.
Spans(iv, K, sizes, t) == [c \in K |-> Slice(iv, t, sizes[c])]

LEMMA SpansBounds ==
    ASSUME NEW iv, NEW K, NEW sizes, NEW t, Roomy(iv, K, sizes, t), K # {}
    PROVE  /\ t \in Nat \ {0}
           /\ \A c \in K : /\ Spans(iv, K, sizes, t)[c] \in Nat
                           /\ Spans(iv, K, sizes, t)[c] >= sizes[c]
                           /\ t * Spans(iv, K, sizes, t)[c] <= (iv.hi - iv.lo) * sizes[c]
  <1>1. IsFiniteSet(K) /\ (\A c \in K : sizes[c] \in Nat \ {0}) /\ t = Sum(sizes, K)
        /\ iv.lo \in Int /\ iv.hi \in Int /\ iv.hi - iv.lo >= t
    BY DEF Roomy
  <1>2. PICK c \in K : TRUE
    OBVIOUS
  <1>3. Numbers(sizes, K) /\ IsFiniteSet(K \ {c}) /\ \A x \in K \ {c} : sizes[x] \in Nat
    BY <1>1, FS_RemoveElement DEF Numbers
  <1>4. Sum(sizes, K) = sizes[c] + Sum(sizes, K \ {c}) /\ Sum(sizes, K \ {c}) \in Nat
    BY <1>1, <1>3, SumRemove, SumSame
  <1>5. t \in Nat \ {0}
    BY <1>1, <1>4
  <1>6. ASSUME NEW x \in K
        PROVE  /\ Spans(iv, K, sizes, t)[x] \in Nat
               /\ Spans(iv, K, sizes, t)[x] >= sizes[x]
               /\ t * Spans(iv, K, sizes, t)[x] <= (iv.hi - iv.lo) * sizes[x]
    <2>1. Spans(iv, K, sizes, t)[x] = Slice(iv, t, sizes[x])
      BY DEF Spans
    <2>2. sizes[x] \in Nat
      BY <1>1
    <2> QED BY <1>1, <1>5, <2>1, <2>2, SliceBounds
  <1> QED BY <1>5, <1>6

\* The cursor after some of the children, from the slices of all.
LEMMA CursorIs ==
    ASSUME NEW iv, NEW K, NEW sizes, NEW t, Roomy(iv, K, sizes, t), NEW cs \in SUBSET K
    PROVE  /\ Cursor(iv, t, sizes, cs) = iv.lo + 1 + Sum(Spans(iv, K, sizes, t), cs)
           /\ Sum(Spans(iv, K, sizes, t), cs) \in Nat
  <1> DEFINE sp == Spans(iv, K, sizes, t)
             own == [c \in cs |-> Slice(iv, t, sizes[c])]
  <1>1. IsFiniteSet(cs)
    BY FS_Subset DEF Roomy
  <1>2. \A c \in cs : own[c] = sp[c] /\ own[c] \in Nat
    BY SpansBounds DEF Spans
  <1>3. Cursor(iv, t, sizes, cs) = iv.lo + 1 + Sum(own, cs)
    BY DEF Cursor, Sum, Picked, MapThenSumSet, MapThenFoldSet
  <1> HIDE DEF own, sp
  <1>4. Sum(own, cs) = Sum(sp, cs) /\ Sum(own, cs) \in Nat
    BY <1>1, <1>2, SumSame
  <1> QED BY <1>3, <1>4 DEF sp

\* All slices fit.
LEMMA CursorFits ==
    ASSUME NEW iv, NEW K, NEW sizes, NEW t, Roomy(iv, K, sizes, t)
    PROVE  /\ Cursor(iv, t, sizes, K) \in Int
           /\ iv.lo < Cursor(iv, t, sizes, K) /\ Cursor(iv, t, sizes, K) <= iv.hi + 1
  <1> DEFINE sp == Spans(iv, K, sizes, t)
             r == iv.hi - iv.lo
  <1>1. IsFiniteSet(K) /\ (\A c \in K : sizes[c] \in Nat) /\ t = Sum(sizes, K)
        /\ iv.lo \in Int /\ iv.hi \in Int /\ iv.hi - iv.lo >= t
    BY DEF Roomy
  <1>2. Cursor(iv, t, sizes, K) = iv.lo + 1 + Sum(sp, K) /\ Sum(sp, K) \in Nat
    BY CursorIs
  <1>3. Sum(sp, K) <= r
    <2>1. CASE K = {}
      <3>1. Sum(sp, K) = 0 /\ Sum(sizes, K) = 0
        BY <2>1, SumEmpty
      <3> QED BY <1>1, <3>1
    <2>2. CASE K # {}
      <3>1. t \in Nat \ {0} /\ \A c \in K : sp[c] \in Nat /\ t * sp[c] <= r * sizes[c]
        BY <2>2, SpansBounds
      <3>2. r \in Nat /\ r \in Int
        BY <1>1, <3>1
      <3> HIDE DEF sp, r
      <3>3. t * Sum(sp, K) <= r * t
        BY <1>1, <3>1, <3>2, SumScaled
      <3> DEFINE s == Sum(sp, K)
      <3>4. s \in Nat /\ t * s <= r * t
        BY <1>2, <3>3
      <3> HIDE DEF s
      <3>5. s <= r
        <4>1. SUFFICES ASSUME s >= r + 1 PROVE FALSE
          BY <3>2, <3>4
        <4>2. PICK e \in Nat : s = (r + 1) + e
          <5>1. s - (r + 1) \in Nat /\ s = (r + 1) + (s - (r + 1))
            BY <4>1, <3>2, <3>4
          <5> QED BY <5>1
        <4>3. t * s = t * (r + 1) + t * e /\ t * (r + 1) = t * r + t * 1 /\ t * r = r * t
              /\ t * e \in Nat /\ t * r \in Int
          BY <4>2, <3>1, <3>2, Spread, NatProduct
        <4> QED BY <3>1, <3>4, <4>3
      <3> QED BY <3>5 DEF s
    <2> QED BY <2>1, <2>2
  <1> QED BY <1>1, <1>2, <1>3

\* The children of a block are laid side by side.
LEMMA PlacedIn ==
    ASSUME NEW iv, NEW q, NEW p, NEW sizes, NEW K, NEW t, K = Children(q, p), t = sizes[p] - 1,
           Roomy(iv, K, sizes, t), K \subseteq Nat, NEW x \in K
    PROVE  /\ Placed(iv, x, q, sizes).lo \in Int /\ Placed(iv, x, q, sizes).hi \in Int
           /\ iv.lo < Placed(iv, x, q, sizes).lo
           /\ Placed(iv, x, q, sizes).hi < Cursor(iv, t, sizes, K)
           /\ Placed(iv, x, q, sizes).hi - Placed(iv, x, q, sizes).lo + 1 >= sizes[x]
           /\ \A y \in K : x < y => Placed(iv, x, q, sizes).hi < Placed(iv, y, q, sizes).lo
  <1> DEFINE sp == Spans(iv, K, sizes, t)
             before(y) == {c \in K : c < y}
             pl(y) == Placed(iv, y, q, sizes)
  <1>1. \A y \in K : q[y] = p
    BY DEF Children
  <1>2. \A y \in K : pl(y).lo = Cursor(iv, t, sizes, before(y))
                     /\ pl(y).hi = Cursor(iv, t, sizes, before(y)) + Slice(iv, t, sizes[y]) - 1
    BY <1>1 DEF Placed
  <1>3. iv.lo \in Int /\ iv.hi \in Int /\ IsFiniteSet(K) /\ \A y \in K : sizes[y] \in Nat
    BY DEF Roomy
  <1>4. \A y \in K : sp[y] = Slice(iv, t, sizes[y]) /\ sp[y] \in Nat /\ sp[y] >= sizes[y]
    BY SpansBounds DEF Spans
  <1>5. ASSUME NEW cs \in SUBSET K
        PROVE  Cursor(iv, t, sizes, cs) = iv.lo + 1 + Sum(sp, cs) /\ Sum(sp, cs) \in Nat
    BY CursorIs, ZenonT(30)
  <1> HIDE DEF pl, sp
  <1>6. \A y \in K : pl(y).lo = iv.lo + 1 + Sum(sp, before(y)) /\ Sum(sp, before(y)) \in Nat
                     /\ pl(y).hi = iv.lo + 1 + Sum(sp, before(y)) + sp[y] - 1
    BY <1>2, <1>4, <1>5
  <1>7. ASSUME NEW y \in K
        PROVE  /\ pl(y).lo \in Int /\ pl(y).hi \in Int /\ iv.lo < pl(y).lo
               /\ pl(y).hi - pl(y).lo + 1 = sp[y]
    <2> DEFINE a == Sum(sp, before(y))
    <2>1. pl(y).lo = iv.lo + 1 + a /\ a \in Nat /\ pl(y).hi = iv.lo + 1 + a + sp[y] - 1
          /\ sp[y] \in Nat /\ iv.lo \in Int
      BY <1>3, <1>4, <1>6
    <2> HIDE DEF a
    <2> QED BY <2>1
  <1>8. ASSUME NEW R \in SUBSET K, before(x) \cup {x} \subseteq R
        PROVE  Sum(sp, before(x)) + sp[x] <= Sum(sp, R) /\ Sum(sp, R) \in Nat
    <2>0. before(x) \subseteq K /\ x \notin before(x)
      OBVIOUS
    <2> HIDE DEF before
    <2>1. IsFiniteSet(before(x)) /\ x \notin before(x) /\ IsFiniteSet(R)
      BY <2>0, <1>3, FS_Subset
    <2>2. Numbers(sp, before(x) \cup {x})
      BY <2>0, <1>4 DEF Numbers
    <2>3. Sum(sp, before(x) \cup {x}) = Sum(sp, before(x)) + sp[x]
      BY <2>1, <2>2, SumAdd
    <2>4. \A y \in R : sp[y] \in Nat
      BY <1>4
    <2>5. Sum(sp, before(x) \cup {x}) <= Sum(sp, R) /\ Sum(sp, R) \in Nat
      BY <1>8, <2>1, <2>4, SumMore
    <2> QED BY <2>3, <2>5
  <1>9. pl(x).hi < Cursor(iv, t, sizes, K)
    <2>1. Sum(sp, before(x)) + sp[x] <= Sum(sp, K) /\ Sum(sp, K) \in Nat
      BY <1>8
    <2>2. Cursor(iv, t, sizes, K) = iv.lo + 1 + Sum(sp, K)
      BY <1>5
    <2> QED BY <2>1, <2>2, <1>3, <1>4, <1>6
  <1>10. pl(x).hi - pl(x).lo + 1 >= sizes[x]
    <2>1. pl(x).hi - pl(x).lo + 1 = sp[x] /\ sp[x] >= sizes[x]
      BY <1>4, <1>7
    <2> QED BY <2>1
  <1>11. ASSUME NEW y \in K, x < y PROVE pl(x).hi < pl(y).lo
    <2>1. before(x) \cup {x} \subseteq before(y) /\ before(y) \in SUBSET K
      BY <1>11
    <2>2. Sum(sp, before(x)) + sp[x] <= Sum(sp, before(y)) /\ Sum(sp, before(y)) \in Nat
      <3> HIDE DEF before
      <3> QED BY <2>1, <1>8
    <2> QED BY <2>2, <1>3, <1>4, <1>6
  <1> QED BY <1>7, <1>9, <1>10, <1>11 DEF pl

Interval == [lo : Int, hi : Int]

\* A child's interval is one whatever its parent's is.
LEMMA PlacedInterval ==
    ASSUME NEW v \in Interval, NEW q, NEW sizes, NEW x, NEW K, K = Children(q, q[x]), IsFiniteSet(K),
           \A c \in K : sizes[c] \in Nat, x \in K, NEW t \in Nat \ {0}, t = sizes[q[x]] - 1
    PROVE  Placed(v, x, q, sizes) \in Interval
  <1> DEFINE cs == {c \in K : c < x}
             own == [c \in cs |-> Slice(v, t, sizes[c])]
  <1>1. v.lo \in Int /\ v.hi \in Int
    BY DEF Interval
  <1>2. ASSUME NEW s \in Nat PROVE Slice(v, t, s) \in Int
    <2> DEFINE m == ((v.hi - v.lo) - t) * s
    <2>1. m \in Int
      BY <1>1, Spread
    <2> HIDE DEF m
    <2>2. m \div t \in Int
      BY <2>1, DivInt
    <2> QED BY <2>2 DEF Slice, m
  <1>3. Numbers(own, cs) /\ IsFiniteSet(cs)
    BY <1>2, FS_Subset DEF Numbers
  <1>4. Sum(own, cs) \in Int
    <2> HIDE DEF own, cs
    <2> QED BY <1>3, SumInt
  <1>5. Cursor(v, t, sizes, cs) = v.lo + 1 + Sum(own, cs)
    BY DEF Cursor, Sum, Picked, MapThenSumSet, MapThenFoldSet
  <1> HIDE DEF own
  <1>6. Cursor(v, t, sizes, cs) \in Int
    BY <1>1, <1>4, <1>5
  <1>7. Slice(v, t, sizes[x]) \in Int
    BY <1>2
  <1> DEFINE lo == Cursor(v, t, sizes, cs)
  <1>8. Placed(v, x, q, sizes) = [lo |-> lo, hi |-> lo + Slice(v, t, sizes[x]) - 1]
    BY DEF Placed
  <1> HIDE DEF lo
  <1> QED BY <1>6, <1>7, <1>8 DEF Interval, lo

\* The layout of the subtree of root.
LaidOut(C, q, w, sizes, root, ivs, lay) ==
    /\ lay \in [C -> Interval]
    /\ \A x \in C : lay[x] = IF x = root \/ root \notin w[x] THEN ivs[x]
                             ELSE Placed(lay[q[x]], x, q, sizes)

\* Below a block with a child there is more than one block.
LEMMA ParentSize ==
    ASSUME NEW C, IsFiniteSet(C), NEW q, NEW rank, NEW N, Tree(C, q, rank, N),
           NEW w, NEW sizes, Sized(C, q, w, sizes), \A x \in C : sizes[x] >= 1,
           NEW x \in C \ {GenesisId}
    PROVE  q[x] \in C /\ x \in Children(q, q[x]) /\ sizes[q[x]] - 1 \in Nat \ {0}
  <1> DEFINE K == Children(q, q[x])
  <1>1. q[x] \in C
    BY DEF Tree
  <1>2. x \in K /\ IsFiniteSet(K) /\ K \subseteq C
    BY ChildrenOf
  <1>3. sizes[q[x]] = 1 + Sum(sizes, K) /\ \A c \in C : sizes[c] \in Nat
    BY <1>1 DEF Sized
  <1> HIDE DEF K
  <1>4. Numbers(sizes, K) /\ IsFiniteSet(K \ {x}) /\ \A c \in K \ {x} : sizes[c] \in Nat
    BY <1>2, <1>3, FS_RemoveElement DEF Numbers
  <1>5. Sum(sizes, K) = sizes[x] + Sum(sizes, K \ {x}) /\ Sum(sizes, K \ {x}) \in Nat
    BY <1>2, <1>4, SumRemove, SumSame
  <1>6. sizes[x] >= 1 /\ sizes[x] \in Nat
    BY <1>3
  <1> QED BY <1>1, <1>2, <1>3, <1>5, <1>6 DEF K

LEMMA LayoutIs ==
    ASSUME NEW C, IsFiniteSet(C), NEW q, NEW rank, NEW N, Tree(C, q, rank, N),
           NEW sizes, Sized(C, q, ChainsUp(q), sizes), \A x \in C : sizes[x] >= 1,
           NEW root \in C, NEW ivs \in [C -> Interval]
    PROVE  LaidOut(C, q, ChainsUp(q), sizes, root, ivs, Layout(root, q, sizes, ivs))
  <1> DEFINE w == ChainsUp(q)
             stays(x) == x = root \/ root \notin w[x]
             H == [x \in C |-> [v \in Interval |->
                     IF x = GenesisId \/ stays(x) THEN ivs[x] ELSE Placed(v, x, q, sizes)]]
  <1>1. Chains(C, q, w)
    BY ChainsUpChains
  <1>2. GenesisId \in C /\ \A x \in C \ {GenesisId} : q[x] \in C
    BY DEF Tree
  <1>3. stays(GenesisId)
    BY <1>1 DEF Chains
  <1>4. ASSUME NEW x \in C \ {GenesisId}, NEW v \in Interval PROVE Placed(v, x, q, sizes) \in Interval
    <2>1. IsFiniteSet(Children(q, q[x])) /\ \A c \in Children(q, q[x]) : sizes[c] \in Nat
      BY ChildrenOf DEF Sized
    <2>2. x \in Children(q, q[x]) /\ sizes[q[x]] - 1 \in Nat \ {0}
      BY ParentSize
    <2> QED BY <2>1, <2>2, PlacedInterval
  <1>5. H \in [C -> [Interval -> Interval]]
    BY <1>4
  <1>6. ivs[GenesisId] \in Interval
    BY <1>2
  <1>7. PICK f \in [C -> Interval] : Recurs(C, q, ivs[GenesisId], H, f)
    <2> HIDE DEF H
    <2> QED BY <1>5, <1>6, TreeRecursion
  <1> DEFINE Is(g) == g = [x \in C |-> IF x = root \/ root \notin w[x] THEN ivs[x]
                                       ELSE Placed(g[q[x]], x, q, sizes)]
             lay == CHOOSE g : Is(g)
  <1>8. ASSUME NEW x \in C
        PROVE  f[x] = IF stays(x) THEN ivs[x] ELSE Placed(f[q[x]], x, q, sizes)
    <2>1. CASE x = GenesisId
      BY <2>1, <1>3, <1>7 DEF Recurs
    <2>2. CASE x # GenesisId
      <3>1. f[x] = H[x][f[q[x]]] /\ f[q[x]] \in Interval
        BY <2>2, <1>2, <1>7 DEF Recurs
      <3> QED BY <3>1, <2>2
    <2> QED BY <2>1, <2>2
  <1>9. Is(f)
    BY <1>7, <1>8
  <1>10. DOMAIN ivs = C
    OBVIOUS
  <1>11. Layout(root, q, sizes, ivs) = lay
    BY <1>10 DEF Layout
  <1>12. Is(lay)
    BY <1>9
  <1> HIDE DEF lay, H, w
  <1>13. \A x \in C : lay[x] = IF x = root \/ root \notin w[x] THEN ivs[x]
                               ELSE Placed(lay[q[x]], x, q, sizes)
    BY <1>12
  <1>14. \A x \in C : lay[x] \in Interval
    <2> DEFINE S == {x \in C : lay[x] \in Interval}
    <2>1. GenesisId \in S
      BY <1>2, <1>3, <1>6, <1>13
    <2>2. ASSUME NEW x \in C \ {GenesisId}, q[x] \in S PROVE x \in S
      <3>1. Placed(lay[q[x]], x, q, sizes) \in Interval
        BY <2>2, <1>4
      <3> QED BY <3>1, <1>13
    <2>3. Inherited(C, q, S)
      BY <2>1, <2>2 DEF Inherited
    <2>4. C \subseteq S
      <3> HIDE DEF S
      <3> QED BY <2>3, TreeInduction
    <2> QED BY <2>4
  <1>15. lay \in [C -> Interval]
    <2>1. lay = [x \in C |-> lay[x]]
      BY <1>12
    <2> HIDE DEF Is
    <2> QED BY <2>1, <1>14
  <1>16. LaidOut(C, q, w, sizes, root, ivs, lay)
    <2> HIDE DEF Is
    <2> QED BY <1>13, <1>15 DEF LaidOut
  <1> QED BY <1>11, <1>16 DEF w

\* An anchor with room for its subtree gives room to every block below.
LEMMA LayoutRoom ==
    ASSUME NEW C, IsFiniteSet(C), C \subseteq Nat, NEW q, NEW rank, NEW N, Tree(C, q, rank, N),
           NEW w, Chains(C, q, w), NEW sizes, Sized(C, q, w, sizes), \A x \in C : sizes[x] >= 1,
           NEW root \in C, NEW ivs, NEW lay, LaidOut(C, q, w, sizes, root, ivs, lay),
           ivs[root].hi - ivs[root].lo + 1 >= sizes[root]
    PROVE  \A x \in C : root \in w[x] => Roomy(lay[x], Children(q, x), sizes, sizes[x] - 1)
  <1> DEFINE S == {x \in C : root \in w[x] => lay[x].hi - lay[x].lo + 1 >= sizes[x]}
  <1>1. \A x \in C : lay[x].lo \in Int /\ lay[x].hi \in Int /\ sizes[x] \in Nat
    BY DEF LaidOut, Interval, Sized
  <1>2. ASSUME NEW x \in C, x \in S, root \in w[x]
        PROVE  Roomy(lay[x], Children(q, x), sizes, sizes[x] - 1)
    <2>1. IsFiniteSet(Children(q, x)) /\ Children(q, x) \subseteq C
      BY ChildrenOf
    <2>2. ASSUME NEW c \in Children(q, x) PROVE sizes[c] \in Nat \ {0}
      <3>1. c \in C
        BY <2>1
      <3>2. sizes[c] \in Nat /\ sizes[c] >= 1
        BY <3>1, <1>1
      <3> QED BY <3>2
    <2>3. sizes[x] = 1 + Sum(sizes, Children(q, x))
      BY DEF Sized
    <2>4. \A c \in Children(q, x) : sizes[c] = sizes[c] /\ sizes[c] \in Nat
      BY <2>2
    <2>5. Sum(sizes, Children(q, x)) \in Nat
      BY <2>1, <2>4, SumSame
    <2>6. lay[x].hi - lay[x].lo + 1 >= sizes[x]
      BY <1>2
    <2>7. sizes[x] - 1 = Sum(sizes, Children(q, x)) /\ lay[x].hi - lay[x].lo >= sizes[x] - 1
      BY <1>1, <2>3, <2>5, <2>6
    <2> QED BY <1>1, <2>1, <2>2, <2>7 DEF Roomy
  <1>3. root \in S
    BY DEF LaidOut
  <1>4. GenesisId \in S
    <2>1. GenesisId \in C /\ w[GenesisId] = {GenesisId}
      BY DEF Chains, Tree
    <2> QED BY <2>1, <1>3
  <1>5. ASSUME NEW x \in C \ {GenesisId}, q[x] \in S PROVE x \in S
    <2>1. SUFFICES ASSUME root \in w[x], x # root PROVE lay[x].hi - lay[x].lo + 1 >= sizes[x]
      BY <1>3
    <2>2. q[x] \in C /\ root \in w[q[x]]
      BY <2>1 DEF Chains, Tree
    <2> DEFINE K == Children(q, q[x])
    <2>3. Roomy(lay[q[x]], K, sizes, sizes[q[x]] - 1)
      BY <1>2, <1>5, <2>2
    <2>4. x \in K /\ K \subseteq C
      BY ChildrenOf
    <2>5. lay[x] = Placed(lay[q[x]], x, q, sizes)
      BY <2>1 DEF LaidOut
    <2>6. K \subseteq Nat
      BY <2>4
    <2>7. Placed(lay[q[x]], x, q, sizes).hi - Placed(lay[q[x]], x, q, sizes).lo + 1 >= sizes[x]
      BY <2>3, <2>4, <2>6, PlacedIn
    <2> QED BY <2>5, <2>7
  <1>6. C \subseteq S
    <2>1. Inherited(C, q, S)
      BY <1>4, <1>5 DEF Inherited
    <2> HIDE DEF S
    <2> QED BY <2>1, TreeInduction
  <1> HIDE DEF S
  <1> QED BY <1>2, <1>6

\* Outside the subtree of root the intervals and the capacities are the old ones,
\* and nested.
NestedOutside(C, q, w, root, ivs, free) ==
    /\ \A x \in C : root \notin w[x] =>
         /\ ivs[x].lo \in Int /\ ivs[x].hi \in Int /\ free[x] \in Int
         /\ ivs[x].lo < free[x] /\ free[x] <= ivs[x].hi + 1
    /\ \A x \in C \ {GenesisId} : root \notin w[q[x]] =>
         ivs[q[x]].lo < ivs[x].lo /\ ivs[x].hi < free[q[x]]
    /\ \A x, y \in C \ {GenesisId} :
         root \notin w[q[x]] /\ q[x] = q[y] /\ x # y => ivs[x].hi < ivs[y].lo \/ ivs[y].hi < ivs[x].lo

\* A relayout nests all intervals again.
LEMMA LayoutNested ==
    ASSUME NEW C, IsFiniteSet(C), C \subseteq Nat, NEW q, NEW rank, NEW N, Tree(C, q, rank, N),
           Chains(C, q, ChainsUp(q)), NEW sizes, Sized(C, q, ChainsUp(q), sizes),
           \A x \in C : sizes[x] >= 1,
           NEW root \in C, NEW ivs, NEW lay, LaidOut(C, q, ChainsUp(q), sizes, root, ivs, lay),
           ivs[root].hi - ivs[root].lo + 1 >= sizes[root],
           NEW free, DOMAIN free = C, NestedOutside(C, q, ChainsUp(q), root, ivs, free)
    PROVE  Nested(C, q, lay, Leftover(root, q, sizes, lay, free))
  <1> DEFINE w == ChainsUp(q)
             left == Leftover(root, q, sizes, lay, free)
             K(x) == Children(q, x)
  <1>1. Ancestry(C, q, rank, w)
    BY TreeAncestry
  <1>2. \A x \in C : root \in w[x] => Roomy(lay[x], K(x), sizes, sizes[x] - 1)
    BY LayoutRoom
  <1>3. \A x \in C : left[x] = IF root \in w[x] THEN Cursor(lay[x], sizes[x] - 1, sizes, K(x))
                               ELSE free[x]
    BY DEF Leftover
  <1>4. \A x \in C : lay[x] = IF x = root \/ root \notin w[x] THEN ivs[x]
                              ELSE Placed(lay[q[x]], x, q, sizes)
    BY DEF LaidOut
  <1>5. \A x \in C : lay[x].lo \in Int /\ lay[x].hi \in Int
    BY DEF LaidOut, Interval
  <1>6. \A x \in C \ {GenesisId} : q[x] \in C /\ w[x] = {x} \cup w[q[x]] /\ x \notin w[q[x]]
    <2>1. ASSUME NEW x \in C \ {GenesisId} PROVE x \notin w[q[x]]
      <3>0. q[x] \in C /\ \A y \in C : rank[y] \in Nat
        BY DEF Tree
      <3>1. q[x] \in C /\ rank[q[x]] < rank[x] /\ rank[x] \in Nat /\ rank[q[x]] \in Nat
        BY <3>0 DEF Tree
      <3>2. x \in w[q[x]] => x = q[x] \/ rank[x] < rank[q[x]]
        BY <1>1, <3>1 DEF Ancestry
      <3> QED BY <3>1, <3>2
    <2> QED BY <2>1 DEF Chains, Tree
  <1>7. ASSUME NEW x \in C \ {GenesisId}, root \in w[q[x]]
        PROVE  /\ lay[x] = Placed(lay[q[x]], x, q, sizes)
               /\ x \in K(q[x]) /\ K(q[x]) \subseteq Nat
               /\ Roomy(lay[q[x]], K(q[x]), sizes, sizes[q[x]] - 1)
    <2>1. root \in w[x] /\ x # root /\ q[x] \in C
      BY <1>6, <1>7
    <2>2. x \in K(q[x]) /\ K(q[x]) \subseteq C
      BY ChildrenOf
    <2> QED BY <1>2, <1>4, <1>7, <2>1, <2>2
  <1>8. ASSUME NEW x \in C \ {GenesisId}, root \notin w[q[x]]
        PROVE  lay[x] = ivs[x] /\ lay[q[x]] = ivs[q[x]] /\ left[q[x]] = free[q[x]]
    BY <1>3, <1>4, <1>6, <1>8
  <1> HIDE DEF w, left, K
  <1>9. ASSUME NEW x \in C
        PROVE  lay[x].lo \in Int /\ lay[x].hi \in Int /\ left[x] \in Int
               /\ lay[x].lo < left[x] /\ left[x] <= lay[x].hi + 1
    <2>1. CASE root \in w[x]
      <3>1. Roomy(lay[x], K(x), sizes, sizes[x] - 1)
        BY <2>1, <1>2
      <3>2. left[x] = Cursor(lay[x], sizes[x] - 1, sizes, K(x))
        BY <2>1, <1>3
      <3>3. left[x] \in Int /\ lay[x].lo < left[x] /\ left[x] <= lay[x].hi + 1
        BY <3>1, <3>2, CursorFits
      <3> QED BY <3>3, <1>5
    <2>2. CASE root \notin w[x]
      <3>1. lay[x] = ivs[x] /\ left[x] = free[x]
        BY <2>2, <1>3, <1>4
      <3> QED BY <2>2, <3>1, <1>5 DEF NestedOutside, w
    <2> QED BY <2>1, <2>2
  <1>10. ASSUME NEW x \in C \ {GenesisId}
         PROVE  lay[q[x]].lo < lay[x].lo /\ lay[x].hi < left[q[x]]
    <2>1. CASE root \in w[q[x]]
      <3>1. left[q[x]] = Cursor(lay[q[x]], sizes[q[x]] - 1, sizes, K(q[x]))
        BY <2>1, <1>3, <1>6
      <3>2. /\ lay[q[x]].lo < Placed(lay[q[x]], x, q, sizes).lo
            /\ Placed(lay[q[x]], x, q, sizes).hi < Cursor(lay[q[x]], sizes[q[x]] - 1, sizes, K(q[x]))
        BY <2>1, <1>7, PlacedIn DEF K
      <3> QED BY <2>1, <3>1, <3>2, <1>7
    <2>2. CASE root \notin w[q[x]]
      BY <2>2, <1>8 DEF NestedOutside, w
    <2> QED BY <2>1, <2>2
  <1>11. ASSUME NEW x \in C \ {GenesisId}, NEW y \in C \ {GenesisId}, q[x] = q[y], x # y
         PROVE  lay[x].hi < lay[y].lo \/ lay[y].hi < lay[x].lo
    <2>1. CASE root \in w[q[x]]
      <3> DEFINE p == q[x]
                 iv == lay[p]
      <3>1. x \in K(p) /\ y \in K(p) /\ K(p) \subseteq Nat /\ Roomy(iv, K(p), sizes, sizes[p] - 1)
            /\ lay[x] = Placed(iv, x, q, sizes) /\ lay[y] = Placed(iv, y, q, sizes)
        BY <2>1, <1>7, <1>11
      <3>2. x < y \/ y < x
        BY <1>11, <3>1
      <3> HIDE DEF p, iv
      <3>3. ASSUME NEW a \in K(p), NEW b \in K(p), a < b
            PROVE  Placed(iv, a, q, sizes).hi < Placed(iv, b, q, sizes).lo
        BY <3>1, <3>3, PlacedIn DEF K
      <3> QED BY <3>1, <3>2, <3>3
    <2>2. CASE root \notin w[q[x]]
      BY <2>2, <1>8, <1>11 DEF NestedOutside, w
    <2> QED BY <2>1, <2>2
  <1>12. Nested(C, q, lay, left)
    BY <1>9, <1>10, <1>11 DEF Nested
  <1> QED BY <1>12 DEF left

\* What a new leaf below sp leaves nested outside the subtree of a block above sp.
LEMMA OutsideNested ==
    ASSUME NEW B, NEW par, NEW rank, NEW N, Tree(B, par, rank, N), NEW up, Chains(B, par, up),
           NEW ivs, NEW free, DOMAIN ivs = B, DOMAIN free = B, Nested(B, par, ivs, free),
           NEW id, id \notin B, NEW sp \in B, NEW root, root \in up[sp], NEW iv, NEW n
    PROVE  NestedOutside(B \cup {id}, Put(par, id, sp), Put(up, id, {id} \cup up[sp]), root,
                         Put(ivs, id, iv), Put(free, id, n))
  <1> DEFINE C == B \cup {id}
             q == Put(par, id, sp)
             w == Put(up, id, {id} \cup up[sp])
             jvs == Put(ivs, id, iv)
             gree == Put(free, id, n)
  <1>1. DOMAIN par = B \ {GenesisId} /\ DOMAIN up = B /\ GenesisId \in B
    BY DEF Tree, Chains
  <1>2. \A x \in B : w[x] = up[x] /\ jvs[x] = ivs[x] /\ gree[x] = free[x]
    BY <1>1 DEF Put
  <1>3. \A x \in B \ {GenesisId} : q[x] = par[x] /\ par[x] \in B
    BY <1>1 DEF Put, Tree
  <1>4. w[id] = {id} \cup up[sp] /\ q[id] = sp
    BY DEF Put
  <1> HIDE DEF q, w, jvs, gree
  <1>5. ASSUME NEW x \in C, root \notin w[x] PROVE x \in B
    BY <1>4, <1>5
  <1>6. ASSUME NEW x \in C \ {GenesisId}, root \notin w[q[x]] PROVE x \in B \ {GenesisId}
    BY <1>2, <1>4, <1>6
  <1>7. ASSUME NEW x \in C, root \notin w[x]
        PROVE  jvs[x].lo \in Int /\ jvs[x].hi \in Int /\ gree[x] \in Int
               /\ jvs[x].lo < gree[x] /\ gree[x] <= jvs[x].hi + 1
    BY <1>2, <1>5, <1>7 DEF Nested
  <1>8. ASSUME NEW x \in C \ {GenesisId}, root \notin w[q[x]]
        PROVE  jvs[q[x]].lo < jvs[x].lo /\ jvs[x].hi < gree[q[x]]
    BY <1>2, <1>3, <1>6, <1>8 DEF Nested
  <1>9. ASSUME NEW x \in C \ {GenesisId}, NEW y \in C \ {GenesisId},
               root \notin w[q[x]], q[x] = q[y], x # y
        PROVE  jvs[x].hi < jvs[y].lo \/ jvs[y].hi < jvs[x].lo
    <2>1. x \in B \ {GenesisId} /\ y \in B \ {GenesisId}
      BY <1>6, <1>9
    <2> QED BY <2>1, <1>2, <1>3, <1>9 DEF Nested
  <1>10. NestedOutside(C, q, w, root, jvs, gree)
    BY <1>7, <1>8, <1>9 DEF NestedOutside
  <1> QED BY <1>10 DEF q, w, jvs, gree

\* The first half of what a block has left nests in it.
LEMMA AllocateNested ==
    ASSUME NEW B, NEW par, NEW rank, NEW N, Tree(B, par, rank, N),
           NEW ivs, NEW free, DOMAIN ivs = B, DOMAIN free = B, Nested(B, par, ivs, free),
           NEW id, id \notin B, NEW sp \in B, NEW lo, lo = free[sp], lo <= ivs[sp].hi,
           NEW mid, mid = lo + (ivs[sp].hi - lo) \div 2
    PROVE  Nested(B \cup {id}, Put(par, id, sp), Put(ivs, id, [lo |-> lo, hi |-> mid]),
                  Put(Put(free, sp, mid + 1), id, lo + 1))
  <1> DEFINE C == B \cup {id}
             q == Put(par, id, sp)
             jvs == Put(ivs, id, [lo |-> lo, hi |-> mid])
             gree == Put(Put(free, sp, mid + 1), id, lo + 1)
  <1>1. DOMAIN par = B \ {GenesisId} /\ GenesisId \in B /\ sp # id /\ id # GenesisId
    BY DEF Tree
  <1>2. \A x \in B : jvs[x] = ivs[x]
    BY DEF Put
  <1>3. jvs[id].lo = lo /\ jvs[id].hi = mid /\ gree[id] = lo + 1 /\ q[id] = sp
    BY DEF Put
  <1>4. \A x \in B : gree[x] = IF x = sp THEN mid + 1 ELSE free[x]
    BY <1>1 DEF Put
  <1>5. \A x \in B \ {GenesisId} : q[x] = par[x] /\ par[x] \in B
    BY <1>1 DEF Put, Tree
  <1>6. ivs[sp].lo \in Int /\ ivs[sp].hi \in Int /\ lo \in Int /\ ivs[sp].lo < lo
    BY DEF Nested
  <1>7. mid \in Int /\ lo <= mid /\ mid <= ivs[sp].hi
    BY <1>6
  <1> HIDE DEF q, jvs, gree
  <1>8. ASSUME NEW x \in C
        PROVE  jvs[x].lo \in Int /\ jvs[x].hi \in Int /\ gree[x] \in Int
               /\ jvs[x].lo < gree[x] /\ gree[x] <= jvs[x].hi + 1
    <2>1. CASE x = id
      BY <2>1, <1>3, <1>6, <1>7
    <2>2. CASE x = sp
      <3>1. jvs[x] = ivs[sp] /\ gree[x] = mid + 1
        BY <2>2, <1>2, <1>4
      <3> QED BY <3>1, <1>6, <1>7
    <2>3. CASE x # id /\ x # sp
      BY <2>3, <1>2, <1>4 DEF Nested
    <2> QED BY <2>1, <2>2, <2>3
  <1>9. ASSUME NEW x \in B \ {GenesisId}
        PROVE  jvs[q[x]].lo < jvs[x].lo /\ jvs[x].hi < gree[q[x]] /\ jvs[x].lo \in Int /\ jvs[x].hi \in Int
    <2>1. ivs[par[x]].lo < ivs[x].lo /\ ivs[x].hi < free[par[x]] /\ ivs[x].hi \in Int /\ ivs[x].lo \in Int
      BY DEF Nested
    <2>2. jvs[x] = ivs[x] /\ jvs[q[x]] = ivs[par[x]] /\ q[x] = par[x] /\ par[x] \in B
      BY <1>2, <1>5
    <2>3. (gree[par[x]] = mid + 1 /\ free[par[x]] = lo) \/ gree[par[x]] = free[par[x]]
      BY <2>2, <1>4
    <2> QED BY <2>1, <2>2, <2>3, <1>6, <1>7
  <1>10. jvs[q[id]].lo < jvs[id].lo /\ jvs[id].hi < gree[q[id]]
    <2>1. jvs[sp] = ivs[sp] /\ gree[sp] = mid + 1
      BY <1>2, <1>4
    <2> QED BY <2>1, <1>3, <1>6, <1>7
  <1>11. ASSUME NEW x \in B \ {GenesisId}, NEW y \in B \ {GenesisId}, q[x] = q[y], x # y
         PROVE  jvs[x].hi < jvs[y].lo \/ jvs[y].hi < jvs[x].lo
    BY <1>2, <1>5, <1>11 DEF Nested
  <1>12. ASSUME NEW x \in B \ {GenesisId}, q[x] = q[id] PROVE jvs[x].hi < jvs[id].lo
    <2>1. par[x] = sp
      BY <1>3, <1>5, <1>12
    <2>2. ivs[x].hi < free[sp]
      BY <2>1 DEF Nested
    <2> QED BY <2>2, <1>2, <1>3
  <1>13. Nested(C, q, jvs, gree)
    BY <1>8, <1>9, <1>10, <1>11, <1>12 DEF Nested
  <1> QED BY <1>13 DEF q, jvs, gree

----------------------------------------------------------------------------
(***************************************************************************)
(* Pasts.                                                                  *)
(***************************************************************************)

\* The pasts of a DAG, with a parent of each block for its tree.
Pedigree(B, pst, par) ==
    /\ GenesisId \in B /\ B \subseteq Nat /\ IsFiniteSet(B)
    /\ pst \in [B -> SUBSET B] /\ par \in [B \ {GenesisId} -> B]
    /\ pst[GenesisId] = {}
    /\ \A b \in B : b \notin pst[b]
    /\ \A b \in B : \A c \in pst[b] : pst[c] \subseteq pst[b]
    /\ \A b \in B \ {GenesisId} : par[b] \in pst[b]

Depths(B, pst) == [b \in B |-> Cardinality(pst[b])]

LEMMA PedigreeTree ==
    ASSUME NEW B, NEW pst, NEW par, Pedigree(B, pst, par)
    PROVE  Tree(B, par, Depths(B, pst), Cardinality(B))
  <1> DEFINE rank == Depths(B, pst)
             N == Cardinality(B)
  <1>1. GenesisId \in B /\ par \in [B \ {GenesisId} -> B] /\ IsFiniteSet(B)
    BY DEF Pedigree
  <1>2. N \in Nat
    BY <1>1, FS_CardinalityType
  <1>3. ASSUME NEW b \in B PROVE IsFiniteSet(pst[b]) /\ rank[b] = Cardinality(pst[b]) /\ rank[b] \in 0..N
    <2>1. pst[b] \subseteq B
      BY DEF Pedigree
    <2>2. IsFiniteSet(pst[b]) /\ Cardinality(pst[b]) <= N
      BY <1>1, <2>1, FS_Subset
    <2>3. Cardinality(pst[b]) \in Nat
      BY <2>2, FS_CardinalityType
    <2> QED BY <1>2, <2>2, <2>3 DEF Depths
  <1>4. ASSUME NEW x \in B \ {GenesisId} PROVE rank[par[x]] < rank[x]
    <2>1. par[x] \in B /\ par[x] \in pst[x] /\ pst[par[x]] \subseteq pst[x] /\ par[x] \notin pst[par[x]]
      BY DEF Pedigree
    <2>2. Cardinality(pst[par[x]]) <= Cardinality(pst[x]) /\ Cardinality(pst[par[x]]) # Cardinality(pst[x])
      BY <2>1, <1>3, FS_Subset
    <2> QED BY <2>1, <2>2, <1>3
  <1>5. rank \in [B -> 0..N]
    <2>1. rank = [b \in B |-> rank[b]]
      BY DEF Depths
    <2> QED BY <2>1, <1>3
  <1> HIDE DEF rank, N
  <1>6. Tree(B, par, rank, N)
    BY <1>1, <1>2, <1>4, <1>5 DEF Tree
  <1> QED BY <1>6 DEF rank, N

\* A new block on known parents.
LEMMA PedigreeGrows ==
    ASSUME NEW B, NEW pst, NEW par, Pedigree(B, pst, par), NEW id \in Nat, id \notin B,
           NEW ps \in SUBSET B, NEW sp \in ps, NEW new, new = ps \cup UNION {pst[p] : p \in ps}
    PROVE  Pedigree(B \cup {id}, Put(pst, id, new), Put(par, id, sp))
  <1> DEFINE C == B \cup {id}
             p2 == Put(pst, id, new)
             q == Put(par, id, sp)
  <1>1. DOMAIN pst = B /\ DOMAIN par = B \ {GenesisId} /\ GenesisId \in B /\ id # GenesisId /\ sp \in B
    BY DEF Pedigree
  <1>2. p2 = [x \in C |-> IF x = id THEN new ELSE pst[x]]
    BY <1>1 DEF Put
  <1>3. q = [x \in C \ {GenesisId} |-> IF x = id THEN sp ELSE par[x]]
    BY <1>1 DEF Put
  <1>4. \A b \in B : pst[b] \subseteq B
    BY DEF Pedigree
  <1>5. new \subseteq B /\ sp \in new
    BY <1>4
  <1>6. C \subseteq Nat /\ IsFiniteSet(C) /\ GenesisId \in C
    BY FS_AddElement DEF Pedigree
  <1> HIDE DEF p2, q
  <1>7. p2 \in [C -> SUBSET C]
    BY <1>2, <1>4, <1>5
  <1>8. q \in [C \ {GenesisId} -> C]
    BY <1>1, <1>3 DEF Pedigree
  <1>9. p2[GenesisId] = {}
    BY <1>1, <1>2 DEF Pedigree
  <1>10. \A b \in C : b \notin p2[b]
    BY <1>2, <1>5 DEF Pedigree
  <1>11. ASSUME NEW b \in C, NEW c \in p2[b] PROVE p2[c] \subseteq p2[b]
    <2>1. CASE b = id
      <3>1. c \in new /\ c \in B /\ p2[c] = pst[c] /\ p2[b] = new
        BY <2>1, <1>2, <1>5, <1>11
      <3>2. PICK p \in ps : c = p \/ c \in pst[p]
        BY <3>1
      <3>3. pst[c] \subseteq pst[p]
        BY <3>2 DEF Pedigree
      <3> QED BY <3>1, <3>3
    <2>2. CASE b # id
      BY <2>2, <1>2, <1>4, <1>11 DEF Pedigree
    <2> QED BY <2>1, <2>2
  <1>12. \A b \in C \ {GenesisId} : q[b] \in p2[b]
    BY <1>2, <1>3, <1>5 DEF Pedigree
  <1>13. Pedigree(C, p2, q)
    BY <1>6, <1>7, <1>8, <1>9, <1>10, <1>11, <1>12 DEF Pedigree
  <1> QED BY <1>13 DEF p2, q

\* The blocks that have a in their mergeset.
Mergers(B, pst, par, a) ==
    {c \in B \ {GenesisId} : a \in pst[c] /\ a # par[c] /\ a \notin pst[par[c]]}

\* A chain lies in the past.
LEMMA ChainInPast ==
    ASSUME NEW B, NEW pst, NEW par, Pedigree(B, pst, par), NEW up, Chains(B, par, up)
    PROVE  \A b \in B : up[b] \subseteq pst[b] \cup {b}
  <1> DEFINE S == {b \in B : up[b] \subseteq pst[b] \cup {b}}
  <1>1. Inherited(B, par, S)
    <2>1. GenesisId \in S
      BY DEF Chains, Pedigree
    <2>2. ASSUME NEW x \in B \ {GenesisId}, par[x] \in S PROVE x \in S
      <3>1. up[x] = {x} \cup up[par[x]]
        BY DEF Chains
      <3>2. par[x] \in pst[x] /\ pst[par[x]] \subseteq pst[x]
        BY DEF Pedigree
      <3> QED BY <2>2, <3>1, <3>2
    <2> QED BY <2>1, <2>2 DEF Inherited
  <1>2. B \subseteq S
    <2>1. Tree(B, par, Depths(B, pst), Cardinality(B))
      BY PedigreeTree
    <2> HIDE DEF S
    <2> QED BY <1>1, <2>1, TreeInduction
  <1> QED BY <1>2

\* The past of a block from the chains and the mergesets: what comes in below a merger
\* stays in.
LEMMA PastFromTree ==
    ASSUME NEW B, NEW pst, NEW par, Pedigree(B, pst, par), NEW up, Chains(B, par, up)
    PROVE  \A a, b \in B :
             a \in pst[b] <=> a # b /\ (a \in up[b] \/ \E c \in Mergers(B, pst, par, a) : c \in up[b])
  <1> DEFINE M(a) == Mergers(B, pst, par, a)
             S == {b \in B : \A a \in B : a \in pst[b] => a \in up[b] \/ \E c \in M(a) : c \in up[b]}
  <1>1. Tree(B, par, Depths(B, pst), Cardinality(B))
    BY PedigreeTree
  <1>2. GenesisId \in S
    BY DEF Pedigree
  <1>3. ASSUME NEW x \in B \ {GenesisId}, par[x] \in S PROVE x \in S
    <2>1. SUFFICES ASSUME NEW a \in B, a \in pst[x] PROVE a \in up[x] \/ \E c \in M(a) : c \in up[x]
      OBVIOUS
    <2>2. up[x] = {x} \cup up[par[x]] /\ par[x] \in B
      BY DEF Chains, Pedigree
    <2>3. par[x] \in up[par[x]]
      BY <1>1, <2>2, TreeAncestry DEF Ancestry
    <2>4. CASE a = par[x]
      BY <2>2, <2>3, <2>4
    <2>5. CASE a \in pst[par[x]]
      BY <1>3, <2>2, <2>5
    <2>6. CASE a # par[x] /\ a \notin pst[par[x]]
      <3>1. x \in M(a)
        BY <2>1, <2>6 DEF Mergers
      <3> QED BY <3>1, <2>2
    <2> QED BY <2>4, <2>5, <2>6
  <1>4. B \subseteq S
    <2>1. Inherited(B, par, S)
      BY <1>2, <1>3 DEF Inherited
    <2> HIDE DEF S
    <2> QED BY <1>1, <2>1, TreeInduction
  <1>5. ASSUME NEW a \in B, NEW b \in B, a # b, a \in up[b] \/ \E c \in M(a) : c \in up[b]
        PROVE  a \in pst[b]
    <2>1. up[b] \subseteq pst[b] \cup {b}
      BY ChainInPast
    <2>2. CASE a \in up[b]
      BY <1>5, <2>1, <2>2
    <2>3. CASE \E c \in M(a) : c \in up[b]
      <3>1. PICK c \in M(a) : c \in up[b]
        BY <2>3
      <3>2. a \in pst[c] /\ (c = b \/ c \in pst[b])
        BY <3>1, <2>1 DEF Mergers
      <3> QED BY <3>2 DEF Pedigree
    <2> QED BY <1>5, <2>2, <2>3
  <1>6. \A b \in B : b \notin pst[b]
    BY DEF Pedigree
  <1> QED BY <1>4, <1>5, <1>6

\* The roots build_fcs looks for are the mergers.
LEMMA RootsAreMergers ==
    ASSUME NEW B, NEW pst, NEW par, Pedigree(B, pst, par), NEW up, Chains(B, par, up), NEW a \in B
    PROVE  Mergers(B, pst, par, a) =
             {c \in B : /\ a \in pst[c] /\ a \notin up[c]
                        /\ a \in up[par[c]] \/ a \notin pst[par[c]]}
  <1>1. \A b \in B : up[b] \subseteq pst[b] \cup {b}
    BY ChainInPast
  <1>2. \A x \in B \ {GenesisId} : up[x] = {x} \cup up[par[x]] /\ par[x] \in B
    BY DEF Chains, Pedigree
  <1>3. \A b \in B : b \in up[b]
    BY PedigreeTree, TreeAncestry DEF Ancestry
  <1>4. ASSUME NEW c \in Mergers(B, pst, par, a)
        PROVE  c \in B /\ a \in pst[c] /\ a \notin up[c] /\ a \notin pst[par[c]]
    <2>1. c \in B \ {GenesisId} /\ a \in pst[c] /\ a # par[c] /\ a \notin pst[par[c]] /\ c \notin pst[c]
      BY <1>4 DEF Mergers, Pedigree
    <2> QED BY <2>1, <1>1, <1>2
  <1>5. ASSUME NEW c \in B, a \in pst[c], a \notin up[c], a \in up[par[c]] \/ a \notin pst[par[c]]
        PROVE  c \in Mergers(B, pst, par, a)
    <2>1. c # GenesisId
      BY <1>5 DEF Pedigree
    <2>2. a # par[c] /\ a \notin pst[par[c]]
      BY <2>1, <1>2, <1>3, <1>5
    <2> QED BY <2>1, <2>2, <1>5 DEF Mergers
  <1> QED BY <1>4, <1>5

\* The new block joins the mergers of what it merges, and of nothing else.
LEMMA MergersGrow ==
    ASSUME NEW B, NEW pst, NEW par, Pedigree(B, pst, par), NEW id \in Nat, id \notin B,
           NEW new \in SUBSET B, NEW sp \in B
    PROVE  /\ \A a \in B : Mergers(B \cup {id}, Put(pst, id, new), Put(par, id, sp), a) =
                Mergers(B, pst, par, a) \cup (IF a \in new \ (pst[sp] \cup {sp}) THEN {id} ELSE {})
           /\ Mergers(B \cup {id}, Put(pst, id, new), Put(par, id, sp), id) = {}
  <1> DEFINE C == B \cup {id}
             p2 == Put(pst, id, new)
             q == Put(par, id, sp)
  <1>1. DOMAIN pst = B /\ DOMAIN par = B \ {GenesisId} /\ id # GenesisId
    BY DEF Pedigree
  <1>2. p2[id] = new /\ q[id] = sp /\ \A x \in B : p2[x] = pst[x]
    BY <1>1 DEF Put
  <1>3. \A x \in B \ {GenesisId} : q[x] = par[x] /\ par[x] \in B /\ p2[par[x]] = pst[par[x]]
    BY <1>1, <1>2 DEF Put, Pedigree
  <1>4. \A x \in B : pst[x] \subseteq B
    BY DEF Pedigree
  <1> HIDE DEF p2, q
  <1>5. ASSUME NEW a \in B
        PROVE  Mergers(C, p2, q, a) =
                 Mergers(B, pst, par, a) \cup (IF a \in new \ (pst[sp] \cup {sp}) THEN {id} ELSE {})
    <2>1. ASSUME NEW c \in B PROVE c \in Mergers(C, p2, q, a) <=> c \in Mergers(B, pst, par, a)
      BY <1>2, <1>3 DEF Mergers
    <2>2. id \in Mergers(C, p2, q, a) <=> a \in new \ (pst[sp] \cup {sp})
      BY <1>1, <1>2 DEF Mergers
    <2>3. Mergers(C, p2, q, a) \subseteq C /\ Mergers(B, pst, par, a) \subseteq B
      BY DEF Mergers
    <2> QED BY <2>1, <2>2, <2>3
  <1>6. Mergers(C, p2, q, id) = {}
    BY <1>2, <1>4 DEF Mergers
  <1> QED BY <1>5, <1>6 DEF p2, q

----------------------------------------------------------------------------
(***************************************************************************)
(* Future-covering sets.                                                   *)
(***************************************************************************)

\* b covers no entry of set and none covers it.
Unrelated(ivs, set, b) ==
    \A i \in 1..Len(set) : ~Covers(ivs, b, set[i]) /\ ~Covers(ivs, set[i], b)

\* new has the entries of set and b besides.
Joined(S, set, b, new) ==
    new \in Seq(S \cup {b}) /\ Len(new) = Len(set) + 1 /\ Range(new) = Range(set) \cup {b}

\* Where b and the entries do not cover one another, an insertion adds b and drops
\* nothing.
LEMMA InsertAdds ==
    ASSUME NEW S, NEW set \in Seq(S), NEW ivs, NEW b, NEW pos \in 0..Len(set),
           Unrelated(ivs, set, b)
    PROVE  Joined(S, set, b, InsertToFutureCoveringSet(ivs, set, b, pos))
  <1> DEFINE n == Len(set)
             Stop(k) == /\ \A i \in (pos + 1)..k : Covers(ivs, b, set[i])
                        /\ k < n => ~Covers(ivs, b, set[k + 1])
             kept == CHOOSE k \in pos..n : Stop(k)
             new == SubSeq(set, 1, pos) \o <<b>> \o SubSeq(set, pos + 1, n)
             one == SubSeq(set, 1, pos)
             two == SubSeq(set, pos + 1, n)
  <1>1. n \in Nat /\ pos \in Nat /\ pos <= n
    OBVIOUS
  <1>0. \A i \in 1..n : ~Covers(ivs, b, set[i]) /\ ~Covers(ivs, set[i], b)
    BY DEF Unrelated
  <1>2. pos \in pos..n /\ Stop(pos)
    <2>1. \A i \in (pos + 1)..pos : FALSE
      BY <1>1
    <2>2. pos < n => pos + 1 \in 1..n
      BY <1>1
    <2> QED BY <1>0, <1>1, <2>1, <2>2
  <1>3. ASSUME NEW k \in pos..n, Stop(k) PROVE k = pos
    <2>1. SUFFICES ASSUME k # pos PROVE FALSE
      OBVIOUS
    <2>2. pos + 1 \in (pos + 1)..k /\ pos + 1 \in 1..n
      BY <1>1, <2>1
    <2> QED BY <1>0, <1>3, <2>2
  <1>4. kept = pos
    <2> HIDE DEF Stop
    <2> QED BY <1>2, <1>3
  <1>5. ~(pos > 0 /\ Covers(ivs, set[pos], b))
    <2>1. pos > 0 => pos \in 1..n
      BY <1>1
    <2> QED BY <1>0, <2>1
  <1>6. InsertToFutureCoveringSet(ivs, set, b, pos) =
          SubSeq(set, 1, pos) \o <<b>> \o SubSeq(set, kept + 1, n)
    BY <1>5 DEF InsertToFutureCoveringSet
  <1>7. InsertToFutureCoveringSet(ivs, set, b, pos) = new
    BY <1>4, <1>6
  <1> HIDE DEF kept, Stop
  <1>8. /\ one \in Seq(S \cup {b}) /\ Len(one) = pos /\ \A i \in 1..pos : one[i] = set[i]
        /\ two \in Seq(S \cup {b}) /\ Len(two) = n - pos /\ \A i \in 1..(n - pos) : two[i] = set[pos + i]
    <2>1. \A i \in 1..n : set[i] \in S
      OBVIOUS
    <2>2. one = [i \in 1..pos |-> set[i]]
      BY <1>1
    <2>3. two = [i \in 1..(n - pos) |-> set[pos + i]]
      BY <1>1
    <2>4. \A i \in 1..(n - pos) : pos + i \in 1..n
      BY <1>1
    <2>5. n - pos \in Nat /\ \A i \in 1..pos : i \in 1..n
      BY <1>1
    <2> HIDE DEF one, two
    <2>6. one \in Seq(S \cup {b}) /\ Len(one) = pos
      BY <1>1, <2>1, <2>2, <2>5
    <2>7. two \in Seq(S \cup {b}) /\ Len(two) = n - pos
      BY <1>1, <2>1, <2>3, <2>4, <2>5
    <2> QED BY <2>2, <2>3, <2>6, <2>7
  <1>9. new = (one \o <<b>>) \o two
    OBVIOUS
  <1> HIDE DEF new, one, two
  <1>10. <<b>> \in Seq(S \cup {b})
    OBVIOUS
  <1>11. new \in Seq(S \cup {b}) /\ Len(new) = n + 1
    BY <1>1, <1>8, <1>9, <1>10
  <1>12. \A i \in 1..pos : new[i] = set[i]
    BY <1>1, <1>8, <1>9, <1>10
  <1>13. new[pos + 1] = b
    BY <1>1, <1>8, <1>9, <1>10
  <1>14. \A i \in (pos + 1)..n : new[i + 1] = set[i]
    <2>1. ASSUME NEW i \in (pos + 1)..n PROVE new[i + 1] = set[i]
      <3>1. i + 1 > pos + 1 /\ i + 1 <= n + 1 /\ (i + 1) - (pos + 1) \in 1..(n - pos)
            /\ pos + ((i + 1) - (pos + 1)) = i /\ i + 1 \in Nat
        BY <1>1
      <3>2. new[i + 1] = two[(i + 1) - (pos + 1)]
        BY <1>1, <1>8, <1>9, <1>10, <3>1
      <3> QED BY <1>8, <3>1, <3>2
    <2> QED BY <2>1
  <1>15. DOMAIN new = 1..(n + 1) /\ DOMAIN set = 1..n
    BY <1>11
  <1>16. Range(set) \cup {b} \subseteq Range(new)
    <2>1. ASSUME NEW i \in 1..n PROVE set[i] \in Range(new)
      <3>1. CASE i <= pos
        <4>1. i \in 1..pos /\ i \in DOMAIN new
          BY <3>1, <1>1, <1>15
        <4> QED BY <4>1, <1>12 DEF Range
      <3>2. CASE i > pos
        <4>1. i \in (pos + 1)..n /\ i + 1 \in DOMAIN new
          BY <3>2, <1>1, <1>15
        <4> QED BY <4>1, <1>14 DEF Range
      <3> QED BY <3>1, <3>2, <1>1
    <2>2. b \in Range(new)
      <3>1. pos + 1 \in DOMAIN new
        BY <1>1, <1>15
      <3> QED BY <3>1, <1>13 DEF Range
    <2> QED BY <2>1, <2>2, <1>15 DEF Range
  <1>17. Range(new) \subseteq Range(set) \cup {b}
    <2>1. ASSUME NEW j \in 1..(n + 1) PROVE new[j] \in Range(set) \cup {b}
      <3>1. CASE j <= pos
        <4>1. j \in 1..pos /\ j \in DOMAIN set
          BY <3>1, <1>1, <1>15
        <4> QED BY <4>1, <1>12 DEF Range
      <3>2. CASE j = pos + 1
        BY <3>2, <1>13
      <3>3. CASE j > pos + 1
        <4>1. j - 1 \in (pos + 1)..n /\ j - 1 \in DOMAIN set /\ (j - 1) + 1 = j
          BY <3>3, <1>1, <1>15
        <4>2. new[j] = set[j - 1]
          BY <4>1, <1>14
        <4> QED BY <4>1, <4>2 DEF Range
      <3> QED BY <3>1, <3>2, <3>3, <1>1
    <2> QED BY <2>1, <1>15 DEF Range
  <1> QED BY <1>7, <1>11, <1>16, <1>17 DEF Joined

----------------------------------------------------------------------------
(***************************************************************************)
(* The invariant.                                                          *)
(***************************************************************************)

\* The chains of the tree as it stands.
Up == ChainsUp(tree_parent)

\* The future-covering set of a block lists the blocks that merge it, each once.
Covered(B, pst, par, covers) ==
    /\ covers \in [B -> Seq(B)]
    /\ \A a \in B : /\ Range(covers[a]) = Mergers(B, pst, par, a)
                    /\ Len(covers[a]) = Cardinality(Mergers(B, pst, par, a))

\* The oracle of the blocks inserted so far: the pasts and the tree, the sizes, the
\* nested intervals inside the root's own, and the future-covering sets.
OracleInv ==
    /\ Blocks \subseteq Ids \cup {GenesisId}
    /\ Pedigree(Blocks, past, tree_parent)
    /\ DOMAIN subtree_size = Blocks /\ Sized(Blocks, tree_parent, Up, subtree_size)
    /\ intervals \in [Blocks -> Interval] /\ DOMAIN next_free = Blocks
    /\ Nested(Blocks, tree_parent, intervals, next_free)
    /\ intervals[GenesisId] = [lo |-> 1, hi |-> RootCapacity]
    /\ Covered(Blocks, past, tree_parent, fcs)

\* What the invariant says of the tree.
LEMMA OracleTree ==
    ASSUME OracleInv
    PROVE  /\ IsFiniteSet(Blocks) /\ Blocks \subseteq Nat /\ GenesisId \in Blocks
           /\ Tree(Blocks, tree_parent, Depths(Blocks, past), Cardinality(Blocks))
           /\ Chains(Blocks, tree_parent, Up)
           /\ Mirrored(Blocks, Up, intervals)
  <1>1. IsFiniteSet(Blocks) /\ Blocks \subseteq Nat /\ GenesisId \in Blocks
        /\ Pedigree(Blocks, past, tree_parent)
        /\ Nested(Blocks, tree_parent, intervals, next_free)
    BY DEF OracleInv, Pedigree
  <1>2. Tree(Blocks, tree_parent, Depths(Blocks, past), Cardinality(Blocks))
    BY <1>1, PedigreeTree
  <1>3. Chains(Blocks, tree_parent, Up)
    BY <1>2, ChainsUpChains DEF Up
  <1>4. Mirrored(Blocks, Up, intervals)
    BY <1>1, <1>2, <1>3, NestedMirrors
  <1> QED BY <1>1, <1>2, <1>3, <1>4

\* Every subtree has a block.
LEMMA SizesPositive ==
    ASSUME NEW C, IsFiniteSet(C), NEW q, NEW rank, NEW N, Tree(C, q, rank, N),
           NEW w, NEW sizes, Sized(C, q, w, sizes)
    PROVE  \A x \in C : sizes[x] >= 1
  <1>1. SUFFICES ASSUME NEW x \in C PROVE sizes[x] >= 1
    OBVIOUS
  <1>2. IsFiniteSet(Children(q, x)) /\ Children(q, x) \subseteq C
    BY ChildrenOf
  <1>3. \A c \in Children(q, x) : sizes[c] = sizes[c] /\ sizes[c] \in Nat
    BY <1>2 DEF Sized
  <1>4. Sum(sizes, Children(q, x)) \in Nat
    BY <1>2, <1>3, SumSame
  <1>5. sizes[x] = 1 + Sum(sizes, Children(q, x))
    BY DEF Sized
  <1> QED BY <1>4, <1>5

LEMMA OracleInvInit == Init => OracleInv
  <1> SUFFICES ASSUME Init PROVE OracleInv
    OBVIOUS
  <1> DEFINE B == {GenesisId}
  <1>1. Blocks = B
    BY DEF Init, Blocks
  <1>2. tree_parent \in [B \ {GenesisId} -> B] /\ DOMAIN tree_parent = {}
    BY DEF Init
  <1>3. Pedigree(B, past, tree_parent)
    <2>1. IsFiniteSet(B) /\ B \subseteq Nat
      BY FS_Singleton DEF GenesisId
    <2> QED BY <1>2, <2>1 DEF Pedigree, Init
  <1>4. Tree(B, tree_parent, Depths(B, past), Cardinality(B))
    BY <1>3, PedigreeTree
  <1>5. Chains(B, tree_parent, Up)
    BY <1>4, ChainsUpChains DEF Up
  <1>6. Sized(B, tree_parent, Up, subtree_size)
    <2>1. {y \in B : GenesisId \in Up[y]} = {GenesisId}
      BY <1>5 DEF Chains
    <2>2. Cardinality({y \in B : GenesisId \in Up[y]}) = 1
      BY <2>1, FS_Singleton
    <2>3. Children(tree_parent, GenesisId) = {}
      BY <1>2 DEF Children
    <2>4. Sum(subtree_size, Children(tree_parent, GenesisId)) = 0
      BY <2>3, SumEmpty
    <2>5. subtree_size[GenesisId] = 1
      BY DEF Init
    <2> QED BY <2>2, <2>4, <2>5 DEF Sized
  <1>7. RootCapacity \in Nat \ {0}
    <2>1. Cardinality(Ids) \in Nat
      BY ReachabilityAssumption, FS_CardinalityType
    <2> QED BY <2>1, ReachabilityAssumption
  <1>8. intervals \in [B -> Interval] /\ DOMAIN next_free = B
        /\ intervals[GenesisId] = [lo |-> 1, hi |-> RootCapacity] /\ next_free[GenesisId] = 2
    BY <1>7 DEF Init, Interval
  <1>9. Nested(B, tree_parent, intervals, next_free)
    BY <1>7, <1>8 DEF Nested
  <1>10. Covered(B, past, tree_parent, fcs)
    <2>1. Mergers(B, past, tree_parent, GenesisId) = {}
      BY DEF Mergers
    <2>2. Cardinality(Mergers(B, past, tree_parent, GenesisId)) = 0
      BY <2>1, FS_EmptySet
    <2>3. fcs = [b \in B |-> <<>>] /\ Range(<<>>) = {}
      BY DEF Init, Range
    <2>4. fcs \in [B -> Seq(B)]
      BY <2>3
    <2> QED BY <2>1, <2>2, <2>3, <2>4 DEF Covered
  <1>11. DOMAIN subtree_size = B
    BY DEF Init
  <1> QED
    BY <1>1, <1>3, <1>6, <1>8, <1>9, <1>10, <1>11 DEF OracleInv

----------------------------------------------------------------------------
(***************************************************************************)
(* One block.                                                              *)
(***************************************************************************)

\* The block is new, its parents are known and one of them is selected.
Arrives(id, ps, sp) ==
    /\ id \in Ids /\ ps \in SUBSET Blocks /\ sp \in ps
    /\ NewBlock(id, ps, sp) /\ RegisterLeaf(id, sp)

\* Step 1 keeps the tree and the sizes.
LEMMA Registered ==
    ASSUME OracleInv, NEW id, NEW ps, NEW sp, Arrives(id, ps, sp)
    PROVE  /\ id \notin Blocks /\ id \in Nat /\ sp \in Blocks
           /\ Blocks' = Blocks \cup {id} /\ Blocks' \subseteq Ids \cup {GenesisId}
           /\ past' = Put(past, id, PastOf(ps)) /\ PastOf(ps) \subseteq Blocks
           /\ tree_parent' = Put(tree_parent, id, sp)
           /\ Pedigree(Blocks', past', tree_parent')
           /\ Tree(Blocks', tree_parent', Depths(Blocks', past'), Cardinality(Blocks'))
           /\ Up' = Put(Up, id, {id} \cup Up[sp])
           /\ Chains(Blocks', tree_parent', Up')
           /\ DOMAIN subtree_size' = Blocks' /\ Sized(Blocks', tree_parent', Up', subtree_size')
  <1>1. id \in Ids /\ ps \in SUBSET Blocks /\ sp \in ps /\ id \notin Blocks
        /\ past' = Put(past, id, PastOf(ps)) /\ tree_parent' = Put(tree_parent, id, sp)
    BY DEF Arrives, NewBlock, RegisterLeaf
  <1>2. id \in Nat /\ sp \in Blocks
    BY <1>1, ReachabilityAssumption
  <1>3. Blocks' = Blocks \cup {id}
    BY <1>1 DEF Blocks, Put
  <1>4. Blocks' \subseteq Ids \cup {GenesisId}
    BY <1>1, <1>3 DEF OracleInv
  <1>5. Pedigree(Blocks, past, tree_parent)
    BY DEF OracleInv
  <1>6. PastOf(ps) \subseteq Blocks
    BY <1>1, <1>5 DEF PastOf, Pedigree
  <1>7. Pedigree(Blocks \cup {id}, Put(past, id, PastOf(ps)), Put(tree_parent, id, sp))
    BY <1>1, <1>2, <1>5, PedigreeGrows DEF PastOf
  <1>8. Pedigree(Blocks', past', tree_parent')
    BY <1>1, <1>3, <1>7
  <1>9. Tree(Blocks', tree_parent', Depths(Blocks', past'), Cardinality(Blocks'))
    BY <1>8, PedigreeTree
  <1>10. Chains(Blocks', tree_parent', Up')
    BY <1>9, ChainsUpChains DEF Up
  <1>11. /\ IsFiniteSet(Blocks) /\ Chains(Blocks, tree_parent, Up)
         /\ Tree(Blocks, tree_parent, Depths(Blocks, past), Cardinality(Blocks))
    BY OracleTree
  <1>12. Chains(Blocks \cup {id}, Put(tree_parent, id, sp), Put(Up, id, {id} \cup Up[sp]))
    BY <1>1, <1>2, <1>11, ChainsGrow
  <1>13. Chains(Blocks', tree_parent', Put(Up, id, {id} \cup Up[sp]))
    BY <1>1, <1>3, <1>12
  <1>14. Up' = Put(Up, id, {id} \cup Up[sp])
    BY <1>9, <1>10, <1>13, ChainsUnique
  <1>15. subtree_size' = Counted(Blocks, Up, subtree_size, id, sp)
    BY DEF Arrives, RegisterLeaf, Counted, ChainUp, Up
  <1>16. Sized(Blocks, tree_parent, Up, subtree_size)
    BY DEF OracleInv
  <1>17. Sized(Blocks \cup {id}, Put(tree_parent, id, sp), Put(Up, id, {id} \cup Up[sp]),
               Counted(Blocks, Up, subtree_size, id, sp))
    BY <1>1, <1>2, <1>11, <1>16, SizedGrow
  <1>18. Sized(Blocks', tree_parent', Up', subtree_size')
    BY <1>1, <1>3, <1>14, <1>15, <1>17
  <1>19. DOMAIN subtree_size' = Blocks'
    BY <1>3, <1>15 DEF Counted
  <1> QED
    BY <1>1, <1>2, <1>3, <1>4, <1>6, <1>8, <1>9, <1>10, <1>14, <1>18, <1>19

\* The intervals after step 2.
Laid ==
    /\ intervals \in [Blocks -> Interval] /\ DOMAIN next_free = Blocks
    /\ Nested(Blocks, tree_parent, intervals, next_free)
    /\ intervals[GenesisId] = [lo |-> 1, hi |-> RootCapacity]

LEMMA Allocated ==
    ASSUME OracleInv, NEW id, NEW ps, NEW sp, Arrives(id, ps, sp), AllocateInterval(id, sp)
    PROVE  Laid'
  <1> DEFINE lo == next_free[sp]
             mid == lo + (intervals[sp].hi - lo) \div 2
  <1>1. lo <= intervals[sp].hi
        /\ intervals' = Put(intervals, id, [lo |-> lo, hi |-> mid])
        /\ next_free' = Put(Put(next_free, sp, mid + 1), id, lo + 1)
    BY DEF AllocateInterval
  <1>2. id \notin Blocks /\ sp \in Blocks /\ Blocks' = Blocks \cup {id}
        /\ tree_parent' = Put(tree_parent, id, sp)
    BY Registered
  <1>3. DOMAIN intervals = Blocks /\ DOMAIN next_free = Blocks /\ intervals \in [Blocks -> Interval]
        /\ Nested(Blocks, tree_parent, intervals, next_free)
        /\ intervals[GenesisId] = [lo |-> 1, hi |-> RootCapacity]
    BY DEF OracleInv
  <1>4. Tree(Blocks, tree_parent, Depths(Blocks, past), Cardinality(Blocks)) /\ GenesisId \in Blocks
    BY OracleTree
  <1>5. lo \in Int /\ mid \in Int
    <2>1. lo \in Int /\ intervals[sp].hi \in Int
      BY <1>2, <1>3 DEF Nested
    <2> QED BY <2>1
  <1> HIDE DEF lo, mid
  <1>6. Nested(Blocks \cup {id}, Put(tree_parent, id, sp), Put(intervals, id, [lo |-> lo, hi |-> mid]),
               Put(Put(next_free, sp, mid + 1), id, lo + 1))
    BY <1>1, <1>2, <1>3, <1>4, AllocateNested DEF lo, mid
  <1>7. Nested(Blocks', tree_parent', intervals', next_free')
    BY <1>1, <1>2, <1>6
  <1>8. intervals' = [x \in Blocks \cup {id} |-> IF x = id THEN [lo |-> lo, hi |-> mid] ELSE intervals[x]]
    BY <1>1, <1>3 DEF Put
  <1>9. intervals' \in [Blocks' -> Interval]
    BY <1>2, <1>3, <1>5, <1>8 DEF Interval
  <1>10. intervals'[GenesisId] = [lo |-> 1, hi |-> RootCapacity]
    BY <1>2, <1>3, <1>4, <1>8
  <1>11. DOMAIN next_free' = Blocks'
    BY <1>1, <1>2, <1>3 DEF Put
  <1> QED BY <1>7, <1>9, <1>10, <1>11 DEF Laid

\* The anchor of a reindex is above the block, and has room unless it is the root.
LEMMA AnchorIs ==
    ASSUME OracleInv, NEW b \in Blocks, NEW sizes
    PROVE  /\ Anchor(b, sizes) \in Up[b]
           /\ \/ Anchor(b, sizes) = GenesisId
              \/ intervals[Anchor(b, sizes)].hi - intervals[Anchor(b, sizes)].lo + 1
                   >= 2 * sizes[Anchor(b, sizes)]
  <1> DEFINE B == Blocks
             par == tree_parent
             roomy(x) == intervals[x].hi - intervals[x].lo + 1 >= 2 * sizes[x]
             H == [x \in B |-> [v \in B |-> IF roomy(x) \/ x = GenesisId THEN x ELSE v]]
             Is(g) == g = [x \in B |-> IF roomy(x) \/ x = GenesisId THEN x ELSE g[par[x]]]
             up == CHOOSE g : Is(g)
  <1>1. Tree(B, par, Depths(B, past), Cardinality(B)) /\ Chains(B, par, Up) /\ GenesisId \in B
    BY OracleTree
  <1>2. Anchor(b, sizes) = up[b]
    BY DEF Anchor
  <1> HIDE DEF roomy
  <1>3. H \in [B -> [B -> B]]
    BY <1>1
  <1>4. PICK f \in [B -> B] : Recurs(B, par, GenesisId, H, f)
    <2> HIDE DEF H
    <2> QED BY <1>1, <1>3, TreeRecursion
  <1>5. \A x \in B \ {GenesisId} : par[x] \in B
    BY <1>1 DEF Tree
  <1>6. ASSUME NEW x \in B PROVE f[x] = IF roomy(x) \/ x = GenesisId THEN x ELSE f[par[x]]
    <2>1. CASE x = GenesisId
      BY <2>1, <1>4 DEF Recurs
    <2>2. CASE x # GenesisId
      <3>1. f[x] = H[x][f[par[x]]] /\ f[par[x]] \in B
        BY <2>2, <1>4, <1>5 DEF Recurs
      <3> QED BY <3>1, <2>2
    <2> QED BY <2>1, <2>2
  <1>7. Is(f)
    BY <1>4, <1>6
  <1>8. Is(up)
    BY <1>7
  <1> HIDE DEF up, H
  <1>9. \A x \in B : up[x] = IF roomy(x) \/ x = GenesisId THEN x ELSE up[par[x]]
    BY <1>8
  <1> HIDE DEF Is
  <1> DEFINE S == {x \in B : up[x] \in Up[x] /\ (up[x] = GenesisId \/ roomy(up[x]))}
  <1>10. GenesisId \in S
    BY <1>1, <1>9 DEF Chains
  <1>11. ASSUME NEW x \in B \ {GenesisId}, par[x] \in S PROVE x \in S
    <2>1. Up[x] = {x} \cup Up[par[x]]
      BY <1>1 DEF Chains
    <2> QED BY <1>9, <1>11, <2>1
  <1>12. Inherited(B, par, S)
    BY <1>10, <1>11 DEF Inherited
  <1>13. B \subseteq S
    <2> HIDE DEF S, B, par
    <2> QED BY <1>1, <1>12, TreeInduction
  <1>14. up[b] \in Up[b] /\ (up[b] = GenesisId \/ roomy(up[b]))
    BY <1>13
  <1> QED BY <1>2, <1>14 DEF roomy

\* The root's interval has a point for every block there can be.
LEMMA RootRoom ==
    ASSUME NEW C, C \subseteq Ids \cup {GenesisId}, NEW q, NEW w, Chains(C, q, w), GenesisId \in C,
           NEW rank, NEW N, Tree(C, q, rank, N), NEW sizes, Sized(C, q, w, sizes)
    PROVE  sizes[GenesisId] <= RootCapacity
  <1>1. {y \in C : GenesisId \in w[y]} = C
    BY TreeAncestry DEF Ancestry
  <1>2. sizes[GenesisId] = Cardinality(C)
    BY <1>1 DEF Sized
  <1>3. IsFiniteSet(Ids) /\ GenesisId \notin Ids /\ RootCapacity \in Nat /\ RootCapacity > Cardinality(Ids)
    BY ReachabilityAssumption
  <1>4. IsFiniteSet(Ids \cup {GenesisId}) /\ Cardinality(Ids \cup {GenesisId}) = Cardinality(Ids) + 1
    BY <1>3, FS_AddElement
  <1>5. IsFiniteSet(C) /\ Cardinality(C) <= Cardinality(Ids \cup {GenesisId})
    BY <1>4, FS_Subset
  <1>6. Cardinality(C) \in Nat /\ Cardinality(Ids) \in Nat
    BY <1>3, <1>5, FS_CardinalityType
  <1> QED BY <1>2, <1>3, <1>4, <1>5, <1>6

LEMMA Reindexed ==
    ASSUME OracleInv, NEW id, NEW ps, NEW sp, Arrives(id, ps, sp), ReindexInterval(id, sp)
    PROVE  Laid'
  <1> DEFINE lo == next_free[sp]
             root == Anchor(sp, subtree_size')
             iv == [lo |-> lo, hi |-> lo]
             jvs == Put(intervals, id, iv)
             gree == Put(next_free, id, lo)
  <1>1. /\ intervals' = Layout(root, tree_parent', subtree_size', jvs)
        /\ next_free' = Leftover(root, tree_parent', subtree_size', intervals', gree)
    BY DEF ReindexInterval
  <1>2. /\ id \notin Blocks /\ id \in Nat /\ sp \in Blocks
        /\ Blocks' = Blocks \cup {id} /\ Blocks' \subseteq Ids \cup {GenesisId}
        /\ tree_parent' = Put(tree_parent, id, sp)
        /\ Pedigree(Blocks', past', tree_parent')
        /\ Tree(Blocks', tree_parent', Depths(Blocks', past'), Cardinality(Blocks'))
        /\ Up' = Put(Up, id, {id} \cup Up[sp])
        /\ Chains(Blocks', tree_parent', Up')
        /\ Sized(Blocks', tree_parent', Up', subtree_size')
    BY Registered
  <1>3. DOMAIN intervals = Blocks /\ DOMAIN next_free = Blocks /\ intervals \in [Blocks -> Interval]
        /\ Nested(Blocks, tree_parent, intervals, next_free)
        /\ intervals[GenesisId] = [lo |-> 1, hi |-> RootCapacity]
    BY DEF OracleInv
  <1>4. Tree(Blocks, tree_parent, Depths(Blocks, past), Cardinality(Blocks)) /\ GenesisId \in Blocks
        /\ Chains(Blocks, tree_parent, Up)
    BY OracleTree
  <1>5. /\ root \in Up[sp]
        /\ \/ root = GenesisId
           \/ intervals[root].hi - intervals[root].lo + 1 >= 2 * subtree_size'[root]
    BY <1>2, AnchorIs
  <1>6. IsFiniteSet(Blocks') /\ Blocks' \subseteq Nat /\ GenesisId \in Blocks'
    BY <1>2 DEF Pedigree
  <1>7. lo \in Int
    BY <1>2, <1>3 DEF Nested
  <1> HIDE DEF lo, root
  <1>8. root \in Blocks /\ root \in Blocks' /\ root # id
    BY <1>2, <1>4, <1>5 DEF Chains
  <1>9. jvs = [x \in Blocks' |-> IF x = id THEN iv ELSE intervals[x]]
    BY <1>2, <1>3 DEF Put
  <1>10. jvs \in [Blocks' -> Interval] /\ DOMAIN gree = Blocks' /\ \A x \in Blocks : jvs[x] = intervals[x]
    <2>1. iv \in Interval
      BY <1>7 DEF Interval
    <2>2. DOMAIN gree = Blocks'
      BY <1>2, <1>3 DEF Put
    <2> HIDE DEF iv, jvs
    <2> QED BY <1>2, <1>3, <1>9, <2>1, <2>2
  <1>11. NestedOutside(Blocks \cup {id}, Put(tree_parent, id, sp), Put(Up, id, {id} \cup Up[sp]), root,
                       jvs, gree)
    BY <1>2, <1>3, <1>4, <1>5, OutsideNested
  <1> HIDE DEF iv, jvs, gree
  <1>12. NestedOutside(Blocks', tree_parent', Up', root, jvs, gree)
    BY <1>2, <1>11
  <1>13. \A x \in Blocks' : subtree_size'[x] >= 1
    BY <1>2, <1>6, SizesPositive
  <1>14. Up' = ChainsUp(tree_parent')
    BY DEF Up
  <1>15. LaidOut(Blocks', tree_parent', Up', subtree_size', root, jvs, intervals')
    <2>1. Sized(Blocks', tree_parent', ChainsUp(tree_parent'), subtree_size')
      BY <1>2, <1>14
    <2>2. LaidOut(Blocks', tree_parent', ChainsUp(tree_parent'), subtree_size', root, jvs,
                  Layout(root, tree_parent', subtree_size', jvs))
      BY ONLY <1>2, <1>6, <1>8, <1>10, <1>13, <2>1, LayoutIs
    <2> QED BY <1>1, <1>14, <2>2
  <1>16. jvs[root].hi - jvs[root].lo + 1 >= subtree_size'[root]
    <2>1. subtree_size'[root] \in Nat
      BY <1>2, <1>8 DEF Sized
    <2>2. jvs[root] = intervals[root]
      BY <1>8, <1>10
    <2>3. CASE root = GenesisId
      <3>1. subtree_size'[GenesisId] <= RootCapacity
        BY <1>2, <1>6, RootRoom
      <3>2. RootCapacity \in Nat
        BY ReachabilityAssumption
      <3>3. jvs[root].lo = 1 /\ jvs[root].hi = RootCapacity
        BY <2>2, <2>3, <1>3
      <3> QED BY <2>1, <2>3, <3>1, <3>2, <3>3
    <2>4. CASE root # GenesisId
      <3>1. intervals[root].hi - intervals[root].lo + 1 >= 2 * subtree_size'[root]
        BY <2>4, <1>5
      <3>2. intervals[root].hi \in Int /\ intervals[root].lo \in Int
        BY <1>3, <1>8 DEF Interval
      <3> QED BY <2>1, <2>2, <3>1, <3>2
    <2> QED BY <2>3, <2>4
  <1>17. Nested(Blocks', tree_parent', intervals', next_free')
    BY <1>1, <1>2, <1>6, <1>8, <1>10, <1>12, <1>13, <1>14, <1>15, <1>16, LayoutNested
  <1>18. intervals' \in [Blocks' -> Interval]
    BY <1>15 DEF LaidOut
  <1>19. intervals'[GenesisId] = [lo |-> 1, hi |-> RootCapacity]
    <2>1. Up'[GenesisId] = {GenesisId}
      BY <1>2 DEF Chains
    <2>2. intervals'[GenesisId] = jvs[GenesisId]
      BY <1>6, <1>15, <2>1 DEF LaidOut
    <2> QED BY <2>2, <1>3, <1>4, <1>10
  <1>20. DOMAIN next_free' = Blocks'
    BY <1>1, <1>10 DEF Leftover
  <1> QED BY <1>17, <1>18, <1>19, <1>20 DEF Laid

\* Step 3: a leaf covers no other block and none that merges what it merges covers it.
LEMMA CoverStep ==
    ASSUME OracleInv, NEW id, NEW ps, NEW sp, Arrives(id, ps, sp), Laid',
           CoverMergeset(id, PastOf(ps) \ (past[sp] \cup {sp}))
    PROVE  Covered(Blocks', past', tree_parent', fcs')
  <1> DEFINE mergeset == PastOf(ps) \ (past[sp] \cup {sp})
             M(a) == Mergers(Blocks, past, tree_parent, a)
             M2(a) == Mergers(Blocks \cup {id}, Put(past, id, PastOf(ps)), Put(tree_parent, id, sp), a)
  <1>1. /\ id \notin Blocks /\ id \in Nat /\ sp \in Blocks
        /\ Blocks' = Blocks \cup {id}
        /\ past' = Put(past, id, PastOf(ps)) /\ PastOf(ps) \subseteq Blocks
        /\ tree_parent' = Put(tree_parent, id, sp)
        /\ Tree(Blocks', tree_parent', Depths(Blocks', past'), Cardinality(Blocks'))
        /\ Up' = Put(Up, id, {id} \cup Up[sp])
        /\ Chains(Blocks', tree_parent', Up')
    BY Registered
  <1>2. Pedigree(Blocks, past, tree_parent) /\ Covered(Blocks, past, tree_parent, fcs)
    BY DEF OracleInv
  <1>3. Chains(Blocks, tree_parent, Up) /\ IsFiniteSet(Blocks)
    BY OracleTree
  <1>4. Mirrored(Blocks', Up', intervals')
    BY <1>1, NestedMirrors DEF Laid
  <1>5. Up'[id] = {id} \cup Up[sp] /\ \A x \in Blocks : Up'[x] = Up[x] /\ Up[x] \subseteq Blocks
    BY <1>1, <1>3 DEF Put, Chains
  <1>6. PICK pos \in [mergeset -> 0..Cardinality(Blocks)] :
          /\ \A m \in mergeset : pos[m] \in PartitionPoints(intervals', fcs[m], id)
          /\ fcs' = [b \in Blocks \cup {id} |->
                       IF b = id THEN <<>>
                       ELSE IF b \in mergeset
                       THEN InsertToFutureCoveringSet(intervals', fcs[b], id, pos[b])
                       ELSE fcs[b]]
    BY DEF CoverMergeset
  <1>7. /\ \A a \in Blocks : M2(a) = M(a) \cup (IF a \in mergeset THEN {id} ELSE {})
        /\ M2(id) = {}
    BY <1>1, <1>2, MergersGrow
  <1>8. \A a \in Blocks : /\ fcs[a] \in Seq(Blocks) /\ Range(fcs[a]) = M(a)
                          /\ Len(fcs[a]) = Cardinality(M(a)) /\ M(a) \subseteq Blocks
    BY <1>2 DEF Covered, Mergers
  <1>9. ASSUME NEW a \in mergeset, NEW c \in M(a)
        PROVE  ~Covers(intervals', id, c) /\ ~Covers(intervals', c, id)
    <2>1. a \in Blocks /\ c \in Blocks /\ a \in past[c] /\ a # sp /\ a \notin past[sp]
      BY <1>1, <1>9 DEF Mergers
    <2>2. id \in Blocks' /\ c \in Blocks'
      BY <1>1, <2>1
    <2>3. id \notin Up'[c]
      BY <1>1, <1>5, <2>1
    <2>4. c \notin Up'[id]
      <3>1. SUFFICES ASSUME c \in Up[sp] PROVE FALSE
        BY <1>1, <1>5, <2>1
      <3>2. c = sp \/ c \in past[sp]
        BY <1>1, <1>2, <1>3, <3>1, ChainInPast
      <3>3. a \in past[sp]
        BY <1>1, <1>2, <2>1, <3>2 DEF Pedigree
      <3> QED BY <2>1, <3>3
    <2> QED BY <1>4, <2>2, <2>3, <2>4, MirroredCovers
  <1>10. ASSUME NEW a \in mergeset
         PROVE  /\ fcs'[a] \in Seq(Blocks \cup {id}) /\ Range(fcs'[a]) = M(a) \cup {id}
                /\ Len(fcs'[a]) = Len(fcs[a]) + 1
    <2>1. a \in Blocks /\ a # id
      BY <1>1
    <2>2. fcs'[a] = InsertToFutureCoveringSet(intervals', fcs[a], id, pos[a])
      BY <1>6, <2>1
    <2>3. pos[a] \in 0..Len(fcs[a])
      BY <1>6 DEF PartitionPoints
    <2>4. \A i \in 1..Len(fcs[a]) : fcs[a][i] \in M(a)
      BY <1>8, <2>1 DEF Range
    <2>5. \A i \in 1..Len(fcs[a]) :
            ~Covers(intervals', id, fcs[a][i]) /\ ~Covers(intervals', fcs[a][i], id)
      BY <1>9, <2>4
    <2>6. fcs[a] \in Seq(Blocks) /\ Range(fcs[a]) = M(a)
      BY <1>8, <2>1
    <2>7. Unrelated(intervals', fcs[a], id)
      BY <2>5 DEF Unrelated
    <2>8. Joined(Blocks, fcs[a], id, InsertToFutureCoveringSet(intervals', fcs[a], id, pos[a]))
      BY <2>3, <2>6, <2>7, InsertAdds
    <2> HIDE DEF M, mergeset
    <2> QED BY <2>2, <2>6, <2>8 DEF Joined
  <1>11. ASSUME NEW a \in Blocks \cup {id}
         PROVE  /\ fcs'[a] \in Seq(Blocks \cup {id}) /\ Range(fcs'[a]) = M2(a)
                /\ Len(fcs'[a]) = Cardinality(M2(a))
    <2>1. CASE a = id
      <3>1. fcs'[a] = <<>>
        BY <1>6, <2>1
      <3>2. Cardinality(M2(a)) = 0
        BY <1>7, <2>1, FS_EmptySet
      <3>3. fcs'[a] \in Seq(Blocks \cup {id}) /\ Len(fcs'[a]) = 0 /\ Range(fcs'[a]) = {}
        BY <3>1 DEF Range
      <3> QED BY <1>7, <2>1, <3>2, <3>3
    <2>2. CASE a \in mergeset
      <3>1. a \in Blocks /\ M2(a) = M(a) \cup {id} /\ id \notin M(a)
        BY <1>1, <1>7, <1>8, <2>2
      <3>2. IsFiniteSet(M(a))
        BY <1>3, <1>8, <3>1, FS_Subset
      <3>3. Cardinality(M2(a)) = Cardinality(M(a)) + 1
        BY <3>1, <3>2, FS_AddElement
      <3>4. Len(fcs[a]) = Cardinality(M(a))
        BY <1>8, <3>1
      <3> HIDE DEF M, M2, mergeset
      <3> QED BY <1>10, <2>2, <3>1, <3>3, <3>4
    <2>3. CASE a # id /\ a \notin mergeset
      <3>1. a \in Blocks /\ fcs'[a] = fcs[a]
        BY <1>6, <2>3
      <3>2. M2(a) = M(a)
        BY <1>7, <2>3, <3>1
      <3>3. fcs[a] \in Seq(Blocks \cup {id})
        BY <1>8, <3>1
      <3> HIDE DEF M, M2, mergeset
      <3> QED BY <1>8, <3>1, <3>2, <3>3
    <2> QED BY <2>1, <2>2, <2>3
  <1>12. fcs' \in [Blocks \cup {id} -> Seq(Blocks \cup {id})]
    <2>1. fcs' = [b \in Blocks \cup {id} |-> fcs'[b]]
      BY <1>6
    <2> QED BY <2>1, <1>11
  <1>13. Covered(Blocks \cup {id}, Put(past, id, PastOf(ps)), Put(tree_parent, id, sp), fcs')
    BY <1>11, <1>12 DEF Covered
  <1> QED BY <1>1, <1>13

LEMMA OracleInvNext == OracleInv /\ [Next]_vars => OracleInv'
  <1> SUFFICES ASSUME OracleInv, [Next]_vars PROVE OracleInv'
    OBVIOUS
  <1>1. CASE UNCHANGED vars
    BY <1>1 DEF vars, OracleInv, Blocks, Up
  <1>2. CASE Next
    <2>1. PICK id \in Ids, ps \in SUBSET Blocks :
            \E sp \in ps : AddBlock(id, ps, sp) \/ AddBlockReindexing(id, ps, sp)
      BY <1>2 DEF Next
    <2>2. PICK sp \in ps : AddBlock(id, ps, sp) \/ AddBlockReindexing(id, ps, sp)
      BY <2>1
    <2>3. Arrives(id, ps, sp) /\ CoverMergeset(id, PastOf(ps) \ (past[sp] \cup {sp}))
      BY <2>2 DEF Arrives, AddBlock, AddBlockReindexing
    <2>4. Laid'
      <3>1. CASE AllocateInterval(id, sp)
        BY <2>3, <3>1, Allocated
      <3>2. CASE ReindexInterval(id, sp)
        BY <2>3, <3>2, Reindexed
      <3> QED BY <2>2, <3>1, <3>2 DEF AddBlock, AddBlockReindexing
    <2>5. Covered(Blocks', past', tree_parent', fcs')
      BY <2>3, <2>4, CoverStep
    <2>6. /\ Blocks' \subseteq Ids \cup {GenesisId} /\ Pedigree(Blocks', past', tree_parent')
          /\ DOMAIN subtree_size' = Blocks' /\ Sized(Blocks', tree_parent', Up', subtree_size')
      BY <2>3, Registered
    <2> QED BY <2>4, <2>5, <2>6 DEF OracleInv, Laid
  <1> QED BY <1>1, <1>2

\* The invariant of the oracle holds in every state.
THEOREM OracleConsistent == Spec => []OracleInv
  BY OracleInvInit, OracleInvNext, PTL DEF Spec

----------------------------------------------------------------------------
\* However often intervals are moved by a reindex, they mirror the tree of selected
\* parents, subtree_size counts the subtrees and every subtree fits in its interval.
THEOREM TreeMirrored == Spec => []IntervalsMirrorTree
  <1>1. OracleInv => IntervalsMirrorTree
    <2> SUFFICES ASSUME OracleInv PROVE IntervalsMirrorTree
      OBVIOUS
    <2>1. IsFiniteSet(Blocks) /\ Chains(Blocks, tree_parent, Up) /\ Mirrored(Blocks, Up, intervals)
      BY OracleTree
    <2>2. \A b \in Blocks : ChainUp(b) = Up[b]
      BY DEF ChainUp, Up
    <2>3. ASSUME NEW a \in Blocks, NEW b \in Blocks
          PROVE  IF a \in ChainUp(b)
                 THEN Covers(intervals, a, b) /\ (a # b => intervals[a].lo < intervals[b].lo)
                 ELSE b \in ChainUp(a) \/ intervals[a].hi < intervals[b].lo
                                       \/ intervals[b].hi < intervals[a].lo
      BY <2>1, <2>2 DEF Mirrored, Apart
    <2>4. \A b \in Blocks \ {GenesisId} : intervals[b].hi < next_free[tree_parent[b]]
      BY DEF OracleInv, Nested
    <2>5. ASSUME NEW b \in Blocks
          PROVE  /\ subtree_size[b] = Cardinality({x \in Blocks : b \in ChainUp(x)})
                 /\ intervals[b].hi - intervals[b].lo + 1 >= subtree_size[b]
      <3>1. {x \in Blocks : b \in ChainUp(x)} = {x \in Blocks : b \in Up[x]}
        BY <2>2
      <3>2. subtree_size[b] = Cardinality({x \in Blocks : b \in Up[x]})
        BY DEF OracleInv, Sized
      <3>3. intervals[b].hi - intervals[b].lo + 1 >= Cardinality({x \in Blocks : b \in Up[x]})
        BY <2>1, MirroredWidth
      <3> QED BY <3>1, <3>2, <3>3
    <2> QED BY <2>3, <2>4, <2>5 DEF IntervalsMirrorTree
  <1> QED BY <1>1, OracleConsistent, PTL

\* The future-covering sets kept block by block are those a rebuild would find.
THEOREM FcsAsBuilt == Spec => []FcsMatchesBuild
  <1>1. OracleInv => FcsMatchesBuild
    <2> SUFFICES ASSUME OracleInv, NEW a \in Blocks
                 PROVE  Range(fcs[a]) = BuildFcs(a) /\ Len(fcs[a]) = Cardinality(BuildFcs(a))
      BY DEF FcsMatchesBuild
    <2>1. Chains(Blocks, tree_parent, Up) /\ Mirrored(Blocks, Up, intervals)
          /\ Pedigree(Blocks, past, tree_parent) /\ Covered(Blocks, past, tree_parent, fcs)
      BY OracleTree DEF OracleInv
    <2>2. \A x, y \in Blocks : TreeReaches(x, y) <=> x \in Up[y]
      BY <2>1, MirroredReach DEF TreeReaches
    <2>3. \A c \in Blocks \ {GenesisId} : tree_parent[c] \in Blocks
      BY <2>1 DEF Pedigree
    <2>4. \A c \in Blocks : a \in past[c] => c # GenesisId
      BY <2>1 DEF Pedigree
    <2>5. Mergers(Blocks, past, tree_parent, a) =
            {c \in Blocks : /\ a \in past[c] /\ a \notin Up[c]
                            /\ a \in Up[tree_parent[c]] \/ a \notin past[tree_parent[c]]}
      BY <2>1, RootsAreMergers
    <2>6. BuildFcs(a) =
            {c \in Blocks : /\ a \in past[c] /\ ~TreeReaches(a, c)
                            /\ TreeReaches(a, tree_parent[c]) \/
                               tree_parent[c] \notin {b \in Blocks : a \in past[b]}}
      BY DEF BuildFcs
    <2>7. BuildFcs(a) = Mergers(Blocks, past, tree_parent, a)
      BY <2>2, <2>3, <2>4, <2>5, <2>6
    <2> QED BY <2>1, <2>7 DEF Covered
  <1> QED BY <1>1, OracleConsistent, PTL

\* is_ancestor answers what the pasts say, for every DAG and every choice of selected
\* parents, after any number of reindexes.
THEOREM OracleAnswers == Spec => []OracleExact
  <1>1. OracleInv => OracleExact
    <2> SUFFICES ASSUME OracleInv, NEW a \in Blocks, NEW b \in Blocks
                 PROVE  IsAncestor(a, b) <=> a \in past[b]
      BY DEF OracleExact
    <2>1. Chains(Blocks, tree_parent, Up) /\ Mirrored(Blocks, Up, intervals)
          /\ Pedigree(Blocks, past, tree_parent) /\ Covered(Blocks, past, tree_parent, fcs)
      BY OracleTree DEF OracleInv
    <2>2. \A x, y \in Blocks : TreeReaches(x, y) <=> x \in Up[y]
      BY <2>1, MirroredReach DEF TreeReaches
    <2> DEFINE M == Mergers(Blocks, past, tree_parent, a)
    <2>3. a \in past[b] <=> a # b /\ (a \in Up[b] \/ \E c \in M : c \in Up[b])
      BY <2>1, PastFromTree
    <2>4. Range(fcs[a]) = M /\ M \subseteq Blocks
      BY <2>1 DEF Covered, Mergers
    <2>5. (\E i \in DOMAIN fcs[a] : TreeReaches(fcs[a][i], b)) <=> \E c \in M : c \in Up[b]
      BY <2>2, <2>4 DEF Range
    <2> QED BY <2>2, <2>3, <2>5 DEF IsAncestor
  <1> QED BY <1>1, OracleConsistent, PTL

=============================================================================

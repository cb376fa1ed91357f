---------------------------- MODULE DataTheorems ----------------------------
(***************************************************************************)
(* Facts about data that the proofs of this project share: induction over  *)
(* the naturals and over finite sets, the enumeration of a finite set in   *)
(* the order of a relation, and sums over finite sets.  They speak of sets *)
(* (of those numbers or subsets that have a property) and of relations as  *)
(* sets of pairs, so that they can be cited as they stand.                 *)
(*                                                                         *)
(* The last part is what FoldLeft computes, step by step, for an operator  *)
(* FoldStep and a parameter d that stays the same throughout the fold.  A  *)
(* proof module takes these facts for one fold of the model with           *)
(* INSTANCE ... WITH.                                                      *)
(***************************************************************************)
EXTENDS Integers, Sequences, FiniteSets, FiniteSetTheorems, WellFoundedInduction, TLAPS

CONSTANT FoldStep(_, _, _)

\* A set that has 0 and with a number the next one has all of them.
LEMMA NatSet ==
    ASSUME NEW S, 0 \in S, \A n \in Nat : n \in S => n + 1 \in S
    PROVE  Nat \subseteq S
  <1> DEFINE T == Nat \ S
  <1>1. SUFFICES ASSUME T # {} PROVE FALSE
    OBVIOUS
  <1>2. IsWellFoundedOn(OpToRel(<, Nat), Nat)
    BY NatLessThanWellFounded
  <1>3. PICK x \in T : \A y \in T : ~(<<y, x>> \in OpToRel(<, Nat))
    BY <1>1, <1>2, WFMin
  <1>4. x # 0 /\ x - 1 \in Nat
    OBVIOUS
  <1>5. x - 1 \in T
    OBVIOUS
  <1>6. <<x - 1, x>> \in OpToRel(<, Nat)
    BY <1>4 DEF OpToRel
  <1> QED
    BY <1>3, <1>5, <1>6

\* The same up to a bound.
LEMMA NatSetTo ==
    ASSUME NEW n \in Nat, NEW S, 0 \in S, \A i \in 0..(n - 1) : i \in S => i + 1 \in S
    PROVE  0..n \subseteq S
  <1> DEFINE T == {i \in Nat : i <= n => i \in S}
  <1>1. 0 \in T
    OBVIOUS
  <1>2. \A i \in Nat : i \in T => i + 1 \in T
    OBVIOUS
  <1>3. Nat \subseteq T
    <2> HIDE DEF T
    <2> QED BY <1>1, <1>2, NatSet
  <1> QED
    BY <1>3

\* What holds below a number whenever it holds for all smaller ones holds for all.
LEMMA NatSetStrong ==
    ASSUME NEW S, \A n \in Nat : (\A m \in 0..(n - 1) : m \in S) => n \in S
    PROVE  Nat \subseteq S
  <1> DEFINE T == {n \in Nat : 0..(n - 1) \subseteq S}
  <1>1. 0 \in T
    OBVIOUS
  <1>2. \A n \in Nat : n \in T => n + 1 \in T
    OBVIOUS
  <1>3. Nat \subseteq T
    <2> HIDE DEF T
    <2> QED BY <1>1, <1>2, NatSet
  <1> QED
    BY <1>3

\* h lists the first n values of the iteration of G from a.
Iterates(a, G, n, h) ==
    /\ h = [i \in 0..n |-> h[i]]
    /\ h[0] = a
    /\ \A i \in 1..n : h[i] = G[h[i - 1]]

\* A function can be iterated without end.
LEMMA NatIteration ==
    ASSUME NEW V, NEW a \in V, NEW G \in [V -> V]
    PROVE  \E w \in [Nat -> V] : w[0] = a /\ \A n \in Nat : w[n + 1] = G[w[n]]
  <1> DEFINE S == {n \in Nat : \E h : Iterates(a, G, n, h) /\ h[n] \in V}
  <1>1. 0 \in S
    <2> DEFINE h == [i \in 0..0 |-> a]
    <2>1. Iterates(a, G, 0, h) /\ h[0] \in V
      BY DEF Iterates
    <2> QED BY <2>1
  <1>2. ASSUME NEW n \in Nat, n \in S PROVE n + 1 \in S
    <2>1. PICK h : Iterates(a, G, n, h) /\ h[n] \in V
      BY <1>2
    <2> DEFINE g == [i \in 0..(n + 1) |-> IF i = n + 1 THEN G[h[n]] ELSE h[i]]
    <2>2. g[0] = a /\ g[n + 1] = G[g[n]] /\ g[n + 1] \in V
      BY <2>1 DEF Iterates
    <2>3. ASSUME NEW i \in 1..(n + 1) PROVE g[i] = G[g[i - 1]]
      <3>1. CASE i = n + 1
        BY <3>1, <2>2
      <3>2. CASE i # n + 1
        <4>1. i \in 1..n /\ i - 1 \in 0..(n + 1) /\ i - 1 # n + 1 /\ i \in 0..(n + 1)
          BY <3>2
        <4>2. h[i] = G[h[i - 1]]
          BY <2>1, <4>1 DEF Iterates
        <4> QED BY <4>1, <4>2, <3>2
      <3> QED BY <3>1, <3>2
    <2>4. g = [i \in 0..(n + 1) |-> g[i]]
      OBVIOUS
    <2> HIDE DEF g
    <2>5. Iterates(a, G, n + 1, g)
      BY <2>2, <2>3, <2>4 DEF Iterates
    <2> QED BY <2>2, <2>5
  <1>3. Nat \subseteq S
    <2> HIDE DEF S
    <2> QED BY <1>1, <1>2, NatSet
  <1> DEFINE H(n) == CHOOSE h : Iterates(a, G, n, h) /\ h[n] \in V
             w == [n \in Nat |-> H(n)[n]]
  <1>4. \A n \in Nat : Iterates(a, G, n, H(n)) /\ H(n)[n] \in V
    BY <1>3
  <1> HIDE DEF H
  <1>5. w \in [Nat -> V] /\ w[0] = a
    BY <1>4 DEF Iterates
  <1>6. ASSUME NEW n \in Nat PROVE w[n + 1] = G[w[n]]
    <2> DEFINE g == H(n + 1)
               h == H(n)
               T == {i \in Nat : i \in 0..n => h[i] = g[i]}
    <2>1. Iterates(a, G, n + 1, g) /\ Iterates(a, G, n, h)
      BY <1>4
    <2> HIDE DEF g, h
    <2>2. 0 \in T
      BY <2>1 DEF Iterates
    <2>3. ASSUME NEW i \in 0..(n - 1), i \in T PROVE i + 1 \in T
      <3>1. i + 1 \in 1..n /\ i + 1 \in 1..(n + 1) /\ (i + 1) - 1 = i /\ i \in 0..n
        OBVIOUS
      <3>2. h[i + 1] = G[h[(i + 1) - 1]] /\ g[i + 1] = G[g[(i + 1) - 1]]
        BY <2>1, <3>1 DEF Iterates
      <3>3. h[i] = g[i]
        BY <2>3, <3>1
      <3> QED BY <3>1, <3>2, <3>3
    <2>4. 0..n \subseteq T
      <3> HIDE DEF T
      <3> QED BY <2>2, <2>3, NatSetTo
    <2>5. h[n] = g[n]
      BY <2>4
    <2>6. g[n + 1] = G[g[n]]
      BY <2>1, n + 1 \in 1..(n + 1), (n + 1) - 1 = n DEF Iterates
    <2> QED BY <2>5, <2>6 DEF g, h
  <1> QED
    BY <1>5, <1>6

\* R orders S: it is transitive, compares any two members and none with itself.
StrictOrder(S, R) ==
    /\ \A x \in S : <<x, x>> \notin R
    /\ \A x, y \in S : x = y \/ <<x, y>> \in R \/ <<y, x>> \in R
    /\ \A x, y, z \in S : <<x, y>> \in R /\ <<y, z>> \in R => <<x, z>> \in R

Below(S, R, a) == {b \in S : <<b, a>> \in R}

\* The number of members below each.
Rank(S, R) == [a \in S |-> Cardinality(Below(S, R, a))]

\* The positions of the members of S in the order R run from 0 up, each taken once.
LEMMA RankBijective ==
    ASSUME NEW S, IsFiniteSet(S), NEW R, StrictOrder(S, R)
    PROVE  /\ Cardinality(S) \in Nat
           /\ Rank(S, R) \in [S -> 0..(Cardinality(S) - 1)]
           /\ \A a, b \in S : <<a, b>> \in R <=> Rank(S, R)[a] < Rank(S, R)[b]
           /\ \A i \in 0..(Cardinality(S) - 1) : \E a \in S : Rank(S, R)[a] = i
  <1> DEFINE rank == [a \in S |-> Cardinality(Below(S, R, a))]
             n == Cardinality(S)
  <1>1. n \in Nat
    BY FS_CardinalityType
  <1>2. ASSUME NEW a \in S PROVE Cardinality(Below(S, R, a)) \in 0..(n - 1) /\ IsFiniteSet(Below(S, R, a))
    <2>1. Below(S, R, a) \in SUBSET (S \ {a})
      BY DEF Below, StrictOrder
    <2>2. IsFiniteSet(S \ {a}) /\ Cardinality(S \ {a}) = n - 1
      BY FS_RemoveElement
    <2>3. IsFiniteSet(Below(S, R, a)) /\ Cardinality(Below(S, R, a)) <= n - 1
      BY <2>1, <2>2, FS_Subset
    <2>4. Cardinality(Below(S, R, a)) \in Nat
      BY <2>3, FS_CardinalityType
    <2> QED BY <1>1, <2>3, <2>4
  <1>3. rank \in [S -> 0..(n - 1)]
    BY <1>2
  <1>4. ASSUME NEW a \in S, NEW b \in S, <<a, b>> \in R PROVE rank[a] < rank[b]
    <2>1. Below(S, R, a) \in SUBSET Below(S, R, b) /\ a \in Below(S, R, b) /\ a \notin Below(S, R, a)
      BY <1>4 DEF Below, StrictOrder
    <2>2. Cardinality(Below(S, R, a)) <= Cardinality(Below(S, R, b))
          /\ Cardinality(Below(S, R, a)) # Cardinality(Below(S, R, b))
      BY <2>1, <1>2, FS_Subset
    <2> QED BY <1>2, <2>2
  <1>5. \A a, b \in S : <<a, b>> \in R <=> rank[a] < rank[b]
    <2> SUFFICES ASSUME NEW a \in S, NEW b \in S PROVE <<a, b>> \in R <=> rank[a] < rank[b]
      OBVIOUS
    <2>1. rank[a] \in Int /\ rank[b] \in Int
      BY <1>3
    <2> HIDE DEF rank
    <2>2. CASE <<a, b>> \in R
      BY <2>2, <1>4
    <2>3. CASE <<b, a>> \in R
      BY <2>1, <2>3, <1>4 DEF StrictOrder
    <2>4. CASE a = b
      BY <2>1, <2>4 DEF StrictOrder
    <2> QED BY <2>2, <2>3, <2>4 DEF StrictOrder
  <1>6. rank \in Injection(S, 0..(n - 1))
    <2> SUFFICES ASSUME NEW a \in S, NEW b \in S, rank[a] = rank[b] PROVE a = b
      BY <1>3 DEF Injection, IsInjective
    <2>1. rank[a] \in Int /\ rank[b] \in Int
      BY <1>3
    <2> HIDE DEF rank
    <2>2. <<a, b>> \notin R /\ <<b, a>> \notin R
      BY <1>4, <2>1
    <2> QED BY <2>2 DEF StrictOrder
  <1>7. IsFiniteSet(0..(n - 1)) /\ Cardinality(0..(n - 1)) = n
    BY <1>1, FS_Interval, SMTT(30)
  <1>8. rank \in Surjection(S, 0..(n - 1))
    BY <1>6, <1>7, FS_Injection
  <1>9. \A i \in 0..(n - 1) : \E a \in S : rank[a] = i
    BY <1>8 DEF Surjection
  <1> QED
    BY <1>1, <1>3, <1>5, <1>9 DEF Rank

\* s lists S, each member once, in the order R.
Enumerates(s, S, R) ==
    /\ s \in [1..Cardinality(S) -> S]
    /\ \A a \in S : \E i \in 1..Cardinality(S) : s[i] = a
    /\ \A i, j \in 1..Cardinality(S) : <<s[i], s[j]>> \in R <=> i < j

\* The i-th is the member with i - 1 others below it.
Ranked(S, R) ==
    [i \in 1..Cardinality(S) |-> CHOOSE a \in S : Cardinality({b \in S : <<b, a>> \in R}) = i - 1]

\* That lists the set.
LEMMA RankEnumerates ==
    ASSUME NEW S, IsFiniteSet(S), NEW R, StrictOrder(S, R)
    PROVE  Enumerates(Ranked(S, R), S, R)
  <1> DEFINE rank == [a \in S |-> Cardinality(Below(S, R, a))]
             n == Cardinality(S)
             at(i) == CHOOSE a \in S : Cardinality({b \in S : <<b, a>> \in R}) = i - 1
             s == [i \in 1..n |-> at(i)]
  <1>1. /\ n \in Nat
        /\ rank \in [S -> 0..(n - 1)]
        /\ \A a, b \in S : <<a, b>> \in R <=> rank[a] < rank[b]
        /\ \A i \in 0..(n - 1) : \E a \in S : rank[a] = i
    BY RankBijective DEF Rank
  <1>2. \A a \in S : rank[a] = Cardinality({b \in S : <<b, a>> \in R})
    BY DEF Below
  <1>3. \A i \in 1..n : s[i] = CHOOSE a \in S : Cardinality({b \in S : <<b, a>> \in R}) = i - 1
    OBVIOUS
  <1>4. s = [i \in 1..n |-> s[i]]
    <2> HIDE DEF at
    <2> QED OBVIOUS
  <1> HIDE DEF rank, n, s
  <1>5. ASSUME NEW i \in 1..n PROVE s[i] \in S /\ rank[s[i]] = i - 1
    <2>1. i - 1 \in 0..(n - 1)
      BY <1>1
    <2>2. PICK a \in S : rank[a] = i - 1
      BY <1>1, <2>1
    <2>3. Cardinality({b \in S : <<b, a>> \in R}) = i - 1
      BY <1>2, <2>2
    <2>4. s[i] \in S /\ Cardinality({b \in S : <<b, s[i]>> \in R}) = i - 1
      BY <1>3, <2>3
    <2> QED BY <1>2, <2>4
  <1>6. s \in [1..n -> S]
    BY <1>4, <1>5
  <1>7. \A i, j \in 1..n : <<s[i], s[j]>> \in R <=> i < j
    BY <1>1, <1>5
  <1>8. ASSUME NEW a \in S PROVE \E i \in 1..n : s[i] = a
    <2> DEFINE i == rank[a] + 1
    <2>1. i \in 1..n /\ i - 1 = rank[a] /\ rank[a] \in Int
      BY <1>1
    <2> HIDE DEF i
    <2>2. s[i] \in S /\ rank[s[i]] = rank[a]
      BY <1>5, <2>1
    <2>3. <<s[i], a>> \notin R /\ <<a, s[i]>> \notin R
      BY <1>1, <2>1, <2>2
    <2>4. s[i] = a
      BY <2>2, <2>3 DEF StrictOrder
    <2> QED BY <2>1, <2>4
  <1>9. s = Ranked(S, R)
    BY DEF s, n, Ranked
  <1> QED
    BY <1>6, <1>7, <1>8, <1>9 DEF Enumerates, n

\* A finite set with members has a greatest one.
LEMMA FiniteGreatest ==
    ASSUME NEW S, IsFiniteSet(S), S # {}, NEW R, StrictOrder(S, R)
    PROVE  \E m \in S : \A x \in S \ {m} : <<x, m>> \in R
  <1> DEFINE rank == [a \in S |-> Cardinality(Below(S, R, a))]
             n == Cardinality(S)
  <1>1. /\ n \in Nat
        /\ rank \in [S -> 0..(n - 1)]
        /\ \A a, b \in S : <<a, b>> \in R <=> rank[a] < rank[b]
        /\ \A i \in 0..(n - 1) : \E a \in S : rank[a] = i
    BY RankBijective DEF Rank
  <1>2. n # 0
    BY FS_EmptySet
  <1> HIDE DEF rank, n
  <1>3. PICK m \in S : rank[m] = n - 1
    <2>1. n - 1 \in 0..(n - 1)
      BY <1>1, <1>2
    <2> QED BY <1>1, <2>1
  <1>4. \A x \in S : rank[x] \in 0..(n - 1)
    BY <1>1
  <1>5. \A x \in S : <<m, x>> \notin R
    BY <1>1, <1>3, <1>4
  <1> QED
    BY <1>5 DEF StrictOrder

----------------------------------------------------------------------------
(***************************************************************************)
(* Sums over finite sets.                                                  *)
(***************************************************************************)
Picked(t) == CHOOSE x \in t : TRUE

Sum(f, S) ==
    LET it[t \in SUBSET S] == IF t = {} THEN 0 ELSE f[Picked(t)] + it[t \ {Picked(t)}]
    IN  it[S]

\* One step of it: what a sum over t is when the sums over smaller sets are it.
SumStep(f, it, t) == IF t = {} THEN 0 ELSE f[Picked(t)] + it[t \ {Picked(t)}]

\* it is the function that sums f over the subsets of S.
IsSum(f, S, it) == it = [t \in SUBSET S |-> SumStep(f, it, t)]

\* The subsets of S of at most n members.
UpTo(S, n) == {t \in SUBSET S : Cardinality(t) <= n}

\* Taking the picked member out of a set.
LEMMA PickedOut ==
    ASSUME NEW t, IsFiniteSet(t), t # {}
    PROVE  /\ Picked(t) \in t /\ IsFiniteSet(t \ {Picked(t)})
           /\ Cardinality(t) \in Nat /\ Cardinality(t \ {Picked(t)}) = Cardinality(t) - 1
           /\ Cardinality(t) # 0
  <1>1. Picked(t) \in t
    BY DEF Picked
  <1> QED
    BY <1>1, FS_RemoveElement, FS_CardinalityType, FS_EmptySet

\* There is such a function.
LEMMA SumExists ==
    ASSUME NEW f, NEW S, IsFiniteSet(S)
    PROVE  \E it : IsSum(f, S, it)
  <1> DEFINE Good(it, n) == it = [t \in UpTo(S, n) |-> SumStep(f, it, t)]
             N == {n \in Nat : \E it : Good(it, n)}
  <1>0. \A t \in SUBSET S : IsFiniteSet(t) /\ Cardinality(t) \in Nat
    BY FS_Subset, FS_CardinalityType
  <1>1. 0 \in N
    <2> DEFINE it == [t \in UpTo(S, 0) |-> 0]
    <2>1. \A t \in UpTo(S, 0) : t = {}
      BY <1>0, FS_EmptySet DEF UpTo
    <2>2. Good(it, 0)
      BY <2>1 DEF SumStep
    <2> QED BY <2>2
  <1>2. ASSUME NEW n \in Nat, n \in N PROVE n + 1 \in N
    <2>1. PICK old : Good(old, n)
      BY <1>2
    <2> DEFINE new == [t \in UpTo(S, n + 1) |-> SumStep(f, old, t)]
    <2>2. ASSUME NEW t \in UpTo(S, n + 1) PROVE new[t] = SumStep(f, new, t)
      <3>1. CASE t = {}
        BY <3>1 DEF SumStep
      <3>2. CASE t # {}
        <4> DEFINE r == t \ {Picked(t)}
        <4>1. t \in SUBSET S /\ IsFiniteSet(t) /\ Cardinality(t) <= n + 1
          BY <1>0 DEF UpTo
        <4>2. r \in SUBSET S /\ Cardinality(r) \in Nat /\ Cardinality(r) <= n
          BY <1>0, <3>2, <4>1, PickedOut
        <4>3. r \in UpTo(S, n) /\ r \in UpTo(S, n + 1)
          BY <4>2 DEF UpTo
        <4> HIDE DEF r
        <4>4. old[r] = SumStep(f, old, r)
          BY <2>1, <4>3
        <4>5. new[r] = SumStep(f, old, r)
          BY <4>3
        <4>6. new[t] = SumStep(f, old, t)
          OBVIOUS
        <4> HIDE DEF new
        <4> QED BY <3>2, <4>4, <4>5, <4>6 DEF SumStep, r
      <3> QED BY <3>1, <3>2
    <2>3. Good(new, n + 1)
      <3>1. new = [t \in UpTo(S, n + 1) |-> new[t]]
        OBVIOUS
      <3> HIDE DEF new
      <3> QED BY <2>2, <3>1
    <2> HIDE DEF new, Good
    <2> QED BY <2>3
  <1>3. N = Nat
    <2> HIDE DEF N
    <2>1. N \subseteq Nat
      BY DEF N
    <2> QED BY <1>1, <1>2, <2>1, NatSet
  <1>4. PICK it : Good(it, Cardinality(S))
    BY <1>0, <1>3
  <1>5. UpTo(S, Cardinality(S)) = SUBSET S
    BY <1>0, FS_Subset DEF UpTo
  <1>6. IsSum(f, S, it)
    BY <1>4, <1>5 DEF IsSum
  <1> QED
    BY <1>6

\* Two such functions agree where both sum.
LEMMA SumUnique ==
    ASSUME NEW f, NEW S, NEW R, IsFiniteSet(S), NEW it, NEW jt, IsSum(f, S, it), IsSum(f, R, jt)
    PROVE  \A t \in SUBSET (S \cap R) : it[t] = jt[t]
  <1> DEFINE N == {n \in Nat : \A t \in SUBSET (S \cap R) : Cardinality(t) = n => it[t] = jt[t]}
  <1>0. \A t \in SUBSET (S \cap R) :
            /\ IsFiniteSet(t) /\ Cardinality(t) \in Nat
            /\ it[t] = SumStep(f, it, t) /\ jt[t] = SumStep(f, jt, t)
    <2> SUFFICES ASSUME NEW t \in SUBSET (S \cap R)
                 PROVE /\ IsFiniteSet(t) /\ Cardinality(t) \in Nat
                       /\ it[t] = SumStep(f, it, t) /\ jt[t] = SumStep(f, jt, t)
      OBVIOUS
    <2>1. t \in SUBSET S /\ t \in SUBSET R
      OBVIOUS
    <2> QED BY <2>1, FS_Subset, FS_CardinalityType DEF IsSum
  <1>1. 0 \in N
    BY <1>0, FS_EmptySet DEF SumStep
  <1>2. ASSUME NEW n \in Nat, n \in N PROVE n + 1 \in N
    <2> SUFFICES ASSUME NEW t \in SUBSET (S \cap R), Cardinality(t) = n + 1 PROVE it[t] = jt[t]
      OBVIOUS
    <2>1. t # {}
      BY FS_EmptySet
    <2> DEFINE r == t \ {Picked(t)}
    <2>2. r \in SUBSET (S \cap R) /\ Cardinality(r) = n
      BY <1>0, <2>1, PickedOut
    <2> HIDE DEF r
    <2>3. it[r] = jt[r]
      BY <1>2, <2>2
    <2>4. it[t] = f[Picked(t)] + it[r] /\ jt[t] = f[Picked(t)] + jt[r]
      BY <1>0, <2>1 DEF SumStep, r
    <2> QED BY <2>3, <2>4
  <1>3. N = Nat
    <2> HIDE DEF N
    <2>1. N \subseteq Nat
      BY DEF N
    <2> QED BY <1>1, <1>2, <2>1, NatSet
  <1> QED
    BY <1>0, <1>3

\* A sum over a set that is not empty is that of its picked member and of the others.
LEMMA SumUnfold ==
    ASSUME NEW f, NEW S, IsFiniteSet(S)
    PROVE  Sum(f, S) = IF S = {} THEN 0 ELSE f[Picked(S)] + Sum(f, S \ {Picked(S)})
  <1> DEFINE it == CHOOSE it : IsSum(f, S, it)
  <1>1. IsSum(f, S, it)
    BY SumExists
  <1>2. Sum(f, S) = it[S]
    BY DEF Sum, IsSum, SumStep, Picked
  <1> HIDE DEF it
  <1>3. Sum(f, S) = SumStep(f, it, S)
    <2>1. S \in SUBSET S
      OBVIOUS
    <2> QED BY <1>1, <1>2, <2>1 DEF IsSum
  <1>4. CASE S = {}
    BY <1>3, <1>4 DEF SumStep
  <1>5. CASE S # {}
    <2> DEFINE R == S \ {Picked(S)}
               jt == CHOOSE jt : IsSum(f, R, jt)
    <2>1. IsFiniteSet(R)
      BY <1>5, PickedOut
    <2>2. IsSum(f, R, jt)
      BY <2>1, SumExists
    <2>3. Sum(f, R) = jt[R]
      BY DEF Sum, IsSum, SumStep, Picked
    <2> HIDE DEF jt
    <2>4. it[R] = jt[R]
      <3>1. R \in SUBSET (S \cap R)
        OBVIOUS
      <3> HIDE DEF R
      <3> QED BY <1>1, <2>2, <3>1, SumUnique
    <2> QED BY <1>3, <1>5, <2>3, <2>4 DEF SumStep
  <1> QED
    BY <1>4, <1>5

\* f has numbers on S.
Numbers(f, S) == \A x \in S : f[x] \in Int

\* Then sums are numbers.
LEMMA SumInt ==
    ASSUME NEW f, NEW S, IsFiniteSet(S), Numbers(f, S)
    PROVE  Sum(f, S) \in Int
  <1> DEFINE N == {n \in Nat : \A t \in SUBSET S : Cardinality(t) = n => Sum(f, t) \in Int}
  <1>0. \A t \in SUBSET S : IsFiniteSet(t) /\ Cardinality(t) \in Nat
    BY FS_Subset, FS_CardinalityType
  <1>1. 0 \in N
    <2> SUFFICES ASSUME NEW t \in SUBSET S, Cardinality(t) = 0 PROVE Sum(f, t) \in Int
      OBVIOUS
    <2>1. t = {}
      BY <1>0, FS_EmptySet
    <2>2. Sum(f, t) = 0
      BY <1>0, <2>1, SumUnfold
    <2> QED BY <2>2
  <1>2. ASSUME NEW n \in Nat, n \in N PROVE n + 1 \in N
    <2> SUFFICES ASSUME NEW t \in SUBSET S, Cardinality(t) = n + 1 PROVE Sum(f, t) \in Int
      OBVIOUS
    <2>1. t # {} /\ IsFiniteSet(t)
      BY <1>0, FS_EmptySet
    <2> DEFINE c == Picked(t)
    <2>2. c \in t /\ t \ {c} \in SUBSET S /\ Cardinality(t \ {c}) = n
      BY <1>0, <2>1, PickedOut
    <2>3. Sum(f, t) = f[c] + Sum(f, t \ {c})
      BY <2>1, SumUnfold
    <2> HIDE DEF c
    <2> QED BY <1>2, <2>2, <2>3 DEF Numbers
  <1>3. N = Nat
    <2> HIDE DEF N
    <2>1. N \subseteq Nat
      BY DEF N
    <2> QED BY <1>1, <1>2, <2>1, NatSet
  <1> QED
    BY <1>0, <1>3

\* Any member may be the one summed first.
LEMMA SumRemove ==
    ASSUME NEW f, NEW S, IsFiniteSet(S), Numbers(f, S)
    PROVE  \A x \in S : Sum(f, S) = f[x] + Sum(f, S \ {x})
  <1> DEFINE Good(t) == \A x \in t : Sum(f, t) = f[x] + Sum(f, t \ {x})
             N == {n \in Nat : \A t \in SUBSET S : Cardinality(t) = n => Good(t)}
  <1>0. \A t \in SUBSET S : IsFiniteSet(t) /\ Cardinality(t) \in Nat
    BY FS_Subset, FS_CardinalityType
  <1>1. 0 \in N
    <2> SUFFICES ASSUME NEW t \in SUBSET S, Cardinality(t) = 0 PROVE Good(t)
      OBVIOUS
    <2>1. t = {}
      BY <1>0, FS_EmptySet
    <2> QED BY <2>1
  <1>2. ASSUME NEW n \in Nat, n \in N PROVE n + 1 \in N
    <2> SUFFICES ASSUME NEW t \in SUBSET S, Cardinality(t) = n + 1 PROVE Good(t)
      OBVIOUS
    <2>1. t # {} /\ IsFiniteSet(t)
      BY <1>0, FS_EmptySet
    <2> DEFINE c == Picked(t)
    <2>2. c \in t /\ t \ {c} \in SUBSET S /\ Cardinality(t \ {c}) = n
      BY <1>0, <2>1, PickedOut
    <2>3. Sum(f, t) = f[c] + Sum(f, t \ {c})
      BY <2>1, SumUnfold
    <2> HIDE DEF c
    <2>4. Good(t \ {c})
      BY <1>2, <2>2
    <2>5. ASSUME NEW x \in t, x # c PROVE Sum(f, t) = f[x] + Sum(f, t \ {x})
      <3> DEFINE u == t \ {x}
                 v == t \ {c}
                 w == u \ {c}
      <3>1. x \in v /\ v \ {x} = w /\ c \in u /\ u \in SUBSET S
        BY <2>2, <2>5
      <3>2. Cardinality(u) = n
        <4>1. Cardinality(t \ {x}) = Cardinality(t) - 1
          BY <2>1, FS_RemoveElement
        <4> QED BY <4>1
      <3>3. Good(u) /\ Good(v)
        BY <1>2, <2>4, <3>1, <3>2
      <3>4. Sum(f, v) = f[x] + Sum(f, v \ {x})
        BY <3>1, <3>3
      <3>5. Sum(f, u) = f[c] + Sum(f, w)
        BY <3>1, <3>3
      <3>6. f[x] \in Int /\ f[c] \in Int
        BY <2>2 DEF Numbers
      <3>7. Sum(f, w) \in Int
        <4>1. w \in SUBSET S
          BY <3>1
        <4>2. IsFiniteSet(w) /\ Numbers(f, w)
          BY <1>0, <4>1 DEF Numbers
        <4> QED BY <4>2, SumInt
      <3>8. Sum(f, v) = f[x] + Sum(f, w)
        BY <3>1, <3>4
      <3>9. Sum(f, t) = f[c] + Sum(f, v)
        BY <2>3
      <3> HIDE DEF u, v, w
      <3>10. Sum(f, t) = f[x] + Sum(f, u)
        BY <3>5, <3>6, <3>7, <3>8, <3>9
      <3> QED BY <3>10 DEF u
    <2> QED BY <2>3, <2>5
  <1>3. N = Nat
    <2> HIDE DEF N
    <2>1. N \subseteq Nat
      BY DEF N
    <2> QED BY <1>1, <1>2, <2>1, NatSet
  <1> QED
    BY <1>0, <1>3

\* A set with one member more.
LEMMA SumAdd ==
    ASSUME NEW f, NEW S, IsFiniteSet(S), NEW x, x \notin S, Numbers(f, S \cup {x})
    PROVE  Sum(f, S \cup {x}) = Sum(f, S) + f[x] /\ Sum(f, S) \in Int /\ f[x] \in Int
  <1> DEFINE T == S \cup {x}
  <1>1. IsFiniteSet(T) /\ x \in T /\ T \ {x} = S
    BY FS_AddElement
  <1>2. Numbers(f, S) /\ f[x] \in Int
    BY DEF Numbers
  <1>3. Sum(f, S) \in Int
    BY <1>2, SumInt
  <1> HIDE DEF T
  <1>4. Sum(f, T) = f[x] + Sum(f, S)
    <2>1. Numbers(f, T)
      BY DEF T
    <2>2. \A y \in T : Sum(f, T) = f[y] + Sum(f, T \ {y})
      BY <1>1, <2>1, SumRemove
    <2>3. Sum(f, T) = f[x] + Sum(f, T \ {x})
      BY <1>1, <2>2
    <2> QED BY <1>1, <2>3, Zenon
  <1>5. Sum(f, T) = Sum(f, S) + f[x]
    BY <1>2, <1>3, <1>4
  <1> QED
    BY <1>2, <1>3, <1>5 DEF T

\* The empty set sums to nothing.
LEMMA SumEmpty ==
    ASSUME NEW f
    PROVE  Sum(f, {}) = 0
  BY SumUnfold, FS_EmptySet

\* Two disjoint sets are summed one after the other.
LEMMA SumUnion ==
    ASSUME NEW f, NEW S, NEW R, IsFiniteSet(S), IsFiniteSet(R), S \cap R = {}, Numbers(f, S \cup R)
    PROVE  Sum(f, S \cup R) = Sum(f, S) + Sum(f, R) /\ Sum(f, S) \in Int /\ Sum(f, R) \in Int
  <1> DEFINE Good(t) == Sum(f, S \cup t) = Sum(f, S) + Sum(f, t)
             N == {n \in Nat : \A t \in SUBSET R : Cardinality(t) = n => Good(t)}
  <1>1. \A t \in SUBSET R : IsFiniteSet(t) /\ Cardinality(t) \in Nat
    BY FS_Subset, FS_CardinalityType
  <1>2. Numbers(f, S) /\ Numbers(f, R)
    BY DEF Numbers
  <1>3. Sum(f, S) \in Int /\ Sum(f, R) \in Int
    BY <1>2, SumInt
  <1>4. 0 \in N
    <2> SUFFICES ASSUME NEW t \in SUBSET R, Cardinality(t) = 0 PROVE Good(t)
      OBVIOUS
    <2>1. t = {} /\ S \cup t = S
      BY <1>1, FS_EmptySet
    <2>2. Sum(f, t) = 0
      BY <2>1, SumEmpty
    <2> QED BY <1>3, <2>1, <2>2
  <1>5. ASSUME NEW n \in Nat, n \in N PROVE n + 1 \in N
    <2> SUFFICES ASSUME NEW t \in SUBSET R, Cardinality(t) = n + 1 PROVE Good(t)
      OBVIOUS
    <2>1. t # {} /\ IsFiniteSet(t)
      BY <1>1, FS_EmptySet
    <2> DEFINE c == Picked(t)
               r == t \ {c}
    <2>2. c \in t /\ r \in SUBSET R /\ Cardinality(r) = n
      BY <1>1, <2>1, PickedOut
    <2> HIDE DEF c
    <2>3. Good(r)
      BY <1>5, <2>2
    <2>4. r \cup {c} = t /\ (S \cup r) \cup {c} = S \cup t /\ c \notin r /\ c \notin S \cup r
      BY <2>2
    <2>5. IsFiniteSet(r) /\ IsFiniteSet(S \cup r)
      BY <1>1, <2>2, FS_Union
    <2>6. Numbers(f, r \cup {c}) /\ Numbers(f, (S \cup r) \cup {c})
      BY <2>2 DEF Numbers
    <2> HIDE DEF r
    <2>7. Sum(f, t) = Sum(f, r) + f[c] /\ Sum(f, r) \in Int /\ f[c] \in Int
      <3>1. Sum(f, r \cup {c}) = Sum(f, r) + f[c] /\ Sum(f, r) \in Int /\ f[c] \in Int
        BY <2>4, <2>5, <2>6, SumAdd
      <3> QED BY <2>4, <3>1
    <2>8. Sum(f, S \cup t) = Sum(f, S \cup r) + f[c]
      <3> DEFINE q == S \cup r
      <3> HIDE DEF q
      <3>1. Sum(f, q \cup {c}) = Sum(f, q) + f[c]
        BY <2>4, <2>5, <2>6, SumAdd DEF q
      <3> QED BY <2>4, <3>1 DEF q
    <2> QED BY <1>3, <2>3, <2>7, <2>8
  <1>6. N = Nat
    <2> HIDE DEF N
    <2>1. N \subseteq Nat
      BY DEF N
    <2> QED BY <1>4, <1>5, <2>1, NatSet
  <1>7. Good(R)
    BY <1>1, <1>6
  <1> QED
    BY <1>3, <1>7

\* A sum depends on the values that are summed alone, and is not negative when none is.
LEMMA SumSame ==
    ASSUME NEW f, NEW g, NEW S, IsFiniteSet(S), \A x \in S : f[x] = g[x] /\ f[x] \in Nat
    PROVE  Sum(f, S) = Sum(g, S) /\ Sum(f, S) \in Nat
  <1> DEFINE Good(t) == Sum(f, t) = Sum(g, t) /\ Sum(f, t) \in Nat
             N == {n \in Nat : \A t \in SUBSET S : Cardinality(t) = n => Good(t)}
  <1>0. \A t \in SUBSET S : IsFiniteSet(t) /\ Cardinality(t) \in Nat
    BY FS_Subset, FS_CardinalityType
  <1>1. 0 \in N
    <2> SUFFICES ASSUME NEW t \in SUBSET S, Cardinality(t) = 0 PROVE Good(t)
      OBVIOUS
    <2>1. t = {}
      BY <1>0, FS_EmptySet
    <2>2. Sum(f, t) = 0 /\ Sum(g, t) = 0
      BY <2>1, SumEmpty
    <2> QED BY <2>2
  <1>2. ASSUME NEW n \in Nat, n \in N PROVE n + 1 \in N
    <2> SUFFICES ASSUME NEW t \in SUBSET S, Cardinality(t) = n + 1 PROVE Good(t)
      OBVIOUS
    <2>1. t # {} /\ IsFiniteSet(t)
      BY <1>0, FS_EmptySet
    <2> DEFINE c == Picked(t)
    <2>2. c \in t /\ t \ {c} \in SUBSET S /\ Cardinality(t \ {c}) = n
      BY <1>0, <2>1, PickedOut
    <2>3. Sum(f, t) = f[c] + Sum(f, t \ {c}) /\ Sum(g, t) = g[c] + Sum(g, t \ {c})
      BY <2>1, SumUnfold
    <2> HIDE DEF c
    <2>4. Good(t \ {c}) /\ f[c] = g[c] /\ f[c] \in Nat
      BY <1>2, <2>2
    <2> QED BY <2>3, <2>4
  <1>3. N = Nat
    <2> HIDE DEF N
    <2>1. N \subseteq Nat
      BY DEF N
    <2> QED BY <1>1, <1>2, <2>1, NatSet
  <1> QED
    BY <1>0, <1>3

----------------------------------------------------------------------------
(***************************************************************************)
(* Folds.                                                                  *)
(***************************************************************************)
Largest(t) == CHOOSE x \in t : \A y \in t : x >= y

\* FoldLeft, written out.
Fold(d, base, s) ==
    LET iter[t \in SUBSET DOMAIN s] ==
            IF t = {} THEN base ELSE FoldStep(d, iter[t \ {Largest(t)}], s[Largest(t)])
    IN  iter[DOMAIN s]

\* h lists the values a fold goes through on the first n elements.
Steps(d, base, s, n, h) ==
    /\ h = [i \in 0..n |-> h[i]]
    /\ h[0] = base
    /\ \A i \in 1..n : h[i] = FoldStep(d, h[i - 1], s[i])

\* iter is the function that folds s over the subsets of the set D of positions.
IsIter(d, base, s, D, iter) ==
    iter = [t \in SUBSET D |->
              IF t = {} THEN base ELSE FoldStep(d, iter[t \ {Largest(t)}], s[Largest(t)])]

\* Of the numbers up to k + 1, the largest of a set that has k + 1 is k + 1.
LEMMA MaxTop ==
    ASSUME NEW k \in Nat, NEW s \in SUBSET (1..(k + 1)), k + 1 \in s
    PROVE  Largest(s) = k + 1
  <1>1. \A y \in s : y \in Int /\ k + 1 >= y
    OBVIOUS
  <1>2. \A x \in s : (\A y \in s : x >= y) => x = k + 1
    BY <1>1
  <1> QED BY <1>1, <1>2 DEF Largest

\* There is such a function.
LEMMA IterExists ==
    ASSUME NEW d, NEW base, NEW s, NEW n \in Nat
    PROVE  \E iter : IsIter(d, base, s, 1..n, iter)
<1> USE DEF IsIter
<1> DEFINE Good(iter, k) == IsIter(d, base, s, 1..k, iter)
           S == {k \in Nat : \E iter : Good(iter, k)}
<1>1. 0 \in S
  <2> DEFINE it == [t \in SUBSET (1..0) |-> base]
  <2>1. \A t \in SUBSET (1..0) : t = {}
    OBVIOUS
  <2>2. Good(it, 0)
    BY <2>1
  <2> QED BY <2>2
<1>2. ASSUME NEW k \in Nat, k \in S PROVE k + 1 \in S
  <2>1. PICK old : Good(old, k)
    BY <1>2
  <2> DEFINE new == [t \in SUBSET (1..(k + 1)) |->
                        IF k + 1 \in t THEN FoldStep(d, old[t \ {k + 1}], s[k + 1]) ELSE old[t]]
  <2>2. \A t \in SUBSET (1..(k + 1)) : k + 1 \notin t => t \in SUBSET (1..k)
    OBVIOUS
  <2>3. \A t \in SUBSET (1..k) : new[t] = old[t]
    OBVIOUS
  <2>4. ASSUME NEW t \in SUBSET (1..(k + 1))
        PROVE  new[t] = IF t = {} THEN base ELSE FoldStep(d, new[t \ {Largest(t)}], s[Largest(t)])
    <3>1. CASE k + 1 \in t
      <4>1. Largest(t) = k + 1
        BY <3>1, MaxTop
      <4>2. t \ {k + 1} \in SUBSET (1..k)
        OBVIOUS
      <4>3. new[t \ {k + 1}] = old[t \ {k + 1}]
        BY <4>2, <2>3
      <4>4. new[t] = FoldStep(d, old[t \ {k + 1}], s[k + 1])
        BY <3>1
      <4> HIDE DEF new
      <4> QED
        BY <4>1, <4>3, <4>4, <3>1
    <3>2. CASE k + 1 \notin t
      <4>1. t \in SUBSET (1..k)
        BY <3>2, <2>2
      <4>2. new[t] = old[t]
        BY <4>1, <2>3
      <4>3. old[t] = IF t = {} THEN base ELSE FoldStep(d, old[t \ {Largest(t)}], s[Largest(t)])
        BY <4>1, <2>1
      <4>4. t \ {Largest(t)} \in SUBSET (1..k)
        BY <4>1
      <4>5. new[t \ {Largest(t)}] = old[t \ {Largest(t)}]
        BY <4>4, <2>3
      <4> HIDE DEF new
      <4> QED
        BY <4>2, <4>3, <4>5
    <3> QED BY <3>1, <3>2
  <2>5. new = [t \in SUBSET (1..(k + 1)) |-> new[t]]
    OBVIOUS
  <2>6. Good(new, k + 1)
    <3> HIDE DEF new
    <3> QED BY <2>4, <2>5
  <2> HIDE DEF new, Good
  <2> QED BY <2>6
<1>3. n \in S
  <2> HIDE DEF S
  <2> QED BY <1>1, <1>2, NatSet
<1>4. \E iter : Good(iter, n)
  BY <1>3
<1> QED BY <1>4

\* The value of a fold is the last of a list of steps.
THEOREM FoldSteps ==
    ASSUME NEW d, NEW base, NEW s, NEW n \in Nat, DOMAIN s = 1..n
    PROVE  \E h : Steps(d, base, s, n, h) /\ Fold(d, base, s) = h[n]
<1> DEFINE chosen == CHOOSE iter : IsIter(d, base, s, DOMAIN s, iter)
           h == [i \in 0..n |-> chosen[1..i]]
<1>1. IsIter(d, base, s, DOMAIN s, chosen)
  <2>1. \E iter : IsIter(d, base, s, DOMAIN s, iter)
    BY IterExists
  <2> QED BY <2>1
<1>2. Fold(d, base, s) = chosen[DOMAIN s]
  BY DEF Fold, IsIter
<1>3. h[0] = base
  <2>1. chosen[{}] = base
    BY <1>1 DEF IsIter
  <2>2. 1..0 = {}
    OBVIOUS
  <2> HIDE DEF chosen
  <2> QED BY <2>1, <2>2
<1>4. ASSUME NEW i \in 1..n PROVE h[i] = FoldStep(d, h[i - 1], s[i])
  <2>1. Largest(1..i) = i /\ 1..i # {} /\ (1..i) \ {i} = 1..(i - 1)
    <3>1. i - 1 \in Nat /\ (i - 1) + 1 = i /\ i \in 1..i
      OBVIOUS
    <3>2. Largest(1..i) = i
      <4> DEFINE j == i - 1
      <4>1. j \in Nat /\ 1..i \in SUBSET (1..(j + 1)) /\ j + 1 \in 1..i
        BY <3>1
      <4> HIDE DEF j
      <4>2. Largest(1..i) = j + 1
        BY <4>1, MaxTop
      <4> QED BY <4>2, <3>1 DEF j
    <3>3. (1..i) \ {i} = 1..(i - 1)
      BY <3>1
    <3> QED BY <3>1, <3>2, <3>3
  <2>2. 1..i \in SUBSET (DOMAIN s)
    OBVIOUS
  <2>3. chosen[1..i] = FoldStep(d, chosen[(1..i) \ {i}], s[i])
    BY <1>1, <2>1, <2>2 DEF IsIter
  <2>4. i \in 0..n /\ i - 1 \in 0..n
    OBVIOUS
  <2>5. h[i] = chosen[1..i] /\ h[i - 1] = chosen[1..(i - 1)]
    BY <2>4
  <2> HIDE DEF chosen, h
  <2> QED BY <2>1, <2>3, <2>5
<1>5. Fold(d, base, s) = h[n]
  <2> HIDE DEF chosen
  <2> QED BY <1>2
<1>6. h = [i \in 0..n |-> h[i]]
  OBVIOUS
<1> HIDE DEF h
<1> QED BY <1>3, <1>4, <1>5, <1>6 DEF Steps

\* There is one list of steps.
LEMMA StepsUnique ==
    ASSUME NEW d, NEW base, NEW s, NEW n \in Nat, NEW h, Steps(d, base, s, n, h),
           NEW g, Steps(d, base, s, n, g)
    PROVE  h[n] = g[n]
<1> DEFINE S == {i \in Nat : i \in 0..n => h[i] = g[i]}
<1>1. 0 \in S
  BY DEF Steps
<1>2. ASSUME NEW i \in Nat, i \in S PROVE i + 1 \in S
  <2> SUFFICES ASSUME i + 1 \in 0..n PROVE h[i + 1] = g[i + 1]
    OBVIOUS
  <2>1. h[i] = g[i] /\ i + 1 \in 1..n /\ (i + 1) - 1 = i
    BY <1>2
  <2>2. h[i + 1] = FoldStep(d, h[(i + 1) - 1], s[i + 1]) /\ g[i + 1] = FoldStep(d, g[(i + 1) - 1], s[i + 1])
    BY <2>1 DEF Steps
  <2> QED
    BY <2>1, <2>2
<1>3. Nat \subseteq S
  <2> HIDE DEF S
  <2> QED BY <1>1, <1>2, NatSet
<1> QED BY <1>3

\* Nothing to fold leaves the base.
THEOREM FoldEmpty ==
    ASSUME NEW d, NEW base
    PROVE  Fold(d, base, <<>>) = base
<1>1. PICK h : Steps(d, base, <<>>, 0, h) /\ Fold(d, base, <<>>) = h[0]
  <2>1. DOMAIN <<>> = 1..0
    OBVIOUS
  <2> QED BY <2>1, FoldSteps
<1> QED BY <1>1 DEF Steps

\* A sequence is folded by folding its front and then its rest.
THEOREM FoldConcat ==
    ASSUME NEW d, NEW base, NEW T, NEW s \in Seq(T), NEW r \in Seq(T)
    PROVE  Fold(d, base, s \o r) = Fold(d, Fold(d, base, s), r)
<1> DEFINE n == Len(s)
           m == Len(r)
           q == s \o r
<1>1. n \in Nat /\ m \in Nat /\ DOMAIN s = 1..n /\ DOMAIN r = 1..m
      /\ DOMAIN q = 1..(n + m) /\ n + m \in Nat
  OBVIOUS
<1>2. (\A i \in 1..n : s[i] = q[i + 0]) /\ (\A i \in 1..m : r[i] = q[i + n])
  OBVIOUS
<1> DEFINE k == n + m
<1>3. k \in Nat /\ n \in 0..k /\ 0 \in 0..k /\ n + 0 <= k /\ m + n <= k
      /\ n \in 0..n /\ m \in 0..m /\ n + 0 = n /\ m + n = k /\ DOMAIN q = 1..k
  BY <1>1
<1> HIDE DEF n, m, q, k
<1>4. PICK h : Steps(d, base, s, n, h) /\ Fold(d, base, s) = h[n]
  BY <1>1, FoldSteps
<1>5. PICK g : Steps(d, base, q, k, g) /\ Fold(d, base, q) = g[k]
  BY <1>3, FoldSteps
<1>6. PICK f : Steps(d, h[n], r, m, f) /\ Fold(d, h[n], r) = f[m]
  BY <1>1, FoldSteps
<1> DEFINE front == [i \in 0..n |-> g[i]]
           rest == [i \in 0..m |-> g[i + n]]
<1>7. \A i \in 1..n : front[i] = FoldStep(d, front[i - 1], s[i])
  <2> SUFFICES ASSUME NEW i \in 1..n PROVE front[i] = FoldStep(d, front[i - 1], s[i])
    OBVIOUS
  <2>1. i \in 1..k /\ i - 1 \in 0..n /\ i \in 0..n /\ i + 0 = i
    BY <1>1, <1>3
  <2>2. g[i] = FoldStep(d, g[i - 1], q[i])
    BY <1>5, <2>1 DEF Steps
  <2>3. front[i] = g[i] /\ front[i - 1] = g[i - 1] /\ s[i] = q[i]
    BY <1>2, <2>1
  <2> HIDE DEF front
  <2> QED BY <2>2, <2>3
<1>8. \A i \in 1..m : rest[i] = FoldStep(d, rest[i - 1], r[i])
  <2> SUFFICES ASSUME NEW i \in 1..m PROVE rest[i] = FoldStep(d, rest[i - 1], r[i])
    OBVIOUS
  <2>1. i + n \in 1..k /\ i - 1 \in 0..m /\ i \in 0..m /\ (i - 1) + n = (i + n) - 1
    BY <1>1, <1>3
  <2>2. g[i + n] = FoldStep(d, g[(i + n) - 1], q[i + n])
    BY <1>5, <2>1 DEF Steps
  <2>3. rest[i] = g[i + n] /\ rest[i - 1] = g[(i - 1) + n] /\ r[i] = q[i + n]
    BY <1>2, <2>1
  <2> HIDE DEF rest
  <2> QED BY <2>1, <2>2, <2>3
<1>9. front[0] = base /\ front[n] = g[n] /\ rest[0] = g[n] /\ rest[m] = g[k]
      /\ front = [i \in 0..n |-> front[i]] /\ rest = [i \in 0..m |-> rest[i]]
  BY <1>1, <1>3, <1>5 DEF Steps
<1> HIDE DEF front, rest
<1>10. Steps(d, base, s, n, front) /\ h[n] = g[n]
  <2>1. Steps(d, base, s, n, front)
    BY <1>7, <1>9 DEF Steps
  <2> QED BY <1>1, <1>4, <1>9, <2>1, StepsUnique
<1>11. f[m] = g[k]
  <2>1. Steps(d, h[n], r, m, rest)
    BY <1>8, <1>9, <1>10 DEF Steps
  <2> QED BY <1>1, <1>6, <1>9, <2>1, StepsUnique
<1> QED BY <1>4, <1>5, <1>6, <1>11 DEF q

\* A fold over one element is one step.
THEOREM FoldOne ==
    ASSUME NEW d, NEW base, NEW x
    PROVE  Fold(d, base, <<x>>) = FoldStep(d, base, x)
<1> DEFINE s == <<x>>
           n == 1
<1>1. DOMAIN s = 1..n /\ s[1] = x /\ n \in Nat
  OBVIOUS
<1> HIDE DEF s, n
<1>2. PICK h : Steps(d, base, s, n, h) /\ Fold(d, base, s) = h[n]
  BY <1>1, FoldSteps
<1>3. h[1] = FoldStep(d, base, x)
  <2>1. 1 \in 1..n /\ 1 - 1 = 0
    BY DEF n
  <2> QED BY <1>1, <1>2, <2>1 DEF Steps
<1> QED BY <1>2, <1>3 DEF s, n

\* What the base has and every step keeps, the value of the fold has.
THEOREM FoldInvariant ==
    ASSUME NEW d, NEW base, NEW s, NEW n \in Nat, DOMAIN s = 1..n, NEW T,
           base \in T, \A acc \in T, i \in 1..n : FoldStep(d, acc, s[i]) \in T
    PROVE  Fold(d, base, s) \in T
<1>1. PICK h : Steps(d, base, s, n, h) /\ Fold(d, base, s) = h[n]
  BY FoldSteps
<1> DEFINE S == {i \in Nat : i \in 0..n => h[i] \in T}
<1>2. 0 \in S
  BY <1>1 DEF Steps
<1>3. ASSUME NEW i \in Nat, i \in S PROVE i + 1 \in S
  <2> SUFFICES ASSUME i + 1 \in 0..n PROVE h[i + 1] \in T
    OBVIOUS
  <2>1. h[i] \in T /\ (i + 1) - 1 = i /\ i + 1 \in 1..n
    BY <1>3
  <2>2. h[i + 1] = FoldStep(d, h[(i + 1) - 1], s[i + 1])
    BY <1>1, <2>1 DEF Steps
  <2> QED BY <2>1, <2>2
<1>4. Nat \subseteq S
  <2> HIDE DEF S
  <2> QED BY <1>2, <1>3, NatSet
<1> QED BY <1>1, <1>4

\* The same with a property of its own for every number of steps.
THEOREM FoldIndexed ==
    ASSUME NEW d, NEW base, NEW s, NEW n \in Nat, DOMAIN s = 1..n, NEW T,
           base \in T[0], \A i \in 1..n : \A acc \in T[i - 1] : FoldStep(d, acc, s[i]) \in T[i]
    PROVE  Fold(d, base, s) \in T[n]
<1>1. PICK h : Steps(d, base, s, n, h) /\ Fold(d, base, s) = h[n]
  BY FoldSteps
<1> DEFINE S == {i \in Nat : h[i] \in T[i]}
<1>2. 0 \in S
  BY <1>1 DEF Steps
<1>3. ASSUME NEW i \in 0..(n - 1), i \in S PROVE i + 1 \in S
  <2>1. i + 1 \in 1..n /\ (i + 1) - 1 = i /\ i + 1 \in Nat
    OBVIOUS
  <2>2. h[i + 1] = FoldStep(d, h[i], s[i + 1])
    BY <1>1, <2>1 DEF Steps
  <2>3. h[i] \in T[i]
    BY <1>3
  <2>4. FoldStep(d, h[i], s[i + 1]) \in T[i + 1]
    BY <2>1, <2>3
  <2> QED BY <2>1, <2>2, <2>4
<1>4. 0..n \subseteq S
  <2> HIDE DEF S
  <2> QED BY <1>2, <1>3, NatSetTo
<1> QED BY <1>1, <1>4

\* Two parameters that no step tells apart give the same value.
THEOREM FoldSame ==
    ASSUME NEW d, NEW e, NEW base, NEW s, NEW n \in Nat, DOMAIN s = 1..n,
           \A i \in 1..n : \A acc : FoldStep(d, acc, s[i]) = FoldStep(e, acc, s[i])
    PROVE  Fold(d, base, s) = Fold(e, base, s)
<1>1. PICK h : Steps(d, base, s, n, h) /\ Fold(d, base, s) = h[n]
  BY FoldSteps
<1>2. PICK g : Steps(e, base, s, n, g) /\ Fold(e, base, s) = g[n]
  BY FoldSteps
<1>3. Steps(d, base, s, n, g)
  BY <1>2 DEF Steps
<1>4. h[n] = g[n]
  BY <1>1, <1>3, StepsUnique
<1> QED BY <1>1, <1>2, <1>4
=============================================================================

--------------------------- MODULE BlockDagProofs ---------------------------
(***************************************************************************)
(* Proofs about module BlockDag, for every k, every set of ids, works,     *)
(* timestamps and policies and dags of any size: the linearization is      *)
(* topological, its tail is the virtual mergeset, a snapshot restores the  *)
(* dag, and the order of arrival is irrelevant.                            *)
(***************************************************************************)
EXTENDS BlockDag, DagTheorems, SequenceTheorems

----------------------------------------------------------------------------
(***************************************************************************)
(* Retargeting computes a number.                                          *)
(***************************************************************************)

\* The larger and the smaller of two numbers.
LEMMA MaxMin ==
    ASSUME NEW a \in Int, NEW b \in Int
    PROVE  /\ Max({a, b}) = IF a >= b THEN a ELSE b
           /\ Min({a, b}) = IF a <= b THEN a ELSE b
  BY DEF Max, Min

\* They are naturals if both are.
LEMMA MaxMinNat ==
    ASSUME NEW a \in Nat, NEW b \in Nat
    PROVE  Max({a, b}) \in Nat /\ Min({a, b}) \in Nat
  <1>1. a \in Int /\ b \in Int
    OBVIOUS
  <1> QED
    BY <1>1, MaxMin

\* So is a quotient.
LEMMA QuotientNat ==
    ASSUME NEW a \in Nat, NEW b \in Nat \ {0}
    PROVE  a \div b \in Nat
  OBVIOUS

Samples == [timestamp : Nat, work : Nat]

AddSaturated(d, sum, s) == Saturated(MaxWork, sum + s.work)
Averaging == INSTANCE DataTheorems WITH FoldStep <- AddSaturated

\* The largest numbers are numbers.
LEMMA Widths == MaxTime \in Nat /\ MaxWork \in Nat
  <1>1. Base \in Nat /\ Base >= 2
    BY BaseAssumption
  <1>2. Base * Base \in Nat /\ Base * Base >= 1
    BY <1>1
  <1> QED
    BY <1>1, <1>2 DEF MaxTime, MaxWork

\* What saturates stays a number.
LEMMA SaturatedNat ==
    ASSUME NEW n \in Nat
    PROVE  Saturated(MaxWork, n) \in Nat /\ Saturated(MaxTime, n) \in Nat
  BY Widths, MaxMinNat DEF Saturated

\* What max(1) makes positive is a positive number.
LEMMA PositiveNat ==
    ASSUME NEW n \in Int
    PROVE  Positive(n) \in Nat \ {0}
  <1>1. 1 \in Int
    OBVIOUS
  <1>2. Positive(n) = IF n >= 1 THEN n ELSE 1
    BY <1>1, MaxMin DEF Positive
  <1> QED
    BY <1>2

\* The average of works is one.
LEMMA AverageNat ==
    ASSUME NEW samples \in Seq(Samples), samples # <<>>
    PROVE  AverageWork(samples) \in Nat
  <1> DEFINE sum == Averaging!Fold(0, 0, samples)
  <1>1. \A n \in Nat, i \in 1..Len(samples) : AddSaturated(0, n, samples[i]) \in Nat
    <2> SUFFICES ASSUME NEW n \in Nat, NEW i \in 1..Len(samples) PROVE AddSaturated(0, n, samples[i]) \in Nat
      OBVIOUS
    <2>1. samples[i] \in Samples
      OBVIOUS
    <2>2. samples[i].work \in Nat
      BY <2>1 DEF Samples
    <2>3. n + samples[i].work \in Nat
      BY <2>2
    <2> QED BY <2>3, SaturatedNat DEF AddSaturated
  <1>2. sum \in Nat
    <2>1. Len(samples) \in Nat /\ DOMAIN samples = 1..Len(samples) /\ 0 \in Nat
      OBVIOUS
    <2> QED BY <1>1, <2>1, Averaging!FoldInvariant
  <1>3. AverageWork(samples) = sum \div Len(samples)
    BY DEF AverageWork, AddSaturated, Averaging!Fold, FoldLeft, MapThenFoldSet, Max, Averaging!Largest
  <1>4. Len(samples) \in Nat \ {0}
    OBVIOUS
  <1> HIDE DEF sum
  <1> QED
    BY <1>2, <1>3, <1>4

\* So is the retargeted work.
LEMMA RetargetedNat ==
    ASSUME NEW retarget \in [target_interval : Nat, window : Nat, max_factor : Nat, min_work : Nat],
           NEW samples \in Seq(Samples), samples # <<>>
    PROVE  Retargeted(retarget, samples) \in Nat
  <1> DEFINE avg == AverageWork(samples)
             factor == Positive(retarget.max_factor)
             expected == Expected(retarget, samples)
             actual == Actual(samples)
             scaled == Saturated(MaxWork, avg * expected) \div actual
             lower == Max({avg \div factor, retarget.min_work})
             upper == Max({Saturated(MaxWork, avg * factor), retarget.min_work})
             clamped == Max({lower, Min({scaled, upper})})
  <1>1. avg \in Nat
    BY AverageNat
  <1>2. retarget.max_factor \in Nat /\ retarget.target_interval \in Nat /\ retarget.min_work \in Nat
    OBVIOUS
  <1>3. factor \in Nat \ {0}
    BY <1>2, PositiveNat
  <1>4. expected \in Nat \ {0}
    <2>1. Len(samples) - 1 \in Nat
      OBVIOUS
    <2>2. (Len(samples) - 1) * retarget.target_interval \in Nat
      BY <1>2, <2>1
    <2>3. Saturated(MaxTime, (Len(samples) - 1) * retarget.target_interval) \in Nat
      BY <2>2, SaturatedNat
    <2> QED BY <2>3, PositiveNat DEF Expected
  <1>5. actual \in Nat \ {0}
    <2> DEFINE first == Head(samples).timestamp
               last == Last(samples).timestamp
    <2>1. Head(samples) \in Samples /\ Last(samples) \in Samples
      BY DEF Last
    <2>2. first \in Nat /\ last \in Nat
      BY <2>1 DEF Samples
    <2> HIDE DEF first, last
    <2>3. last - first \in Int /\ 0 \in Int
      BY <2>2
    <2>4. Max({0, last - first}) \in Int
      BY <2>3, MaxMin
    <2> QED BY <2>4, PositiveNat DEF Actual, first, last
  <1> HIDE DEF avg, factor, expected, actual
  <1>6. avg * expected \in Nat /\ avg * factor \in Nat
    BY <1>1, <1>3, <1>4
  <1>7. Saturated(MaxWork, avg * expected) \in Nat /\ Saturated(MaxWork, avg * factor) \in Nat
    BY <1>6, SaturatedNat
  <1>8. scaled \in Nat /\ avg \div factor \in Nat
    BY <1>1, <1>3, <1>5, <1>7, QuotientNat
  <1>9. lower \in Nat /\ upper \in Nat
    BY <1>2, <1>8, <1>7, MaxMinNat
  <1>10. Min({scaled, upper}) \in Nat
    BY <1>8, <1>9, MaxMinNat
  <1>11. Retargeted(retarget, samples) = Max({clamped, retarget.min_work})
    BY DEF Retargeted, Clamp, avg, factor, expected, actual
  <1> HIDE DEF scaled, lower, upper
  <1>12. clamped \in Nat
    BY <1>9, <1>10, MaxMinNat
  <1> HIDE DEF clamped
  <1> QED
    BY <1>2, <1>11, <1>12, MaxMinNat

\* The end of a sequence is one.
LEMMA WindowSeq ==
    ASSUME NEW T, NEW s \in Seq(T), NEW w \in Nat
    PROVE  SubSeq(s, Max({1, Len(s) - w}), Len(s)) \in Seq(T)
  <1> DEFINE m == Max({1, Len(s) - w})
  <1>1. Len(s) \in Nat /\ 1 \in Int /\ Len(s) - w \in Int
    OBVIOUS
  <1>2. m = IF 1 >= Len(s) - w THEN 1 ELSE Len(s) - w
    BY <1>1, MaxMin
  <1>3. m \in 1..(Len(s) + 1) /\ Len(s) \in (m - 1)..Len(s)
    BY <1>1, <1>2
  <1> HIDE DEF m
  <1>4. SubSeq(s, m, Len(s)) \in Seq(T)
    BY <1>3, SubSeqProperties
  <1> QED
    BY <1>4 DEF m

\* The next work is a number.
LEMMA NextWorkNat ==
    ASSUME NEW retarget \in [target_interval : Nat, window : Nat, max_factor : Nat, min_work : Nat],
           NEW samples \in Seq(Samples)
    PROVE  NextWork(retarget, samples) \in Nat
  <1> DEFINE recent == Recent(retarget, samples)
  <1>1. recent \in Seq(Samples)
    BY WindowSeq DEF Recent
  <1> HIDE DEF recent
  <1>2. CASE Len(recent) < 2
    BY <1>2 DEF NextWork, recent
  <1>3. CASE ~(Len(recent) < 2)
    <2>1. recent # <<>>
      BY <1>1, <1>3
    <2>2. NextWork(retarget, samples) = Retargeted(retarget, recent)
      BY <1>3 DEF NextWork, recent
    <2> QED BY <1>1, <2>1, <2>2, RetargetedNat
  <1> QED
    BY <1>2, <1>3

----------------------------------------------------------------------------
(***************************************************************************)
(* The samples of a chain.                                                 *)
(***************************************************************************)
Sample(D, b) == [timestamp |-> D.nodes[b].block.timestamp, work |-> Work(D, b)]

\* The sample of b after those of its selected parent.
OnSamples(D, c, b) ==
    IF SelectedParent(D, b) = NoBlock THEN <<Sample(D, b)>>
    ELSE Append(c[SelectedParent(D, b)], Sample(D, b))

\* The recursive function that collects them, as a fact about c.
IsSamples(D, c) == c = [b \in Blocks(D) |-> OnSamples(D, c, b)]

\* A sample of every block of a chain.
SamplesOf(D, chain) == [i \in DOMAIN chain |-> Sample(D, chain[i])]

\* The samples of the chain that ends in b.
SamplesTo(D, b) == SamplesOf(D, ChainTo(D, b))

\* The samples along a chain follow the chain.
LEMMA SamplesStep ==
    ASSUME NEW D, DagOK(D), NEW b \in Blocks(D)
    PROVE  SamplesTo(D, b) =
             IF b = GenesisId THEN <<Sample(D, b)>>
             ELSE Append(SamplesTo(D, SelectedParent(D, b)), Sample(D, b))
  <1> DEFINE sp == SelectedParent(D, b)
             c == ChainTo(D, sp)
             x == Sample(D, b)
  <1>1. CASE b = GenesisId
    <2>1. ChainTo(D, b) = <<b>>
      BY <1>1, ChainStep
    <2>2. SamplesOf(D, <<b>>) = <<Sample(D, b)>>
      BY DEF SamplesOf
    <2> QED BY <1>1, <2>1, <2>2 DEF SamplesTo
  <1>2. CASE b # GenesisId
    <2>1. ChainTo(D, b) = Append(c, b) /\ sp \in Blocks(D)
      BY <1>2, ChainStep, ParentSelected
    <2>2. c \in Seq(Blocks(D))
      BY <2>1, ChainLinked DEF Linked
    <2> HIDE DEF c, x
    <2> DEFINE n == Len(c)
               e == Append(c, b)
               f == SamplesOf(D, c)
    <2>3. n \in Nat /\ DOMAIN c = 1..n /\ DOMAIN e = 1..(n + 1) /\ e[n + 1] = b
          /\ \A i \in 1..n : e[i] = c[i]
      BY <2>2
    <2> HIDE DEF n, e
    <2>4. f = [i \in 1..n |-> Sample(D, c[i])]
      BY <2>3 DEF SamplesOf
    <2> DEFINE T == {Sample(D, c[i]) : i \in 1..n} \cup {x}
    <2>5. f \in Seq(T) /\ Len(f) = n /\ x \in T
      BY <2>3, <2>4
    <2> HIDE DEF T
    <2>6. Append(f, x) = [i \in 1..(n + 1) |-> IF i = n + 1 THEN x ELSE f[i]]
      <3> HIDE DEF f
      <3> DEFINE g == Append(f, x)
      <3>1. g \in Seq(T) /\ Len(g) = n + 1 /\ g[n + 1] = x /\ \A i \in 1..n : g[i] = f[i]
        BY <2>3, <2>5
      <3> HIDE DEF g
      <3>2. g = [i \in 1..(n + 1) |-> g[i]]
        BY <2>3, <3>1
      <3>3. \A i \in 1..(n + 1) : i = n + 1 \/ i \in 1..n
        BY <2>3
      <3>4. \A i \in 1..(n + 1) : g[i] = IF i = n + 1 THEN x ELSE f[i]
        BY <3>1, <3>3
      <3> QED BY <3>2, <3>4 DEF g
    <2>7. SamplesOf(D, e) = [i \in 1..(n + 1) |-> Sample(D, e[i])]
      BY <2>3 DEF SamplesOf
    <2>8. \A i \in 1..(n + 1) : Sample(D, e[i]) = IF i = n + 1 THEN x ELSE f[i]
      <3> HIDE DEF f
      <3>1. \A i \in 1..(n + 1) : i = n + 1 \/ i \in 1..n
        BY <2>3
      <3>2. \A i \in 1..n : f[i] = Sample(D, c[i])
        BY <2>4
      <3> QED BY <2>3, <3>1, <3>2 DEF x
    <2>9. SamplesOf(D, e) = Append(f, x)
      <3> HIDE DEF f
      <3> QED BY <2>6, <2>7, <2>8
    <2> QED BY <1>2, <2>1, <2>9 DEF SamplesTo, c, e, x
  <1> QED
    BY <1>1, <1>2

\* ChainSamples takes its window from them.
LEMMA ChainSamplesOf ==
    ASSUME NEW D, DagOK(D), NEW tip \in Blocks(D), NEW w
    PROVE  ChainSamples(D, tip, w) =
             SubSeq(SamplesTo(D, tip), Max({1, Len(SamplesTo(D, tip)) - w}), Len(SamplesTo(D, tip)))
  <1> DEFINE c == CHOOSE c : IsSamples(D, c)
             f == [b \in Blocks(D) |-> SamplesTo(D, b)]
  <1>1. \A b \in Blocks(D) : /\ SelectedParent(D, b) = NoBlock <=> b = GenesisId
                             /\ b # GenesisId => SelectedParent(D, b) \in Blocks(D)
    BY ParentSelected
  <1>2. \A b \in Blocks(D) : f[b] = OnSamples(D, f, b)
    <2> SUFFICES ASSUME NEW b \in Blocks(D) PROVE f[b] = OnSamples(D, f, b)
      OBVIOUS
    <2>1. CASE b = GenesisId
      BY <1>1, <2>1, SamplesStep DEF OnSamples
    <2>2. CASE b # GenesisId
      <3>1. f[SelectedParent(D, b)] = SamplesTo(D, SelectedParent(D, b))
        BY <1>1, <2>2
      <3> QED BY <1>1, <2>2, <3>1, SamplesStep DEF OnSamples
    <2> QED BY <2>1, <2>2
  <1>3. f = [b \in Blocks(D) |-> f[b]]
    OBVIOUS
  <1>4. IsSamples(D, f)
    <2> HIDE DEF f
    <2> QED BY <1>2, <1>3 DEF IsSamples
  <1>5. IsSamples(D, c)
    <2> HIDE DEF f
    <2> QED BY <1>4
  <1> HIDE DEF c
  <1> DEFINE S == {n \in Nat : \A b \in Blocks(D) : PastSize(D, b) = n => c[b] = SamplesTo(D, b)}
  <1>6. ASSUME NEW n \in Nat, \A m \in 0..(n - 1) : m \in S PROVE n \in S
    <2> SUFFICES ASSUME NEW b \in Blocks(D), PastSize(D, b) = n PROVE c[b] = SamplesTo(D, b)
      OBVIOUS
    <2>1. c[b] = OnSamples(D, c, b)
      BY <1>5 DEF IsSamples
    <2>2. CASE b = GenesisId
      BY <1>1, <2>1, <2>2, SamplesStep DEF OnSamples
    <2>3. CASE b # GenesisId
      <3>1. SelectedParent(D, b) \in Blocks(D) /\ PastSize(D, SelectedParent(D, b)) < n
        BY <2>3, ParentSelected
      <3>2. PastSize(D, SelectedParent(D, b)) \in 0..(n - 1)
        BY <3>1, PastSizes
      <3>3. c[SelectedParent(D, b)] = SamplesTo(D, SelectedParent(D, b))
        BY <1>6, <3>1, <3>2
      <3> QED BY <1>1, <2>1, <2>3, <3>3, SamplesStep DEF OnSamples
    <2> QED BY <2>2, <2>3
  <1>7. Nat \subseteq S
    <2> HIDE DEF S
    <2> QED BY <1>6, NatSetStrong
  <1>8. c[tip] = SamplesTo(D, tip)
    BY <1>7, PastSizes
  <1>9. ChainSamples(D, tip, w) = SubSeq(c[tip], Max({1, Len(c[tip]) - w}), Len(c[tip]))
    BY DEF ChainSamples, c, IsSamples, OnSamples, Sample, SelectedParent
  <1> QED
    BY <1>8, <1>9

\* Every block has a time and a work.
Timed(D) == \A b \in Blocks(D) : D.nodes[b].block.timestamp \in Nat /\ Work(D, b) \in Nat

\* Then the samples are numbers, and so is the target of any parents.
LEMMA TargetNat ==
    ASSUME NEW D, DagOK(D), Timed(D), NEW tip \in Blocks(D),
           NEW retarget \in [target_interval : Nat, window : Nat, max_factor : Nat, min_work : Nat]
    PROVE  NextWork(retarget, ChainSamples(D, tip, retarget.window)) \in Nat
  <1> DEFINE c == ChainTo(D, tip)
             s == SamplesTo(D, tip)
  <1>1. c \in Seq(Blocks(D))
    BY ChainLinked DEF Linked
  <1>2. \A i \in DOMAIN c : Sample(D, c[i]) \in Samples
    <2>1. \A i \in DOMAIN c : c[i] \in Blocks(D)
      BY <1>1
    <2>2. \A b \in Blocks(D) : Sample(D, b) \in Samples
      BY DEF Sample, Samples, Timed
    <2> QED BY <2>1, <2>2
  <1>3. s \in Seq(Samples)
    <2>1. DOMAIN c = 1..Len(c) /\ Len(c) \in Nat
      BY <1>1
    <2>2. s = [i \in 1..Len(c) |-> Sample(D, c[i])]
      BY <2>1 DEF SamplesTo, SamplesOf
    <2>3. s \in [1..Len(c) -> Samples]
      BY <1>2, <2>1, <2>2
    <2> QED BY <2>1, <2>3
  <1>4. retarget.window \in Nat
    OBVIOUS
  <1>5. ChainSamples(D, tip, retarget.window) \in Seq(Samples)
    BY <1>3, <1>4, ChainSamplesOf, WindowSeq
  <1> QED
    BY <1>5, NextWorkNat

----------------------------------------------------------------------------
(***************************************************************************)
(* The invariant.                                                          *)
(***************************************************************************)

\* What every step keeps of the dag: its nodes are what insert derives from its blocks,
\* which have times and works.
DagInv ==
    /\ DagOK(dag) /\ Canonical(dag) /\ Timed(dag)
    /\ dag.nodes[GenesisId].block = GenesisBlock
    /\ difficulty \in Retargets \cup {NoDifficulty}

\* It holds of the first dag.
LEMMA InitDag == Init => DagInv
  <1> SUFFICES ASSUME Init PROVE DagInv
    OBVIOUS
  <1>1. dag = NewDag(GenesisBlock) /\ difficulty = NoDifficulty
    BY DEF Init
  <1>2. GenesisBlock.parents = {} /\ GenesisBlock.work = 1 /\ GenesisBlock.timestamp = 0
    BY DEF GenesisBlock
  <1>3. DagOK(dag) /\ Blocks(dag) = {GenesisId} /\ Canonical(dag)
        /\ dag.nodes[GenesisId].block = GenesisBlock
    BY <1>1, <1>2, NewDagOK, NewDagCanonical
  <1>4. Timed(dag)
    BY <1>2, <1>3 DEF Timed, Work
  <1> QED
    BY <1>1, <1>3, <1>4 DEF DagInv

\* A block that arrives has a work and a time.
LEMMA ArrivalTyped ==
    ASSUME DagInv, NEW id \in Ids, NEW ps \in ParentSets, NEW t \in Timestamps,
           NEW w \in Works \cup NextWorkTarget(dag, difficulty, ps)
    PROVE  id \in Nat \ {GenesisId} /\ t \in Nat /\ w \in Nat
  <1>1. id \in Nat \ {GenesisId} /\ t \in Nat /\ (w \in Works => w \in Nat)
    BY BlockDagAssumption
  <1>2. ASSUME w \in NextWorkTarget(dag, difficulty, ps) PROVE w \in Nat
    <2>1. difficulty # NoDifficulty
          /\ w = NextWork(difficulty, ChainSamples(dag, Heaviest(dag, ps), difficulty.window))
      BY <1>2 DEF NextWorkTarget
    <2>2. difficulty \in [target_interval : Nat, window : Nat, max_factor : Nat, min_work : Nat]
      BY <2>1, BlockDagAssumption DEF DagInv
    <2>3. Heaviest(dag, ps) \in Blocks(dag)
      BY HeaviestIn DEF ParentSets, DagInv
    <2> QED BY <2>1, <2>2, <2>3, TargetNat DEF DagInv
  <1> QED
    BY <1>1, <1>2

\* What an insertion does to the dag.
LEMMA InsertStep ==
    ASSUME DagInv, NEW id \in Nat \ {GenesisId}, NEW block, block.work \in Nat, block.timestamp \in Nat,
           Insert(id, block)
    PROVE  /\ DagInv' /\ CanInsert(dag, id, block)
           /\ Within(dag, dag') /\ Blocks(dag') = Blocks(dag) \cup {id}
           /\ dag'.nodes[id].block = block
  <1>1. CanInsert(dag, id, block) /\ dag' = InsertBlock(dag, id, block) /\ difficulty' = difficulty
    BY DEF Insert, Allowed
  <1>2. DagOK(dag) /\ Canonical(dag) /\ Timed(dag) /\ block.work \in Int
    BY DEF DagInv
  <1>3. DagOK(dag') /\ Canonical(dag')
    BY <1>1, <1>2, InsertKeeps, InsertCanonical
  <1>4. /\ Blocks(dag') = Blocks(dag) \cup {id} /\ Within(dag, dag')
        /\ dag'.nodes[id] = NodeFor(dag, block, Cardinality(PastOver(dag, block.parents)),
                                    ComputeGhostdag(dag, block.parents))
    BY <1>1, <1>2, InsertNodes
  <1>5. dag'.nodes[id].block = block
    BY <1>4 DEF NodeFor
  <1>6. Timed(dag')
    BY <1>2, <1>4, <1>5 DEF Timed, Within, Work
  <1>7. dag'.nodes[GenesisId].block = GenesisBlock
    BY <1>2, <1>4 DEF DagInv, DagOK, Within
  <1> QED
    BY <1>1, <1>3, <1>4, <1>5, <1>6, <1>7 DEF DagInv

\* A restored dag is the dag.
LEMMA RestoreSame ==
    ASSUME DagInv, Restore
    PROVE  dag' = dag /\ difficulty' = NoDifficulty /\ require_pow' = FALSE
  BY SnapshotIdentity DEF DagInv, Restore

\* Every step keeps the invariant.
LEMMA DagStep == DagInv /\ [Next]_vars => DagInv'
  <1> SUFFICES ASSUME DagInv, [Next]_vars PROVE DagInv'
    OBVIOUS
  <1>1. CASE InsertAny
    <2>1. PICK id \in Ids, ps \in ParentSets, t \in Timestamps :
              \E w \in Works \cup NextWorkTarget(dag, difficulty, ps) :
                  Insert(id, [parents |-> ps, work |-> w, timestamp |-> t])
      BY <1>1 DEF InsertAny
    <2>2. PICK w \in Works \cup NextWorkTarget(dag, difficulty, ps) :
              Insert(id, [parents |-> ps, work |-> w, timestamp |-> t])
      BY <2>1
    <2>3. id \in Nat \ {GenesisId} /\ t \in Nat /\ w \in Nat
      BY ArrivalTyped
    <2> DEFINE block == [parents |-> ps, work |-> w, timestamp |-> t]
    <2>4. block.work \in Nat /\ block.timestamp \in Nat /\ Insert(id, block)
      BY <2>2, <2>3
    <2> HIDE DEF block
    <2> QED BY <2>3, <2>4, InsertStep
  <1>2. CASE SetDifficulty
    BY <1>2 DEF SetDifficulty, DagInv
  <1>3. CASE SetProofOfWork
    BY <1>3 DEF SetProofOfWork, DagInv
  <1>4. CASE Restore
    BY <1>4, RestoreSame DEF DagInv
  <1>5. CASE UNCHANGED vars
    BY <1>5 DEF vars, DagInv
  <1> QED
    BY <1>1, <1>2, <1>3, <1>4, <1>5 DEF Next

\* The DAG of every state is one that insert builds.
LEMMA DagInvariance == Spec => []DagInv
  BY InitDag, DagStep, PTL DEF Spec

----------------------------------------------------------------------------
(***************************************************************************)
(* The theorems.                                                           *)
(***************************************************************************)

\* linearize emits every block once, after its parents, with the selected chain in
\* order, in every reachable dag (ordering.rs).
THEOREM LinearizationTopological == Spec => []LinearizeTopological
  <1>1. DagInv => LinearizeTopological
    <2> SUFFICES ASSUME DagInv PROVE LinearizeTopological
      OBVIOUS
    <2> DEFINE order == Linearize(dag)
               B == Blocks(dag)
               n == Cardinality(B)
               pos == [b \in B |-> CHOOSE i \in DOMAIN order : order[i] = b]
               chain == SelectedChain(dag)
    <2>1. DagOK(dag)
      BY DEF DagInv
    <2>2. Lists(dag, order, B)
      BY <2>1, LinearizeParts
    <2>3. order \in Seq(B) /\ Len(order) = n /\ Range(order) = B /\ n \in Nat
      BY <2>2, ListsSeq
    <2>4. /\ order \in [1..n -> B]
          /\ \A a \in B : \E i \in 1..n : order[i] = a
          /\ \A i, j \in 1..n : order[i] \in Past(dag, order[j]) => i < j
      BY <2>2 DEF Lists
    <2>5. \A b \in B : Parents(dag, b) \subseteq Past(dag, b) /\ Past(dag, b) \subseteq B
      BY <2>1 DEF DagOK, NodeOK
    <2>6. \A b \in B : pos[b] \in 1..n /\ order[pos[b]] = b
      <3> HIDE DEF order, n, B
      <3>1. DOMAIN order = 1..n
        BY <2>4
      <3> QED BY <2>4, <3>1
    <2> HIDE DEF pos
    <2>7. \A b \in B : \A a \in Past(dag, b) : pos[a] < pos[b]
      <3> HIDE DEF order, n, B
      <3> QED BY <2>4, <2>5, <2>6
    <2>8. \A i \in 2..Len(chain) : pos[chain[i - 1]] < pos[chain[i]]
      <3>1. SelectedTip(dag) \in B
        BY <2>1, LinearizeParts
      <3>2. Linked(dag, chain, SelectedTip(dag))
        BY <2>1, <3>1, ChainLinked, SelectedChainTo
      <3> HIDE DEF chain
      <3>3. ASSUME NEW i \in 2..Len(chain) PROVE chain[i - 1] \in Past(dag, chain[i]) /\ chain[i] \in B
        <4>1. chain \in Seq(B) /\ chain[i - 1] = SelectedParent(dag, chain[i]) /\ chain[i] # GenesisId
          BY <3>2 DEF Linked
        <4>2. chain[i] \in B
          <5>1. i \in 1..Len(chain)
            BY <4>1
          <5> QED BY <4>1, <5>1
        <4> QED BY <2>1, <4>1, <4>2, ParentSelected
      <3> QED BY <2>7, <3>3
    <2>9. \A b \in B : \A p \in Parents(dag, b) : pos[p] < pos[b]
      BY <2>5, <2>7
    <2> QED BY <2>3, <2>8, <2>9 DEF LinearizeTopological, pos
  <1> QED
    BY <1>1, DagInvariance, PTL

\* The tail of the linearization is the mergeset of the virtual block over all tips, in
\* every reachable dag (ordering.rs).
THEOREM TailVirtual == Spec => []TailIsVirtualMergeset
  <1>1. DagInv => TailIsVirtualMergeset
    BY LinearizeParts, TailMerged, SpineOfTip DEF DagInv, TailIsVirtualMergeset
  <1> QED
    BY <1>1, DagInvariance, PTL

\* A dag read from a snapshot is the dag that was written: the blocks, the data derived
\* of them and the tips, none refused in the new order (snapshot.rs).
THEOREM RestoreIsIdentity == Spec => [][Restore => dag' = dag]_vars
  <1>1. DagInv /\ [Next]_vars => [Restore => dag' = dag]_vars
    BY RestoreSame
  <1> QED
    BY <1>1, DagInvariance, PTL DEF Spec

----------------------------------------------------------------------------
(***************************************************************************)
(* The order of arrival.                                                   *)
(***************************************************************************)

\* The difficulty check of a block looks at its past alone.
LEMMA CheckWithin ==
    ASSUME NEW D, DagOK(D), NEW E, DagOK(E), Within(E, D), NEW retarget, NEW block,
           block.parents \in SUBSET Blocks(E), block.parents # {}
    PROVE  CheckDifficulty(E, retarget, block) <=> CheckDifficulty(D, retarget, block)
  <1> DEFINE sp == Heaviest(E, block.parents)
             c == ChainTo(E, sp)
  <1>1. sp = Heaviest(D, block.parents) /\ sp \in Blocks(E) /\ sp \in Blocks(D)
    BY HeaviestWithin, HeaviestIn DEF Within
  <1>2. c = ChainTo(D, sp) /\ c \in Seq(Blocks(E))
    BY <1>1, ChainWithin, ChainLinked DEF Linked
  <1>3. \A b \in Blocks(E) : E.nodes[b] = D.nodes[b] /\ Sample(E, b) = Sample(D, b)
    BY SameNodes DEF Sample
  <1>4. \A i \in DOMAIN c : c[i] \in Blocks(E)
    BY <1>2
  <1> HIDE DEF sp, c
  <1>5. SamplesOf(E, c) = SamplesOf(D, c)
    BY <1>3, <1>4 DEF SamplesOf
  <1>6. SamplesTo(E, sp) = SamplesTo(D, sp)
    BY <1>2, <1>5 DEF SamplesTo, c
  <1>7. ChainSamples(E, sp, retarget.window) = ChainSamples(D, sp, retarget.window)
    <2> DEFINE w == retarget.window
    <2> HIDE DEF w
    <2>1. ChainSamples(E, sp, w) =
            SubSeq(SamplesTo(E, sp), Max({1, Len(SamplesTo(E, sp)) - w}), Len(SamplesTo(E, sp)))
      BY <1>1, ChainSamplesOf
    <2>2. ChainSamples(D, sp, w) =
            SubSeq(SamplesTo(D, sp), Max({1, Len(SamplesTo(D, sp)) - w}), Len(SamplesTo(D, sp)))
      BY <1>1, ChainSamplesOf
    <2>3. ChainSamples(E, sp, w) = ChainSamples(D, sp, w)
      BY <1>6, <2>1, <2>2
    <2> QED BY <2>3 DEF w
  <1>8. \A p \in block.parents : E.nodes[p].block.timestamp = D.nodes[p].block.timestamp
    BY <1>3
  <1> QED
    BY <1>1, <1>7, <1>8 DEF CheckDifficulty, sp

\* The rules in force were in force for every block.
Enforced ==
    \A b \in NonGenesis :
        /\ difficulty # NoDifficulty => CheckDifficulty(dag, difficulty, BlockAt(b))
        /\ require_pow => MeetsTarget(b, BlockAt(b).work)

\* Rules are set before the first block, or dropped.
RulesFirst ==
    \/ UNCHANGED <<difficulty, require_pow>>
    \/ Blocks(dag) = {GenesisId} /\ dag' = dag
    \/ difficulty' = NoDifficulty /\ require_pow' = FALSE

\* Then they stay so.
LEMMA EnforcedStep == DagInv /\ Enforced /\ [Next]_vars /\ [RulesFirst]_vars => Enforced'
  <1> SUFFICES ASSUME DagInv, Enforced, [Next]_vars, [RulesFirst]_vars PROVE Enforced'
    OBVIOUS
  <1> USE DEF NonGenesis, BlockAt
  <1>1. CASE InsertAny
    <2>1. PICK id \in Ids, ps \in ParentSets, t \in Timestamps :
              \E w \in Works \cup NextWorkTarget(dag, difficulty, ps) :
                  Insert(id, [parents |-> ps, work |-> w, timestamp |-> t])
      BY <1>1 DEF InsertAny
    <2>2. PICK w \in Works \cup NextWorkTarget(dag, difficulty, ps) :
              Insert(id, [parents |-> ps, work |-> w, timestamp |-> t])
      BY <2>1
    <2>3. id \in Nat \ {GenesisId} /\ t \in Nat /\ w \in Nat
      BY ArrivalTyped
    <2> DEFINE block == [parents |-> ps, work |-> w, timestamp |-> t]
    <2>4. block.work \in Nat /\ block.timestamp \in Nat /\ Insert(id, block)
      BY <2>2, <2>3
    <2> HIDE DEF block
    <2>5. /\ DagInv' /\ CanInsert(dag, id, block)
          /\ Within(dag, dag') /\ Blocks(dag') = Blocks(dag) \cup {id} /\ dag'.nodes[id].block = block
      BY <2>3, <2>4, InsertStep
    <2>6. DagOK(dag) /\ DagOK(dag') /\ difficulty' = difficulty /\ require_pow' = require_pow
          /\ (difficulty # NoDifficulty => CheckDifficulty(dag, difficulty, block))
          /\ (require_pow => MeetsTarget(id, block.work))
      BY <2>4, <2>5 DEF DagInv, Insert, Allowed
    <2>7. ASSUME NEW b \in Blocks(dag') \ {GenesisId}
          PROVE  /\ difficulty # NoDifficulty => CheckDifficulty(dag', difficulty, dag'.nodes[b].block)
                 /\ require_pow => MeetsTarget(b, dag'.nodes[b].block.work)
      <3>1. CASE b = id
        <4>1. block.parents \in SUBSET Blocks(dag) /\ block.parents # {}
          BY <2>5 DEF CanInsert
        <4>2. CheckDifficulty(dag, difficulty, block) <=> CheckDifficulty(dag', difficulty, block)
          BY <2>5, <2>6, <4>1, CheckWithin
        <4> QED BY <2>5, <2>6, <3>1, <4>2
      <3>2. CASE b # id
        <4>1. b \in Blocks(dag) \ {GenesisId} /\ dag'.nodes[b] = dag.nodes[b]
          BY <2>5, <3>2 DEF Within
        <4> DEFINE old == dag.nodes[b].block
        <4>2. old.parents \in SUBSET Blocks(dag) /\ old.parents # {}
          BY <2>6, <4>1, PastParts, ParentSelected DEF Parents
        <4>3. CheckDifficulty(dag, difficulty, old) <=> CheckDifficulty(dag', difficulty, old)
          BY <2>5, <2>6, <4>2, CheckWithin
        <4> QED BY <4>1, <4>3 DEF Enforced
      <3> QED BY <3>1, <3>2
    <2> QED BY <2>6, <2>7 DEF Enforced
  <1>2. CASE UNCHANGED <<difficulty, require_pow>> /\ dag' = dag
    BY <1>2 DEF Enforced
  <1>3. CASE Blocks(dag) = {GenesisId} /\ dag' = dag
    BY <1>3 DEF Enforced
  <1>4. CASE difficulty' = NoDifficulty /\ require_pow' = FALSE
    BY <1>4 DEF Enforced
  <1>5. CASE SetDifficulty \/ SetProofOfWork
    <2>1. dag' = dag
      BY <1>5 DEF SetDifficulty, SetProofOfWork
    <2> QED BY <1>2, <1>3, <1>4, <2>1 DEF RulesFirst, vars
  <1>6. CASE Restore
    BY <1>4, <1>6 DEF Restore
  <1>7. CASE UNCHANGED vars
    BY <1>2, <1>7 DEF vars
  <1> QED
    BY <1>1, <1>5, <1>6, <1>7 DEF Next

\* One block of dag arrives at the dag A.
Arrive(d, A, id) ==
    IF A # Failed /\ Allowed(A, id, BlockAt(id)) THEN InsertBlock(A, id, BlockAt(id)) ELSE Failed
Arriving == INSTANCE DataTheorems WITH FoldStep <- Arrive

\* No block comes before one of its parents.
ParentsFirst(s) ==
    \A i \in DOMAIN s : Parents(dag, s[i]) \subseteq {GenesisId} \cup {s[j] : j \in 1..(i - 1)}

\* A block arrives at a dag of some of the others.
LEMMA ArriveStep ==
    ASSUME DagInv, Enforced, NEW A, NEW S, Grown(A, dag, S), NEW b \in Blocks(dag) \ S,
           b # GenesisId, Parents(dag, b) \subseteq S
    PROVE  Grown(Arrive(0, A, b), dag, S \cup {b})
  <1>1. DagOK(dag) /\ Canonical(dag) /\ DagOK(A) /\ Within(A, dag) /\ Blocks(A) = S
    BY DEF DagInv, Grown
  <1>2. CanInsert(A, b, BlockAt(b)) /\ Grown(InsertBlock(A, b, BlockAt(b)), dag, S \cup {b})
    BY <1>1, RegrowStep DEF BlockAt
  <1>3. BlockAt(b).parents \in SUBSET Blocks(A) /\ BlockAt(b).parents # {}
    BY <1>2 DEF CanInsert
  <1>4. difficulty # NoDifficulty => CheckDifficulty(A, difficulty, BlockAt(b))
    <2>1. CheckDifficulty(A, difficulty, BlockAt(b)) <=> CheckDifficulty(dag, difficulty, BlockAt(b))
      BY <1>1, <1>3, CheckWithin
    <2> QED BY <2>1 DEF Enforced, NonGenesis
  <1>5. require_pow => MeetsTarget(b, BlockAt(b).work)
    BY DEF Enforced, NonGenesis
  <1>6. Allowed(A, b, BlockAt(b))
    BY <1>2, <1>4, <1>5 DEF Allowed
  <1>7. A # Failed
    <2>1. A.tips # {}
      BY <1>1 DEF DagOK
    <2>2. Failed.tips = {}
      BY DEF Failed
    <2> QED BY <2>1, <2>2
  <1> QED
    BY <1>2, <1>6, <1>7 DEF Arrive

\* Every arrival order gives the dag.
LEMMA AnyArrival ==
    ASSUME DagInv, Enforced, NEW n \in Nat, NEW s \in [1..n -> NonGenesis],
           \A i, j \in 1..n : i # j => s[i] # s[j],
           \A b \in NonGenesis : \E i \in 1..n : s[i] = b,
           ParentsFirst(s)
    PROVE  Arriving!Fold(0, NewDag(GenesisBlock), s) = dag
  <1> DEFINE first == NewDag(GenesisBlock)
             G(i) == {GenesisId} \cup FirstOf(s, i)
  <1>1. PICK h : Arriving!Steps(0, first, s, n, h) /\ Arriving!Fold(0, first, s) = h[n]
    BY Arriving!FoldSteps
  <1>2. Grown(first, dag, {GenesisId})
    BY RegrowFirst DEF DagInv
  <1> HIDE DEF first
  <1> DEFINE S == {i \in Nat : Grown(h[i], dag, G(i))}
  <1>3. 0 \in S
    <2>1. G(0) = {GenesisId}
      BY DEF FirstOf
    <2>2. h[0] = first
      BY <1>1 DEF Arriving!Steps
    <2> QED BY <1>2, <2>1, <2>2
  <1>4. ASSUME NEW i \in 0..(n - 1), i \in S PROVE i + 1 \in S
    <2> DEFINE b == s[i + 1]
               P == G(i)
    <2>1. i + 1 \in 1..n /\ (i + 1) - 1 = i /\ i + 1 \in Nat /\ DOMAIN s = 1..n
      OBVIOUS
    <2>2. h[i + 1] = Arrive(0, h[i], b)
      BY <1>1, <2>1 DEF Arriving!Steps
    <2>3. Grown(h[i], dag, P)
      BY <1>4
    <2>4. b \in Blocks(dag) /\ b # GenesisId /\ b \notin P
      <3>1. b \in NonGenesis
        BY <2>1
      <3>2. \A j \in 1..i : j \in 1..n /\ j # i + 1
        OBVIOUS
      <3>3. \A j \in 1..i : s[j] # b
        BY <2>1, <3>2
      <3> QED BY <3>1, <3>3 DEF NonGenesis, FirstOf
    <2>5. Parents(dag, b) \subseteq P
      BY <2>1 DEF ParentsFirst, FirstOf
    <2>6. P \cup {b} = G(i + 1)
      BY <2>1 DEF FirstOf
    <2> HIDE DEF b, P
    <2>7. Grown(h[i + 1], dag, P \cup {b})
      BY <2>2, <2>3, <2>4, <2>5, ArriveStep
    <2> HIDE DEF G
    <2> QED BY <2>1, <2>6, <2>7
  <1>5. 0..n \subseteq S
    <2> HIDE DEF S
    <2> QED BY <1>3, <1>4, NatSetTo
  <1>6. G(n) = Blocks(dag)
    <2>1. GenesisId \in Blocks(dag)
      BY DEF DagInv, DagOK
    <2> QED BY <2>1 DEF FirstOf, NonGenesis
  <1>7. Grown(h[n], dag, Blocks(dag))
    BY <1>5, <1>6
  <1>8. h[n] = dag
    BY <1>7, RegrowLast DEF DagInv
  <1> QED
    BY <1>1, <1>8 DEF first

\* The blocks of a dag give the same dag in every order in which they can arrive, and
\* the rules in force, if they were in force from the first block, refuse none of them
\* (ghostdag.rs, set_difficulty).
THEOREM ArrivalOrder == Spec /\ [][RulesFirst]_vars => []ArrivalOrderIrrelevant
  <1>1. DagInv /\ Enforced => ArrivalOrderIrrelevant
    <2> SUFFICES ASSUME DagInv, Enforced, NEW s \in SetToSeqs(NonGenesis), ParentsFirst(s)
                 PROVE  FoldLeft(LAMBDA D, id : IF D # Failed /\ Allowed(D, id, BlockAt(id))
                                                THEN InsertBlock(D, id, BlockAt(id)) ELSE Failed,
                                 NewDag(GenesisBlock), s) = dag
      BY DEF ArrivalOrderIrrelevant, ParentsFirst
    <2> DEFINE n == Cardinality(NonGenesis)
    <2>1. IsFiniteSet(NonGenesis)
      BY FS_Subset DEF DagInv, DagOK, NonGenesis
    <2>2. n \in Nat
      BY <2>1, FS_CardinalityType
    <2>3. s \in [1..n -> NonGenesis] /\ \A i, j \in 1..n : i # j => s[i] # s[j]
      BY DEF SetToSeqs
    <2>4. \A b \in NonGenesis : \E i \in 1..n : s[i] = b
      <3>1. s \in Injection(1..n, NonGenesis)
        BY <2>3 DEF Injection, IsInjective
      <3>2. IsFiniteSet(1..n) /\ Cardinality(1..n) = n
        BY <2>2, FS_Interval
      <3>3. s \in Surjection(1..n, NonGenesis)
        BY <2>1, <3>1, <3>2, FS_Injection
      <3> QED BY <3>3 DEF Surjection
    <2> HIDE DEF n
    <2>5. Arriving!Fold(0, NewDag(GenesisBlock), s) = dag
      BY <2>2, <2>3, <2>4, AnyArrival
    <2> QED
      BY <2>5 DEF Arrive, Arriving!Fold, FoldLeft, MapThenFoldSet, Max, Arriving!Largest
  <1>2. Init => Enforced
    BY NewDagOK DEF Init, Enforced, NonGenesis, GenesisBlock
  <1> QED
    BY <1>1, <1>2, DagInvariance, EnforcedStep, PTL DEF Spec
=============================================================================

----------------------------- MODULE BlockDag ------------------------------
(***************************************************************************)
(* One DAG that grows by Dag::insert: any block with a fresh id, any       *)
(* non-empty set of present parents, any work and any timestamp may arrive *)
(* next, and is taken if the rules in force allow it.  insert takes        *)
(* &mut self and either wires the block in or returns an error and changes *)
(* nothing, so an insertion is one atomic step and a refused one no step   *)
(* at all.                                                                 *)
(*                                                                         *)
(* An id is the hash of its block, and mining changes the nonce until the  *)
(* hash suits; here the id a block gets is any one there is.               *)
(***************************************************************************)
EXTENDS Difficulty

CONSTANTS
    Ids,            \* the ids blocks may have, besides GenesisId
    Works,          \* the works blocks may carry
    Timestamps,     \* the timestamps blocks may carry
    Retargets,      \* the difficulty policies there are
    MaxParents      \* bound on the parents of a block

ASSUME BlockDagAssumption ==
    /\ Ids \subseteq Nat \ {GenesisId}
    /\ Works \subseteq Nat /\ Timestamps \subseteq Nat
    /\ MaxParents \in Nat \ {0}
    /\ Retargets \subseteq [target_interval : Nat, window : Nat, max_factor : Nat, min_work : Nat]

VARIABLES
    dag,
    difficulty,     \* the enforced policy, or NoDifficulty
    require_pow     \* whether proof of work is enforced

vars == <<dag, difficulty, require_pow>>

GenesisBlock == [parents |-> {}, work |-> 1, timestamp |-> 0]

Init ==
    /\ dag = NewDag(GenesisBlock)
    /\ difficulty = NoDifficulty
    /\ require_pow = FALSE

\* All checks of insert, in a DAG D under the rules in force.
Allowed(D, id, block) ==
    /\ CanInsert(D, id, block)
    /\ difficulty # NoDifficulty => CheckDifficulty(D, difficulty, block)
    /\ require_pow => MeetsTarget(id, block.work)

Insert(id, block) ==
    /\ Allowed(dag, id, block)
    /\ dag' = InsertBlock(dag, id, block)
    /\ UNCHANGED <<difficulty, require_pow>>

ParentSets == {ps \in SUBSET Blocks(dag) : ps # {} /\ Cardinality(ps) <= MaxParents}

\* A block of any work, or mined at the target of its parents.
InsertAny ==
    \E id \in Ids, ps \in ParentSets, t \in Timestamps :
        \E w \in Works \cup NextWorkTarget(dag, difficulty, ps) :
            Insert(id, [parents |-> ps, work |-> w, timestamp |-> t])

SetDifficulty ==
    /\ difficulty' \in Retargets
    /\ UNCHANGED <<dag, require_pow>>

SetProofOfWork ==
    /\ require_pow' \in BOOLEAN
    /\ UNCHANGED <<dag, difficulty>>

\* A DAG read from the snapshot of this one: no rule is in force.
Restore ==
    /\ dag' = ReadSnapshot(WriteSnapshot(dag))
    /\ difficulty' = NoDifficulty
    /\ require_pow' = FALSE

Next == InsertAny \/ SetDifficulty \/ SetProofOfWork \/ Restore

Spec == Init /\ [][Next]_vars

----------------------------------------------------------------------------
NonGenesis == Blocks(dag) \ {GenesisId}
BlockAt(b) == dag.nodes[b].block

\* linearize emits every block once, after its parents, with the selected chain
\* in order (the doc of linearize; snapshots and the ledger replay this order).
LinearizeTopological ==
    LET order == Linearize(dag)
        pos == [b \in Blocks(dag) |-> CHOOSE i \in DOMAIN order : order[i] = b]
        chain == SelectedChain(dag)
    IN  /\ Len(order) = Cardinality(Blocks(dag))
        /\ Range(order) = Blocks(dag)
        /\ \A b \in Blocks(dag) : \A p \in Parents(dag, b) : pos[p] < pos[b]
        /\ \A i \in 2..Len(chain) : pos[chain[i - 1]] < pos[chain[i]]

\* The tail of the linearization is the mergeset of the virtual block over all
\* tips (module doc of ordering.rs): a block built on every tip has the current
\* linearization as its past, in this order.
TailIsVirtualMergeset ==
    Linearize(dag) = Spine(dag) \o MergesetOrdered(dag, SelectedTip(dag), dag.tips)

\* Every order in which the blocks could have arrived gives the same DAG, the order of
\* the snapshot included, and in none of them is a block refused: consensus data and
\* the rules in force are functions of the set of blocks (ghostdag.rs: "independent
\* of block-arrival order and identical on every node"; set_difficulty: "every node
\* computes the same target, so this is a deterministic consensus rule").
ArrivalOrderIrrelevant ==
    LET topological(s) == \A i \in DOMAIN s :
                            Parents(dag, s[i]) \subseteq {GenesisId} \cup {s[j] : j \in 1..(i - 1)}
        arrive(D, id) == IF D # Failed /\ Allowed(D, id, BlockAt(id))
                         THEN InsertBlock(D, id, BlockAt(id)) ELSE Failed
    IN  \A s \in SetToSeqs(NonGenesis) :
            topological(s) => FoldLeft(arrive, NewDag(GenesisBlock), s) = dag

\* What a miner is told to mine is accepted: on any parents, the target work and a
\* timestamp not before theirs pass insert, once mined (next_work_target: "mine a
\* block with this work (and a timestamp not preceding any parent's) and it passes").
MinedAccepted ==
    \A ps \in ParentSets : \A w \in NextWorkTarget(dag, difficulty, ps) :
        \A id \in {h \in Ids \ Blocks(dag) : h * w < HashSpace} :
            Allowed(dag, id, [parents |-> ps, work |-> w,
                              timestamp |-> Max({BlockAt(p).timestamp : p \in ps})])

\* Work follows the block rate: when the measured blocks came faster than the policy
\* wants, the next work is not below their average, when they came slower it is not
\* above it, and it stays within the factor of it, all down to the floor (module doc
\* of difficulty.rs).  A product that saturates is left out: there work may fall.
WorkTracksRate ==
    \A b \in NonGenesis :
        LET window == Recent(difficulty,
                        ChainSamples(dag, dag.nodes[b].selected_parent, difficulty.window))
            span == Last(window).timestamp - Head(window).timestamp
            wanted == (Len(window) - 1) * difficulty.target_interval
            avg == AverageWork(window)
            floor(n) == Max({n, difficulty.min_work})
        IN  /\ difficulty # NoDifficulty
            /\ Len(window) > 1
            /\ avg * difficulty.max_factor <= MaxWork /\ avg * wanted <= MaxWork
            => /\ span < wanted => BlockAt(b).work >= avg
               /\ span > wanted => BlockAt(b).work <= floor(avg)
               /\ BlockAt(b).work <= floor(avg * difficulty.max_factor)
               /\ BlockAt(b).work * difficulty.max_factor + difficulty.max_factor > avg

\* The works each id meets, by the limb arithmetic.
MetBy == [id \in Ids |-> {w \in 1..MaxWork : MeetsTarget(id, w)}]

\* The limb arithmetic decides exactly H * work < 2^256, for every id in the DAG and
\* every work, those just at the limit too (the rule in the module doc of pow.rs).
TargetExact ==
    \A b \in NonGenesis : MetBy[b] = {w \in 1..MaxWork : b * w < HashSpace}
============================================================================

---------------------------- MODULE Reachability ---------------------------
(***************************************************************************)
(* The reachability oracle of kovanica-dag (reachability.rs), maintained   *)
(* block by block: a tree of selected parents labelled with intervals, and *)
(* for each block the tree roots of the rest of its future (fcs).          *)
(*                                                                         *)
(* The oracle is told the selected parent and the mergeset of each block.  *)
(* Which maximal parent is selected is left open here (GHOSTDAG's choice   *)
(* is in module Ghostdag), so that what holds here holds for any works.    *)
(* past is the reference: the pasts a direct traversal would give.         *)
(***************************************************************************)
EXTENDS Integers, Sequences, FiniteSets, FiniteSetsExt, Functions

CONSTANTS
    Ids,            \* the ids blocks may have, besides GenesisId
    MaxParents,     \* bound on the parents of a block
    RootCapacity    \* ROOT_CAPACITY, the width of the root's interval

GenesisId == 0

ASSUME ReachabilityAssumption ==
    /\ Ids \subseteq Nat \ {GenesisId} /\ IsFiniteSet(Ids)
    /\ MaxParents \in Nat \ {0}
    /\ RootCapacity \in Nat /\ RootCapacity > Cardinality(Ids)

VARIABLES
    past,           \* the past of every block: what the oracle is to answer
    intervals,      \* [lo, hi] of every block's subtree; the block sits at lo
    fcs,            \* the future-covering set of every block, a vector
    tree_parent,    \* the selected parent of every block but genesis
    subtree_size,   \* the number of blocks in every block's subtree
    next_free       \* the low end of every block's unallocated capacity

vars == <<past, intervals, fcs, tree_parent, subtree_size, next_free>>

Blocks == DOMAIN past

----------------------------------------------------------------------------
(***************************************************************************)
(* Queries.                                                                *)
(***************************************************************************)
TreeReaches(x, y) == intervals[y].lo \in intervals[x].lo .. intervals[x].hi

IsAncestor(a, b) ==
    /\ a # b
    /\ TreeReaches(a, b) \/ \E i \in DOMAIN fcs[a] : TreeReaches(fcs[a][i], b)

----------------------------------------------------------------------------
(***************************************************************************)
(* Interval reindexing.                                                    *)
(***************************************************************************)

\* Every block of the tree with the blocks above it, itself included.
ChainsUp(tree) ==
    LET up[x \in DOMAIN tree \cup {GenesisId}] ==
            {x} \cup (IF x = GenesisId THEN {} ELSE up[tree[x]])
    IN  up

ChainUp(b) == ChainsUp(tree_parent)[b]

Children(tree, x) == {c \in DOMAIN tree : tree[c] = x}

\* The lowest block from b upwards whose interval has room for twice its
\* subtree, or the root.
Anchor(b, sizes) ==
    LET roomy(x) == intervals[x].hi - intervals[x].lo + 1 >= 2 * sizes[x]
        up[x \in Blocks] == IF roomy(x) \/ x = GenesisId THEN x ELSE up[tree_parent[x]]
    IN  up[b]

\* The slice of a child in its parent's interval iv: its subtree, and its share of
\* what the parent's descendants (total) leave over.
Slice(iv, total, size) == size + (((iv.hi - iv.lo) - total) * size) \div total

\* Where the slices of the children in cs end, laid side by side from iv.lo + 1.
Cursor(iv, total, sizes, cs) ==
    LET span == [c \in cs |-> Slice(iv, total, sizes[c])]
    IN  iv.lo + 1 + MapThenSumSet(LAMBDA c : span[c], cs)

\* The interval of the child x of a block with interval iv, children in the order of
\* their ids.
Placed(iv, x, tree, sizes) ==
    LET total == sizes[tree[x]] - 1
        lo == Cursor(iv, total, sizes, {c \in Children(tree, tree[x]) : c < x})
    IN  [lo |-> lo, hi |-> lo + Slice(iv, total, sizes[x]) - 1]

\* The subtree of root laid out anew inside root's own interval; the intervals of
\* the other blocks stay.
Layout(root, tree, sizes, ivs) ==
    LET lay[x \in DOMAIN ivs] ==
            IF x = root \/ root \notin ChainsUp(tree)[x] THEN ivs[x]
            ELSE Placed(lay[tree[x]], x, tree, sizes)
    IN  lay

\* What the blocks of that subtree have left to hand out.
Leftover(root, tree, sizes, ivs, free) ==
    [x \in DOMAIN free |->
        IF root \in ChainsUp(tree)[x]
        THEN Cursor(ivs[x], sizes[x] - 1, sizes, Children(tree, x))
        ELSE free[x]]

----------------------------------------------------------------------------
(***************************************************************************)
(* Future-covering sets.                                                   *)
(***************************************************************************)
Covers(ivs, x, y) == ivs[x].lo <= ivs[y].lo /\ ivs[y].hi <= ivs[x].hi

\* The positions a binary search for the first entry that starts after b may
\* return: the one there is when the entries are sorted, and otherwise any place
\* where an entry that does not is followed by one that does.
PartitionPoints(ivs, set, b) ==
    {pos \in 0..Len(set) :
        /\ pos > 0 => ivs[set[pos]].lo <= ivs[b].lo
        /\ pos < Len(set) => ivs[set[pos + 1]].lo > ivs[b].lo}

\* The tree roots of the future of a outside its subtree, as build_fcs finds them
\* in a whole DAG.
BuildFcs(a) ==
    LET future == {b \in Blocks : a \in past[b]}
        candidates == {c \in future : ~TreeReaches(a, c)}
    IN  {c \in candidates : TreeReaches(a, tree_parent[c]) \/ tree_parent[c] \notin future}

\* Unless the entry before pos covers b, b goes to pos and the entries from there
\* on that b covers are dropped.
InsertToFutureCoveringSet(ivs, set, b, pos) ==
    LET kept == CHOOSE n \in pos..Len(set) :
                   /\ \A i \in (pos + 1)..n : Covers(ivs, b, set[i])
                   /\ n < Len(set) => ~Covers(ivs, b, set[n + 1])
    IN  IF pos > 0 /\ Covers(ivs, set[pos], b) THEN set
        ELSE SubSeq(set, 1, pos) \o <<b>> \o SubSeq(set, kept + 1, Len(set))

----------------------------------------------------------------------------
\* f with v at k.
Put(f, k, v) == [x \in DOMAIN f \cup {k} |-> IF x = k THEN v ELSE f[x]]

\* build on the genesis block alone.
Init ==
    /\ past = [b \in {GenesisId} |-> {}]
    /\ intervals = [b \in {GenesisId} |-> [lo |-> 1, hi |-> RootCapacity]]
    /\ fcs = [b \in {GenesisId} |-> <<>>]
    /\ tree_parent = [b \in {} |-> GenesisId]
    /\ subtree_size = [b \in {GenesisId} |-> 1]
    /\ next_free = [b \in {GenesisId} |-> 2]

\* Step 1 of add_block: a new leaf, and every block above it counts one more.
RegisterLeaf(id, sp) ==
    /\ tree_parent' = Put(tree_parent, id, sp)
    /\ subtree_size' = [b \in Blocks \cup {id} |->
                          IF b = id THEN 1
                          ELSE IF b \in ChainUp(sp) THEN subtree_size[b] + 1
                          ELSE subtree_size[b]]

\* A slip: the next sibling starts at the leaf's last point.
AllocateIntervalShared(id, sp) ==
    LET lo  == next_free[sp]
        mid == lo + (intervals[sp].hi - lo) \div 2
    IN  /\ lo <= intervals[sp].hi
        /\ intervals' = Put(intervals, id, [lo |-> lo, hi |-> mid])
        /\ next_free' = Put(Put(next_free, sp, mid), id, lo + 1)

\* Step 2 while the selected parent has capacity: the first half of it.
AllocateInterval(id, sp) ==
    LET lo  == next_free[sp]
        mid == lo + (intervals[sp].hi - lo) \div 2
    IN  /\ lo <= intervals[sp].hi
        /\ intervals' = Put(intervals, id, [lo |-> lo, hi |-> mid])
        /\ next_free' = Put(Put(next_free, sp, mid + 1), id, lo + 1)

\* Step 2 when it has none: a reindex below the anchor makes room.
ReindexInterval(id, sp) ==
    LET lo   == next_free[sp]
        root == Anchor(sp, subtree_size')
    IN  /\ lo > intervals[sp].hi
        /\ intervals' = Layout(root, tree_parent', subtree_size',
                               Put(intervals, id, [lo |-> lo, hi |-> lo]))
        /\ next_free' = Leftover(root, tree_parent', subtree_size', intervals',
                                 Put(next_free, id, lo))

\* Step 3: the block joins the future-covering set of each block it merges.
CoverMergeset(id, mergeset) ==
    \E pos \in [mergeset -> 0..Cardinality(Blocks)] :
        /\ \A m \in mergeset : pos[m] \in PartitionPoints(intervals', fcs[m], id)
        /\ fcs' = [b \in Blocks \cup {id} |->
                     IF b = id THEN <<>>
                     ELSE IF b \in mergeset
                     THEN InsertToFutureCoveringSet(intervals', fcs[b], id, pos[b])
                     ELSE fcs[b]]

PastOf(ps) == ps \cup UNION {past[p] : p \in ps}

\* The block the DAG has just accepted, with its selected parent: one of the
\* parents that no other parent builds on.
NewBlock(id, ps, sp) ==
    /\ id \notin Blocks
    /\ \A p \in ps : sp \notin past[p]
    /\ past' = Put(past, id, PastOf(ps))

\* A slip: only the parents among the merged blocks are covered.
AddBlockParentsOnly(id, ps, sp) ==
    /\ NewBlock(id, ps, sp)
    /\ RegisterLeaf(id, sp)
    /\ AllocateInterval(id, sp)
    /\ CoverMergeset(id, ps \ (past[sp] \cup {sp}))

\* A slip: the whole past is covered instead of the mergeset.
AddBlockWholePast(id, ps, sp) ==
    /\ NewBlock(id, ps, sp)
    /\ RegisterLeaf(id, sp)
    /\ AllocateInterval(id, sp)
    /\ CoverMergeset(id, PastOf(ps))

AddBlock(id, ps, sp) ==
    /\ NewBlock(id, ps, sp)
    /\ RegisterLeaf(id, sp)
    /\ AllocateInterval(id, sp)
    /\ CoverMergeset(id, PastOf(ps) \ (past[sp] \cup {sp}))

AddBlockReindexing(id, ps, sp) ==
    /\ NewBlock(id, ps, sp)
    /\ RegisterLeaf(id, sp)
    /\ ReindexInterval(id, sp)
    /\ CoverMergeset(id, PastOf(ps) \ (past[sp] \cup {sp}))

Next ==
    \E id \in Ids, ps \in SUBSET Blocks :
        /\ Cardinality(ps) <= MaxParents
        /\ \E sp \in ps : AddBlock(id, ps, sp) \/ AddBlockReindexing(id, ps, sp)

Spec == Init /\ [][Next]_vars

----------------------------------------------------------------------------
\* is_ancestor answers exactly what the pasts say, after any number of reindexes,
\* although only the blocks of the direct mergeset have their future-covering sets
\* updated ("Only the direct mergeset needs updating", module doc) and a reindex
\* moves the intervals under the entries the sets already hold.
OracleExact == \A a, b \in Blocks : IsAncestor(a, b) <=> a \in past[b]

\* The interval of a block contains that of another iff it is above it in the tree,
\* and otherwise they are disjoint; no child sits on its parent's own point and no
\* child reaches into the capacity its parent still hands out.  subtree_size is the size
\* of the subtree, which fits in the interval of its root, so that the slack of a
\* relayout never underflows, however small the anchor.
IntervalsMirrorTree ==
    /\ \A a, b \in Blocks :
         IF a \in ChainUp(b) THEN Covers(intervals, a, b) /\ (a # b => intervals[a].lo < intervals[b].lo)
         ELSE b \in ChainUp(a) \/ intervals[a].hi < intervals[b].lo
                               \/ intervals[b].hi < intervals[a].lo
    /\ \A b \in Blocks \ {GenesisId} : intervals[b].hi < next_free[tree_parent[b]]
    /\ \A b \in Blocks :
         /\ subtree_size[b] = Cardinality({x \in Blocks : b \in ChainUp(x)})
         /\ intervals[b].hi - intervals[b].lo + 1 >= subtree_size[b]

\* The incremental oracle holds the future-covering sets that build would compute
\* from scratch, each entry once: they stay minimal, though entries are compared by
\* position and a reindex may have shuffled them.
FcsMatchesBuild ==
    \A a \in Blocks : Range(fcs[a]) = BuildFcs(a) /\ Len(fcs[a]) = Cardinality(BuildFcs(a))
============================================================================

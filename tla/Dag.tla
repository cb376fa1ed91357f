-------------------------------- MODULE Dag --------------------------------
(***************************************************************************)
(* The block DAG of kovanica-dag as a value, and its operations as         *)
(* operators on that value: dag.rs, ghostdag.rs, ordering.rs, snapshot.rs. *)
(*                                                                         *)
(* A dag is a record [nodes, tips].  nodes maps the id of every stored     *)
(* block to its Node: the block itself and the data insert derived for it. *)
(* A block is a record with at least the fields parents and work; the      *)
(* modules that use this one add the fields they need.                     *)
(*                                                                         *)
(* Ids are BLAKE3 hashes: all the code does with them is compare them, and *)
(* their order tells nothing about when or where a block was made.  Here   *)
(* they are naturals, which the users of this module hand out in any       *)
(* order.                                                                  *)
(*                                                                         *)
(* Node.past stands for the answers of the reachability oracle             *)
(* (is_ancestor): a is an ancestor of b iff a is in b's past.  Module      *)
(* Reachability models the oracle itself and checks those answers.         *)
(***************************************************************************)
EXTENDS Integers, Sequences, FiniteSets, FiniteSetsExt, Functions, SequencesExt

CONSTANT K              \* the GHOSTDAG parameter k: the largest blue anticone

ASSUME KAssumption == K \in Nat

GenesisId == 0          \* the order of the genesis id is never looked at
NoBlock == -1           \* the selected parent of genesis (None)

\* The map f with one entry more, or with another value for the key.
Put(f, key, value) == [x \in DOMAIN f \cup {key} |-> IF x = key THEN value ELSE f[x]]

Blocks(D) == DOMAIN D.nodes
Parents(D, b) == D.nodes[b].block.parents
Work(D, b) == D.nodes[b].block.work

----------------------------------------------------------------------------
(***************************************************************************)
(* Queries.                                                                *)
(***************************************************************************)
IsAncestor(D, a, b) == a \in D.nodes[b].past

InAnticone(D, a, b) == a # b /\ ~IsAncestor(D, a, b) /\ ~IsAncestor(D, b, a)

\* The lexicographic order of chain_key = (blue_work, blue_score, id).
ChainKeyLess(D, a, b) ==
    LET m == D.nodes[a]
        n == D.nodes[b]
    IN  \/ m.blue_work < n.blue_work
        \/ /\ m.blue_work = n.blue_work
           /\ \/ m.blue_score < n.blue_score
              \/ m.blue_score = n.blue_score /\ a < b

Heaviest(D, S) == CHOOSE a \in S : \A b \in S \ {a} : ChainKeyLess(D, b, a)

\* A slip: the past size is forgotten in the sort key.
TopoKeyLessById(D, a, b) == a < b

\* The lexicographic order of topo_key = (past_size, id).
TopoKeyLess(D, a, b) ==
    LET m == D.nodes[a].past_size
        n == D.nodes[b].past_size
    IN  m < n \/ (m = n /\ a < b)

SortByTopoKey(D, S) ==
    [i \in 1..Cardinality(S) |->
        CHOOSE a \in S : Cardinality({b \in S : TopoKeyLess(D, b, a)}) = i - 1]

\* The backward walk from ps over parent edges: every round adds the parents
\* of what was found, and never enters past(sp) \cup {sp}.
MergesetOrdered(D, sp, ps) ==
    LET boundary == D.nodes[sp].past \cup {sp}
        walk[n \in Nat] ==
            IF n = 0 THEN ps \ boundary
            ELSE LET found == walk[n - 1]
                 IN  found \cup ((UNION {Parents(D, b) : b \in found}) \ boundary)
    IN  SortByTopoKey(D, walk[Cardinality(Blocks(D))])

----------------------------------------------------------------------------
(***************************************************************************)
(* GHOSTDAG colouring.                                                     *)
(***************************************************************************)

\* try_colour_blue scans the blue set in the order of a HashMap; whatever that
\* order is, it gives up iff more than k blues are in the candidate's anticone
\* or one of them has no room left.
TryColourBlue(D, candidate, sizes) ==
    LET blues == {b \in DOMAIN sizes : InAnticone(D, b, candidate)}
    IN  [blue |-> /\ Cardinality(blues) <= K
                  /\ \A b \in blues : sizes[b] + 1 <= K,
         increments |-> blues]

ColourCandidate(D, acc, candidate) ==
    LET try == TryColourBlue(D, candidate, acc.sizes)
        bumped(b) == IF b = candidate THEN Cardinality(try.increments)
                     ELSE IF b \in try.increments THEN acc.sizes[b] + 1
                     ELSE acc.sizes[b]
    IN  IF try.blue
        THEN [acc EXCEPT !.sizes = [b \in DOMAIN acc.sizes \cup {candidate} |-> bumped(b)],
                         !.blues = Append(@, candidate)]
        ELSE [acc EXCEPT !.reds = Append(@, candidate)]

\* The candidates coloured one after the other, from the sizes of the selected parent.
ColourAll(D, seed, candidates) ==
    FoldLeft(LAMBDA acc, c : ColourCandidate(D, acc, c),
             [sizes |-> seed, blues |-> <<>>, reds |-> <<>>], candidates)

SumWork(D, blues) == FoldLeft(LAMBDA sum, b : sum + Work(D, b), 0, blues)

ComputeGhostdag(D, parents) ==
    LET sp == Heaviest(D, parents)
        n == D.nodes[sp]
        seed == [b \in DOMAIN n.blue_anticone_sizes \cup {sp} |->
                    IF b = sp THEN 0 ELSE n.blue_anticone_sizes[b]]
        done == ColourAll(D, seed, MergesetOrdered(D, sp, parents))
    IN  [selected_parent |-> sp,
         mergeset_blues |-> done.blues,
         mergeset_reds |-> done.reds,
         blue_score |-> n.blue_score + 1 + Len(done.blues),
         blue_work |-> n.blue_work + Work(D, sp) + SumWork(D, done.blues),
         blue_anticone_sizes |-> done.sizes]

----------------------------------------------------------------------------
(***************************************************************************)
(* Construction and insertion.                                             *)
(***************************************************************************)
NewDag(genesis) ==
    [nodes |-> [b \in {GenesisId} |->
        [block |-> genesis, past |-> {}, past_size |-> 0,
         selected_parent |-> NoBlock, mergeset_blues |-> <<>>,
         mergeset_reds |-> <<>>, blue_score |-> 0, blue_work |-> 0,
         blue_anticone_sizes |-> <<>>]],
     tips |-> {GenesisId}]

\* The structural checks insert and preview share: not a duplicate, at least
\* one parent, and every parent present.
CanInsert(D, id, block) ==
    /\ id \notin Blocks(D)
    /\ block.parents # {}
    /\ block.parents \subseteq Blocks(D)

Preview(D, block) ==
    LET sp == Heaviest(D, block.parents)
    IN  [selected_parent |-> sp, mergeset |-> MergesetOrdered(D, sp, block.parents)]

\* The node of a new block: the block, what reachability records of it and the data g
\* that compute_ghostdag gave it.
NodeFor(D, block, past_size, g) ==
    [block |-> block,
     past |-> block.parents \cup UNION {D.nodes[p].past : p \in block.parents},
     past_size |-> past_size,
     selected_parent |-> g.selected_parent, mergeset_blues |-> g.mergeset_blues,
     mergeset_reds |-> g.mergeset_reds, blue_score |-> g.blue_score,
     blue_work |-> g.blue_work, blue_anticone_sizes |-> g.blue_anticone_sizes]

\* A slip: the position of arrival stands in for the size of the past.
InsertBlockByArrival(D, id, block) ==
    [nodes |-> Put(D.nodes, id, NodeFor(D, block, Cardinality(Blocks(D)),
                                        ComputeGhostdag(D, block.parents))),
     tips |-> (D.tips \ block.parents) \cup {id}]

InsertBlock(D, id, block) ==
    LET pastSize(g) == D.nodes[g.selected_parent].past_size + 1
                         + Len(g.mergeset_blues) + Len(g.mergeset_reds)
        node(g) == NodeFor(D, block, pastSize(g), g)
    IN  [nodes |-> Put(D.nodes, id, node(ComputeGhostdag(D, block.parents))),
         tips |-> (D.tips \ block.parents) \cup {id}]

----------------------------------------------------------------------------
(***************************************************************************)
(* The total order.                                                        *)
(***************************************************************************)
SelectedTip(D) == Heaviest(D, D.tips)

SelectedChain(D) ==
    LET chain[b \in Blocks(D)] ==
            LET sp == D.nodes[b].selected_parent
            IN  IF sp = NoBlock THEN <<b>> ELSE Append(chain[sp], b)
    IN  chain[SelectedTip(D)]

MergesetOrder(D, b) ==
    LET sp == D.nodes[b].selected_parent
    IN  IF sp = NoBlock THEN <<>> ELSE MergesetOrdered(D, sp, Parents(D, b))

\* A slip: a chain block is emitted before the blocks it merges.
SpineMergesetLast(D) ==
    FoldLeft(LAMBDA order, b : order \o <<b>> \o MergesetOrder(D, b),
             <<>>, SelectedChain(D))

Spine(D) ==
    FoldLeft(LAMBDA order, b : order \o MergesetOrder(D, b) \o <<b>>,
             <<>>, SelectedChain(D))

\* A slip: the tail is sorted by id alone.
LinearizeTailById(D) ==
    LET spine == Spine(D)
    IN  spine \o SetToSortSeq(Blocks(D) \ Range(spine), <)

Linearize(D) ==
    LET spine == Spine(D)
    IN  spine \o SortByTopoKey(D, Blocks(D) \ Range(spine))

----------------------------------------------------------------------------
(***************************************************************************)
(* Snapshots: the blocks, in linearized order, replayed through insert.    *)
(***************************************************************************)
\* A slip: the blocks the selected chain has not merged are not written.
WriteSnapshotSpine(D) ==
    LET order == Spine(D)
    IN  [i \in DOMAIN order |-> [id |-> order[i], block |-> D.nodes[order[i]].block]]

WriteSnapshot(D) ==
    LET order == Linearize(D)
    IN  [i \in DOMAIN order |-> [id |-> order[i], block |-> D.nodes[order[i]].block]]

\* A replay that meets a block insert refuses is an error, not a dag.
Failed == [nodes |-> <<>>, tips |-> {}]

ReadSnapshot(log) ==
    FoldLeft(LAMBDA D, r : IF CanInsert(D, r.id, r.block)
                           THEN InsertBlock(D, r.id, r.block) ELSE Failed,
             NewDag(Head(log).block), Tail(log))
============================================================================

----------------------------- MODULE Ghostdag ------------------------------
(***************************************************************************)
(* Dag::insert one loop iteration at a time: the structural checks and the *)
(* choice of the selected parent (Begin), one step per candidate of the    *)
(* mergeset as compute_ghostdag colours it (ColourBlue, ColourRed), and    *)
(* the wiring of the block into the DAG (Commit), or its refusal by the    *)
(* rules insert applies after the colouring (Refuse).                      *)
(*                                                                         *)
(* The data of the block being inserted are assembled in node[cur], cur    *)
(* not being in blocks yet.  Sets stand for the vectors mergeset_blues and *)
(* mergeset_reds, and sizes, total on the ids, for blue_anticone_sizes,    *)
(* whose keys are blue_set.  As in module Dag, past is what the            *)
(* reachability oracle answers for is_ancestor.                            *)
(*                                                                         *)
(* This is the module the proofs are about: there is no recursion in it.   *)
(* MCGhostdag checks that it implements BlockDag, where insert is atomic.  *)
(***************************************************************************)
EXTENDS Integers, FiniteSets

CONSTANTS
    K,              \* the GHOSTDAG parameter k
    Ids,            \* the ids blocks may have, besides GenesisId
    Works,          \* the works blocks may carry
    GenesisWork,    \* the work of the genesis block
    MaxParents      \* bound on the parents of a block

GenesisId == 0
NoBlock == -1
AllIds == Ids \cup {GenesisId}

ASSUME GhostdagAssumption ==
    /\ K \in Nat
    /\ Ids \subseteq Nat \ {GenesisId}
    /\ Works \subseteq Nat
    /\ GenesisWork \in Nat
    /\ MaxParents \in Nat

VARIABLES
    blocks,     \* the ids of the stored blocks
    tips,       \* the stored blocks no stored block has as a parent
    node,       \* the Node of every stored block, and of the one being inserted
    cur,        \* the block being inserted, or NoBlock
    rest        \* the part of its mergeset that is not coloured yet

vars == <<blocks, tips, node, cur, rest>>

NodeType ==
    [parents : SUBSET AllIds, work : Nat, past : SUBSET AllIds, past_size : Nat,
     selected_parent : AllIds \cup {NoBlock}, mergeset_blues : SUBSET AllIds,
     mergeset_reds : SUBSET AllIds, blue_score : Nat, blue_work : Nat,
     blue_set : SUBSET AllIds, sizes : [AllIds -> Nat]]

NoNode(w) ==
    [parents |-> {}, work |-> w, past |-> {}, past_size |-> 0,
     selected_parent |-> NoBlock, mergeset_blues |-> {}, mergeset_reds |-> {},
     blue_score |-> 0, blue_work |-> 0,
     blue_set |-> {}, sizes |-> [x \in AllIds |-> 0]]

----------------------------------------------------------------------------
InAnticone(a, b) == a # b /\ a \notin node[b].past /\ b \notin node[a].past

\* The lexicographic order of chain_key = (blue_work, blue_score, id).
ChainKeyLess(a, b) ==
    \/ node[a].blue_work < node[b].blue_work
    \/ /\ node[a].blue_work = node[b].blue_work
       /\ \/ node[a].blue_score < node[b].blue_score
          \/ node[a].blue_score = node[b].blue_score /\ a < b

IsHeaviest(a, S) == a \in S /\ \A b \in S \ {a} : ChainKeyLess(b, a)

\* The lexicographic order of the mergeset's sort key (past_size, id).
TopoKeyLess(a, b) ==
    \/ node[a].past_size < node[b].past_size
    \/ node[a].past_size = node[b].past_size /\ a < b

IsFirst(c, S) == c \in S /\ \A d \in S \ {c} : TopoKeyLess(c, d)

\* The past of a block with parents ps.
PastOver(ps) == ps \cup UNION {node[p].past : p \in ps}

BluesInAnticone(c) == {b \in node[cur].blue_set : InAnticone(b, c)}

CanBeBlue(c) ==
    /\ Cardinality(BluesInAnticone(c)) <= K
    /\ \A b \in BluesInAnticone(c) : node[cur].sizes[b] + 1 <= K

----------------------------------------------------------------------------
Init ==
    /\ blocks = {GenesisId}
    /\ tips = {GenesisId}
    /\ node = [b \in AllIds |-> NoNode(IF b = GenesisId THEN GenesisWork ELSE 0)]
    /\ cur = NoBlock
    /\ rest = {}

\* A slip: the selected parent is not counted among the blues.
BeginUncounted(id, ps, w, sp) ==
    /\ cur = NoBlock
    /\ id \notin blocks
    /\ ps # {} /\ ps \subseteq blocks
    /\ IsHeaviest(sp, ps)
    /\ cur' = id
    /\ rest' = PastOver(ps) \ (node[sp].past \cup {sp})
    /\ node' = [node EXCEPT ![id] =
         [node[sp] EXCEPT !.parents = ps, !.work = w, !.past = PastOver(ps),
                          !.past_size = @ + 1, !.selected_parent = sp,
                          !.mergeset_blues = {}, !.mergeset_reds = {}]]
    /\ UNCHANGED <<blocks, tips>>

\* The structural checks, select_parent, the mergeset and the seed of the blue
\* set: the selected parent's blue set, and the selected parent with size 0.
Begin(id, ps, w, sp) ==
    /\ cur = NoBlock
    /\ id \notin blocks
    /\ ps # {} /\ ps \subseteq blocks
    /\ IsHeaviest(sp, ps)
    /\ cur' = id
    /\ rest' = PastOver(ps) \ (node[sp].past \cup {sp})
    /\ node' = [node EXCEPT ![id] =
         [parents |-> ps, work |-> w, past |-> PastOver(ps),
          past_size |-> node[sp].past_size + 1,
          selected_parent |-> sp, mergeset_blues |-> {}, mergeset_reds |-> {},
          blue_score |-> node[sp].blue_score + 1,
          blue_work |-> node[sp].blue_work + node[sp].work,
          blue_set |-> node[sp].blue_set \cup {sp},
          sizes |-> [node[sp].sizes EXCEPT ![sp] = 0]]]
    /\ UNCHANGED <<blocks, tips>>

\* A slip: the sizes of the blues in the candidate's anticone are not bumped.
ColourBlueUnbumped(c) ==
    /\ cur # NoBlock
    /\ IsFirst(c, rest)
    /\ CanBeBlue(c)
    /\ node' = [node EXCEPT ![cur] =
         [node[cur] EXCEPT
            !.past_size = @ + 1,
            !.mergeset_blues = @ \cup {c},
            !.blue_score = @ + 1,
            !.blue_work = @ + node[c].work,
            !.blue_set = @ \cup {c},
            !.sizes[c] = Cardinality(BluesInAnticone(c))]]
    /\ rest' = rest \ {c}
    /\ UNCHANGED <<blocks, tips, cur>>

\* A slip: the work of a merged blue is not counted.
ColourBlueWorkless(c) ==
    /\ cur # NoBlock
    /\ IsFirst(c, rest)
    /\ CanBeBlue(c)
    /\ node' = [node EXCEPT ![cur] =
         [node[cur] EXCEPT
            !.past_size = @ + 1,
            !.mergeset_blues = @ \cup {c},
            !.blue_score = @ + 1,
            !.blue_set = @ \cup {c},
            !.sizes = [x \in AllIds |->
                         IF x = c THEN Cardinality(BluesInAnticone(c))
                         ELSE IF x \in BluesInAnticone(c) THEN @[x] + 1
                         ELSE @[x]]]]
    /\ rest' = rest \ {c}
    /\ UNCHANGED <<blocks, tips, cur>>

\* try_colour_blue returned Some(increments): the candidate joins the blue set.
ColourBlue(c) ==
    /\ cur # NoBlock
    /\ IsFirst(c, rest)
    /\ CanBeBlue(c)
    /\ node' = [node EXCEPT ![cur] =
         [node[cur] EXCEPT
            !.past_size = node[cur].past_size + 1,
            !.mergeset_blues = node[cur].mergeset_blues \cup {c},
            !.blue_score = node[cur].blue_score + 1,
            !.blue_work = node[cur].blue_work + node[c].work,
            !.blue_set = node[cur].blue_set \cup {c},
            !.sizes = [x \in AllIds |->
                         IF x = c THEN Cardinality(BluesInAnticone(c))
                         ELSE IF x \in BluesInAnticone(c) THEN node[cur].sizes[x] + 1
                         ELSE node[cur].sizes[x]]]]
    /\ rest' = rest \ {c}
    /\ UNCHANGED <<blocks, tips, cur>>

\* A slip: a candidate that cannot be blue is skipped.
ColourRedSkipped(c) ==
    /\ cur # NoBlock
    /\ IsFirst(c, rest)
    /\ ~CanBeBlue(c)
    /\ rest' = rest \ {c}
    /\ UNCHANGED <<blocks, tips, node, cur>>

\* try_colour_blue returned None.
ColourRed(c) ==
    /\ cur # NoBlock
    /\ IsFirst(c, rest)
    /\ ~CanBeBlue(c)
    /\ node' = [node EXCEPT ![cur] =
         [node[cur] EXCEPT
            !.past_size = node[cur].past_size + 1,
            !.mergeset_reds = node[cur].mergeset_reds \cup {c}]]
    /\ rest' = rest \ {c}
    /\ UNCHANGED <<blocks, tips, cur>>

\* Wire the block in: it replaces its parents among the tips.
Commit ==
    /\ cur # NoBlock
    /\ rest = {}
    /\ blocks' = blocks \cup {cur}
    /\ tips' = (tips \ node[cur].parents) \cup {cur}
    /\ cur' = NoBlock
    /\ UNCHANGED <<node, rest>>

\* The difficulty or the proof-of-work rule refuses the coloured block: insert
\* returns an error and what was derived for the block is dropped.
Refuse ==
    /\ cur # NoBlock
    /\ rest = {}
    /\ node' = [node EXCEPT ![cur] = NoNode(0)]
    /\ cur' = NoBlock
    /\ UNCHANGED <<blocks, tips, rest>>

BeginSome ==
    \E id \in Ids, ps \in SUBSET blocks, w \in Works :
        /\ Cardinality(ps) <= MaxParents
        /\ \E sp \in ps : Begin(id, ps, w, sp)

Next ==
    \/ BeginSome
    \/ \E c \in rest : ColourBlue(c)
    \/ \E c \in rest : ColourRed(c)
    \/ Commit
    \/ Refuse

Spec == Init /\ [][Next]_vars

----------------------------------------------------------------------------
(***************************************************************************)
(* Properties.                                                             *)
(***************************************************************************)

\* The shape of the state.
TypeOK ==
    /\ blocks \in SUBSET AllIds /\ GenesisId \in blocks
    /\ tips \in SUBSET blocks
    /\ node \in [AllIds -> NodeType]
    /\ cur \in Ids \cup {NoBlock}
    /\ rest \in SUBSET blocks

\* chain_key grows strictly along every edge of the DAG: the parent that
\* select_parent picks, and the tip selected_tip picks, are heavier than
\* everything they build on.
ChainKeyGrows == \A b \in blocks : \A a \in node[b].past : ChainKeyLess(a, b)

\* The sizes in blue_anticone_sizes, seeded from the selected parent and bumped
\* as blues join, are exact in every view, and none exceeds k (GhostdagData: "The
\* invariant GHOSTDAG maintains is that every value here is <= k").
KCluster ==
    \A b \in blocks : \A x \in node[b].blue_set :
        /\ node[b].sizes[x] = Cardinality({y \in node[b].blue_set : InAnticone(x, y)})
        /\ node[b].sizes[x] <= K

\* past_size, maintained in O(1), is |past|, and blue_score is the size of the
\* blue set (the debug_assert of compute_ghostdag).
CountsExact ==
    \A b \in blocks :
        /\ node[b].past_size = Cardinality(node[b].past)
        /\ node[b].blue_score = Cardinality(node[b].blue_set)

\* Each block of the selected parent's anticone that the block merges, and no
\* other, has been given one colour (compute_ghostdag: "exactly the blocks in
\* the selected parent's anticone that the new block merges in").
MergesetIsAnticone ==
    \A b \in blocks \ {GenesisId} :
        LET n == node[b]
        IN  /\ n.mergeset_blues \cup n.mergeset_reds
                 = {a \in n.past : InAnticone(a, n.selected_parent)}
            /\ n.mergeset_blues \cap n.mergeset_reds = {}

\* One tip is heavier than every other block: selected_tip compares only tips,
\* yet no block of the DAG was ever heavier than the tip it picks.
HeaviestIsTip == \E t \in tips : IsHeaviest(t, blocks)

----------------------------------------------------------------------------
(***************************************************************************)
(* The inductive invariant.  Its parts speak of the block being inserted   *)
(* too (Known), so that what they say of it when the last candidate has    *)
(* been coloured is what they say of a stored block.                       *)
(***************************************************************************)
Known == IF cur = NoBlock THEN blocks ELSE blocks \cup {cur}

\* The part of b's mergeset still to be coloured.
Uncoloured(b) == IF b = cur THEN rest ELSE {}

CurInv ==
    /\ IsFiniteSet(blocks)
    /\ cur \notin blocks
    /\ cur = NoBlock => rest = {}

PastOK(b) ==
    /\ node[b].past \subseteq blocks
    /\ \A a \in node[b].past : node[a].past \subseteq node[b].past
    /\ node[b].parents \subseteq node[b].past
    /\ b = GenesisId => node[b].past = {} /\ node[b].blue_set = {}
    /\ b # GenesisId => node[b].selected_parent \in node[b].past

\* The selected parent is the heaviest block of the whole past, and lighter
\* than the block itself.
KeyOK(b) ==
    b # GenesisId =>
        LET sp == node[b].selected_parent
        IN  /\ node[b].blue_score >= node[sp].blue_score + 1
            /\ node[b].blue_work >= node[sp].blue_work
            /\ \A a \in node[b].past \ {sp} : ChainKeyLess(a, sp)

BlueOK(b) ==
    /\ node[b].blue_set \subseteq node[b].past \ Uncoloured(b)
    /\ \A x \in node[b].blue_set :
         /\ node[b].sizes[x] = Cardinality({y \in node[b].blue_set : InAnticone(x, y)})
         /\ node[b].sizes[x] <= K

CountOK(b) ==
    /\ node[b].past_size + Cardinality(Uncoloured(b)) = Cardinality(node[b].past)
    /\ node[b].blue_score = Cardinality(node[b].blue_set)

MergeOK(b) ==
    b # GenesisId =>
        LET n == node[b]
        IN  /\ n.mergeset_blues \cup n.mergeset_reds \cup Uncoloured(b)
                 = n.past \ (node[n.selected_parent].past \cup {n.selected_parent})
            /\ n.mergeset_blues \cap n.mergeset_reds = {}
            /\ (n.mergeset_blues \cup n.mergeset_reds) \cap Uncoloured(b) = {}

NodeOK(b) == PastOK(b) /\ KeyOK(b) /\ BlueOK(b) /\ CountOK(b) /\ MergeOK(b)

\* Implies every property above, and no step leaves it: the counters and the
\* order GHOSTDAG keeps for the block being inserted are exact after each loop
\* iteration of compute_ghostdag, not only when it returns.
IInv ==
    /\ TypeOK
    /\ CurInv
    /\ \A b \in Known : NodeOK(b)
    /\ HeaviestIsTip
============================================================================

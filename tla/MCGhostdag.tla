---------------------------- MODULE MCGhostdag -----------------------------
(***************************************************************************)
(* Ghostdag for TLC, with the mapping under which it implements BlockDag:  *)
(* the abstract DAG changes when a block is committed, and its vectors     *)
(* list the sets of this module in topological order.                      *)
(***************************************************************************)
EXTENDS Ghostdag, Sequences, TLC

Listed(S) ==
    [i \in 1..Cardinality(S) |->
        CHOOSE a \in S : Cardinality({b \in S : TopoKeyLess(b, a)}) = i - 1]

AbstractNode(n) ==
    [block |-> [parents |-> n.parents, work |-> n.work, timestamp |-> 0],
     past |-> n.past, past_size |-> n.past_size,
     selected_parent |-> n.selected_parent,
     mergeset_blues |-> Listed(n.mergeset_blues),
     mergeset_reds |-> Listed(n.mergeset_reds),
     blue_score |-> n.blue_score, blue_work |-> n.blue_work,
     blue_anticone_sizes |-> [x \in n.blue_set |-> n.sizes[x]]]

AbstractDag ==
    [nodes |-> [b \in blocks |-> AbstractNode(node[b])], tips |-> tips]

\* No rule is in force in the abstract DAG: Refuse stands for those that may be.
Atomic == INSTANCE BlockDag WITH dag <- AbstractDag,
                                 difficulty <- [window |-> 0], require_pow <- FALSE,
                                 Timestamps <- {0}, Retargets <- {}, Base <- 2

\* Inserting candidate by candidate implements the atomic insertion of BlockDag:
\* colouring steps and refusals change nothing, Commit is Insert, and the vectors
\* and maps it stores are those the fold over the whole mergeset computes.
ImplementsBlockDag == Atomic!Spec
============================================================================

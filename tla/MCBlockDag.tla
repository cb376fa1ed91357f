---------------------------- MODULE MCBlockDag -----------------------------
(***************************************************************************)
(* BlockDag for TLC.                                                       *)
(***************************************************************************)
EXTENDS BlockDag

\* One interval is measured.  With three blocks the first policy raises the work and
\* lowers it again, the second runs into its clamp and its floor.
MCRetargets ==
    {[target_interval |-> 3, window |-> 1, max_factor |-> 4, min_work |-> 1],
     [target_interval |-> 3, window |-> 1, max_factor |-> 2, min_work |-> 2]}

Ruled == difficulty # NoDifficulty \/ require_pow

\* The rules are set before the first block, as by their users, and a DAG under rules
\* has one block less than one without; without a policy the timestamps mean nothing.
NextRuled ==
    \/ Blocks(dag) = {GenesisId} /\ (SetDifficulty \/ SetProofOfWork)
    \/ /\ Ruled => Cardinality(NonGenesis) < Cardinality(Ids) - 1
       /\ InsertAny
       /\ difficulty = NoDifficulty =>
            \A b \in DOMAIN dag'.nodes : dag'.nodes[b].block.timestamp = 0
    \/ Restore

SpecRuled == Init /\ [][NextRuled]_vars
============================================================================

---------------------------- MODULE MCFinality -----------------------------
(***************************************************************************)
(* Finality for TLC.                                                       *)
(***************************************************************************)
EXTENDS Finality, FiniteSetsExt

\* Blocks arrive with increasing ids: the fixed order of ids replaces one of the
\* choices of FNext, so that deeper DAGs are in reach.
InOrder == cur' \in Ids \ {cur} => cur' = Min(Ids \ blocks)

FSpecInOrder == FInit /\ [][FNext /\ InOrder]_fvars

\* The blocks of the selected chain.
SelectedChain ==
    LET chain[b \in AllIds] ==
            LET sp == node[b].selected_parent
            IN  IF sp = NoBlock THEN {b} ELSE {b} \cup chain[sp]
    IN  chain[SelectedTip]

\* A block of the selected chain that has become final stays on the selected
\* chain (the doc of Ledger: finality "makes the selected chain stable below the
\* finality point", "a deep re-org is rejected rather than applied").
FinalChainStable ==
    [][\A b \in SelectedChain :
         node[b].blue_score < FinalityScore => b \in SelectedChain']_fvars
============================================================================

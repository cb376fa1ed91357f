----------------------------- MODULE Finality ------------------------------
(***************************************************************************)
(* Finality and pruning of kovanica-state's Ledger, over the insertion     *)
(* steps of Ghostdag.  Ledger::insert previews the block, refuses it when  *)
(* its selected parent is final, looks the selected parent's stored state  *)
(* up (and panics when there is none), inserts the block into the DAG,     *)
(* stores its state and prunes the states of blocks that became final.     *)
(*                                                                         *)
(* Only which blocks have a stored state matters here; what the states     *)
(* hold is the subject of module Ledger.                                   *)
(***************************************************************************)
EXTENDS Ghostdag

CONSTANT Depth      \* finality_depth, a finite one

ASSUME DepthAssumption == Depth \in Nat

VARIABLES
    states,         \* the keys of Ledger::states
    panicked        \* the lookup of a selected parent's state failed

fvars == <<vars, states, panicked>>

\* A slip: the tip with the largest id is taken.
SelectedTipById == CHOOSE t \in tips : \A u \in tips : u <= t

SelectedTip == CHOOSE t \in tips : IsHeaviest(t, tips)

\* The blue score of the selected tip minus the depth, saturating at 0.
FinalityScore ==
    LET s == node[SelectedTip].blue_score
    IN  IF s > Depth THEN s - Depth ELSE 0

FInit == Init /\ states = {GenesisId} /\ panicked = FALSE

\* The previewed block does not build on final history and the state of its
\* selected parent is at hand: the insertion goes on.
LedgerBegin(id, ps, w, sp) ==
    /\ node[sp].blue_score >= FinalityScore
    /\ sp \in states
    /\ Begin(id, ps, w, sp)
    /\ UNCHANGED <<states, panicked>>

\* The previewed block does not build on final history, yet the state of its
\* selected parent was pruned: expect() panics before anything has changed.
LedgerPanic(id, ps, sp) ==
    /\ cur = NoBlock
    /\ id \notin blocks
    /\ ps # {} /\ ps \subseteq blocks
    /\ IsHeaviest(sp, ps)
    /\ node[sp].blue_score >= FinalityScore
    /\ sp \notin states
    /\ panicked' = TRUE
    /\ UNCHANGED <<vars, states>>

LedgerColour ==
    /\ \E c \in rest : ColourBlue(c) \/ ColourRed(c)
    /\ UNCHANGED <<states, panicked>>

\* A slip: the state of the new block is not stored.
LedgerCommitUnstored ==
    /\ Commit
    /\ states' = {b \in states : node[b].blue_score >= FinalityScore'}
    /\ UNCHANGED panicked

\* A slip: prune drops the blocks at the finality score too.
LedgerCommitGreedy ==
    /\ Commit
    /\ states' = {b \in states \cup {cur} : node[b].blue_score > FinalityScore'}
    /\ UNCHANGED panicked

\* Dag::insert succeeded: the block's state is stored, then prune drops the
\* states below the finality score the new tip gives.
LedgerCommit ==
    /\ Commit
    /\ states' = {b \in states \cup {cur} : node[b].blue_score >= FinalityScore'}
    /\ UNCHANGED panicked

\* A slip: the state is stored before the DAG has accepted the block.
LedgerRefuseStored == Refuse /\ states' = states \cup {cur} /\ UNCHANGED panicked

\* The block's transactions or the DAG's rules refuse it.
LedgerRefuse == Refuse /\ UNCHANGED <<states, panicked>>

FNext ==
    /\ ~panicked
    /\ \/ \E id \in Ids, ps \in SUBSET blocks :
            /\ Cardinality(ps) <= MaxParents
            /\ \E sp \in ps : \/ \E w \in Works : LedgerBegin(id, ps, w, sp)
                              \/ LedgerPanic(id, ps, sp)
       \/ LedgerColour
       \/ LedgerCommit
       \/ LedgerRefuse

FSpec == FInit /\ [][FNext]_fvars

----------------------------------------------------------------------------
\* The shape of the state.
FTypeOK == TypeOK /\ states \in SUBSET blocks /\ panicked \in BOOLEAN

\* The state of the selected tip is never pruned: ledger_state, which starts from
\* it, always finds it (the expect of ledger_state).
TipHasState == SelectedTip \in states

\* A block that is not final has a stored state, so that the lookup in
\* Ledger::insert succeeds whenever the finality check passed.
NonFinalHasState ==
    \A b \in blocks : node[b].blue_score >= FinalityScore => b \in states

\* Ledger::insert never panics on the lookup of its selected parent's state
\* (the text of its expect: "non-final selected parent always has a stored
\* state").
NoPanic == ~panicked

\* The finality score never goes down, whatever branch takes over (the comment of
\* prune: "Finality only rises, so a pruned block stays prunable").
FinalityOnlyRises == [][FinalityScore' >= FinalityScore]_fvars

----------------------------------------------------------------------------
(***************************************************************************)
(* Inductive invariants.  TipInv is enough for the selected tip and holds  *)
(* whatever the works are.  That the score of the selected tip never falls *)
(* needs every block to carry the same work, as a node that does not       *)
(* enforce difficulty produces them: then blue_work is a multiple of       *)
(* blue_score and a heavier tip never has a lower score.                   *)
(***************************************************************************)
TipInv == IInv /\ FTypeOK /\ TipHasState

SameWork(b) ==
    /\ node[b].work = GenesisWork
    /\ node[b].blue_work = GenesisWork * node[b].blue_score

UniformInv == TipInv /\ NonFinalHasState /\ NoPanic /\ \A b \in Known : SameWork(b)
============================================================================

------------------------------- MODULE Ledger ------------------------------
(***************************************************************************)
(* One ledger that grows by Ledger::insert: any block with a fresh id, any *)
(* non-empty set of present parents, any work and any payload may arrive   *)
(* next.  insert takes &mut self and changes nothing when it refuses, so   *)
(* an insertion is one atomic step.                                        *)
(***************************************************************************)
EXTENDS LedgerRules

CONSTANTS
    Ids,            \* the ids blocks may have, besides GenesisId
    Works,          \* the works blocks may carry
    MaxParents,     \* bound on the parents of a block
    TxIds,          \* the ids of transactions
    Owners,         \* the keys outputs are locked to
    Payloads        \* the transaction lists blocks may carry

Transactions ==
    [id : TxIds,
     inputs : Seq([outpoint : TxIds \X Nat, signer : Owners]),
     outputs : Seq([value : 0..MaxValue, owner : Owners])]

ASSUME LedgerAssumption ==
    /\ Ids \subseteq Nat \ {GenesisId}
    /\ Works \subseteq Nat
    /\ MaxParents \in Nat \ {0}
    /\ Payloads \cup {GenesisTxs} \subseteq Seq(Transactions)

VARIABLE ledger     \* [dag, states]: the DAG, and the view state of each block

vars == <<ledger>>

----------------------------------------------------------------------------
Init == ledger = NewLedger

Insert(id, block) ==
    /\ CanLedgerInsert(ledger, id, block)
    /\ ledger' = LedgerInsert(ledger, id, block)

ParentSets == {ps \in SUBSET Blocks(ledger.dag) : Cardinality(ps) <= MaxParents}

Next == \E id \in Ids, w \in Works, ps \in ParentSets, txs \in Payloads :
            Insert(id, [parents |-> ps, work |-> w, timestamp |-> 0, txs |-> txs])

Spec == Init /\ [][Next]_vars

----------------------------------------------------------------------------
\* What a node that had received only b and its past would hold.
ViewOf(b) ==
    [nodes |-> [x \in ledger.dag.nodes[b].past \cup {b} |-> ledger.dag.nodes[x]],
     tips |-> {b}]

TxsOf(b) == ledger.dag.nodes[b].block.txs

\* ledger_state, put together from the selected tip's stored state and the tail of
\* the order, is what applying the whole DAG from nothing gives (doc of
\* ledger_state: "Equal to apply_dag(self.dag(), self.subsidy()).utxo").
StateEqualsReplay == LedgerState(ledger) = ApplyDag(ledger.dag).utxo

\* The stored state of every block is the ledger of its own past in its own order,
\* whatever else arrived before it: states of abandoned branches are right too, so
\* that a branch can take over without a revert.
StatesAreViews ==
    \A b \in Blocks(ledger.dag) : ledger.states[b] = ApplyDag(ViewOf(b)).utxo

\* No value appears but by minting, in any view: what is unspent is what coinbases
\* minted less the fees that were paid, and at most a subsidy for each block (the
\* supply bound behind CoinbaseOverspend and ValueNotConserved).
SupplyConserved ==
    \A b \in Blocks(ledger.dag) :
        LET run == ApplyDag(ViewOf(b))
        IN  /\ TotalValue(run.utxo) + run.fees = run.minted
            /\ TotalValue(run.utxo) <= Subsidy * Len(run.accepted)

\* No outpoint is spent by two accepted blocks of one order: a double spend across
\* parallel blocks takes effect once (apply_dag: "the earlier block spends the
\* output; the later one is rejected").  Where a coinbase is repeated, its output comes
\* into being again and may be spent again; the payloads spend no such output.
NoDoubleSpend ==
    LET acc == ApplyDag(ledger.dag).accepted
        spentBy(b) == UNION {Spent(TxsOf(b)[i]) : i \in DOMAIN TxsOf(b)}
    IN  \A i, j \in DOMAIN acc : i # j => spentBy(acc[i]) \cap spentBy(acc[j]) = {}

\* A restored snapshot has the DAG and every view state of the original ("the
\* restored ledger is identical to the original"): no stored block is refused when
\* it is replayed in linearized instead of arrival order, and nothing of a block is
\* lost in its encoding.
RestoreIdentical == ReadLedgerSnapshot(WriteLedgerSnapshot(ledger)) = ledger
============================================================================

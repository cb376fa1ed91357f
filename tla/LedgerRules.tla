---------------------------- MODULE LedgerRules ----------------------------
(***************************************************************************)
(* kovanica-state's Ledger as a value and its operations as operators on   *)
(* that value.  A ledger L is a record [dag, states]: the block DAG, and   *)
(* the UTXO set of every block in that block's own view.                   *)
(*                                                                         *)
(* The ledger never prunes here (Ledger::new); module Finality models the  *)
(* finality rule and pruning.  Blocks carry parents, work, timestamp and   *)
(* txs, their decoded payload: blocks whose payload does not decode are    *)
(* refused by the validator and never stored.                              *)
(***************************************************************************)
EXTENDS Dag, Utxo, Codec

CONSTANT GenesisTxs     \* the transactions of the genesis block

ASSUME GenesisAssumption == ApplyBlock(<<>>, GenesisTxs).ok

----------------------------------------------------------------------------
LedgerOver(genesisTxs) ==
    [dag |-> NewDag([parents |-> {}, work |-> 1, timestamp |-> 0, txs |-> genesisTxs]),
     states |-> [b \in {GenesisId} |-> ApplyBlock(<<>>, genesisTxs).utxo]]

NewLedger == LedgerOver(GenesisTxs)

\* Each block's transactions applied in order; a block that does not apply has no
\* effect.
ApplyAll(D, utxo, order) ==
    FoldLeft(LAMBDA acc, b : ApplyBlock(acc, D.nodes[b].block.txs).utxo, utxo, order)

\* A slip: the mergeset is not applied to the selected parent's state.
PreStateUnmerged(L, block) == L.states[Preview(L.dag, block).selected_parent]

\* A block's view before its own transactions: its selected parent's state, and the
\* mergeset applied to it in order.
PreState(L, block) ==
    LET merge(p) == ApplyAll(L.dag, L.states[p.selected_parent], p.mergeset)
    IN  merge(Preview(L.dag, block))

CanLedgerInsert(L, id, block) ==
    /\ CanInsert(L.dag, id, block)
    /\ ApplyBlock(PreState(L, block), block.txs).ok
    /\ ValidStructure(block.txs)

LedgerInsert(L, id, block) ==
    [dag |-> InsertBlock(L.dag, id, block),
     states |-> Put(L.states, id, ApplyBlock(PreState(L, block), block.txs).utxo)]

\* apply_dag: a whole DAG applied in linearized order to an empty set, with the
\* blocks that were accepted and what they moved.
ApplyDag(D) ==
    LET record(run, b, r) ==
            IF r.ok THEN [utxo |-> r.utxo, accepted |-> Append(run.accepted, b),
                          fees |-> run.fees + r.fees, minted |-> run.minted + r.minted]
            ELSE run
    IN  FoldLeft(LAMBDA run, b : record(run, b, ApplyBlock(run.utxo, D.nodes[b].block.txs)),
                 [utxo |-> <<>>, accepted |-> <<>>, fees |-> 0, minted |-> 0], Linearize(D))

\* A slip: the side blocks under the other tips are left out.
LedgerStateTipOnly(L) == L.states[SelectedTip(L.dag)]

\* ledger_state: the selected tip's state, and what follows it in the order.
LedgerState(L) ==
    LET after(order, tip) ==
            SubSeq(order, 1 + (CHOOSE i \in DOMAIN order : order[i] = tip), Len(order))
    IN  ApplyAll(L.dag, L.states[SelectedTip(L.dag)],
                 after(Linearize(L.dag), SelectedTip(L.dag)))

FailedLedger == [dag |-> Failed, states |-> <<>>]

\* The first record is the genesis block; the others are inserted over it, one after
\* the other, and all are lost when one of them is refused.
Replay(records) ==
    FoldLeft(LAMBDA acc, r : IF acc.dag # Failed /\ CanLedgerInsert(acc, r.id, r.block)
                             THEN LedgerInsert(acc, r.id, r.block)
                             ELSE FailedLedger,
             LedgerOver(Head(records).block.txs), Tail(records))

\* The header of a ledger snapshot, with the header of the DAG snapshot in it: magics,
\* versions, the subsidy and k, which all ledgers here share.
SnapshotHeader == <<"KVLG", 1, Subsidy, "KVDG", 3, K>>

WriteLedgerSnapshot(L) == SnapshotHeader \o EncodeRecords(WriteSnapshot(L.dag))

\* The blocks of a snapshot, inserted anew in the order they were written.
ReadLedgerSnapshot(bytes) ==
    LET read == DecodeRecords(SubSeq(bytes, 1 + Len(SnapshotHeader), Len(bytes)))
    IN  IF IsPrefix(SnapshotHeader, bytes) /\ read.ok /\ read.value # <<>>
        THEN Replay(read.value) ELSE FailedLedger
============================================================================

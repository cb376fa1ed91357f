------------------------------- MODULE MCNode ------------------------------
(***************************************************************************)
(* Node for TLC.                                                           *)
(***************************************************************************)
EXTENDS Node

Spend(name, outpoint, signer, outputs) ==
    [id |-> <<name, 0, 0>>, inputs |-> <<[outpoint |-> outpoint, signer |-> signer]>>,
     outputs |-> outputs]

Out(value, owner) == [value |-> value, owner |-> owner]

\* Genesis mints 4 to the founder.  pay and again spend it twice; onward spends the
\* output of pay, so that it applies only after pay.  Each is what prepare_transfer
\* builds for its amount.
MCGenesisTxs == <<Coinbase(4, "founder", 0)>>
genesisCoin == <<<<"founder", 0, 4>>, 1>>
pay    == Spend("pay", genesisCoin, "founder", <<Out(3, "bob")>>)
again  == Spend("again", genesisCoin, "founder", <<Out(1, "carol"), Out(2, "founder")>>)
onward == Spend("onward", <<<<"pay", 0, 0>>, 1>>, "bob", <<Out(2, "carol")>>)

\* onward comes before pay in the order of ids, again between them.
MCSpends == <<onward, again, pay>>

\* Of two blocks of one weight, now the earlier and now the later one wins the tie.
MCIdOrder == <<2, 3, 1>>

MCPeerTxs == {<<>>, <<again>>}

\* The ledger is saved at most once, with one block over genesis, and may be loaded
\* at any time.  The process is started again once there is a file, late, and with
\* nothing pending; a node without a ledger is relayed at most one transaction.  Blocks
\* without transactions are made where this node has no miner.
NextSavedOnce ==
    /\ Next
    /\ snap' # snap => snap = NoLedger /\ Cardinality(Blocks(D)) = 2
    /\ node'.ledger = NoLedger /\ Initialized =>
            snap # NoLedger /\ node.mempool = {} /\ node.clock = MaxClock
    /\ node'.ledger = NoLedger => Cardinality(node'.mempool) <= 1
    /\ \A b \in Blocks(D') \ Known : D'.nodes[b].block.txs # <<>> \/ node.miner = NoMiner

SpecSavedOnce == Init /\ [][NextSavedOnce]_vars
============================================================================

-------------------------------- MODULE Node -------------------------------
(***************************************************************************)
(* One node among honest peers: it pools, sends and mines, takes blocks    *)
(* and transactions from peers, saves and loads its ledger, is stopped and *)
(* started again.  A node runs on one thread and each command of rpc.rs    *)
(* calls one operation, so each is one step.                               *)
(***************************************************************************)
EXTENDS NodeRules

CONSTANTS
    IdOrder,        \* the ids the blocks get, in the order they are made
    Miner,          \* the founder: who mines here, and on the peers too
    Miners,         \* whom set_miner may name
    PeerTxs,        \* the spends a peer may put in a block, a set of sequences
    PeerTotals,     \* what a coinbase of a peer may pay, 0 for no coinbase
    MaxClock        \* bound on the clock, and on the lead of peers' clocks

ASSUME NodeMachineAssumption ==
    /\ IdOrder \in Seq(Nat \ {GenesisId}) /\ IsInjective(IdOrder)
    /\ MaxClock \in Nat

VARIABLES
    node,
    snap            \* the ledger in the snapshot file, NoLedger when there is none

vars == <<node, snap>>

D == node.ledger.dag
Known == Blocks(D) \cup Blocks(snap.dag)
Fresh == {IdOrder[i] : i \in {j \in DOMAIN IdOrder : j = Cardinality(Known)}}

Initialized == node.ledger # NoLedger

Init ==
    /\ node = FreshNode(0)
    /\ snap = NoLedger

\* AlreadyInitialized otherwise.
Found == ~Initialized /\ node' = Genesis(node, Miner) /\ UNCHANGED snap

SetMiner == \E m \in Miners : node' = [node EXCEPT !.miner = m] /\ UNCHANGED snap

\* pool and submit_signed: a transfer prepared over the current state is pending.
Pool ==
    /\ Initialized
    /\ \E tx \in Prepared(node) : node' = SubmitTx(node, tx)
    /\ UNCHANGED snap

\* A peer relays a transaction; nothing about it is checked, not even that there is a
\* ledger.
Submit == \E tx \in Range(Spends) : node' = SubmitTx(node, tx) /\ UNCHANGED snap

Insert(id, block, after) ==
    /\ CanLedgerInsert(node.ledger, id, block)
    /\ node' = after
    /\ UNCHANGED snap

Send ==
    /\ Initialized
    /\ \E id \in Fresh, tx \in Prepared(node) :
         Insert(id, SendBlock(node, tx), AcceptBlock(node, id, SendBlock(node, tx)))

ProduceEmpty ==
    /\ Initialized
    /\ \E id \in Fresh :
         Insert(id, EmptyBlock(node), AcceptBlock(node, id, EmptyBlock(node)))

ProduceBlock ==
    LET produce(id, block, selected) ==
            /\ selected # <<>>
            /\ Insert(id, block, AcceptProduced(node, id, block, selected))
    IN  Initialized /\ \E id \in Fresh :
            produce(id, PendingBlock(node, SelectPending(node)), SelectPending(node))

\* A block of an honest peer: over blocks this node has, dated after them, with
\* spends and perhaps a coinbase.  One that is refused changes nothing.
Receive ==
    \E id \in Fresh, ps \in SUBSET Blocks(D), timestamp \in 1..MaxClock,
       spends \in PeerTxs, total \in PeerTotals :
        LET block == [parents |-> ps, work |-> 1, timestamp |-> timestamp,
                      txs |-> (IF total = 0 THEN <<>>
                               ELSE <<Coinbase(total, Miner, timestamp)>>) \o spends]
        IN  /\ \A p \in ps : Timestamp(D, p) < timestamp
            /\ CanReceive(node, id, block)
            /\ node' = ReceiveBlock(node, id, block)
            /\ UNCHANGED snap

ClockRuns ==
    /\ node.clock < MaxClock
    /\ node' = [node EXCEPT !.clock = node.clock + 1]
    /\ UNCHANGED snap

Save == Initialized /\ snap' = node.ledger /\ UNCHANGED node

LoadSnapshot ==
    /\ snap # NoLedger
    /\ node' = Load(node, ReadLedgerSnapshot(WriteLedgerSnapshot(snap)))
    /\ UNCHANGED snap

\* The process ends, with all but the file, and a new one begins.
Restart == node' = FreshNode(node.clock) /\ UNCHANGED snap

Next ==
    \/ Pool \/ Submit \/ Send \/ ProduceEmpty \/ ProduceBlock \/ Receive
    \/ ClockRuns \/ Save \/ LoadSnapshot \/ Restart \/ Found \/ SetMiner

Spec == Init /\ [][Next]_vars

----------------------------------------------------------------------------
\* What the node builds, the ledger accepts: no transfer that prepare_transfer found
\* funds for, no selection from the mempool and no coinbase with its fees is refused
\* by insert, whatever tips there are to merge and however far ahead of the clock
\* they are, for whichever miner or none (produce_block: "Assemble the largest valid
\* prefix of the mempool").
ProducedAccepted ==
    LET accepted(block) == CanLedgerInsert(node.ledger, 1 + Max(Range(IdOrder)), block)
        pending(selected) == selected = <<>> \/ accepted(PendingBlock(node, selected))
    IN  Initialized =>
        /\ accepted(EmptyBlock(node))
        /\ pending(SelectPending(node))
        /\ \A tx \in Prepared(node) : accepted(SendBlock(node, tx))

\* tx has all its inputs in the ledger of a node.
Applicable(N, tx) == Spent(tx) \subseteq DOMAIN LedgerState(N.ledger)

\* The mempool is what can still apply.  A transaction leaves it only with the process,
\* or when it has lost an input: what a produced block took with it has taken effect.
\* And whenever the ledger grows, whoever made the block, what stays has all its inputs:
\* a double spend settled by the block does not linger (evict_invalid drops
\* "transactions that can never be valid against the current selected-tip UTXO view";
\* load leaves the mempool as it is).
PendingIsWhatApplies ==
    [][/\ node'.ledger # NoLedger =>
            \A tx \in node.mempool \ node'.mempool : ~Applicable(node', tx)
       /\ Blocks(D) # {} /\ Blocks(D) # Blocks(D') /\ node'.ledger # snap =>
            \A tx \in node'.mempool : Applicable(node', tx)]_vars

\* The history of an address explains its balance, as long as every block took effect:
\* no transfer is listed twice, missed or counted for the wrong side, across merged
\* branches and change outputs.  (history_json lists the transactions of a block
\* without effect like any others, so with one of those the two may differ.)
HistoryAddsUp ==
    LET sum(rows) == FoldLeft(LAMBDA s, r : s + r.delta, 0, rows)
    IN  Initialized /\ Len(ApplyDag(D).accepted) = Cardinality(Blocks(D)) =>
            \A addr \in {"founder", "bob", "carol"} :
                Balance(node, addr) = sum(History(node, addr))
============================================================================

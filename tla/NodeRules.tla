----------------------------- MODULE NodeRules -----------------------------
(***************************************************************************)
(* kovanica-node's Node and Mempool as values, and their operations as     *)
(* operators on them: node.rs, mempool.rs.                                 *)
(*                                                                         *)
(* A node N is a record [ledger, mempool, clock, miner].  Its blocks carry *)
(* a timestamp besides what LedgerRules needs.  No difficulty rule is set, *)
(* so the work of a produced block is 1, and its nonce is left out: mining *)
(* changes which id a block gets, and ids are arbitrary here anyway.       *)
(*                                                                         *)
(* Transactions are content-addressed.  The spends there are form a        *)
(* sequence in the order of their ids; a coinbase is told apart by what it *)
(* pays, to whom and its tag, the timestamp of its block.                  *)
(***************************************************************************)
EXTENDS LedgerRules

CONSTANTS
    Spends,         \* the spends there are, in the order of their ids
    HalvingEra,     \* HALVING_ERA: blocks per subsidy-halving era
    MaxDrift,       \* MAX_FUTURE_DRIFT_MS
    NoMiner         \* the miner of a node that has none

ASSUME NodeAssumption == HalvingEra \in Nat \ {0} /\ MaxDrift \in Nat

\* Node::new: there is no ledger yet.
NoLedger == FailedLedger

FreshNode(clock) ==
    [ledger |-> NoLedger, mempool |-> {}, clock |-> clock, miner |-> NoMiner]

\* genesis: the founder mines.
Genesis(N, founder) == [N EXCEPT !.ledger = NewLedger, !.miner = founder]

NewNode(clock, founder) == Genesis(FreshNode(clock), founder)

\* load replaces the ledger by the one the file decodes to, and leaves the rest alone.
Load(N, ledger) == [N EXCEPT !.ledger = ledger]

Timestamp(D, b) == D.nodes[b].block.timestamp

\* A slip: the timestamp is the clock, even when a parent is ahead of it.
NextTimestampUnclamped(N, parents) == N.clock

NextTimestamp(N, parents) ==
    Max({N.clock} \cup {Timestamp(N.ledger.dag, p) + 1 : p \in parents})

MinFee == Max({Subsidy \div 500000, 1})

\* cap >> (height / HALVING_ERA), zero from the 63rd era on.
IssuanceAt(height) ==
    IF height \div HalvingEra >= 63 THEN 0 ELSE Subsidy \div 2 ^ (height \div HalvingEra)

Coinbase(total, miner, tag) ==
    [id |-> <<miner, tag, total>>, inputs |-> <<>>,
     outputs |-> <<[value |-> total, owner |-> miner]>>]

\* The coinbase of the next block, if there is a miner and something to mint.
IssuanceTxs(N, timestamp, fees) ==
    LET mint(total) == IF N.miner = NoMiner \/ total = 0 THEN <<>>
                       ELSE <<Coinbase(total, N.miner, timestamp)>>
    IN  mint(Min({MaxValue, IssuanceAt(Cardinality(Blocks(N.ledger.dag))) + fees}))

----------------------------------------------------------------------------
(***************************************************************************)
(* The mempool.                                                            *)
(***************************************************************************)
Ordered(mempool) == SelectSeq(Spends, LAMBDA tx : tx \in mempool)

\* evict_invalid: what has an input that is not unspent is dropped.
EvictInvalid(mempool, utxo) == {tx \in mempool : Spent(tx) \subseteq DOMAIN utxo}

\* A slip: the mempool is left as it is.
EvictMempoolNot(N) == N

EvictMempool(N) ==
    [N EXCEPT !.mempool = EvictInvalid(N.mempool, LedgerState(N.ledger))]

SubmitTx(N, tx) == [N EXCEPT !.mempool = N.mempool \cup {tx}]

\* prepare_transfer: tx spends one output of the sender, the least that covers the
\* amount and the fee, and returns the change.  Of several such outputs the code
\* takes the one with the least outpoint, which is any of them here.
IsPrepared(utxo, tx) ==
    LET from == tx.inputs[1].signer
        need == tx.outputs[1].value + MinFee
        covering == {op \in DOMAIN utxo : utxo[op].owner = from /\ utxo[op].value >= need}
        change(value) == IF value = need THEN <<>>
                         ELSE <<[value |-> value - need, owner |-> from]>>
    IN  /\ Len(tx.inputs) = 1
        /\ tx.inputs[1].outpoint \in covering
        /\ \A op \in covering : utxo[tx.inputs[1].outpoint].value <= utxo[op].value
        /\ Tail(tx.outputs) = change(utxo[tx.inputs[1].outpoint].value)

Prepared(N) ==
    LET over(utxo) == {tx \in Range(Spends) : IsPrepared(utxo, tx)}
    IN  over(LedgerState(N.ledger))

----------------------------------------------------------------------------
(***************************************************************************)
(* Producing and receiving blocks.                                         *)
(***************************************************************************)

\* The pending transactions that apply one after the other, in the order of ids.
SelectPending(N) ==
    LET add(acc, tx, r) == IF r.ok THEN [utxo |-> r.utxo, txs |-> Append(acc.txs, tx)] ELSE acc
    IN  FoldLeft(LAMBDA acc, tx : add(acc, tx, ApplyBlock(acc.utxo, <<tx>>)),
                 [utxo |-> LedgerState(N.ledger), txs |-> <<>>], Ordered(N.mempool)).txs

\* fee_of, in the state before the block: an input that another transaction of the
\* block creates counts as nothing.
FeeOf(utxo, tx) ==
    LET known == Spent(tx) \cap DOMAIN utxo
    IN  Max({0, MapThenSumSet(LAMBDA op : utxo[op].value, known) - SumOut(tx)})

FeesOf(utxo, txs) == FoldLeft(LAMBDA sum, tx : sum + FeeOf(utxo, tx), 0, txs)

BlockOver(N, timestamp, txs) ==
    [parents |-> N.ledger.dag.tips, work |-> 1, timestamp |-> timestamp, txs |-> txs]

\* The blocks that send, produce_empty and produce_block build.
SendBlock(N, tx) == BlockOver(N, NextTimestamp(N, N.ledger.dag.tips), <<tx>>)

EmptyBlock(N) ==
    LET at(timestamp) == BlockOver(N, timestamp, IssuanceTxs(N, timestamp, 0))
    IN  at(NextTimestamp(N, N.ledger.dag.tips))

PendingBlock(N, selected) ==
    LET at(timestamp) ==
            BlockOver(N, timestamp,
                      IssuanceTxs(N, timestamp, FeesOf(LedgerState(N.ledger), selected))
                        \o selected)
    IN  at(NextTimestamp(N, N.ledger.dag.tips))

AcceptBlock(N, id, block) ==
    EvictMempool([N EXCEPT !.ledger = LedgerInsert(N.ledger, id, block)])

\* produce_block, once the block is in: what it includes is pending no more.
AcceptProduced(N, id, block, selected) ==
    AcceptBlock([N EXCEPT !.mempool = N.mempool \ Range(selected)], id, block)

\* receive_block succeeds: the block is not too far ahead of the clock, and is
\* present already or accepted by the ledger.
CanReceive(N, id, block) ==
    /\ block.timestamp <= N.clock + MaxDrift
    /\ id \in Blocks(N.ledger.dag) \/ CanLedgerInsert(N.ledger, id, block)

ReceiveBlock(N, id, block) ==
    IF id \in Blocks(N.ledger.dag) THEN N ELSE AcceptBlock(N, id, block)

\* export: all blocks but genesis, in the linearized order.
Export(N) == Tail(WriteSnapshot(N.ledger.dag))

\* gossip, pull_blocks and pull_blocks_timeout: records are taken in up to the first
\* that is refused.
ReceiveAll(N, records) ==
    LET take(acc, r) ==
            IF acc.ok /\ CanReceive(acc.node, r.id, r.block)
            THEN [ok |-> TRUE, node |-> ReceiveBlock(acc.node, r.id, r.block)]
            ELSE [ok |-> FALSE, node |-> acc.node]
    IN  FoldLeft(take, [ok |-> TRUE, node |-> N], records).node

----------------------------------------------------------------------------
(***************************************************************************)
(* What a wallet is shown.                                                 *)
(***************************************************************************)
UtxosOf(N, owner) ==
    LET rows(utxo) == {<<op, utxo[op].value>> : op \in {o \in DOMAIN utxo : utxo[o].owner = owner}}
    IN  rows(LedgerState(N.ledger))

Balance(N, owner) == MapThenSumSet(LAMBDA row : row[2], UtxosOf(N, owner))

\* A slip: what a transaction spends is not looked up.
DeltaPaid(txs, tx, addr) ==
    LET paid(s) == FoldLeft(LAMBDA sum, o : IF o.owner = addr THEN sum + o.value ELSE sum, 0, s)
    IN  paid(tx.outputs)

\* What a transaction gives to an address, less what it takes from it.  The spent
\* outputs are looked up among the transactions there are, applied or not.
Delta(txs, tx, addr) ==
    LET paid(s) == FoldLeft(LAMBDA sum, o : IF o.owner = addr THEN sum + o.value ELSE sum, 0, s)
        prev(op) == {t.outputs[op[2]] : t \in {u \in txs : u.id = op[1] /\ op[2] \in DOMAIN u.outputs}}
    IN  paid(tx.outputs) - paid(FlattenSeq([i \in DOMAIN tx.inputs |->
                                    SetToSeq(prev(tx.inputs[i].outpoint))]))

\* The transactions of every block of the order.
OrderedTxs(D) == FoldLeft(LAMBDA txs, b : txs \o D.nodes[b].block.txs, <<>>, Linearize(D))

\* history_json: the transactions that moved something, and what.
History(N, addr) ==
    LET rows(txs, all) ==
            [i \in DOMAIN txs |-> [tx |-> txs[i].id, delta |-> Delta(all, txs[i], addr)]]
        moved(txs) == SelectSeq(rows(txs, Range(txs)), LAMBDA r : r.delta # 0)
    IN  moved(OrderedTxs(N.ledger.dag))
============================================================================

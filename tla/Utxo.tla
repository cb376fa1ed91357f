-------------------------------- MODULE Utxo -------------------------------
(***************************************************************************)
(* The UTXO rules of kovanica-state as operators: apply_block and what it  *)
(* calls (ledger.rs), and the structural checks (validation.rs).           *)
(*                                                                         *)
(* A UTXO set is a function from outpoints <<txid, index>> to outputs      *)
(* [value, owner].  A transaction is [id, inputs, outputs], its inputs     *)
(* [outpoint, signer]; a signature verifies iff its signer owns the spent  *)
(* output.  Values are u64s: a sum above MaxValue overflows.               *)
(***************************************************************************)
EXTENDS Integers, Sequences, FiniteSets, FiniteSetsExt, Functions, SequencesExt

CONSTANTS
    Subsidy,        \* the issuance allowance of a block
    MaxValue        \* the largest value, u64::MAX in the code

ASSUME UtxoAssumption == MaxValue \in Nat /\ Subsidy \in 0..MaxValue

IsCoinbase(tx) == tx.inputs = <<>>

OutPoints(tx) == {<<tx.id, i>> : i \in DOMAIN tx.outputs}
Spent(tx) == {tx.inputs[i].outpoint : i \in DOMAIN tx.inputs}
SumIn(utxo, tx) == MapThenSumSet(LAMBDA op : utxo[op].value, Spent(tx))
SumOut(tx) == FoldLeft(LAMBDA sum, o : sum + o.value, 0, tx.outputs)
TotalValue(utxo) == MapThenSumSet(LAMBDA op : utxo[op].value, DOMAIN utxo)

\* The outcome of applying something: the new set, and the value that moved.
Applied(utxo, value) == [ok |-> TRUE, utxo |-> utxo, value |-> value]
Rejected(utxo) == [ok |-> FALSE, utxo |-> utxo, value |-> 0]

\* Every output becomes unspent, unless its outpoint exists already.
AddOutputs(utxo, tx, value) ==
    IF OutPoints(tx) \cap DOMAIN utxo # {} THEN Rejected(utxo)
    ELSE Applied([op \in DOMAIN utxo \cup OutPoints(tx) |->
                    IF op \in OutPoints(tx) THEN tx.outputs[op[2]] ELSE utxo[op]], value)

\* A slip: the spent outputs stay in the set.
ApplyRegularUnspent(utxo, tx) ==
    IF /\ Spent(tx) \subseteq DOMAIN utxo
       /\ \A i \in DOMAIN tx.inputs :
            utxo[tx.inputs[i].outpoint].owner = tx.inputs[i].signer
    THEN AddOutputs(utxo, tx, SumIn(utxo, tx) - SumOut(tx))
    ELSE Rejected(utxo)

\* A spend: distinct inputs, all unspent and signed by their owners, non-zero
\* outputs that do not exceed them.  Its value is the fee.
ValidSpend(utxo, tx, sumIn) ==
    /\ tx.inputs # <<>> /\ tx.outputs # <<>>
    /\ Cardinality(Spent(tx)) = Len(tx.inputs)
    /\ \A i \in DOMAIN tx.inputs :
         utxo[tx.inputs[i].outpoint].owner = tx.inputs[i].signer
    /\ \A i \in DOMAIN tx.outputs : tx.outputs[i].value > 0
    /\ sumIn <= MaxValue /\ SumOut(tx) <= sumIn

ApplyRegular(utxo, tx) ==
    IF /\ Spent(tx) \subseteq DOMAIN utxo
       /\ ValidSpend(utxo, tx, SumIn(utxo, tx))
    THEN AddOutputs([op \in DOMAIN utxo \ Spent(tx) |-> utxo[op]], tx,
                    SumIn(utxo, tx) - SumOut(tx))
    ELSE Rejected(utxo)

\* A slip: the claim is not compared with the allowance.
ApplyCoinbaseUnbounded(utxo, cb, allowed) == AddOutputs(utxo, cb, SumOut(cb))

\* A coinbase may claim what it is allowed.  Its value is what it mints.
ApplyCoinbase(utxo, cb, allowed) ==
    IF /\ \A i \in DOMAIN cb.outputs : cb.outputs[i].value > 0
       /\ SumOut(cb) <= allowed
    THEN AddOutputs(utxo, cb, SumOut(cb))
    ELSE Rejected(utxo)

\* The spends of a block in order, with the sum of their fees.
ApplySpends(utxo, txs) ==
    LET addFee(acc, r) == IF acc.ok /\ r.ok /\ acc.value + r.value <= MaxValue
                          THEN Applied(r.utxo, acc.value + r.value) ELSE Rejected(utxo)
    IN  FoldLeft(LAMBDA acc, tx : addFee(acc, ApplyRegular(acc.utxo, tx)),
                 Applied(utxo, 0), txs)

\* The coinbase comes last: it may claim the subsidy and the fees.
CloseBlock(utxo, cbs, spends) ==
    LET close(minted) ==
            IF spends.ok /\ Subsidy + spends.value <= MaxValue /\ minted.ok
            THEN [ok |-> TRUE, utxo |-> minted.utxo,
                  fees |-> spends.value, minted |-> minted.value]
            ELSE [ok |-> FALSE, utxo |-> utxo, fees |-> 0, minted |-> 0]
    IN  close(IF cbs = <<>> THEN Applied(spends.utxo, 0)
              ELSE ApplyCoinbase(spends.utxo, cbs[1], Subsidy + spends.value))

\* One failure and the block leaves the set as it was.  A transaction without inputs
\* is the coinbase at the head of the block, and fails as a spend elsewhere.
ApplyBlock(utxo, txs) ==
    LET n == IF txs # <<>> /\ IsCoinbase(Head(txs)) THEN 1 ELSE 0
    IN  CloseBlock(utxo, SubSeq(txs, 1, n), ApplySpends(utxo, SubSeq(txs, n + 1, Len(txs))))

\* The checks of validate_block_payload, which look at no state: TxStructureValidator
\* runs them inside Dag::insert.
ValidStructure(txs) ==
    \A i \in DOMAIN txs :
        LET tx == txs[i]
        IN  /\ IF IsCoinbase(tx) THEN i = 1 ELSE tx.outputs # <<>>
            /\ Cardinality(Spent(tx)) = Len(tx.inputs)
            /\ \A o \in DOMAIN tx.outputs : tx.outputs[o].value > 0
            /\ SumOut(tx) <= MaxValue
============================================================================

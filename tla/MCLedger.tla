------------------------------ MODULE MCLedger -----------------------------
(***************************************************************************)
(* Ledger for TLC.                                                         *)
(***************************************************************************)
EXTENDS Ledger

Coinbase(id, value, owner) ==
    [id |-> id, inputs |-> <<>>, outputs |-> <<[value |-> value, owner |-> owner]>>]

Spend(id, funds, signer, value, owner) ==
    [id |-> id, inputs |-> <<[outpoint |-> <<funds, 1>>, signer |-> signer]>>,
     outputs |-> <<[value |-> value, owner |-> owner]>>]

\* Genesis mints to alice.  pay and again spend it twice: to bob with a fee, and
\* back to alice without.  onward spends bob's output, so it needs pay first.
\* reward and bonus mint: the bonus needs the fee of pay.
genesisTx == Coinbase("g", 4, "alice")
pay    == Spend("pay", "g", "alice", 3, "bob")
again  == Spend("again", "g", "alice", 4, "alice")
onward == Spend("onward", "pay", "bob", 3, "carol")
reward == Coinbase("reward", 4, "bob")
bonus  == Coinbase("bonus", 5, "carol")

MCGenesisTxs == <<genesisTx>>

MCPayloads == {<<>>, <<pay>>, <<again>>, <<onward>>, <<reward>>, <<bonus>>, <<bonus, pay>>, <<pay, onward>>}

\* The ids in order of arrival: of two blocks of one weight, now the earlier and
\* now the later one wins the tie.
Arrival == <<2, 4, 1, 3>>

NextInOrder ==
    \E w \in Works, ps \in ParentSets, txs \in Payloads :
        Insert(Arrival[Cardinality(Blocks(ledger.dag))],
               [parents |-> ps, work |-> w, timestamp |-> 0, txs |-> txs])

SpecInOrder == Init /\ [][Ids \ Blocks(ledger.dag) # {} /\ NextInOrder]_vars
============================================================================

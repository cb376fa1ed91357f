------------------------------- MODULE MCMesh ------------------------------
(***************************************************************************)
(* Mesh for TLC.                                                           *)
(***************************************************************************)
EXTENDS Mesh

Spend(name, outpoint, signer, outputs) ==
    [id |-> <<name, 0, 0>>, inputs |-> <<[outpoint |-> outpoint, signer |-> signer]>>,
     outputs |-> outputs]

Out(value, owner) == [value |-> value, owner |-> owner]

\* Genesis mints 4 to the founder.  pay and again spend it twice; onward spends the
\* output of pay.  Each is what prepare_transfer builds for its amount.
MCGenesisTxs == <<Coinbase(4, "founder", 0)>>
genesisCoin == <<<<"founder", 0, 4>>, 1>>
pay    == Spend("pay", genesisCoin, "founder", <<Out(3, "bob")>>)
again  == Spend("again", genesisCoin, "founder", <<Out(1, "carol"), Out(2, "founder")>>)
onward == Spend("onward", <<<<"pay", 0, 0>>, 1>>, "bob", <<Out(2, "carol")>>)

MCSpends == <<onward, again, pay>>

\* Two of the nodes share a clock, so that they may build the same block.
MCClock == [n \in Names |-> IF n = 1 THEN 0 ELSE 1]

\* Ids out of order: of two blocks of one weight, now the earlier and now the later
\* one wins the tie.
MCIdOrder == <<2, 4, 1, 3>>

\* Nothing has been made yet, nor pooled.
Quiet == made = <<>> /\ \A n \in Names : nodes[n].mempool = {}

\* The nodes are connected in any order, also while hellos are under way, and as in
\* the explorer the overlay has settled before anything is made.
Started == ~Quiet \/ (Idle /\ \A n \in Names : peers[n] = Names \ {n})

\* Each node has its part: one mines, one holds the wallet, one mines what is pending.
\* Only the first pulls, as only alpha does in the explorer.
NextStarted ==
    \/ Quiet /\ Len(queue) < MaxQueue /\ \E n, m \in Names : Connect(n, m)
    \/ Started /\ (ProduceEmpty(1) \/ Send(2) \/ Pool(2) \/ Produce(3))
    \/ Started /\ \E m \in Names \ {1} : Pull(1, m)
    \/ Relay

SpecStarted == Init /\ [][NextStarted]_vars /\ Fairness
============================================================================

# Verification of the Kovanica ledger

TLA+ specifications of [kovanica-ledger](../src), model-checked with TLC and, from
the block DAG to the ledgers of a mesh, proved with TLAPS. Every definition that stands for code is
listed in `PROJECT.json` under `map` with the lines it translates.

## The system

Kovanica is a block-DAG ledger in three crates.

| Component | State | Operations | Interacts with |
|---|---|---|---|
| `kovanica-dag`: block DAG (`dag.rs`, `block.rs`) | `nodes` (block, GHOSTDAG data, `past_size`), `tips`, the oracle | `new`, `insert`, `preview`, queries | GHOSTDAG, oracle, validator, difficulty, PoW |
| GHOSTDAG (`ghostdag.rs`) | none of its own: derives selected parent, blues, reds, `blue_score`, `blue_work`, `blue_anticone_sizes` | `compute_ghostdag`, `try_colour_blue` | reads the DAG, called by `insert` |
| Total order (`ordering.rs`) | none | `selected_tip`, `selected_chain`, `linearize` | ledger and snapshots replay it |
| Reachability oracle (`reachability.rs`) | tree intervals, future-covering sets, subtree sizes, free capacity | `build`, `add_block` (allocate or reindex), `is_ancestor` | updated at the end of `insert`, asked by everything |
| Snapshots (`snapshot.rs`) | bytes | `write_snapshot`, `read_snapshot` | replays through `insert` |
| Difficulty, PoW, validation hooks (`difficulty.rs`, `pow.rs`, `validation.rs`) | policy only | `next_work`, `meets_target`, `mine`, `validate` | may refuse a block inside `insert` |
| `kovanica-state`: UTXO rules (`utxo.rs`, `tx.rs`, `validation.rs`, `ledger.rs`) | a UTXO set | `apply_block`, `validate_block_payload` | pure |
| Ledger (`ledger.rs`) | the DAG, `states` (a UTXO set per block, in its own view), `finality_depth` | `insert`, `ledger_state`, `apply_dag`, `prune`, snapshot, restore | owns a DAG |
| Ledger log (`store.rs`) | an append-only file | `create`, `open`, `append` | replays through `Ledger::insert` |
| `kovanica-node`: node, mempool (`node.rs`, `mempool.rs`) | a ledger, pending transactions, a clock, a miner | submit, produce, receive, evict, save, load | owns a ledger |
| Mesh, transport, relay (`p2p.rs`, `net.rs`, `relay.rs`) | queues of messages, seen sets | hello, gossip, pull | moves blocks and transactions between nodes |
| Explorer (`explorer.rs`) | a mesh, the files of its nodes, a marker of the network, a listener and its backlog | boot, requests, ticks (mine, serve, pull), reset, saving | drives the mesh; pulls from other hosts |
| Command line, binaries (`rpc.rs`, `main.rs`, `network.rs`) | none | one command, one operation of a node | drives a node |

What is hard in it, and to be looked for with a model checker rather than with
unit tests (the list with lines is `hazards` in `PROJECT.json`):

* blocks arrive in any order at each node, and everything derived must be a
  function of the set of blocks alone;
* the derived data are maintained incrementally and never recounted (`past_size`,
  `blue_score`, `blue_anticone_sizes`, intervals, future-covering sets, view
  states), so one wrong step corrupts all later ones;
* views: a block is validated against the state of *its* past, and the same
  transactions are applied in other views where they may conflict;
* re-organisations, finality and pruning: a state that was dropped may be needed;
* crashes between writes and in the middle of one, messages that arrive before what
  they depend on, streams that end early;
* two hosts that pull from each other on the threads that would have to answer, and
  connections that were given up and are still waiting to be accepted;
* arithmetic at fixed widths, in the retarget and in the target test.

## The modules

| Module | Models | State | Actions |
|---|---|---|---|
| `Dag` | the DAG as a value; colouring, order, snapshots as operators | – | – |
| `Difficulty` | retargeting and the proof-of-work test, with their integer widths | – | – |
| `BlockDag` | one DAG that grows by `insert`, under the rules in force | `dag`, `difficulty`, `require_pow` | `InsertAny`, `SetDifficulty`, `SetProofOfWork`, `Restore` |
| `Ghostdag` | `insert` one loop iteration of `compute_ghostdag` at a time | `blocks`, `tips`, `node`, `cur`, `rest` | `Begin`, `ColourBlue`, `ColourRed`, `Commit`, `Refuse` |
| `Finality` | the finality check, the state lookup and pruning of `Ledger::insert` over `Ghostdag` | `states`, `panicked` | `LedgerBegin`, `LedgerPanic`, `LedgerColour`, `LedgerCommit`, `LedgerRefuse` |
| `Reachability` | the incremental oracle | intervals, `fcs`, tree, sizes, capacity, and the reference pasts | `AddBlock`, `AddBlockReindexing` |
| `Utxo` | `apply_block` and the structural checks as operators | – | – |
| `Codec` | the encodings of transactions, blocks and snapshots, and their readers | – | – |
| `Relay` | the messages of a relay session, their frames, what `send` writes and `recv` refuses | – | – |
| `LedgerRules` | the ledger as a value: per-view states, `ledger_state`, `apply_dag`, restore; composes `Dag`, `Utxo` and `Codec` | – | – |
| `Ledger` | one ledger that grows by `Ledger::insert` | `ledger` | `Insert` |
| `LedgerStore` | the append-only log, one write at a time, and a process that is killed, beside the ledger of `Ledger` | `file`, `writing`, `up`, `open`, `unlogged`, `acked` and `ledger` | `Create`, `InsertBlockOver`, `Persist`, `Write`, `Crash`, `Open`, `StartAnew` |
| `NodeRules` | node and mempool as a value over `LedgerRules` | – | – |
| `Node` | one node among honest peers | `node`, `snap` | `Found`, `SetMiner`, `Pool`, `Submit`, `Send`, `ProduceEmpty`, `ProduceBlock`, `Receive`, `ClockRuns`, `Save`, `LoadSnapshot`, `Restart` |
| `Mesh` | several nodes, the gossip overlay and pulls; uses `NodeRules` and `Relay` | `nodes`, `peers`, `queue`, `due`, `seen_blocks`, `seen_txs`, `made` | `Connect`, `ProduceEmpty`, `Produce`, `Send`, `Pool`, `Pull`, `Tick`, `OnHello`, `OnBlock`, `OnTx` |
| `Explorer` | hosts that run the nodes of `Mesh`, keep them in files, answer requests and pull from each other; they may be killed anywhere | those of `Mesh`, `host`, `backlog`, `files`, `marker`, `kills` | `Start`, `Kill`, one `Post…` per request, `HostTick`, and the steps of what was begun: `Wipe`, `Mark`, `LoadNode`, `ConnectLine`, `Drain`, `SaveSnap`, `SaveMiner`, `Listen`, `CloseOld`, `ForkEmpty`, `ForkSend`, `Mine`, for one who pulls `Dial`, `ConnectFails`, `ReadFails`, `Receive`, for one who serves `NobodyThere`, `Serve`, `WriteEnds` |
| `DataTheorems` | lemmas: induction through sets; sums; a fold, step by step | – | – |
| `DagTheorems`, `LedgerTheorems` | lemmas about the operators of `Dag`, of `Codec`, `Utxo` and `LedgerRules` | – | – |
| `GhostdagProofs`, `ReachabilityProofs` | theorems about `Ghostdag` and `Finality`, about `Reachability` | | |
| `BlockDagProofs`, `LedgerProofs`, `MeshProofs` | theorems about `BlockDag`, about `Ledger` and `LedgerStore`, about `Mesh` | | |
| `MC*` | instances for TLC | | |

How the state corresponds to the code:

* A block id is a BLAKE3 hash, of which the code uses only the order. Ids are
  natural numbers handed out in any order. A block's content (payload, nonce,
  timestamp) is left out where nothing looks at it.
* `Dag` keeps with each node its `past`. The code answers `is_ancestor` from the
  oracle; `Reachability` shows that its answers are exactly these pasts.
* `children` of a node is written and never read, and is left out.
* `insert` and `Ledger::insert` take `&mut self`: they are atomic, and a refused
  block changes nothing. A refusal is therefore no step of `BlockDag` and `Ledger`.
  `Ghostdag` and `Finality` take the insertion apart to show that each loop
  iteration keeps the data exact; there a refusal drops what was derived.
* `mergeset_ordered` walks backwards over parent edges up to the selected parent's
  past. `Dag!MergesetOrdered` models the walk; `Ghostdag!Begin` states the set it
  finds, and the refinement checks that they agree.
* A reindex lays children out by id and does not sort the future-covering sets again,
  so they may be out of the interval order their doc promises. `partition_point` on
  such a vector returns some boundary of the predicate: `Reachability!PartitionPoints`
  is the set of all of them. Run `reachability` shows that nothing depends on the order.
* A node and the mesh run on one thread. Each operation of a node is one step; a
  `tick` of the mesh starts a delivery in which each envelope is a step, and the other
  operations wait for its end. Every envelope is due one tick after it was queued, so
  a tick takes the whole queue.
* In `Mesh` the id of a block is a function of its content, as the hash is: two nodes
  that build the same block build one block. In `Node` and `LedgerStore`, with one
  node, fresh ids do.
* Transactions come from a small set (`Spends`); `prepare_transfer` is the predicate
  that one of them is what the function would build. Of several outputs of one value
  the code takes the one with the least outpoint, the model any. A coinbase is
  identified by miner, timestamp and total, which is its whole content.
* In `NodeRules` and above no difficulty is set, so produced blocks have work 1, and
  the ids are arbitrary, as those of mined blocks are. Both rules are in `BlockDag`.
* In `Difficulty` a `u64` is one digit to the base `Base` (2^64 in the code), a `u128` two
  and an id four. With a base of 8, every work and ids on both sides of each limb can be
  tried.
* A byte string of `Codec` is the sequence of fields that single writes append. All
  readers check bounds and read a field whole or report the end of the input, so a
  string cut inside a field reads like one cut before it. Ids are hashes and are not
  written: the nonce of a block and the tag of a transaction stand for what they
  depend on.
* `MaxFrame`, `LengthLimit` and `CountLimit` of `Relay` (4 MiB, 2^32, 2^16 in the code)
  count fields, too. `send` writes any message with its length modulo 2^32, a hello counts
  names modulo 2^16, and `recv` refuses what is above `MaxFrame`. A session ends at the
  first error; what a receiver that goes on reads is not modelled.
* A host of `Explorer` has one thread. What it has begun is a list of things to do,
  in the order of the code; it looks at requests and ticks only when the list is empty.
  The three nodes of a demo mesh are any line of nodes, and any tick may be one on
  which the host pulls or mines.
* A file is what it would load as. A kill in the middle of `fs::write` leaves a prefix
  of the bytes: for a snapshot every one of them goes through `ReadLedgerSnapshot`, a
  part of a miner file does not parse.
* On a reset `*app = boot_persist()` binds the address while the old listener is still
  alive and drops that afterwards: `Listen` has no effect, and `CloseOld` ends both the
  listening and the connections that wait. A second reset finds the address free.
* A pull is a connection in four steps. `Dial` puts the peer into the backlog of the
  listener, which the system does without the host: so a peer may connect between the
  `accept` of a tick that finds nobody and the pulls of that tick, and two hosts may wait
  for each other. `ReadFails` gives up and leaves a closed connection (`Gone`) in the
  backlog, where `Serve` meets it before a live one. `Serve` exports the blocks at the
  moment it accepts; the peer takes all or a part of them in `Receive`, and the write
  ends by itself if it fits into the buffers, else when the peer no longer reads.
* The log of `LedgerStore` is a sequence of writes (header, length prefix, body), each
  of which a kill may cut short. A cut prefix followed by more bytes gives a length
  that is out of bounds or shifts the body so that it does not decode.
* Values are naturals up to `MaxValue`, above which the checked sums fail as they
  do at `u64::MAX`.

Definitions that a comment introduces with "A slip:" take no part in the
specifications. Each is what a plausible mistake would make of the definition that
follows it, and shows that the properties notice (`mutants` in `PROJECT.json`).

## The runs

`tlc -config <cfg> <module>`. Deadlock checking is off where the system stops when the
bounded supply of ids is used up.

| Run | Config | Shows |
|---|---|---|
| `block_dag` | `MCBlockDag.cfg` | every DAG of up to four blocks over genesis, all id and arrival orders, two works, k = 1, without rules; of three under a difficulty policy, proof of work or both: linearization topological, its tail the virtual mergeset, every arrival order rebuilds the same DAG and refuses nothing, what a miner is told to mine is accepted, work follows the block rate, the limb arithmetic is exact |
| `ghostdag` | `MCGhostdag.cfg` | the inductive invariant, what it implies, and `Ghostdag` implements `BlockDag` |
| `finality_uniform` | `MCFinality.cfg` | six blocks of one work: the tip keeps its state, finality only rises, no panic |
| `finality_panic` | `MCFinalityPanic.cfg` | works 1 and 9: `NoPanic` is violated |
| `finality_reorg` | `MCFinalityReorg.cfg` | one work: `FinalChainStable` is violated |
| `reachability` | `MCReachability.cfg` | five blocks in an interval of width 12: oracle exact, intervals mirror the tree and hold its subtrees, future-covering sets as built from scratch |
| `ledger` | `MCLedger.cfg` | four blocks with seven payloads: states, ledger state, restore and replay agree; supply conserved; no double spend |
| `ledger_store` | `MCLedgerStore.cfg` | three blocks without transactions, kills that cut any write: a log that opens lacks no acknowledged block, and the log restores to the ledger unless a length prefix was cut |
| `ledger_store_torn` | `MCLedgerStoreTorn.cfg` | with cut prefixes, `LogIsLedger` is violated |
| `node` | `MCNode.cfg` | from `Node::new` on, three blocks over genesis, made here or by peers, a double spend and a chained spend, one snapshot that is loaded at any time, a restart: the node accepts what it builds; the mempool loses only what cannot apply and keeps, after a block, only what has its inputs; the history of an address adds up to its balance |
| `mesh` | `MCMesh.cfg` | three nodes connected in any order, four blocks with transfers, pooled transactions and coinbases, and pulls: the overlay closes, what is seen is held, equal blocks give equal ledgers, pulls are complete, what is under way arrives over a relay session as it was sent, up to the first message that is too large, and a frame that is cut anywhere brings none, the flood ends and then the ledgers agree |
| `explorer` | `MCExplorer.cfg` | two hosts, one with a mesh of two nodes that pulls from the other, booted over files of another network, kills and resets; and two hosts that pull from each other, in every interleaving of their steps: no foreign ledger runs, an idle host has saved what it holds, a pull that breaks off changes nothing, every host ends what it begins; no deadlock |

Bounds. Four blocks are the fewest for the k-cluster rule to refuse a candidate
because of a blue already accepted, and for two branches of two; six allow
mergesets of three (`finality_uniform`). `MaxParents` bounds the branching. In `reachability` a width
of 12 makes the halving allocation run out after three blocks, so that reindexes
happen both at the root and at an inner anchor; the real width of 2^63 only delays
that to chains or fans of 63 blocks. `Depth` 1 and 2 make blocks final within the
bound. The payloads of `ledger` contain a double spend, a chained spend, a fee and
a coinbase that needs the fee.

In `node` the peers' coinbases pay 0 or 4, so that equal coinbases in parallel blocks
occur, and the subsidy halves within the bound. `MaxDrift` is 1 in `node`, so that
blocks ahead of the clock arrive, and 4 in `mesh`, so that a chain of the bounded
length is never too far ahead for a peer. In `mesh` the nodes make
nothing before the overlay has settled, as in the explorer, which drains the mesh
when it boots. Each of its nodes has a part: one mines, one holds the wallet, one
mines what is pending, and only the first pulls, as only `alpha` does. `MaxQueue` bounds
what waits when a connection or a transaction is added. `NextSavedOnce` of `MCNode` saves
one ledger, with one block over genesis, and restarts late and with nothing pending: a
load over a longer, a shorter and a diverging ledger all happen. Blocks without any
transaction occur only while the node has no miner.

`MCBlockDag` sets the rules before the first block, as their users do. One interval is
measured (`window` 1), so that with three blocks the work rises and falls again and
meets the clamp and the floor. The ids lie in different limbs, and `TargetExact` tries
each with every work there is.

A hello is 4 or 5 fields long in `mesh`, a transaction 12 or 14, a block 14 to 25. With
`MaxFrame` 15 the longest that fits and longer ones occur; with `LengthLimit` 20 some of
those have a length that wraps and is then below `MaxFrame`; with `CountLimit` 2 the count
of a hello with two names wraps to 0.

Run `explorer` holds two plays, each of two of its three hosts. There are two blocks, one
spend, two requests and one kill (`MaxRequests`, `MaxKills`), at any step. In the first play,
`demo` and `solo`, the requests are of any kind; two blocks suffice for a block on each host,
for one that `demo` pulls, and for one mined on top of a pulled one. Hosts meet only in a
connection, so their other steps commute and `FilesTurn` lets one work while the other is
idle or at a step of a connection. Only `demo` has several nodes, since the queue of `Mesh`
is one.

In the second play, `peer` and `solo` pull from each other. `peer` makes blocks, `solo` may
be reset, and no order of steps is left out. A backlog of two (128 in the code) holds a
connection that was given up with a live one behind it, and is full at times. States in
which each host reads a connection that the other has not accepted are reached, and so are
answers that are received after the sender has moved on. A pull may break off after any
field.

Fairness is assumed in two places. `Fairness` of `Mesh` says that a delivery goes on and
that a tick follows when something waits (`WF_due(Relays)`): the loop of the explorer calls
`tick` for ever, and `tick` delivers all that is due before it returns. `FloodTerminates`
depends on it. `ProceedFairness` of `Explorer` adds what the one thread of a host does by
itself: it ends what it has begun (`Finishes`; a connection attempt and each read of an
answer are bounded by 400 ms), accepts a connection that is there (`Accepts`), and gives up
a read to which nothing comes (`ReadFails`). Two waits are not assumed to end: a write, while
the peer reads (`write_all` has no timeout), and a connection that is not accepted, except
by the timeout of its reader. `Responsive` says that the waits of the hosts for each other
nevertheless end. It fails when the reads have no timeout, as in `pull_blocks`: two hosts
that are connected to each other then wait for ever. It assumes that the peer runs
this program too: one that neither reads nor closes keeps a host in `write_all`. Nothing is
assumed of requests, of ticks, of whether a pull succeeds, or of a killed host being started
again. The fairness is stated on `due`, `host` and `backlog`, in forms whose `ENABLED` needs
no ledger. Each of these steps is one that an action takes, so no behaviour is excluded: a
host that has something to do can go on until it is idle, whatever the other does not do. The
other components react to calls and owe no progress.

### What the violations mean

* `finality_panic`: finality follows the blue *score* of the tip with the greatest
  blue *work*. A heavy short branch lowers it again. A block built on a pruned
  block that is no longer final passes the check and the `expect` panics. The
  comment of `prune` says that finality only rises. It does when all blocks carry
  one work (proved, below), which a node without enforced difficulty produces.
* `finality_reorg`: the finality rule looks only at the selected parent of the new
  block, not at where its branch left the selected chain. A competitor that keeps
  pace takes over, and blocks that were final leave the selected chain.
* `ledger_store_torn`: a log whose last record was cut inside the length prefix opens
  without an error and with the torn bytes left in place. The first block persisted
  after that makes the log unreadable, with everything in it. `LogRestores`
  shows that cut bodies and headers do no such harm: they are reported.

## The proofs

`tlapm GhostdagProofs.tla`, and the same for `DataTheorems`, `DagTheorems`,
`BlockDagProofs`, `ReachabilityProofs`, `LedgerTheorems`, `LedgerProofs` and `MeshProofs` (the
last takes some twenty minutes). They hold for every value of the constants that meets the assumptions the modules name:

* `KAssumption`, `GhostdagAssumption`, `BlockDagAssumption`, `LedgerAssumption`,
  `DepthAssumption`: k, works, times and the depth are naturals, ids are non-zero
  naturals, a block has a bounded number of parents, payloads are sequences of
  transactions. `BlockDagProofs` also uses `BaseAssumption`, that there are at least two
  `u64`s.
* `UtxoAssumption`, `GenesisAssumption`: the subsidy is at most `MaxValue`, and the
  transactions of genesis apply to an empty UTXO set (`Ledger::new` fails otherwise).
* `CutsAssumption`: which writes of the log a kill may cut, any of the three kinds.
* `ReachabilityAssumption`: the root's interval is wider than there are ids, as the
  comment of `reindex` assumes of `ROOT_CAPACITY`.
* `MeshAssumption`: the names of nodes are a finite set of naturals.

Works and sums of works are unbounded naturals; the `u128` of the code is not.

The listed theorems (`theorems` in `PROJECT.json`) say:

| Module | Proved | Runs that check the same |
|---|---|---|
| `GhostdagProofs` | `ChainKeyGrows`, `KCluster`, `CountsExact`, `MergesetIsAnticone`, `IInv`; `TipHasState`; for blocks of one work `NoPanic` and `FinalityOnlyRises` | `ghostdag`, `finality_uniform` |
| `BlockDagProofs` | `LinearizeTopological`, `TailIsVirtualMergeset`, `ArrivalOrderIrrelevant`; a restored DAG equals the one it replaces | `block_dag` |
| `ReachabilityProofs` | `OracleExact`, `IntervalsMirrorTree`, `FcsMatchesBuild` | `reachability` |
| `LedgerProofs` | `StatesAreViews`, `StateEqualsReplay`, `SupplyConserved`, `RestoreIdentical`; `NoDoubleSpend`, if no coinbase is repeated and spent; `LogRestores` and `AckedSurvive` over any number of kills | `ledger`, `ledger_store` |
| `LedgerTheorems` | `RecordsRead`: what `Codec` writes of any list of records, it reads back | – |
| `MeshProofs` | `OverlayCloses`, `SameBlocksSameLedger`; `PullComplete`, if no block is too far in the future; `SeenIsHeld` and `Converged`, if moreover nothing is made before the overlay is complete | `mesh` |

### Induction over data

Orders, states, encodings and replays are recursive functions and folds over data of
any size, and an induction theorem that takes a predicate as a parameter cannot be used
here. `DataTheorems` therefore states induction about *sets*: a set of naturals that
has zero and with each number the next one has all naturals (`NatSet`, `NatSetTo`,
`NatSetStrong`). A proof defines the set of the numbers with the property and hides its
definition. For folds it has an operator as a constant and is instantiated for each one
(`F == INSTANCE DataTheorems WITH FoldStep <- ...`): it gives the values that the fold goes
through, one for each element, and what holds of them follows with `NatSetTo`.

### GHOSTDAG and finality

The properties of `Ghostdag` are not inductive: they speak of stored blocks, while a
block becomes one only at `Commit`. `IInv` says of the block being inserted what
must hold between two iterations of the loop, with the uncoloured rest of its
mergeset (`Uncoloured`) accounted for: `past_size` plus the rest is the size of the
past, the blue set avoids the rest, the blues, the reds and the rest partition the
mergeset, and the selected parent is the heaviest block of the *whole* past
(`KeyOK`). The last is what makes the chain key grow along every edge, and with it
the mergeset equal to the anticone part of the past. `BlueOK` needs the sizes to be
exact, not just bounded, since the next candidate's check reads them. One lemma per
action, then `Invariance`; the six properties follow.

For `Finality`, `SelectedTipHeaviest` (from `HeaviestIsTip` and uniqueness) shows that a
commit moves the selected tip to the new block or not at all, whence
`TipStateKept` for any works. Under `Works = {GenesisWork}` the invariant adds that
`blue_work` is the work times `blue_score`, so a heavier tip never scores less:
finality only rises, nothing prunable is needed, and the panic is unreachable
(`NonFinalStatesKept`, `InsertNeverPanics`, `FinalityRises`). Run `finality_panic`
shows that the assumption is needed.

### The block DAG

`DagInv` says that `dag` is a DAG as insertions build it. `DagOK`: ids and pasts fit
together, and the GHOSTDAG data of a block partition its mergeset. `Canonical`: nothing is
stored that the blocks do not determine; each node is what `insert` would derive for its
block from its past (`Derived`). `Timed`: works and times are numbers, with which
`next_work` asks for a number too.

`LinearizationTopological` follows along the selected chain: the order that ends in a
block is that of its selected parent and the block's own mergeset, each topological, and
they are disjoint. For `ArrivalOrder` one inserts the blocks again in any order that has
parents first: after each step the DAG is the part of the old one that the inserted blocks
induce (`Grown`), since what `insert` derives of a block depends on its past alone, which
is the same in both. The last such part is the whole. That the rules refuse nothing on
the way holds only if they were in force for every block (`Enforced`), and the theorem has
the hypothesis `[][RulesFirst]_vars`: rules are set before the first block, as
all callers do, or dropped, as `Restore` does. `MCBlockDag` has the same restriction.

### The reachability oracle

The tree of selected parents has a rank, the size of the past, that falls from a block to
its parent; this gives induction from genesis to the leaves and recursive functions along
the tree (`TreeInduction`, `TreeRecursion`), and with them the chains (`ChainsUp`), the anchor
and the layout, which the model defines recursively.

`IntervalsMirrorTree` relates any two blocks and is not what a step can be seen to keep.
`OracleInv` says instead what holds between a block, its parent and its siblings
(`Nested`): a block's interval lies after its parent's own point and before what the parent
still hands out, and siblings are apart. Containment along chains and disjointness of all
other pairs follow (`NestedMirrors`), and that an interval is as wide as the subtree
(`MirroredWidth`). An allocation keeps `Nested` at once. For a reindex one needs that the
slices of the children fit, though each is rounded: the division is exact for their sum up
to what it drops (`SumScaled`, `CursorFits`), if subtree sizes add up (`Sized`, which a new leaf
keeps because exactly one child of each block above it counts one more) and the anchor has
room for its subtree. It has twice that, or is the root, whose interval never changes.
Nothing outside the anchor's subtree moves (`NestedOutside`).

For the future-covering sets, `Covered` says that the set of a lists just the blocks that
have a in their mergeset, each once. A new block is a leaf and covers no entry; an entry
that covered it would have a in the past of the selected parent, so a would not be merged.
Hence an insertion adds one entry and drops none, at whatever position the search ends
(`InsertAdds`). That these blocks are the roots a rebuild finds is `RootsAreMergers`; that
with the tree they give all of the past is `PastFromTree`, by induction along the tree: what
is in the past of a block is in that of its parent, or is the parent, or is merged. Nothing is
assumed of which parent is selected. `OracleInv` was model-checked on the instance of run
`reachability` before it was proved.

### The ledger

`LedgerInv`, `Sound(ledger)`, adds to the first two parts of `DagInv` that each stored
state is that of its block's own order (`StatesOK`) and that each payload was admitted by
its view (`Admitted`). `DagOK` and `Canonical` alone would give the states, but not that a
replay accepts every block: that needs `Admitted`, and that a block's view is the
same in every DAG that has its past. With both, a replay of the blocks in any order that
has parents first gives the ledger (`ReplayLog`), and conversely what any replay gives is
`Sound` and has just that log (`ReplayGrows`). `SupplyIsConserved` follows from an
invariant of `apply_block` over the order of a view, `Balanced`: what is unspent equals
what was minted less the fees, since a block whose outputs exist already is refused
whole. `SnapshotsRestore` puts `RecordsRead` before `ReplayLog`, so that it is about the
fields that were written, and needs `BlocksTyped`: blocks hold numbers and transactions.
`TornSnapshotsRefused` is its counterpart for a file that a kill cut: every list is written
with its count before it, so that wherever a string ends too early some count is not met
(`CutRecordsUnread`), or the header is not whole. A torn file is an error and never a ledger
with fewer blocks. It was model-checked on the instance of run `ledger` first.

`DoubleSpendsTakeNoEffect` follows the transactions that were applied, M. After each of
them the set holds only outputs that M issued, M spent only outputs that it issued, and
none of those is unspent (`Accounted`). Hence a spend that applies is not in M yet and,
as its id is its own (`Hashed`), neither are its outputs among those issued so far. A
coinbase has no inputs to tell it from an earlier one, so without more the invariant would
fail: of two blocks with one coinbase the second issues an output anew once the first
one's was spent, and it may be spent again. This is why the theorem has the hypothesis
`MintedOnce`: no transaction of the DAG spends what a coinbase that is in two blocks
minted. Nothing in the code ensures it (equal coinbases of parallel blocks are a hazard
with a note in `PROJECT.json`). `Hashed` holds of BLAKE3 ids for lack of collisions. In
run `ledger` both hypotheses hold of every state: the payloads repeat `reward` and `bonus`,
which nobody spends.

### The log

`LogRestores` speaks of a process that was killed any number of times. `StoreInv` says
what the file is in between, in the middle of a write too:

* the acknowledged ids are those of whole records in the file (`acked \subseteq IdsIn(file)`);
* the first record is genesis, with its transactions (`FirstRecord`), so that a log that
  opens replays from the right ledger;
* while a store is open, `KeepsLog`: unless a length prefix was cut, what is in the file,
  what is being written and what waits to be written are, in this order, a log of the
  ledger with parents first;
* when no store is open, nothing is being written and nothing waits.

`KeepsLog` must speak of the file *and* of what is still to be written, since at a
kill only a part of it goes into the file. Opening is the hard action: by `ReplayGrows` a
file that decodes gives a sound ledger whose log it is, even when it was cut between two
records and is shorter than the ledger of the process that wrote it. From `KeepsLog`,
`ReplayLog` gives `LogRestores`. `AckedBlocksSurvive` needs no clean file: if the log
opens, all its records were replayed, and the acknowledged ids are among them. `StoreInv`
was model-checked on the instance of run `ledger_store` before it was proved.

### The overlay

`OverlayCloses` speaks of a mesh without hellos under way. `OverlayInv` says what is still
missing while there are some: if n is a peer of m, then m is one of n or a hello from n
to m is under way (`Answered`); of two peers of a node, one knows the other or one of
the three hellos that will make them acquainted is under way (`Introduced`). No queue bound and no
order of delivery matters, so the theorem holds for every finite set of nodes.

### The ledgers of a mesh

`LedgersInv` says that every block that was made has an id of its own, that block
envelopes name such blocks, and that each node's ledger is `Sound`, over the common
genesis, and consists of them. Every handler that takes a block keeps it by
`InformedInsert`. Two such ledgers with the same ids have the same blocks, and each is
what a replay of its own log gives; by `ReplayLog` the log of one gives the other as well
(`SameLedger`). Hence `SameBlocksGiveSameLedger`, in which neither orders of delivery nor
lost envelopes matter.

For `PullsAreComplete`, let C be the ledger of the records taken so far: it is a part of
the peer's ledger and of the receiving node's, in both with the same views (`Abreast`,
`Regrown`). The peer admitted the next block over its view, which lies in C, and so the
node does too, if it does not have it already (`TakesToo`). The drift rule is the one
check that the peer's ledger says nothing about, since it compares with the clock of the
receiver. Hence the hypothesis `InTime`: no block that was made is dated later than
`MaxDrift` after the clock of any node. In run `mesh` every state satisfies it.

`NoBlockOvertakesItsParents` and `FloodConverges` are about the flood. A block that comes
before its parents is refused and, being seen, never taken again; so the order in which
envelopes reach a node matters, and `FloodInv` speaks of it. `due` and `queue` are one FIFO
queue, `Flight`. Every block that was made is at some node, and every node
has it or is the receiver of an envelope in flight that brings it; ahead of every envelope
of a block come, for each parent, what brings the parent to the same receiver, unless it
has it (`Flooding`). A
delivery takes the first envelope away and appends copies behind all others, where the
invariant asks for no more than the first did. With the drift excluded (`OnTime`, `InTime` for
all nodes), the first envelope is then a block that its receiver accepts, hence `SeenIsHeld`;
when nothing is in flight, all nodes have all blocks, hence `Converged`. The other hypothesis,
`Settled`, is that the overlay is complete once a block has been made: a node that connects
later never gets the earlier blocks by gossip. The explorer connects its nodes and drains
the mesh before it produces anything, and in run `mesh` every state satisfies both. `FloodInv`,
too, was model-checked there first.

### Only model-checked

* Liveness: `FloodTerminates`, `Responsive`; and the refinement of `BlockDag` by
  `Ghostdag`, which needs the walk of `MergesetOrdered` over both representations.
* `TargetExact`, `WorkTracksRate`, `MinedAccepted`: the exponents and divisions of the limb
  arithmetic are beyond the SMT solver for a `Base` that is not a number.
* `Node`: `ProducedAccepted` fails for arbitrary payloads, for the reason given at
  `DoubleSpendsTakeNoEffect`; what must be assumed of the ids of a node's own transactions
  is not worked out yet. `HistoryAddsUp` and `PendingIsWhatApplies` belong with it.
* `RelayStream` of `Mesh`: it uses `SelectSeq`, whose definition the provers cannot expand.
* `NoForeignLedger` and `SavedWhenIdle` of `Explorer`: not attempted.

`TypeOK` and `HeaviestIsTip` of `Ghostdag` and `NonFinalHasState` of `Finality` are proved
and not model-checked on their own: the first two are conjuncts or consequences of `IInv`,
which run `ghostdag` checks.

## What the runs leave out

Cases that the models contain and no property speaks of, because the code promises
nothing about them (each is a hazard with a note in `PROJECT.json`):

* A node made by `genesis_node` keeps its pinned clock until the process is started again
  and refuses blocks dated by the wall clock. `PullAllOrNothing` is about nodes on the
  wall clock.
* Blocks that `alpha` pulls are not announced to the other nodes of its mesh, which then
  refuse what `alpha` builds on them.
* A kill in the middle of a snapshot's write loses the file, in the middle of a miner
  file's write the miner.
* After a reset a host pulls and serves nobody.
* A closed connection in the backlog costs a live one a tick, and a pull may time out for it.
* A message above `MaxFrame` is sent, refused, and ends the session: such a block never gets
  over a relay session. `RelayStream` says so.
* `history_json` also lists the transactions of blocks without effect, so that with such
  a block the history does not add up.

## Not modelled, and the plan

Planned, in this order:

1. Proofs about `Node`: `ProducedAccepted` and `PendingIsWhatApplies` under hypotheses like
   those on double spends; and `RelayStream`, once its selections are written as folds (see
   above).
2. Proofs about `Explorer`: the files and the marker (`NoForeignLedger`).
3. `Finality` under difficulty: which works a node can really meet, and the width of
   `blue_work`, whose sum the code does not check.
4. What the mempool promises about dropped transactions (`on_tx` ignores for ever one
   that was seen, though the doc of `evict_invalid` counts on re-gossip).

Left out for good: ed25519 and BLAKE3; the parsing of HTTP and of commands, JSON and the
wallet pages, which change no state; `Explorer::boot`, which only the tests use; a relay
session that is used on after a read timeout, which no caller does; `main.rs`, and
`network.rs`, which only logs libp2p events.

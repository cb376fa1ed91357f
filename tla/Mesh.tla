-------------------------------- MODULE Mesh -------------------------------
(***************************************************************************)
(* The gossip overlay of p2p.rs: nodes with peer sets, a queue of hellos,  *)
(* blocks and transactions, and the relay that floods them, with the       *)
(* one-shot sync of net.rs beside it.                                      *)
(*                                                                         *)
(* The mesh runs on one thread.  tick takes the whole queue (an envelope   *)
(* is due one tick after it was queued, so all of it) and delivers it in   *)
(* order; what that queues waits for the next tick.  Here tick starts a    *)
(* delivery and each envelope is a step; the other operations wait for     *)
(* the end of the delivery.                                                *)
(*                                                                         *)
(* Block ids are hashes of their content: made lists the contents there    *)
(* are, and two nodes that build the same block give it one id.            *)
(***************************************************************************)
EXTENDS NodeRules, Relay

CONSTANTS
    Names,          \* the nodes, ordered as their names are
    Clock,          \* the clock each of them is pinned to
    Miner,          \* the founder, who mines on every node
    IdOrder,        \* the ids the blocks get, in the order they are made
    MaxQueue        \* bound on the queue when a transaction is announced

ASSUME MeshAssumption ==
    /\ Names \subseteq Nat /\ IsFiniteSet(Names)
    /\ Clock \in [Names -> Nat]
    /\ IdOrder \in Seq(Nat \ {GenesisId}) /\ IsInjective(IdOrder)
    /\ MaxQueue \in Nat

VARIABLES
    nodes,          \* the node of each name
    peers,          \* whom each node announces to
    queue,          \* the envelopes to deliver at the next tick
    due,            \* the envelopes of this tick still to be delivered
    seen_blocks,    \* the ids of the blocks each node was sent or announced
    seen_txs,       \* the same for transactions
    made            \* the blocks there are; the i-th has id IdOrder[i]

vars == <<nodes, peers, queue, due, seen_blocks, seen_txs, made>>

----------------------------------------------------------------------------
Hello(advertised) == [kind |-> "hello", advertised |-> advertised]

BlockMsg(id) == [kind |-> "block", id |-> id]

TxMsg(tx) == [kind |-> "tx", tx |-> tx]

\* The envelope, queued from a node to each of the names in their order.
ToEach(from, names, envelope) ==
    [i \in 1..Cardinality(names) |->
        [from |-> from, to |-> Nth(names, i), envelope |-> envelope]]

Position(block) ==
    IF block \in Range(made) THEN CHOOSE i \in DOMAIN made : made[i] = block
    ELSE Len(made) + 1

IdOf(block) == IdOrder[Position(block)]

BlockOf(id) == made[CHOOSE i \in DOMAIN made : IdOrder[i] = id]

----------------------------------------------------------------------------
Init ==
    /\ nodes = [n \in Names |-> NewNode(Clock[n], Miner)]
    /\ peers = [n \in Names |-> {}]
    /\ queue = <<>> /\ due = <<>>
    /\ seen_blocks = [n \in Names |-> {}]
    /\ seen_txs = [n \in Names |-> {}]
    /\ made = <<>>

Connect(from, to) ==
    /\ due = <<>>
    /\ from # to /\ to \notin peers[from]
    /\ peers' = [peers EXCEPT ![from] = peers[from] \cup {to}]
    /\ queue' = queue \o ToEach(from, {to}, Hello(peers[from] \cup {to}))
    /\ UNCHANGED <<nodes, due, seen_blocks, seen_txs, made>>

\* A slip: the block is queued ahead of what the node relays.
AnnounceBlockFirst(n, id) ==
    /\ seen_blocks' = [seen_blocks EXCEPT ![n] = seen_blocks[n] \cup {id}]
    /\ queue' = ToEach(n, peers[n], BlockMsg(id)) \o queue

AnnounceBlock(n, id) ==
    /\ seen_blocks' = [seen_blocks EXCEPT ![n] = seen_blocks[n] \cup {id}]
    /\ queue' = queue \o ToEach(n, peers[n], BlockMsg(id))

AnnounceTx(n, tx) ==
    /\ seen_txs' = [seen_txs EXCEPT ![n] = seen_txs[n] \cup {tx}]
    /\ queue' = queue \o ToEach(n, peers[n], TxMsg(tx))

\* The block that node n built is inserted, which makes the node what after says, and
\* announced to its peers.
Insert(n, block, after) ==
    /\ due = <<>>
    /\ Position(block) \in DOMAIN IdOrder
    /\ CanLedgerInsert(nodes[n].ledger, IdOf(block), block)
    /\ made' = IF block \in Range(made) THEN made ELSE Append(made, block)
    /\ nodes' = [nodes EXCEPT ![n] = after]
    /\ AnnounceBlock(n, IdOf(block))
    /\ UNCHANGED <<peers, due, seen_txs>>

ProduceEmpty(n) ==
    \E block \in {EmptyBlock(nodes[n])} :
        Insert(n, block, AcceptBlock(nodes[n], IdOf(block), block))

Produce(n) ==
    \E selected \in {SelectPending(nodes[n])} :
        /\ selected # <<>>
        /\ \E block \in {PendingBlock(nodes[n], selected)} :
             Insert(n, block, AcceptProduced(nodes[n], IdOf(block), block, selected))

Send(n) ==
    \E tx \in Prepared(nodes[n]) : \E block \in {SendBlock(nodes[n], tx)} :
        Insert(n, block, AcceptBlock(nodes[n], IdOf(block), block))

Pool(n) ==
    /\ due = <<>>
    /\ Len(queue) < MaxQueue
    /\ \E tx \in Prepared(nodes[n]) :
         /\ nodes' = [nodes EXCEPT ![n] = SubmitTx(nodes[n], tx)]
         /\ AnnounceTx(n, tx)
    /\ UNCHANGED <<peers, due, seen_blocks, made>>

\* n takes in the blocks of m in m's order.
Pulled(n, m) == ReceiveAll(nodes[n], Export(nodes[m]))

Pull(n, m) ==
    /\ due = <<>>
    /\ n # m
    /\ nodes' = [nodes EXCEPT ![n] = Pulled(n, m)]
    /\ UNCHANGED <<peers, queue, due, seen_blocks, seen_txs, made>>

----------------------------------------------------------------------------
Tick ==
    /\ due = <<>> /\ queue # <<>>
    /\ due' = queue
    /\ queue' = <<>>
    /\ UNCHANGED <<nodes, peers, seen_blocks, seen_txs, made>>

Deliver(kind) ==
    /\ due # <<>> /\ Head(due).envelope.kind = kind
    /\ due' = Tail(due)

\* A slip: a hello from a stranger is answered, and what it advertises is not followed.
OnHelloReplyOnly ==
    /\ Deliver("hello")
    /\ \E q \in {Head(due)} :
         /\ peers' = [peers EXCEPT ![q.to] = peers[q.to] \cup {q.from}]
         /\ queue' = IF q.from \in peers[q.to] THEN queue
                     ELSE queue \o ToEach(q.to, {q.from}, Hello(peers[q.to] \cup {q.from}))
    /\ UNCHANGED <<nodes, seen_blocks, seen_txs, made>>

OnHello ==
    /\ Deliver("hello")
    /\ \E q \in {Head(due)} : \E advertised \in {q.envelope.advertised} :
         \E fresh \in {advertised \ (peers[q.to] \cup {q.to, q.from})},
            known \in {peers[q.to] \cup {q.from} \cup (advertised \ {q.to})} :
           /\ peers' = [peers EXCEPT ![q.to] = known]
           /\ queue' = queue \o ToEach(q.to, {q.from} \ peers[q.to], Hello(known))
                             \o ToEach(q.to, fresh, Hello(known))
    /\ UNCHANGED <<nodes, seen_blocks, seen_txs, made>>

\* A slip: the seen-set is not consulted.
OnBlockUnseen ==
    /\ Deliver("block")
    /\ \E q \in {Head(due)} : \E id \in {q.envelope.id} :
         /\ nodes' = [nodes EXCEPT ![q.to] = ReceiveBlock(nodes[q.to], id, BlockOf(id))]
         /\ queue' = queue \o ToEach(q.to, peers[q.to] \ {q.from}, BlockMsg(id))
    /\ UNCHANGED <<peers, seen_blocks, seen_txs, made>>

\* A slip: one seen-set for all nodes.
OnBlockSharedSeen ==
    /\ Deliver("block")
    /\ \E q \in {Head(due)} : \E id \in {q.envelope.id} :
         /\ seen_blocks' = [seen_blocks EXCEPT ![q.to] = seen_blocks[q.to] \cup {id}]
         /\ IF /\ \A n \in Names : id \notin seen_blocks[n]
               /\ CanReceive(nodes[q.to], id, BlockOf(id))
            THEN /\ nodes' = [nodes EXCEPT ![q.to] =
                                ReceiveBlock(nodes[q.to], id, BlockOf(id))]
                 /\ queue' = queue \o ToEach(q.to, peers[q.to] \ {q.from}, BlockMsg(id))
            ELSE UNCHANGED <<nodes, queue>>
    /\ UNCHANGED <<peers, seen_txs, made>>

\* The block is marked seen first, whether it is then received or refused; one that
\* is received is passed on.
OnBlock ==
    /\ Deliver("block")
    /\ \E q \in {Head(due)} : \E id \in {q.envelope.id} :
         /\ seen_blocks' = [seen_blocks EXCEPT ![q.to] = seen_blocks[q.to] \cup {id}]
         /\ IF /\ id \notin seen_blocks[q.to]
               /\ CanReceive(nodes[q.to], id, BlockOf(id))
            THEN /\ nodes' = [nodes EXCEPT ![q.to] =
                                ReceiveBlock(nodes[q.to], id, BlockOf(id))]
                 /\ queue' = queue \o ToEach(q.to, peers[q.to] \ {q.from}, BlockMsg(id))
            ELSE UNCHANGED <<nodes, queue>>
    /\ UNCHANGED <<peers, seen_txs, made>>

OnTx ==
    /\ Deliver("tx")
    /\ \E q \in {Head(due)} : \E tx \in {q.envelope.tx} :
         /\ seen_txs' = [seen_txs EXCEPT ![q.to] = seen_txs[q.to] \cup {tx}]
         /\ IF tx \notin seen_txs[q.to]
            THEN /\ nodes' = [nodes EXCEPT ![q.to] = SubmitTx(nodes[q.to], tx)]
                 /\ queue' = queue \o ToEach(q.to, peers[q.to] \ {q.from}, TxMsg(tx))
            ELSE UNCHANGED <<nodes, queue>>
    /\ UNCHANGED <<peers, seen_blocks, made>>

Relay == Tick \/ OnHello \/ OnBlock \/ OnTx

\* What Relay does to due, and no other action: fairness of Relay, in a form whose
\* ENABLED needs no ledger.
Relays == due' = IF due = <<>> THEN queue ELSE Tail(due)

Fairness == WF_due(Relays)

Next ==
    \/ \E n \in Names : ProduceEmpty(n) \/ Produce(n) \/ Send(n) \/ Pool(n)
    \/ \E n, m \in Names : Connect(n, m) \/ Pull(n, m)
    \/ Relay

Spec == Init /\ [][Next]_vars

----------------------------------------------------------------------------
Idle == queue = <<>> /\ due = <<>>
Held(n) == Blocks(nodes[n].ledger.dag)

\* When the hellos have settled, whoever can reach whom has it as a peer: no order of
\* connections and ticks leaves an edge undiscovered (module doc: hellos "advertise a
\* node's current peers so missing edges close").
OverlayCloses ==
    Idle => \A n, m \in Names : m \in peers[n] =>
                /\ n \in peers[m]
                /\ peers[m] \ {n} \subseteq peers[n]

\* On an overlay that has settled, a node holds every block it has seen: a block never
\* overtakes its parents, so marking it seen before it is accepted loses nothing.
SeenIsHeld == \A n \in Names : seen_blocks[n] \subseteq Held(n)

\* When the flood is over, all nodes hold the same DAG, the same view states and so
\* the same ledger, in whatever order the blocks of several producers reached them
\* (lib.rs: "so peers converge on the same DAG").
Converged == Idle => \A n, m \in Names : nodes[n].ledger = nodes[m].ledger

\* Whatever the overlay, two nodes with the same blocks have the same ledger (net.rs:
\* "both hold the identical DAG, linearization, and UTXO state"), though each got
\* them in an order of its own, by gossip or by pulling, or made them itself.
SameBlocksSameLedger ==
    \A n, m \in Names : Held(n) = Held(m) => nodes[n].ledger = nodes[m].ledger

\* A pull brings all blocks of the peer, whatever the node has already: none is refused
\* in the order export lists them (net.rs: "Records are assumed to arrive in
\* topological order, which Node::export guarantees").
PullComplete ==
    \A n, m \in Names :
        Held(m) \subseteq Held(n) \/ Held(m) \subseteq Blocks(Pulled(n, m).ledger.dag)

\* The envelopes under way from one node to another, sent on a relay session instead,
\* arrive as they were sent and in order, up to the first that recv has no room for: send
\* has no bound, nor has a block, so such a message is sent and refused, and ends the
\* session.  Also one whose length wraps in the u32 brings no message that nobody sent,
\* nor does a frame in whose middle the connection breaks (relay.rs: "the same envelopes
\* as Mesh ... framed on a persistent connection", and "Refuse a single frame larger").
RelayStream ==
    LET msg(q, e) == CASE e.kind = "hello" -> [kind |-> "hello", from |-> q.from,
                                               advertised |-> e.advertised]
                       [] e.kind = "block" -> [kind |-> "block", record |->
                                               [id |-> e.id, block |-> BlockOf(e.id)]]
                       [] e.kind = "tx" -> e
        fits(m) == /\ Len(EncodeMsg(m)) <= MaxFrame
                   /\ m.kind = "hello" => Cardinality(m.advertised) < CountLimit
        refused(sent) == {i \in DOMAIN sent : ~fits(sent[i])}
        arrives(sent) == IF refused(sent) = {} THEN sent
                         ELSE SubSeq(sent, 1, Min(refused(sent)) - 1)
        whole(frame) == \A n \in DOMAIN frame : ~Recv(SubSeq(frame, 1, n - 1)).ok
        session(sent) ==
            /\ Session(FlattenSeq([i \in DOMAIN sent |-> Frame(sent[i])]), Len(sent))
                 = arrives(sent)
            /\ \A i \in DOMAIN sent : whole(Frame(sent[i]))
        between(qs) == session([i \in DOMAIN qs |-> msg(qs[i], qs[i].envelope)])
    IN  due = <<>> => \A n, m \in Names :
            between(SelectSeq(queue, LAMBDA q : q.from = n /\ q.to = m))

\* The flood ends: nothing circulates for ever (the seen-sets are there "so the flood
\* terminates").
FloodTerminates == []<>Idle
============================================================================

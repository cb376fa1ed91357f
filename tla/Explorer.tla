------------------------------ MODULE Explorer -----------------------------
(***************************************************************************)
(* The explorer, explorer.rs: hosts that run the nodes of Mesh, keep them  *)
(* in files, answer requests, mine on a timer and pull blocks from each    *)
(* other.                                                                  *)
(*                                                                         *)
(* A host is one process with one thread: whatever it has begun it ends    *)
(* before it looks at the next request or tick.  What it still has to do   *)
(* is a list, host[h].todo; it is idle when the list is empty.  It may be  *)
(* killed anywhere, also in the middle of writing a file.                  *)
(*                                                                         *)
(* A pull is a connection.  The system keeps it in the backlog of the      *)
(* listener until serve accepts it; the peer reads meanwhile, and gives up *)
(* when nothing comes.  The connection it then closes stays in the backlog *)
(* and is accepted like a live one.                                        *)
(*                                                                         *)
(* The first node of a host is alpha, which serves and pulls; the others,  *)
(* connected in a line, are there with KOVANICA_DEMO_MESH.  A host's nodes *)
(* are out of reach of the others' mesh.  The counting of ticks is left    *)
(* out: any tick may be one on which the host pulls or mines.  With proof  *)
(* of work all blocks are mined, which only decides their ids.  Only one   *)
(* host may have several nodes: the queue of Mesh is the one of its mesh.  *)
(***************************************************************************)
EXTENDS Mesh

CONSTANTS
    Hosts,          \* the hosts
    Line,           \* the nodes of each host, in order
    PullFrom,       \* KOVANICA_PEERS: whom a host pulls from
    Flags,          \* the environment flags set for a host
    WallClock,      \* what the wall clock reads
    Miners,         \* the addresses one may ask a node to mine for
    Missing,        \* the content of a miner file that is not there
    Backlog,        \* how many connections a listener keeps
    Gone,           \* one of them that its peer has closed
    MaxKills        \* bound on the kills

NodesOf(h) == Range(Line[h])
Alpha(h) == Head(Line[h])

ASSUME ExplorerAssumption ==
    /\ \A h \in Hosts : Line[h] # <<>> /\ PullFrom[h] \subseteq Hosts \ {h}
    /\ \A g, h \in Hosts : g # h => NodesOf(g) \cap NodesOf(h) = {}
    /\ \A g, h \in Hosts : Len(Line[g]) > 1 /\ Len(Line[h]) > 1 => g = h
    /\ \A n \in Names : Clock[n] <= WallClock
    /\ MaxKills \in Nat /\ Backlog \in Nat \ {0} /\ Gone \notin Hosts

VARIABLES
    host,           \* for each host: is it up, mining, listening, what it has to do
    backlog,        \* the peers that are connected to it and not accepted yet
    files,          \* the snapshot and miner file of each node, as they would load
    marker,         \* does the file network name this network
    kills

evars == <<vars, host, backlog, files, marker, kills>>

----------------------------------------------------------------------------
(***************************************************************************)
(* What there is to do.                                                    *)
(***************************************************************************)
Op(op, arg) == [op |-> op, arg |-> arg]

\* A slip: only alpha is saved.
PersistAlpha(h) == <<Op("snap", Alpha(h)), Op("miner", Alpha(h))>>

\* persist_all: the snapshot and the miner of every node.
Persist(h) ==
    FlattenSeq([i \in DOMAIN Line[h] |-> <<Op("snap", Line[h][i]), Op("miner", Line[h][i])>>])

\* A slip: the marker is written first.
EnsureNetworkMarkFirst(h) == IF marker[h] THEN <<>> ELSE <<Op("mark", 0), Op("wipe", 0)>>

\* ensure_network: files of another network are removed before the marker is written.
EnsureNetwork(h) == IF marker[h] THEN <<>> ELSE <<Op("wipe", 0), Op("mark", 0)>>

BootPersist(h) ==
    EnsureNetwork(h)
    \o [i \in DOMAIN Line[h] |-> Op("load", Line[h][i])]
    \o [i \in 1..(Len(Line[h]) - 1) |-> Op("connect", <<Line[h][i], Line[h][i + 1]>>)]
    \o <<Op("drain", 16)>> \o Persist(h) \o <<Op("listen", 0)>>

Answer(h) == <<Op("drain", 8)>> \o Persist(h)

\* A tick: the mesh, a peer that asks for blocks, the pulls, a block.
TickTodo(h, pull, mine) ==
    <<Op("drain", 1), Op("serve", 0)>>
    \o (IF pull THEN [i \in 1..Cardinality(PullFrom[h]) |-> Op("pull", SetToSeq(PullFrom[h])[i])]
                     \o Persist(h) ELSE <<>>)
    \o (IF mine THEN <<Op("mine", 0)>> \o Persist(h) ELSE <<>>)

Down == [up |-> FALSE, mining |-> FALSE, rotate |-> 0, listen |-> FALSE, todo |-> <<>>]

Ready(h) == host[h].up /\ host[h].todo = <<>>

Doing(h, op) == host[h].todo # <<>> /\ Head(host[h].todo).op = op

Arg(h) == Head(host[h].todo).arg

Done(h) == host' = [host EXCEPT ![h].todo = Tail(@)]

Then(h, todo) == host' = [host EXCEPT ![h].todo = todo]

----------------------------------------------------------------------------
(***************************************************************************)
(* Starting.                                                               *)
(***************************************************************************)

\* The nodes of a host are gone, with their mesh and what was under way in it.
Forget(h) ==
    LET others(env) == SelectSeq(env, LAMBDA q : q.to \notin NodesOf(h))
        emptied(f) == [n \in Names |-> IF n \in NodesOf(h) THEN {} ELSE f[n]]
    IN  /\ nodes' = [n \in Names |-> IF n \in NodesOf(h) THEN FreshNode(WallClock) ELSE nodes[n]]
        /\ peers' = emptied(peers)
        /\ queue' = others(queue) /\ due' = others(due)
        /\ seen_blocks' = emptied(seen_blocks) /\ seen_txs' = emptied(seen_txs)
        /\ UNCHANGED made

EInit ==
    /\ nodes = [n \in Names |-> FreshNode(WallClock)]
    /\ peers = [n \in Names |-> {}]
    /\ queue = <<>> /\ due = <<>>
    /\ seen_blocks = [n \in Names |-> {}]
    /\ seen_txs = [n \in Names |-> {}]
    /\ made = <<>>
    /\ host = [h \in Hosts |-> Down]
    /\ backlog = [h \in Hosts |-> <<>>]
    /\ files \in [Names -> {[snap |-> NoLedger, miner |-> Missing],
                            [snap |-> LedgerOver(<<>>), miner |-> NoMiner]}]
    /\ marker = [h \in Hosts |-> FALSE]
    /\ kills = 0

Start(h) ==
    /\ ~host[h].up
    /\ host' = [host EXCEPT ![h] = [Down EXCEPT !.up = TRUE, !.mining = "mine" \in Flags[h],
                                                !.todo = BootPersist(h)]]
    /\ UNCHANGED <<vars, backlog, files, marker, kills>>

\* wipe_data removes the files one by one, in the order of the directory.
Wipe(h) ==
    /\ Doing(h, "wipe")
    /\ \/ /\ \E n \in NodesOf(h) :
               \/ /\ files[n].snap # NoLedger
                  /\ files' = [files EXCEPT ![n].snap = NoLedger]
               \/ /\ files[n].miner # Missing
                  /\ files' = [files EXCEPT ![n].miner = Missing]
          /\ UNCHANGED host
       \/ /\ \A n \in NodesOf(h) : files[n] = [snap |-> NoLedger, miner |-> Missing]
          /\ Done(h)
          /\ UNCHANGED files
    /\ UNCHANGED <<vars, backlog, marker, kills>>

Mark(h) ==
    /\ Doing(h, "mark")
    /\ marker' = [marker EXCEPT ![h] = TRUE]
    /\ Done(h)
    /\ UNCHANGED <<vars, backlog, files, kills>>

\* A node from its files runs on the wall clock, and mines for the founder when there is
\* no miner file; without a snapshot that loads it is a new one with a pinned clock.
LoadOrGenesis(file, clock) ==
    IF file.snap = NoLedger THEN NewNode(clock, Miner)
    ELSE [Load(FreshNode(WallClock), ReadLedgerSnapshot(WriteLedgerSnapshot(file.snap)))
            EXCEPT !.miner = IF file.miner = Missing THEN Miner ELSE file.miner]

LoadNode(h) ==
    /\ Doing(h, "load")
    /\ nodes' = [nodes EXCEPT ![Arg(h)] = LoadOrGenesis(files[Arg(h)], Clock[Arg(h)])]
    /\ Done(h)
    /\ UNCHANGED <<peers, queue, due, seen_blocks, seen_txs, made, backlog, files, marker, kills>>

ConnectLine(h) ==
    /\ Doing(h, "connect")
    /\ Connect(Arg(h)[1], Arg(h)[2])
    /\ Done(h)
    /\ UNCHANGED <<backlog, files, marker, kills>>

Own(h, env) == \E i \in DOMAIN env : env[i].to \in NodesOf(h)

\* drain: up to so many ticks of the host's mesh, as long as it has something to deliver.
Drain(h) ==
    /\ Doing(h, "drain")
    /\ \/ /\ Own(h, queue) /\ Arg(h) > 0 /\ Tick
          /\ host' = [host EXCEPT ![h].todo[1].arg = @ - 1]
       \/ Own(h, due) /\ (OnHello \/ OnBlock \/ OnTx) /\ UNCHANGED host
       \/ ~Own(h, due) /\ (Own(h, queue) => Arg(h) = 0) /\ Done(h) /\ UNCHANGED vars
    /\ UNCHANGED <<backlog, files, marker, kills>>

SaveSnap(h) ==
    /\ Doing(h, "snap")
    /\ files' = [files EXCEPT ![Arg(h)].snap = nodes[Arg(h)].ledger]
    /\ Done(h)
    /\ UNCHANGED <<vars, backlog, marker, kills>>

SaveMiner(h) ==
    /\ Doing(h, "miner")
    /\ files' = IF nodes[Arg(h)].miner = NoMiner THEN files
                ELSE [files EXCEPT ![Arg(h)].miner = nodes[Arg(h)].miner]
    /\ Done(h)
    /\ UNCHANGED <<vars, backlog, marker, kills>>

\* bind_p2p, at the end of a boot, fails when the address is in use: on a reset, by the
\* old listener.
Listen(h) ==
    /\ Doing(h, "listen")
    /\ host' = [host EXCEPT ![h].listen = TRUE, ![h].todo = Tail(@)]
    /\ UNCHANGED <<vars, backlog, files, marker, kills>>

\* The old explorer is dropped with its listener, and those who wait for it are cut off.
CloseOld(h) ==
    /\ Doing(h, "close")
    /\ host' = [host EXCEPT ![h].listen = FALSE, ![h].todo = Tail(@)]
    /\ backlog' = [backlog EXCEPT ![h] = <<>>]
    /\ UNCHANGED <<vars, files, marker, kills>>

----------------------------------------------------------------------------
(***************************************************************************)
(* Requests.  One that fails changes nothing and is not shown.             *)
(***************************************************************************)
May(h, flag) == Ready(h) /\ flag \in Flags[h]

\* The mesh did its part; the rest is to drain it, to save and to answer.
Answered(h) == Then(h, Answer(h)) /\ UNCHANGED <<backlog, files, marker, kills>>

\* produce: a block of what is pending; an operator gets an empty one when nothing is.
PostProduce(h) ==
    /\ Ready(h)
    /\ \E n \in NodesOf(h) :
         \/ Produce(n)
         \/ /\ "operator" \in Flags[h] /\ SelectPending(nodes[n]) = <<>>
            /\ ProduceEmpty(n)
    /\ Answered(h)

PostEmpty(h) ==
    May(h, "operator") /\ (\E n \in NodesOf(h) : ProduceEmpty(n)) /\ Answered(h)

\* send, and faucet, which sends from the founder.
PostSend(h) ==
    /\ May(h, "operator") \/ May(h, "faucet")
    /\ \E n \in NodesOf(h) : Send(n)
    /\ Answered(h)

\* submit, and pool for an operator.
PostSubmit(h) == Ready(h) /\ (\E n \in NodesOf(h) : Pool(n)) /\ Answered(h)

\* fork, and parallel: a block on every node, or a transfer on the first two, one
\* after the other and before any of them is delivered.  Failures are ignored.
PostFork(h) ==
    /\ May(h, "operator")
    /\ \/ Then(h, [i \in DOMAIN Line[h] |-> Op("empty", Line[h][i])] \o Answer(h))
       \/ Then(h, [i \in 1..Min({2, Len(Line[h])}) |-> Op("send", Line[h][i])] \o Answer(h))
    /\ UNCHANGED <<vars, backlog, files, marker, kills>>

PostMining(h) ==
    /\ May(h, "operator")
    /\ \E on \in BOOLEAN :
         host' = [host EXCEPT ![h].mining = on, ![h].todo = Answer(h)]
    /\ UNCHANGED <<vars, backlog, files, marker, kills>>

\* miner, and prepare, which looks at the ledger and changes nothing: both are
\* followed by a save.
PostMiner(h) ==
    /\ May(h, "operator")
    /\ \E n \in NodesOf(h), m \in Miners : nodes' = [nodes EXCEPT ![n].miner = m]
    /\ Then(h, Persist(h))
    /\ UNCHANGED <<peers, queue, due, seen_blocks, seen_txs, made, backlog, files, marker, kills>>

PostPrepare(h) ==
    /\ Ready(h)
    /\ \E n \in NodesOf(h) : Prepared(nodes[n]) # {}
    /\ Then(h, Persist(h))
    /\ UNCHANGED <<vars, backlog, files, marker, kills>>

\* reset: the files are removed and the host boots again, and only then the old listener
\* is closed, if there is one.
PostReset(h) ==
    /\ May(h, "reset")
    /\ Forget(h)
    /\ LET close == IF host[h].listen THEN <<Op("close", 0)>> ELSE <<>>
           todo == <<Op("wipe", 0)>> \o BootPersist(h) \o close \o Answer(h)
       IN  host' = [host EXCEPT ![h] = [@ EXCEPT !.mining = "mine" \in Flags[h],
                                                  !.rotate = 0, !.todo = todo]]
    /\ UNCHANGED <<backlog, files, marker, kills>>

Post(h) ==
    \/ PostProduce(h) \/ PostEmpty(h) \/ PostSend(h) \/ PostSubmit(h) \/ PostFork(h)
    \/ PostMining(h) \/ PostMiner(h) \/ PostPrepare(h) \/ PostReset(h)

\* A block, when there is an id left for it.
EmptyOn(n) ==
    IF Position(EmptyBlock(nodes[n])) \in DOMAIN IdOrder THEN ProduceEmpty(n) ELSE UNCHANGED vars

ForkEmpty(h) ==
    Doing(h, "empty") /\ EmptyOn(Arg(h)) /\ Done(h) /\ UNCHANGED <<backlog, files, marker, kills>>

ForkSend(h) ==
    /\ Doing(h, "send")
    /\ IF Prepared(nodes[Arg(h)]) = {} \/ Len(made) = Len(IdOrder) THEN UNCHANGED vars
       ELSE Send(Arg(h))
    /\ Done(h)
    /\ UNCHANGED <<backlog, files, marker, kills>>

----------------------------------------------------------------------------
(***************************************************************************)
(* Ticks.                                                                  *)
(***************************************************************************)
HostTick(h) ==
    /\ Ready(h)
    /\ \E pull \in {FALSE, PullFrom[h] # {}}, mine \in {FALSE, host[h].mining} :
         Then(h, TickTodo(h, pull, mine))
    /\ UNCHANGED <<vars, backlog, files, marker, kills>>

\* The nodes take turns.
Mine(h) ==
    /\ Doing(h, "mine")
    /\ EmptyOn(Line[h][1 + host[h].rotate])
    /\ host' = [host EXCEPT ![h].rotate = (@ + 1) % Len(Line[h]), ![h].todo = Tail(@)]
    /\ UNCHANGED <<backlog, files, marker, kills>>

\* Bytes that do not decode as a whole leave the node as it is.
PulledBytes(N, bytes) ==
    LET taken(read) == IF read.ok THEN ReceiveAll(N, read.value) ELSE N
    IN  taken(DecodeRecords(bytes))

\* The host's next thing to do becomes another.
Now(h, op, arg) == [host EXCEPT ![h].todo = <<Op(op, arg)>> \o Tail(@)]

\* connect_timeout: the system of the peer takes the connection, whatever the peer does.
Dial(h) ==
    /\ Doing(h, "pull")
    /\ host[Arg(h)].listen /\ Len(backlog[Arg(h)]) < Backlog
    /\ backlog' = [backlog EXCEPT ![Arg(h)] = Append(@, h)]
    /\ host' = Now(h, "read", Arg(h))
    /\ UNCHANGED <<vars, files, marker, kills>>

\* Nobody listens, there is no room, or the network is too slow.
ConnectFails(h) ==
    /\ Doing(h, "pull")
    /\ Done(h)
    /\ UNCHANGED <<vars, backlog, files, marker, kills>>

\* The connections of h in a backlog are closed.
HungUp(h, q) == [i \in DOMAIN q |-> IF q[i] = h THEN Gone ELSE q[i]]

\* A slip: as in pull_blocks the read has no timeout, and goes on until it is cut off.
ReadFailsUntimed(h) ==
    /\ Doing(h, "read")
    /\ IF h \in Range(backlog[Arg(h)]) THEN UNCHANGED host ELSE Done(h)
    /\ UNCHANGED <<vars, backlog, files, marker, kills>>

\* The peer does not answer within the time, or is gone.
ReadFails(h) ==
    /\ Doing(h, "read")
    /\ Done(h)
    /\ backlog' = [backlog EXCEPT ![Arg(h)] = HungUp(h, @)]
    /\ UNCHANGED <<vars, files, marker, kills>>

\* serve: at most one connection is accepted, and sent all blocks of alpha.
NobodyThere(h) ==
    /\ Doing(h, "serve") /\ backlog[h] = <<>>
    /\ Done(h)
    /\ UNCHANGED <<vars, backlog, files, marker, kills>>

Serve(h) ==
    /\ Doing(h, "serve") /\ backlog[h] # <<>>
    /\ backlog' = [backlog EXCEPT ![h] = Tail(@)]
    /\ LET p == Head(backlog[h])
           answer == [from |-> h, records |-> Export(nodes[Alpha(h)])]
       IN  IF p = Gone THEN Done(h)
           ELSE host' = [Now(h, "write", p) EXCEPT
                            ![p].todo = <<Op("receive", answer)>> \o Tail(@)]
    /\ UNCHANGED <<vars, files, marker, kills>>

\* write_all ends when what the peer has not read fits into the buffers, or the peer has
\* closed the connection.  It has no timeout.
WriteEnds(h) ==
    /\ Doing(h, "write")
    /\ Done(h)
    /\ UNCHANGED <<vars, backlog, files, marker, kills>>

\* read_to_end gets all bytes, or fewer when the peer is killed, the connection breaks or
\* the peer is too slow.
Receive(h) ==
    /\ Doing(h, "receive")
    /\ \E bytes \in {EncodeRecords(Arg(h).records)} : \E n \in 0..Len(bytes) :
          nodes' = [nodes EXCEPT ![Alpha(h)] = PulledBytes(@, SubSeq(bytes, 1, n))]
    /\ Done(h)
    /\ UNCHANGED <<peers, queue, due, seen_blocks, seen_txs, made, backlog, files, marker, kills>>

----------------------------------------------------------------------------
\* What the files may load as after a kill in the middle of a write: fs::write empties
\* a file and then fills it.
Killed(h) ==
    {files}
    \cup (IF Doing(h, "snap")
          THEN {[files EXCEPT ![Arg(h)].snap = cut] : cut \in
                  LET bytes == WriteLedgerSnapshot(nodes[Arg(h)].ledger)
                  IN  {ReadLedgerSnapshot(SubSeq(bytes, 1, n)) : n \in 0..(Len(bytes) - 1)}}
          ELSE {})
    \cup (IF Doing(h, "miner") /\ nodes[Arg(h)].miner # NoMiner
          THEN {[files EXCEPT ![Arg(h)].miner = NoMiner]} ELSE {})

Kill(h) ==
    /\ host[h].up /\ kills < MaxKills
    /\ Forget(h)
    /\ host' = [host EXCEPT ![h] = Down]
    /\ backlog' = [g \in Hosts |-> IF g = h THEN <<>> ELSE HungUp(h, backlog[g])]
    /\ files' \in Killed(h)
    /\ kills' = kills + 1
    /\ UNCHANGED marker

\* What the host has begun.
Proceed(h) ==
    \/ Wipe(h) \/ Mark(h) \/ LoadNode(h) \/ ConnectLine(h) \/ Drain(h)
    \/ SaveSnap(h) \/ SaveMiner(h) \/ Listen(h) \/ CloseOld(h)
    \/ ForkEmpty(h) \/ ForkSend(h) \/ Mine(h)
    \/ Dial(h) \/ ConnectFails(h) \/ ReadFails(h) \/ Receive(h)
    \/ NobodyThere(h) \/ Serve(h) \/ WriteEnds(h)

ENext ==
    \E h \in Hosts : Start(h) \/ Proceed(h) \/ Post(h) \/ HostTick(h) \/ Kill(h)

ESpec == EInit /\ [][ENext]_evars

\* p is reading what h writes.
Reads(p, h) == Doing(p, "receive") /\ Arg(p).from = h

\* A host that has begun something goes on with it, in forms whose ENABLED needs no
\* ledger: it delivers what its mesh has under way, accepts a connection, and ends each
\* thing, a read by its timeout.  A write is not promised to end while the peer reads.
Finishes(h) ==
    /\ host[h].todo # <<>> /\ ~Doing(h, "read")
    /\ CASE Doing(h, "drain") -> ~Own(h, due) /\ (Own(h, queue) => Arg(h) = 0)
         [] Doing(h, "serve") -> backlog[h] = <<>>
         [] Doing(h, "write") -> ~Reads(Arg(h), h)
         [] OTHER -> due = <<>>
    /\ Done(h)

Accepts(h) ==
    /\ Doing(h, "serve") /\ backlog[h] # <<>>
    /\ backlog' = [backlog EXCEPT ![h] = Tail(@)]

ProceedFairness ==
    /\ WF_due(Relays)
    /\ \A h \in Hosts : /\ WF_host(Finishes(h)) /\ WF_host(ReadFails(h))
                        /\ WF_backlog(Accepts(h))

----------------------------------------------------------------------------
\* No node runs a ledger of another network, whichever files were left by whom and
\* wherever the host was killed while it removed them: the marker is written only when
\* nothing of the other network is left (ensure_network).
NoForeignLedger ==
    \A n \in Names : nodes[n].ledger # NoLedger =>
        nodes[n].ledger.dag.nodes[GenesisId].block = NewLedger.dag.nodes[GenesisId].block

\* An idle host can be killed without loss.  Each node's snapshot is its ledger, and its
\* miner file its miner; while the host mines on its own a node may have blocks of
\* another that only the file of the other has (handle: persist_all before the answer;
\* tick: persist_all after a mined block, which the mesh has not delivered yet).
SavedWhenIdle ==
    \A h \in Hosts : Ready(h) =>
        /\ \A n \in NodesOf(h) :
             /\ host[h].mining \/ files[n].snap = nodes[n].ledger
             /\ Held(n) \subseteq UNION {Blocks(files[m].snap.dag) : m \in NodesOf(h)}
             /\ nodes[n].miner # NoMiner => files[n].miner = nodes[n].miner

\* A pull brings all blocks of the peer or none, wherever the connection breaks, for a
\* node on the wall clock, also when the peer has moved on, was reset or killed since it
\* accepted (net.rs: "bounded so a dead peer cannot stall the explorer").  A node that
\* still runs on the clock pinned by genesis_node may refuse the later part.
PullAllOrNothing ==
    [][\A h \in Hosts :
         /\ Doing(h, "receive")
         /\ nodes[Alpha(h)].clock = WallClock
         /\ Blocks(nodes'[Alpha(h)].ledger.dag) \ Held(Alpha(h)) # {}
         => \A r \in Range(Arg(h).records) : r.id \in Blocks(nodes'[Alpha(h)].ledger.dag)]_evars

\* Whatever a host has begun it ends: no order of requests, ticks and kills leaves hosts
\* waiting for each other, though each pulls and writes on the thread that would serve,
\* two may be connected to each other with neither accepting, and a write has no timeout
\* of its own: the reads have (net.rs: "bounded so a dead peer cannot stall the
\* explorer").
Responsive == \A h \in Hosts : []<>(host[h].todo = <<>>)
============================================================================

----------------------------- MODULE LedgerStore ---------------------------
(***************************************************************************)
(* The append-only ledger log of store.rs, and a process that keeps it     *)
(* beside its ledger, that of module Ledger, and may be killed at any      *)
(* moment: in the middle of a write too, when only a part of the bytes     *)
(* reaches the file.                                                       *)
(*                                                                         *)
(* The file is a sequence of what single writes leave in it: the header, a *)
(* record's length prefix, a record's body, and the same cut short.        *)
(***************************************************************************)
EXTENDS Ledger

CONSTANT Cuts       \* the writes a kill may cut: "header", "len", "body"

ASSUME CutsAssumption == Cuts \subseteq {"header", "len", "body"}

VARIABLES
    file,           \* what is in the log
    writing,        \* what the running create or append has still to write
    up,             \* the process runs
    open,           \* it has a LedgerStore
    unlogged,       \* the blocks inserted and not yet appended, in order
    acked           \* the blocks that create and append reported as written

svars == <<vars, file, writing, up, open, unlogged, acked>>

----------------------------------------------------------------------------
Header == [kind |-> "header"]
Cut(chunk) == [kind |-> "cut", of |-> chunk.kind]
Record(id, block) == <<[kind |-> "len"], [kind |-> "body", id |-> id, block |-> block]>>

\* The records, in the order they are read.
Bodies(chunks) ==
    FoldLeft(LAMBDA read, c : IF c.kind = "body" THEN Append(read, c) ELSE read, <<>>, chunks)

IdsIn(chunks) == {c.id : c \in Range(Bodies(chunks))}

\* A slip: a body that ends early is taken for the end of the log.
ReadableLax(chunks) ==
    /\ Len(chunks) >= 3 /\ chunks[1] = Header
    /\ \A i \in 2..Len(chunks) :
         \/ chunks[i].kind = IF i % 2 = 0 THEN "len" ELSE "body"
         \/ i = Len(chunks) /\ i > 3

\* open gets to the end of the log: after the header and a first record every read of
\* a length prefix finds one that a body follows, or the end of the file, or a part
\* of a prefix at the very end.  A part of a prefix that more bytes follow makes a
\* length that is out of bounds or a body that does not decode.
Readable(chunks) ==
    /\ Len(chunks) >= 3 /\ chunks[1] = Header
    /\ \A i \in 2..Len(chunks) :
         \/ chunks[i].kind = IF i % 2 = 0 THEN "len" ELSE "body"
         \/ i = Len(chunks) /\ chunks[i] = Cut([kind |-> "len"])
    /\ chunks[Len(chunks)].kind # "len"

\* A slip: the loop ends one record early.
OpenLogShort(chunks) ==
    IF Readable(chunks) THEN Replay(SubSeq(Bodies(chunks), 1, Max({1, Len(Bodies(chunks)) - 1})))
    ELSE FailedLedger

OpenLog(chunks) ==
    IF Readable(chunks) THEN Replay(Bodies(chunks))
    ELSE FailedLedger

----------------------------------------------------------------------------
StoreInit ==
    /\ Init
    /\ file = <<>> /\ writing = <<>>
    /\ up = TRUE /\ open = FALSE
    /\ unlogged = <<>> /\ acked = {}

Idle == up /\ writing = <<>>

\* create empties the file at once, and then writes all there is.
Create ==
    /\ Idle
    /\ file' = <<>>
    /\ writing' = <<Header>>
                    \o FlattenSeq([i \in DOMAIN WriteSnapshot(ledger.dag) |->
                                     Record(WriteSnapshot(ledger.dag)[i].id,
                                            WriteSnapshot(ledger.dag)[i].block)])
    /\ open' = TRUE
    /\ unlogged' = <<>> /\ acked' = {}
    /\ UNCHANGED <<up, ledger>>

InsertBlockOver(id, block) ==
    /\ Idle
    /\ Insert(id, block)
    /\ unlogged' = IF open THEN Append(unlogged, id) ELSE unlogged
    /\ UNCHANGED <<file, writing, up, open, acked>>

\* persist_block, for the blocks in the order they were inserted.
Persist ==
    /\ Idle /\ open /\ unlogged # <<>>
    /\ writing' = Record(Head(unlogged), ledger.dag.nodes[Head(unlogged)].block)
    /\ unlogged' = Tail(unlogged)
    /\ UNCHANGED <<file, up, open, ledger, acked>>

\* One write_all; create or append returns after its last.
Write ==
    /\ writing # <<>>
    /\ file' = Append(file, Head(writing))
    /\ writing' = Tail(writing)
    /\ acked' = IF Tail(writing) = <<>> THEN acked \cup IdsIn(file') ELSE acked
    /\ UNCHANGED <<up, open, ledger, unlogged>>

\* The process is killed, perhaps in the middle of a write.
Crash ==
    /\ up
    /\ \/ UNCHANGED file
       \/ /\ writing # <<>> /\ Head(writing).kind \in Cuts
          /\ file' = Append(file, Cut(Head(writing)))
    /\ up' = FALSE /\ open' = FALSE
    /\ writing' = <<>> /\ unlogged' = <<>>
    /\ ledger' = NewLedger
    /\ UNCHANGED acked

\* load_log: the node is rebuilt, or an error returned.
Open ==
    /\ ~up
    /\ \E opened \in {OpenLog(file)} :
         /\ opened.dag # Failed
         /\ ledger' = opened
    /\ up' = TRUE /\ open' = TRUE
    /\ UNCHANGED <<file, writing, unlogged, acked>>

\* The process starts with a genesis instead.
StartAnew ==
    /\ ~up
    /\ up' = TRUE
    /\ UNCHANGED <<file, writing, open, ledger, unlogged, acked>>

StoreNext ==
    \/ Create \/ Persist \/ Write \/ Crash \/ Open \/ StartAnew
    \/ \E id \in Ids, w \in Works, ps \in ParentSets, txs \in Payloads :
         InsertBlockOver(id, [parents |-> ps, work |-> w, timestamp |-> 0, txs |-> txs])

StoreSpec == StoreInit /\ [][StoreNext]_svars

----------------------------------------------------------------------------
\* The log of a process that has written all it inserted restores to its ledger, DAG
\* and view states, whatever kills and restarts the log has been through (load_log:
\* the store is returned "so the caller can persist_block new inserts without
\* rewriting the file").
LogIsLedger == Idle /\ open /\ unlogged = <<>> => OpenLog(file) = ledger

\* It does so as long as no kill cut a length prefix: a header or a body that was cut
\* is reported when the log is opened, so that nothing is appended behind it.
LogRestores == Cut([kind |-> "len"]) \notin Range(file) => LogIsLedger

\* When a log opens, every block that create or append reported as written is in the
\* ledger it gives, though the log may have been cut since (the log replays "through
\* Ledger::insert", so a gap would be refused).
AckedSurvive == [][~up /\ up' /\ open' => acked \subseteq Blocks(ledger'.dag)]_svars
============================================================================

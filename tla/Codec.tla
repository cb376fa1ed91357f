-------------------------------- MODULE Codec ------------------------------
(***************************************************************************)
(* The byte encodings of transactions and blocks: tx.rs, snapshot.rs,      *)
(* net.rs.                                                                 *)
(*                                                                         *)
(* A byte string is a sequence of fields, each what one extend_from_slice  *)
(* writes; lengths count fields.  All readers are bounds-checked cursors:  *)
(* a field is read whole or the reader reports the end of the input, so a  *)
(* string cut inside a field reads like one cut before it.                 *)
(*                                                                         *)
(* Ids are hashes and are not written.  What makes them what they are is:  *)
(* here a transaction's tag and a block's nonce, whose fields hold the id. *)
(***************************************************************************)
EXTENDS Integers, Sequences, FiniteSets, SequencesExt

----------------------------------------------------------------------------
(***************************************************************************)
(* Writing.  Sets are kept and written in ascending order.                 *)
(***************************************************************************)
Nth(S, i) == CHOOSE a \in S : Cardinality({b \in S : b < a}) = i - 1

Ascending(S) == [i \in 1..Cardinality(S) |-> Nth(S, i)]

EncodeTx(tx) ==
    LET input(i) == <<tx.inputs[i].outpoint[1], tx.inputs[i].outpoint[2], tx.inputs[i].signer>>
        output(o) == <<tx.outputs[o].value, tx.outputs[o].owner>>
    IN  <<Len(tx.inputs)>> \o FlattenSeq([i \in DOMAIN tx.inputs |-> input(i)])
        \o <<Len(tx.outputs)>> \o FlattenSeq([o \in DOMAIN tx.outputs |-> output(o)])
        \o <<1, tx.id>>

EncodeBlockPayload(txs) ==
    <<Len(txs)>> \o FlattenSeq([i \in DOMAIN txs |-> EncodeTx(txs[i])])

\* encode_block and encode_record: the parents, the work, the timestamp, the nonce and
\* the payload with its length.
EncodeRecord(r) ==
    <<Cardinality(r.block.parents)>> \o Ascending(r.block.parents)
    \o <<r.block.work, r.block.timestamp, r.id, Len(EncodeBlockPayload(r.block.txs))>>
    \o EncodeBlockPayload(r.block.txs)

EncodeRecords(records) ==
    <<Len(records)>> \o FlattenSeq([i \in DOMAIN records |-> EncodeRecord(records[i])])

----------------------------------------------------------------------------
(***************************************************************************)
(* Reading.  A reader returns what it read and what is left, or Eof.       *)
(***************************************************************************)
Got(value, rest) == [ok |-> TRUE, value |-> value, rest |-> rest]
Eof == [ok |-> FALSE, value |-> <<>>, rest |-> <<>>]

\* A count, and that many elements of size fields each.
ReadCounted(s, size) ==
    IF s = <<>> \/ Len(s) - 1 < Head(s) * size THEN Eof
    ELSE Got([i \in 1..Head(s) |-> SubSeq(s, 2 + (i - 1) * size, 1 + i * size)],
             SubSeq(s, 2 + Head(s) * size, Len(s)))

\* A value is all there is: bytes left over are an error.
Whole(r) == IF r.ok /\ r.rest = <<>> THEN r ELSE Eof

ReadTransaction(s) ==
    LET ins == ReadCounted(s, 3)
        outs == ReadCounted(ins.rest, 2)
        tag == ReadCounted(outs.rest, 1)
        input(f) == [outpoint |-> <<f[1], f[2]>>, signer |-> f[3]]
        output(f) == [value |-> f[1], owner |-> f[2]]
    IN  IF ~tag.ok THEN Eof
        ELSE Got([id |-> tag.value[1][1],
                  inputs |-> [i \in DOMAIN ins.value |-> input(ins.value[i])],
                  outputs |-> [o \in DOMAIN outs.value |-> output(outs.value[o])]], tag.rest)

DecodeBlockPayload(s) ==
    LET next(acc, r) == IF acc.ok /\ r.ok THEN Got(Append(acc.value, r.value), r.rest) ELSE Eof
    IN  IF s = <<>> THEN Eof
        ELSE Whole(FoldLeft(LAMBDA acc, i : next(acc, ReadTransaction(acc.rest)),
                            Got(<<>>, Tail(s)), [i \in 1..Head(s) |-> i]))

\* read_block with decode_block_payload, and decode_record.
DecodeRecord(s) ==
    LET parents == ReadCounted(s, 1)
        header == parents.rest              \* work, timestamp, nonce, and the payload
        payload == ReadCounted(SubSeq(header, 4, Len(header)), 1)
        txs == DecodeBlockPayload([i \in DOMAIN payload.value |-> payload.value[i][1]])
    IN  IF ~payload.ok \/ ~txs.ok THEN Eof
        ELSE Got([id |-> header[3],
                  block |-> [parents |-> {p[1] : p \in Range(parents.value)},
                             work |-> header[1], timestamp |-> header[2],
                             txs |-> txs.value]], payload.rest)

\* A slip: records are read as long as there are any, whatever the count says.
DecodeRecordsLax(s) ==
    LET next(acc, r) == IF r.ok THEN Got(Append(acc.value, r.value), r.rest) ELSE acc
    IN  IF s = <<>> THEN Eof
        ELSE FoldLeft(LAMBDA acc, i : next(acc, DecodeRecord(acc.rest)),
                      Got(<<>>, Tail(s)), [i \in 1..Head(s) |-> i])

DecodeRecords(s) ==
    LET next(acc, r) == IF acc.ok /\ r.ok THEN Got(Append(acc.value, r.value), r.rest) ELSE Eof
    IN  IF s = <<>> THEN Eof
        ELSE Whole(FoldLeft(LAMBDA acc, i : next(acc, DecodeRecord(acc.rest)),
                            Got(<<>>, Tail(s)), [i \in 1..Head(s) |-> i]))
============================================================================

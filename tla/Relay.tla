-------------------------------- MODULE Relay ------------------------------
(***************************************************************************)
(* The messages of a relay session, [kind, ...], and their frames on its   *)
(* stream: relay.rs.                                                       *)
(*                                                                         *)
(* As in Codec, lengths count fields, and so do their bounds here.  A name *)
(* is one field, with its length.                                          *)
(***************************************************************************)
EXTENDS Codec

CONSTANTS
    MaxFrame,       \* MAX_FRAME: what recv takes
    LengthLimit,    \* 2^32: the length of a frame is written as a u32
    CountLimit      \* 2^16: the names of a hello are counted by a u16

ASSUME RelayAssumption ==
    /\ MaxFrame \in Nat \ {0} /\ LengthLimit \in Nat /\ CountLimit \in Nat \ {0}
    /\ MaxFrame < LengthLimit

EncodeMsg(msg) ==
    CASE msg.kind = "hello" ->
            <<"hello", msg.from, Cardinality(msg.advertised) % CountLimit>>
              \o Ascending(msg.advertised)
      [] msg.kind = "block" -> <<"block">> \o EncodeRecord(msg.record)
      [] msg.kind = "tx" ->
            <<"tx", Len(EncodeBlockPayload(<<msg.tx>>)) % LengthLimit>>
              \o EncodeBlockPayload(<<msg.tx>>)

\* send: the length of the message, whatever it is, and the message.
Frame(msg) == <<Len(EncodeMsg(msg)) % LengthLimit>> \o EncodeMsg(msg)

DecodeHello(s) ==
    LET names == Whole(ReadCounted(Tail(s), 1))
    IN  IF ~names.ok THEN Eof
        ELSE Got([kind |-> "hello", from |-> Head(s),
                  advertised |-> {n[1] : n \in Range(names.value)}], <<>>)

DecodeTxMsg(s) ==
    LET txs == IF Len(s) = 1 + Head(s) THEN DecodeBlockPayload(Tail(s)) ELSE Eof
    IN  IF txs.ok /\ Len(txs.value) = 1
        THEN Got([kind |-> "tx", tx |-> txs.value[1]], <<>>) ELSE Eof

DecodeMsg(s) ==
    LET record == Whole(DecodeRecord(Tail(s)))
    IN  CASE Len(s) < 2 -> Eof
          [] Len(s) >= 2 /\ Head(s) = "hello" -> DecodeHello(Tail(s))
          [] Len(s) >= 2 /\ Head(s) = "tx" -> DecodeTxMsg(Tail(s))
          [] Len(s) >= 2 /\ Head(s) = "block" ->
                IF record.ok THEN Got([kind |-> "block", record |-> record.value], <<>>) ELSE Eof

\* A message of a length no greater than max.
RecvUpTo(stream, max) ==
    LET frame == IF stream # <<>> /\ Head(stream) > max THEN Eof ELSE ReadCounted(stream, 1)
        msg == DecodeMsg([i \in DOMAIN frame.value |-> frame.value[i][1]])
    IN  IF frame.ok /\ msg.ok THEN Got(msg.value, frame.rest) ELSE Eof

\* A slip: no limit.
RecvAny(stream) == RecvUpTo(stream, LengthLimit)

\* recv: a length, and a message of that length; an error when the length is above the
\* limit, and when the stream ends first.
Recv(stream) == RecvUpTo(stream, MaxFrame)

\* The messages a receiver gets from a stream until the first error.
Session(stream, limit) ==
    LET next(acc, r) == IF acc.ok /\ r.ok THEN Got(Append(acc.value, r.value), r.rest)
                        ELSE [acc EXCEPT !.ok = FALSE]
    IN  FoldLeft(LAMBDA acc, i : next(acc, Recv(acc.rest)), Got(<<>>, stream),
                 [i \in 1..limit |-> i]).value
============================================================================

--------------------------- MODULE MCLedgerStore ---------------------------
(***************************************************************************)
(* LedgerStore for TLC.                                                    *)
(***************************************************************************)
EXTENDS LedgerStore

Coin(name, value) ==
    [id |-> name, inputs |-> <<>>, outputs |-> <<[value |-> value, owner |-> "founder"]>>]

MCGenesisTxs == <<Coin("genesis", 2)>>

MCPayloads == {<<>>, <<Coin("subsidy", 1)>>}
MCPayloadsEmpty == {<<>>}
============================================================================

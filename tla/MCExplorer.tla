----------------------------- MODULE MCExplorer ----------------------------
(***************************************************************************)
(* Explorer for TLC: demo, a host with a mesh of two nodes, whose operator *)
(* mines and sends, and which pulls from solo; solo, a host with one node  *)
(* that may be reset; and peer, a host with one node.  solo and peer pull  *)
(* from each other.  There are two plays, of two hosts each; the third is  *)
(* never started.                                                          *)
(***************************************************************************)
EXTENDS Explorer

CONSTANT MaxRequests        \* bound on the requests

VARIABLES
    play,           \* the hosts that take part
    requests

MCGenesisTxs == <<Coinbase(4, "founder", 0)>>
pay == [id |-> <<"pay", 0, 0>>,
        inputs |-> <<[outpoint |-> <<<<"founder", 0, 4>>, 1>>, signer |-> "founder"]>>,
        outputs |-> <<[value |-> 3, owner |-> "bob"]>>]

MCSpends == <<pay>>
MCIdOrder == <<2, 1>>

MCClock == [n \in Names |-> 0]
MCLine ==
    [h \in Hosts |-> CASE h = "demo" -> <<1, 2>> [] h = "solo" -> <<3>> [] h = "peer" -> <<4>>]
MCPullFrom == [h \in Hosts |-> IF h = "solo" THEN {"peer"} ELSE {"solo"}]
MCFlags == [h \in Hosts |-> IF h = "solo" THEN {"faucet", "reset"} ELSE {"operator"}]

----------------------------------------------------------------------------
\* Files: demo and solo find files of another network, and take any requests.
FilesPlay == {"demo", "solo"}

\* Hosts meet only in a connection, so the steps of one between two that touch the other
\* commute with those of the other: while one is at work the others are idle or at such a
\* step.  No such step leaves two at work.
AtRest(h) ==
    host[h].todo = <<>> \/ \E op \in {"pull", "read", "receive", "write"} : Doing(h, op)

\* As solo's peer is down, it does not try to pull.
FilesTurn(h) ==
    /\ \A g \in Hosts \ {h} : AtRest(g)
    /\ \/ /\ Start(h) \/ Proceed(h) \/ HostTick(h) \/ Kill(h)
          /\ ~\E i \in DOMAIN host'["solo"].todo : host'["solo"].todo[i].op = "pull"
          /\ UNCHANGED requests
       \/ requests < MaxRequests /\ Post(h) /\ requests' = requests + 1

\* Pulls: peer and solo begin with empty directories, peer makes empty blocks and solo is
\* reset, in any interleaving of their steps.
PullsPlay == {"peer", "solo"}

PullsTurn(h) ==
    \/ (Start(h) \/ Proceed(h) \/ HostTick(h) \/ Kill(h)) /\ UNCHANGED requests
    \/ requests < MaxRequests /\ (PostEmpty(h) \/ PostReset(h)) /\ requests' = requests + 1

----------------------------------------------------------------------------
PlaysInit ==
    /\ EInit /\ requests = 0
    /\ play \in {FilesPlay, PullsPlay}
    /\ \A n \in Names : (files[n].snap = NoLedger) = (play = PullsPlay)

PlaysNext ==
    /\ \E h \in play : IF play = FilesPlay THEN FilesTurn(h) ELSE PullsTurn(h)
    /\ UNCHANGED play

PlaysSpec == PlaysInit /\ [][PlaysNext]_<<evars, requests, play>> /\ ProceedFairness
============================================================================

----------------------------- MODULE MeshProofs -----------------------------
(***************************************************************************)
(* Proofs about module Mesh, for every finite set of nodes and every       *)
(* number of envelopes under way: the hellos close the overlay, nodes with *)
(* the same blocks have the same ledger, a pull is complete, and on an     *)
(* overlay that has closed the flood brings every block to every node.     *)
(***************************************************************************)
EXTENDS Mesh, LedgerTheorems

\* The hellos under way: queued, or due and not delivered yet.
Hellos == {q \in Range(queue) \cup Range(due) : q.envelope.kind = "hello"}

\* A hello from n to m is under way, and one that advertises p.
HelloFor(n, m) == \E q \in Hellos : q.from = n /\ q.to = m

HelloNaming(n, m, p) == \E q \in Hellos : q.from = n /\ q.to = m /\ p \in q.envelope.advertised

\* A queue of finite length.
IsSequence(s) == s \in Seq(Range(s))

\* Every envelope is from a node to a node.
Addressed == \A q \in Range(queue) \cup Range(due) : q.from \in Names /\ q.to \in Names

\* Peers and envelopes name other nodes.
OverlayType ==
    /\ peers \in [Names -> SUBSET Names]
    /\ \A n \in Names : n \notin peers[n]
    /\ IsSequence(queue) /\ IsSequence(due) /\ Addressed
    /\ \A q \in Hellos : q.from # q.to /\ q.envelope.advertised \subseteq Names

\* Whom a node has as a peer, has it too or is about to be told.
Answered == \A n, m \in Names : m \in peers[n] => n \in peers[m] \/ HelloFor(n, m)

\* Of two peers of a node, each has the other, or a hello is under way that will tell
\* it so, or that will make the other one tell it.
Introduced ==
    \A m \in Names : \A n, p \in peers[m] :
        n # p => \/ p \in peers[n] \/ HelloNaming(m, n, p)
                 \/ HelloFor(p, n) \/ HelloNaming(m, p, n)

\* The inductive invariant: what OverlayCloses says of an idle mesh, and what is
\* still under way in any other.
OverlayInv == OverlayType /\ Answered /\ Introduced

----------------------------------------------------------------------------
(***************************************************************************)
(* Queues.                                                                 *)
(***************************************************************************)

\* What is in a queue that was appended to.
LEMMA ConcatRange ==
    ASSUME NEW s, NEW r, IsSequence(s), IsSequence(r)
    PROVE  IsSequence(s \o r) /\ Range(s \o r) = Range(s) \cup Range(r)
  <1> DEFINE T == Range(s) \cup Range(r)
             q == s \o r
  <1>1. s \in Seq(T) /\ r \in Seq(T)
    BY DEF IsSequence
  <1>2. q \in Seq(T) /\ Len(q) = Len(s) + Len(r)
        /\ \A i \in 1..Len(q) : q[i] = IF i <= Len(s) THEN s[i] ELSE r[i - Len(s)]
    BY <1>1
  <1>3. Len(s) \in Nat /\ Len(r) \in Nat /\ DOMAIN s = 1..Len(s) /\ DOMAIN r = 1..Len(r)
        /\ DOMAIN q = 1..Len(q)
    BY <1>1, <1>2
  <1> HIDE DEF q
  <1>4. Range(q) \subseteq T
    BY <1>2 DEF Range
  <1>5. ASSUME NEW i \in DOMAIN s PROVE s[i] \in Range(q)
    BY <1>2, <1>3 DEF Range
  <1>6. ASSUME NEW i \in DOMAIN r PROVE r[i] \in Range(q)
    <2> DEFINE j == i + Len(s)
    <2>1. j \in 1..Len(q) /\ ~(j <= Len(s)) /\ j - Len(s) = i
      BY <1>2, <1>3
    <2> HIDE DEF j
    <2>2. q[j] = r[i]
      BY <1>2, <2>1
    <2> QED BY <1>3, <2>1, <2>2 DEF Range
  <1>7. Range(q) = T
    BY <1>4, <1>5, <1>6 DEF Range
  <1> QED
    BY <1>2, <1>7 DEF IsSequence, q

\* What is in a queue whose first envelope was taken.
LEMMA HeadTailRange ==
    ASSUME NEW s, IsSequence(s), s # <<>>
    PROVE  /\ Head(s) \in Range(s)
           /\ IsSequence(Tail(s)) /\ Range(s) = {Head(s)} \cup Range(Tail(s))
  <1> DEFINE T == Range(s)
             r == Tail(s)
  <1>1. s \in Seq(T)
    BY DEF IsSequence
  <1>2. Len(s) \in Nat \ {0} /\ DOMAIN s = 1..Len(s) /\ Head(s) = s[1]
    BY <1>1
  <1>3. r \in Seq(T) /\ Len(r) = Len(s) - 1 /\ DOMAIN r = 1..Len(r)
        /\ \A i \in 1..Len(r) : r[i] = s[i + 1]
    BY <1>1, <1>2
  <1> HIDE DEF r
  <1>4. Range(r) \subseteq T
    BY <1>3 DEF Range
  <1>5. Head(s) \in T
    BY <1>2 DEF Range
  <1>6. ASSUME NEW i \in DOMAIN s PROVE s[i] \in {Head(s)} \cup Range(r)
    <2>1. CASE i = 1
      BY <1>2, <2>1
    <2>2. CASE i # 1
      <3>1. i - 1 \in 1..Len(r) /\ (i - 1) + 1 = i
        BY <1>2, <1>3, <2>2
      <3>2. r[i - 1] = s[i]
        BY <1>3, <3>1
      <3> QED BY <1>3, <3>1, <3>2 DEF Range
    <2> QED BY <2>1, <2>2
  <1>7. T = {Head(s)} \cup Range(r)
    <2>1. T \subseteq {Head(s)} \cup Range(r)
      BY <1>6 DEF Range
    <2> QED BY <2>1, <1>4, <1>5
  <1>8. r \in Seq(Range(r))
    <2>1. \A i \in 1..Len(r) : r[i] \in Range(r)
      BY <1>3 DEF Range
    <2>2. Len(r) \in Nat
      BY <1>3
    <2> QED BY <1>3, <2>1, <2>2
  <1> QED
    BY <1>5, <1>7, <1>8 DEF IsSequence, r

\* The numbers in their order.
LEMMA NumbersOrdered ==
    ASSUME NEW S, S \subseteq Nat
    PROVE  StrictOrder(S, {p \in Nat \X Nat : p[1] < p[2]})
  BY DEF StrictOrder

\* What from sends to each of the names.
Copies(from, names, envelope) ==
    {[from |-> from, to |-> t, envelope |-> envelope] : t \in names}

\* ToEach queues one envelope for each of the names, and nothing else.
LEMMA ToEachRange ==
    ASSUME NEW from, NEW names \in SUBSET Names, NEW envelope
    PROVE  /\ IsSequence(ToEach(from, names, envelope))
           /\ Range(ToEach(from, names, envelope)) = Copies(from, names, envelope)
  <1> DEFINE R == {p \in Nat \X Nat : p[1] < p[2]}
             n == Cardinality(names)
             s == Ranked(names, R)
             q == ToEach(from, names, envelope)
  <1>1. IsFiniteSet(names) /\ names \subseteq Nat
    BY FS_Subset, MeshAssumption
  <1>2. n \in Nat /\ Enumerates(s, names, R)
    <2>1. n \in Nat
      BY <1>1, FS_CardinalityType
    <2>2. StrictOrder(names, R)
      BY <1>1, NumbersOrdered
    <2> HIDE DEF R
    <2>3. Enumerates(s, names, R)
      BY <1>1, <2>2, RankEnumerates
    <2> QED BY <2>1, <2>3
  <1>3. \A i \in 1..n : s[i] = Nth(names, i)
    <2>1. \A a \in names : {b \in names : <<b, a>> \in R} = {b \in names : b < a}
      BY <1>1
    <2> QED BY <2>1 DEF Nth, Ranked
  <1>4. s \in [1..n -> names] /\ \A t \in names : \E i \in 1..n : s[i] = t
    BY <1>2 DEF Enumerates
  <1> HIDE DEF s, n
  <1>5. q = [i \in 1..n |-> [from |-> from, to |-> s[i], envelope |-> envelope]]
    BY <1>3 DEF ToEach, n
  <1> HIDE DEF q
  <1>6. DOMAIN q = 1..n /\ \A i \in 1..n : q[i] = [from |-> from, to |-> s[i], envelope |-> envelope]
    BY <1>5
  <1>7. Range(q) = {[from |-> from, to |-> t, envelope |-> envelope] : t \in names}
    BY <1>4, <1>6 DEF Range
  <1>8. q \in Seq(Range(q))
    <2>1. \A i \in 1..n : q[i] \in Range(q)
      BY <1>6 DEF Range
    <2> QED BY <1>2, <1>5, <2>1
  <1> QED
    BY <1>7, <1>8 DEF IsSequence, q, Copies

----------------------------------------------------------------------------
(***************************************************************************)
(* The overlay.                                                            *)
(***************************************************************************)

\* A node whose peers become known, and which greets each new one with all of them,
\* keeps the invariant, if a hello that was taken from a queue was for this node and
\* all it says is known now.
LEMMA LearnStep ==
    ASSUME OverlayInv, NEW n \in Names, NEW known \in SUBSET (Names \ {n}),
           peers[n] \subseteq known, peers' = [peers EXCEPT ![n] = known],
           \A t \in known \ peers[n] :
               [from |-> n, to |-> t, envelope |-> Hello(known)] \in Hellos',
           \A q \in Hellos : q \in Hellos' \/ /\ q.to = n /\ q.from \in known
                                              /\ q.envelope.advertised \ {n} \subseteq known
    PROVE  Answered' /\ Introduced'
  <1>1. peers \in [Names -> SUBSET Names] /\ \A m \in Names : m \notin peers[m]
    BY DEF OverlayInv, OverlayType
  <1>2. peers'[n] = known /\ \A m \in Names \ {n} : peers'[m] = peers[m]
    BY <1>1
  <1>3. \A m \in Names : peers[m] \subseteq peers'[m] /\ peers'[m] \subseteq Names /\ m \notin peers'[m]
    BY <1>1, <1>2
  <1>4. ASSUME NEW t \in known \ peers[n], NEW p \in known
        PROVE  HelloFor(n, t)' /\ HelloNaming(n, t, p)'
    <2> DEFINE q == [from |-> n, to |-> t, envelope |-> Hello(known)]
    <2>1. q \in Hellos' /\ q.from = n /\ q.to = t /\ q.envelope.advertised = known
      BY DEF Hello
    <2> HIDE DEF q
    <2> QED BY <2>1 DEF HelloFor, HelloNaming
  <1>5. ASSUME NEW a \in Names, NEW b \in Names, HelloFor(a, b)
        PROVE  HelloFor(a, b)' \/ (b = n /\ a \in known)
    BY <1>5 DEF HelloFor
  <1>6. ASSUME NEW a \in Names, NEW b \in Names, NEW p \in Names \ {n}, HelloNaming(a, b, p)
        PROVE  HelloNaming(a, b, p)' \/ (b = n /\ p \in known)
    BY <1>6 DEF HelloNaming
  <1>7. ASSUME NEW a \in Names, NEW b \in Names, b \in peers'[a]
        PROVE  a \in peers'[b] \/ HelloFor(a, b)'
    <2>1. CASE b \in peers[a]
      <3>1. a \in peers[b] \/ HelloFor(a, b)
        BY <2>1 DEF OverlayInv, Answered
      <3> QED BY <1>2, <1>3, <1>5, <3>1
    <2>2. CASE b \notin peers[a]
      <3>1. a = n /\ b \in known \ peers[n]
        BY <1>2, <1>7, <2>2
      <3> QED BY <1>4, <3>1
    <2> QED BY <2>1, <2>2
  <1>8. ASSUME NEW m \in Names, NEW a \in peers'[m], NEW p \in peers'[m], a # p
        PROVE  \/ p \in peers'[a] \/ HelloNaming(m, a, p)'
               \/ HelloFor(p, a)' \/ HelloNaming(m, p, a)'
    <2>1. a \in Names /\ p \in Names
      BY <1>3
    <2>2. CASE a \in peers[m] /\ p \in peers[m]
      <3>1. CASE p \in peers[a]
        BY <1>3, <2>1, <3>1
      <3>2. CASE HelloFor(p, a)
        BY <1>2, <1>5, <2>1, <3>2
      <3>3. CASE HelloNaming(m, a, p)
        <4>1. CASE p = n
          \* The node's own name: it has a, which was told of it or greets it.
          <5>1. HelloNaming(m, a, p)'
            BY <3>3, <4>1, <2>1, <1>8 DEF HelloNaming
          <5> QED BY <5>1
        <4>2. CASE p # n
          BY <1>2, <1>6, <2>1, <3>3, <4>2
        <4> QED BY <4>1, <4>2
      <3>4. CASE HelloNaming(m, p, a)
        <4>1. CASE HelloNaming(m, p, a)'
          BY <4>1
        <4>2. CASE ~HelloNaming(m, p, a)'
          <5>1. p = n /\ a \in known
            <6>1. CASE a = n
              BY <6>1, <3>4, <4>2, <2>1, <1>8 DEF HelloNaming
            <6>2. CASE a # n
              BY <6>2, <1>6, <2>1, <3>4, <4>2
            <6> QED BY <6>1, <6>2
          <5>2. a \in peers'[p]
            BY <1>2, <5>1
          <5> QED BY <1>7, <2>1, <5>2
        <4> QED BY <4>1, <4>2
      <3> QED
        BY <2>2, <1>8, <3>1, <3>2, <3>3, <3>4 DEF OverlayInv, Introduced
    <2>3. CASE a \notin peers[m]
      <3>1. m = n /\ a \in known \ peers[n] /\ p \in known
        BY <1>2, <2>3
      <3> QED BY <1>4, <3>1
    <2>4. CASE p \notin peers[m]
      <3>1. m = n /\ p \in known \ peers[n] /\ a \in known
        BY <1>2, <2>4
      <3> QED BY <1>4, <3>1
    <2> QED BY <2>2, <2>3, <2>4
  <1> QED
    BY <1>7, <1>8 DEF Answered, Introduced

\* A step that leaves the peers alone and neither takes nor queues a hello keeps the
\* invariant.
LEMMA QuietStep ==
    ASSUME OverlayInv, peers' = peers, Hellos' = Hellos,
           IsSequence(queue)', IsSequence(due)', Addressed'
    PROVE  OverlayInv'
  BY DEF OverlayInv, OverlayType, Answered, Introduced, HelloFor, HelloNaming

\* Queueing a block or a transaction queues no hello.
LEMMA QueueOther ==
    ASSUME OverlayType, NEW from \in Names, NEW names \in SUBSET Names, NEW e,
           e.kind # "hello", queue' = queue \o ToEach(from, names, e) \/ queue' = queue,
           \/ due' = due
           \/ due # <<>> /\ due' = Tail(due) /\ Head(due).envelope.kind # "hello"
    PROVE  Hellos' = Hellos /\ IsSequence(queue)' /\ IsSequence(due)' /\ Addressed'
  <1> DEFINE new == ToEach(from, names, e)
  <1>1. IsSequence(new) /\ Range(new) = Copies(from, names, e)
    BY ToEachRange
  <1>2. \A q \in Range(new) : q.envelope.kind # "hello" /\ q.from \in Names /\ q.to \in Names
    BY <1>1 DEF Copies
  <1> HIDE DEF new
  <1>3. IsSequence(queue) /\ IsSequence(due) /\ Addressed
    BY DEF OverlayType
  <1>4. IsSequence(queue') /\ Range(queue) \subseteq Range(queue')
        /\ Range(queue') \subseteq Range(queue) \cup Range(new)
    <2>1. CASE queue' = queue \o new
      <3>1. IsSequence(queue \o new) /\ Range(queue \o new) = Range(queue) \cup Range(new)
        BY <1>1, <1>3, ConcatRange
      <3> QED BY <2>1, <3>1
    <2>2. CASE queue' = queue
      BY <1>3, <2>2
    <2> QED BY <2>1, <2>2 DEF new
  <1>5. IsSequence(due') /\ \/ Range(due') = Range(due)
                            \/ Range(due) = {Head(due)} \cup Range(due')
                               /\ Head(due).envelope.kind # "hello"
    BY <1>3, HeadTailRange
  <1>6. Hellos' = Hellos
    BY <1>2, <1>4, <1>5 DEF Hellos
  <1>7. Addressed'
    BY <1>2, <1>3, <1>4, <1>5 DEF Addressed
  <1> QED
    BY <1>4, <1>5, <1>6, <1>7 DEF IsSequence, Range

\* A peer that a node connects to is greeted with all its peers.
LEMMA ConnectStep ==
    ASSUME OverlayInv, NEW n \in Names, NEW m \in Names, Connect(n, m)
    PROVE  OverlayInv'
  <1> DEFINE known == peers[n] \cup {m}
             new == ToEach(n, {m}, Hello(known))
  <1>1. /\ peers \in [Names -> SUBSET Names] /\ \A i \in Names : i \notin peers[i]
        /\ IsSequence(queue) /\ IsSequence(due) /\ Addressed
        /\ \A q \in Hellos : q.from # q.to /\ q.envelope.advertised \subseteq Names
    BY DEF OverlayInv, OverlayType
  <1>2. n # m /\ due' = due /\ peers' = [peers EXCEPT ![n] = known] /\ queue' = queue \o new
    BY DEF Connect
  <1>3. known \in SUBSET (Names \ {n}) /\ peers[n] \subseteq known
    BY <1>1, <1>2
  <1>4. IsSequence(new) /\ Range(new) = Copies(n, {m}, Hello(known))
    BY ToEachRange
  <1> HIDE DEF known, new
  <1>5. IsSequence(queue') /\ Range(queue') = Range(queue) \cup Copies(n, {m}, Hello(known))
    BY <1>1, <1>2, <1>4, ConcatRange
  <1>6. Hellos' = Hellos \cup Copies(n, {m}, Hello(known))
    BY <1>2, <1>5 DEF Hellos, Copies, Hello
  <1>7. Answered' /\ Introduced'
    <2>1. \A t \in known \ peers[n] : [from |-> n, to |-> t, envelope |-> Hello(known)] \in Hellos'
      BY <1>6 DEF known, Copies
    <2> QED BY <1>2, <1>3, <1>6, <2>1, LearnStep
  <1>8. Addressed'
    BY <1>1, <1>2, <1>5 DEF Addressed, Copies
  <1>9. \A q \in Hellos' : q.from # q.to /\ q.envelope.advertised \subseteq Names
    BY <1>1, <1>2, <1>3, <1>6 DEF Copies, Hello
  <1>10. peers' \in [Names -> SUBSET Names] /\ \A i \in Names : i \notin peers'[i]
    BY <1>1, <1>2, <1>3
  <1> QED
    <2>1. IsSequence(queue)' /\ IsSequence(due)'
      BY <1>1, <1>2, <1>5 DEF IsSequence
    <2> QED BY <1>7, <1>8, <1>9, <1>10, <2>1 DEF OverlayInv, OverlayType

\* A hello that is delivered makes its receiver greet the sender, if it was a stranger,
\* and every stranger it names.
LEMMA OnHelloStep ==
    ASSUME OverlayInv, OnHello
    PROVE  OverlayInv'
  <1> DEFINE q == Head(due)
             n == q.to
             advertised == q.envelope.advertised
             fresh == advertised \ (peers[n] \cup {n, q.from})
             known == peers[n] \cup {q.from} \cup (advertised \ {n})
             reply == ToEach(n, {q.from} \ peers[n], Hello(known))
             greet == ToEach(n, fresh, Hello(known))
  <1>1. /\ peers \in [Names -> SUBSET Names] /\ \A i \in Names : i \notin peers[i]
        /\ IsSequence(queue) /\ IsSequence(due) /\ Addressed
        /\ \A h \in Hellos : h.from # h.to /\ h.envelope.advertised \subseteq Names
    BY DEF OverlayInv, OverlayType
  <1>2. due # <<>> /\ q.envelope.kind = "hello" /\ due' = Tail(due)
        /\ peers' = [peers EXCEPT ![n] = known] /\ queue' = queue \o reply \o greet
    BY DEF OnHello, Deliver
  <1>3. q \in Range(due) /\ IsSequence(due') /\ Range(due) = {q} \cup Range(due')
    BY <1>1, <1>2, HeadTailRange
  <1>4. q \in Hellos /\ q.from \in Names /\ n \in Names /\ q.from # n /\ advertised \subseteq Names
    BY <1>1, <1>2, <1>3 DEF Hellos, Addressed
  <1>5. /\ known \in SUBSET (Names \ {n}) /\ peers[n] \subseteq known
        /\ fresh \in SUBSET Names /\ {q.from} \ peers[n] \in SUBSET Names
        /\ known \ peers[n] = ({q.from} \ peers[n]) \cup fresh
        /\ n \notin fresh
        /\ advertised \ {n} \subseteq known /\ q.from \in known
    BY <1>1, <1>4
  <1>6. /\ IsSequence(reply) /\ Range(reply) = Copies(n, {q.from} \ peers[n], Hello(known))
        /\ IsSequence(greet) /\ Range(greet) = Copies(n, fresh, Hello(known))
    BY <1>5, ToEachRange
  <1> DEFINE sent == Copies(n, known \ peers[n], Hello(known))
  <1>7. Copies(n, {q.from} \ peers[n], Hello(known)) \cup Copies(n, fresh, Hello(known)) = sent
    BY <1>5 DEF Copies
  <1> HIDE DEF q, n, advertised, fresh, known, reply, greet, sent
  <1>8. IsSequence(queue') /\ Range(queue') = Range(queue) \cup sent
    <2>1. IsSequence(queue \o reply) /\ Range(queue \o reply) = Range(queue) \cup Range(reply)
      BY <1>1, <1>6, ConcatRange
    <2>2. IsSequence((queue \o reply) \o greet)
          /\ Range((queue \o reply) \o greet) = Range(queue \o reply) \cup Range(greet)
      BY <1>6, <2>1, ConcatRange
    <2> QED BY <1>2, <1>6, <1>7, <2>1, <2>2
  <1>9. \A s \in sent : s.from = n /\ s.to \in known /\ s.envelope = Hello(known)
    BY DEF sent, Copies
  <1>10. /\ \A t \in known \ peers[n] : [from |-> n, to |-> t, envelope |-> Hello(known)] \in Hellos'
         /\ \A h \in Hellos : h = q \/ h \in Hellos'
         /\ \A h \in Hellos' : h \in Hellos \/ h \in sent
    BY <1>3, <1>8 DEF Hellos, sent, Copies, Hello
  <1>11. Answered' /\ Introduced'
    <2>1. \A h \in Hellos : h \in Hellos' \/ /\ h.to = n /\ h.from \in known
                                             /\ h.envelope.advertised \ {n} \subseteq known
      BY <1>5, <1>10 DEF n, advertised
    <2> QED BY <1>2, <1>4, <1>5, <1>10, <2>1, LearnStep
  <1>12. Addressed'
    BY <1>1, <1>3, <1>4, <1>5, <1>8, <1>9 DEF Addressed
  <1>13. \A h \in Hellos' : h.from # h.to /\ h.envelope.advertised \subseteq Names
    BY <1>1, <1>5, <1>9, <1>10 DEF Hello
  <1>14. peers' \in [Names -> SUBSET Names] /\ \A i \in Names : i \notin peers'[i]
    BY <1>1, <1>2, <1>4, <1>5
  <1> QED
    BY <1>3, <1>8, <1>11, <1>12, <1>13, <1>14 DEF OverlayInv, OverlayType, IsSequence, Range

\* Every step keeps the invariant.
LEMMA OverlayStep == OverlayInv /\ [Next]_vars => OverlayInv'
  <1> SUFFICES ASSUME OverlayInv, [Next]_vars PROVE OverlayInv'
    OBVIOUS
  <1>1. OverlayType /\ \A n \in Names : peers[n] \in SUBSET Names
    BY DEF OverlayInv, OverlayType
  <1>2. \A id, tx : BlockMsg(id).kind # "hello" /\ TxMsg(tx).kind # "hello"
    BY DEF BlockMsg, TxMsg
  <1>3. ASSUME NEW n \in Names, NEW block, NEW after, Insert(n, block, after)
        PROVE  OverlayInv'
    <2>1. queue' = queue \o ToEach(n, peers[n], BlockMsg(IdOf(block))) /\ due' = due /\ peers' = peers
      BY <1>3 DEF Insert, AnnounceBlock
    <2> QED BY <1>1, <1>2, <2>1, QueueOther, QuietStep
  <1>4. ASSUME NEW n \in Names, ProduceEmpty(n) \/ Produce(n) \/ Send(n)
        PROVE  OverlayInv'
    BY <1>3, <1>4 DEF ProduceEmpty, Produce, Send
  <1>5. ASSUME NEW n \in Names, Pool(n) PROVE OverlayInv'
    <2>1. PICK tx : queue' = queue \o ToEach(n, peers[n], TxMsg(tx))
      BY <1>5 DEF Pool, AnnounceTx
    <2>2. due' = due /\ peers' = peers
      BY <1>5 DEF Pool
    <2> QED BY <1>1, <1>2, <2>1, <2>2, QueueOther, QuietStep
  <1>6. ASSUME NEW n \in Names, NEW m \in Names, Pull(n, m) PROVE OverlayInv'
    BY <1>6 DEF Pull, OverlayInv, OverlayType, Answered, Introduced, HelloFor, HelloNaming,
                Hellos, Addressed, IsSequence
  <1>7. CASE Tick
    <2>1. due = <<>> /\ due' = queue /\ queue' = <<>> /\ peers' = peers
      BY <1>7 DEF Tick
    <2>2. Range(<<>>) = {} /\ IsSequence(<<>>)
      BY DEF Range, IsSequence
    <2>3. Hellos' = Hellos /\ IsSequence(queue)' /\ IsSequence(due)' /\ Addressed'
      BY <1>1, <2>1, <2>2 DEF Hellos, IsSequence, Addressed, OverlayType
    <2> QED BY <2>1, <2>3, QuietStep
  <1>8. ASSUME due # <<>> PROVE Head(due).to \in Names /\ peers[Head(due).to] \ {Head(due).from} \in SUBSET Names
    <2>1. Head(due) \in Range(due)
      BY <1>1, <1>8, HeadTailRange DEF OverlayType
    <2> QED BY <1>1, <2>1 DEF OverlayType, Addressed
  <1>9. CASE OnBlock
    <2> DEFINE n == Head(due).to
               names == peers[n] \ {Head(due).from}
    <2>1. due # <<>> /\ Head(due).envelope.kind # "hello" /\ due' = Tail(due) /\ peers' = peers
      BY <1>9 DEF OnBlock, Deliver
    <2>2. PICK e : e.kind # "hello" /\ (queue' = queue \o ToEach(n, names, e) \/ queue' = queue)
      BY <1>2, <1>9 DEF OnBlock
    <2>3. n \in Names /\ names \in SUBSET Names
      BY <1>8, <2>1
    <2> HIDE DEF n, names
    <2>4. Hellos' = Hellos /\ IsSequence(queue)' /\ IsSequence(due)' /\ Addressed'
      BY <1>1, <2>1, <2>2, <2>3, QueueOther
    <2> QED BY <2>1, <2>4, QuietStep
  <1>10. CASE OnTx
    <2> DEFINE n == Head(due).to
               names == peers[n] \ {Head(due).from}
    <2>1. due # <<>> /\ Head(due).envelope.kind # "hello" /\ due' = Tail(due) /\ peers' = peers
      BY <1>10 DEF OnTx, Deliver
    <2>2. PICK e : e.kind # "hello" /\ (queue' = queue \o ToEach(n, names, e) \/ queue' = queue)
      BY <1>2, <1>10 DEF OnTx
    <2>3. n \in Names /\ names \in SUBSET Names
      BY <1>8, <2>1
    <2> HIDE DEF n, names
    <2>4. Hellos' = Hellos /\ IsSequence(queue)' /\ IsSequence(due)' /\ Addressed'
      BY <1>1, <2>1, <2>2, <2>3, QueueOther
    <2> QED BY <2>1, <2>4, QuietStep
  <1>11. CASE UNCHANGED vars
    BY <1>11 DEF vars, OverlayInv, OverlayType, Answered, Introduced, HelloFor, HelloNaming,
                 Hellos, Addressed, IsSequence
  <1> QED
    BY <1>4, <1>5, <1>6, <1>7, <1>9, <1>10, <1>11, ConnectStep, OnHelloStep DEF Next, Relay

\* The invariant holds of every state of every mesh.
LEMMA OverlayInvariance == Spec => []OverlayInv
  <1>1. Init => OverlayInv
    BY DEF Init, OverlayInv, OverlayType, Answered, Introduced, Hellos, Addressed, IsSequence, Range
  <1> QED
    BY <1>1, OverlayStep, PTL DEF Spec

\* In whatever order nodes connect, while whatever hellos are under way, in a mesh of any
\* number of nodes: when the queue has drained, whoever a node has as a peer has it as a
\* peer too, and so have all of that peer's peers (enqueue_hello and the hello case of
\* deliver, p2p.rs).
THEOREM OverlayAlwaysCloses == Spec => []OverlayCloses
  <1>1. OverlayInv => OverlayCloses
    <2> SUFFICES ASSUME OverlayInv, Idle, NEW n \in Names, NEW m \in Names, m \in peers[n]
                 PROVE  n \in peers[m] /\ peers[m] \ {n} \subseteq peers[n]
      BY DEF OverlayCloses
    <2>1. Hellos = {}
      BY DEF Idle, Hellos, Range
    <2>2. n \in peers[m]
      BY <2>1 DEF OverlayInv, Answered, HelloFor
    <2> QED
      BY <2>1, <2>2 DEF OverlayInv, Introduced, HelloFor, HelloNaming
  <1> QED
    BY <1>1, OverlayInvariance, PTL

----------------------------------------------------------------------------
(***************************************************************************)
(* The ledgers.  m is the list of the blocks that were made.               *)
(***************************************************************************)

\* id is that of a block that was made, and this is the block.
Makes(m, id, block) == \E i \in 1..Len(m) : id = IdOrder[i] /\ block = m[i]

\* Every block was made once, and has an id.
Registered(m) ==
    /\ IsSequence(m) /\ Len(m) <= Len(IdOrder) /\ IsInjective(m)
    /\ \A block \in Range(m) : block.work \in Int

\* A ledger over the common genesis, of blocks that were made.
OfMade(m, L) ==
    /\ Sound(L)
    /\ L.dag.nodes[GenesisId].block = GenesisOver(GenesisTxs)
    /\ \A b \in Blocks(L.dag) \ {GenesisId} : Makes(m, b, L.dag.nodes[b].block)

\* A node with such a ledger.
Informed(m, N) ==
    /\ N = [ledger |-> N.ledger, mempool |-> N.mempool, clock |-> N.clock, miner |-> N.miner]
    /\ OfMade(m, N.ledger)

\* What is sent was made.
SentMade(m, envelopes) ==
    \A q \in envelopes : q.envelope.kind = "block" => \E block : Makes(m, q.envelope.id, block)

\* The inductive invariant.
LedgersInv ==
    /\ Registered(made) /\ SentMade(made, Range(queue) \cup Range(due))
    /\ nodes = [n \in Names |-> nodes[n]]
    /\ \A n \in Names : Informed(made, nodes[n])

\* One id, one block.
LEMMA MadeOnce ==
    ASSUME NEW m, Registered(m), NEW id, NEW a, NEW b, Makes(m, id, a), Makes(m, id, b)
    PROVE  a = b /\ id \in Nat \ {GenesisId} /\ a.work \in Int
  <1>1. PICK i \in 1..Len(m) : id = IdOrder[i] /\ a = m[i]
    BY DEF Makes
  <1>2. PICK j \in 1..Len(m) : id = IdOrder[j] /\ b = m[j]
    BY DEF Makes
  <1>3. /\ m \in Seq(Range(m)) /\ Len(m) <= Len(IdOrder)
        /\ IdOrder \in Seq(Nat \ {GenesisId}) /\ IsInjective(IdOrder)
    BY MeshAssumption DEF Registered, IsSequence
  <1>4. i \in DOMAIN IdOrder /\ j \in DOMAIN IdOrder /\ i \in DOMAIN m
    BY <1>3
  <1>5. i = j
    BY <1>1, <1>2, <1>3, <1>4 DEF IsInjective
  <1>6. a \in Range(m)
    BY <1>1, <1>4 DEF Range
  <1> QED
    BY <1>1, <1>2, <1>3, <1>4, <1>5, <1>6 DEF Registered

\* BlockOf finds it.
LEMMA BlockFound ==
    ASSUME Registered(made), NEW id, NEW block, Makes(made, id, block)
    PROVE  BlockOf(id) = block
  <1>1. made \in Seq(Range(made))
    BY DEF Registered, IsSequence
  <1>2. DOMAIN made = 1..Len(made)
    BY <1>1
  <1> DEFINE i == CHOOSE i \in DOMAIN made : IdOrder[i] = id
  <1>3. \E j \in DOMAIN made : IdOrder[j] = id
    BY <1>2 DEF Makes
  <1>4. i \in DOMAIN made /\ IdOrder[i] = id
    BY <1>3
  <1>5. BlockOf(id) = made[i]
    BY DEF BlockOf
  <1> HIDE DEF i
  <1>6. Makes(made, id, made[i])
    BY <1>2, <1>4 DEF Makes
  <1> QED
    BY <1>5, <1>6, MadeOnce

\* When more blocks are made, those that were made are still there.
LEMMA MadeGrows ==
    ASSUME NEW m, IsSequence(m), NEW block, NEW id, NEW b, Makes(m, id, b)
    PROVE  Makes(Append(m, block), id, b)
  <1>1. PICK i \in 1..Len(m) : id = IdOrder[i] /\ b = m[i]
    BY DEF Makes
  <1>2. m \in Seq(Range(m) \cup {block}) /\ Len(m) \in Nat
    BY DEF IsSequence
  <1>3. /\ Len(Append(m, block)) = Len(m) + 1 /\ Append(m, block)[i] = m[i]
        /\ i \in 1..Len(Append(m, block))
    BY <1>2
  <1> QED
    BY <1>1, <1>3 DEF Makes

\* What was made is made still, and the block id too.
MakesToo(m, more, id, block) ==
    /\ Registered(more) /\ Makes(more, id, block)
    /\ \A i, b : Makes(m, i, b) => Makes(more, i, b)
    /\ \A i, b : Makes(more, i, b) => Makes(m, i, b) \/ (i = id /\ b = block)

\* Building a block adds it to those that were made, if it was not made before.
LEMMA MadeMore ==
    ASSUME Registered(made), NEW block, block.work \in Int, Position(block) \in DOMAIN IdOrder,
           NEW more, more = IF block \in Range(made) THEN made ELSE Append(made, block)
    PROVE  MakesToo(made, more, IdOf(block), block)
  <1> DEFINE id == IdOf(block)
  <1>1. made \in Seq(Range(made)) /\ Len(made) \in Nat /\ DOMAIN made = 1..Len(made)
    BY DEF Registered, IsSequence
  <1>2. CASE block \in Range(made)
    <2>1. Position(block) \in DOMAIN made /\ made[Position(block)] = block
      BY <1>2 DEF Position, Range
    <2>2. more = made /\ id = IdOrder[Position(block)]
      BY <1>2 DEF IdOf
    <2> HIDE DEF id
    <2>3. \E p \in 1..Len(made) : p = Position(block)
      BY <1>1, <2>1
    <2>4. PICK p \in 1..Len(made) : p = Position(block)
      BY <2>3
    <2>5. id = IdOrder[p] /\ block = made[p]
      BY <2>1, <2>2, <2>4
    <2>6. Makes(made, id, block)
      BY <2>5 DEF Makes
    <2> QED BY <2>2, <2>6 DEF id, MakesToo
  <1>3. CASE block \notin Range(made)
    <2> DEFINE k == Len(made) + 1
    <2>1. Position(block) = k /\ id = IdOrder[k] /\ k \in DOMAIN IdOrder /\ more = Append(made, block)
      BY <1>3 DEF Position, IdOf
    <2>2. /\ more \in Seq(Range(made) \cup {block}) /\ Len(more) = k /\ more[k] = block
          /\ \A i \in 1..Len(made) : more[i] = made[i]
      <3> HIDE DEF id
      <3>1. made \in Seq(Range(made) \cup {block}) /\ block \in Range(made) \cup {block}
        BY <1>1
      <3> QED BY <1>1, <2>1, <3>1
    <2> HIDE DEF id
    <2>3. /\ DOMAIN more = 1..k /\ k \in Nat /\ k \in 1..k
          /\ \A i \in 1..k : i = k \/ i \in 1..Len(made)
          /\ \A i \in 1..Len(made) : i \in 1..k
      BY <1>1, <2>2
    <2>4. Range(more) = Range(made) \cup {block}
      BY <1>1, <2>2, <2>3 DEF Range
    <2>5. IsInjective(more)
      <3>1. \A i \in 1..Len(made) : made[i] # block
        BY <1>1, <1>3 DEF Range
      <3> QED BY <1>1, <2>2, <2>3, <3>1 DEF IsInjective, Registered
    <2>6. k <= Len(IdOrder)
      BY <2>1, MeshAssumption
    <2>7. Registered(more)
      <3>1. IsSequence(more) /\ Len(more) <= Len(IdOrder)
        BY <2>2, <2>4, <2>6 DEF IsSequence
      <3>2. \A b \in Range(more) : b.work \in Int
        BY <2>4 DEF Registered
      <3> QED BY <2>5, <3>1, <3>2 DEF Registered
    <2>8. Makes(more, id, block)
      BY <2>1, <2>2, <2>3 DEF Makes
    <2>9. ASSUME NEW i, NEW b, Makes(made, i, b) PROVE Makes(more, i, b)
      BY <2>1, <2>9, MadeGrows DEF Registered
    <2>10. ASSUME NEW i, NEW b, Makes(more, i, b) PROVE Makes(made, i, b) \/ (i = id /\ b = block)
      BY <2>1, <2>2, <2>3, <2>10 DEF Makes
    <2> QED BY <2>7, <2>8, <2>9, <2>10 DEF id, MakesToo
  <1> QED BY <1>2, <1>3

\* The ledger of a node takes a block that was made.
LEMMA InformedInsert ==
    ASSUME NEW m, Registered(m), NEW L, OfMade(m, L), NEW id, NEW block, Makes(m, id, block),
           CanLedgerInsert(L, id, block)
    PROVE  OfMade(m, LedgerInsert(L, id, block)) /\ Takes(L, id, block)
  <1> DEFINE M == LedgerInsert(L, id, block)
  <1>1. Takes(L, id, block)
    BY MadeOnce DEF Takes
  <1>2. /\ Sound(M) /\ Blocks(M.dag) = Blocks(L.dag) \cup {id} /\ Within(L.dag, M.dag)
        /\ M.dag.nodes[id].block = block
    BY <1>1, InsertSound DEF OfMade
  <1>3. GenesisId \in Blocks(L.dag)
    BY DEF OfMade, Sound, LedgerOK, DagOK
  <1> HIDE DEF M
  <1>4. \A b \in Blocks(L.dag) : M.dag.nodes[b].block = L.dag.nodes[b].block
    BY <1>2 DEF Within
  <1>5. \A b \in Blocks(M.dag) \ {GenesisId} : Makes(m, b, M.dag.nodes[b].block)
    BY <1>2, <1>4 DEF OfMade
  <1> QED
    BY <1>1, <1>2, <1>3, <1>4, <1>5 DEF OfMade, M

\* accept_block changes the ledger and the mempool.
LEMMA Accepted ==
    ASSUME NEW N, N = [ledger |-> N.ledger, mempool |-> N.mempool, clock |-> N.clock, miner |-> N.miner],
           NEW id, NEW block, NEW A, A = AcceptBlock(N, id, block)
    PROVE  /\ A = [ledger |-> A.ledger, mempool |-> A.mempool, clock |-> A.clock, miner |-> A.miner]
           /\ A.ledger = LedgerInsert(N.ledger, id, block) /\ A.clock = N.clock
  <1> DEFINE L == LedgerInsert(N.ledger, id, block)
             M == [N EXCEPT !.ledger = L]
  <1>1. M = [ledger |-> L, mempool |-> N.mempool, clock |-> N.clock, miner |-> N.miner]
    <2> HIDE DEF L
    <2> QED OBVIOUS
  <1>2. A = EvictMempool(M)
    BY DEF AcceptBlock
  <1> HIDE DEF M, L
  <1>3. A = [M EXCEPT !.mempool = EvictInvalid(M.mempool, LedgerState(M.ledger))]
    BY <1>2 DEF EvictMempool
  <1> DEFINE rest == EvictInvalid(M.mempool, LedgerState(M.ledger))
  <1> HIDE DEF rest
  <1>4. A = [ledger |-> L, mempool |-> rest, clock |-> N.clock, miner |-> N.miner]
    BY <1>1, <1>3 DEF rest
  <1> QED
    BY <1>4 DEF L

\* A node that accepts a block that was made.
LEMMA InformedAccept ==
    ASSUME NEW m, Registered(m), NEW N, Informed(m, N), NEW id, NEW block, Makes(m, id, block),
           CanLedgerInsert(N.ledger, id, block)
    PROVE  Informed(m, AcceptBlock(N, id, block))
  <1> DEFINE A == AcceptBlock(N, id, block)
  <1>1. /\ A = [ledger |-> A.ledger, mempool |-> A.mempool, clock |-> A.clock, miner |-> A.miner]
        /\ A.ledger = LedgerInsert(N.ledger, id, block)
    BY Accepted DEF Informed
  <1> HIDE DEF A
  <1>2. OfMade(m, A.ledger)
    BY <1>1, InformedInsert DEF Informed
  <1> QED
    BY <1>1, <1>2 DEF Informed, A

\* Or receives it.
LEMMA InformedReceive ==
    ASSUME NEW m, Registered(m), NEW N, Informed(m, N), NEW id, NEW block, Makes(m, id, block),
           CanReceive(N, id, block)
    PROVE  Informed(m, ReceiveBlock(N, id, block))
  <1>1. CASE id \in Blocks(N.ledger.dag)
    BY <1>1 DEF ReceiveBlock
  <1>2. CASE id \notin Blocks(N.ledger.dag)
    BY <1>2, InformedAccept DEF ReceiveBlock, CanReceive
  <1> QED
    BY <1>1, <1>2

\* What a step of gossip or of a pull makes of a node, as long as nothing was refused.
Received(d, acc, r) ==
    IF acc.ok /\ CanReceive(acc.node, r.id, r.block)
    THEN [ok |-> TRUE, node |-> ReceiveBlock(acc.node, r.id, r.block)]
    ELSE [ok |-> FALSE, node |-> acc.node]
Receiving == INSTANCE DataTheorems WITH FoldStep <- Received

LEMMA ReceiveFold ==
    ASSUME NEW N, NEW records
    PROVE  ReceiveAll(N, records) = Receiving!Fold(0, [ok |-> TRUE, node |-> N], records).node
  BY DEF ReceiveAll, Received, Receiving!Fold, FoldLeft, MapThenFoldSet, Max, Receiving!Largest

\* A node that is sent blocks that were made, up to one that it refuses.
LEMMA InformedPull ==
    ASSUME NEW m, Registered(m), NEW N, Informed(m, N), NEW records, NEW k \in Nat,
           DOMAIN records = 1..k, \A i \in 1..k : Makes(m, records[i].id, records[i].block)
    PROVE  Informed(m, ReceiveAll(N, records))
  <1> DEFINE base == [ok |-> TRUE, node |-> N]
  <1>1. PICK h : Receiving!Steps(0, base, records, k, h) /\ Receiving!Fold(0, base, records) = h[k]
    BY Receiving!FoldSteps
  <1> DEFINE S == {i \in Nat : Informed(m, h[i].node)}
  <1>2. 0 \in S
    BY <1>1 DEF Receiving!Steps
  <1>3. ASSUME NEW i \in 0..(k - 1), i \in S PROVE i + 1 \in S
    <2> DEFINE r == records[i + 1]
               acc == h[i]
    <2>1. i + 1 \in 1..k /\ (i + 1) - 1 = i /\ i + 1 \in Nat
      OBVIOUS
    <2>2. h[i + 1] = Received(0, h[(i + 1) - 1], records[i + 1])
      BY <1>1, <2>1 DEF Receiving!Steps
    <2>3. h[i + 1] = Received(0, acc, r) /\ Informed(m, acc.node) /\ Makes(m, r.id, r.block)
      BY <1>3, <2>1, <2>2
    <2> HIDE DEF r, acc
    <2>4. CASE acc.ok /\ CanReceive(acc.node, r.id, r.block)
      <3>1. h[i + 1].node = ReceiveBlock(acc.node, r.id, r.block)
        BY <2>3, <2>4 DEF Received
      <3> QED BY <2>1, <2>3, <2>4, <3>1, InformedReceive
    <2>5. CASE ~(acc.ok /\ CanReceive(acc.node, r.id, r.block))
      <3>1. h[i + 1].node = acc.node
        BY <2>3, <2>5 DEF Received
      <3> QED BY <2>1, <2>3, <3>1
    <2> QED BY <2>4, <2>5
  <1>4. k \in S
    <2> HIDE DEF S
    <2>1. 0..k \subseteq S
      BY <1>2, <1>3, NatSetTo
    <2> QED BY <2>1
  <1> QED
    BY <1>1, <1>4, ReceiveFold

\* What a node exports: its log without the genesis record, blocks that were made.
LEMMA Exported ==
    ASSUME NEW m, NEW N, Informed(m, N), NEW log, log = WriteSnapshot(N.ledger.dag),
           NEW n, n = Cardinality(Blocks(N.ledger.dag))
    PROVE  /\ LogOf(N.ledger.dag, log, n) /\ n - 1 \in Nat
           /\ DOMAIN Export(N) = 1..(n - 1)
           /\ \A i \in 1..(n - 1) : /\ Export(N)[i] = log[i + 1]
                                    /\ Makes(m, Export(N)[i].id, Export(N)[i].block)
  <1> DEFINE D == N.ledger.dag
             R == {log[i] : i \in 1..n}
             fresh(i) == \A j \in 1..(i - 1) : log[j].id # log[i].id
  <1>1. DagOK(D) /\ \A b \in Blocks(D) \ {GenesisId} : Makes(m, b, D.nodes[b].block)
    BY DEF Informed, OfMade, Sound, LedgerOK
  <1>2. LogOf(D, log, n)
    BY <1>1, SnapshotLog
  <1>3. /\ n \in Nat \ {0} /\ DOMAIN log = 1..n /\ log \in Seq(R) /\ log[1].id = GenesisId
        /\ \A i \in 1..n : log[i].id \in Blocks(D) /\ log[i].block = D.nodes[log[i].id].block
        /\ \A i \in 2..n : fresh(i)
    BY <1>2 DEF LogOf
  <1>4. Export(N) = Tail(log)
    BY DEF Export
  <1> HIDE DEF D, R
  <1>5. Len(log) = n /\ log # <<>>
    BY <1>3
  <1>6. /\ n - 1 \in Nat /\ DOMAIN Tail(log) = 1..(n - 1)
        /\ \A i \in 1..(n - 1) : Tail(log)[i] = log[i + 1]
    BY <1>3, <1>5
  <1>7. ASSUME NEW i \in 1..(n - 1) PROVE Makes(m, log[i + 1].id, log[i + 1].block)
    <2>1. i + 1 \in 2..n /\ i + 1 \in 1..n /\ 1 \in 1..((i + 1) - 1)
      BY <1>3
    <2>2. log[i + 1].id \in Blocks(D) /\ log[i + 1].block = D.nodes[log[i + 1].id].block
      BY <1>3, <2>1
    <2>3. log[i + 1].id # GenesisId
      <3>1. fresh(i + 1)
        BY <1>3, <2>1
      <3> QED BY <1>3, <2>1, <3>1
    <2> QED BY <1>1, <2>2, <2>3 DEF D
  <1> QED
    BY <1>2, <1>4, <1>6, <1>7 DEF D

\* A step in which nothing is made and no block is sent.
LEMMA LedgersQuiet ==
    ASSUME LedgersInv, made' = made, nodes' = [n \in Names |-> nodes'[n]],
           \A n \in Names : Informed(made, nodes'[n]),
           \A q \in Range(queue') \cup Range(due') :
               q.envelope.kind = "block" =>
                 \/ q \in Range(queue) \cup Range(due)
                 \/ \E block : Makes(made, q.envelope.id, block)
    PROVE  LedgersInv'
  <1>1. Registered(made) /\ SentMade(made, Range(queue) \cup Range(due))
    BY DEF LedgersInv
  <1>2. SentMade(made, Range(queue') \cup Range(due'))
    BY <1>1 DEF SentMade
  <1> QED
    BY <1>1, <1>2 DEF LedgersInv

\* A block that is built is inserted, and announced.
LEMMA LedgersInsert ==
    ASSUME LedgersInv, OverlayType, NEW n \in Names, NEW block, block.work \in Int, NEW after,
           Insert(n, block, after),
           CanLedgerInsert(nodes[n].ledger, IdOf(block), block) =>
               /\ after = [ledger |-> after.ledger, mempool |-> after.mempool,
                           clock |-> after.clock, miner |-> after.miner]
               /\ after.ledger = LedgerInsert(nodes[n].ledger, IdOf(block), block)
    PROVE  LedgersInv'
  <1> DEFINE id == IdOf(block)
             more == IF block \in Range(made) THEN made ELSE Append(made, block)
             new == ToEach(n, peers[n], BlockMsg(id))
  <1>1. /\ Position(block) \in DOMAIN IdOrder /\ CanLedgerInsert(nodes[n].ledger, id, block)
        /\ made' = more /\ nodes' = [nodes EXCEPT ![n] = after] /\ due' = due
        /\ queue' = queue \o new
    BY DEF Insert, AnnounceBlock
  <1>2. /\ Registered(made) /\ made \in Seq(Range(made)) /\ Len(made) \in Nat
        /\ DOMAIN made = 1..Len(made)
    BY DEF LedgersInv, Registered, IsSequence
  <1>3. Registered(more) /\ Makes(more, id, block)
        /\ \A i, b : Makes(made, i, b) => Makes(more, i, b)
    <2>1. MakesToo(made, more, id, block)
      BY <1>1, <1>2, MadeMore
    <2> QED BY <2>1 DEF MakesToo
  <1> HIDE DEF more
  <1>4. ASSUME NEW N, Informed(made, N) PROVE Informed(more, N)
    BY <1>3, <1>4 DEF Informed, OfMade
  <1>5. Informed(more, nodes[n])
    BY <1>4 DEF LedgersInv
  <1>6. Informed(more, after)
    <2>1. OfMade(more, LedgerInsert(nodes[n].ledger, id, block))
      BY <1>1, <1>3, <1>5, InformedInsert DEF Informed
    <2> QED BY <1>1, <2>1 DEF Informed
  <1>7. nodes' = [i \in Names |-> nodes'[i]] /\ \A i \in Names : Informed(more, nodes'[i])
    <2>1. \A i \in Names : nodes'[i] = IF i = n THEN after ELSE nodes[i]
      BY <1>1 DEF LedgersInv
    <2> QED BY <1>1, <1>4, <1>6, <2>1 DEF LedgersInv
  <1>8. SentMade(more, Range(queue') \cup Range(due'))
    <2>1. IsSequence(new) /\ Range(new) = Copies(n, peers[n], BlockMsg(id))
      BY ToEachRange DEF OverlayType
    <2> HIDE DEF new, id
    <2>2. Range(queue') = Range(queue) \cup Range(new)
      BY <1>1, <2>1, ConcatRange DEF OverlayType
    <2>3. \A q \in Range(new) : q.envelope.id = id
      BY <2>1 DEF Copies, BlockMsg
    <2>4. SentMade(made, Range(queue) \cup Range(due))
      BY DEF LedgersInv
    <2> QED BY <1>1, <1>3, <2>2, <2>3, <2>4 DEF SentMade
  <1> QED
    BY <1>1, <1>3, <1>7, <1>8 DEF LedgersInv

\* A node that accepts a block that was made, receives one, or is sent several, has a
\* ledger of blocks that were made; so has a node whose mempool changes.
LEMMA InformedSubmit ==
    ASSUME NEW m, NEW N, Informed(m, N), NEW tx
    PROVE  Informed(m, SubmitTx(N, tx))
  <1> DEFINE pool == N.mempool \cup {tx}
             M == SubmitTx(N, tx)
  <1>1. M = [ledger |-> N.ledger, mempool |-> pool, clock |-> N.clock, miner |-> N.miner]
    <2>1. M = [N EXCEPT !.mempool = pool]
      BY DEF SubmitTx
    <2> HIDE DEF pool, M
    <2> QED BY <2>1 DEF Informed
  <1> HIDE DEF pool, M
  <1>2. M.ledger = N.ledger /\ M = [ledger |-> M.ledger, mempool |-> M.mempool, clock |-> M.clock, miner |-> M.miner]
    BY <1>1
  <1> QED
    BY <1>2 DEF Informed, M

\* One node changes, and stays informed.
LEMMA OneInformed ==
    ASSUME LedgersInv, NEW n \in Names, NEW N, Informed(made, N), nodes' = [nodes EXCEPT ![n] = N]
    PROVE  nodes' = [i \in Names |-> nodes'[i]] /\ \A i \in Names : Informed(made, nodes'[i])
  <1>1. \A i \in Names : nodes'[i] = IF i = n THEN N ELSE nodes[i]
    BY DEF LedgersInv
  <1> QED
    BY <1>1 DEF LedgersInv

\* Each way to build a block inserts one.
Builds(n) ==
    \E block, after :
        /\ block.work \in Int /\ Insert(n, block, after)
        /\ after = [ledger |-> after.ledger, mempool |-> after.mempool,
                    clock |-> after.clock, miner |-> after.miner]
        /\ after.ledger = LedgerInsert(nodes[n].ledger, IdOf(block), block)

LEMMA Building ==
    ASSUME LedgersInv, NEW n \in Names, ProduceEmpty(n) \/ Produce(n) \/ Send(n)
    PROVE  Builds(n)
  <1> DEFINE N == nodes[n]
             Form(A) == A = [ledger |-> A.ledger, mempool |-> A.mempool, clock |-> A.clock, miner |-> A.miner]
  <1>1. Form(N)
    BY DEF LedgersInv, Informed
  <1>2. ASSUME NEW M, Form(M), M.ledger = N.ledger, NEW block, block.work = 1,
               Insert(n, block, AcceptBlock(M, IdOf(block), block))
        PROVE  Builds(n)
    <2> DEFINE id == IdOf(block)
               after == AcceptBlock(M, id, block)
    <2>1. Form(after) /\ after.ledger = LedgerInsert(N.ledger, id, block)
      BY <1>2, Accepted
    <2>2. block.work \in Int
      BY <1>2
    <2>3. Insert(n, block, after)
      BY <1>2
    <2> HIDE DEF after
    <2> QED BY <2>1, <2>2, <2>3 DEF Builds
  <1>3. \A timestamp, txs : BlockOver(N, timestamp, txs).work = 1
    BY DEF BlockOver
  <1>4. CASE ProduceEmpty(n)
    <2> DEFINE block == EmptyBlock(N)
    <2>1. Insert(n, block, AcceptBlock(N, IdOf(block), block))
      BY <1>4 DEF ProduceEmpty
    <2>2. block.work = 1
      BY <1>3 DEF EmptyBlock
    <2> HIDE DEF block
    <2> QED BY <1>1, <1>2, <2>1, <2>2
  <1>5. CASE Send(n)
    <2>1. PICK tx \in Prepared(N) : Insert(n, SendBlock(N, tx), AcceptBlock(N, IdOf(SendBlock(N, tx)), SendBlock(N, tx)))
      BY <1>5 DEF Send
    <2> DEFINE block == SendBlock(N, tx)
    <2>2. block.work = 1
      BY <1>3 DEF SendBlock
    <2>3. Insert(n, block, AcceptBlock(N, IdOf(block), block))
      BY <2>1
    <2> HIDE DEF block
    <2> QED BY <1>1, <1>2, <2>2, <2>3
  <1>6. CASE Produce(n)
    <2> DEFINE selected == SelectPending(N)
               block == PendingBlock(N, selected)
               pool == N.mempool \ Range(selected)
               M == [N EXCEPT !.mempool = pool]
    <2>1. Insert(n, block, AcceptProduced(N, IdOf(block), block, selected))
      BY <1>6 DEF Produce
    <2>2. block.work = 1
      BY <1>3 DEF PendingBlock
    <2>3. Insert(n, block, AcceptBlock(M, IdOf(block), block))
      BY <2>1 DEF AcceptProduced
    <2>4. Form(M) /\ M.ledger = N.ledger
      <3> HIDE DEF pool, N, selected
      <3>1. M = [ledger |-> N.ledger, mempool |-> pool, clock |-> N.clock, miner |-> N.miner]
        BY <1>1
      <3> HIDE DEF M
      <3> QED BY <3>1
    <2> HIDE DEF block, M, selected
    <2> QED BY <1>2, <2>2, <2>3, <2>4
  <1> QED
    BY <1>4, <1>5, <1>6

LEMMA LedgersProduce ==
    ASSUME LedgersInv, OverlayType, NEW n \in Names, ProduceEmpty(n) \/ Produce(n) \/ Send(n)
    PROVE  LedgersInv'
  <1>1. PICK block, after :
            /\ block.work \in Int /\ Insert(n, block, after)
            /\ after = [ledger |-> after.ledger, mempool |-> after.mempool,
                        clock |-> after.clock, miner |-> after.miner]
            /\ after.ledger = LedgerInsert(nodes[n].ledger, IdOf(block), block)
    BY Building DEF Builds
  <1> QED
    BY <1>1, LedgersInsert

\* Every step keeps the invariant.
LEMMA LedgersStep == LedgersInv /\ OverlayInv /\ [Next]_vars => LedgersInv'
  <1> SUFFICES ASSUME LedgersInv, OverlayInv, [Next]_vars PROVE LedgersInv'
    OBVIOUS
  <1>1. OverlayType /\ Registered(made) /\ SentMade(made, Range(queue) \cup Range(due))
        /\ nodes = [n \in Names |-> nodes[n]] /\ \A n \in Names : Informed(made, nodes[n])
    BY DEF LedgersInv, OverlayInv
  <1> DEFINE known(q) == q.envelope.kind = "block" =>
                           \/ q \in Range(queue) \cup Range(due)
                           \/ \E block : Makes(made, q.envelope.id, block)
  <1>2. ASSUME due # <<>> PROVE /\ Head(due) \in Range(due) /\ Head(due).to \in Names
                                /\ peers[Head(due).to] \ {Head(due).from} \in SUBSET Names
                                /\ Range(Tail(due)) \subseteq Range(due)
    <2>1. Head(due) \in Range(due) /\ Range(due) = {Head(due)} \cup Range(Tail(due))
      BY <1>1, <1>2, HeadTailRange DEF OverlayType
    <2> QED BY <1>1, <2>1 DEF OverlayType, Addressed
  <1>3. ASSUME NEW from \in Names, NEW names \in SUBSET Names, NEW e,
               e.kind # "block" \/ \E block : Makes(made, e.id, block),
               queue' = queue \o ToEach(from, names, e)
        PROVE  \A q \in Range(queue') : known(q)
    <2>1. /\ IsSequence(ToEach(from, names, e)) /\ Range(ToEach(from, names, e)) = Copies(from, names, e)
      BY ToEachRange
    <2>2. Range(queue \o ToEach(from, names, e)) = Range(queue) \cup Copies(from, names, e)
      BY <1>1, <2>1, ConcatRange DEF OverlayType
    <2> QED BY <1>3, <2>1, <2>2 DEF Copies
  <1>4. \A tx, s : TxMsg(tx).kind # "block" /\ Hello(s).kind # "block"
    BY DEF TxMsg, Hello
  <1>5. ASSUME NEW n \in Names, Pool(n) PROVE LedgersInv'
    <2>1. PICK tx : nodes' = [nodes EXCEPT ![n] = SubmitTx(nodes[n], tx)]
                    /\ queue' = queue \o ToEach(n, peers[n], TxMsg(tx))
      BY <1>5 DEF Pool, AnnounceTx
    <2>2. due' = due /\ made' = made
      BY <1>5 DEF Pool
    <2>3. \A q \in Range(queue') : known(q)
      BY <1>1, <1>3, <1>4, <2>1 DEF OverlayType
    <2>4. nodes' = [i \in Names |-> nodes'[i]] /\ \A i \in Names : Informed(made, nodes'[i])
      BY <1>1, <2>1, InformedSubmit, OneInformed
    <2> QED BY <2>2, <2>3, <2>4, LedgersQuiet
  <1>6. ASSUME NEW n \in Names, NEW m \in Names, Connect(n, m) PROVE LedgersInv'
    <2>1. /\ queue' = queue \o ToEach(n, {m}, Hello(peers[n] \cup {m}))
          /\ due' = due /\ made' = made /\ nodes' = nodes
      BY <1>6 DEF Connect
    <2>2. \A q \in Range(queue') : known(q)
      <3> DEFINE e == Hello(peers[n] \cup {m})
      <3>1. e.kind # "block" /\ {m} \in SUBSET Names /\ queue' = queue \o ToEach(n, {m}, e)
        BY <1>4, <2>1
      <3> HIDE DEF e
      <3> QED BY <1>3, <3>1
    <2>3. \A q \in Range(queue') \cup Range(due') : known(q)
      BY <2>1, <2>2
    <2>4. nodes' = [i \in Names |-> nodes'[i]] /\ \A i \in Names : Informed(made, nodes'[i])
      BY <1>1, <2>1
    <2> QED BY <2>1, <2>3, <2>4, LedgersQuiet
  <1>7. ASSUME NEW n \in Names, NEW m \in Names, Pull(n, m) PROVE LedgersInv'
    <2>1. /\ nodes' = [nodes EXCEPT ![n] = ReceiveAll(nodes[n], Export(nodes[m]))]
          /\ due' = due /\ made' = made /\ queue' = queue
      BY <1>7 DEF Pull, Pulled
    <2>2. Informed(made, ReceiveAll(nodes[n], Export(nodes[m])))
      <3> DEFINE k == Cardinality(Blocks(nodes[m].ledger.dag)) - 1
                 records == Export(nodes[m])
      <3>1. k \in Nat /\ DOMAIN records = 1..k
            /\ \A i \in 1..k : Makes(made, records[i].id, records[i].block)
        BY <1>1, Exported
      <3> HIDE DEF k, records
      <3>2. Informed(made, ReceiveAll(nodes[n], records))
        BY <1>1, <3>1, InformedPull
      <3> QED BY <3>2 DEF records
    <2>3. nodes' = [i \in Names |-> nodes'[i]] /\ \A i \in Names : Informed(made, nodes'[i])
      BY <2>1, <2>2, OneInformed
    <2> QED BY <2>1, <2>3, LedgersQuiet
  <1>8. CASE Tick
    <2>1. due' = queue /\ queue' = <<>> /\ made' = made /\ nodes' = nodes
      BY <1>8 DEF Tick
    <2>2. Range(queue') \cup Range(due') \subseteq Range(queue) \cup Range(due)
      BY <2>1 DEF Range
    <2> QED BY <1>1, <2>1, <2>2, LedgersQuiet
  <1>9. CASE OnHello
    <2> DEFINE q == Head(due)
               n == q.to
               advertised == q.envelope.advertised
               strangers == advertised \ (peers[n] \cup {n, q.from})
               heard == peers[n] \cup {q.from} \cup (advertised \ {n})
               e == Hello(heard)
               reply == ToEach(n, {q.from} \ peers[n], e)
               greet == ToEach(n, strangers, e)
    <2>1. due # <<>> /\ q.envelope.kind = "hello" /\ due' = Tail(due) /\ queue' = queue \o reply \o greet
      BY <1>9 DEF OnHello, Deliver
    <2>2. made' = made /\ nodes' = nodes
      BY <1>9 DEF OnHello
    <2>3. q \in Range(due) /\ n \in Names /\ Range(due') \subseteq Range(due)
      BY <1>2, <2>1
    <2>4. q.from \in Names /\ q \in Hellos
      <3> HIDE DEF q
      <3>1. q \in Range(queue) \cup Range(due)
        BY <2>3
      <3>2. q.from \in Names
        BY <1>1, <3>1 DEF OverlayType, Addressed
      <3> QED BY <2>1, <3>1, <3>2 DEF Hellos
    <2>5. {q.from} \ peers[n] \in SUBSET Names /\ strangers \in SUBSET Names
      <3>1. advertised \subseteq Names
        BY <1>1, <2>4 DEF OverlayType
      <3> HIDE DEF advertised
      <3> QED BY <2>4, <3>1
    <2>6. e.kind # "block"
      BY <1>4
    <2>7. /\ IsSequence(reply) /\ IsSequence(greet)
          /\ \A h \in Range(reply) \cup Range(greet) : h.envelope = e
      <3>1. /\ IsSequence(reply) /\ Range(reply) = Copies(n, {q.from} \ peers[n], e)
            /\ IsSequence(greet) /\ Range(greet) = Copies(n, strangers, e)
        BY <2>3, <2>5, ToEachRange
      <3> HIDE DEF reply, greet, e
      <3> QED BY <3>1 DEF Copies
    <2> HIDE DEF reply, greet, e, n, q
    <2>8. Range(queue \o reply) = Range(queue) \cup Range(reply) /\ IsSequence(queue \o reply)
      BY <1>1, <2>7, ConcatRange DEF OverlayType
    <2>9. Range((queue \o reply) \o greet) = Range(queue) \cup Range(reply) \cup Range(greet)
      BY <2>7, <2>8, ConcatRange
    <2>10. Range(queue') = Range(queue) \cup Range(reply) \cup Range(greet)
      BY <2>1, <2>9
    <2>11. \A h \in Range(queue') \cup Range(due') : known(h)
      BY <2>3, <2>6, <2>7, <2>10
    <2> QED BY <1>1, <2>2, <2>11, LedgersQuiet
  <1>10. CASE OnBlock
    <2> DEFINE n == Head(due).to
               id == Head(due).envelope.id
               names == peers[n] \ {Head(due).from}
    <2>1. /\ due # <<>> /\ Head(due).envelope.kind = "block" /\ due' = Tail(due) /\ made' = made
          /\ \/ nodes' = nodes /\ queue' = queue
             \/ /\ CanReceive(nodes[n], id, BlockOf(id))
                /\ nodes' = [nodes EXCEPT ![n] = ReceiveBlock(nodes[n], id, BlockOf(id))]
                /\ queue' = queue \o ToEach(n, names, BlockMsg(id))
      BY <1>10 DEF OnBlock, Deliver
    <2>2. n \in Names /\ names \in SUBSET Names /\ Range(due') \subseteq Range(due) /\ Head(due) \in Range(due)
      BY <1>2, <2>1
    <2>3. PICK block : Makes(made, id, block)
      BY <1>1, <2>1, <2>2 DEF SentMade
    <2> HIDE DEF n, id, names
    <2>4. BlockOf(id) = block
      BY <1>1, <2>3, BlockFound
    <2>5. CASE nodes' = nodes /\ queue' = queue
      BY <1>1, <2>1, <2>2, <2>5, LedgersQuiet
    <2>6. CASE /\ CanReceive(nodes[n], id, BlockOf(id))
               /\ nodes' = [nodes EXCEPT ![n] = ReceiveBlock(nodes[n], id, BlockOf(id))]
               /\ queue' = queue \o ToEach(n, names, BlockMsg(id))
      <3>1. Informed(made, ReceiveBlock(nodes[n], id, block))
        BY <1>1, <2>2, <2>3, <2>4, <2>6, InformedReceive
      <3>2. nodes' = [i \in Names |-> nodes'[i]] /\ \A i \in Names : Informed(made, nodes'[i])
        BY <2>2, <2>4, <2>6, <3>1, OneInformed
      <3>3. BlockMsg(id).id = id
        BY DEF BlockMsg
      <3>4. \A q \in Range(queue') : known(q)
        BY <1>3, <2>2, <2>3, <2>6, <3>3
      <3> QED BY <2>1, <2>2, <3>2, <3>4, LedgersQuiet
    <2> QED BY <2>1, <2>5, <2>6
  <1>11. CASE OnTx
    <2> DEFINE n == Head(due).to
               tx == Head(due).envelope.tx
               names == peers[n] \ {Head(due).from}
    <2>1. /\ due # <<>> /\ due' = Tail(due) /\ made' = made
          /\ \/ nodes' = nodes /\ queue' = queue
             \/ /\ nodes' = [nodes EXCEPT ![n] = SubmitTx(nodes[n], tx)]
                /\ queue' = queue \o ToEach(n, names, TxMsg(tx))
      BY <1>11 DEF OnTx, Deliver
    <2>2. n \in Names /\ names \in SUBSET Names /\ Range(due') \subseteq Range(due)
      BY <1>2, <2>1
    <2> HIDE DEF n, tx, names
    <2>3. CASE nodes' = nodes /\ queue' = queue
      BY <1>1, <2>1, <2>2, <2>3, LedgersQuiet
    <2>4. CASE /\ nodes' = [nodes EXCEPT ![n] = SubmitTx(nodes[n], tx)]
               /\ queue' = queue \o ToEach(n, names, TxMsg(tx))
      <3> DEFINE N == SubmitTx(nodes[n], tx)
      <3>1. Informed(made, N) /\ nodes' = [nodes EXCEPT ![n] = N]
        BY <1>1, <2>2, <2>4, InformedSubmit
      <3> HIDE DEF N
      <3>2. nodes' = [i \in Names |-> nodes'[i]] /\ \A i \in Names : Informed(made, nodes'[i])
        BY <2>2, <3>1, OneInformed
      <3>3. \A q \in Range(queue') : known(q)
        BY <1>3, <1>4, <2>2, <2>4
      <3> QED BY <2>1, <2>2, <3>2, <3>3, LedgersQuiet
    <2> QED BY <2>1, <2>3, <2>4
  <1>12. CASE UNCHANGED vars
    BY <1>1, <1>12, LedgersQuiet DEF vars
  <1> QED
    BY <1>1, <1>5, <1>6, <1>7, <1>8, <1>9, <1>10, <1>11, <1>12, LedgersProduce DEF Next, Relay

\* The invariant holds of every state of every mesh.
LEMMA LedgersInvariance == Spec => []LedgersInv
  <1>1. Init => LedgersInv
    <2> SUFFICES ASSUME Init PROVE LedgersInv
      OBVIOUS
    <2>1. made = <<>> /\ queue = <<>> /\ due = <<>> /\ nodes = [n \in Names |-> NewNode(Clock[n], Miner)]
      BY DEF Init
    <2>2. Registered(<<>>)
      <3>1. /\ Len(<<>>) = 0 /\ Len(IdOrder) \in Nat /\ Range(<<>>) = {}
        BY MeshAssumption DEF Range
      <3> QED BY <3>1 DEF Registered, IsSequence, IsInjective
    <2>3. SentMade(<<>>, Range(<<>>) \cup Range(<<>>))
      BY DEF SentMade, Range
    <2>4. OfMade(<<>>, NewLedger)
      BY GenesisSound DEF OfMade, NewLedger
    <2>5. ASSUME NEW clock PROVE Informed(<<>>, NewNode(clock, Miner))
      <3>1. NewNode(clock, Miner) = [ledger |-> NewLedger, mempool |-> {}, clock |-> clock, miner |-> Miner]
        <4> DEFINE first == NewLedger
                   none == NoLedger
                   N == [ledger |-> none, mempool |-> {}, clock |-> clock, miner |-> NoMiner]
                   M == [N EXCEPT !.ledger = first]
        <4>1. NewNode(clock, Miner) = [N EXCEPT !.ledger = first, !.miner = Miner]
          BY DEF NewNode, Genesis, FreshNode
        <4> HIDE DEF first, none
        <4>2. M = [ledger |-> first, mempool |-> {}, clock |-> clock, miner |-> NoMiner]
          OBVIOUS
        <4> HIDE DEF M
        <4>3. [M EXCEPT !.miner = Miner] = [ledger |-> first, mempool |-> {}, clock |-> clock, miner |-> Miner]
          BY <4>2
        <4> QED BY <4>1, <4>3 DEF first, M
      <3> QED BY <2>4, <3>1 DEF Informed
    <2> QED BY <2>1, <2>2, <2>3, <2>5 DEF LedgersInv
  <1> QED
    BY <1>1, LedgersStep, OverlayInvariance, PTL DEF Spec

\* Nodes that hold the same blocks hold the same ledger, in whatever order and by whatever
\* way each of them got the blocks (module doc of net.rs: "both hold the identical DAG").
THEOREM SameBlocksGiveSameLedger == Spec => []SameBlocksSameLedger
  <1>1. LedgersInv => SameBlocksSameLedger
    <2> SUFFICES ASSUME LedgersInv, NEW n \in Names, NEW m \in Names, Held(n) = Held(m)
                 PROVE  nodes[n].ledger = nodes[m].ledger
      BY DEF SameBlocksSameLedger
    <2> DEFINE L == nodes[n].ledger
               M == nodes[m].ledger
    <2>1. Registered(made) /\ OfMade(made, L) /\ OfMade(made, M) /\ Blocks(L.dag) = Blocks(M.dag)
      BY DEF LedgersInv, Informed, Held
    <2> HIDE DEF L, M
    <2>2. \A b \in Blocks(L.dag) : L.dag.nodes[b].block = M.dag.nodes[b].block
      BY <2>1, MadeOnce DEF OfMade
    <2>3. L = M
      BY <2>1, <2>2, SameLedger DEF OfMade
    <2> QED BY <2>3 DEF L, M
  <1> QED
    BY <1>1, LedgersInvariance, PTL

\* What is sent to a node is not so far in the future that it would refuse it.
InTime(m, N) == \A i \in 1..Len(m) : m[i].timestamp <= N.clock + MaxDrift

\* A pull from a node with ledger L, into N: nothing was refused or lost, and the ids are
\* in what the two ledgers have in common.
Abreast(m, N, L, ids, acc) ==
    /\ acc.ok /\ Informed(m, acc.node) /\ acc.node.clock = N.clock
    /\ Within(N.ledger.dag, acc.node.ledger.dag)
    /\ \E C : Regrown(C, L, ids) /\ Regrown(C, acc.node.ledger, ids)

\* The next record is not refused.
LEMMA PullStep ==
    ASSUME NEW m, Registered(m), NEW N, InTime(m, N), NEW L, OfMade(m, L), NEW S, NEW acc,
           Abreast(m, N, L, S, acc), NEW b \in Blocks(L.dag) \ S, b # GenesisId,
           Parents(L.dag, b) \subseteq S, NEW r, r.id = b, r.block = L.dag.nodes[b].block
    PROVE  Abreast(m, N, L, S \cup {b}, Received(0, acc, r))
  <1> DEFINE block == r.block
             M == acc.node
             A == M.ledger
  <1>1. acc.ok /\ Informed(m, M) /\ M.clock = N.clock /\ Sound(A) /\ Sound(L) /\ OfMade(m, A)
        /\ Within(N.ledger.dag, A.dag)
    BY DEF Abreast, Informed, OfMade
  <1>2. PICK C : Regrown(C, L, S) /\ Regrown(C, A, S)
    BY DEF Abreast
  <1>3. Makes(m, b, block)
    BY DEF OfMade
  <1>4. block.timestamp <= M.clock + MaxDrift
    BY <1>1, <1>3 DEF InTime, Makes
  <1> HIDE DEF A, M, block
  <1>5. b \in Blocks(A.dag) => A.dag.nodes[b].block = block
    BY <1>1, <1>3, MadeOnce DEF OfMade
  <1>6. /\ b \notin Blocks(A.dag) => Takes(A, b, block)
        /\ Regrown(LedgerInsert(C, b, block), L, S \cup {b})
        /\ Regrown(LedgerInsert(C, b, block), Took(A, b, block), S \cup {b})
        /\ Within(A.dag, Took(A, b, block).dag)
    <2>1. block = L.dag.nodes[b].block
      BY DEF block
    <2>2. /\ Sound(L) /\ Sound(A) /\ Regrown(C, L, S) /\ Regrown(C, A, S)
          /\ b \in Blocks(L.dag) \ S /\ b # GenesisId /\ Parents(L.dag, b) \subseteq S
          /\ (b \in Blocks(A.dag) => A.dag.nodes[b].block = block)
      BY <1>1, <1>2, <1>5
    <2> QED BY ONLY <2>1, <2>2, TakesToo
  <1>7. CanReceive(M, b, block)
    BY <1>4, <1>6 DEF CanReceive, Takes, A
  <1> DEFINE R == ReceiveBlock(M, b, block)
  <1>8. Received(0, acc, r) = [ok |-> TRUE, node |-> R]
    BY <1>1, <1>7 DEF Received, M, block
  <1>9. Informed(m, R)
    BY <1>1, <1>3, <1>7, InformedReceive
  <1>10. R.ledger = Took(A, b, block) /\ R.clock = M.clock
    <2>1. CASE b \in Blocks(A.dag)
      BY <2>1 DEF ReceiveBlock, Took, A
    <2>2. CASE b \notin Blocks(A.dag)
      <3>1. R = AcceptBlock(M, b, block)
        BY <2>2 DEF ReceiveBlock, A
      <3> HIDE DEF R
      <3>2. R.ledger = LedgerInsert(M.ledger, b, block) /\ R.clock = M.clock
        BY <1>1, <3>1, Accepted DEF Informed
      <3> QED BY <2>2, <3>2 DEF Took, A
    <2> QED BY <2>1, <2>2
  <1> HIDE DEF R
  <1> DEFINE next == Received(0, acc, r)
  <1>11. next.ok /\ next.node = R
    BY <1>8
  <1> HIDE DEF next
  <1>12. Within(N.ledger.dag, R.ledger.dag)
    BY <1>1, <1>6, <1>10 DEF Within
  <1>13. Abreast(m, N, L, S \cup {b}, next)
    BY <1>1, <1>6, <1>9, <1>10, <1>11, <1>12 DEF Abreast
  <1> QED
    BY <1>13 DEF next

\* So none is, and the node has what it had and all blocks of the other one in the end.
LEMMA PullTakes ==
    ASSUME NEW m, Registered(m), NEW N, Informed(m, N), InTime(m, N), NEW M, Informed(m, M)
    PROVE  /\ Sound(ReceiveAll(N, Export(M)).ledger)
           /\ Within(M.ledger.dag, ReceiveAll(N, Export(M)).ledger.dag)
           /\ Within(N.ledger.dag, ReceiveAll(N, Export(M)).ledger.dag)
  <1> DEFINE L == M.ledger
             D == L.dag
             log == WriteSnapshot(D)
             n == Cardinality(Blocks(D))
             records == Export(M)
             base == [ok |-> TRUE, node |-> N]
             k == n - 1
             fresh(i) == \A j \in 1..(i - 1) : log[j].id # log[i].id
             grounded(i) == \A p \in Parents(D, log[i].id) : \E j \in 1..(i - 1) : log[j].id = p
  <1>1. OfMade(m, L) /\ OfMade(m, N.ledger) /\ Sound(L) /\ Sound(N.ledger)
    BY DEF Informed, OfMade
  <1>2. LogOf(D, log, n) /\ k \in Nat /\ DOMAIN records = 1..k /\ \A i \in 1..k : records[i] = log[i + 1]
    BY Exported
  <1> HIDE DEF records, log, n, D
  <1>3. /\ n \in Nat /\ DOMAIN log = 1..n /\ log[1].id = GenesisId
        /\ \A i \in 1..n : log[i].id \in Blocks(D) /\ log[i].block = D.nodes[log[i].id].block
        /\ \A b \in Blocks(D) : \E i \in 1..n : log[i].id = b
    BY <1>2 DEF LogOf
  <1>4. \A i \in 2..n : fresh(i) /\ grounded(i)
    BY <1>2 DEF LogOf
  <1>5. PICK h : Receiving!Steps(0, base, records, k, h) /\ Receiving!Fold(0, base, records) = h[k]
    BY <1>2, Receiving!FoldSteps
  <1> DEFINE S == {i \in Nat : Abreast(m, N, L, IdsTo(log, i + 1), h[i])}
  <1>6. 0 \in S
    <2>1. h[0] = base /\ base.ok /\ base.node = N
      BY <1>5 DEF Receiving!Steps
    <2>2. IdsTo(log, 0 + 1) = {GenesisId}
      BY <1>3 DEF IdsTo
    <2>3. L.dag.nodes[GenesisId].block.txs = GenesisTxs /\ N.ledger.dag.nodes[GenesisId].block.txs = GenesisTxs
      BY <1>1 DEF OfMade, GenesisOver
    <2>4. /\ Regrown(LedgerOver(GenesisTxs), L, {GenesisId})
          /\ Regrown(LedgerOver(GenesisTxs), N.ledger, {GenesisId})
      BY <1>1, <2>3, RegrownFirst
    <2> HIDE DEF base, L
    <2>5. Abreast(m, N, L, {GenesisId}, h[0])
      BY <2>1, <2>4 DEF Abreast, Within
    <2> QED BY <2>2, <2>5
  <1>7. ASSUME NEW i \in 0..(k - 1), i \in S PROVE i + 1 \in S
    <2> DEFINE r == log[i + 2]
               b == r.id
               P == IdsTo(log, i + 1)
    <2>1. /\ i + 1 \in 1..k /\ (i + 1) - 1 = i /\ i + 1 \in Nat /\ i + 2 \in 2..n /\ i + 2 \in 1..n
          /\ (i + 2) - 1 = i + 1 /\ (i + 1) + 1 = i + 2
      BY <1>3
    <2>2. h[i + 1] = Received(0, h[(i + 1) - 1], records[i + 1])
      BY <1>5, <2>1 DEF Receiving!Steps
    <2>3. h[i + 1] = Received(0, h[i], r)
      <3>1. records[i + 1] = log[(i + 1) + 1]
        BY <1>2, <2>1
      <3> QED BY <2>1, <2>2, <3>1
    <2>4. b \in Blocks(D) /\ r.block = D.nodes[b].block
      BY <1>3, <2>1
    <2>5. b \notin P /\ Parents(D, b) \subseteq P
      <3>1. fresh(i + 2) /\ grounded(i + 2)
        BY <1>4, <2>1
      <3>2. /\ \A j \in 1..(i + 1) : log[j].id # b
            /\ \A p \in Parents(D, b) : \E j \in 1..(i + 1) : log[j].id = p
        BY <2>1, <3>1
      <3> QED BY <3>2 DEF IdsTo
    <2>6. b # GenesisId
      <3>1. 1 \in 1..(i + 1)
        BY <2>1
      <3> QED BY <1>3, <2>5, <3>1 DEF IdsTo
    <2>7. P \cup {b} = IdsTo(log, (i + 1) + 1)
      BY <2>1 DEF IdsTo
    <2>8. Abreast(m, N, L, P, h[i])
      BY <1>7
    <2> HIDE DEF P, r, L
    <2>9. Abreast(m, N, L, P \cup {b}, h[i + 1])
      BY <1>1, <2>3, <2>4, <2>5, <2>6, <2>8, PullStep DEF D
    <2> QED BY <2>1, <2>7, <2>9
  <1>8. k \in S
    <2> HIDE DEF S, k
    <2>1. 0..k \subseteq S
      BY <1>2, <1>6, <1>7, NatSetTo
    <2> QED BY <1>2, <2>1
  <1>9. Abreast(m, N, L, Blocks(D), h[k])
    <2>1. IdsTo(log, n) = Blocks(D)
      <3>1. \A i \in 1..n : log[i].id \in Blocks(D)
        BY <1>3
      <3>2. \A b \in Blocks(D) : \E i \in 1..n : log[i].id = b
        BY <1>3
      <3> QED BY <3>1, <3>2 DEF IdsTo
    <2>2. k + 1 = n
      BY <1>3
    <2> QED BY <1>8, <2>1, <2>2
  <1> DEFINE last == h[k].node.ledger
  <1>10. PICK C : Regrown(C, L, Blocks(D)) /\ Regrown(C, last, Blocks(D))
    BY <1>9 DEF Abreast
  <1>11. C.dag = D
    <2>1. Grown(C.dag, D, Blocks(D))
      BY <1>10 DEF Regrown, D
    <2>2. DagOK(D) /\ Canonical(D)
      BY <1>1 DEF Sound, LedgerOK, D
    <2> QED BY <2>1, <2>2, RegrowLast
  <1>12. Within(D, last.dag)
    BY <1>10, <1>11 DEF Regrown, Grown
  <1>13. Sound(last) /\ Within(N.ledger.dag, last.dag)
    BY <1>9 DEF Abreast, Informed, OfMade
  <1>14. ReceiveAll(N, records).ledger = last
    BY <1>5, ReceiveFold
  <1> QED
    BY <1>12, <1>13, <1>14 DEF D, records

\* Where no block is too far in the future for a node, a pull brings it all blocks of its
\* peer, whatever both hold already: none is refused in the order export lists them
\* (pull_blocks, net.rs: "Records are assumed to arrive in topological order").
THEOREM PullsAreComplete == Spec /\ [](\A n \in Names : InTime(made, nodes[n])) => []PullComplete
  <1>1. LedgersInv /\ (\A n \in Names : InTime(made, nodes[n])) => PullComplete
    <2> SUFFICES ASSUME LedgersInv, \A n \in Names : InTime(made, nodes[n]),
                        NEW n \in Names, NEW m \in Names
                 PROVE  Held(m) \subseteq Blocks(Pulled(n, m).ledger.dag)
      BY DEF PullComplete
    <2>1. Registered(made) /\ Informed(made, nodes[n]) /\ Informed(made, nodes[m])
      BY DEF LedgersInv
    <2>2. \A i \in Names : InTime(made, nodes[i])
      OBVIOUS
    <2>3. Within(nodes[m].ledger.dag, ReceiveAll(nodes[n], Export(nodes[m])).ledger.dag)
      BY <2>1, <2>2, PullTakes
    <2> QED BY <2>3 DEF Held, Pulled, Within
  <1> QED
    BY <1>1, LedgersInvariance, PTL

----------------------------------------------------------------------------
(***************************************************************************)
(* The flood.                                                              *)
(***************************************************************************)

\* A node takes every block that another one has, once it has the parents.
LEMMA ReceivesNext ==
    ASSUME NEW m, Registered(m), NEW N, Informed(m, N), InTime(m, N), NEW M, Informed(m, M),
           NEW b \in Blocks(M.ledger.dag), NEW block, Makes(m, b, block),
           block.parents \subseteq Blocks(N.ledger.dag)
    PROVE  CanReceive(N, b, block)
  <1> DEFINE A == N.ledger
             L == M.ledger
             F == ReceiveAll(N, Export(M)).ledger
             ps == block.parents
  <1>1. block.timestamp <= N.clock + MaxDrift
    BY DEF InTime, Makes
  <1>2. Sound(F) /\ Within(L.dag, F.dag) /\ Within(A.dag, F.dag)
    BY PullTakes
  <1>3. Sound(A) /\ Sound(L) /\ OfMade(m, L)
    BY DEF Informed, OfMade
  <1> HIDE DEF A, F, L
  <1>4. b # GenesisId /\ block.work \in Int /\ b \in Blocks(L.dag)
    BY MadeOnce DEF L
  <1>5. L.dag.nodes[b].block = block
    BY <1>3, <1>4, MadeOnce DEF OfMade
  <1>6. /\ DagOK(A.dag) /\ DagOK(L.dag) /\ DagOK(F.dag) /\ LedgerOK(A) /\ Admitted(L.dag)
    BY <1>2, <1>3 DEF Sound, LedgerOK
  <1>7. b \in Nat \ {GenesisId} /\ ps = Parents(L.dag, b) /\ block.txs = TxsAt(L.dag, b)
    BY <1>4, <1>5, <1>6 DEF DagOK, Parents, TxsAt
  <1>8. ps # {} /\ ps \subseteq Blocks(L.dag) /\ ps \subseteq Blocks(A.dag)
    BY <1>4, <1>6, <1>7, ParentSelected DEF A, DagOK, NodeOK
  <1>9. Found(A.dag, ps) = Found(F.dag, ps) /\ Found(L.dag, ps) = Found(F.dag, ps)
    BY <1>2, <1>6, <1>8, FoundWithin
  <1>10. ASSUME b \notin Blocks(A.dag) PROVE CanLedgerInsert(A, b, block)
    <2>1. CanInsert(A.dag, b, block)
      BY <1>8, <1>10 DEF CanInsert
    <2>2. PreState(A, block) = Found(A.dag, ps)
      BY <1>4, <1>6, <1>7, <2>1, InsertLedger DEF Found
    <2>3. ApplyBlock(Found(L.dag, ps), block.txs).ok /\ ValidStructure(block.txs)
      BY <1>4, <1>6, <1>7 DEF Admitted
    <2> QED BY <1>9, <2>1, <2>2, <2>3 DEF CanLedgerInsert
  <1> QED
    BY <1>1, <1>10 DEF CanReceive, A

\* The block id on its way to n.
Carries(q, id, n) == q.to = n /\ q.envelope.kind = "block" /\ q.envelope.id = id

\* The node has the block id.
Has(N, id) == id \in Blocks(N.ledger.dag)

\* Every node has the block id or will be sent it.  f is what is under way, in the order
\* of delivery.
Reaches(ns, f, id) == \A n \in Names : Has(ns[n], id) \/ \E i \in DOMAIN f : Carries(f[i], id, n)

\* The parents of every block under way to a node are there or on their way before it.
Rooted(m, ns, f) ==
    \A i \in DOMAIN f : f[i].envelope.kind = "block" =>
        \A block : Makes(m, f[i].envelope.id, block) =>
            \A p \in block.parents :
                Has(ns[f[i].to], p) \/ \E j \in 1..(i - 1) : Carries(f[j], p, f[i].to)

\* Every block is somewhere, and on its way to whoever does not have it.
Flooding(m, ns, f) ==
    /\ \A id, block : Makes(m, id, block) => Reaches(ns, f, id) /\ \E n \in Names : Has(ns[n], id)
    /\ Rooted(m, ns, f)

\* Nodes that lose no block.
Keeps(ns, ms) == \A n \in Names : Blocks(ns[n].ledger.dag) \subseteq Blocks(ms[n].ledger.dag)

\* More is sent, after what is under way.
LEMMA FloodMore ==
    ASSUME NEW m, NEW k, NEW ns, NEW ms, NEW f, NEW g, IsSequence(f), IsSequence(g), Flooding(m, ns, f),
           Keeps(ns, ms), \A q \in Range(f) : q.to \in Names,
           \A id, block : Makes(k, id, block) =>
               Makes(m, id, block) \/ (Reaches(ms, f \o g, id) /\ \E n \in Names : Has(ms[n], id)),
           \A q \in Range(f) : q.envelope.kind = "block" =>
               \A block : Makes(k, q.envelope.id, block) => Makes(m, q.envelope.id, block),
           \A q \in Range(g) : q.envelope.kind = "block" =>
               \A block : Makes(k, q.envelope.id, block) =>
                   \A p \in block.parents : Has(ms[q.to], p) \/ \E j \in DOMAIN f : Carries(f[j], p, q.to)
    PROVE  Flooding(k, ms, f \o g)
  <1> DEFINE h == f \o g
             a == Len(f)
             b == Len(g)
  <1>1. /\ a \in Nat /\ b \in Nat /\ DOMAIN f = 1..a /\ DOMAIN g = 1..b /\ DOMAIN h = 1..(a + b)
        /\ \A i \in 1..a : h[i] = f[i]
        /\ \A i \in (a + 1)..(a + b) : h[i] = g[i - a]
    <2> DEFINE T == Range(f) \cup Range(g)
    <2>1. f \in Seq(T) /\ g \in Seq(T)
      BY DEF IsSequence
    <2> HIDE DEF T
    <2> QED BY <2>1
  <1> HIDE DEF h, a, b
  <1>2. ASSUME NEW id, Reaches(ns, f, id) PROVE Reaches(ms, h, id)
    <2>1. \A i \in 1..a : i \in 1..(a + b)
      BY <1>1
    <2> QED BY <1>1, <1>2, <2>1 DEF Reaches, Keeps, Has
  <1>3. ASSUME NEW id, NEW block, Makes(k, id, block)
        PROVE  Reaches(ms, h, id) /\ \E n \in Names : Has(ms[n], id)
    <2>1. CASE Makes(m, id, block)
      <3>1. Reaches(ns, f, id) /\ \E n \in Names : Has(ns[n], id)
        BY <2>1 DEF Flooding
      <3> QED BY <1>2, <3>1 DEF Keeps, Has
    <2>2. CASE Reaches(ms, f \o g, id) /\ \E n \in Names : Has(ms[n], id)
      BY <2>2 DEF h
    <2> QED BY <1>3, <2>1, <2>2
  <1>4. ASSUME NEW i \in 1..(a + b), h[i].envelope.kind = "block", NEW block,
               Makes(k, h[i].envelope.id, block), NEW p \in block.parents
        PROVE  Has(ms[h[i].to], p) \/ \E j \in 1..(i - 1) : Carries(h[j], p, h[i].to)
    <2>1. CASE i \in 1..a
      <3>1. h[i] = f[i] /\ f[i] \in Range(f) /\ f[i].to \in Names
        BY <1>1, <2>1 DEF Range
      <3>2. Makes(m, f[i].envelope.id, block)
        BY <1>4, <3>1
      <3>3. Has(ns[f[i].to], p) \/ \E j \in 1..(i - 1) : Carries(f[j], p, f[i].to)
        BY <1>1, <1>4, <2>1, <3>1, <3>2 DEF Flooding, Rooted
      <3>4. \A j \in 1..(i - 1) : h[j] = f[j]
        <4>1. \A j \in 1..(i - 1) : j \in 1..a
          BY <1>1, <2>1
        <4> QED BY <1>1, <4>1
      <3> QED BY <3>1, <3>3, <3>4 DEF Keeps, Has
    <2>2. CASE i \in (a + 1)..(a + b)
      <3>1. h[i] = g[i - a] /\ i - a \in 1..b
        BY <1>1, <2>2
      <3>2. h[i] \in Range(g)
        BY <1>1, <3>1 DEF Range
      <3>3. Has(ms[h[i].to], p) \/ \E j \in DOMAIN f : Carries(f[j], p, h[i].to)
        BY <1>4, <3>2
      <3>4. \A j \in 1..a : j \in 1..(i - 1) /\ h[j] = f[j]
        BY <1>1, <2>2
      <3> QED BY <1>1, <3>3, <3>4
    <2>3. i \in 1..a \/ i \in (a + 1)..(a + b)
      BY <1>1
    <2> QED BY <2>1, <2>2, <2>3
  <1>5. Rooted(k, ms, h)
    BY <1>1, <1>4 DEF Rooted
  <1> QED
    BY <1>3, <1>5 DEF Flooding, h

\* What is sent first is delivered: if it is a block, its receiver has it then.
LEMMA FloodDelivered ==
    ASSUME NEW m, NEW ns, NEW ms, NEW f, IsSequence(f), f # <<>>, Flooding(m, ns, f), Keeps(ns, ms),
           \A q \in Range(f) : q.to \in Names,
           Head(f).envelope.kind = "block" => Has(ms[Head(f).to], Head(f).envelope.id)
    PROVE  Flooding(m, ms, Tail(f))
  <1> DEFINE h == Tail(f)
             a == Len(f)
  <1>1. /\ a \in Nat \ {0} /\ DOMAIN f = 1..a /\ Head(f) = f[1] /\ DOMAIN h = 1..(a - 1)
        /\ \A i \in 1..(a - 1) : h[i] = f[i + 1]
    <2> DEFINE T == Range(f)
    <2>1. f \in Seq(T)
      BY DEF IsSequence
    <2> HIDE DEF T
    <2> QED BY <2>1
  <1> HIDE DEF h, a
  <1>2. ASSUME NEW id, NEW n \in Names, NEW i \in 1..a, Carries(f[i], id, n), ~Has(ms[n], id)
        PROVE  i - 1 \in 1..(a - 1) /\ Carries(h[i - 1], id, n)
    <2>1. i # 1
      BY <1>1, <1>2 DEF Carries
    <2>2. i - 1 \in 1..(a - 1) /\ (i - 1) + 1 = i
      BY <1>1, <2>1
    <2> QED BY <1>1, <1>2, <2>2
  <1>3. ASSUME NEW id, Reaches(ns, f, id) PROVE Reaches(ms, h, id)
    BY <1>1, <1>2, <1>3 DEF Reaches, Keeps, Has
  <1>4. ASSUME NEW i \in 1..(a - 1), h[i].envelope.kind = "block", NEW block,
               Makes(m, h[i].envelope.id, block), NEW p \in block.parents,
               ~Has(ms[h[i].to], p)
        PROVE  \E j \in 1..(i - 1) : Carries(h[j], p, h[i].to)
    <2>1. i + 1 \in 1..a /\ h[i] = f[i + 1] /\ (i + 1) - 1 = i
      BY <1>1
    <2>2. h[i].to \in Names
      BY <1>1, <2>1 DEF Range
    <2>3. PICK j \in 1..i : Carries(f[j], p, h[i].to)
      BY <1>1, <1>4, <2>1, <2>2 DEF Flooding, Rooted, Keeps, Has
    <2>4. j \in 1..a
      BY <1>1, <2>3
    <2>5. j - 1 \in 1..(a - 1) /\ Carries(h[j - 1], p, h[i].to)
      BY <1>2, <1>4, <2>2, <2>3, <2>4
    <2>6. j - 1 \in 1..(i - 1)
      BY <2>3, <2>5
    <2> QED BY <2>5, <2>6
  <1>5. Rooted(m, ms, h)
    BY <1>1, <1>4 DEF Rooted
  <1>6. \A id, block : Makes(m, id, block) => Reaches(ms, h, id) /\ \E n \in Names : Has(ms[n], id)
    BY <1>3 DEF Flooding, Keeps, Has
  <1> QED
    BY <1>5, <1>6 DEF Flooding, h

\* What a node has, every other one has or will be sent.
LEMMA FloodReaches ==
    ASSUME NEW m, NEW ns, NEW f, Flooding(m, ns, f), \A i \in Names : Informed(m, ns[i]),
           NEW n \in Names, NEW p, Has(ns[n], p)
    PROVE  Reaches(ns, f, p)
  <1>1. CASE p = GenesisId
    <2>1. \A i \in Names : Has(ns[i], p)
      BY <1>1 DEF Has, Informed, OfMade, Sound, LedgerOK, DagOK
    <2> QED BY <2>1 DEF Reaches
  <1>2. CASE p # GenesisId
    <2>1. \E block : Makes(m, p, block)
      BY <1>2 DEF Has, Informed, OfMade
    <2> QED BY <2>1 DEF Flooding
  <1> QED BY <1>1, <1>2

\* What is under way, in the order of delivery.
Flight == due \o queue

\* The inductive invariant.
FloodInv ==
    /\ Flooding(made, nodes, Flight)
    /\ seen_blocks = [n \in Names |-> seen_blocks[n]]
    /\ SeenIsHeld

\* When the first block is made, every node is a peer of every other one.
Settled == made # <<>> => \A n \in Names : peers[n] = Names \ {n}

\* No block that was made is too far in the future for a node.
OnTime == \A n \in Names : InTime(made, nodes[n])

\* What an operation that queues g, and a delivery that does, make of what is under way.
LEMMA FlightSteps ==
    ASSUME OverlayType, NEW g, IsSequence(g), queue' = queue \o g
    PROVE  /\ IsSequence(Flight) /\ Range(Flight) = Range(due) \cup Range(queue)
           /\ due' = due => Flight' = Flight \o g
           /\ due # <<>> /\ due' = Tail(due) =>
                /\ Flight # <<>> /\ Head(Flight) = Head(due)
                /\ IsSequence(Tail(Flight)) /\ Range(Tail(Flight)) \subseteq Range(Flight)
                /\ Flight' = Tail(Flight) \o g
  <1> DEFINE T == Range(due) \cup Range(queue) \cup Range(g)
  <1>1. due \in Seq(T) /\ queue \in Seq(T) /\ g \in Seq(T)
    BY DEF OverlayType, IsSequence
  <1>2. IsSequence(Flight) /\ Range(Flight) = Range(due) \cup Range(queue)
    BY ConcatRange DEF OverlayType, Flight
  <1> HIDE DEF T
  <1>3. due \o (queue \o g) = (due \o queue) \o g
    BY <1>1, ConcatAssociative
  <1>4. ASSUME due # <<>>, due' = Tail(due)
        PROVE  /\ Flight # <<>> /\ Head(Flight) = Head(due)
               /\ IsSequence(Tail(Flight)) /\ Range(Tail(Flight)) \subseteq Range(Flight)
               /\ Flight' = Tail(Flight) \o g
    <2>1. Tail(due) \in Seq(T)
      BY <1>1, <1>4
    <2>2. due \o queue # <<>> /\ Head(due \o queue) = Head(due)
      BY <1>1, <1>4
    <2>3. Tail(due \o queue) = Tail(due) \o queue
      BY <1>1, <1>4
    <2>4. Tail(due) \o (queue \o g) = (Tail(due) \o queue) \o g
      BY <1>1, <2>1, ConcatAssociative, SMTT(30)
    <2>5. IsSequence(Tail(Flight)) /\ Range(Tail(Flight)) \subseteq Range(Flight)
      BY <1>2, <2>2, HeadTailRange DEF Flight
    <2> QED BY <1>4, <2>2, <2>3, <2>4, <2>5 DEF Flight
  <1> QED
    BY <1>2, <1>3, <1>4 DEF Flight

\* The parents of a block that a node has.
LEMMA ParentsHeld ==
    ASSUME NEW m, Registered(m), NEW N, Informed(m, N), NEW id, Has(N, id),
           NEW block, Makes(m, id, block)
    PROVE  block.parents \subseteq Blocks(N.ledger.dag)
  <1> DEFINE D == N.ledger.dag
  <1>1. id \in Blocks(D) /\ id # GenesisId /\ D.nodes[id].block = block
    BY MadeOnce DEF Informed, OfMade, Has
  <1>2. DagOK(D)
    BY DEF Informed, OfMade, Sound, LedgerOK
  <1> HIDE DEF D
  <1>3. block.parents = Parents(D, id)
    BY <1>1 DEF Parents
  <1> QED
    BY <1>1, <1>2, <1>3, ParentSelected DEF DagOK, NodeOK, D

\* Nodes that lose no block.
LEMMA FloodKeeps ==
    ASSUME NEW m, NEW ns, NEW ms, NEW f, Flooding(m, ns, f), Keeps(ns, ms), IsSequence(f),
           \A q \in Range(f) : q.to \in Names
    PROVE  Flooding(m, ms, f)
  <1>2. \A n \in Names : \A id : Has(ns[n], id) => Has(ms[n], id)
    BY DEF Keeps, Has
  <1>3. \A i \in DOMAIN f : f[i].to \in Names
    BY DEF Range
  <1>4. ASSUME NEW id, NEW block, Makes(m, id, block)
        PROVE  Reaches(ms, f, id) /\ \E n \in Names : Has(ms[n], id)
    BY <1>2, <1>4 DEF Flooding, Reaches
  <1>5. Rooted(m, ms, f)
    BY <1>2, <1>3 DEF Flooding, Rooted
  <1> QED
    BY <1>4, <1>5 DEF Flooding

\* A step in which nothing is made: a block that is delivered is at its receiver then, and
\* one that is sent is at its sender.
LEMMA FloodQuiet ==
    ASSUME OverlayType, LedgersInv, LedgersInv', Flooding(made, nodes, Flight), made' = made,
           Keeps(nodes, nodes'), NEW g, IsSequence(g), queue' = queue \o g,
           \/ due' = due
           \/ /\ due # <<>> /\ due' = Tail(due)
              /\ Head(due).envelope.kind = "block" => Has(nodes'[Head(due).to], Head(due).envelope.id),
           \A q \in Range(g) : q.to \in Names
               /\ (q.envelope.kind = "block" => \E n \in Names : Has(nodes'[n], q.envelope.id))
    PROVE  Flooding(made', nodes', Flight')
  <1>1. /\ IsSequence(Flight) /\ Range(Flight) = Range(due) \cup Range(queue)
        /\ due' = due => Flight' = Flight \o g
        /\ due # <<>> /\ due' = Tail(due) =>
             /\ Flight # <<>> /\ Head(Flight) = Head(due)
             /\ IsSequence(Tail(Flight)) /\ Range(Tail(Flight)) \subseteq Range(Flight)
             /\ Flight' = Tail(Flight) \o g
    BY FlightSteps
  <1>2. \A q \in Range(Flight) : q.to \in Names
    BY <1>1 DEF OverlayType, Addressed
  <1>3. Registered(made) /\ \A n \in Names : Informed(made, nodes'[n])
    BY DEF LedgersInv
  <1>4. Keeps(nodes', nodes')
    BY DEF Keeps
  <1>5. ASSUME NEW f, IsSequence(f), Range(f) \subseteq Range(Flight), Flooding(made, nodes', f)
        PROVE  Flooding(made, nodes', f \o g)
    <2>1. ASSUME NEW q \in Range(g), q.envelope.kind = "block", NEW block,
                 Makes(made, q.envelope.id, block), NEW p \in block.parents
          PROVE  Has(nodes'[q.to], p) \/ \E j \in DOMAIN f : Carries(f[j], p, q.to)
      <3>1. PICK n \in Names : Has(nodes'[n], q.envelope.id)
        BY <2>1
      <3>2. Has(nodes'[n], p)
        BY <1>3, <2>1, <3>1, ParentsHeld DEF Has
      <3>3. Reaches(nodes', f, p)
        BY <1>3, <1>5, <3>2, FloodReaches
      <3> QED BY <3>3 DEF Reaches
    <2>2. \A q \in Range(g) : q.envelope.kind = "block" =>
               \A block : Makes(made, q.envelope.id, block) =>
                   \A p \in block.parents : Has(nodes'[q.to], p) \/ \E j \in DOMAIN f : Carries(f[j], p, q.to)
      BY <2>1
    <2>3. \A q \in Range(f) : q.to \in Names
      BY <1>2, <1>5
    <2> QED BY <1>4, <1>5, <2>2, <2>3, FloodMore
  <1>6. CASE due' = due
    <2>1. Flooding(made, nodes', Flight)
      BY <1>1, <1>2, FloodKeeps
    <2> QED BY <1>1, <1>5, <1>6, <2>1
  <1>7. CASE /\ due # <<>> /\ due' = Tail(due)
             /\ Head(due).envelope.kind = "block" => Has(nodes'[Head(due).to], Head(due).envelope.id)
    <2>1. Flooding(made, nodes', Tail(Flight))
      BY <1>1, <1>2, <1>7, FloodDelivered
    <2> QED BY <1>1, <1>5, <1>7, <2>1
  <1> QED
    BY <1>6, <1>7

\* A block that is built is sent to every other node, after whatever it refers to.
LEMMA FloodInsert ==
    ASSUME LedgersInv, LedgersInv', OverlayInv, FloodInv, Settled', NEW n \in Names,
           NEW block, block.work \in Int, NEW after, Insert(n, block, after),
           CanLedgerInsert(nodes[n].ledger, IdOf(block), block) =>
               after.ledger = LedgerInsert(nodes[n].ledger, IdOf(block), block)
    PROVE  FloodInv'
  <1> DEFINE id == IdOf(block)
             L == nodes[n].ledger
             more == IF block \in Range(made) THEN made ELSE Append(made, block)
             new == ToEach(n, peers[n], BlockMsg(id))
  <1>1. /\ Position(block) \in DOMAIN IdOrder /\ CanLedgerInsert(L, id, block)
        /\ made' = more /\ nodes' = [nodes EXCEPT ![n] = after] /\ due' = due
        /\ queue' = queue \o new /\ peers' = peers
        /\ seen_blocks' = [seen_blocks EXCEPT ![n] = seen_blocks[n] \cup {id}]
        /\ after.ledger = LedgerInsert(L, id, block)
    BY DEF Insert, AnnounceBlock
  <1>2. /\ Registered(made) /\ SentMade(made, Range(queue) \cup Range(due)) /\ OverlayType
        /\ \A i \in Names : Informed(made, nodes[i])
    BY DEF LedgersInv, OverlayInv
  <1>3. /\ Registered(more) /\ Makes(more, id, block)
        /\ \A i, b : Makes(made, i, b) => Makes(more, i, b)
        /\ \A i, b : Makes(more, i, b) => Makes(made, i, b) \/ (i = id /\ b = block)
    <2>1. MakesToo(made, more, id, block)
      BY <1>1, <1>2, MadeMore
    <2> QED BY <2>1 DEF MakesToo
  <1>4. peers[n] = Names \ {n}
    <2>1. made' # <<>>
      <3> HIDE DEF more, id
      <3> QED BY <1>1, <1>3 DEF Makes
    <2> QED BY <1>1, <2>1 DEF Settled
  <1>5. IsSequence(new) /\ Range(new) = Copies(n, Names \ {n}, BlockMsg(id))
    BY <1>4, ToEachRange
  <1> HIDE DEF more, new, id
  <1>6. \A q \in Range(new) : q.to \in Names /\ q.envelope.kind = "block" /\ q.envelope.id = id
    BY <1>5 DEF Copies, BlockMsg
  <1>7. \A t \in Names \ {n} : \E q \in Range(new) : Carries(q, id, t)
    <2> SUFFICES ASSUME NEW t \in Names \ {n} PROVE \E q \in Range(new) : Carries(q, id, t)
      OBVIOUS
    <2> DEFINE q == [from |-> n, to |-> t, envelope |-> BlockMsg(id)]
    <2>1. q \in Range(new) /\ q.to = t /\ q.envelope.kind = "block" /\ q.envelope.id = id
      BY <1>5 DEF Copies, BlockMsg
    <2> HIDE DEF q
    <2> QED BY <2>1 DEF Carries
  <1>8. OfMade(made, L) /\ OfMade(more, L) /\ Sound(L)
    BY <1>2, <1>3 DEF Informed, OfMade
  <1>9. Blocks(after.ledger.dag) = Blocks(L.dag) \cup {id}
    <2>1. Takes(L, id, block)
      BY <1>1, <1>3, <1>8, InformedInsert
    <2> QED BY <1>1, <1>8, <2>1, InsertSound
  <1>10. \A i \in Names : nodes'[i] = IF i = n THEN after ELSE nodes[i]
    BY <1>1 DEF LedgersInv
  <1>11. Keeps(nodes, nodes') /\ Has(nodes'[n], id)
    BY <1>9, <1>10 DEF Keeps, Has, L
  <1>12. /\ IsSequence(Flight) /\ Range(Flight) = Range(due) \cup Range(queue)
         /\ Flight' = Flight \o new
    BY <1>1, <1>2, <1>5, FlightSteps
  <1>13. Reaches(nodes', Flight \o new, id)
    <2>1. Range(Flight \o new) = Range(Flight) \cup Range(new)
      BY <1>5, <1>12, ConcatRange
    <2>2. ASSUME NEW t \in Names \ {n} PROVE \E i \in DOMAIN (Flight \o new) : Carries((Flight \o new)[i], id, t)
      <3> DEFINE h == Flight \o new
      <3>1. \E q \in Range(h) : Carries(q, id, t)
        BY <1>7, <2>1
      <3> HIDE DEF h
      <3>2. \E i \in DOMAIN h : Carries(h[i], id, t)
        BY <3>1 DEF Range
      <3> QED BY <3>2 DEF h
    <2> QED BY <1>11, <2>2 DEF Reaches
  <1>14. \A i, b : Makes(more, i, b) =>
             Makes(made, i, b) \/ (Reaches(nodes', Flight \o new, i) /\ \E t \in Names : Has(nodes'[t], i))
    BY <1>3, <1>11, <1>13
  <1>15. \A q \in Range(Flight) : q.envelope.kind = "block" =>
             \A b : Makes(more, q.envelope.id, b) => Makes(made, q.envelope.id, b)
    <2> SUFFICES ASSUME NEW q \in Range(Flight), q.envelope.kind = "block", NEW b, Makes(more, q.envelope.id, b)
                 PROVE  Makes(made, q.envelope.id, b)
      OBVIOUS
    <2>1. PICK c : Makes(made, q.envelope.id, c)
      BY <1>2, <1>12 DEF SentMade
    <2>2. Makes(more, q.envelope.id, c)
      BY <1>3, <2>1
    <2>3. b = c
      BY <1>3, <2>2, MadeOnce
    <2> QED BY <2>1, <2>3
  <1>16. \A q \in Range(new) : q.envelope.kind = "block" =>
             \A b : Makes(more, q.envelope.id, b) =>
                 \A p \in b.parents : Has(nodes'[q.to], p) \/ \E j \in DOMAIN Flight : Carries(Flight[j], p, q.to)
    <2> SUFFICES ASSUME NEW q \in Range(new), NEW b, Makes(more, q.envelope.id, b), NEW p \in b.parents
                 PROVE  Has(nodes'[q.to], p) \/ \E j \in DOMAIN Flight : Carries(Flight[j], p, q.to)
      OBVIOUS
    <2>1. b = block /\ q.to \in Names
      BY <1>3, <1>6, MadeOnce
    <2>2. Has(nodes[n], p)
      BY <1>1, <2>1 DEF CanLedgerInsert, CanInsert, Has, L
    <2>3. Reaches(nodes, Flight, p)
      BY <1>2, <2>2, FloodReaches DEF FloodInv
    <2> QED BY <1>11, <2>1, <2>3 DEF Reaches, Keeps, Has
  <1>17. \A q \in Range(Flight) : q.to \in Names
    BY <1>2, <1>12 DEF OverlayType, Addressed
  <1>18. Flooding(more, nodes', Flight \o new)
    <2>1. Flooding(made, nodes, Flight)
      BY DEF FloodInv
    <2> QED BY <1>5, <1>11, <1>12, <1>14, <1>15, <1>16, <1>17, <2>1, FloodMore
  <1>19. \A i \in Names : seen_blocks'[i] = seen_blocks[i] \cup (IF i = n THEN {id} ELSE {})
    BY <1>1 DEF FloodInv
  <1>20. SeenIsHeld'
    <2>1. \A i \in Names : seen_blocks[i] \subseteq Blocks(nodes[i].ledger.dag)
      BY DEF FloodInv, SeenIsHeld, Held
    <2> QED BY <1>11, <1>19, <2>1 DEF SeenIsHeld, Held, Keeps, Has
  <1>21. seen_blocks' = [i \in Names |-> seen_blocks'[i]]
    BY <1>1 DEF FloodInv
  <1> QED
    BY <1>1, <1>12, <1>18, <1>20, <1>21 DEF FloodInv

\* Building a block.
LEMMA FloodProduce ==
    ASSUME LedgersInv, LedgersInv', OverlayInv, FloodInv, Settled', NEW n \in Names,
           ProduceEmpty(n) \/ Produce(n) \/ Send(n)
    PROVE  FloodInv'
  <1>1. PICK block, after :
            /\ block.work \in Int /\ Insert(n, block, after)
            /\ after.ledger = LedgerInsert(nodes[n].ledger, IdOf(block), block)
    BY Building DEF Builds
  <1> QED
    BY <1>1, FloodInsert

\* Queueing nothing.
LEMMA QueueNothing ==
    ASSUME OverlayType
    PROVE  IsSequence(<<>>) /\ Range(<<>>) = {} /\ queue = queue \o <<>>
  <1>1. queue \in Seq(Range(queue))
    BY DEF OverlayType, IsSequence
  <1>2. queue = queue \o <<>>
    BY <1>1
  <1>3. Range(<<>>) = {}
    BY DEF Range
  <1>4. IsSequence(<<>>)
    BY DEF IsSequence
  <1> QED
    BY <1>2, <1>3, <1>4

\* One node changes, and loses no block.
LEMMA KeepsOne ==
    ASSUME LedgersInv, NEW n \in Names, NEW N, Blocks(nodes[n].ledger.dag) \subseteq Blocks(N.ledger.dag),
           nodes' = [nodes EXCEPT ![n] = N]
    PROVE  Keeps(nodes, nodes') /\ nodes'[n] = N
  <1>1. \A i \in Names : nodes'[i] = IF i = n THEN N ELSE nodes[i]
    BY DEF LedgersInv
  <1> QED
    BY <1>1 DEF Keeps

\* A node that receives a block has it, and what it had.
LEMMA ReceivesIt ==
    ASSUME NEW m, Registered(m), NEW N, Informed(m, N), NEW id, NEW block, Makes(m, id, block),
           CanReceive(N, id, block), NEW R, R = ReceiveBlock(N, id, block)
    PROVE  Has(R, id) /\ Blocks(N.ledger.dag) \subseteq Blocks(R.ledger.dag)
  <1>1. CASE id \in Blocks(N.ledger.dag)
    BY <1>1 DEF ReceiveBlock, Has
  <1>2. CASE id \notin Blocks(N.ledger.dag)
    <2>1. R = AcceptBlock(N, id, block) /\ CanLedgerInsert(N.ledger, id, block)
      BY <1>2 DEF ReceiveBlock, CanReceive
    <2>2. R.ledger = LedgerInsert(N.ledger, id, block)
      BY <2>1, Accepted DEF Informed
    <2>3. OfMade(m, N.ledger) /\ Sound(N.ledger)
      BY DEF Informed, OfMade
    <2>4. Takes(N.ledger, id, block)
      BY <2>1, <2>3, InformedInsert
    <2>5. Blocks(R.ledger.dag) = Blocks(N.ledger.dag) \cup {id}
      BY <2>2, <2>3, <2>4, InsertSound
    <2> QED BY <2>5 DEF Has
  <1> QED
    BY <1>1, <1>2

\* A step that delivers no block and sends none.
LEMMA FloodOther ==
    ASSUME OverlayType, LedgersInv, LedgersInv', FloodInv, made' = made, seen_blocks' = seen_blocks,
           Keeps(nodes, nodes'), NEW g, IsSequence(g), queue' = queue \o g,
           due' = due \/ (due # <<>> /\ due' = Tail(due) /\ Head(due).envelope.kind # "block"),
           \A q \in Range(g) : q.to \in Names /\ q.envelope.kind # "block"
    PROVE  FloodInv'
  <1>1. Flooding(made, nodes, Flight)
    BY DEF FloodInv
  <1>2. Flooding(made', nodes', Flight')
    BY <1>1, FloodQuiet
  <1>3. \A n \in Names : seen_blocks[n] \subseteq Blocks(nodes[n].ledger.dag)
    BY DEF FloodInv, SeenIsHeld, Held
  <1>4. SeenIsHeld'
    BY <1>3 DEF SeenIsHeld, Held, Keeps
  <1>5. seen_blocks' = [n \in Names |-> seen_blocks'[n]]
    BY DEF FloodInv
  <1> QED
    BY <1>2, <1>4, <1>5 DEF FloodInv

\* The block that is delivered can be received: its parents were delivered before it.
LEMMA FloodBlock ==
    ASSUME LedgersInv, LedgersInv', OverlayInv, FloodInv, OnTime, OnBlock
    PROVE  FloodInv'
  <1> DEFINE q == Head(due)
             n == q.to
             id == q.envelope.id
             names == peers[n] \ {q.from}
             new == ToEach(n, names, BlockMsg(id))
  <1>1. /\ due # <<>> /\ q.envelope.kind = "block" /\ due' = Tail(due) /\ made' = made
        /\ seen_blocks' = [seen_blocks EXCEPT ![n] = seen_blocks[n] \cup {id}]
        /\ IF id \notin seen_blocks[n] /\ CanReceive(nodes[n], id, BlockOf(id))
           THEN /\ nodes' = [nodes EXCEPT ![n] = ReceiveBlock(nodes[n], id, BlockOf(id))]
                /\ queue' = queue \o new
           ELSE nodes' = nodes /\ queue' = queue
    BY DEF OnBlock, Deliver
  <1>2. /\ Registered(made) /\ SentMade(made, Range(queue) \cup Range(due)) /\ OverlayType
        /\ \A i \in Names : Informed(made, nodes[i])
    BY DEF LedgersInv, OverlayInv
  <1>3. q \in Range(due) /\ n \in Names
    <2>1. q \in Range(due)
      BY <1>1, <1>2, HeadTailRange DEF OverlayType
    <2> QED BY <1>2, <2>1 DEF OverlayType, Addressed
  <1>4. names \in SUBSET Names
    BY <1>2, <1>3 DEF OverlayType
  <1>5. IsSequence(new) /\ Range(new) = Copies(n, names, BlockMsg(id))
    BY <1>3, <1>4, ToEachRange
  <1>6. PICK block : Makes(made, id, block)
    BY <1>1, <1>2, <1>3 DEF SentMade
  <1>7. BlockOf(id) = block
    BY <1>2, <1>6, BlockFound
  <1>8. IsSequence(Flight) /\ Flight # <<>> /\ Head(Flight) = q
    <2>1. due \in Seq(Range(due) \cup Range(queue)) /\ queue \in Seq(Range(due) \cup Range(queue))
      BY <1>2 DEF OverlayType, IsSequence
    <2>2. due \o queue # <<>> /\ Head(due \o queue) = Head(due)
      BY <1>1, <2>1
    <2>3. IsSequence(Flight)
      BY <1>2, ConcatRange DEF OverlayType, Flight
    <2> QED BY <2>2, <2>3 DEF Flight
  <1> HIDE DEF q, n, id, names, new
  <1>9. Flooding(made, nodes, Flight) /\ \A i \in Names : seen_blocks[i] \subseteq Blocks(nodes[i].ledger.dag)
    BY DEF FloodInv, SeenIsHeld, Held
  <1>10. block.parents \subseteq Blocks(nodes[n].ledger.dag)
    <2>1. 1 \in DOMAIN Flight /\ Flight[1] = q /\ 1..(1 - 1) = {}
      BY <1>8 DEF IsSequence
    <2>2. \A p \in block.parents :
              Has(nodes[n], p) \/ \E j \in 1..(1 - 1) : Carries(Flight[j], p, Flight[1].to)
      BY <1>1, <1>6, <1>9, <2>1 DEF Flooding, Rooted, n, id
    <2> QED BY <2>1, <2>2 DEF Has
  <1>11. CanReceive(nodes[n], id, block)
    <2>1. PICK t \in Names : Has(nodes[t], id)
      BY <1>6, <1>9 DEF Flooding
    <2>2. InTime(made, nodes[n])
      BY <1>3 DEF OnTime
    <2> QED BY <1>2, <1>3, <1>6, <1>10, <2>1, <2>2, ReceivesNext DEF Has
  <1>12. Keeps(nodes, nodes') /\ Has(nodes'[n], id)
    <2>1. CASE id \in seen_blocks[n]
      <3>1. nodes' = nodes /\ Has(nodes[n], id)
        BY <1>1, <1>3, <1>9, <2>1 DEF Has
      <3> QED BY <3>1 DEF Keeps
    <2>2. CASE id \notin seen_blocks[n]
      <3> DEFINE R == ReceiveBlock(nodes[n], id, block)
      <3>1. nodes' = [nodes EXCEPT ![n] = R]
        BY <1>1, <1>7, <1>11, <2>2
      <3>2. Has(R, id) /\ Blocks(nodes[n].ledger.dag) \subseteq Blocks(R.ledger.dag)
        BY <1>2, <1>3, <1>6, <1>11, ReceivesIt
      <3> HIDE DEF R
      <3> QED BY <1>3, <3>1, <3>2, KeepsOne
    <2> QED BY <2>1, <2>2
  <1>13. \A h \in Range(new) : h.to \in Names /\ (h.envelope.kind = "block" => \E i \in Names : Has(nodes'[i], h.envelope.id))
    <2>1. \A h \in Range(new) : h.to \in Names /\ h.envelope.id = id
      BY <1>4, <1>5 DEF Copies, BlockMsg
    <2> QED BY <1>3, <1>12, <2>1
  <1>14. Flooding(made', nodes', Flight')
    <2>1. \/ due' = due
          \/ /\ due # <<>> /\ due' = Tail(due)
             /\ Head(due).envelope.kind = "block" => Has(nodes'[Head(due).to], Head(due).envelope.id)
      BY <1>1, <1>12 DEF q, n, id
    <2>2. CASE queue' = queue \o new
      BY <1>1, <1>2, <1>5, <1>9, <1>12, <1>13, <2>1, <2>2, FloodQuiet
    <2>3. CASE queue' = queue
      <3>1. IsSequence(<<>>) /\ queue' = queue \o <<>> /\ Range(<<>>) = {}
        BY <1>2, <2>3, QueueNothing
      <3> QED BY <1>1, <1>2, <1>9, <1>12, <2>1, <3>1, FloodQuiet
    <2> QED BY <1>1, <2>2, <2>3
  <1>15. \A i \in Names : seen_blocks'[i] = seen_blocks[i] \cup (IF i = n THEN {id} ELSE {})
    BY <1>1 DEF FloodInv
  <1>16. SeenIsHeld'
    BY <1>9, <1>12, <1>15 DEF SeenIsHeld, Held, Keeps, Has
  <1>17. seen_blocks' = [i \in Names |-> seen_blocks'[i]]
    BY <1>1 DEF FloodInv
  <1> QED
    BY <1>14, <1>16, <1>17 DEF FloodInv

\* Every step keeps the invariant.
LEMMA FloodStep ==
    FloodInv /\ LedgersInv /\ LedgersInv' /\ OverlayInv /\ Settled' /\ OnTime /\ [Next]_vars => FloodInv'
  <1> SUFFICES ASSUME FloodInv, LedgersInv, LedgersInv', OverlayInv, Settled', OnTime, [Next]_vars
               PROVE  FloodInv'
    OBVIOUS
  <1>1. /\ OverlayType /\ Registered(made) /\ \A n \in Names : Informed(made, nodes[n])
        /\ \A n \in Names : peers[n] \in SUBSET Names
    BY DEF LedgersInv, OverlayInv, OverlayType
  <1>2. /\ IsSequence(<<>>) /\ queue = queue \o <<>>
        /\ \A q \in Range(<<>>) : q.to \in Names /\ q.envelope.kind # "block"
    BY <1>1, QueueNothing
  <1>3. ASSUME NEW from \in Names, NEW names \in SUBSET Names, NEW e, e.kind # "block"
        PROVE  /\ IsSequence(ToEach(from, names, e))
               /\ \A q \in Range(ToEach(from, names, e)) : q.to \in Names /\ q.envelope.kind # "block"
    <2> DEFINE new == ToEach(from, names, e)
    <2>1. IsSequence(new) /\ Range(new) = Copies(from, names, e)
      BY ToEachRange
    <2> HIDE DEF new
    <2>2. \A q \in Range(new) : q.to \in Names /\ q.envelope.kind # "block"
      BY <1>3, <2>1 DEF Copies
    <2> QED BY <2>1, <2>2 DEF new
  <1>4. \A tx, s : TxMsg(tx).kind # "block" /\ Hello(s).kind # "block"
    BY DEF TxMsg, Hello
  <1>5. ASSUME due # <<>> PROVE Head(due) \in Range(due) /\ Head(due).to \in Names
    <2>1. Head(due) \in Range(due)
      BY <1>1, <1>5, HeadTailRange DEF OverlayType
    <2> QED BY <1>1, <2>1 DEF OverlayType, Addressed
  <1>6. nodes' = nodes => Keeps(nodes, nodes')
    BY DEF Keeps
  <1>7. ASSUME NEW n \in Names, NEW tx, nodes' = [nodes EXCEPT ![n] = SubmitTx(nodes[n], tx)]
        PROVE  Keeps(nodes, nodes')
    <2> DEFINE pool == nodes[n].mempool \cup {tx}
               N == nodes[n]
               M == SubmitTx(N, tx)
    <2>1. N = [ledger |-> N.ledger, mempool |-> N.mempool, clock |-> N.clock, miner |-> N.miner]
      BY <1>1 DEF Informed
    <2>2. M = [N EXCEPT !.mempool = pool]
      BY DEF SubmitTx
    <2> HIDE DEF pool, M, N
    <2>3. M.ledger = N.ledger
      BY <2>1, <2>2
    <2>4. nodes' = [nodes EXCEPT ![n] = M] /\ Blocks(nodes[n].ledger.dag) \subseteq Blocks(M.ledger.dag)
      BY <1>7, <2>3 DEF M, N
    <2> QED BY <2>4, KeepsOne
  <1>8. ASSUME NEW n \in Names, Pool(n) PROVE FloodInv'
    <2>1. PICK tx : nodes' = [nodes EXCEPT ![n] = SubmitTx(nodes[n], tx)]
                    /\ queue' = queue \o ToEach(n, peers[n], TxMsg(tx))
      BY <1>8 DEF Pool, AnnounceTx
    <2>2. due' = due /\ made' = made /\ seen_blocks' = seen_blocks
      BY <1>8 DEF Pool
    <2> DEFINE new == ToEach(n, peers[n], TxMsg(tx))
    <2>3. IsSequence(new) /\ \A q \in Range(new) : q.to \in Names /\ q.envelope.kind # "block"
      BY <1>1, <1>3, <1>4
    <2>4. Keeps(nodes, nodes')
      BY <1>7, <2>1
    <2> HIDE DEF new
    <2>5. queue' = queue \o new
      BY <2>1 DEF new
    <2> QED BY <1>1, <2>2, <2>3, <2>4, <2>5, FloodOther
  <1>9. ASSUME NEW n \in Names, NEW m \in Names, Connect(n, m) PROVE FloodInv'
    <2> DEFINE e == Hello(peers[n] \cup {m})
               new == ToEach(n, {m}, e)
    <2>1. queue' = queue \o new /\ due' = due /\ made' = made /\ nodes' = nodes /\ seen_blocks' = seen_blocks
      BY <1>9 DEF Connect
    <2>2. e.kind # "block" /\ {m} \in SUBSET Names
      BY <1>4
    <2> HIDE DEF e
    <2>3. IsSequence(new) /\ \A q \in Range(new) : q.to \in Names /\ q.envelope.kind # "block"
      BY <1>3, <2>2
    <2> HIDE DEF new
    <2> QED BY <1>1, <1>6, <2>1, <2>3, FloodOther
  <1>10. ASSUME NEW n \in Names, NEW m \in Names, Pull(n, m) PROVE FloodInv'
    <2> DEFINE R == ReceiveAll(nodes[n], Export(nodes[m]))
    <2>1. /\ nodes' = [nodes EXCEPT ![n] = R]
          /\ due' = due /\ made' = made /\ queue' = queue /\ seen_blocks' = seen_blocks
      BY <1>10 DEF Pull, Pulled
    <2>2. InTime(made, nodes[n])
      BY DEF OnTime
    <2>3. Within(nodes[n].ledger.dag, R.ledger.dag)
      BY <1>1, <2>2, PullTakes
    <2> HIDE DEF R
    <2>4. Keeps(nodes, nodes')
      BY <2>1, <2>3, KeepsOne DEF Within
    <2> QED BY <1>1, <1>2, <2>1, <2>4, FloodOther
  <1>11. CASE Tick
    <2>1. due = <<>> /\ due' = queue /\ queue' = <<>>
          /\ made' = made /\ nodes' = nodes /\ seen_blocks' = seen_blocks
      BY <1>11 DEF Tick
    <2>2. queue \in Seq(Range(queue))
      BY <1>1 DEF OverlayType, IsSequence
    <2>3. <<>> \o queue = queue \o <<>>
      BY <2>2
    <2>4. Flight' = Flight
      BY <2>1, <2>3 DEF Flight
    <2> QED BY <2>1, <2>4 DEF FloodInv, SeenIsHeld, Held
  <1>12. CASE OnHello
    <2> DEFINE q == Head(due)
               n == q.to
               advertised == q.envelope.advertised
               strangers == advertised \ (peers[n] \cup {n, q.from})
               heard == peers[n] \cup {q.from} \cup (advertised \ {n})
               e == Hello(heard)
               reply == ToEach(n, {q.from} \ peers[n], e)
               greet == ToEach(n, strangers, e)
    <2>1. due # <<>> /\ q.envelope.kind = "hello" /\ due' = Tail(due) /\ queue' = queue \o reply \o greet
      BY <1>12 DEF OnHello, Deliver
    <2>2. made' = made /\ nodes' = nodes /\ seen_blocks' = seen_blocks
      BY <1>12 DEF OnHello
    <2>3. q \in Range(due) /\ n \in Names
      BY <1>5, <2>1
    <2>4. q.from \in Names /\ q \in Hellos
      <3> HIDE DEF q
      <3>1. q \in Range(queue) \cup Range(due)
        BY <2>3
      <3>2. q.from \in Names
        BY <1>1, <3>1 DEF OverlayType, Addressed
      <3> QED BY <2>1, <3>1, <3>2 DEF Hellos
    <2>5. {q.from} \ peers[n] \in SUBSET Names /\ strangers \in SUBSET Names
      <3>1. advertised \subseteq Names
        BY <1>1, <2>4 DEF OverlayType
      <3> HIDE DEF advertised
      <3> QED BY <2>4, <3>1
    <2>6. e.kind # "block"
      BY <1>4
    <2> HIDE DEF e, strangers, heard
    <2>7. IsSequence(reply) /\ \A h \in Range(reply) : h.to \in Names /\ h.envelope.kind # "block"
      BY <1>3, <2>3, <2>5, <2>6
    <2>8. IsSequence(greet) /\ \A h \in Range(greet) : h.to \in Names /\ h.envelope.kind # "block"
      BY <1>3, <2>3, <2>5, <2>6
    <2> HIDE DEF reply, greet, n, q
    <2> DEFINE new == reply \o greet
    <2>9. IsSequence(new) /\ Range(new) = Range(reply) \cup Range(greet)
      BY <2>7, <2>8, ConcatRange
    <2>10. queue' = queue \o new
      <3> DEFINE T == Range(queue) \cup Range(reply) \cup Range(greet)
      <3>1. queue \in Seq(T) /\ reply \in Seq(T) /\ greet \in Seq(T)
        BY <1>1, <2>7, <2>8 DEF OverlayType, IsSequence
      <3> HIDE DEF T
      <3>2. queue \o (reply \o greet) = (queue \o reply) \o greet
        BY ONLY <3>1, ConcatAssociative
      <3> QED BY <2>1, <3>2 DEF new
    <2>11. Head(due).envelope.kind # "block"
      BY <2>1 DEF q
    <2> HIDE DEF new
    <2>12. \A h \in Range(new) : h.to \in Names /\ h.envelope.kind # "block"
      BY <2>7, <2>8, <2>9
    <2> QED BY <1>1, <1>6, <2>1, <2>2, <2>9, <2>10, <2>11, <2>12, FloodOther
  <1>13. CASE OnTx
    <2> DEFINE n == Head(due).to
               tx == Head(due).envelope.tx
               names == peers[n] \ {Head(due).from}
               new == ToEach(n, names, TxMsg(tx))
    <2>1. /\ due # <<>> /\ due' = Tail(due) /\ made' = made /\ seen_blocks' = seen_blocks
          /\ Head(due).envelope.kind # "block"
          /\ \/ nodes' = nodes /\ queue' = queue
             \/ /\ nodes' = [nodes EXCEPT ![n] = SubmitTx(nodes[n], tx)]
                /\ queue' = queue \o new
      BY <1>13 DEF OnTx, Deliver
    <2>2. n \in Names /\ names \in SUBSET Names
      BY <1>1, <1>5, <2>1
    <2> HIDE DEF n, names, tx
    <2>3. IsSequence(new) /\ \A q \in Range(new) : q.to \in Names /\ q.envelope.kind # "block"
      BY <1>3, <1>4, <2>2
    <2> HIDE DEF new
    <2>4. CASE nodes' = nodes /\ queue' = queue
      BY <1>1, <1>2, <1>6, <2>1, <2>4, FloodOther
    <2>5. CASE nodes' = [nodes EXCEPT ![n] = SubmitTx(nodes[n], tx)] /\ queue' = queue \o new
      <3>1. Keeps(nodes, nodes')
        BY <1>7, <2>2, <2>5
      <3> QED BY <1>1, <2>1, <2>3, <2>5, <3>1, FloodOther
    <2> QED BY <2>1, <2>4, <2>5
  <1>14. CASE UNCHANGED vars
    BY <1>14 DEF vars, FloodInv, SeenIsHeld, Held, Flight
  <1> QED
    BY <1>8, <1>9, <1>10, <1>11, <1>12, <1>13, <1>14, FloodProduce, FloodBlock DEF Next, Relay

\* The invariant holds of every state of a mesh that has settled before the first block.
LEMMA FloodInvariance == Spec /\ [](Settled /\ OnTime) => []FloodInv
  <1>1. Init => FloodInv
    <2> SUFFICES ASSUME Init PROVE FloodInv
      OBVIOUS
    <2>1. made = <<>> /\ queue = <<>> /\ due = <<>> /\ seen_blocks = [n \in Names |-> {}]
      BY DEF Init
    <2>2. Flight = <<>>
      <3>1. <<>> \o <<>> = <<>>
        BY ConcatSimplifications
      <3> QED BY <2>1, <3>1 DEF Flight
    <2>3. Len(<<>>) = 0 /\ DOMAIN <<>> = {}
      OBVIOUS
    <2>4. Flooding(<<>>, nodes, <<>>)
      BY <2>3 DEF Flooding, Rooted, Makes
    <2> QED BY <2>1, <2>2, <2>4 DEF FloodInv, SeenIsHeld
  <1> QED
    BY <1>1, FloodStep, LedgersInvariance, OverlayInvariance, PTL DEF Spec

\* Where every node is a peer of every other one before the first block is made, and no
\* block is too far in the future for a node, a node has every block that it has marked
\* seen: none reaches it before its parents (announce_block and the block case of deliver,
\* p2p.rs).
THEOREM NoBlockOvertakesItsParents == Spec /\ [](Settled /\ OnTime) => []SeenIsHeld
  <1>1. FloodInv => SeenIsHeld
    BY DEF FloodInv
  <1> QED
    BY <1>1, FloodInvariance, PTL

\* And when nothing is under way, all nodes hold the same ledger, in whatever order the
\* blocks of several producers reached them (lib.rs: "so peers converge on the same DAG").
THEOREM FloodConverges == Spec /\ [](Settled /\ OnTime) => []Converged
  <1>1. FloodInv /\ LedgersInv => (Idle => \A n, m \in Names : Held(n) \subseteq Held(m))
    <2> SUFFICES ASSUME FloodInv, LedgersInv, Idle, NEW n \in Names, NEW m \in Names,
                        NEW id, Has(nodes[n], id)
                 PROVE  Has(nodes[m], id)
      BY DEF Held, Has
    <2>1. DOMAIN Flight = {}
      <3>1. <<>> \o <<>> = <<>> /\ DOMAIN <<>> = {}
        BY ConcatSimplifications
      <3> QED BY <3>1 DEF Idle, Flight
    <2>2. Reaches(nodes, Flight, id)
      BY FloodReaches DEF FloodInv, LedgersInv
    <2> QED BY <2>1, <2>2 DEF Reaches
  <1>2. FloodInv /\ LedgersInv /\ SameBlocksSameLedger => Converged
    <2>1. FloodInv /\ LedgersInv /\ Idle => \A n, m \in Names : Held(n) = Held(m)
      BY <1>1
    <2> QED BY <2>1 DEF Converged, SameBlocksSameLedger
  <1> QED
    BY <1>2, FloodInvariance, LedgersInvariance, SameBlocksGiveSameLedger, PTL
=============================================================================

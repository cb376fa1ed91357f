--------------------------- MODULE LedgerTheorems ---------------------------
(***************************************************************************)
(* What Codec and LedgerRules compute.                                     *)
(*                                                                         *)
(* What the encoders of Codec write, its readers read back: transactions,  *)
(* payloads, records and lists of records, each followed by anything.      *)
(* There F is the set of all fields; the lemmas hold for every F that has  *)
(* the naturals (the counts and lengths) and the fields of what is         *)
(* written.                                                                *)
(*                                                                         *)
(* A ledger that grows by insert keeps for each block the state of its     *)
(* past, and a replay of its blocks in any order that has parents first    *)
(* gives it back.                                                          *)
(***************************************************************************)
EXTENDS LedgerRules, DagTheorems, SequenceTheorems

----------------------------------------------------------------------------
(***************************************************************************)
(* Flattening.  f is a sequence of n sequences; what follows its i-th      *)
(* element in the flattened string is t[i].                                *)
(***************************************************************************)
Joined(d, acc, x) == acc \o x
Joining == INSTANCE DataTheorems WITH FoldStep <- Joined

\* From the end: f[i] before what follows it.
PutBefore(f, acc, i) == f[i] \o acc
Ending == INSTANCE DataTheorems WITH FoldStep <- PutBefore

\* What is left of f and then rest, from its end to its beginning.
LeftOver(f, n, rest, t) ==
    /\ t[n] = rest
    /\ \A i \in 1..n : t[i - 1] = f[i] \o t[i]

\* One string after the other, as an operator the provers do not open.
Cat(a, b) == a \o b

\* Where the first string ends does not matter.
LEMMA CatAssociative ==
    ASSUME NEW F
    PROVE  /\ \A a, b, c \in Seq(F) : Cat(Cat(a, b), c) = Cat(a, Cat(b, c))
           /\ \A a, b \in Seq(F) : Cat(a, b) \in Seq(F)
  <1>1. ASSUME NEW a \in Seq(F), NEW b \in Seq(F)
        PROVE  /\ Cat(a, b) \in Seq(F) /\ Len(Cat(a, b)) = Len(a) + Len(b)
               /\ Len(a) \in Nat /\ Len(b) \in Nat
               /\ \A i \in 1..(Len(a) + Len(b)) : Cat(a, b)[i] = IF i <= Len(a) THEN a[i] ELSE b[i - Len(a)]
    BY ConcatProperties DEF Cat
  <1>2. ASSUME NEW a \in Seq(F), NEW b \in Seq(F), NEW c \in Seq(F)
        PROVE  Cat(Cat(a, b), c) = Cat(a, Cat(b, c))
    <2> DEFINE ab == Cat(a, b)
               bc == Cat(b, c)
               x == Cat(ab, c)
               y == Cat(a, bc)
               n == Len(a) + Len(b) + Len(c)
    <2>1. /\ ab \in Seq(F) /\ Len(ab) = Len(a) + Len(b) /\ bc \in Seq(F) /\ Len(bc) = Len(b) + Len(c)
          /\ Len(a) \in Nat /\ Len(b) \in Nat /\ Len(c) \in Nat
          /\ \A i \in 1..(Len(a) + Len(b)) : ab[i] = IF i <= Len(a) THEN a[i] ELSE b[i - Len(a)]
          /\ \A i \in 1..(Len(b) + Len(c)) : bc[i] = IF i <= Len(b) THEN b[i] ELSE c[i - Len(b)]
      BY <1>1
    <2> HIDE DEF ab, bc
    <2>2. /\ x \in Seq(F) /\ Len(x) = Len(ab) + Len(c)
          /\ \A i \in 1..(Len(ab) + Len(c)) : x[i] = IF i <= Len(ab) THEN ab[i] ELSE c[i - Len(ab)]
      BY <1>1, <2>1
    <2>3. /\ y \in Seq(F) /\ Len(y) = Len(a) + Len(bc)
          /\ \A i \in 1..(Len(a) + Len(bc)) : y[i] = IF i <= Len(a) THEN a[i] ELSE bc[i - Len(a)]
      BY <1>1, <2>1
    <2> HIDE DEF x, y
    <2>4. Len(x) = n /\ Len(y) = n
      BY <2>1, <2>2, <2>3
    <2>5. ASSUME NEW i \in 1..n PROVE x[i] = y[i]
      <3>1. CASE i <= Len(a)
        <4>1. i \in 1..(Len(a) + Len(b)) /\ i \in 1..(Len(ab) + Len(c)) /\ i <= Len(ab)
              /\ i \in 1..(Len(a) + Len(bc))
          BY <2>1, <3>1
        <4>2. x[i] = ab[i] /\ y[i] = a[i]
          BY <2>2, <2>3, <3>1, <4>1
        <4>3. ab[i] = a[i]
          BY <2>1, <3>1, <4>1
        <4> QED BY <4>2, <4>3
      <3>2. CASE Len(a) < i /\ i <= Len(a) + Len(b)
        <4>1. x[i] = b[i - Len(a)] /\ y[i] = bc[i - Len(a)]
          BY <2>1, <2>2, <2>3, <3>2
        <4>2. i - Len(a) \in 1..(Len(b) + Len(c)) /\ i - Len(a) <= Len(b)
          BY <2>1, <3>2
        <4> QED BY <2>1, <4>1, <4>2
      <3>3. CASE Len(a) + Len(b) < i
        <4>1. x[i] = c[i - (Len(a) + Len(b))] /\ y[i] = bc[i - Len(a)]
          BY <2>1, <2>2, <2>3, <3>3
        <4>2. i - Len(a) \in 1..(Len(b) + Len(c)) /\ ~(i - Len(a) <= Len(b))
              /\ (i - Len(a)) - Len(b) = i - (Len(a) + Len(b))
          BY <2>1, <3>3
        <4> QED BY <2>1, <4>1, <4>2
      <3> QED BY <2>1, <3>1, <3>2, <3>3
    <2>6. x = y
      BY <2>2, <2>3, <2>4, <2>5, SeqEqual
    <2> QED BY <2>6 DEF x, y, ab, bc
  <1> QED
    BY <1>1, <1>2

\* The recursive function of FlattenSeq joins one element after the other.
LEMMA FlattenSteps ==
    ASSUME NEW F, NEW n \in Nat, NEW f \in [1..n -> Seq(F)]
    PROVE  \E q \in [0..n -> Seq(F)] :
               /\ q[0] = <<>> /\ \A i \in 1..n : q[i] = q[i - 1] \o f[i]
               /\ FlattenSeq(f) = q[n]
  <1>1. f \in Seq(Seq(F)) /\ Len(f) = n
    OBVIOUS
  <1>2. PICK q : Joining!Steps(0, <<>>, f, n, q)
    BY <1>1, Joining!FoldSteps
  <1>3. DOMAIN q = 0..n /\ q[0] = <<>> /\ \A i \in 1..n : q[i] = q[i - 1] \o f[i]
    BY <1>2 DEF Joining!Steps, Joined
  <1> DEFINE S == {i \in Nat : q[i] \in Seq(F)}
  <1>4. 0..n \subseteq S
    <2>1. 0 \in S
      BY <1>3, EmptySeq
    <2>2. ASSUME NEW i \in 0..(n - 1), i \in S PROVE i + 1 \in S
      <3>1. i + 1 \in 1..n /\ (i + 1) - 1 = i
        OBVIOUS
      <3>2. q[i + 1] = q[i] \o f[i + 1] /\ f[i + 1] \in Seq(F) /\ q[i] \in Seq(F)
        BY <1>3, <2>2, <3>1
      <3>3. q[i] \o f[i + 1] \in Seq(F)
        BY <3>2, ConcatProperties
      <3>4. q[i + 1] \in Seq(F)
        BY <3>2, <3>3
      <3> QED BY <3>1, <3>4
    <2> HIDE DEF S
    <2> QED BY <2>1, <2>2, NatSetTo
  <1>5. \A i \in 0..n : q[i] \in Seq(F)
    BY <1>4
  <1>6. FlattenSeq(f) = q[n]
    <2>1. CASE n = 0
      <3>1. f = <<>> /\ q[n] = <<>>
        BY <1>3, <2>1
      <3> QED BY <1>1, <2>1, <3>1 DEF FlattenSeq
    <2>2. CASE n # 0
      <3> DEFINE Good(g) == g = [i \in 1..n |-> IF i = 1 THEN f[i] ELSE g[i - 1] \o f[i]]
                 g == CHOOSE g : Good(g)
                 p == [i \in 1..n |-> q[i]]
      <3>1. FlattenSeq(f) = g[n]
        BY <1>1, <2>2 DEF FlattenSeq
      <3>2. q[1] = f[1]
        <4>1. q[1] = <<>> \o f[1] /\ f[1] \in Seq(F)
          <5>1. 1 \in 1..n /\ 1 - 1 = 0
            BY <2>2
          <5> QED BY <1>3, <5>1
        <4> QED BY <4>1
      <3>3. Good(p)
        <4>1. \A i \in 1..n : i # 1 => i - 1 \in 1..n
          OBVIOUS
        <4> QED BY <1>3, <3>2, <4>1
      <3>4. Good(g)
        BY <3>3
      <3> HIDE DEF g
      <3> DEFINE T == {i \in Nat : i = 0 \/ g[i] = q[i]}
      <3>5. 0..n \subseteq T
        <4>1. 0 \in T
          OBVIOUS
        <4>2. ASSUME NEW i \in 0..(n - 1), i \in T PROVE i + 1 \in T
          <5>1. i + 1 \in 1..n /\ (i + 1) - 1 = i
            OBVIOUS
          <5>2. g[i + 1] = IF i + 1 = 1 THEN f[i + 1] ELSE g[i] \o f[i + 1]
            BY <3>4, <5>1
          <5>3. q[i + 1] = q[i] \o f[i + 1]
            BY <1>3, <5>1
          <5>4. CASE i = 0
            BY <3>2, <5>2, <5>4
          <5>5. CASE i # 0
            <6>1. g[i] = q[i] /\ i + 1 # 1
              BY <4>2, <5>5
            <6>2. g[i + 1] = q[i + 1]
              BY <5>2, <5>3, <6>1
            <6> QED BY <5>1, <6>2
          <5> QED BY <5>4, <5>5
        <4> HIDE DEF T
        <4> QED BY <4>1, <4>2, NatSetTo
      <3> QED BY <2>2, <3>1, <3>5
    <2> QED BY <2>1, <2>2
  <1>7. q \in [0..n -> Seq(F)]
    <2>1. q = [i \in 0..n |-> q[i]]
      BY <1>2 DEF Joining!Steps
    <2> QED BY <1>5, <2>1
  <1> QED
    BY <1>3, <1>6, <1>7

\* The flattened string, followed by rest, is read off its suffixes.
LEMMA Flattened ==
    ASSUME NEW F, NEW n \in Nat, NEW f \in [1..n -> Seq(F)], NEW rest \in Seq(F)
    PROVE  /\ FlattenSeq(f) \in Seq(F)
           /\ \E t \in [0..n -> Seq(F)] : t[0] = FlattenSeq(f) \o rest /\ LeftOver(f, n, rest, t)
  <1>1. PICK q \in [0..n -> Seq(F)] :
            /\ q[0] = <<>> /\ \A i \in 1..n : q[i] = q[i - 1] \o f[i]
            /\ FlattenSeq(f) = q[n]
    BY FlattenSteps
  <1> DEFINE back == [j \in 1..n |-> n + 1 - j]
  <1>2. DOMAIN back = 1..n
    OBVIOUS
  <1>3. PICK h : Ending!Steps(f, rest, back, n, h)
    <2> HIDE DEF back
    <2> QED BY <1>2, Ending!FoldSteps
  <1>4. h[0] = rest /\ \A j \in 1..n : h[j] = f[n + 1 - j] \o h[j - 1]
    BY <1>3 DEF Ending!Steps, PutBefore
  <1> HIDE DEF back
  <1> DEFINE S == {j \in Nat : h[j] \in Seq(F)}
  <1>5. 0..n \subseteq S
    <2>1. 0 \in S
      BY <1>4
    <2>2. ASSUME NEW j \in 0..(n - 1), j \in S PROVE j + 1 \in S
      <3>1. j + 1 \in 1..n /\ (j + 1) - 1 = j /\ n + 1 - (j + 1) \in 1..n /\ j + 1 \in Nat
        OBVIOUS
      <3>2. h[j + 1] = f[n + 1 - (j + 1)] \o h[j] /\ f[n + 1 - (j + 1)] \in Seq(F) /\ h[j] \in Seq(F)
        BY <1>4, <2>2, <3>1
      <3>3. f[n + 1 - (j + 1)] \o h[j] \in Seq(F)
        BY <3>2, ConcatProperties
      <3>4. h[j + 1] \in Seq(F)
        BY <3>2, <3>3
      <3> QED BY <3>1, <3>4
    <2> HIDE DEF S
    <2> QED BY <2>1, <2>2, NatSetTo
  <1> DEFINE t == [i \in 0..n |-> h[n - i]]
  <1>6. t \in [0..n -> Seq(F)]
    <2>1. \A i \in 0..n : n - i \in 0..n
      OBVIOUS
    <2> QED BY <1>5, <2>1
  <1>7. LeftOver(f, n, rest, t)
    <2>1. t[n] = rest
      <3>1. n \in 0..n /\ n - n = 0
        OBVIOUS
      <3> QED BY <1>4, <3>1
    <2>2. ASSUME NEW i \in 1..n PROVE t[i - 1] = f[i] \o t[i]
      <3>1. i - 1 \in 0..n /\ i \in 0..n /\ n - (i - 1) \in 1..n /\ n + 1 - (n - (i - 1)) = i
            /\ (n - (i - 1)) - 1 = n - i
        OBVIOUS
      <3> QED BY <1>4, <3>1
    <2> HIDE DEF t
    <2> QED BY <2>1, <2>2 DEF LeftOver
  <1> HIDE DEF t, S
  <1> DEFINE T == {i \in Nat : q[i] \o t[i] = q[0] \o t[0]}
  <1>8. 0..n \subseteq T
    <2>1. 0 \in T
      OBVIOUS
    <2>2. ASSUME NEW i \in 0..(n - 1), i \in T PROVE i + 1 \in T
      <3>1. i + 1 \in 1..n /\ (i + 1) - 1 = i /\ i \in 0..n /\ i + 1 \in 0..n /\ i + 1 \in Nat
        OBVIOUS
      <3>2. q[i + 1] = q[i] \o f[i + 1] /\ t[i] = f[i + 1] \o t[i + 1]
        BY <1>1, <1>7, <3>1 DEF LeftOver
      <3>3. (q[i] \o f[i + 1]) \o t[i + 1] = q[i] \o (f[i + 1] \o t[i + 1])
        <4>1. q[i] \in Seq(F) /\ f[i + 1] \in Seq(F) /\ t[i + 1] \in Seq(F)
          BY <1>1, <1>6, <3>1
        <4> DEFINE x == q[i]
                   y == f[i + 1]
                   z == t[i + 1]
        <4>2. x \in Seq(F) /\ y \in Seq(F) /\ z \in Seq(F)
          BY <4>1
        <4> HIDE DEF x, y, z
        <4>3. Cat(Cat(x, y), z) = Cat(x, Cat(y, z))
          BY <4>2, CatAssociative
        <4> QED BY <4>3 DEF Cat, x, y, z
      <3>4. q[i] \o t[i] = q[0] \o t[0]
        BY <2>2
      <3>5. q[i + 1] \o t[i + 1] = q[0] \o t[0]
        BY <3>2, <3>3, <3>4
      <3> QED BY <3>1, <3>5
    <2> HIDE DEF T
    <2> QED BY <2>1, <2>2, NatSetTo
  <1>9. t[0] = FlattenSeq(f) \o rest /\ FlattenSeq(f) \in Seq(F)
    <2>1. 0 \in 0..n /\ n \in 0..n
      OBVIOUS
    <2>2. q[n] \o t[n] = q[0] \o t[0]
      BY <1>8, <2>1
    <2>3. q[0] \o t[0] = t[0]
      <3>1. t[0] \in Seq(F) /\ q[0] = <<>>
        BY <1>1, <1>6, <2>1
      <3> QED BY <3>1, ConcatEmptySeq
    <2> QED BY <1>1, <1>7, <2>1, <2>2, <2>3 DEF LeftOver
  <1> QED
    BY <1>6, <1>7, <1>9

----------------------------------------------------------------------------
(***************************************************************************)
(* Counted elements.                                                       *)
(***************************************************************************)

\* A sequence is put together from its first element and the others.
LEMMA First ==
    ASSUME NEW F, NEW a \in F, NEW s \in Seq(F)
    PROVE  /\ <<a>> \o s \in Seq(F) /\ <<a>> \o s # <<>> /\ Head(<<a>> \o s) = a
           /\ Tail(<<a>> \o s) = s /\ Len(<<a>> \o s) = 1 + Len(s) /\ Len(s) \in Nat
           /\ \A i \in 1..Len(s) : (<<a>> \o s)[1 + i] = s[i]
  <1> DEFINE r == <<a>> \o s
  <1>1. <<a>> \in Seq(F) /\ Len(<<a>>) = 1 /\ <<a>>[1] = a /\ Len(s) \in Nat
    OBVIOUS
  <1>2. r \in Seq(F) /\ Len(r) = 1 + Len(s)
        /\ \A i \in 1..(1 + Len(s)) : r[i] = IF i <= 1 THEN <<a>>[i] ELSE s[i - 1]
    BY <1>1, ConcatProperties
  <1> HIDE DEF r
  <1>3. r[1] = a /\ r # <<>> /\ \A i \in 1..Len(s) : r[1 + i] = s[i]
    <2>1. \A i \in 1..Len(s) : 1 + i \in 1..(1 + Len(s)) /\ ~(1 + i <= 1) /\ (1 + i) - 1 = i
      BY <1>1
    <2> QED BY <1>1, <1>2, <2>1
  <1>4. Head(r) = a
    BY <1>2, <1>3
  <1>5. Tail(r) = s
    <2>1. Tail(r) \in Seq(F) /\ Len(Tail(r)) = Len(s) /\ \A i \in 1..Len(s) : Tail(r)[i] = r[i + 1]
      BY <1>1, <1>2, <1>3
    <2>2. \A i \in 1..Len(s) : Tail(r)[i] = s[i]
      BY <1>1, <1>3, <2>1
    <2> QED BY <2>1, <2>2, SeqEqual
  <1> QED BY <1>1, <1>2, <1>3, <1>4, <1>5 DEF r

\* What stands in s from place lo on.
LEMMA Slice ==
    ASSUME NEW F, NEW s \in Seq(F), NEW r \in Seq(F), NEW lo \in Nat, NEW hi \in Nat,
           hi = lo + Len(r), hi <= Len(s), \A j \in 1..Len(r) : s[lo + j] = r[j]
    PROVE  SubSeq(s, lo + 1, hi) = r
  <1> DEFINE p == SubSeq(s, lo + 1, hi)
  <1>1. Len(r) \in Nat /\ Len(s) \in Nat /\ lo + 1 \in Int /\ hi \in Int
    OBVIOUS
  <1>2. \A i \in (lo + 1)..hi : s[i] \in F
    BY <1>1
  <1>3. p \in Seq(F) /\ Len(p) = (IF lo + 1 <= hi THEN hi - (lo + 1) + 1 ELSE 0)
        /\ \A i \in 1..(hi - (lo + 1) + 1) : p[i] = s[(lo + 1) + i - 1]
    <2> HIDE DEF p
    <2> QED BY <1>1, <1>2, SubSeqProperties DEF p
  <1> HIDE DEF p
  <1>4. Len(p) = Len(r) /\ hi - (lo + 1) + 1 = Len(r)
    BY <1>1, <1>3
  <1>5. \A i \in 1..Len(r) : p[i] = r[i]
    <2> SUFFICES ASSUME NEW i \in 1..Len(r) PROVE p[i] = r[i]
      OBVIOUS
    <2>1. (lo + 1) + i - 1 = lo + i
      OBVIOUS
    <2> QED BY <1>3, <1>4, <2>1
  <1>6. p = r
    BY <1>3, <1>4, <1>5, SeqEqual
  <1> QED BY <1>6 DEF p

\* The elements of f, all of one size, are at their places in body, and then comes rest.
Placed(f, n, size, rest, body) ==
    /\ \A i \in 1..n : Len(f[i]) = size
    /\ Len(body) = n * size + Len(rest)
    /\ \A i \in 1..n : \A j \in 1..size : body[(i - 1) * size + j] = f[i][j]
    /\ \A j \in 1..Len(rest) : body[n * size + j] = rest[j]

\* ReadCounted finds them.
LEMMA CountedAt ==
    ASSUME NEW F, NEW n \in Nat, n \in F, NEW size \in Nat, NEW f \in [1..n -> Seq(F)],
           NEW rest \in Seq(F), NEW body \in Seq(F), Placed(f, n, size, rest, body)
    PROVE  ReadCounted(<<n>> \o body, size) = Got(f, rest)
  <1> DEFINE s == <<n>> \o body
  <1>1. /\ s \in Seq(F) /\ s # <<>> /\ Head(s) = n /\ Len(s) = 1 + Len(body) /\ Len(body) \in Nat
        /\ \A i \in 1..Len(body) : s[1 + i] = body[i]
    BY First
  <1> HIDE DEF s
  <1>2. n * size \in Nat /\ Len(rest) \in Nat
    OBVIOUS
  <1>3. ASSUME NEW i \in 1..n PROVE SubSeq(s, 2 + (i - 1) * size, 1 + i * size) = f[i]
    <2> DEFINE lo == (i - 1) * size
               hi == i * size
               all == n * size
    <2>1. lo \in Nat /\ hi \in Nat /\ all \in Nat /\ hi = lo + size /\ hi <= all
      <3>1. i - 1 \in Nat /\ n - i \in Nat
        OBVIOUS
      <3>2. (i - 1) * size \in Nat /\ (n - i) * size \in Nat
        BY <3>1
      <3>3. i * size = (i - 1) * size + size /\ n * size = i * size + (n - i) * size
        OBVIOUS
      <3>4. i * size \in Nat
        OBVIOUS
      <3> QED BY <1>2, <3>2, <3>3, <3>4
    <2>2. Len(body) = all + Len(rest) /\ \A j \in 1..size : body[lo + j] = f[i][j]
      BY DEF Placed
    <2>3. f[i] \in Seq(F) /\ Len(f[i]) = size
      BY DEF Placed
    <2> HIDE DEF lo, hi, all
    <2>4. \A j \in 1..size : s[(1 + lo) + j] = f[i][j]
      <3> SUFFICES ASSUME NEW j \in 1..size PROVE s[(1 + lo) + j] = f[i][j]
        OBVIOUS
      <3>1. (1 + lo) + j = 1 + (lo + j) /\ lo + j \in 1..Len(body)
        BY <1>1, <1>2, <2>1, <2>2
      <3> QED BY <1>1, <2>2, <3>1
    <2>5. 1 + lo \in Nat /\ 1 + hi \in Nat /\ 1 + hi = (1 + lo) + size /\ 1 + hi <= Len(s)
      BY <1>1, <1>2, <2>1, <2>2
    <2>6. SubSeq(s, (1 + lo) + 1, 1 + hi) = f[i]
      <3> DEFINE e == f[i]
                 x == 1 + lo
                 y == 1 + hi
      <3>1. e \in Seq(F) /\ x \in Nat /\ y \in Nat /\ y = x + Len(e) /\ y <= Len(s)
            /\ \A j \in 1..Len(e) : s[x + j] = e[j]
        BY <2>3, <2>4, <2>5
      <3> HIDE DEF e, x, y
      <3>2. SubSeq(s, x + 1, y) = e
        BY <1>1, <3>1, Slice
      <3> QED BY <3>2 DEF e, x, y
    <2>7. (1 + lo) + 1 = 2 + lo
      BY <2>1
    <2> QED BY <2>6, <2>7 DEF lo, hi
  <1>4. SubSeq(s, 2 + n * size, Len(s)) = rest
    <2> DEFINE k == n * size
    <2>1. k \in Nat /\ Len(body) = k + Len(rest) /\ \A j \in 1..Len(rest) : body[k + j] = rest[j]
      BY <1>2 DEF Placed
    <2> HIDE DEF k
    <2>2. 1 + k \in Nat /\ Len(s) \in Nat /\ Len(s) = (1 + k) + Len(rest) /\ Len(s) <= Len(s)
      BY <1>1, <1>2, <2>1
    <2>3. \A j \in 1..Len(rest) : s[(1 + k) + j] = rest[j]
      <3> SUFFICES ASSUME NEW j \in 1..Len(rest) PROVE s[(1 + k) + j] = rest[j]
        OBVIOUS
      <3>1. (1 + k) + j = 1 + (k + j) /\ k + j \in 1..Len(body)
        BY <1>1, <1>2, <2>1
      <3> QED BY <1>1, <2>1, <3>1
    <2>4. SubSeq(s, (1 + k) + 1, Len(s)) = rest
      BY <1>1, <2>2, <2>3, Slice
    <2>5. (1 + k) + 1 = 2 + k
      BY <2>1
    <2> QED BY <2>4, <2>5 DEF k
  <1>5. ~(Len(s) - 1 < Head(s) * size)
    BY <1>1, <1>2 DEF Placed
  <1>6. f = [i \in 1..n |-> SubSeq(s, 2 + (i - 1) * size, 1 + i * size)]
    BY <1>3
  <1> QED
    BY <1>1, <1>4, <1>5, <1>6 DEF ReadCounted, s

\* Elements of one size, each written in full, are read back.
LEMMA ReadFlat ==
    ASSUME NEW F, NEW n \in Nat, n \in F, NEW size \in Nat, NEW f \in [1..n -> Seq(F)],
           \A i \in 1..n : Len(f[i]) = size, NEW rest \in Seq(F)
    PROVE  ReadCounted(<<n>> \o (FlattenSeq(f) \o rest), size) = Got(f, rest)
  <1>1. PICK t \in [0..n -> Seq(F)] : t[0] = FlattenSeq(f) \o rest /\ LeftOver(f, n, rest, t)
    BY Flattened
  <1>2. t[n] = rest /\ \A i \in 1..n : t[i - 1] = f[i] \o t[i]
    BY <1>1 DEF LeftOver
  <1> DEFINE body == t[0]
             At(i) == /\ Len(body) = i * size + Len(t[i])
                      /\ \A k \in 1..Len(t[i]) : body[i * size + k] = t[i][k]
             S == {i \in Nat : At(i)}
  <1>3. 0 \in 0..n /\ n \in 0..n /\ body \in Seq(F) /\ Len(body) \in Nat
    <2>1. 0 \in 0..n /\ n \in 0..n
      OBVIOUS
    <2>2. t[0] \in Seq(F)
      BY <2>1
    <2> QED BY <2>1, <2>2
  <1>4. ASSUME NEW i \in 0..(n - 1)
        PROVE  /\ i + 1 \in 1..n /\ i + 1 \in Nat /\ i + 1 \in 0..n
               /\ Len(t[i]) = size + Len(t[i + 1]) /\ Len(t[i]) \in Nat /\ Len(t[i + 1]) \in Nat
               /\ \A k \in 1..Len(t[i]) : t[i][k] = IF k <= size THEN f[i + 1][k] ELSE t[i + 1][k - size]
    <2>1. i \in 0..n /\ i + 1 \in 1..n /\ i + 1 \in Nat /\ i + 1 \in 0..n /\ (i + 1) - 1 = i
      OBVIOUS
    <2> DEFINE a == f[i + 1]
               b == t[i + 1]
    <2>2. a \in Seq(F) /\ b \in Seq(F) /\ Len(a) = size /\ t[i] = a \o b /\ t[i] \in Seq(F)
      BY <1>2, <2>1
    <2> HIDE DEF a, b
    <2>3. /\ Len(a \o b) = Len(a) + Len(b)
          /\ \A k \in 1..(Len(a) + Len(b)) : (a \o b)[k] = IF k <= Len(a) THEN a[k] ELSE b[k - Len(a)]
      BY <2>2, ConcatProperties
    <2>4. Len(b) \in Nat /\ Len(t[i]) \in Nat
      BY <2>2
    <2>5. /\ Len(t[i]) = size + Len(b)
          /\ \A k \in 1..Len(t[i]) : t[i][k] = IF k <= size THEN a[k] ELSE b[k - size]
      BY <2>2, <2>3
    <2> QED BY <2>1, <2>4, <2>5 DEF a, b
  <1>5. 0 \in S
    <2>1. 0 * size = 0 /\ \A k \in 1..Len(t[0]) : 0 * size + k = k
      BY <1>3
    <2> QED BY <1>3, <2>1
  <1>6. ASSUME NEW i \in 0..(n - 1), i \in S PROVE i + 1 \in S
    <2> DEFINE lo == i * size
               hi == (i + 1) * size
    <2>1. lo \in Nat /\ hi \in Nat /\ hi = lo + size
      OBVIOUS
    <2>2. Len(body) = lo + Len(t[i]) /\ \A k \in 1..Len(t[i]) : body[lo + k] = t[i][k]
      BY <1>6
    <2> HIDE DEF lo, hi, body
    <2>3. Len(body) = hi + Len(t[i + 1])
      <3>1. Len(t[i]) = size + Len(t[i + 1]) /\ Len(t[i + 1]) \in Nat
        BY <1>4
      <3>2. Len(body) = lo + Len(t[i])
        BY <2>2
      <3> DEFINE x == Len(t[i])
                 y == Len(t[i + 1])
                 z == Len(body)
      <3>3. x = size + y /\ y \in Nat /\ z = lo + x
        BY <3>1, <3>2
      <3> HIDE DEF x, y, z
      <3>4. z = hi + y
        BY <2>1, <3>3
      <3> QED BY <3>4 DEF x, y, z
    <2>4. ASSUME NEW k \in 1..Len(t[i + 1]) PROVE body[hi + k] = t[i + 1][k]
      <3>1. hi + k = lo + (size + k) /\ size + k \in 1..Len(t[i]) /\ ~(size + k <= size)
            /\ (size + k) - size = k
        BY <1>4, <2>1
      <3>2. t[i][size + k] = t[i + 1][k]
        BY <1>4, <3>1
      <3> QED BY <2>2, <3>1, <3>2
    <2> QED BY <1>4, <2>3, <2>4 DEF hi
  <1>7. 0..n \subseteq S
    <2> HIDE DEF S
    <2> QED BY <1>5, <1>6, NatSetTo
  <1>8. Len(body) = n * size + Len(rest) /\ \A j \in 1..Len(rest) : body[n * size + j] = rest[j]
    <2>1. At(n)
      BY <1>3, <1>7
    <2> QED BY <1>2, <2>1
  <1>9. ASSUME NEW i \in 1..n, NEW j \in 1..size PROVE body[(i - 1) * size + j] = f[i][j]
    <2>1. i - 1 \in 0..(n - 1) /\ (i - 1) + 1 = i /\ i - 1 \in 0..n
      OBVIOUS
    <2>2. At(i - 1)
      BY <1>7, <2>1
    <2>3. /\ Len(t[i - 1]) = size + Len(t[i]) /\ Len(t[i]) \in Nat
          /\ \A k \in 1..Len(t[i - 1]) : k <= size => t[i - 1][k] = f[i][k]
      BY <1>4, <2>1
    <2>4. j \in 1..Len(t[i - 1]) /\ j <= size
      BY <2>3
    <2> QED BY <2>2, <2>3, <2>4
  <1> HIDE DEF body
  <1>10. ReadCounted(<<n>> \o body, size) = Got(f, rest)
    <2>1. Placed(f, n, size, rest, body)
      BY <1>8, <1>9 DEF Placed
    <2> QED BY <1>3, <2>1, CountedAt
  <1> QED
    BY <1>1, <1>10 DEF body

\* Single fields are read back, each as a string of its own.
LEMMA ReadOnes ==
    ASSUME NEW F, Nat \subseteq F, NEW body \in Seq(F), NEW rest \in Seq(F)
    PROVE  ReadCounted(<<Len(body)>> \o (body \o rest), 1)
             = Got([i \in 1..Len(body) |-> <<body[i]>>], rest)
  <1> DEFINE n == Len(body)
             f == [i \in 1..n |-> <<body[i]>>]
             s == body \o rest
  <1>1. n \in Nat /\ Len(rest) \in Nat /\ \A i \in 1..n : body[i] \in F
    OBVIOUS
  <1>2. s \in Seq(F) /\ Len(s) = n + Len(rest)
        /\ \A i \in 1..(n + Len(rest)) : s[i] = IF i <= n THEN body[i] ELSE rest[i - n]
    BY ConcatProperties
  <1> HIDE DEF s, n
  <1>3. f \in [1..n -> Seq(F)] /\ \A i \in 1..n : Len(f[i]) = 1 /\ f[i][1] = body[i]
    BY <1>1
  <1> HIDE DEF f
  <1>4. Len(s) = n * 1 + Len(rest) /\ n \in F
    BY <1>1, <1>2
  <1>5. ASSUME NEW i \in 1..n, NEW j \in 1..1 PROVE s[(i - 1) * 1 + j] = f[i][j]
    <2>1. j = 1 /\ (i - 1) * 1 + j = i /\ i \in 1..(n + Len(rest)) /\ i <= n
      BY <1>1
    <2> QED BY <1>2, <1>3, <2>1
  <1>6. ASSUME NEW j \in 1..Len(rest) PROVE s[n * 1 + j] = rest[j]
    <2>1. n * 1 + j \in 1..(n + Len(rest)) /\ ~(n * 1 + j <= n) /\ (n * 1 + j) - n = j
      BY <1>1
    <2> QED BY <1>2, <2>1
  <1>7. ReadCounted(<<n>> \o s, 1) = Got(f, rest)
    <2>1. Placed(f, n, 1, rest, s)
      BY <1>3, <1>4, <1>5, <1>6 DEF Placed
    <2> QED BY <1>1, <1>2, <1>3, <1>4, <2>1, CountedAt
  <1> QED
    BY <1>7 DEF n, f, s

----------------------------------------------------------------------------
(***************************************************************************)
(* Transactions.                                                           *)
(***************************************************************************)

\* Four strings and what follows them, read from the front.
LEMMA RegroupedFour ==
    ASSUME NEW F, NEW a \in Seq(F), NEW b \in Seq(F), NEW c \in Seq(F), NEW d \in Seq(F),
           NEW g \in Seq(F)
    PROVE  /\ Cat(Cat(Cat(Cat(a, b), c), d), g) = Cat(a, Cat(b, Cat(c, Cat(d, g))))
           /\ Cat(Cat(Cat(a, b), c), d) \in Seq(F)
  <1>1. \A x, y, z \in Seq(F) : Cat(Cat(x, y), z) = Cat(x, Cat(y, z))
    BY CatAssociative
  <1>2. \A x, y \in Seq(F) : Cat(x, y) \in Seq(F)
    BY CatAssociative
  <1> DEFINE ab == Cat(a, b)
             abc == Cat(ab, c)
             dg == Cat(d, g)
             cdg == Cat(c, dg)
  <1>3. ab \in Seq(F) /\ dg \in Seq(F)
    BY <1>2
  <1>4. abc \in Seq(F) /\ cdg \in Seq(F)
    BY <1>2, <1>3
  <1>5. Cat(Cat(abc, d), g) = Cat(abc, dg)
    BY <1>1, <1>4
  <1>6. Cat(abc, dg) = Cat(ab, cdg)
    BY <1>1, <1>3
  <1>7. Cat(ab, cdg) = Cat(a, Cat(b, cdg))
    BY <1>1, <1>4
  <1>8. Cat(abc, d) \in Seq(F)
    BY <1>2, <1>4
  <1> QED
    BY <1>5, <1>6, <1>7, <1>8

\* Five strings and what follows them.
LEMMA RegroupedFive ==
    ASSUME NEW F, NEW a \in Seq(F), NEW b \in Seq(F), NEW c \in Seq(F), NEW d \in Seq(F),
           NEW e \in Seq(F), NEW g \in Seq(F)
    PROVE  /\ Cat(Cat(Cat(Cat(Cat(a, b), c), d), e), g) = Cat(a, Cat(b, Cat(c, Cat(d, Cat(e, g)))))
           /\ Cat(Cat(Cat(Cat(a, b), c), d), e) \in Seq(F)
  <1> DEFINE abcd == Cat(Cat(Cat(a, b), c), d)
             eg == Cat(e, g)
  <1>1. abcd \in Seq(F) /\ eg \in Seq(F)
    BY RegroupedFour, CatAssociative
  <1>2. Cat(abcd, eg) = Cat(a, Cat(b, Cat(c, Cat(d, eg))))
    <2> HIDE DEF eg
    <2> QED BY <1>1, RegroupedFour
  <1>3. Cat(Cat(abcd, e), g) = Cat(abcd, eg) /\ Cat(abcd, e) \in Seq(F)
    <2> HIDE DEF abcd
    <2> QED BY <1>1, CatAssociative
  <1> QED
    BY <1>2, <1>3

\* A transaction whose fields are of F.
TxOK(F, tx) ==
    /\ tx = [id |-> tx.id, inputs |-> tx.inputs, outputs |-> tx.outputs]
    /\ tx.id \in F
    /\ tx.inputs \in Seq([outpoint : F \X F, signer : F])
    /\ tx.outputs \in Seq([value : F, owner : F])

\* What EncodeTx writes, and what follows it, is read as the transaction and the rest.
LEMMA TxRead ==
    ASSUME NEW F, Nat \subseteq F, NEW tx, TxOK(F, tx), NEW rest \in Seq(F)
    PROVE  EncodeTx(tx) \in Seq(F) /\ ReadTransaction(EncodeTx(tx) \o rest) = Got(tx, rest)
  <1> DEFINE n == Len(tx.inputs)
             m == Len(tx.outputs)
             ins == [i \in DOMAIN tx.inputs |->
                        <<tx.inputs[i].outpoint[1], tx.inputs[i].outpoint[2], tx.inputs[i].signer>>]
             outs == [o \in DOMAIN tx.outputs |-> <<tx.outputs[o].value, tx.outputs[o].owner>>]
             A == FlattenSeq(ins)
             B == FlattenSeq(outs)
             N == <<n>>
             M == <<m>>
             T == <<1, tx.id>>
  <1>1. /\ tx.inputs \in Seq([outpoint : F \X F, signer : F])
        /\ tx.outputs \in Seq([value : F, owner : F])
        /\ tx.id \in F
        /\ tx = [id |-> tx.id, inputs |-> tx.inputs, outputs |-> tx.outputs]
    BY DEF TxOK
  <1>2. n \in Nat /\ m \in Nat /\ DOMAIN tx.inputs = 1..n /\ DOMAIN tx.outputs = 1..m /\ n \in F /\ m \in F
    BY <1>1
  <1>3. /\ \A i \in 1..n : /\ tx.inputs[i] = [outpoint |-> tx.inputs[i].outpoint, signer |-> tx.inputs[i].signer]
                           /\ tx.inputs[i].outpoint \in F \X F /\ tx.inputs[i].signer \in F
        /\ \A o \in 1..m : /\ tx.outputs[o] = [value |-> tx.outputs[o].value, owner |-> tx.outputs[o].owner]
                           /\ tx.outputs[o].value \in F /\ tx.outputs[o].owner \in F
    <2> DEFINE X == [outpoint : F \X F, signer : F]
               Y == [value : F, owner : F]
    <2>0. (\A i \in 1..n : tx.inputs[i] \in X) /\ \A o \in 1..m : tx.outputs[o] \in Y
      <3>1. tx.inputs \in Seq(X) /\ tx.outputs \in Seq(Y)
        BY <1>1
      <3> HIDE DEF X, Y
      <3> QED BY <1>2, <3>1
    <2>1. \A i \in 1..n : tx.inputs[i] \in [outpoint : F \X F, signer : F]
      BY <2>0
    <2>2. \A o \in 1..m : tx.outputs[o] \in [value : F, owner : F]
      BY <2>0
    <2>3. \A i \in 1..n : tx.inputs[i] = [outpoint |-> tx.inputs[i].outpoint, signer |-> tx.inputs[i].signer]
                          /\ tx.inputs[i].outpoint \in F \X F /\ tx.inputs[i].signer \in F
      BY <2>1
    <2>5. \A o \in 1..m : tx.outputs[o] = [value |-> tx.outputs[o].value, owner |-> tx.outputs[o].owner]
                          /\ tx.outputs[o].value \in F /\ tx.outputs[o].owner \in F
      BY <2>2
    <2> QED BY <2>3, <2>5
  <1>4. \A i \in 1..n : /\ tx.inputs[i].outpoint[1] \in F /\ tx.inputs[i].outpoint[2] \in F
                        /\ tx.inputs[i].outpoint = <<tx.inputs[i].outpoint[1], tx.inputs[i].outpoint[2]>>
    <2>1. \A p \in F \X F : p[1] \in F /\ p[2] \in F /\ p = <<p[1], p[2]>>
      OBVIOUS
    <2> QED BY <1>3, <2>1
  <1>5. ins \in [1..n -> Seq(F)] /\ \A i \in 1..n : Len(ins[i]) = 3
    <2> SUFFICES ASSUME NEW i \in 1..n PROVE ins[i] \in Seq(F) /\ Len(ins[i]) = 3
      BY <1>2
    <2> DEFINE x == tx.inputs[i].outpoint[1]
               y == tx.inputs[i].outpoint[2]
               z == tx.inputs[i].signer
    <2>1. x \in F /\ y \in F /\ z \in F /\ ins[i] = <<x, y, z>>
      BY <1>2, <1>3, <1>4
    <2> HIDE DEF x, y, z, ins
    <2> QED BY <2>1
  <1>6. outs \in [1..m -> Seq(F)] /\ \A o \in 1..m : Len(outs[o]) = 2
    <2> SUFFICES ASSUME NEW o \in 1..m PROVE outs[o] \in Seq(F) /\ Len(outs[o]) = 2
      BY <1>2
    <2> DEFINE x == tx.outputs[o].value
               y == tx.outputs[o].owner
    <2>1. x \in F /\ y \in F /\ outs[o] = <<x, y>>
      BY <1>2, <1>3
    <2> HIDE DEF x, y, outs
    <2> QED BY <2>1
  <1>7. EncodeTx(tx) = Cat(Cat(Cat(Cat(N, A), M), B), T)
    BY DEF EncodeTx, Cat
  <1>8. \A i \in 1..n : tx.inputs[i] = [outpoint |-> <<ins[i][1], ins[i][2]>>, signer |-> ins[i][3]]
    BY <1>2, <1>3, <1>4
  <1>9. \A o \in 1..m : tx.outputs[o] = [value |-> outs[o][1], owner |-> outs[o][2]]
    BY <1>2, <1>3
  <1> HIDE DEF ins, outs
  <1>10. A \in Seq(F) /\ B \in Seq(F) /\ N \in Seq(F) /\ M \in Seq(F) /\ T \in Seq(F)
    <2>1. A \in Seq(F) /\ B \in Seq(F)
      BY <1>2, <1>5, <1>6, Flattened
    <2>2. N \in Seq(F) /\ M \in Seq(F)
      BY <1>2
    <2>3. T \in Seq(F)
      BY <1>1
    <2> QED BY <2>1, <2>2, <2>3
  <1> DEFINE I == <<tx.id>>
             e3 == <<1>> \o (I \o rest)
             e2 == M \o (B \o e3)
  <1>11. T \o rest = e3 /\ I \in Seq(F) /\ e3 \in Seq(F) /\ Len(I) = 1
    <2>1. I \in Seq(F) /\ <<1>> \in Seq(F) /\ T = <<1>> \o I /\ Len(I) = 1
      BY <1>1
    <2> DEFINE O == <<1>>
    <2> HIDE DEF I, T, O
    <2>2. O \in Seq(F) /\ T = Cat(O, I)
      BY <2>1 DEF O, Cat
    <2>3. Cat(Cat(O, I), rest) = Cat(O, Cat(I, rest)) /\ Cat(I, rest) \in Seq(F)
      BY <2>1, <2>2, CatAssociative
    <2>4. Cat(O, Cat(I, rest)) \in Seq(F)
      BY <2>2, <2>3, CatAssociative
    <2> QED BY <2>1, <2>2, <2>3, <2>4 DEF Cat, O
  <1>12. EncodeTx(tx) \in Seq(F) /\ EncodeTx(tx) \o rest = N \o (A \o e2)
    <2> HIDE DEF A, B, N, M, T, e3
    <2>1. /\ Cat(Cat(Cat(Cat(Cat(N, A), M), B), T), rest) = Cat(N, Cat(A, Cat(M, Cat(B, Cat(T, rest)))))
          /\ Cat(Cat(Cat(Cat(N, A), M), B), T) \in Seq(F)
      BY <1>10, RegroupedFive
    <2>2. EncodeTx(tx) \in Seq(F) /\ EncodeTx(tx) \o rest = Cat(Cat(Cat(Cat(Cat(N, A), M), B), T), rest)
      BY <1>7, <2>1 DEF Cat
    <2>3. Cat(N, Cat(A, Cat(M, Cat(B, Cat(T, rest))))) = N \o (A \o e2)
      BY <1>11 DEF Cat
    <2> QED BY <2>1, <2>2, <2>3
  <1>13. e2 \in Seq(F)
    <2> HIDE DEF B, M, e3
    <2>1. Cat(B, e3) \in Seq(F)
      BY <1>10, <1>11, CatAssociative
    <2>2. Cat(M, Cat(B, e3)) \in Seq(F)
      BY <1>10, <2>1, CatAssociative
    <2> QED BY <2>2 DEF Cat
  <1>14. ReadCounted(N \o (A \o e2), 3) = Got(ins, e2)
    <2> DEFINE size == 3
    <2>1. /\ n \in Nat /\ n \in F /\ size \in Nat /\ ins \in [1..n -> Seq(F)]
          /\ \A i \in 1..n : Len(ins[i]) = size
      BY <1>2, <1>5
    <2> HIDE DEF e2, n, size
    <2>2. ReadCounted(<<n>> \o (FlattenSeq(ins) \o e2), size) = Got(ins, e2)
      BY <1>13, <2>1, ReadFlat
    <2> QED BY <2>2 DEF size
  <1>15. ReadCounted(e2, 2) = Got(outs, e3)
    <2> DEFINE size == 2
    <2>1. /\ m \in Nat /\ m \in F /\ size \in Nat /\ outs \in [1..m -> Seq(F)]
          /\ \A o \in 1..m : Len(outs[o]) = size
      BY <1>2, <1>6
    <2>0. e3 \in Seq(F)
      BY <1>11
    <2> HIDE DEF e3, m, size
    <2>2. ReadCounted(<<m>> \o (FlattenSeq(outs) \o e3), size) = Got(outs, e3)
      BY <2>0, <2>1, ReadFlat
    <2> QED BY <2>2 DEF size
  <1>16. ReadCounted(e3, 1) = Got([i \in 1..1 |-> <<tx.id>>], rest)
    <2>1. ReadCounted(<<Len(I)>> \o (I \o rest), 1) = Got([i \in 1..Len(I) |-> <<I[i]>>], rest)
      <3> HIDE DEF I
      <3> QED BY <1>11, ReadOnes
    <2>2. [i \in 1..1 |-> <<I[i]>>] = [i \in 1..1 |-> <<tx.id>>]
      OBVIOUS
    <2> HIDE DEF I
    <2> QED BY <1>11, <2>1, <2>2
  <1>17. /\ [i \in DOMAIN ins |-> [outpoint |-> <<ins[i][1], ins[i][2]>>, signer |-> ins[i][3]]] = tx.inputs
         /\ [o \in DOMAIN outs |-> [value |-> outs[o][1], owner |-> outs[o][2]]] = tx.outputs
    <2>1. DOMAIN ins = 1..n /\ DOMAIN outs = 1..m
      BY <1>5, <1>6
    <2>2. tx.inputs = [i \in 1..n |-> tx.inputs[i]] /\ tx.outputs = [o \in 1..m |-> tx.outputs[o]]
      BY <1>1, <1>2
    <2> HIDE DEF n, m
    <2>3. [i \in 1..n |-> [outpoint |-> <<ins[i][1], ins[i][2]>>, signer |-> ins[i][3]]]
            = [i \in 1..n |-> tx.inputs[i]]
      BY <1>8
    <2>4. [o \in 1..m |-> [value |-> outs[o][1], owner |-> outs[o][2]]] = [o \in 1..m |-> tx.outputs[o]]
      BY <1>9
    <2> QED BY <2>1, <2>2, <2>3, <2>4
  <1>18. ReadTransaction(N \o (A \o e2)) = Got(tx, rest)
    <2> DEFINE s == N \o (A \o e2)
               one == ReadCounted(s, 3)
               two == ReadCounted(one.rest, 2)
               tag == ReadCounted(two.rest, 1)
               in(g) == [outpoint |-> <<g[1], g[2]>>, signer |-> g[3]]
               out(g) == [value |-> g[1], owner |-> g[2]]
               read == [id |-> tag.value[1][1],
                        inputs |-> [i \in DOMAIN one.value |-> in(one.value[i])],
                        outputs |-> [o \in DOMAIN two.value |-> out(two.value[o])]]
    <2>1. ReadTransaction(s) = IF ~tag.ok THEN Eof ELSE Got(read, tag.rest)
      BY DEF ReadTransaction
    <2> HIDE DEF e2, e3, s
    <2>2. one.value = ins /\ one.rest = e2
      BY <1>14 DEF Got, s
    <2>3. two.value = outs /\ two.rest = e3
      <3> HIDE DEF one
      <3> QED BY <1>15, <2>2 DEF Got
    <2>4. tag.ok /\ tag.rest = rest /\ tag.value = [i \in 1..1 |-> <<tx.id>>]
      <3> HIDE DEF one, two
      <3> QED BY <1>16, <2>3 DEF Got
    <2>5. tag.value[1][1] = tx.id
      <3> HIDE DEF tag
      <3> QED BY <2>4
    <2>6. read = tx
      <3> HIDE DEF one, two, tag
      <3> QED BY <1>1, <1>17, <2>2, <2>3, <2>5
    <2> HIDE DEF read, tag
    <2>7. ReadTransaction(s) = Got(tx, rest)
      BY <2>1, <2>4, <2>6
    <2> QED BY <2>7 DEF s
  <1> QED
    BY <1>12, <1>18

----------------------------------------------------------------------------
(***************************************************************************)
(* Lists of transactions and of records.                                   *)
(***************************************************************************)

\* The readers of the two lists.
ReadOf(kind, s) == IF kind = "tx" THEN ReadTransaction(s) ELSE DecodeRecord(s)

\* The loop's step: one more element, if there is one.
ReadNext(kind, acc, i) ==
    IF acc.ok /\ ReadOf(kind, acc.rest).ok
    THEN Got(Append(acc.value, ReadOf(kind, acc.rest).value), ReadOf(kind, acc.rest).rest) ELSE Eof
Parsing == INSTANCE DataTheorems WITH FoldStep <- ReadNext

\* What the loop counts over, and the state it starts in.
Numbered(n) == [i \in 1..n |-> i]
Unread(s, rest) == Got(<<>>, s \o rest)

\* v[i] is read from f[i], whatever follows it.
Reads(F, kind, n, f, v) ==
    /\ n \in Nat /\ f \in [1..n -> Seq(F)] /\ v = [i \in 1..n |-> v[i]]
    /\ \A i \in 1..n, t \in Seq(F) : ReadOf(kind, f[i] \o t) = Got(v[i], t)

\* The loop reads all of them and leaves what follows them.
LEMMA ReadAll ==
    ASSUME NEW F, NEW kind, NEW n, NEW f, NEW v, Reads(F, kind, n, f, v), NEW rest \in Seq(F)
    PROVE  Parsing!Fold(kind, Unread(FlattenSeq(f), rest), Numbered(n)) = Got(v, rest)
  <1> DEFINE V == {v[i] : i \in 1..n}
  <1>0. n \in Nat /\ f \in [1..n -> Seq(F)] /\ v \in [1..n -> V]
    BY DEF Reads
  <1> HIDE DEF V
  <1>1. PICK t \in [0..n -> Seq(F)] : t[0] = FlattenSeq(f) \o rest /\ LeftOver(f, n, rest, t)
    BY <1>0, Flattened
  <1> DEFINE base == Unread(FlattenSeq(f), rest)
             upto(i) == [j \in 1..i |-> v[j]]
  <1>2. DOMAIN Numbered(n) = 1..n
    BY DEF Numbered
  <1>3. PICK h : Parsing!Steps(kind, base, Numbered(n), n, h) /\ Parsing!Fold(kind, base, Numbered(n)) = h[n]
    <2> DEFINE nums == Numbered(n)
    <2>1. DOMAIN nums = 1..n
      BY <1>2
    <2> HIDE DEF base, nums
    <2>2. \E h : Parsing!Steps(kind, base, nums, n, h) /\ Parsing!Fold(kind, base, nums) = h[n]
      BY <1>0, <2>1, Parsing!FoldSteps, ZenonT(30)
    <2> QED BY <2>2 DEF nums
  <1>4. h[0] = base /\ \A i \in 1..n : h[i] = ReadNext(kind, h[i - 1], Numbered(n)[i])
    BY <1>3 DEF Parsing!Steps
  <1> DEFINE S == {i \in Nat : h[i] = Got(upto(i), t[i])}
  <1>5. 0 \in S
    <2>1. upto(0) = <<>>
      OBVIOUS
    <2> QED BY <1>1, <1>4, <2>1 DEF Unread
  <1>6. ASSUME NEW i \in 0..(n - 1), i \in S PROVE i + 1 \in S
    <2>1. i + 1 \in 1..n /\ (i + 1) - 1 = i /\ i + 1 \in Nat /\ i + 1 \in 0..n /\ i \in Nat
      BY <1>0
    <2>2. h[i] = Got(upto(i), t[i])
      BY <1>6
    <2>3. t[i] = f[i + 1] \o t[i + 1] /\ t[i + 1] \in Seq(F)
      BY <1>1, <2>1 DEF LeftOver
    <2>4. ReadOf(kind, t[i]) = Got(v[i + 1], t[i + 1])
      BY <2>1, <2>3 DEF Reads
    <2>5. Append(upto(i), v[i + 1]) = upto(i + 1)
      <3>1. upto(i) \in Seq(V) /\ Len(upto(i)) = i /\ v[i + 1] \in V
        <4>1. \A j \in 1..i : j \in 1..n
          BY <1>0
        <4>2. upto(i) \in [1..i -> V]
          BY <1>0, <4>1
        <4> QED BY <1>0, <2>1, <4>2
      <3>2. Append(upto(i), v[i + 1]) = [j \in 1..(i + 1) |-> IF j = i + 1 THEN v[i + 1] ELSE upto(i)[j]]
        <4> DEFINE u == upto(i)
                   x == v[i + 1]
        <4>1. u \in Seq(V) /\ Len(u) = i /\ x \in V
          BY <3>1
        <4> HIDE DEF u, x
        <4>2. Append(u, x) \in Seq(V) /\ Len(Append(u, x)) = i + 1
              /\ \A j \in 1..(i + 1) : Append(u, x)[j] = IF j = i + 1 THEN x ELSE u[j]
          <5>1. Append(u, x) \in Seq(V) /\ Len(Append(u, x)) = Len(u) + 1
                /\ (\A j \in 1..Len(u) : Append(u, x)[j] = u[j]) /\ Append(u, x)[Len(u) + 1] = x
            BY <4>1, AppendProperties
          <5>2. \A j \in 1..(i + 1) : j = i + 1 \/ j \in 1..i
            BY <2>1
          <5> QED BY <4>1, <5>1, <5>2
        <4>3. Append(u, x) = [j \in 1..(i + 1) |-> Append(u, x)[j]]
          <5> DEFINE w == Append(u, x)
          <5>1. w \in Seq(V) /\ Len(w) = i + 1
            BY <4>2
          <5> HIDE DEF w
          <5>2. w = [j \in 1..(i + 1) |-> w[j]]
            BY <5>1
          <5> QED BY <5>2 DEF w
        <4>4. Append(u, x) = [j \in 1..(i + 1) |-> IF j = i + 1 THEN x ELSE u[j]]
          BY <4>2, <4>3
        <4> QED BY <4>4 DEF u, x
      <3>3. \A j \in 1..(i + 1) : (IF j = i + 1 THEN v[i + 1] ELSE upto(i)[j]) = v[j]
        <4>1. \A j \in 1..(i + 1) : j = i + 1 \/ j \in 1..i
          BY <2>1
        <4>2. \A j \in 1..i : upto(i)[j] = v[j]
          OBVIOUS
        <4> HIDE DEF upto
        <4> QED BY <4>1, <4>2
      <3> QED BY <3>2, <3>3
    <2> HIDE DEF upto
    <2>6. h[i + 1] = ReadNext(kind, h[i], Numbered(n)[i + 1])
      BY <1>4, <2>1
    <2>7. h[i].ok /\ h[i].value = upto(i) /\ h[i].rest = t[i]
      BY <2>2 DEF Got
    <2>8. ReadOf(kind, h[i].rest).ok /\ ReadOf(kind, h[i].rest).value = v[i + 1]
          /\ ReadOf(kind, h[i].rest).rest = t[i + 1]
      BY <2>4, <2>7 DEF Got
    <2>9. h[i + 1] = Got(upto(i + 1), t[i + 1])
      BY <2>5, <2>6, <2>7, <2>8 DEF ReadNext
    <2> QED BY <2>1, <2>9
  <1>7. 0..n \subseteq S
    <2> HIDE DEF S
    <2> QED BY <1>0, <1>5, <1>6, NatSetTo
  <1>8. h[n] = Got(upto(n), t[n])
    <2>1. n \in 0..n
      BY <1>0
    <2> QED BY <1>7, <2>1
  <1>9. upto(n) = v /\ t[n] = rest
    BY <1>0, <1>1 DEF LeftOver
  <1> QED
    BY <1>3, <1>8, <1>9

\* A list of transactions whose fields are in F.
TxsOK(F, txs) ==
    /\ Len(txs) \in Nat /\ txs = [i \in 1..Len(txs) |-> txs[i]]
    /\ \A i \in 1..Len(txs) : TxOK(F, txs[i])

\* What EncodeBlockPayload writes, DecodeBlockPayload reads.
LEMMA PayloadRead ==
    ASSUME NEW F, Nat \subseteq F, NEW txs, TxsOK(F, txs)
    PROVE  /\ EncodeBlockPayload(txs) \in Seq(F)
           /\ DecodeBlockPayload(EncodeBlockPayload(txs)) = Got(txs, <<>>)
  <1> DEFINE n == Len(txs)
             f == [i \in DOMAIN txs |-> EncodeTx(txs[i])]
             body == FlattenSeq(f)
             s == <<n>> \o body
  <1>1. n \in Nat /\ n \in F /\ DOMAIN txs = 1..n /\ (\A i \in 1..n : TxOK(F, txs[i]))
        /\ txs = [i \in 1..n |-> txs[i]]
    BY DEF TxsOK
  <1>2. \A i \in 1..n : /\ EncodeTx(txs[i]) \in Seq(F)
                        /\ \A t \in Seq(F) : ReadTransaction(EncodeTx(txs[i]) \o t) = Got(txs[i], t)
    <2> SUFFICES ASSUME NEW i \in 1..n
                 PROVE  /\ EncodeTx(txs[i]) \in Seq(F)
                        /\ \A t \in Seq(F) : ReadTransaction(EncodeTx(txs[i]) \o t) = Got(txs[i], t)
      OBVIOUS
    <2> DEFINE tx == txs[i]
    <2>1. TxOK(F, tx)
      BY <1>1
    <2> HIDE DEF tx
    <2>2. <<>> \in Seq(F)
      BY EmptySeq
    <2>3. EncodeTx(tx) \in Seq(F)
      BY <2>1, <2>2, TxRead
    <2>4. \A t \in Seq(F) : ReadTransaction(EncodeTx(tx) \o t) = Got(tx, t)
      BY <2>1, TxRead
    <2> QED BY <2>3, <2>4 DEF tx
  <1>3. f \in [1..n -> Seq(F)] /\ \A i \in 1..n : f[i] = EncodeTx(txs[i])
    BY <1>1, <1>2
  <1>4. EncodeBlockPayload(txs) = s
    BY DEF EncodeBlockPayload
  <1>5. Reads(F, "tx", n, f, txs)
    <2> HIDE DEF f
    <2> QED BY <1>1, <1>2, <1>3 DEF Reads, ReadOf
  <1> HIDE DEF f, n
  <1>6. body \in Seq(F)
    <2>1. <<>> \in Seq(F)
      BY EmptySeq
    <2> QED BY <1>1, <1>3, <2>1, Flattened
  <1>7. s \in Seq(F) /\ s # <<>> /\ Head(s) = n /\ Tail(s) = body
    <2> HIDE DEF body
    <2> QED BY <1>1, <1>6, First
  <1>8. Parsing!Fold("tx", Got(<<>>, body), Numbered(n)) = Got(txs, <<>>)
    <2>1. <<>> \in Seq(F)
      BY EmptySeq
    <2>2. Parsing!Fold("tx", Got(<<>>, body \o <<>>), Numbered(n)) = Got(txs, <<>>)
      <3> DEFINE kind == "tx"
                 none == <<>>
      <3>1. none \in Seq(F) /\ Reads(F, kind, n, f, txs)
        BY <1>5, <2>1
      <3> HIDE DEF kind, none
      <3>2. Parsing!Fold(kind, Unread(FlattenSeq(f), none), Numbered(n)) = Got(txs, none)
        BY <3>1, ReadAll
      <3> QED BY <3>2 DEF kind, none, Unread
    <2>3. body \o <<>> = body
      BY <1>6, ConcatEmptySeq
    <2> QED BY <2>2, <2>3
  <1> HIDE DEF s, body
  <1>9. DecodeBlockPayload(s) = Whole(Parsing!Fold("tx", Got(<<>>, Tail(s)), Numbered(Head(s))))
    BY <1>7 DEF DecodeBlockPayload, ReadNext, ReadOf, Numbered, Parsing!Fold, FoldLeft, MapThenFoldSet, Max, Parsing!Largest
  <1>10. Whole(Got(txs, <<>>)) = Got(txs, <<>>)
    BY DEF Whole, Got
  <1> QED
    BY <1>4, <1>7, <1>8, <1>9, <1>10

\* A set of ids in ascending order has each of them once.
LEMMA AscendingLists ==
    ASSUME NEW S \in SUBSET Nat, IsFiniteSet(S)
    PROVE  /\ Ascending(S) \in Seq(S) /\ Len(Ascending(S)) = Cardinality(S)
           /\ {Ascending(S)[i] : i \in 1..Cardinality(S)} = S
  <1> DEFINE n == Cardinality(S)
             R == {p \in S \X S : p[1] < p[2]}
             s == Ascending(S)
  <1>1. n \in Nat
    BY FS_CardinalityType
  <1>2. \A a, b \in S : <<a, b>> \in R <=> a < b
    OBVIOUS
  <1>3. StrictOrder(S, R)
    <2> HIDE DEF R
    <2>1. \A a \in S : a \in Nat
      OBVIOUS
    <2> QED BY <1>2, <2>1 DEF StrictOrder
  <1>4. \A a \in S : {b \in S : <<b, a>> \in R} = {b \in S : b < a}
    <2> HIDE DEF R
    <2> QED BY <1>2
  <1>5. s = Ranked(S, R)
    <2> DEFINE nth(i) == CHOOSE a \in S : Cardinality({b \in S : b < a}) = i - 1
               ranked(i) == CHOOSE a \in S : Cardinality({b \in S : <<b, a>> \in R}) = i - 1
    <2>1. \A i \in 1..n : nth(i) = ranked(i)
      <3> HIDE DEF R
      <3> QED BY <1>4
    <2>2. s = [i \in 1..n |-> nth(i)] /\ Ranked(S, R) = [i \in 1..n |-> ranked(i)]
      BY DEF Ascending, Nth, Ranked
    <2> HIDE DEF s, nth, ranked
    <2> QED BY <2>1, <2>2
  <1>6. Enumerates(s, S, R)
    <2> HIDE DEF R, s
    <2> QED BY <1>3, <1>5, RankEnumerates
  <1> HIDE DEF R, s
  <1>7. s \in [1..n -> S] /\ \A a \in S : \E i \in 1..n : s[i] = a
    BY <1>6 DEF Enumerates
  <1>8. s \in Seq(S) /\ Len(s) = n
    <2> HIDE DEF n
    <2> QED BY <1>1, <1>7
  <1>9. {s[i] : i \in 1..n} = S
    BY <1>7
  <1> QED
    BY <1>8, <1>9 DEF s, n

\* A record of a block whose fields are of F.
RecordOK(F, r) ==
    /\ r = [id |-> r.id, block |-> r.block]
    /\ r.block = [parents |-> r.block.parents, work |-> r.block.work,
                  timestamp |-> r.block.timestamp, txs |-> r.block.txs]
    /\ r.id \in F /\ r.block.work \in F /\ r.block.timestamp \in F
    /\ r.block.parents \subseteq Nat /\ IsFiniteSet(r.block.parents)
    /\ TxsOK(F, r.block.txs)

\* Work, timestamp, nonce, length, and what follows them.
RecordHeader(w, ts, id, len, s) == <<w, ts, id, len>> \o s

\* What the readers of the header must find.
ReadsHeader(F, h, w, ts, id, len, s) ==
    /\ h \in Seq(F) /\ h[1] = w /\ h[2] = ts /\ h[3] = id
    /\ SubSeq(h, 4, Len(h)) = <<len>> \o s

\* They are at the places where read_block looks for them.
LEMMA HeaderRead ==
    ASSUME NEW F, NEW w \in F, NEW ts \in F, NEW id \in F, NEW len \in F, NEW s \in Seq(F)
    PROVE  ReadsHeader(F, RecordHeader(w, ts, id, len, s), w, ts, id, len, s)
  <1> DEFINE h == RecordHeader(w, ts, id, len, s)
             q == <<w, ts, id, len>>
             e == <<len>> \o s
  <1>0. h = q \o s
    BY DEF RecordHeader
  <1>1. q \in Seq(F) /\ Len(q) = 4 /\ q[1] = w /\ q[2] = ts /\ q[3] = id /\ q[4] = len /\ Len(s) \in Nat
    OBVIOUS
  <1> HIDE DEF q
  <1>2. h \in Seq(F) /\ Len(h) = 4 + Len(s)
        /\ \A i \in 1..(4 + Len(s)) : h[i] = IF i <= 4 THEN q[i] ELSE s[i - 4]
    <2>1. h \in Seq(F) /\ Len(h) = Len(q) + Len(s)
          /\ \A i \in 1..(Len(q) + Len(s)) : h[i] = IF i <= Len(q) THEN q[i] ELSE s[i - Len(q)]
      <3> HIDE DEF h
      <3>1. q \o s \in Seq(F) /\ Len(q \o s) = Len(q) + Len(s)
            /\ \A i \in 1..(Len(q) + Len(s)) : (q \o s)[i] = IF i <= Len(q) THEN q[i] ELSE s[i - Len(q)]
        BY <1>1, ConcatProperties
      <3> QED BY <1>0, <3>1
    <2> HIDE DEF h
    <2> QED BY <1>1, <2>1
  <1>3. e \in Seq(F) /\ Len(e) = 1 + Len(s) /\ e[1] = len /\ \A i \in 1..Len(s) : e[1 + i] = s[i]
    <2>1. e \in Seq(F) /\ e # <<>> /\ Head(e) = len /\ Len(e) = 1 + Len(s)
          /\ \A i \in 1..Len(s) : e[1 + i] = s[i]
      BY First
    <2> HIDE DEF e
    <2>2. e[1] = len
      BY <2>1
    <2> QED BY <2>1, <2>2
  <1> HIDE DEF e, h
  <1>4. h[1] = w /\ h[2] = ts /\ h[3] = id /\ h[4] = len
    <2>1. 1 \in 1..(4 + Len(s)) /\ 2 \in 1..(4 + Len(s)) /\ 3 \in 1..(4 + Len(s)) /\ 4 \in 1..(4 + Len(s))
      BY <1>1
    <2> QED BY <1>1, <1>2, <2>1
  <1>5. \A j \in 1..Len(e) : h[3 + j] = e[j]
    <2> SUFFICES ASSUME NEW j \in 1..Len(e) PROVE h[3 + j] = e[j]
      OBVIOUS
    <2>1. CASE j = 1
      BY <1>3, <1>4, <2>1
    <2>2. CASE j # 1
      <3> DEFINE i == j - 1
      <3>1. i \in 1..Len(s) /\ j = 1 + i /\ 3 + j \in 1..(4 + Len(s)) /\ ~(3 + j <= 4) /\ (3 + j) - 4 = i
        BY <1>1, <1>3, <2>2
      <3> HIDE DEF i
      <3>2. h[3 + j] = s[i]
        BY <1>2, <3>1
      <3> QED BY <1>3, <3>1, <3>2
    <2> QED BY <2>1, <2>2
  <1>6. SubSeq(h, 3 + 1, Len(h)) = e
    <2> DEFINE lo == 3
               hi == Len(h)
    <2>1. lo \in Nat /\ hi \in Nat /\ hi = lo + Len(e) /\ hi <= Len(h) /\ \A j \in 1..Len(e) : h[lo + j] = e[j]
      BY <1>1, <1>2, <1>3, <1>5
    <2> HIDE DEF lo, hi
    <2>2. SubSeq(h, lo + 1, hi) = e
      BY <1>2, <1>3, <2>1, Slice
    <2> QED BY <2>2 DEF lo, hi
  <1>7. h \in Seq(F) /\ h[1] = w /\ h[2] = ts /\ h[3] = id /\ SubSeq(h, 4, Len(h)) = e
    BY <1>2, <1>4, <1>6
  <1> QED
    BY <1>7 DEF e, h, ReadsHeader

\* What EncodeRecord writes, and what follows it, is read as the record and the rest.
LEMMA RecordRead ==
    ASSUME NEW F, Nat \subseteq F, NEW r, RecordOK(F, r), NEW rest \in Seq(F)
    PROVE  EncodeRecord(r) \in Seq(F) /\ DecodeRecord(EncodeRecord(r) \o rest) = Got(r, rest)
  <1> DEFINE block == r.block
             S == block.parents
             c == Cardinality(S)
             asc == Ascending(S)
             P == EncodeBlockPayload(block.txs)
             len == Len(P)
             C == <<c>>
             H == <<block.work, block.timestamp, r.id, len>>
             e2 == <<len>> \o (P \o rest)
             header == H \o (P \o rest)
             s == C \o (asc \o header)
             ids == [i \in 1..c |-> <<asc[i]>>]
             bytes == [i \in 1..len |-> <<P[i]>>]
  <1>1. /\ r = [id |-> r.id, block |-> block] /\ r.id \in F /\ block.work \in F /\ block.timestamp \in F
        /\ block = [parents |-> S, work |-> block.work, timestamp |-> block.timestamp, txs |-> block.txs]
        /\ S \in SUBSET Nat /\ IsFiniteSet(S) /\ TxsOK(F, block.txs)
    BY DEF RecordOK
  <1>2. asc \in Seq(F) /\ Len(asc) = c /\ {asc[i] : i \in 1..c} = S /\ c \in Nat
    <2> HIDE DEF S
    <2>1. asc \in Seq(S) /\ Len(asc) = c /\ {asc[i] : i \in 1..c} = S
      BY <1>1, AscendingLists
    <2>2. c \in Nat
      BY <1>1, FS_CardinalityType
    <2>3. S \subseteq F
      BY <1>1
    <2> HIDE DEF asc
    <2>4. asc \in Seq(F)
      BY <2>1, <2>3
    <2> QED BY <2>1, <2>2, <2>4
  <1>3. P \in Seq(F) /\ DecodeBlockPayload(P) = Got(block.txs, <<>>)
    <2> DEFINE txs == block.txs
    <2>1. TxsOK(F, txs)
      BY <1>1
    <2> HIDE DEF txs
    <2>2. EncodeBlockPayload(txs) \in Seq(F) /\ DecodeBlockPayload(EncodeBlockPayload(txs)) = Got(txs, <<>>)
      BY <2>1, PayloadRead
    <2> QED BY <2>2 DEF txs
  <1> HIDE DEF P
  <1>4. len \in Nat /\ len \in F /\ P \o rest \in Seq(F) /\ C \in Seq(F) /\ H \in Seq(F)
    <2>1. len \in Nat /\ len \in F
      BY <1>3
    <2>2. P \o rest \in Seq(F)
      BY <1>3, ConcatProperties
    <2>3. C \in Seq(F)
      BY <1>2
    <2> HIDE DEF len
    <2>4. H \in Seq(F)
      BY <1>1, <2>1
    <2> QED BY <2>1, <2>2, <2>3, <2>4
  <1>5. /\ header \in Seq(F) /\ header[1] = block.work /\ header[2] = block.timestamp
        /\ header[3] = r.id /\ SubSeq(header, 4, Len(header)) = e2
    <2> DEFINE w == block.work
               ts == block.timestamp
               id == r.id
               tail == P \o rest
    <2>1. w \in F /\ ts \in F /\ id \in F /\ len \in F /\ tail \in Seq(F)
      BY <1>1, <1>4
    <2>2. header = RecordHeader(w, ts, id, len, tail)
      BY DEF RecordHeader
    <2> HIDE DEF w, ts, id, len, tail, header
    <2>3. /\ header \in Seq(F) /\ header[1] = w /\ header[2] = ts /\ header[3] = id
          /\ SubSeq(header, 4, Len(header)) = <<len>> \o tail
      <3>1. ReadsHeader(F, RecordHeader(w, ts, id, len, tail), w, ts, id, len, tail)
        BY <2>1, HeaderRead
      <3>2. ReadsHeader(F, header, w, ts, id, len, tail)
        BY <2>2, <3>1
      <3> QED BY <3>2 DEF ReadsHeader
    <2> QED BY <2>3 DEF w, ts, id, tail
  <1>6. EncodeRecord(r) = Cat(Cat(Cat(C, asc), H), P)
    BY DEF EncodeRecord, Cat, P
  <1>7. EncodeRecord(r) \in Seq(F) /\ EncodeRecord(r) \o rest = s
    <2> HIDE DEF C, asc, H
    <2>1. /\ Cat(Cat(Cat(Cat(C, asc), H), P), rest) = Cat(C, Cat(asc, Cat(H, Cat(P, rest))))
          /\ Cat(Cat(Cat(C, asc), H), P) \in Seq(F)
      BY <1>2, <1>3, <1>4, RegroupedFour
    <2>2. EncodeRecord(r) \in Seq(F) /\ EncodeRecord(r) \o rest = Cat(Cat(Cat(Cat(C, asc), H), P), rest)
      BY <1>6, <2>1 DEF Cat
    <2>3. Cat(C, Cat(asc, Cat(H, Cat(P, rest)))) = s
      BY DEF Cat
    <2> QED BY <2>1, <2>2, <2>3
  <1>8. ReadCounted(s, 1) = Got(ids, header)
    <2> HIDE DEF asc, header
    <2>1. ReadCounted(<<Len(asc)>> \o (asc \o header), 1) = Got([i \in 1..Len(asc) |-> <<asc[i]>>], header)
      BY <1>2, <1>5, ReadOnes
    <2> QED BY <1>2, <2>1
  <1>9. ReadCounted(e2, 1) = Got(bytes, rest)
    BY <1>3, ReadOnes
  <1>10. {p[1] : p \in Range(ids)} = S
    <2> HIDE DEF asc, c, S
    <2>1. DOMAIN ids = 1..c /\ \A i \in 1..c : ids[i][1] = asc[i]
      OBVIOUS
    <2> HIDE DEF ids
    <2>2. Range(ids) = {ids[i] : i \in 1..c}
      BY <2>1 DEF Range
    <2>3. {p[1] : p \in {ids[i] : i \in 1..c}} = {asc[i] : i \in 1..c}
      BY <2>1
    <2> QED BY <1>2, <2>2, <2>3
  <1>11. DOMAIN bytes = 1..len /\ [i \in 1..len |-> bytes[i][1]] = P
    <2>1. P = [i \in 1..len |-> P[i]]
      BY <1>3
    <2> HIDE DEF len
    <2>2. DOMAIN bytes = 1..len /\ \A i \in 1..len : bytes[i][1] = P[i]
      OBVIOUS
    <2> HIDE DEF bytes
    <2> QED BY <2>1, <2>2
  <1>12. DecodeRecord(s) = Got(r, rest)
    <2> DEFINE parents == ReadCounted(s, 1)
               payload == ReadCounted(SubSeq(parents.rest, 4, Len(parents.rest)), 1)
               txs == DecodeBlockPayload([i \in DOMAIN payload.value |-> payload.value[i][1]])
               read == [id |-> parents.rest[3],
                        block |-> [parents |-> {p[1] : p \in Range(parents.value)},
                                   work |-> parents.rest[1], timestamp |-> parents.rest[2],
                                   txs |-> txs.value]]
    <2>1. DecodeRecord(s) = IF ~payload.ok \/ ~txs.ok THEN Eof ELSE Got(read, payload.rest)
      BY DEF DecodeRecord
    <2> HIDE DEF s, header, e2, asc, c, S, len, ids, bytes
    <2>2. parents.value = ids /\ parents.rest = header
      BY <1>8 DEF Got
    <2>3. payload.ok /\ payload.value = bytes /\ payload.rest = rest
      <3> HIDE DEF parents
      <3>1. SubSeq(parents.rest, 4, Len(parents.rest)) = e2
        BY <1>5, <2>2
      <3>2. payload = Got(bytes, rest)
        BY <1>9, <3>1
      <3> HIDE DEF payload
      <3> QED BY <3>2 DEF Got
    <2>4. txs = Got(block.txs, <<>>)
      <3> HIDE DEF payload
      <3>1. DOMAIN payload.value = 1..len
        BY <1>11, <2>3
      <3>2. [i \in DOMAIN payload.value |-> payload.value[i][1]] = P
        BY <1>11, <2>3, <3>1
      <3> QED BY <1>3, <3>2
    <2>5. txs.ok /\ txs.value = block.txs
      <3> HIDE DEF txs
      <3> QED BY <2>4 DEF Got
    <2>6. read = r
      <3> HIDE DEF parents, txs
      <3>1. {p[1] : p \in Range(parents.value)} = S
        BY <1>10, <2>2
      <3> QED BY <1>1, <1>5, <2>2, <2>5, <3>1
    <2> HIDE DEF read, txs, payload
    <2> QED BY <2>1, <2>3, <2>5, <2>6
  <1> QED
    BY <1>7, <1>12

\* A list of n records whose fields are of F.
RecordList(F, n, log) ==
    /\ Nat \subseteq F /\ n \in Nat /\ log = [i \in 1..n |-> log[i]]
    /\ \A i \in 1..n : RecordOK(F, log[i])

\* What encode_records writes: a count, and one record after the other.
ListedAs(F, n, log, f) ==
    /\ EncodeRecords(log) = <<n>> \o FlattenSeq(f) /\ FlattenSeq(f) \in Seq(F)
    /\ Reads(F, "record", n, f, log) /\ \A i \in 1..n : f[i] = EncodeRecord(log[i])

LEMMA RecordsAsList ==
    ASSUME NEW F, NEW n, NEW log, RecordList(F, n, log)
    PROVE  \E f : ListedAs(F, n, log, f)
  <1> USE DEF RecordList
  <1>0. PICK f : f = [i \in DOMAIN log |-> EncodeRecord(log[i])]
    OBVIOUS
  <1> DEFINE none == <<>>
             kind == "record"
  <1>1. DOMAIN log = 1..n /\ Len(log) = n /\ none \in Seq(F)
    <2>1. log \in Seq({log[i] : i \in 1..n}) /\ DOMAIN log = 1..n
      OBVIOUS
    <2> QED BY <2>1, EmptySeq
  <1>2. \A i \in 1..n : /\ EncodeRecord(log[i]) \in Seq(F)
                        /\ \A t \in Seq(F) : DecodeRecord(EncodeRecord(log[i]) \o t) = Got(log[i], t)
    <2> SUFFICES ASSUME NEW i \in 1..n
                 PROVE  /\ EncodeRecord(log[i]) \in Seq(F)
                        /\ \A t \in Seq(F) : DecodeRecord(EncodeRecord(log[i]) \o t) = Got(log[i], t)
      OBVIOUS
    <2> DEFINE r == log[i]
    <2>1. RecordOK(F, r)
      OBVIOUS
    <2> HIDE DEF r, none
    <2>2. EncodeRecord(r) \in Seq(F)
      BY <1>1, <2>1, RecordRead
    <2>3. \A t \in Seq(F) : DecodeRecord(EncodeRecord(r) \o t) = Got(r, t)
      BY <2>1, RecordRead
    <2> QED BY <2>2, <2>3 DEF r
  <1>3. f \in [1..n -> Seq(F)] /\ \A i \in 1..n : f[i] = EncodeRecord(log[i])
    BY <1>0, <1>1, <1>2
  <1>4. EncodeRecords(log) = <<n>> \o FlattenSeq(f)
    BY <1>0, <1>1 DEF EncodeRecords
  <1>5. Reads(F, kind, n, f, log)
    <2>1. \A t : ReadOf(kind, t) = DecodeRecord(t)
      BY DEF ReadOf
    <2> HIDE DEF kind
    <2> QED BY <1>2, <1>3, <2>1 DEF Reads
  <1> HIDE DEF none
  <1>6. FlattenSeq(f) \in Seq(F)
    BY <1>1, <1>3, Flattened
  <1> QED
    BY <1>3, <1>4, <1>5, <1>6 DEF ListedAs

\* What encode_records writes, decode_records reads, whole and with nothing left over,
\* for every list of records.
THEOREM RecordsRead ==
    ASSUME NEW F, NEW n, NEW log, RecordList(F, n, log)
    PROVE  /\ EncodeRecords(log) \in Seq(F)
           /\ DecodeRecords(EncodeRecords(log)) = Got(log, <<>>)
  <1>0. PICK f : ListedAs(F, n, log, f)
    BY RecordsAsList
  <1> DEFINE body == FlattenSeq(f)
             s == <<n>> \o body
             none == <<>>
             kind == "record"
  <1>1. n \in F /\ n \in Nat /\ none \in Seq(F)
    BY EmptySeq DEF RecordList
  <1>2. EncodeRecords(log) = s /\ body \in Seq(F) /\ Reads(F, kind, n, f, log)
    BY <1>0 DEF ListedAs
  <1> HIDE DEF none
  <1>3. s \in Seq(F) /\ s # <<>> /\ Head(s) = n /\ Tail(s) = body
    <2> HIDE DEF body
    <2> QED BY <1>1, <1>2, First
  <1>4. Parsing!Fold(kind, Got(none, body), Numbered(n)) = Got(log, none)
    <2> HIDE DEF kind
    <2>1. Parsing!Fold(kind, Unread(FlattenSeq(f), none), Numbered(n)) = Got(log, none)
      BY <1>1, <1>2, ReadAll
    <2>2. Unread(FlattenSeq(f), none) = Got(none, body)
      <3>1. body \o none = body
        BY <1>2, ConcatEmptySeq DEF none
      <3> QED BY <3>1 DEF Unread, none
    <2> QED BY <2>1, <2>2
  <1> HIDE DEF s, body
  <1>5. DecodeRecords(s) = Whole(Parsing!Fold(kind, Got(none, Tail(s)), Numbered(Head(s))))
    BY <1>3 DEF DecodeRecords, ReadNext, ReadOf, Numbered, Parsing!Fold, FoldLeft, MapThenFoldSet, Max, Parsing!Largest, none
  <1>6. Whole(Got(log, none)) = Got(log, none)
    BY DEF Whole, Got, none
  <1> QED
    BY <1>2, <1>3, <1>4, <1>5, <1>6 DEF none

\* A header is told from what follows it.
LEMMA HeaderSplit ==
    ASSUME NEW F, NEW h \in Seq(F), NEW s \in Seq(F)
    PROVE  IsPrefix(h, h \o s) /\ SubSeq(h \o s, 1 + Len(h), Len(h \o s)) = s
  <1> DEFINE t == h \o s
             n == Len(h)
             hi == Len(t)
  <1>1. /\ t \in Seq(F) /\ Len(t) = n + Len(s) /\ n \in Nat /\ Len(s) \in Nat
        /\ \A i \in 1..(n + Len(s)) : t[i] = IF i <= n THEN h[i] ELSE s[i - n]
    BY ConcatProperties
  <1> HIDE DEF t, n
  <1>2. SubSeq(t, n + 1, hi) = s
    <2>1. hi \in Nat /\ hi = n + Len(s) /\ hi <= Len(t)
      BY <1>1
    <2>2. \A j \in 1..Len(s) : t[n + j] = s[j]
      <3> SUFFICES ASSUME NEW j \in 1..Len(s) PROVE t[n + j] = s[j]
        OBVIOUS
      <3>1. n + j \in 1..(n + Len(s)) /\ ~(n + j <= n) /\ (n + j) - n = j
        BY <1>1
      <3> QED BY <1>1, <3>1
    <2> HIDE DEF hi
    <2> QED BY <1>1, <2>1, <2>2, Slice
  <1>3. SubSeq(t, 0 + 1, n) = h
    <2> DEFINE zero == 0
    <2>1. zero \in Nat /\ n = zero + Len(h) /\ n <= Len(t) /\ \A j \in 1..Len(h) : t[zero + j] = h[j]
      BY <1>1 DEF n
    <2> HIDE DEF zero
    <2>2. SubSeq(t, zero + 1, n) = h
      BY <1>1, <2>1, Slice
    <2> QED BY <2>2 DEF zero
  <1>4. n + 1 = 1 + n /\ 0 + 1 = 1 /\ n <= Len(t)
    BY <1>1
  <1>5. SubSeq(h, 1, n) = h
    <2> DEFINE zero == 0
    <2>1. zero \in Nat /\ n \in Nat /\ n = zero + Len(h) /\ n <= Len(h) /\ \A j \in 1..Len(h) : h[zero + j] = h[j]
      BY <1>1 DEF n
    <2> HIDE DEF zero
    <2>2. SubSeq(h, zero + 1, n) = h
      BY <2>1, Slice
    <2>3. zero + 1 = 1
      BY DEF zero
    <2> QED BY <2>2, <2>3
  <1>6. IsPrefix(h, t)
    BY <1>1, <1>3, <1>4, <1>5 DEF IsPrefix, n
  <1>7. SubSeq(t, 1 + n, Len(t)) = s
    BY <1>2, <1>4
  <1> QED
    BY <1>6, <1>7 DEF t, n

----------------------------------------------------------------------------
(***************************************************************************)
(* Strings that were cut: what is left of one that a file was being        *)
(* written with, or that a connection broke in.                            *)
(***************************************************************************)

\* p is s, cut somewhere before its end.
CutOff(s, p) == \E k \in 0..(Len(s) - 1) : p = SubSeq(s, 1, k)

\* It is the beginning of s.
LEMMA CutIs ==
    ASSUME NEW F, NEW s \in Seq(F), NEW p, CutOff(s, p)
    PROVE  p \in Seq(F) /\ Len(p) < Len(s) /\ Len(p) \in Nat /\ \A i \in 1..Len(p) : p[i] = s[i]
  <1>1. PICK k \in 0..(Len(s) - 1) : p = SubSeq(s, 1, k)
    BY DEF CutOff
  <1>2. Len(s) \in Nat /\ k \in Nat
    OBVIOUS
  <1>3. SubSeq(s, 1, k) \in Seq(F) /\ Len(SubSeq(s, 1, k)) = k
        /\ \A i \in 1..k : SubSeq(s, 1, k)[i] = s[i]
    <2>1. \A i \in 1..k : s[i] \in F
      BY <1>2
    <2> QED BY <1>2, <2>1, SubSeqProperties
  <1> QED
    BY <1>1, <1>2, <1>3

\* And any shorter beginning of s is s cut.
LEMMA IsCut ==
    ASSUME NEW F, NEW s \in Seq(F), NEW p \in Seq(F), Len(p) < Len(s), \A i \in 1..Len(p) : p[i] = s[i]
    PROVE  CutOff(s, p)
  <1> DEFINE lo == 0
             k == Len(p)
  <1>1. k \in 0..(Len(s) - 1) /\ lo \in Nat /\ k \in Nat /\ k = lo + Len(p) /\ k <= Len(s)
        /\ \A i \in 1..Len(p) : s[lo + i] = p[i]
    OBVIOUS
  <1> HIDE DEF lo, k
  <1>2. SubSeq(s, lo + 1, k) = p
    BY <1>1, Slice
  <1>3. lo + 1 = 1
    BY DEF lo
  <1> QED
    BY <1>1, <1>2, <1>3 DEF CutOff

\* Of two strings either the first is cut, or the second.
CutLater(F, a, b, p) == \E q \in Seq(F) : CutOff(b, q) /\ p = a \o q

LEMMA CutSplit ==
    ASSUME NEW F, NEW a \in Seq(F), NEW b \in Seq(F), NEW s, s = Cat(a, b), NEW p, CutOff(s, p)
    PROVE  CutOff(a, p) \/ CutLater(F, a, b, p)
  <1> DEFINE n == Len(a)
  <1>1. /\ s \in Seq(F) /\ Len(s) = n + Len(b) /\ n \in Nat /\ Len(b) \in Nat
        /\ \A i \in 1..(n + Len(b)) : s[i] = IF i <= n THEN a[i] ELSE b[i - n]
    BY ConcatProperties DEF Cat
  <1>2. p \in Seq(F) /\ Len(p) < Len(s) /\ Len(p) \in Nat /\ \A i \in 1..Len(p) : p[i] = s[i]
    BY <1>1, CutIs
  <1>3. CASE Len(p) < n
    <2>1. \A i \in 1..Len(p) : p[i] = a[i]
      BY <1>1, <1>2, <1>3
    <2> QED BY <1>2, <1>3, <2>1, IsCut
  <1>4. CASE Len(p) >= n
    <2> DEFINE m == Len(p) - n
               r == [j \in 1..m |-> p[n + j]]
    <2>1. m \in Nat /\ m < Len(b) /\ Len(p) = n + m
      BY <1>1, <1>2, <1>4
    <2>2. \A j \in 1..m : n + j \in 1..Len(p) /\ p[n + j] \in F /\ p[n + j] = b[j]
      <3> SUFFICES ASSUME NEW j \in 1..m PROVE n + j \in 1..Len(p) /\ p[n + j] \in F /\ p[n + j] = b[j]
        OBVIOUS
      <3>1. n + j \in 1..Len(p) /\ n + j \in 1..(n + Len(b)) /\ ~(n + j <= n) /\ (n + j) - n = j
        BY <1>1, <2>1
      <3> HIDE DEF m
      <3> QED BY <1>1, <1>2, <3>1
    <2> HIDE DEF m
    <2>3. r \in Seq(F) /\ Len(r) = m /\ \A j \in 1..m : r[j] = b[j]
      <3> HIDE DEF n
      <3>1. r \in [1..m -> F] /\ \A j \in 1..m : r[j] = b[j]
        BY <2>2
      <3> HIDE DEF r
      <3> QED BY <2>1, <3>1
    <2> HIDE DEF r
    <2>4. CutOff(b, r)
      BY <2>1, <2>3, IsCut
    <2>5. p = a \o r
      <3> DEFINE t == a \o r
      <3>1. t \in Seq(F) /\ Len(t) = n + m
            /\ \A i \in 1..(n + m) : t[i] = IF i <= n THEN a[i] ELSE r[i - n]
        BY <2>3, ConcatProperties
      <3> HIDE DEF t
      <3>2. \A i \in 1..(n + m) : t[i] = p[i]
        <4> SUFFICES ASSUME NEW i \in 1..(n + m) PROVE t[i] = p[i]
          OBVIOUS
        <4>1. i \in 1..(n + Len(b)) /\ i \in 1..Len(p)
          BY <1>1, <2>1
        <4>2. p[i] = IF i <= n THEN a[i] ELSE b[i - n]
          BY <1>1, <1>2, <4>1
        <4>3. ~(i <= n) => i - n \in 1..m
          BY <1>1, <2>1
        <4> QED BY <2>3, <3>1, <4>2, <4>3
      <3>3. p = t
        BY <1>2, <2>1, <3>1, <3>2, SeqEqual
      <3> QED BY <3>3 DEF t
    <2> QED BY <2>3, <2>4, <2>5 DEF CutLater
  <1>5. Len(p) < n \/ Len(p) >= n
    BY <1>1, <1>2
  <1> QED
    BY <1>3, <1>4, <1>5

\* What was counted and then cut is not read.
LEMMA CountedCut ==
    ASSUME NEW F, NEW body \in Seq(F), Nat \subseteq F, NEW p, CutOff(<<Len(body)>> \o body, p)
    PROVE  ReadCounted(p, 1) = Eof
  <1> DEFINE n == Len(body)
             s == <<n>> \o body
  <1>1. n \in F /\ n \in Nat
    OBVIOUS
  <1> HIDE DEF n
  <1>2. s \in Seq(F) /\ s # <<>> /\ Head(s) = n /\ Len(s) = 1 + n
    BY <1>1, First DEF n
  <1>3. p \in Seq(F) /\ Len(p) < Len(s) /\ Len(p) \in Nat /\ \A i \in 1..Len(p) : p[i] = s[i]
    <2>1. CutOff(s, p)
      BY DEF n
    <2> HIDE DEF s
    <2> QED BY <1>2, <2>1, CutIs
  <1> HIDE DEF s
  <1>4. CASE p = <<>>
    BY <1>4 DEF ReadCounted
  <1>5. CASE p # <<>>
    <2>1. Head(p) = n
      <3>1. Head(p) = p[1] /\ 1 \in 1..Len(p) /\ Head(s) = s[1]
        BY <1>2, <1>3, <1>5
      <3> QED BY <1>2, <1>3, <3>1
    <2>2. Len(p) - 1 < Head(p) * 1
      BY <1>1, <1>2, <1>3, <2>1
    <2> QED BY <2>2 DEF ReadCounted
  <1> QED
    BY <1>4, <1>5

\* A record that was cut is not read.
LEMMA RecordCut ==
    ASSUME NEW F, Nat \subseteq F, NEW r, RecordOK(F, r), NEW p, CutOff(EncodeRecord(r), p)
    PROVE  ~DecodeRecord(p).ok
  <1> DEFINE block == r.block
             S == block.parents
             asc == Ascending(S)
             P == EncodeBlockPayload(block.txs)
             len == Len(P)
             A == <<Len(asc)>> \o asc
             H == <<block.work, block.timestamp, r.id>>
             B == <<len>> \o P
  <1>1. /\ r.id \in F /\ block.work \in F /\ block.timestamp \in F
        /\ S \in SUBSET Nat /\ IsFiniteSet(S) /\ TxsOK(F, block.txs)
    BY DEF RecordOK
  <1>2. asc \in Seq(F) /\ Len(asc) = Cardinality(S)
    <2>1. asc \in Seq(S) /\ Len(asc) = Cardinality(S) /\ S \subseteq F
      BY <1>1, AscendingLists
    <2> HIDE DEF asc, S
    <2> QED BY <2>1
  <1>3. P \in Seq(F)
    <2> DEFINE txs == block.txs
    <2>1. TxsOK(F, txs)
      BY <1>1
    <2> HIDE DEF txs
    <2> QED BY <2>1, PayloadRead DEF txs
  <1> HIDE DEF asc, P, S, block
  <1>4. len \in Nat /\ len \in F /\ Len(asc) \in Nat /\ Len(asc) \in F
    BY <1>2, <1>3
  <1>5. A \in Seq(F) /\ H \in Seq(F) /\ B \in Seq(F) /\ Len(H) = 3
    <2> HIDE DEF len
    <2>1. H \in Seq(F) /\ Len(H) = 3
      BY <1>1
    <2> QED BY <1>2, <1>3, <1>4, <2>1, First
  <1>6. EncodeRecord(r) = A \o (H \o B)
    <2> DEFINE C == <<Len(asc)>>
               I == <<block.work, block.timestamp, r.id, len>>
    <2>1. EncodeRecord(r) = Cat(Cat(Cat(C, asc), I), P)
      BY <1>2 DEF EncodeRecord, Cat, P, asc, S, block
    <2>2. C \in Seq(F) /\ I \in Seq(F)
      <3> HIDE DEF len
      <3> QED BY <1>1, <1>4
    <2>3. I = H \o <<len>>
      <3> HIDE DEF len
      <3> QED OBVIOUS
    <2>4. <<len>> \in Seq(F)
      <3> HIDE DEF len
      <3> QED BY <1>4
    <2>6. H \in Seq(F)
      BY <1>5
    <2>5. I \o P = H \o (<<len>> \o P)
      <3> DEFINE l == <<len>>
      <3>1. l \in Seq(F) /\ I = H \o l
        BY <2>3, <2>4
      <3> HIDE DEF l, I, H
      <3>2. Cat(Cat(H, l), P) = Cat(H, Cat(l, P))
        BY <1>3, <2>6, <3>1, CatAssociative
      <3> QED BY <3>1, <3>2 DEF l, Cat
    <2> HIDE DEF I, H, C, len
    <2>8. Cat(C, asc) \in Seq(F)
      BY <1>2, <2>2, ConcatProperties DEF Cat
    <2>7. Cat(Cat(Cat(C, asc), I), P) = Cat(Cat(C, asc), Cat(I, P))
      BY <1>3, <2>2, <2>8, CatAssociative
    <2> QED BY <2>1, <2>5, <2>7 DEF Cat, C
  <1> DEFINE parents == ReadCounted(p, 1)
             payload == ReadCounted(SubSeq(parents.rest, 4, Len(parents.rest)), 1)
  <1>7. ~payload.ok => ~DecodeRecord(p).ok
    BY DEF DecodeRecord, Eof
  <1> HIDE DEF A, H, B, len
  <1>8. H \o B \in Seq(F)
    BY <1>5, ConcatProperties
  <1>9. \A q \in Seq(F) : Len(q) <= 3 => SubSeq(q, 4, Len(q)) = <<>>
    <2> SUFFICES ASSUME NEW q \in Seq(F), Len(q) <= 3 PROVE SubSeq(q, 4, Len(q)) = <<>>
      OBVIOUS
    <2>1. Len(SubSeq(q, 4, Len(q))) = 0 /\ SubSeq(q, 4, Len(q)) \in Seq(F)
      <3>1. \A i \in 4..Len(q) : q[i] \in F
        OBVIOUS
      <3> QED BY <3>1, SubSeqProperties
    <2> QED BY <2>1
  <1>10. ReadCounted(<<>>, 1) = Eof
    BY DEF ReadCounted
  <1>11. CASE CutOff(A, p)
    <2>1. parents = Eof
      BY <1>2, <1>11, CountedCut DEF A
    <2>2. parents.rest = <<>>
      BY <2>1 DEF Eof
    <2>3. SubSeq(parents.rest, 4, Len(parents.rest)) = <<>>
      <3> DEFINE e == <<>>
      <3>1. e \in Seq(F) /\ Len(e) <= 3
        OBVIOUS
      <3> HIDE DEF parents
      <3> QED BY <1>9, <2>2, <3>1
    <2>4. payload = Eof
      BY <1>10, <2>3
    <2> HIDE DEF payload
    <2> QED BY <1>7, <2>4 DEF Eof
  <1>12. ASSUME NEW q \in Seq(F), CutOff(H \o B, q), p = A \o q PROVE ~DecodeRecord(p).ok
    <2>1. parents.rest = q
      <3>1. A \o q = <<Len(asc)>> \o (asc \o q)
        <4> DEFINE l == <<Len(asc)>>
        <4>1. l \in Seq(F) /\ A = l \o asc
          BY <1>4 DEF A
        <4> HIDE DEF l
        <4>2. Cat(Cat(l, asc), q) = Cat(l, Cat(asc, q))
          BY <1>2, <4>1, CatAssociative
        <4> QED BY <4>1, <4>2 DEF Cat, l
      <3>2. parents = Got([i \in 1..Len(asc) |-> <<asc[i]>>], q)
        BY <1>2, <1>12, <3>1, ReadOnes
      <3> HIDE DEF parents
      <3> QED BY <3>2 DEF Got
    <2> HIDE DEF parents
    <2>2. CASE CutOff(H, q)
      <3>1. Len(q) <= 3
        BY <1>5, <2>2, CutIs
      <3>2. payload = Eof
        BY <1>9, <1>10, <2>1, <3>1
      <3> HIDE DEF payload
      <3> QED BY <1>7, <3>2 DEF Eof
    <2>3. ASSUME NEW t \in Seq(F), CutOff(B, t), q = H \o t PROVE ~payload.ok
      <3>1. SubSeq(q, 1 + Len(H), Len(q)) = t
        BY <1>5, <2>3, HeaderSplit
      <3>2. 1 + Len(H) = 4
        BY <1>5
      <3>3. payload = ReadCounted(t, 1)
        BY <2>1, <3>1, <3>2
      <3>4. ReadCounted(t, 1) = Eof
        BY <1>3, <2>3, CountedCut DEF B, len
      <3> HIDE DEF payload
      <3> QED BY <3>3, <3>4 DEF Eof
    <2>4. CutOff(H, q) \/ CutLater(F, H, B, q)
      <3> DEFINE s == Cat(H, B)
      <3>1. CutOff(s, q)
        BY <1>12 DEF Cat
      <3> HIDE DEF s
      <3> QED BY <1>5, <3>1, CutSplit DEF s
    <2> HIDE DEF payload
    <2> QED BY <1>7, <2>2, <2>3, <2>4 DEF CutLater
  <1>13. CutOff(A, p) \/ CutLater(F, A, H \o B, p)
    <2> DEFINE hb == H \o B
               s == EncodeRecord(r)
    <2>1. hb \in Seq(F) /\ s = Cat(A, hb) /\ CutOff(s, p)
      BY <1>6, <1>8 DEF Cat
    <2> HIDE DEF hb, s
    <2>2. CutOff(A, p) \/ CutLater(F, A, hb, p)
      BY <1>5, <2>1, CutSplit
    <2> QED BY <2>2 DEF hb
  <1> QED
    BY <1>11, <1>12, <1>13 DEF CutLater

\* A list that was cut is not read, if none of its elements is that was cut.
LEMMA ReadAllCut ==
    ASSUME NEW F, NEW kind, NEW n, NEW f, NEW v, Reads(F, kind, n, f, v),
           \A i \in 1..n : \A q : CutOff(f[i], q) => ~ReadOf(kind, q).ok,
           NEW p, CutOff(FlattenSeq(f), p)
    PROVE  ~Parsing!Fold(kind, Got(<<>>, p), Numbered(n)).ok
  <1> DEFINE none == <<>>
             base == Got(none, p)
  <1>0. n \in Nat /\ f \in [1..n -> Seq(F)] /\ none \in Seq(F)
    BY EmptySeq DEF Reads
  <1> HIDE DEF none
  <1>1. PICK t \in [0..n -> Seq(F)] : t[0] = FlattenSeq(f) \o none /\ LeftOver(f, n, none, t)
    BY <1>0, Flattened
  <1>2. t[0] = FlattenSeq(f)
    <2>1. FlattenSeq(f) \in Seq(F)
      BY <1>0, Flattened
    <2> QED BY <1>1, <2>1, ConcatEmptySeq DEF none
  <1>3. PICK h : Parsing!Steps(kind, base, Numbered(n), n, h) /\ Parsing!Fold(kind, base, Numbered(n)) = h[n]
    <2> DEFINE nums == Numbered(n)
    <2>1. DOMAIN nums = 1..n
      BY DEF Numbered
    <2> HIDE DEF base, nums
    <2>2. \E h : Parsing!Steps(kind, base, nums, n, h) /\ Parsing!Fold(kind, base, nums) = h[n]
      BY <1>0, <2>1, Parsing!FoldSteps, ZenonT(30)
    <2> QED BY <2>2 DEF nums
  <1>4. h[0] = base /\ \A i \in 1..n : h[i] = ReadNext(kind, h[i - 1], Numbered(n)[i])
    BY <1>3 DEF Parsing!Steps
  <1> DEFINE S == {i \in Nat : h[i].ok => CutOff(t[i], h[i].rest)}
  <1>5. 0 \in S
    BY <1>2, <1>4 DEF Got
  <1>6. ASSUME NEW i \in 0..(n - 1), i \in S PROVE i + 1 \in S
    <2>1. i + 1 \in 1..n /\ (i + 1) - 1 = i /\ i + 1 \in Nat /\ i + 1 \in 0..n /\ i \in 0..n
      BY <1>0
    <2> DEFINE q == h[i].rest
               x == f[i + 1]
               u == t[i + 1]
    <2>2. t[i] = x \o u /\ x \in Seq(F) /\ u \in Seq(F)
      BY <1>0, <1>1, <2>1 DEF LeftOver
    <2>3. h[i + 1] = ReadNext(kind, h[i], Numbered(n)[i + 1])
      BY <1>4, <2>1
    <2> SUFFICES ASSUME h[i + 1].ok PROVE CutOff(u, h[i + 1].rest)
      BY <2>1
    <2>4. h[i].ok /\ ReadOf(kind, q).ok /\ h[i + 1].rest = ReadOf(kind, q).rest
      BY <2>3 DEF ReadNext, Eof, Got
    <2>5. CutOff(x \o u, q)
      BY <1>6, <2>2, <2>4
    <2> HIDE DEF q, u, x
    <2>6. ~CutOff(x, q)
      BY <2>1, <2>4 DEF x
    <2>7. PICK w \in Seq(F) : CutOff(u, w) /\ q = x \o w
      <3> DEFINE y == Cat(x, u)
      <3>1. CutOff(y, q)
        BY <2>5 DEF Cat
      <3> HIDE DEF y
      <3>2. CutLater(F, x, u, q)
        BY <2>2, <2>6, <3>1, CutSplit DEF y
      <3> QED BY <3>2 DEF CutLater
    <2>8. ReadOf(kind, x \o w) = Got(v[i + 1], w)
      BY <2>1 DEF Reads, x
    <2> QED BY <2>4, <2>7, <2>8 DEF Got
  <1>7. 0..n \subseteq S
    <2> HIDE DEF S
    <2> QED BY <1>0, <1>5, <1>6, NatSetTo
  <1>8. h[n].ok => CutOff(t[n], h[n].rest)
    <2>1. n \in 0..n
      BY <1>0
    <2> QED BY <1>7, <2>1
  <1>9. \A q : ~CutOff(t[n], q)
    <2>1. t[n] = <<>> /\ 0..(Len(<<>>) - 1) = {}
      BY <1>1 DEF LeftOver, none
    <2> QED BY <2>1 DEF CutOff
  <1> QED
    BY <1>3, <1>8, <1>9 DEF none

\* decode_records reads a list of records whole or not at all: of one that was cut,
\* wherever that is, it reads nothing.
THEOREM CutRecordsUnread ==
    ASSUME NEW F, NEW n, NEW log, RecordList(F, n, log), NEW p, CutOff(EncodeRecords(log), p)
    PROVE  ~DecodeRecords(p).ok
  <1>0. PICK f : ListedAs(F, n, log, f)
    BY RecordsAsList
  <1> DEFINE body == FlattenSeq(f)
             kind == "record"
             C == <<n>>
             s == EncodeRecords(log)
             none == <<>>
  <1>1. /\ s = C \o body /\ body \in Seq(F) /\ Reads(F, kind, n, f, log)
        /\ \A i \in 1..n : f[i] = EncodeRecord(log[i])
    BY <1>0 DEF ListedAs
  <1>2. C \in Seq(F) /\ n \in F /\ Nat \subseteq F
    BY DEF RecordList
  <1>3. ASSUME NEW i \in 1..n, NEW q, CutOff(f[i], q) PROVE ~ReadOf(kind, q).ok
    <2> DEFINE r == log[i]
    <2>1. RecordOK(F, r) /\ CutOff(EncodeRecord(r), q)
      BY <1>1, <1>3 DEF RecordList
    <2> HIDE DEF r
    <2>2. ~DecodeRecord(q).ok
      BY <1>2, <2>1, RecordCut
    <2> QED BY <2>2 DEF ReadOf
  <1> HIDE DEF kind
  <1>4. CutOff(C, p) \/ CutLater(F, C, body, p)
    <2>1. s = Cat(C, body) /\ CutOff(s, p)
      BY <1>1 DEF Cat
    <2> HIDE DEF s, body, C
    <2> QED BY <1>1, <1>2, <2>1, CutSplit
  <1> HIDE DEF s
  <1>5. CASE CutOff(C, p)
    <2>1. p \in Seq(F) /\ Len(p) < Len(C) /\ Len(p) \in Nat
      BY <1>2, <1>5, CutIs
    <2>2. p = <<>>
      BY <2>1
    <2>3. DecodeRecords(p) = Eof
      BY <2>2 DEF DecodeRecords
    <2> QED BY <2>3 DEF Eof
  <1>6. CASE CutLater(F, C, body, p)
    <2>1. PICK q \in Seq(F) : CutOff(body, q) /\ p = C \o q
      BY <1>6 DEF CutLater
    <2>2. p # <<>> /\ Head(p) = n /\ Tail(p) = q
      <3> HIDE DEF body
      <3> QED BY <1>2, <2>1, First
    <2>3. ~Parsing!Fold(kind, Got(none, q), Numbered(n)).ok
      BY <1>1, <1>3, <2>1, ReadAllCut
    <2>4. DecodeRecords(p) = Whole(Parsing!Fold(kind, Got(none, Tail(p)), Numbered(Head(p))))
      <3> HIDE DEF C, body
      <3> QED BY <2>2 DEF DecodeRecords, ReadNext, ReadOf, Numbered, kind,
                          Parsing!Fold, FoldLeft, MapThenFoldSet, Max, Parsing!Largest
    <2> DEFINE read == Parsing!Fold(kind, Got(none, q), Numbered(n))
    <2>5. DecodeRecords(p) = Whole(read) /\ ~read.ok
      BY <2>2, <2>3, <2>4
    <2> HIDE DEF read
    <2>6. DecodeRecords(p) = Eof
      BY <2>5 DEF Whole
    <2> QED BY <2>6 DEF Eof
  <1> QED
    BY <1>4, <1>5, <1>6

----------------------------------------------------------------------------
(***************************************************************************)
(* Applying blocks one after the other.                                    *)
(***************************************************************************)
TxsAt(D, b) == D.nodes[b].block.txs

\* apply_all's step.
ApplyTo(D, utxo, b) == ApplyBlock(utxo, TxsAt(D, b)).utxo
Applying == INSTANCE DataTheorems WITH FoldStep <- ApplyTo

\* apply_dag's step: the block is recorded when it applies.
Recorded(run, b, r) ==
    IF r.ok THEN [utxo |-> r.utxo, accepted |-> Append(run.accepted, b),
                  fees |-> run.fees + r.fees, minted |-> run.minted + r.minted]
    ELSE run
RunStep(D, run, b) == Recorded(run, b, ApplyBlock(run.utxo, TxsAt(D, b)))
Running == INSTANCE DataTheorems WITH FoldStep <- RunStep

NoRun == [utxo |-> <<>>, accepted |-> <<>>, fees |-> 0, minted |-> 0]

\* apply_all and apply_dag are folds.
LEMMA ApplyAllFold ==
    ASSUME NEW D, NEW utxo, NEW order
    PROVE  ApplyAll(D, utxo, order) = Applying!Fold(D, utxo, order)
  BY DEF ApplyAll, ApplyTo, TxsAt, Applying!Fold, FoldLeft, MapThenFoldSet, Max, Applying!Largest

LEMMA ApplyDagFold ==
    ASSUME NEW D
    PROVE  ApplyDag(D) = Running!Fold(D, NoRun, Linearize(D))
  BY DEF ApplyDag, RunStep, Recorded, TxsAt, NoRun, Running!Fold, FoldLeft, MapThenFoldSet, Max, Running!Largest

\* A block that does not apply changes nothing.
LEMMA RefusedUnchanged ==
    ASSUME NEW utxo, NEW txs
    PROVE  /\ ApplyBlock(utxo, txs).ok \in BOOLEAN
           /\ ~ApplyBlock(utxo, txs).ok => ApplyBlock(utxo, txs).utxo = utxo
  <1>1. \A cbs, spends : /\ CloseBlock(utxo, cbs, spends).ok \in BOOLEAN
                         /\ ~CloseBlock(utxo, cbs, spends).ok => CloseBlock(utxo, cbs, spends).utxo = utxo
    BY DEF CloseBlock
  <1> QED
    BY <1>1 DEF ApplyBlock

\* Recording what was accepted does not change what is applied.
LEMMA RunStepUtxo ==
    ASSUME NEW D, NEW run, NEW b
    PROVE  RunStep(D, run, b).utxo = ApplyTo(D, run.utxo, b)
  <1> DEFINE r == ApplyBlock(run.utxo, TxsAt(D, b))
  <1>1. ~r.ok => r.utxo = run.utxo
    BY RefusedUnchanged
  <1> HIDE DEF r
  <1>2. Recorded(run, b, r).utxo = r.utxo
    BY <1>1 DEF Recorded
  <1> QED
    BY <1>2 DEF RunStep, ApplyTo, r

\* The set apply_dag ends with is that of its blocks applied in order.
LEMMA ApplyDagUtxo ==
    ASSUME NEW D, NEW n \in Nat, DOMAIN Linearize(D) = 1..n
    PROVE  ApplyDag(D).utxo = ApplyAll(D, <<>>, Linearize(D))
  <1> DEFINE s == Linearize(D)
  <1> HIDE DEF s
  <1>0. DOMAIN s = 1..n
    BY DEF s
  <1>1. PICK h : Running!Steps(D, NoRun, s, n, h) /\ Running!Fold(D, NoRun, s) = h[n]
    BY <1>0, Running!FoldSteps
  <1>2. PICK g : Applying!Steps(D, <<>>, s, n, g) /\ Applying!Fold(D, <<>>, s) = g[n]
    BY <1>0, Applying!FoldSteps
  <1> DEFINE S == {i \in Nat : h[i].utxo = g[i]}
  <1>3. 0 \in S
    BY <1>1, <1>2 DEF Running!Steps, Applying!Steps, NoRun
  <1>4. ASSUME NEW i \in 0..(n - 1), i \in S PROVE i + 1 \in S
    <2>1. i + 1 \in 1..n /\ (i + 1) - 1 = i /\ i + 1 \in Nat
      OBVIOUS
    <2>2. h[i + 1] = RunStep(D, h[i], s[i + 1]) /\ g[i + 1] = ApplyTo(D, g[i], s[i + 1])
      BY <1>1, <1>2, <2>1 DEF Running!Steps, Applying!Steps
    <2> QED BY <1>4, <2>1, <2>2, RunStepUtxo
  <1>5. 0..n \subseteq S
    <2> HIDE DEF S
    <2> QED BY <1>3, <1>4, NatSetTo
  <1>6. h[n].utxo = g[n]
    BY <1>5
  <1> QED
    BY <1>1, <1>2, <1>6, ApplyDagFold, ApplyAllFold DEF s

\* Blocks are applied alike in two dags that have them both.
LEMMA ApplyWithin ==
    ASSUME NEW D, NEW E, Within(E, D), NEW utxo, NEW s \in Seq(Blocks(E))
    PROVE  ApplyAll(E, utxo, s) = ApplyAll(D, utxo, s)
  <1>1. Len(s) \in Nat /\ DOMAIN s = 1..Len(s) /\ \A i \in 1..Len(s) : s[i] \in Blocks(E)
    OBVIOUS
  <1>2. \A i \in 1..Len(s) : \A acc : ApplyTo(E, acc, s[i]) = ApplyTo(D, acc, s[i])
    BY <1>1 DEF ApplyTo, TxsAt, Within
  <1>3. Applying!Fold(E, utxo, s) = Applying!Fold(D, utxo, s)
    BY <1>1, <1>2, Applying!FoldSame
  <1> QED
    BY <1>3, ApplyAllFold

\* A list of blocks is applied in two parts, a single block by ApplyTo.
LEMMA ApplyConcat ==
    ASSUME NEW D, NEW utxo, NEW T, NEW s \in Seq(T), NEW r \in Seq(T)
    PROVE  ApplyAll(D, utxo, s \o r) = ApplyAll(D, ApplyAll(D, utxo, s), r)
  BY ApplyAllFold, Applying!FoldConcat

\* A single block is applied.
LEMMA ApplyOne ==
    ASSUME NEW D, NEW utxo, NEW b
    PROVE  ApplyAll(D, utxo, <<b>>) = ApplyTo(D, utxo, b)
  BY ApplyAllFold, Applying!FoldOne

----------------------------------------------------------------------------
(***************************************************************************)
(* The invariant: a dag as insert builds them, and the state of each block *)
(* is what its own order gives.                                            *)
(***************************************************************************)
\* The UTXO set of the order that ends in b.
StateAt(D, b) == ApplyAll(D, <<>>, SpineTo(D, b))

\* Each stored state is that of its block.
StatesOK(L) == L.states = [b \in Blocks(L.dag) |-> StateAt(L.dag, b)]

\* A ledger as insertions build it.
LedgerOK(L) ==
    /\ L = [dag |-> L.dag, states |-> L.states]
    /\ DagOK(L.dag) /\ Canonical(L.dag)
    /\ StatesOK(L)

\* The mergeset of a block and the spine before it list blocks.
LEMMA FrontOfSpine ==
    ASSUME NEW D, DagOK(D), NEW b \in Blocks(D), b # GenesisId
    PROVE  /\ SpineTo(D, SelectedParent(D, b)) \in Seq(Blocks(D))
           /\ MergesetOrdered(D, SelectedParent(D, b), Parents(D, b)) \in Seq(Blocks(D))
           /\ SpineTo(D, SelectedParent(D, b))
                \o MergesetOrdered(D, SelectedParent(D, b), Parents(D, b)) \in Seq(Blocks(D))
  <1> DEFINE sp == SelectedParent(D, b)
             s == SpineTo(D, sp)
             m == MergesetOrdered(D, sp, Parents(D, b))
             B == Blocks(D)
  <1>1. sp \in B /\ Parents(D, b) \in SUBSET B
    BY ParentSelected DEF DagOK, NodeOK
  <1>2. Boundary(D, sp) \in SUBSET B /\ Merged(D, sp, Parents(D, b)) \in SUBSET B
    <2>1. \A a \in B : Past(D, a) \subseteq B
      BY DEF DagOK, NodeOK
    <2> QED BY <1>1, <2>1 DEF Boundary, Merged, PastOver
  <1>3. s \in Seq(B)
    <2>1. s \in Seq(Boundary(D, sp))
      BY <1>1, SpineLists, ListsSeq
    <2> QED BY <1>2, <2>1
  <1>4. m \in Seq(B)
    <2>1. m = SortByTopoKey(D, Merged(D, sp, Parents(D, b)))
      BY <1>1, MergesetIsMerged
    <2>2. m \in Seq(Merged(D, sp, Parents(D, b)))
      BY <1>2, <2>1, SortLists, ListsSeq
    <2> QED BY <1>2, <2>2
  <1> HIDE DEF s, m, B
  <1>5. s \o m \in Seq(B)
    BY <1>3, <1>4
  <1> QED
    BY <1>3, <1>4, <1>5 DEF s, m, B

\* The state a block finds and the state it leaves.
LEMMA StateStep ==
    ASSUME NEW D, DagOK(D), NEW b \in Blocks(D), b # GenesisId
    PROVE  StateAt(D, b) =
             ApplyTo(D, ApplyAll(D, StateAt(D, SelectedParent(D, b)),
                                 MergesetOrdered(D, SelectedParent(D, b), Parents(D, b))), b)
  <1> DEFINE sp == SelectedParent(D, b)
             s == SpineTo(D, sp)
             m == MergesetOrdered(D, sp, Parents(D, b))
             B == Blocks(D)
  <1>1. s \in Seq(B) /\ m \in Seq(B)
    BY FrontOfSpine
  <1>2. SpineTo(D, b) = s \o m \o <<b>>
    BY SpineStep
  <1> HIDE DEF s, m, B
  <1>3. s \o m \in Seq(B) /\ <<b>> \in Seq(B)
    <2>1. b \in B
      BY DEF B
    <2> QED BY <1>1, <2>1
  <1>4. ApplyAll(D, <<>>, s \o m \o <<b>>) = ApplyAll(D, ApplyAll(D, <<>>, s \o m), <<b>>)
    <2> DEFINE q == s \o m
               r == <<b>>
    <2>1. q \in Seq(B) /\ r \in Seq(B)
      BY <1>3
    <2> HIDE DEF q, r
    <2>2. ApplyAll(D, <<>>, q \o r) = ApplyAll(D, ApplyAll(D, <<>>, q), r)
      BY <2>1, ApplyConcat
    <2> QED BY <2>2 DEF q, r
  <1>5. ApplyAll(D, <<>>, s \o m) = ApplyAll(D, ApplyAll(D, <<>>, s), m)
    BY <1>1, ApplyConcat
  <1> QED
    BY <1>2, <1>4, <1>5, ApplyOne DEF StateAt, s, m

\* Genesis is applied to the empty set.
LEMMA StateGenesis ==
    ASSUME NEW D, DagOK(D)
    PROVE  StateAt(D, GenesisId) = ApplyTo(D, <<>>, GenesisId)
  <1>1. SpineTo(D, GenesisId) = <<GenesisId>>
    BY SpineStep DEF DagOK
  <1> QED
    BY <1>1, ApplyOne DEF StateAt

\* A block's state depends on its past alone.
LEMMA StateWithin ==
    ASSUME NEW D, DagOK(D), NEW E, DagOK(E), Within(E, D), NEW b \in Blocks(E)
    PROVE  StateAt(E, b) = StateAt(D, b)
  <1>1. SpineTo(E, b) = SpineTo(D, b)
    BY SpineWithin
  <1>2. SpineTo(E, b) \in Seq(Blocks(E))
    <2>1. SpineTo(E, b) \in Seq(Boundary(E, b))
      BY SpineLists, ListsSeq
    <2>2. Boundary(E, b) \subseteq Blocks(E)
      BY DEF DagOK, NodeOK, Boundary
    <2> QED BY <2>1, <2>2
  <1> QED
    BY <1>1, <1>2, ApplyWithin DEF StateAt

\* The ledger that a block extends.
LEMMA InsertLedger ==
    ASSUME NEW L, LedgerOK(L), NEW id \in Nat \ {GenesisId}, NEW block, block.work \in Int,
           CanInsert(L.dag, id, block)
    PROVE  /\ LedgerOK(LedgerInsert(L, id, block))
           /\ PreState(L, block) =
                ApplyAll(L.dag, StateAt(L.dag, Heaviest(L.dag, block.parents)),
                         MergesetOrdered(L.dag, Heaviest(L.dag, block.parents), block.parents))
  <1> DEFINE D == L.dag
             E == InsertBlock(D, id, block)
             ps == block.parents
             sp == Heaviest(D, ps)
             m == MergesetOrdered(D, sp, ps)
             M == LedgerInsert(L, id, block)
  <1>1. DagOK(D) /\ Canonical(D) /\ L.states = [b \in Blocks(D) |-> StateAt(D, b)]
    BY DEF LedgerOK, StatesOK
  <1>2. ps \in SUBSET Blocks(D) /\ ps # {} /\ id \notin Blocks(D)
    BY DEF CanInsert
  <1>3. sp \in ps /\ sp \in Blocks(D) /\ ComputeGhostdag(D, ps).selected_parent = sp
    BY <1>1, <1>2, GhostdagTyped
  <1>4. DagOK(E) /\ Canonical(E)
    BY <1>1, InsertKeeps, InsertCanonical
  <1>5. Blocks(E) = Blocks(D) \cup {id} /\ Within(D, E)
        /\ E.nodes[id] = NodeFor(D, block, Cardinality(PastOver(D, ps)), ComputeGhostdag(D, ps))
    BY <1>1, InsertNodes
  <1>6. E.nodes[id].block = block /\ SelectedParent(E, id) = sp /\ Parents(E, id) = ps
    BY <1>3, <1>5 DEF NodeFor, SelectedParent, Parents
  <1>7. PreState(L, block) = ApplyAll(D, StateAt(D, sp), m)
    <2>1. L.states[sp] = StateAt(D, sp)
      BY <1>1, <1>3
    <2> QED BY <2>1 DEF PreState, Preview
  <1>8. StateAt(E, id) = ApplyBlock(PreState(L, block), block.txs).utxo
    <2>1. MergesetOrdered(E, sp, ps) = m
      BY <1>1, <1>2, <1>3, <1>4, <1>5, MergesetWithin
    <2>2. StateAt(E, sp) = StateAt(D, sp)
      BY <1>1, <1>3, <1>4, <1>5, StateWithin
    <2>3. m \in Seq(Blocks(D))
      <3>1. Merged(D, sp, ps) \in SUBSET Blocks(D)
        <4>1. \A a \in Blocks(D) : Past(D, a) \subseteq Blocks(D)
          BY <1>1 DEF DagOK, NodeOK
        <4> QED BY <1>2, <4>1 DEF Merged, PastOver
      <3>2. m = SortByTopoKey(D, Merged(D, sp, ps))
        BY <1>1, <1>2, <1>3, MergesetIsMerged
      <3>3. m \in Seq(Merged(D, sp, ps))
        BY <1>1, <3>1, <3>2, SortLists, ListsSeq
      <3> QED BY <3>1, <3>3
    <2> HIDE DEF m
    <2>4. ApplyAll(E, StateAt(D, sp), m) = ApplyAll(D, StateAt(D, sp), m)
      BY <1>5, <2>3, ApplyWithin
    <2>5. StateAt(E, id) = ApplyTo(E, ApplyAll(E, StateAt(E, sp), m), id)
      BY <1>4, <1>5, <1>6, <2>1, StateStep
    <2> QED BY <1>6, <1>7, <2>2, <2>4, <2>5 DEF ApplyTo, TxsAt, m
  <1>9. M = [dag |-> E, states |-> Put(L.states, id, ApplyBlock(PreState(L, block), block.txs).utxo)]
    BY DEF LedgerInsert
  <1> HIDE DEF M, E
  <1>10. M.states = [b \in Blocks(E) |-> StateAt(E, b)]
    <2>1. \A b \in Blocks(D) : StateAt(E, b) = StateAt(D, b)
      BY <1>1, <1>4, <1>5, StateWithin
    <2> QED BY <1>1, <1>2, <1>5, <1>8, <1>9, <2>1 DEF Put
  <1>11. M.dag = E
    BY <1>9
  <1>12. LedgerOK(M)
    <2>1. M = [dag |-> M.dag, states |-> M.states]
      BY <1>9
    <2> QED BY <1>4, <1>10, <1>11, <2>1 DEF LedgerOK, StatesOK
  <1> QED
    BY <1>7, <1>12 DEF M

\* The ledger of a genesis block.
LEMMA GenesisLedger ==
    ASSUME NEW txs
    PROVE  LedgerOK(LedgerOver(txs)) /\ Blocks(LedgerOver(txs).dag) = {GenesisId}
  <1> DEFINE genesis == [parents |-> {}, work |-> 1, timestamp |-> 0, txs |-> txs]
             D == NewDag(genesis)
             L == LedgerOver(txs)
  <1>1. genesis.parents = {} /\ genesis.work \in Int /\ genesis.txs = txs
    OBVIOUS
  <1>2. L = [dag |-> D, states |-> [b \in {GenesisId} |-> ApplyBlock(<<>>, txs).utxo]]
    BY DEF LedgerOver
  <1> HIDE DEF L, genesis
  <1>3. DagOK(D) /\ Canonical(D) /\ Blocks(D) = {GenesisId} /\ D.nodes[GenesisId].block = genesis
    BY <1>1, NewDagOK, NewDagCanonical
  <1> HIDE DEF D
  <1>4. StateAt(D, GenesisId) = ApplyBlock(<<>>, txs).utxo
    BY <1>1, <1>3, StateGenesis DEF ApplyTo, TxsAt
  <1>5. L.dag = D /\ L.states = [b \in Blocks(D) |-> StateAt(D, b)]
    BY <1>2, <1>3, <1>4
  <1> QED
    BY <1>2, <1>3, <1>5 DEF LedgerOK, StatesOK, L

\* No element of q is twice in it.
Distinct(q) == \A i, j \in 1..Len(q) : q[i] = q[j] => i = j

\* What follows tip in q.
After(q, tip) == SubSeq(q, 1 + (CHOOSE i \in DOMAIN q : q[i] = tip), Len(q))

\* What follows the last member of the front of a list of distinct members is the rest.
LEMMA RestAfter ==
    ASSUME NEW T, NEW s \in Seq(T), NEW r \in Seq(T), NEW tip, s # <<>>, s[Len(s)] = tip,
           Distinct(s \o r)
    PROVE  After(s \o r, tip) = r
  <1> USE DEF Distinct, After
  <1> DEFINE q == s \o r
             k == Len(s)
             c == CHOOSE i \in DOMAIN q : q[i] = tip
  <1>1. k \in Nat /\ k >= 1 /\ Len(r) \in Nat /\ Len(q) = k + Len(r) /\ q \in Seq(T) /\ DOMAIN q = 1..Len(q)
    OBVIOUS
  <1>2. q[k] = tip /\ k \in 1..Len(q)
    BY <1>1
  <1>3. \A i \in 1..Len(r) : r[i] = q[k + i]
    OBVIOUS
  <1>4. \A i, j \in 1..Len(q) : q[i] = q[j] => i = j
    OBVIOUS
  <1> HIDE DEF q
  <1>5. c = k
    <2>1. c \in DOMAIN q /\ q[c] = tip
      BY <1>1, <1>2
    <2> QED BY <1>1, <1>2, <1>4, <2>1
  <1> HIDE DEF c, k
  <1>6. SubSeq(q, 1 + k, Len(q)) = r
    <2>1. SubSeq(q, k + 1, Len(q)) \in Seq(T) /\ Len(SubSeq(q, k + 1, Len(q))) = Len(r)
          /\ \A i \in 1..Len(r) : SubSeq(q, k + 1, Len(q))[i] = q[k + 1 + i - 1]
      BY <1>1, SubSeqProperties
    <2>2. \A i \in 1..Len(r) : SubSeq(q, k + 1, Len(q))[i] = r[i]
      BY <1>1, <1>3, <2>1
    <2>3. SubSeq(q, k + 1, Len(q)) = r
      BY <2>1, <2>2, SeqEqual
    <2> QED BY <1>1, <2>3
  <1> QED
    BY <1>5, <1>6 DEF q, c, k

----------------------------------------------------------------------------
(***************************************************************************)
(* Replays.                                                                *)
(***************************************************************************)

\* The state a block over the parents ps finds.
Found(D, ps) ==
    ApplyAll(D, StateAt(D, Heaviest(D, ps)), MergesetOrdered(D, Heaviest(D, ps), ps))

\* The block that Ledger::new makes of the genesis transactions.
GenesisOver(txs) == [parents |-> {}, work |-> 1, timestamp |-> 0, txs |-> txs]

\* Every block of the dag was admitted to it.
Admitted(D) ==
    /\ D.nodes[GenesisId].block = GenesisOver(TxsAt(D, GenesisId))
    /\ \A b \in Blocks(D) \ {GenesisId} :
          ApplyBlock(Found(D, Parents(D, b)), TxsAt(D, b)).ok /\ ValidStructure(TxsAt(D, b))

\* What a block finds depends on its past alone.
LEMMA FoundWithin ==
    ASSUME NEW D, DagOK(D), NEW E, DagOK(E), Within(E, D), NEW ps \in SUBSET Blocks(E), ps # {}
    PROVE  Found(E, ps) = Found(D, ps)
  <1> DEFINE sp == Heaviest(E, ps)
             m == MergesetOrdered(E, sp, ps)
  <1>1. sp = Heaviest(D, ps) /\ sp \in ps /\ sp \in Blocks(E)
    BY HeaviestWithin, HeaviestIn
  <1>2. m = MergesetOrdered(D, sp, ps) /\ StateAt(E, sp) = StateAt(D, sp)
    BY <1>1, MergesetWithin, StateWithin
  <1>3. m \in Seq(Blocks(E))
    <2>1. Merged(E, sp, ps) \in SUBSET Blocks(E)
      <3>1. \A a \in Blocks(E) : Past(E, a) \subseteq Blocks(E)
        BY DEF DagOK, NodeOK
      <3> QED BY <3>1 DEF Merged, PastOver
    <2>2. m = SortByTopoKey(E, Merged(E, sp, ps))
      BY <1>1, MergesetIsMerged
    <2>3. m \in Seq(Merged(E, sp, ps))
      BY <2>1, <2>2, SortLists, ListsSeq
    <2> QED BY <2>1, <2>3
  <1>4. ApplyAll(E, StateAt(E, sp), m) = ApplyAll(D, StateAt(E, sp), m)
    BY <1>3, ApplyWithin
  <1> HIDE DEF sp, m
  <1>5. ApplyAll(E, StateAt(E, sp), m) = ApplyAll(D, StateAt(D, sp), MergesetOrdered(D, sp, ps))
    BY <1>2, <1>4
  <1> QED
    BY <1>1, <1>5 DEF Found, sp, m

\* A ledger that grew by insertions.
Sound(L) == LedgerOK(L) /\ Admitted(L.dag)

\* The first ledger is one.
LEMMA GenesisSound ==
    ASSUME NEW txs
    PROVE  Sound(LedgerOver(txs)) /\ Blocks(LedgerOver(txs).dag) = {GenesisId}
           /\ LedgerOver(txs).dag.nodes[GenesisId].block = GenesisOver(txs)
  <1> DEFINE genesis == GenesisOver(txs)
             D == LedgerOver(txs).dag
  <1>1. genesis.parents = {} /\ genesis.work \in Int /\ genesis.txs = txs
    BY DEF GenesisOver
  <1>2. D = NewDag(genesis)
    BY DEF LedgerOver, GenesisOver
  <1> HIDE DEF genesis
  <1>3. Blocks(D) = {GenesisId} /\ D.nodes[GenesisId].block = genesis
    BY <1>1, <1>2, NewDagOK, NewDagCanonical
  <1>4. LedgerOK(LedgerOver(txs))
    BY GenesisLedger
  <1>5. Admitted(D)
    BY <1>1, <1>3 DEF Admitted, TxsAt, genesis
  <1> HIDE DEF D
  <1> QED
    BY <1>3, <1>4, <1>5 DEF Sound, D, genesis

\* insert takes the block.
Takes(L, id, block) ==
    id \in Nat \ {GenesisId} /\ block.work \in Int /\ CanLedgerInsert(L, id, block)

\* What insert takes, it keeps, and it changes nothing of the blocks that were there.
LEMMA InsertSound ==
    ASSUME NEW L, Sound(L), NEW id, NEW block, Takes(L, id, block)
    PROVE  /\ Sound(LedgerInsert(L, id, block))
           /\ Blocks(LedgerInsert(L, id, block).dag) = Blocks(L.dag) \cup {id}
           /\ Within(L.dag, LedgerInsert(L, id, block).dag)
           /\ LedgerInsert(L, id, block).dag.nodes[id].block = block
  <1> USE DEF Takes
  <1> DEFINE D == L.dag
             E == LedgerInsert(L, id, block).dag
  <1>1. CanInsert(D, id, block) /\ E = InsertBlock(D, id, block)
    BY DEF CanLedgerInsert, LedgerInsert
  <1>2. LedgerOK(L) /\ DagOK(D) /\ Admitted(D)
    BY DEF Sound, LedgerOK
  <1>3. LedgerOK(LedgerInsert(L, id, block)) /\ PreState(L, block) = Found(D, block.parents)
    BY <1>1, <1>2, InsertLedger DEF Found
  <1>4. /\ Blocks(E) = Blocks(D) \cup {id} /\ Within(D, E) /\ DagOK(E)
        /\ E.nodes[id] = NodeFor(D, block, Cardinality(PastOver(D, block.parents)),
                                 ComputeGhostdag(D, block.parents))
    BY <1>1, <1>2, <1>3, InsertNodes DEF LedgerOK
  <1>5. E.nodes[id].block = block
    BY <1>4 DEF NodeFor
  <1> HIDE DEF D, E
  <1>6. ASSUME NEW b \in Blocks(E) \ {GenesisId}
        PROVE  ApplyBlock(Found(E, Parents(E, b)), TxsAt(E, b)).ok /\ ValidStructure(TxsAt(E, b))
    <2>1. CASE b = id
      <3>1. Parents(E, b) = block.parents /\ TxsAt(E, b) = block.txs
        BY <1>5, <2>1 DEF Parents, TxsAt
      <3>2. block.parents \in SUBSET Blocks(D) /\ block.parents # {}
        BY <1>1 DEF CanInsert
      <3>3. Found(E, block.parents) = Found(D, block.parents)
        BY <1>2, <1>4, <3>2, FoundWithin
      <3> QED BY <1>3, <3>1, <3>3 DEF CanLedgerInsert
    <2>2. CASE b # id
      <3>1. b \in Blocks(D) \ {GenesisId} /\ Parents(E, b) = Parents(D, b) /\ TxsAt(E, b) = TxsAt(D, b)
        BY <1>4, <2>2 DEF Within, Parents, TxsAt
      <3>2. Parents(D, b) \in SUBSET Blocks(D) /\ Parents(D, b) # {}
        BY <1>2, <3>1, ParentSelected DEF DagOK, NodeOK
      <3>3. Found(E, Parents(D, b)) = Found(D, Parents(D, b))
        BY <1>2, <1>4, <3>2, FoundWithin
      <3> QED BY <1>2, <3>1, <3>3 DEF Admitted
    <2> QED BY <2>1, <2>2
  <1>7. E.nodes[GenesisId] = D.nodes[GenesisId]
    BY <1>2, <1>4 DEF Within, DagOK
  <1>8. Admitted(E)
    BY <1>2, <1>6, <1>7 DEF Admitted, TxsAt
  <1> QED
    BY <1>3, <1>4, <1>5, <1>8 DEF Sound, D, E

\* A ledger of some of the blocks of L.
Regrown(A, L, S) == LedgerOK(A) /\ Grown(A.dag, L.dag, S)

\* The first one has the genesis block.
LEMMA RegrownFirst ==
    ASSUME NEW L, Sound(L)
    PROVE  Regrown(LedgerOver(L.dag.nodes[GenesisId].block.txs), L, {GenesisId})
  <1> DEFINE D == L.dag
             genesis == D.nodes[GenesisId].block
             t == genesis.txs
  <1>1. DagOK(D) /\ Canonical(D) /\ genesis = GenesisOver(t)
    BY DEF Sound, LedgerOK, Admitted, TxsAt
  <1>2. LedgerOver(t).dag = NewDag(GenesisOver(t))
    BY DEF LedgerOver, GenesisOver
  <1>3. Grown(NewDag(genesis), D, {GenesisId})
    BY <1>1, RegrowFirst
  <1>4. LedgerOK(LedgerOver(t))
    BY GenesisLedger
  <1>5. Grown(LedgerOver(t).dag, D, {GenesisId})
    <2> HIDE DEF genesis
    <2> QED BY <1>1, <1>2, <1>3
  <1> HIDE DEF t, D
  <1>6. Regrown(LedgerOver(t), L, {GenesisId})
    BY <1>4, <1>5 DEF Regrown, D
  <1> QED
    BY <1>6 DEF t, D

\* It takes every block of L that it has the parents of.
LEMMA ReplayStep ==
    ASSUME NEW L, Sound(L), NEW A, NEW S, Regrown(A, L, S),
           NEW b \in Blocks(L.dag) \ S, b # GenesisId, Parents(L.dag, b) \subseteq S
    PROVE  /\ A.dag # Failed /\ CanLedgerInsert(A, b, L.dag.nodes[b].block)
           /\ Regrown(LedgerInsert(A, b, L.dag.nodes[b].block), L, S \cup {b})
  <1> DEFINE D == L.dag
             block == D.nodes[b].block
  <1>1. DagOK(D) /\ Canonical(D) /\ LedgerOK(A) /\ Grown(A.dag, D, S)
        /\ DagOK(A.dag) /\ Within(A.dag, D) /\ Blocks(A.dag) = S
    BY DEF Sound, LedgerOK, Regrown, Grown
  <1>2. CanInsert(A.dag, b, block) /\ Grown(InsertBlock(A.dag, b, block), D, S \cup {b})
    BY <1>1, RegrowStep
  <1>3. b \in Nat \ {GenesisId} /\ block.work \in Int /\ block.parents = Parents(D, b)
        /\ block.txs = TxsAt(D, b)
    BY <1>1 DEF DagOK, NodeOK, Work, Parents, TxsAt
  <1>4. LedgerOK(LedgerInsert(A, b, block)) /\ PreState(A, block) = Found(A.dag, block.parents)
    BY <1>1, <1>2, <1>3, InsertLedger DEF Found
  <1>5. Found(A.dag, block.parents) = Found(D, Parents(D, b))
    <2>1. block.parents \in SUBSET Blocks(A.dag) /\ block.parents # {}
      BY <1>2 DEF CanInsert
    <2> QED BY <1>1, <1>3, <2>1, FoundWithin
  <1>6. CanLedgerInsert(A, b, block)
    BY <1>2, <1>3, <1>4, <1>5 DEF CanLedgerInsert, Sound, Admitted
  <1>7. A.dag # Failed
    <2>1. A.dag.tips # {} /\ Failed.tips = {}
      BY <1>1 DEF DagOK, Failed
    <2> QED BY <2>1
  <1>8. LedgerInsert(A, b, block).dag = InsertBlock(A.dag, b, block)
    BY DEF LedgerInsert
  <1> QED
    BY <1>2, <1>4, <1>6, <1>7, <1>8 DEF Regrown

\* read_snapshot's step: the block of a record is inserted.
Replaced(d, acc, r) ==
    IF acc.dag # Failed /\ CanLedgerInsert(acc, r.id, r.block)
    THEN LedgerInsert(acc, r.id, r.block) ELSE FailedLedger
Replaying == INSTANCE DataTheorems WITH FoldStep <- Replaced

\* log has the blocks of D, each after its parents.
LogOf(D, log, n) ==
    /\ n \in Nat \ {0} /\ DOMAIN log = 1..n /\ log \in Seq({log[i] : i \in 1..n})
    /\ \A i \in 1..n : log[i].id \in Blocks(D) /\ log[i].block = D.nodes[log[i].id].block
    /\ log[1].id = GenesisId
    /\ \A b \in Blocks(D) : \E i \in 1..n : log[i].id = b
    /\ \A i \in 2..n : /\ \A j \in 1..(i - 1) : log[j].id # log[i].id
                       /\ \A p \in Parents(D, log[i].id) : \E j \in 1..(i - 1) : log[j].id = p

\* The blocks of the first n records.
IdsTo(log, n) == {log[i].id : i \in 1..n}

\* A log of its blocks, in any order that has parents first, gives the ledger back.
LEMMA ReplayLog ==
    ASSUME NEW L, Sound(L), NEW log, NEW n, LogOf(L.dag, log, n)
    PROVE  Replay(log) = L
  <1> DEFINE D == L.dag
             B == Blocks(D)
             m == n - 1
             rest == Tail(log)
             first == LedgerOver(Head(log).block.txs)
             R == {log[i] : i \in 1..n}
  <1>1. LedgerOK(L) /\ DagOK(D) /\ Canonical(D)
    BY DEF Sound, LedgerOK
  <1>2. n \in Nat \ {0} /\ DOMAIN log = 1..n /\ log \in Seq(R) /\ log[1].id = GenesisId
    BY DEF LogOf
  <1> DEFINE new(i) == \A j \in 1..(i - 1) : log[j].id # log[i].id
             grounded(i) == \A p \in Parents(D, log[i].id) : \E j \in 1..(i - 1) : log[j].id = p
  <1>3. /\ \A i \in 1..n : log[i].id \in B /\ log[i].block = D.nodes[log[i].id].block
        /\ \A b \in B : \E i \in 1..n : log[i].id = b
        /\ \A i \in 2..n : new(i) /\ grounded(i)
    BY DEF LogOf
  <1> HIDE DEF R
  <1>4. Len(log) = n /\ log # <<>>
    BY <1>2
  <1>5. /\ rest \in Seq(R) /\ Len(rest) = m /\ Head(log) = log[1] /\ m \in Nat /\ DOMAIN rest = 1..m
        /\ \A i \in 1..m : rest[i] = log[i + 1]
    BY <1>2, <1>4
  <1>6. Regrown(first, L, IdsTo(log, 1))
    <2>0. 1 \in 1..n
      BY <1>2
    <2> HIDE DEF rest, first, m, new, grounded, B, D
    <2>1. log[1].id = GenesisId /\ Head(log).block = D.nodes[GenesisId].block
      <3>1. log[1].block = D.nodes[log[1].id].block
        BY <2>0, <1>3
      <3> QED BY <3>1, <1>2, <1>5
    <2> USE DEF first, D
    <2>2. first = LedgerOver(D.nodes[GenesisId].block.txs) /\ IdsTo(log, 1) = {GenesisId}
      BY <2>1 DEF IdsTo
    <2>3. Regrown(LedgerOver(D.nodes[GenesisId].block.txs), L, {GenesisId})
      BY RegrownFirst
    <2> QED BY <2>2, <2>3
  <1>7. Replay(log) = Replaying!Fold(0, first, rest)
    BY DEF Replay, Replaced, Replaying!Fold, FoldLeft, MapThenFoldSet, Max, Replaying!Largest
  <1> HIDE DEF rest, first
  <1>8. PICK h : Replaying!Steps(0, first, rest, m, h) /\ Replaying!Fold(0, first, rest) = h[m]
    BY <1>5, Replaying!FoldSteps, SMTT(30)
  <1> DEFINE S == {i \in Nat : Regrown(h[i], L, IdsTo(log, i + 1))}
  <1>9. 0 \in S
    BY <1>6, <1>8 DEF Replaying!Steps
  <1>10. ASSUME NEW i \in 0..(m - 1), i \in S PROVE i + 1 \in S
    <2> DEFINE b == log[i + 2].id
               P == IdsTo(log, i + 1)
    <2>1. /\ i + 1 \in 1..m /\ (i + 1) - 1 = i /\ i + 1 \in Nat /\ i + 2 \in 2..n /\ i + 2 \in 1..n
          /\ (i + 2) - 1 = i + 1 /\ (i + 1) + 1 = i + 2
      BY <1>2
    <2>2. h[i + 1] = Replaced(0, h[i], rest[i + 1])
      BY <1>8, <2>1 DEF Replaying!Steps
    <2>3. rest[i + 1] = log[i + 2] /\ log[i + 2].block = D.nodes[b].block /\ b \in B
      <3>1. rest[i + 1] = log[(i + 1) + 1]
        BY <1>5, <2>1
      <3>2. log[i + 2].block = D.nodes[b].block /\ b \in B
        BY <1>3, <2>1
      <3> QED BY <2>1, <3>1, <3>2
    <2>4. Regrown(h[i], L, P)
      BY <1>10
    <2>5. b \in B \ P /\ Parents(D, b) \subseteq P
      <3>1. /\ \A j \in 1..(i + 1) : log[j].id # b
            /\ \A p \in Parents(D, b) : \E j \in 1..(i + 1) : log[j].id = p
        <4>1. new(i + 2) /\ grounded(i + 2)
          BY <1>3, <2>1
        <4> QED BY <2>1, <4>1
      <3> QED BY <2>3, <3>1 DEF IdsTo
    <2>6. b # GenesisId
      <3>1. 1 \in 1..(i + 1) /\ log[1].id = GenesisId
        BY <1>2, <2>1
      <3> QED BY <2>5, <3>1 DEF IdsTo
    <2>7. P \cup {b} = IdsTo(log, (i + 1) + 1)
      BY <2>1 DEF IdsTo
    <2> HIDE DEF b, P
    <2>8. /\ h[i].dag # Failed /\ CanLedgerInsert(h[i], b, D.nodes[b].block)
          /\ Regrown(LedgerInsert(h[i], b, D.nodes[b].block), L, P \cup {b})
      BY <2>4, <2>5, <2>6, ReplayStep
    <2>9. h[i + 1] = LedgerInsert(h[i], b, D.nodes[b].block)
      BY <2>2, <2>3, <2>8 DEF Replaced, b
    <2> QED BY <2>1, <2>7, <2>8, <2>9
  <1>11. 0..m \subseteq S
    <2> HIDE DEF S, m
    <2> QED BY <1>5, <1>9, <1>10, NatSetTo
  <1>12. Regrown(h[m], L, B)
    <2>1. m \in 0..m /\ m + 1 = n
      BY <1>2
    <2>2. Regrown(h[m], L, IdsTo(log, n))
      BY <1>11, <2>1
    <2>3. IdsTo(log, n) = B
      <3>1. \A i \in 1..n : log[i].id \in B
        BY <1>3
      <3>2. \A b \in B : \E i \in 1..n : log[i].id = b
        BY DEF LogOf
      <3> HIDE DEF B
      <3> QED BY <3>1, <3>2 DEF IdsTo
    <2> QED BY <2>2, <2>3
  <1>13. h[m] = L
    <2> DEFINE A == h[m]
    <2>1. A.dag = D
      BY <1>1, <1>12, RegrowLast DEF Regrown
    <2>2. LedgerOK(A)
      BY <1>12 DEF Regrown
    <2> HIDE DEF A
    <2>3. A.states = L.states
      BY <1>1, <2>1, <2>2 DEF LedgerOK, StatesOK
    <2> QED BY <1>1, <2>1, <2>2, <2>3 DEF LedgerOK, A
  <1> QED
    BY <1>7, <1>8, <1>13

\* A log grows with the dag.
LEMMA LogGrows ==
    ASSUME NEW D, NEW log, NEW n, LogOf(D, log, n), NEW E, NEW r,
           r.id \notin Blocks(D), Blocks(E) = Blocks(D) \cup {r.id}, Within(D, E),
           E.nodes[r.id].block = r.block, r.block.parents \subseteq Blocks(D)
    PROVE  LogOf(E, Append(log, r), n + 1)
  <1> DEFINE q == Append(log, r)
             R == {log[i] : i \in 1..n}
             T == {q[i] : i \in 1..(n + 1)}
             B == Blocks(D)
             fresh(i) == \A j \in 1..(i - 1) : log[j].id # log[i].id
             grounded(i) == \A p \in Parents(D, log[i].id) : \E j \in 1..(i - 1) : log[j].id = p
  <1>1. /\ n \in Nat \ {0} /\ DOMAIN log = 1..n /\ log \in Seq(R) /\ log[1].id = GenesisId
        /\ \A i \in 1..n : log[i].id \in B /\ log[i].block = D.nodes[log[i].id].block
        /\ \A b \in B : \E i \in 1..n : log[i].id = b
        /\ \A i \in 2..n : fresh(i) /\ grounded(i)
    BY DEF LogOf
  <1>2. /\ q \in Seq(R \cup {r}) /\ Len(log) = n /\ DOMAIN q = 1..(n + 1) /\ q[n + 1] = r
        /\ \A i \in 1..n : q[i] = log[i]
    <2> HIDE DEF R
    <2>1. log \in Seq(R \cup {r}) /\ Len(log) = n
      BY <1>1
    <2> QED BY <1>1, <2>1
  <1>3. \A i \in 1..(n + 1) : i \in 1..n \/ i = n + 1
    BY <1>1
  <1>4. q \in Seq(T)
    <2>1. T = R \cup {r}
      <3>1. \A i \in 1..n : i \in 1..(n + 1)
        BY <1>1
      <3>2. n + 1 \in 1..(n + 1)
        BY <1>1
      <3> HIDE DEF q
      <3> QED BY <1>2, <1>3, <3>1, <3>2
    <2> QED BY <1>2, <2>1
  <1> HIDE DEF q, R, T
  <1>5. \A b \in B : b \in Blocks(E) /\ E.nodes[b] = D.nodes[b] /\ b # r.id
    BY DEF Within
  <1>6. \A i \in 1..(n + 1) : q[i].id \in Blocks(E) /\ q[i].block = E.nodes[q[i].id].block
    <2>1. \A i \in 1..n : q[i].id \in Blocks(E) /\ q[i].block = E.nodes[q[i].id].block
      BY <1>1, <1>2, <1>5
    <2> QED BY <1>2, <1>3, <2>1
  <1>7. \A b \in Blocks(E) : \E i \in 1..(n + 1) : q[i].id = b
    <2> SUFFICES ASSUME NEW b \in Blocks(E) PROVE \E i \in 1..(n + 1) : q[i].id = b
      OBVIOUS
    <2>1. CASE b = r.id
      <3>1. n + 1 \in 1..(n + 1)
        BY <1>1
      <3> QED BY <1>2, <2>1, <3>1
    <2>2. CASE b \in B
      <3>1. PICK i \in 1..n : log[i].id = b
        BY <1>1, <2>2
      <3>2. i \in 1..(n + 1)
        BY <1>1
      <3> QED BY <1>2, <3>1, <3>2
    <2> QED BY <2>1, <2>2
  <1>8. ASSUME NEW i \in 2..(n + 1)
        PROVE  /\ \A j \in 1..(i - 1) : q[j].id # q[i].id
               /\ \A p \in Parents(E, q[i].id) : \E j \in 1..(i - 1) : q[j].id = p
    <2>1. \A j \in 1..(i - 1) : j \in 1..n
      BY <1>1
    <2>2. CASE i \in 2..n
      <3>1. fresh(i) /\ grounded(i) /\ i \in 1..n
        <4>1. i \in 1..n
          BY <1>1, <2>2
        <4> HIDE DEF fresh, grounded
        <4>2. fresh(i) /\ grounded(i)
          BY <1>1, <2>2
        <4> QED BY <4>1, <4>2
      <3>2. q[i] = log[i] /\ \A j \in 1..(i - 1) : q[j] = log[j]
        BY <1>2, <2>1, <3>1
      <3>3. Parents(E, q[i].id) = Parents(D, log[i].id)
        BY <1>1, <1>5, <3>1, <3>2 DEF Parents
      <3> QED BY <3>1, <3>2, <3>3
    <2>3. CASE i = n + 1
      <3>1. i - 1 = n /\ q[i] = r
        BY <1>1, <1>2, <2>3
      <3>2. Parents(E, r.id) \subseteq B
        BY DEF Parents
      <3>3. \A j \in 1..n : q[j].id \in B
        BY <1>1, <1>2
      <3>4. \A p \in B : \E j \in 1..n : q[j].id = p
        BY <1>1, <1>2
      <3> HIDE DEF B
      <3> QED BY <1>5, <3>1, <3>2, <3>3, <3>4
    <2> QED BY <1>1, <2>2, <2>3
  <1>9. q[1].id = GenesisId /\ n + 1 \in Nat \ {0}
    <2>1. 1 \in 1..n
      BY <1>1
    <2> QED BY <1>1, <1>2, <2>1
  <1>10. LogOf(E, q, n + 1)
    BY <1>2, <1>4, <1>6, <1>7, <1>8, <1>9 DEF LogOf, T
  <1> QED
    BY <1>10 DEF q

\* A list of records, the first of them one of a genesis block.
Readout(log, n) ==
    /\ n \in Nat \ {0} /\ DOMAIN log = 1..n /\ log \in Seq({log[i] : i \in 1..n})
    /\ log[1].id = GenesisId /\ log[1].block = GenesisOver(log[1].block.txs)
    /\ \A i \in 1..n : log[i].id \in Nat /\ log[i].block.work \in Int

\* Whatever records a log has, what their replay gives, if it gives anything, is a ledger
\* that grew by insertions, and the log is a log of it.
LEMMA ReplayGrows ==
    ASSUME NEW n, NEW log, Readout(log, n), Replay(log).dag # Failed
    PROVE  Sound(Replay(log)) /\ LogOf(Replay(log).dag, log, n)
  <1> USE DEF Readout
  <1> DEFINE m == n - 1
             rest == Tail(log)
             first == LedgerOver(Head(log).block.txs)
             R == {log[i] : i \in 1..n}
             upto(k) == [i \in 1..k |-> log[i]]
  <1> HIDE DEF R
  <1>1. log \in Seq(R) /\ Len(log) = n /\ log # <<>>
    BY DEF R
  <1>2. /\ Len(rest) = m /\ Head(log) = log[1] /\ m \in Nat /\ DOMAIN rest = 1..m
        /\ \A i \in 1..m : rest[i] = log[i + 1]
    BY <1>1
  <1>3. Replay(log) = Replaying!Fold(0, first, rest)
    BY DEF Replay, Replaced, Replaying!Fold, FoldLeft, MapThenFoldSet, Max, Replaying!Largest
  <1> DEFINE txs == log[1].block.txs
  <1>4. first = LedgerOver(txs)
    BY <1>2
  <1> HIDE DEF rest, first
  <1>5. PICK h : Replaying!Steps(0, first, rest, m, h) /\ Replaying!Fold(0, first, rest) = h[m]
    <2>1. m \in Nat /\ DOMAIN rest = 1..m
      BY <1>2
    <2> HIDE DEF m
    <2> QED BY <2>1, Replaying!FoldSteps
  <1> DEFINE S == {i \in Nat : h[i].dag # Failed =>
                                   Sound(h[i]) /\ LogOf(h[i].dag, upto(i + 1), i + 1)}
  <1>6. 0 \in S
    <2> DEFINE D == LedgerOver(txs).dag
               q == upto(1)
    <2>1. Sound(LedgerOver(txs)) /\ Blocks(D) = {GenesisId} /\ D.nodes[GenesisId].block = GenesisOver(txs)
      BY GenesisSound
    <2>2. h[0] = LedgerOver(txs)
      BY <1>4, <1>5 DEF Replaying!Steps
    <2>3. DOMAIN q = 1..1 /\ q[1] = log[1] /\ 1..1 = {1} /\ 2..1 = {}
      OBVIOUS
    <2>4. q \in Seq({q[i] : i \in 1..1})
      BY <2>3
    <2>5. q[1].id = GenesisId /\ q[1].block = GenesisOver(txs)
      BY <2>3
    <2> HIDE DEF D, q, txs
    <2>6. LogOf(D, q, 1)
      BY <2>1, <2>3, <2>4, <2>5 DEF LogOf
    <2>7. 0 + 1 = 1
      OBVIOUS
    <2> QED BY <2>1, <2>2, <2>6, <2>7 DEF D, q
  <1>7. ASSUME NEW i \in 0..(m - 1), i \in S PROVE i + 1 \in S
    <2> DEFINE r == log[i + 2]
               A == h[i]
               E == h[i + 1]
    <2>1. /\ i + 1 \in 1..m /\ (i + 1) - 1 = i /\ i + 1 \in Nat /\ i + 2 \in 1..n
          /\ (i + 1) + 1 = i + 2
      BY <1>2
    <2>2. E = Replaced(0, A, r)
      BY <1>2, <1>5, <2>1 DEF Replaying!Steps
    <2>3. r.id \in Nat /\ r.block.work \in Int
      BY <2>1
    <2>4. A.dag # Failed => Sound(A) /\ LogOf(A.dag, upto(i + 1), i + 1)
      BY <1>7
    <2>5. Append(upto(i + 1), r) = upto((i + 1) + 1)
      BY <2>1
    <2> HIDE DEF r, A, E
    <2>6. ASSUME E.dag # Failed PROVE Sound(E) /\ LogOf(E.dag, upto((i + 1) + 1), (i + 1) + 1)
      <3>1. A.dag # Failed /\ CanLedgerInsert(A, r.id, r.block) /\ E = LedgerInsert(A, r.id, r.block)
        BY <2>2, <2>6 DEF Replaced, FailedLedger
      <3>2. Sound(A) /\ LogOf(A.dag, upto(i + 1), i + 1)
        BY <2>4, <3>1
      <3>3. CanInsert(A.dag, r.id, r.block) /\ GenesisId \in Blocks(A.dag)
        BY <3>1, <3>2 DEF CanLedgerInsert, Sound, LedgerOK, DagOK
      <3>4. r.id \in Nat \ {GenesisId} /\ r.id \notin Blocks(A.dag) /\ r.block.parents \subseteq Blocks(A.dag)
        BY <2>3, <3>3 DEF CanInsert
      <3>5. /\ Sound(E) /\ Blocks(E.dag) = Blocks(A.dag) \cup {r.id} /\ Within(A.dag, E.dag)
            /\ E.dag.nodes[r.id].block = r.block
        <4> DEFINE id == r.id
                   block == r.block
        <4>1. Takes(A, id, block) /\ E = LedgerInsert(A, id, block)
          BY <2>3, <3>1, <3>4 DEF Takes
        <4> HIDE DEF id, block
        <4>2. /\ Sound(LedgerInsert(A, id, block))
              /\ Blocks(LedgerInsert(A, id, block).dag) = Blocks(A.dag) \cup {id}
              /\ Within(A.dag, LedgerInsert(A, id, block).dag)
              /\ LedgerInsert(A, id, block).dag.nodes[id].block = block
          <5>1. Sound(A)
            BY <3>2
          <5> QED BY <4>1, <5>1, InsertSound
        <4> QED BY <4>1, <4>2 DEF id, block
      <3> HIDE DEF upto
      <3>6. LogOf(E.dag, Append(upto(i + 1), r), (i + 1) + 1)
        BY <3>2, <3>4, <3>5, LogGrows
      <3> QED BY <2>5, <3>5, <3>6
    <2> QED BY <2>1, <2>6 DEF E
  <1>8. 0..m \subseteq S
    <2> HIDE DEF S, m
    <2> QED BY <1>2, <1>6, <1>7, NatSetTo
  <1>9. m \in 0..m /\ m + 1 = n
    BY <1>2
  <1>10. upto(n) = log
    BY <1>1
  <1>11. h[m].dag # Failed => Sound(h[m]) /\ LogOf(h[m].dag, upto(m + 1), m + 1)
    BY <1>8, <1>9
  <1> HIDE DEF upto, m
  <1> QED
    BY <1>3, <1>5, <1>9, <1>10, <1>11

\* A snapshot is such a log.
LEMMA SnapshotLog ==
    ASSUME NEW D, DagOK(D)
    PROVE  LogOf(D, WriteSnapshot(D), Cardinality(Blocks(D)))
  <1> DEFINE s == Linearize(D)
             B == Blocks(D)
             n == Cardinality(B)
             log == WriteSnapshot(D)
             R == {log[i] : i \in 1..n}
  <1>1. /\ s \in Seq(B) /\ Len(s) = n /\ n \in Nat \ {0} /\ s[1] = GenesisId /\ FirstOf(s, n) = B
        /\ \A i \in 2..n : /\ s[i] \in B \ FirstOf(s, i - 1) /\ s[i] # GenesisId
                           /\ Parents(D, s[i]) \subseteq FirstOf(s, i - 1)
    BY LinearizeGrows
  <1>2. log = [i \in DOMAIN s |-> [id |-> s[i], block |-> D.nodes[s[i]].block]]
    BY DEF WriteSnapshot
  <1> HIDE DEF s, n, B, log
  <1>3. DOMAIN s = 1..n /\ \A i \in 1..n : s[i] \in B
    BY <1>1
  <1>4. log \in [1..n -> R] /\ \A i \in 1..n : log[i].id = s[i] /\ log[i].block = D.nodes[s[i]].block
    BY <1>2, <1>3
  <1> HIDE DEF R
  <1>5. log \in Seq(R) /\ DOMAIN log = 1..n
    BY <1>1, <1>4
  <1>6. \A b \in B : \E i \in 1..n : log[i].id = b
    BY <1>1, <1>4 DEF FirstOf
  <1>7. ASSUME NEW i \in 2..n
        PROVE  /\ \A j \in 1..(i - 1) : log[j].id # log[i].id
               /\ \A p \in Parents(D, log[i].id) : \E j \in 1..(i - 1) : log[j].id = p
    <2>1. i \in 1..n /\ \A j \in 1..(i - 1) : j \in 1..n
      BY <1>1
    <2>2. s[i] \notin FirstOf(s, i - 1) /\ Parents(D, s[i]) \subseteq FirstOf(s, i - 1)
      BY <1>1
    <2>3. log[i].id = s[i] /\ \A j \in 1..(i - 1) : log[j].id = s[j]
      BY <1>4, <2>1
    <2> QED BY <2>2, <2>3 DEF FirstOf
  <1>8. \A i \in 1..n : log[i].id \in B /\ log[i].block = D.nodes[log[i].id].block
    BY <1>3, <1>4
  <1>9. log[1].id = GenesisId
    BY <1>1, <1>4
  <1>10. LogOf(D, log, n)
    BY <1>1, <1>5, <1>6, <1>7, <1>8, <1>9 DEF LogOf, B, R
  <1> QED
    BY <1>10 DEF log, n, B

----------------------------------------------------------------------------
(***************************************************************************)
(* Two ledgers.                                                            *)
(***************************************************************************)

\* What two ledgers have of the same blocks, they have in the same way: blocks make the
\* ledger, and not the order in which they came.
LEMMA SameLedger ==
    ASSUME NEW L, Sound(L), NEW M, Sound(M), Blocks(L.dag) = Blocks(M.dag),
           \A b \in Blocks(L.dag) : L.dag.nodes[b].block = M.dag.nodes[b].block
    PROVE  L = M
  <1> DEFINE log == WriteSnapshot(L.dag)
             n == Cardinality(Blocks(L.dag))
  <1>1. DagOK(L.dag)
    BY DEF Sound, LedgerOK
  <1>2. LogOf(L.dag, log, n)
    BY <1>1, SnapshotLog
  <1> HIDE DEF log, n
  <1>3. \A b \in Blocks(L.dag) : Parents(L.dag, b) = Parents(M.dag, b)
    BY DEF Parents
  <1>4. LogOf(M.dag, log, n)
    <2> DEFINE fresh(i) == \A j \in 1..(i - 1) : log[j].id # log[i].id
               grounded(D, i) == \A p \in Parents(D, log[i].id) : \E j \in 1..(i - 1) : log[j].id = p
    <2>1. /\ n \in Nat \ {0} /\ DOMAIN log = 1..n /\ log \in Seq({log[i] : i \in 1..n})
          /\ log[1].id = GenesisId
          /\ \A i \in 1..n : log[i].id \in Blocks(L.dag) /\ log[i].block = L.dag.nodes[log[i].id].block
          /\ \A b \in Blocks(L.dag) : \E i \in 1..n : log[i].id = b
      BY <1>2 DEF LogOf
    <2>2. \A i \in 2..n : fresh(i) /\ grounded(L.dag, i)
      BY <1>2 DEF LogOf
    <2>3. ASSUME NEW i \in 2..n PROVE grounded(M.dag, i)
      <3>1. i \in 1..n
        BY <2>1
      <3>2. Parents(M.dag, log[i].id) = Parents(L.dag, log[i].id)
        BY <1>3, <2>1, <3>1
      <3>3. grounded(L.dag, i)
        BY <2>2
      <3> QED BY <3>2, <3>3
    <2>4. \A i \in 1..n : log[i].id \in Blocks(M.dag) /\ log[i].block = M.dag.nodes[log[i].id].block
      BY <2>1
    <2>5. \A b \in Blocks(M.dag) : \E i \in 1..n : log[i].id = b
      BY <2>1
    <2>6. \A i \in 2..n : fresh(i) /\ grounded(M.dag, i)
      BY <2>2, <2>3
    <2> QED BY <2>1, <2>4, <2>5, <2>6 DEF LogOf
  <1> QED
    BY <1>2, <1>4, ReplayLog

\* A ledger that has the block, or has taken it.
Took(A, b, block) == IF b \in Blocks(A.dag) THEN A ELSE LedgerInsert(A, b, block)

\* C is a ledger of what L and A have in common.  A takes every block of L that C has
\* the parents of, whatever else it has.
LEMMA TakesToo ==
    ASSUME NEW L, Sound(L), NEW A, Sound(A), NEW C, NEW S, Regrown(C, L, S), Regrown(C, A, S),
           NEW b \in Blocks(L.dag) \ S, b # GenesisId, Parents(L.dag, b) \subseteq S,
           NEW block, block = L.dag.nodes[b].block,
           b \in Blocks(A.dag) => A.dag.nodes[b].block = block
    PROVE  /\ b \notin Blocks(A.dag) => Takes(A, b, block)
           /\ Sound(Took(A, b, block))
           /\ Blocks(Took(A, b, block).dag) = Blocks(A.dag) \cup {b}
           /\ Within(A.dag, Took(A, b, block).dag)
           /\ Took(A, b, block).dag.nodes[b].block = block
           /\ Regrown(LedgerInsert(C, b, block), L, S \cup {b})
           /\ Regrown(LedgerInsert(C, b, block), Took(A, b, block), S \cup {b})
  <1> DEFINE D == L.dag
             ps == block.parents
             B == Took(A, b, block)
  <1>1. Regrown(LedgerInsert(C, b, block), L, S \cup {b})
    BY ReplayStep
  <1>2. /\ DagOK(D) /\ DagOK(A.dag) /\ DagOK(C.dag) /\ LedgerOK(A) /\ Admitted(D)
        /\ Within(C.dag, D) /\ Within(C.dag, A.dag) /\ Blocks(C.dag) = S
    BY DEF Sound, LedgerOK, Regrown, Grown
  <1>3. /\ b \in Nat \ {GenesisId} /\ block.work \in Int /\ ps = Parents(D, b)
        /\ block.txs = TxsAt(D, b)
    BY <1>2 DEF DagOK, NodeOK, Work, Parents, TxsAt
  <1>4. ps \in SUBSET Blocks(C.dag) /\ ps # {} /\ ps \subseteq Blocks(A.dag)
    BY <1>2, <1>3, ParentSelected DEF Within
  <1>5. Found(C.dag, ps) = Found(D, ps) /\ Found(C.dag, ps) = Found(A.dag, ps)
    BY <1>2, <1>4, FoundWithin
  <1>6. ASSUME b \notin Blocks(A.dag) PROVE Takes(A, b, block)
    <2>1. CanInsert(A.dag, b, block)
      BY <1>4, <1>6 DEF CanInsert
    <2>2. PreState(A, block) = Found(A.dag, ps)
      BY <1>2, <1>3, <2>1, InsertLedger DEF Found
    <2>3. ApplyBlock(Found(D, ps), block.txs).ok /\ ValidStructure(block.txs)
      BY <1>2, <1>3 DEF Admitted
    <2>4. CanLedgerInsert(A, b, block)
      BY <1>5, <2>1, <2>2, <2>3 DEF CanLedgerInsert
    <2> QED BY <1>3, <2>4 DEF Takes
  <1>7. /\ Sound(B) /\ Blocks(B.dag) = Blocks(A.dag) \cup {b} /\ Within(A.dag, B.dag)
        /\ B.dag.nodes[b].block = block
    <2>1. CASE b \in Blocks(A.dag)
      <3>1. B = A
        BY <2>1 DEF Took
      <3> QED BY <2>1, <3>1 DEF Within
    <2>2. CASE b \notin Blocks(A.dag)
      <3>1. B = LedgerInsert(A, b, block) /\ Takes(A, b, block)
        BY <1>6, <2>2 DEF Took
      <3> QED BY <3>1, InsertSound
    <2> QED BY <2>1, <2>2
  <1> HIDE DEF B
  <1>8. Regrown(C, B, S)
    <2>1. Within(C.dag, B.dag)
      BY <1>2, <1>7 DEF Within
    <2> QED BY <2>1 DEF Regrown, Grown
  <1>9. Parents(B.dag, b) = ps
    BY <1>7 DEF Parents
  <1>10. Regrown(LedgerInsert(C, b, block), B, S \cup {b})
    <2>1. b \in Blocks(B.dag) \ S /\ Parents(B.dag, b) \subseteq S
      BY <1>2, <1>4, <1>7, <1>9
    <2> QED BY <1>7, <1>8, <2>1, ReplayStep
  <1> QED
    BY <1>1, <1>6, <1>7, <1>10 DEF B
=============================================================================

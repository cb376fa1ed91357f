---------------------------- MODULE LedgerProofs ----------------------------
(***************************************************************************)
(* Proofs about module Ledger, for every k, payloads of any kind and any   *)
(* number of blocks: the state kept for a block is the ledger of its past, *)
(* the ledger state is that of the whole dag, value comes only from        *)
(* subsidies, no output is spent twice, and a replay of the blocks in any  *)
(* order that has parents first, or of the bytes of a snapshot or a log,   *)
(* gives the ledger back.                                                  *)
(***************************************************************************)
EXTENDS LedgerStore, LedgerTheorems

----------------------------------------------------------------------------
(***************************************************************************)
(* The invariant.                                                          *)
(***************************************************************************)

\* The inductive invariant.
LedgerInv == Sound(ledger)

\* It holds of the first ledger.
LEMMA LedgerInit == Init => LedgerInv
  BY GenesisSound DEF Init, NewLedger, LedgerInv

\* Every insertion keeps it.
LEMMA LedgerStep == LedgerInv /\ [Next]_vars => LedgerInv'
  <1> SUFFICES ASSUME Sound(ledger), [Next]_vars PROVE Sound(ledger')
    BY DEF LedgerInv
  <1>1. CASE Next
    <2>1. PICK id \in Ids, w \in Works, ps \in ParentSets, txs \in Payloads :
              Insert(id, [parents |-> ps, work |-> w, timestamp |-> 0, txs |-> txs])
      BY <1>1 DEF Next
    <2> DEFINE block == [parents |-> ps, work |-> w, timestamp |-> 0, txs |-> txs]
    <2>2. id \in Nat \ {GenesisId} /\ block.work \in Int
      BY LedgerAssumption
    <2> HIDE DEF block
    <2>3. CanLedgerInsert(ledger, id, block) /\ ledger' = LedgerInsert(ledger, id, block)
      BY <2>1 DEF Insert, block
    <2>4. Takes(ledger, id, block)
      BY <2>2, <2>3 DEF Takes
    <2> QED BY <2>3, <2>4, InsertSound
  <1>2. CASE UNCHANGED vars
    BY <1>2 DEF vars
  <1> QED
    BY <1>1, <1>2

\* Every reachable ledger is so.
LEMMA LedgerInvariance == Spec => []LedgerInv
  BY LedgerInit, LedgerStep, PTL DEF Spec

----------------------------------------------------------------------------
(***************************************************************************)
(* The theorems.                                                           *)
(***************************************************************************)

\* The state kept for every block is what a node that has only the block and its past
\* computes from nothing (ledger.rs: insert).
THEOREM StatesOfViews == Spec => []StatesAreViews
  <1>1. LedgerInv => StatesAreViews
    <2> SUFFICES ASSUME LedgerOK(ledger), NEW b \in Blocks(ledger.dag)
                 PROVE  ledger.states[b] = ApplyDag(ViewOf(b)).utxo
      BY DEF StatesAreViews, LedgerInv, Sound
    <2> DEFINE D == ledger.dag
               V == View(D, b)
    <2>1. DagOK(D) /\ ledger.states[b] = StateAt(D, b)
      BY DEF LedgerOK, StatesOK
    <2>2. ViewOf(b) = V
      BY DEF ViewOf, View
    <2>3. DagOK(V) /\ Within(V, D) /\ Blocks(V) = Boundary(D, b) /\ Linearize(V) = SpineTo(D, b)
      BY <2>1, ViewOrder
    <2>4. SpineTo(D, b) \in Seq(Blocks(V)) 
      BY <2>1, <2>3, SpineLists, ListsSeq
    <2> HIDE DEF V, D
    <2>5. ApplyDag(V).utxo = ApplyAll(V, <<>>, SpineTo(D, b))
      <3>1. Len(Linearize(V)) \in Nat /\ DOMAIN Linearize(V) = 1..Len(Linearize(V))
        BY <2>3, <2>4
      <3> QED BY <2>3, <3>1, ApplyDagUtxo
    <2>6. ApplyAll(V, <<>>, SpineTo(D, b)) = ApplyAll(D, <<>>, SpineTo(D, b))
      BY <2>3, <2>4, ApplyWithin
    <2> QED BY <2>1, <2>2, <2>5, <2>6 DEF StateAt
  <1> QED
    BY <1>1, LedgerInvariance, PTL

\* ledger_state, put together from the selected tip's state, is what applying the whole
\* dag from nothing gives (ledger.rs: ledger_state, apply_dag).
THEOREM StateOfReplay == Spec => []StateEqualsReplay
  <1>1. LedgerInv => StateEqualsReplay
    <2> SUFFICES ASSUME LedgerOK(ledger) PROVE StateEqualsReplay
      BY DEF LedgerInv, Sound
    <2> DEFINE D == ledger.dag
               tip == SelectedTip(D)
               s == SpineTo(D, tip)
               r == SortByTopoKey(D, Unmerged(D))
               B == Blocks(D)
    <2>1. DagOK(D) /\ ledger.states = [b \in Blocks(D) |-> StateAt(D, b)]
      BY DEF LedgerOK, StatesOK
    <2>2. /\ tip \in B /\ Linearize(D) = s \o r /\ Lists(D, s, Boundary(D, tip))
          /\ Lists(D, r, Unmerged(D)) /\ Lists(D, s \o r, B)
      BY <2>1, LinearizeParts
    <2>3. s \in Seq(B) /\ r \in Seq(B)
      <3>1. s \in Seq(Boundary(D, tip)) /\ r \in Seq(Unmerged(D))
        BY <2>2, ListsSeq
      <3>2. Boundary(D, tip) \subseteq B /\ Unmerged(D) \subseteq B
        BY <2>1, <2>2 DEF DagOK, NodeOK, Boundary, Unmerged
      <3> HIDE DEF s, r
      <3> QED BY <3>1, <3>2
    <2>4. s # <<>> /\ s[Len(s)] = tip
      <3>1. CASE tip = GenesisId
        <4>1. s = <<tip>>
          BY <2>1, <2>2, <3>1, SpineStep
        <4> QED BY <4>1
      <3>2. CASE tip # GenesisId
        <4> DEFINE f == SpineTo(D, SelectedParent(D, tip))
                          \o MergesetOrdered(D, SelectedParent(D, tip), Parents(D, tip))
        <4>1. s = f \o <<tip>>
          BY <2>1, <2>2, <3>2, SpineStep
        <4>2. f \in Seq(B)
          BY <2>1, <2>2, <3>2, FrontOfSpine
        <4> HIDE DEF f, s
        <4> QED BY <4>1, <4>2
      <3> QED BY <3>1, <3>2
    <2>5. Distinct(s \o r)
      <3>1. Len(s \o r) = Cardinality(B)
        BY <2>2, ListsSeq
      <3> QED BY <2>2, <3>1 DEF Lists, Distinct
    <2>6. ledger.states[tip] = ApplyAll(D, <<>>, s)
      BY <2>1, <2>2 DEF StateAt
    <2> HIDE DEF s, r, tip, D
    <2>7. LedgerState(ledger) = ApplyAll(D, ApplyAll(D, <<>>, s), r)
      <3> DEFINE after == After(s \o r, tip)
      <3>1. after = r
        BY <2>3, <2>4, <2>5, RestAfter
      <3>2. LedgerState(ledger) = ApplyAll(D, ledger.states[tip], after)
        BY <2>2 DEF LedgerState, D, tip, After
      <3> HIDE DEF after
      <3> QED BY <2>6, <3>1, <3>2
    <2>8. ApplyDag(D).utxo = ApplyAll(D, <<>>, s \o r)
      <3>1. Len(s \o r) \in Nat /\ DOMAIN (s \o r) = 1..Len(s \o r)
        BY <2>3
      <3> QED BY <2>2, <3>1, ApplyDagUtxo
    <2>9. ApplyAll(D, <<>>, s \o r) = ApplyAll(D, ApplyAll(D, <<>>, s), r)
      BY <2>3, ApplyConcat
    <2> QED BY <2>7, <2>8, <2>9 DEF StateEqualsReplay, D
  <1> QED
    BY <1>1, LedgerInvariance, PTL

----------------------------------------------------------------------------
(***************************************************************************)
(* The supply.                                                             *)
(***************************************************************************)

\* The values of the outputs of a set.
Values(utxo) == [op \in DOMAIN utxo |-> utxo[op].value]

\* The sums of the model are sums.
LEMMA ValuesSummed ==
    ASSUME NEW utxo, NEW S \in SUBSET DOMAIN utxo
    PROVE  MapThenSumSet(LAMBDA op : utxo[op].value, S) = Sum(Values(utxo), S)
  <1> DEFINE P(it) == it = [t \in SUBSET S |-> IF t = {} THEN 0
                                              ELSE utxo[Picked(t)].value + it[t \ {Picked(t)}]]
             Q(it) == IsSum(Values(utxo), S, it)
  <1>1. \A t \in SUBSET S : t # {} => Values(utxo)[Picked(t)] = utxo[Picked(t)].value
    BY DEF Values, Picked
  <1>2. ASSUME NEW it PROVE P(it) <=> Q(it)
    <2> DEFINE p(t) == IF t = {} THEN 0 ELSE utxo[Picked(t)].value + it[t \ {Picked(t)}]
               q(t) == SumStep(Values(utxo), it, t)
    <2>1. \A t \in SUBSET S : p(t) = q(t)
      BY <1>1 DEF SumStep
    <2>2. P(it) <=> it = [t \in SUBSET S |-> p(t)]
      OBVIOUS
    <2>3. Q(it) <=> it = [t \in SUBSET S |-> q(t)]
      BY DEF IsSum
    <2> HIDE DEF p, q, P, Q
    <2> QED BY <2>1, <2>2, <2>3
  <1>3. MapThenSumSet(LAMBDA op : utxo[op].value, S) = (CHOOSE it : P(it))[S]
    BY DEF MapThenSumSet, MapThenFoldSet, Picked
  <1>4. Sum(Values(utxo), S) = (CHOOSE it : Q(it))[S]
    BY DEF Sum, MapThenSumSet, MapThenFoldSet, IsSum, SumStep, Picked
  <1> HIDE DEF P, Q
  <1>5. (CHOOSE it : P(it)) = (CHOOSE it : Q(it))
    BY <1>2
  <1> QED
    BY <1>3, <1>4, <1>5

\* A set of outputs as the rules build them.
UtxoOK(utxo) == IsFiniteSet(DOMAIN utxo) /\ \A op \in DOMAIN utxo : utxo[op].value \in Nat

\* What it holds in total, and what some of its outputs hold.
LEMMA TotalOf ==
    ASSUME NEW utxo, UtxoOK(utxo), NEW S \in SUBSET DOMAIN utxo
    PROVE  /\ IsFiniteSet(S) /\ Numbers(Values(utxo), DOMAIN utxo)
           /\ MapThenSumSet(LAMBDA op : utxo[op].value, S) = Sum(Values(utxo), S)
           /\ Sum(Values(utxo), S) \in Nat
           /\ TotalValue(utxo) = Sum(Values(utxo), DOMAIN utxo) /\ TotalValue(utxo) \in Nat
  <1>1. IsFiniteSet(S) /\ IsFiniteSet(DOMAIN utxo)
    BY FS_Subset DEF UtxoOK
  <1>2. \A op \in DOMAIN utxo : Values(utxo)[op] \in Nat
    BY DEF UtxoOK, Values
  <1>3. Numbers(Values(utxo), DOMAIN utxo)
    BY <1>2 DEF Numbers
  <1>4. Sum(Values(utxo), S) \in Nat /\ Sum(Values(utxo), DOMAIN utxo) \in Nat
    BY <1>1, <1>2, SumSame
  <1>5. DOMAIN utxo \in SUBSET DOMAIN utxo
    OBVIOUS
  <1>6. TotalValue(utxo) = Sum(Values(utxo), DOMAIN utxo)
    BY <1>5, ValuesSummed DEF TotalValue
  <1> QED
    BY <1>1, <1>3, <1>4, <1>6, ValuesSummed

\* The outputs of a transaction are listed and have values.
LEMMA OutputsTyped ==
    ASSUME NEW tx \in Transactions
    PROVE  /\ Len(tx.outputs) \in Nat /\ DOMAIN tx.outputs = 1..Len(tx.outputs)
           /\ \A i \in DOMAIN tx.outputs : tx.outputs[i].value \in Nat
  <1> DEFINE O == [value : 0..MaxValue, owner : Owners]
             s == tx.outputs
  <1>1. s \in Seq(O)
    BY DEF Transactions
  <1>2. \A o \in O : o.value \in Nat
    BY UtxoAssumption
  <1> HIDE DEF O, s
  <1>3. Len(s) \in Nat /\ DOMAIN s = 1..Len(s) /\ \A i \in DOMAIN s : s[i] \in O
    BY <1>1
  <1> QED
    BY <1>2, <1>3 DEF s

\* total's step.
AddValue(d, sum, o) == sum + o.value
Valuing == INSTANCE DataTheorems WITH FoldStep <- AddValue

\* The first n outpoints of the transaction id.
FirstPoints(id, n) == {<<id, i>> : i \in 1..n}

\* The outputs of a transaction are worth the sum of its outpoints.
LEMMA OutputsSummed ==
    ASSUME NEW tx \in Transactions, NEW v,
           \A i \in DOMAIN tx.outputs : v[<<tx.id, i>>] = tx.outputs[i].value
    PROVE  /\ SumOut(tx) \in Nat /\ IsFiniteSet(OutPoints(tx))
           /\ Sum(v, OutPoints(tx)) = SumOut(tx)
  <1> DEFINE s == tx.outputs
             n == Len(s)
             P(i) == FirstPoints(tx.id, i)
  <1>2. n \in Nat /\ DOMAIN s = 1..n /\ \A i \in 1..n : s[i].value \in Nat
    BY OutputsTyped
  <1>3. SumOut(tx) = Valuing!Fold(0, 0, s)
    BY DEF SumOut, AddValue, Valuing!Fold, FoldLeft, MapThenFoldSet, Max, Valuing!Largest
  <1>4. OutPoints(tx) = P(n)
    BY <1>2 DEF OutPoints, FirstPoints
  <1> HIDE DEF n, s
  <1>5. PICK h : Valuing!Steps(0, 0, s, n, h) /\ Valuing!Fold(0, 0, s) = h[n]
    BY <1>2, Valuing!FoldSteps
  <1>6. h[0] = 0 /\ \A i \in 1..n : h[i] = h[i - 1] + s[i].value
    BY <1>5 DEF Valuing!Steps, AddValue
  <1> DEFINE Good(i) == h[i] \in Nat /\ IsFiniteSet(P(i)) /\ Sum(v, P(i)) = h[i]
                        /\ \A x \in P(i) : v[x] \in Int
             S == {i \in Nat : Good(i)}
  <1>7. 0 \in S
    <2>1. P(0) = {}
      BY DEF FirstPoints
    <2>2. Sum(v, {}) = 0 /\ IsFiniteSet({})
      BY SumEmpty, FS_EmptySet
    <2>3. h[0] \in Nat /\ IsFiniteSet(P(0)) /\ Sum(v, P(0)) = h[0]
      BY <1>6, <2>1, <2>2
    <2>4. \A x \in P(0) : v[x] \in Int
      BY <2>1
    <2> HIDE DEF P
    <2>5. Good(0)
      BY <2>3, <2>4
    <2> HIDE DEF Good
    <2> QED BY <2>5
  <1>8. ASSUME NEW i \in 0..(n - 1), i \in S PROVE i + 1 \in S
    <2> DEFINE x == <<tx.id, i + 1>>
               R == P(i)
    <2>1. i \in Nat /\ i + 1 \in 1..n /\ (i + 1) - 1 = i /\ i + 1 \in Nat
      BY <1>2
    <2>2. P(i + 1) = R \cup {x} /\ x \notin R
      BY <2>1 DEF FirstPoints
    <2>3. v[x] = s[i + 1].value /\ s[i + 1].value \in Nat
      BY <1>2, <2>1 DEF s
    <2>4. Good(i)
      BY <1>8
    <2> HIDE DEF x, R
    <2>5. Numbers(v, R \cup {x})
      BY <2>3, <2>4 DEF Numbers, R
    <2>6. Sum(v, R \cup {x}) = Sum(v, R) + v[x] /\ IsFiniteSet(R \cup {x})
      BY <2>2, <2>4, <2>5, SumAdd, FS_AddElement DEF R
    <2>7. h[i + 1] = h[i] + s[i + 1].value
      BY <1>6, <2>1
    <2>8. h[i + 1] \in Nat /\ Sum(v, R \cup {x}) = h[i + 1]
      BY <2>3, <2>4, <2>6, <2>7 DEF R
    <2>9. \A y \in R \cup {x} : v[y] \in Int
      BY <2>5 DEF Numbers
    <2> HIDE DEF P
    <2> QED BY <2>1, <2>2, <2>6, <2>8, <2>9
  <1>9. 0..n \subseteq S
    <2> HIDE DEF S
    <2> QED BY <1>2, <1>7, <1>8, NatSetTo
  <1>10. Good(n)
    BY <1>2, <1>9
  <1> QED
    BY <1>3, <1>4, <1>5, <1>10

\* New outputs add what they are worth.
LEMMA OutputsAdded ==
    ASSUME NEW utxo, UtxoOK(utxo), NEW tx \in Transactions, NEW value,
           AddOutputs(utxo, tx, value).ok
    PROVE  /\ UtxoOK(AddOutputs(utxo, tx, value).utxo)
           /\ TotalValue(AddOutputs(utxo, tx, value).utxo) = TotalValue(utxo) + SumOut(tx)
           /\ AddOutputs(utxo, tx, value).value = value
           /\ SumOut(tx) \in Nat
  <1> DEFINE out == OutPoints(tx)
             dom == DOMAIN utxo
             new == [op \in dom \cup out |-> IF op \in out THEN tx.outputs[op[2]] ELSE utxo[op]]
  <1>1. out \cap dom = {} /\ AddOutputs(utxo, tx, value) = Applied(new, value)
    BY DEF AddOutputs, Rejected
  <1>2. \A i \in DOMAIN tx.outputs : <<tx.id, i>> \in out /\ new[<<tx.id, i>>] = tx.outputs[i]
    BY DEF OutPoints
  <1>3. \A op \in dom : new[op] = utxo[op]
    BY <1>1
  <1>4. DOMAIN new = dom \cup out
    OBVIOUS
  <1> HIDE DEF new
  <1>5. \A i \in DOMAIN tx.outputs : Values(new)[<<tx.id, i>>] = tx.outputs[i].value
    BY <1>2, <1>4 DEF Values
  <1>6. SumOut(tx) \in Nat /\ IsFiniteSet(out) /\ Sum(Values(new), out) = SumOut(tx)
    BY <1>5, OutputsSummed
  <1>7. UtxoOK(new)
    <2>1. IsFiniteSet(dom \cup out)
      BY <1>6, FS_Union DEF UtxoOK
    <2>2. ASSUME NEW op \in out PROVE new[op].value \in Nat
      <3>1. PICK i \in DOMAIN tx.outputs : op = <<tx.id, i>>
        BY DEF OutPoints
      <3> QED BY <1>2, <3>1, OutputsTyped
    <2> QED BY <1>3, <1>4, <2>1, <2>2 DEF UtxoOK
  <1>8. TotalValue(new) = Sum(Values(new), dom) + Sum(Values(new), out)
    <2>1. TotalValue(new) = Sum(Values(new), DOMAIN new) /\ Numbers(Values(new), dom \cup out)
      BY <1>4, <1>7, TotalOf
    <2>2. IsFiniteSet(dom)
      BY DEF UtxoOK
    <2>3. Sum(Values(new), dom \cup out) = Sum(Values(new), dom) + Sum(Values(new), out)
      BY <1>1, <1>6, <2>1, <2>2, SumUnion
    <2> QED BY <1>4, <2>1, <2>3
  <1>9. Sum(Values(new), dom) = TotalValue(utxo)
    <2>1. \A op \in dom : Values(new)[op] = Values(utxo)[op] /\ Values(new)[op] \in Nat
      BY <1>3, <1>4, <1>7 DEF Values, UtxoOK
    <2>2. Sum(Values(new), dom) = Sum(Values(utxo), dom)
      BY <2>1, SumSame DEF UtxoOK
    <2> QED BY <2>2, TotalOf
  <1> QED
    BY <1>1, <1>6, <1>7, <1>8, <1>9 DEF Applied

\* A spend moves value and pays the rest as its fee.
LEMMA SpendConserves ==
    ASSUME NEW utxo, UtxoOK(utxo), NEW tx \in Transactions, ApplyRegular(utxo, tx).ok
    PROVE  /\ UtxoOK(ApplyRegular(utxo, tx).utxo)
           /\ ApplyRegular(utxo, tx).value \in Nat
           /\ TotalValue(ApplyRegular(utxo, tx).utxo) + ApplyRegular(utxo, tx).value = TotalValue(utxo)
  <1> DEFINE dom == DOMAIN utxo
             spent == Spent(tx)
             rest == [op \in dom \ spent |-> utxo[op]]
             fee == SumIn(utxo, tx) - SumOut(tx)
  <1>1. /\ spent \in SUBSET dom /\ SumOut(tx) <= SumIn(utxo, tx)
        /\ ApplyRegular(utxo, tx) = AddOutputs(rest, tx, fee)
    BY DEF ApplyRegular, Rejected, ValidSpend
  <1>2. UtxoOK(rest)
    <2>1. IsFiniteSet(dom \ spent)
      BY FS_Subset DEF UtxoOK
    <2> QED BY <2>1 DEF UtxoOK
  <1>3. DOMAIN rest = dom \ spent /\ \A op \in dom \ spent : rest[op] = utxo[op]
    OBVIOUS
  <1> HIDE DEF rest
  <1>4. TotalValue(rest) = Sum(Values(utxo), dom \ spent) /\ Sum(Values(utxo), dom \ spent) \in Nat
    <2>1. \A op \in dom \ spent : Values(rest)[op] = Values(utxo)[op] /\ Values(rest)[op] \in Nat
      BY <1>2, <1>3 DEF Values, UtxoOK
    <2>2. Sum(Values(rest), dom \ spent) = Sum(Values(utxo), dom \ spent)
          /\ Sum(Values(rest), dom \ spent) \in Nat
      <3>1. IsFiniteSet(dom \ spent)
        BY <1>2, <1>3 DEF UtxoOK
      <3> QED BY <2>1, <3>1, SumSame
    <2> QED BY <1>2, <1>3, <2>2, TotalOf
  <1>5. SumIn(utxo, tx) = Sum(Values(utxo), spent) /\ Sum(Values(utxo), spent) \in Nat
    BY <1>1, TotalOf DEF SumIn
  <1>6. TotalValue(utxo) = Sum(Values(utxo), dom \ spent) + Sum(Values(utxo), spent)
    <2> DEFINE f == Values(utxo)
               S == dom \ spent
    <2>1. IsFiniteSet(S) /\ IsFiniteSet(spent) /\ S \cap spent = {} /\ S \cup spent = dom
      BY <1>1, <1>2, <1>3, TotalOf DEF UtxoOK
    <2>2. Numbers(f, dom) /\ TotalValue(utxo) = Sum(f, dom)
      BY TotalOf
    <2> HIDE DEF f, S
    <2>3. Sum(f, S \cup spent) = Sum(f, S) + Sum(f, spent)
      BY <2>1, <2>2, SumUnion
    <2> QED BY <2>1, <2>2, <2>3 DEF f, S
  <1>7. /\ UtxoOK(AddOutputs(rest, tx, fee).utxo)
        /\ TotalValue(AddOutputs(rest, tx, fee).utxo) = TotalValue(rest) + SumOut(tx)
        /\ AddOutputs(rest, tx, fee).value = fee /\ SumOut(tx) \in Nat
    BY <1>1, <1>2, OutputsAdded
  <1>8. fee \in Nat /\ TotalValue(rest) + SumOut(tx) + fee = TotalValue(utxo)
    BY <1>1, <1>4, <1>5, <1>6, <1>7
  <1> QED
    BY <1>1, <1>7, <1>8

\* apply_block's step over the spends.
AddFee(utxo, acc, r) ==
    IF acc.ok /\ r.ok /\ acc.value + r.value <= MaxValue
    THEN Applied(r.utxo, acc.value + r.value) ELSE Rejected(utxo)
SpendStep(utxo, acc, tx) == AddFee(utxo, acc, ApplyRegular(acc.utxo, tx))
Spending == INSTANCE DataTheorems WITH FoldStep <- SpendStep

\* What moved so far came from the set the block found.
Moved(utxo, acc) ==
    acc.ok => /\ UtxoOK(acc.utxo) /\ acc.value \in Nat
              /\ TotalValue(acc.utxo) + acc.value = TotalValue(utxo)

\* The spends of a block move value and pay fees.
LEMMA SpendsConserve ==
    ASSUME NEW utxo, UtxoOK(utxo), NEW txs \in Seq(Transactions)
    PROVE  Moved(utxo, ApplySpends(utxo, txs))
  <1> DEFINE first == Applied(utxo, 0)
             n == Len(txs)
  <1>1. n \in Nat /\ DOMAIN txs = 1..n /\ \A i \in 1..n : txs[i] \in Transactions
    OBVIOUS
  <1>2. ApplySpends(utxo, txs) = Spending!Fold(utxo, first, txs)
    BY DEF ApplySpends, SpendStep, AddFee, Spending!Fold, FoldLeft, MapThenFoldSet, Max, Spending!Largest
  <1> HIDE DEF first, n
  <1>3. PICK h : Spending!Steps(utxo, first, txs, n, h) /\ Spending!Fold(utxo, first, txs) = h[n]
    BY <1>1, Spending!FoldSteps
  <1> DEFINE S == {i \in Nat : Moved(utxo, h[i])}
  <1>4. 0 \in S
    <2>1. h[0] = first
      BY <1>3 DEF Spending!Steps
    <2>2. TotalValue(utxo) \in Nat
      BY TotalOf
    <2>3. first.ok /\ first.utxo = utxo /\ first.value = 0
      BY DEF first, Applied
    <2>4. Moved(utxo, first)
      BY <2>2, <2>3 DEF Moved
    <2> QED BY <2>1, <2>4
  <1>5. ASSUME NEW i \in 0..(n - 1), i \in S PROVE i + 1 \in S
    <2> DEFINE acc == h[i]
               tx == txs[i + 1]
               r == ApplyRegular(acc.utxo, tx)
    <2>1. i + 1 \in 1..n /\ (i + 1) - 1 = i /\ i + 1 \in Nat
      BY <1>1
    <2>2. h[i + 1] = AddFee(utxo, acc, r) /\ tx \in Transactions
      BY <1>1, <1>3, <2>1 DEF Spending!Steps, SpendStep
    <2>3. Moved(utxo, acc)
      BY <1>5
    <2> HIDE DEF acc, tx
    <2>4. acc.ok /\ r.ok => UtxoOK(r.utxo) /\ r.value \in Nat /\ acc.value \in Nat
                            /\ TotalValue(r.utxo) + r.value = TotalValue(acc.utxo)
                            /\ TotalValue(acc.utxo) + acc.value = TotalValue(utxo)
      BY <2>2, <2>3, SpendConserves DEF Moved
    <2> HIDE DEF r
    <2>5. acc.ok /\ r.ok => TotalValue(r.utxo) \in Nat /\ TotalValue(acc.utxo) \in Nat
      BY <2>3, <2>4, TotalOf DEF Moved
    <2>6. CASE acc.ok /\ r.ok /\ acc.value + r.value <= MaxValue
      <3>1. AddFee(utxo, acc, r) = Applied(r.utxo, acc.value + r.value)
        BY <2>6 DEF AddFee
      <3> DEFINE u == r.utxo
                 x == acc.value + r.value
      <3>2. UtxoOK(u) /\ x \in Nat /\ TotalValue(u) + x = TotalValue(utxo)
        <4> DEFINE a == acc.value
                   b == r.value
                   tu == TotalValue(r.utxo)
                   ta == TotalValue(acc.utxo)
                   t == TotalValue(utxo)
        <4>1. UtxoOK(u) /\ a \in Nat /\ b \in Nat /\ tu \in Nat /\ ta \in Nat
              /\ tu + b = ta /\ ta + a = t
          BY <2>4, <2>5, <2>6
        <4>2. u = r.utxo /\ x = a + b
          OBVIOUS
        <4> HIDE DEF a, b, tu, ta, t
        <4>3. a + b \in Nat /\ tu + (a + b) = t
          BY <4>1
        <4> QED BY <4>1, <4>2, <4>3 DEF tu, t
      <3> HIDE DEF u, x
      <3>3. Moved(utxo, Applied(u, x))
        BY <3>2 DEF Moved, Applied
      <3> QED BY <2>1, <2>2, <3>1, <3>3 DEF u, x
    <2>7. CASE ~(acc.ok /\ r.ok /\ acc.value + r.value <= MaxValue)
      <3>1. AddFee(utxo, acc, r) = Rejected(utxo)
        BY <2>7 DEF AddFee
      <3>2. Moved(utxo, Rejected(utxo))
        BY DEF Moved, Rejected
      <3> QED BY <2>1, <2>2, <3>1, <3>2
    <2> QED BY <2>6, <2>7
  <1>6. 0..n \subseteq S
    <2> HIDE DEF S
    <2> QED BY <1>1, <1>4, <1>5, NatSetTo
  <1>7. Moved(utxo, h[n])
    BY <1>1, <1>6
  <1> QED
    BY <1>2, <1>3, <1>7

\* A coinbase mints what it claims, which is no more than it may.
LEMMA CoinbaseMints ==
    ASSUME NEW utxo, UtxoOK(utxo), NEW cb \in Transactions, NEW allowed,
           ApplyCoinbase(utxo, cb, allowed).ok
    PROVE  /\ UtxoOK(ApplyCoinbase(utxo, cb, allowed).utxo)
           /\ ApplyCoinbase(utxo, cb, allowed).value \in Nat
           /\ ApplyCoinbase(utxo, cb, allowed).value <= allowed
           /\ TotalValue(ApplyCoinbase(utxo, cb, allowed).utxo)
                = TotalValue(utxo) + ApplyCoinbase(utxo, cb, allowed).value
  <1>1. SumOut(cb) <= allowed /\ ApplyCoinbase(utxo, cb, allowed) = AddOutputs(utxo, cb, SumOut(cb))
    BY DEF ApplyCoinbase, Rejected
  <1> QED
    BY <1>1, OutputsAdded

\* A block creates what its coinbase mints and destroys what its spends pay in fees.
Balanced(utxo, r) ==
    /\ UtxoOK(r.utxo) /\ r.fees \in Nat /\ r.minted \in Nat
    /\ TotalValue(r.utxo) + r.fees = TotalValue(utxo) + r.minted
    /\ r.minted <= Subsidy + r.fees

\* Every block that applies is balanced.
LEMMA BlockBalanced ==
    ASSUME NEW utxo, UtxoOK(utxo), NEW txs \in Seq(Transactions), ApplyBlock(utxo, txs).ok
    PROVE  Balanced(utxo, ApplyBlock(utxo, txs))
  <1> DEFINE k == IF txs # <<>> /\ IsCoinbase(Head(txs)) THEN 1 ELSE 0
             cbs == SubSeq(txs, 1, k)
             spends == ApplySpends(utxo, SubSeq(txs, k + 1, Len(txs)))
             minted == IF cbs = <<>> THEN Applied(spends.utxo, 0)
                       ELSE ApplyCoinbase(spends.utxo, cbs[1], Subsidy + spends.value)
  <1>1. ApplyBlock(utxo, txs) = CloseBlock(utxo, cbs, spends)
    BY DEF ApplyBlock
  <1>2. cbs # <<>> => cbs[1] \in Transactions
    <2>1. k \in 0..1 /\ (k = 1 => txs # <<>>)
      OBVIOUS
    <2>2. CASE k = 0
      BY <2>2
    <2>3. CASE k = 1
      <3>1. Len(txs) \in Nat /\ Len(txs) >= 1
        BY <2>1, <2>3
      <3>2. cbs[1] = txs[1]
        BY <2>3, <3>1
      <3> QED BY <3>1, <3>2
    <2> QED BY <2>1, <2>2, <2>3
  <1>3. SubSeq(txs, k + 1, Len(txs)) \in Seq(Transactions)
    <2>1. k \in 0..1 /\ k + 1 \in 1..2 /\ Len(txs) \in Nat
      OBVIOUS
    <2> HIDE DEF k
    <2>2. \A i \in (k + 1)..Len(txs) : txs[i] \in Transactions
      BY <2>1
    <2> QED BY <2>1, <2>2, SubSeqProperties
  <1>4. Moved(utxo, spends)
    BY <1>3, SpendsConserve
  <1> HIDE DEF spends, cbs
  <1>5. /\ spends.ok /\ minted.ok
        /\ CloseBlock(utxo, cbs, spends) = [ok |-> TRUE, utxo |-> minted.utxo, fees |-> spends.value,
                                            minted |-> minted.value]
    BY <1>1 DEF CloseBlock
  <1>6. UtxoOK(spends.utxo) /\ spends.value \in Nat /\ TotalValue(spends.utxo) \in Nat
        /\ TotalValue(utxo) \in Nat /\ TotalValue(spends.utxo) + spends.value = TotalValue(utxo)
    BY <1>4, <1>5, TotalOf DEF Moved
  <1>7. UtxoOK(minted.utxo) /\ minted.value \in Nat /\ minted.value <= Subsidy + spends.value
        /\ TotalValue(minted.utxo) = TotalValue(spends.utxo) + minted.value
    <2>1. CASE cbs = <<>>
      <3>1. minted.utxo = spends.utxo /\ minted.value = 0
        BY <2>1 DEF Applied
      <3> HIDE DEF minted
      <3> QED BY <1>6, <3>1, UtxoAssumption
    <2>2. CASE cbs # <<>>
      <3>1. minted = ApplyCoinbase(spends.utxo, cbs[1], Subsidy + spends.value)
        BY <2>2
      <3> HIDE DEF minted
      <3> QED BY <1>2, <1>5, <1>6, <2>2, <3>1, CoinbaseMints
    <2> QED BY <2>1, <2>2
  <1> HIDE DEF minted
  <1> DEFINE r == [ok |-> TRUE, utxo |-> minted.utxo, fees |-> spends.value, minted |-> minted.value]
  <1>8. r.utxo = minted.utxo /\ r.fees = spends.value /\ r.minted = minted.value
    OBVIOUS
  <1> HIDE DEF r
  <1>9. Balanced(utxo, r)
    BY <1>6, <1>7, <1>8 DEF Balanced
  <1> QED
    BY <1>1, <1>5, <1>9 DEF r

\* What apply_dag knows of the blocks it has applied.
RunOK(run) ==
    /\ UtxoOK(run.utxo) /\ run.fees \in Nat /\ run.minted \in Nat /\ run.accepted \in Seq(Nat)
    /\ TotalValue(run.utxo) + run.fees = run.minted
    /\ run.minted <= Subsidy * Len(run.accepted) + run.fees

\* A block more keeps it so.
LEMMA RunStepOK ==
    ASSUME NEW D, NEW b \in Nat, TxsAt(D, b) \in Seq(Transactions), NEW run, RunOK(run)
    PROVE  RunOK(RunStep(D, run, b))
  <1> DEFINE r == ApplyBlock(run.utxo, TxsAt(D, b))
  <1>1. r.ok => Balanced(run.utxo, r)
    BY BlockBalanced DEF RunOK
  <1>2. r.ok \in BOOLEAN
    BY RefusedUnchanged
  <1> HIDE DEF r
  <1>3. CASE r.ok
    <2> DEFINE list == Append(run.accepted, b)
               new == [utxo |-> r.utxo, accepted |-> list, fees |-> run.fees + r.fees,
                       minted |-> run.minted + r.minted]
    <2>1. Recorded(run, b, r) = new
      BY <1>3 DEF Recorded
    <2>2. list \in Seq(Nat) /\ Len(list) = Len(run.accepted) + 1 /\ Len(run.accepted) \in Nat
      BY DEF RunOK
    <2>3. UtxoOK(r.utxo) /\ TotalValue(r.utxo) \in Nat /\ TotalValue(run.utxo) \in Nat
      BY <1>1, <1>3, TotalOf DEF Balanced, RunOK
    <2>4. new.utxo = r.utxo /\ new.accepted = list /\ new.fees = run.fees + r.fees
          /\ new.minted = run.minted + r.minted
      OBVIOUS
    <2> HIDE DEF new, list
    <2> DEFINE t == TotalValue(r.utxo)
               rf == r.fees
               rm == r.minted
               u == TotalValue(run.utxo)
               f == run.fees
               m == run.minted
               most == Subsidy * Len(run.accepted)
    <2>5. /\ t \in Nat /\ rf \in Nat /\ rm \in Nat /\ u \in Nat /\ f \in Nat /\ m \in Nat
          /\ Subsidy \in Nat
          /\ t + rf = u + rm /\ rm <= Subsidy + rf /\ u + f = m /\ m <= most + f
      BY <1>1, <1>3, <2>3, UtxoAssumption DEF Balanced, RunOK
    <2>6. Subsidy * Len(list) = most + Subsidy /\ most \in Nat
      <3>1. \A x, y \in Nat : x * (y + 1) = x * y + x /\ x * y \in Nat
        OBVIOUS
      <3> QED BY <2>2, <2>5, <3>1
    <2>7. new.utxo = r.utxo /\ new.accepted = list /\ new.fees = f + rf /\ new.minted = m + rm
          /\ TotalValue(new.utxo) = t
      BY <2>4
    <2> HIDE DEF t, rf, rm, u, f, m, most
    <2>8. t + (f + rf) = m + rm /\ m + rm <= most + Subsidy + (f + rf) /\ f + rf \in Nat /\ m + rm \in Nat
      BY <2>5, <2>6
    <2>9. RunOK(new)
      BY <2>2, <2>3, <2>6, <2>7, <2>8 DEF RunOK
    <2> QED BY <2>1, <2>9 DEF RunStep, r
  <1>4. CASE ~r.ok
    BY <1>4 DEF RunStep, Recorded, r
  <1> QED
    BY <1>2, <1>3, <1>4

\* The books of a dag balance.
LEMMA DagBalanced ==
    ASSUME NEW D, NEW n \in Nat, DOMAIN Linearize(D) = 1..n,
           \A i \in 1..n : Linearize(D)[i] \in Nat /\ TxsAt(D, Linearize(D)[i]) \in Seq(Transactions)
    PROVE  RunOK(ApplyDag(D))
  <1> DEFINE s == Linearize(D)
  <1>0. DOMAIN s = 1..n /\ \A i \in 1..n : s[i] \in Nat /\ TxsAt(D, s[i]) \in Seq(Transactions)
    OBVIOUS
  <1>1. ApplyDag(D) = Running!Fold(D, NoRun, s)
    BY ApplyDagFold
  <1> HIDE DEF s
  <1>2. PICK h : Running!Steps(D, NoRun, s, n, h) /\ Running!Fold(D, NoRun, s) = h[n]
    BY <1>0, Running!FoldSteps
  <1> DEFINE S == {i \in Nat : RunOK(h[i])}
  <1>3. 0 \in S
    <2>1. h[0] = NoRun
      BY <1>2 DEF Running!Steps
    <2>2. DOMAIN <<>> = {} /\ <<>> \in Seq(Nat) /\ Len(<<>>) = 0
      OBVIOUS
    <2>3. UtxoOK(<<>>)
      BY <2>2, FS_EmptySet DEF UtxoOK
    <2>4. TotalValue(<<>>) = 0
      BY <2>2, <2>3, TotalOf, SumEmpty
    <2>5. NoRun.utxo = <<>> /\ NoRun.accepted = <<>> /\ NoRun.fees = 0 /\ NoRun.minted = 0
      BY DEF NoRun
    <2>6. Subsidy * 0 = 0
      BY UtxoAssumption
    <2>7. RunOK(NoRun)
      BY <2>2, <2>3, <2>4, <2>5, <2>6 DEF RunOK
    <2> QED BY <2>1, <2>7
  <1>4. ASSUME NEW i \in 0..(n - 1), i \in S PROVE i + 1 \in S
    <2>1. i + 1 \in 1..n /\ (i + 1) - 1 = i /\ i + 1 \in Nat
      OBVIOUS
    <2>2. h[i + 1] = RunStep(D, h[i], s[i + 1])
      <3>1. Running!Steps(D, NoRun, s, n, h)
        BY <1>2
      <3>2. \A j \in 1..n : h[j] = RunStep(D, h[j - 1], s[j])
        BY <3>1 DEF Running!Steps
      <3> QED BY <2>1, <3>2
    <2>3. RunOK(RunStep(D, h[i], s[i + 1]))
      BY <1>0, <1>4, <2>1, RunStepOK
    <2> QED BY <2>1, <2>2, <2>3
  <1>5. 0..n \subseteq S
    <2> HIDE DEF S
    <2> QED BY <1>3, <1>4, NatSetTo
  <1> QED
    BY <1>1, <1>2, <1>5

\* The blocks a ledger may hold: decoded payloads, and nothing but the fields of a Block.
WholeBlocks ==
    [parents : SUBSET Nat, work : Nat, timestamp : Nat, txs : Seq(Transactions)]

\* Every stored block is one of them.
BlocksTyped == \A b \in Blocks(ledger.dag) : ledger.dag.nodes[b].block \in WholeBlocks

\* An insertion keeps both, and says what the dag is after it.
LEMMA LedgerGrows ==
    ASSUME LedgerInv, BlocksTyped, NEW id \in Ids, NEW w \in Works, NEW ps \in ParentSets,
           NEW txs \in Payloads, NEW block,
           block = [parents |-> ps, work |-> w, timestamp |-> 0, txs |-> txs],
           Insert(id, block)
    PROVE  /\ LedgerInv' /\ BlocksTyped'
           /\ id \in Nat /\ id \notin Blocks(ledger.dag) /\ block \in WholeBlocks
           /\ block.parents \subseteq Blocks(ledger.dag)
           /\ Blocks(ledger'.dag) = Blocks(ledger.dag) \cup {id}
           /\ Within(ledger.dag, ledger'.dag) /\ ledger'.dag.nodes[id].block = block
  <1>1. Sound(ledger) /\ DagOK(ledger.dag)
    BY DEF LedgerInv, Sound, LedgerOK
  <1>2. block \in WholeBlocks
    <2>1. ps \in SUBSET Nat /\ w \in Nat /\ txs \in Seq(Transactions)
      BY <1>1, LedgerAssumption DEF ParentSets, DagOK
    <2> QED BY <2>1 DEF WholeBlocks
  <1>3. id \in Nat \ {GenesisId} /\ block.work \in Int
    BY LedgerAssumption
  <1>4. CanLedgerInsert(ledger, id, block) /\ ledger' = LedgerInsert(ledger, id, block)
    BY DEF Insert
  <1>5. id \notin Blocks(ledger.dag) /\ block.parents \subseteq Blocks(ledger.dag)
    BY <1>4 DEF CanLedgerInsert, CanInsert
  <1>6. /\ Sound(ledger') /\ Blocks(ledger'.dag) = Blocks(ledger.dag) \cup {id}
        /\ Within(ledger.dag, ledger'.dag) /\ ledger'.dag.nodes[id].block = block
    <2>1. Takes(ledger, id, block)
      BY <1>3, <1>4 DEF Takes
    <2> QED BY <1>1, <1>4, <2>1, InsertSound
  <1>7. BlocksTyped'
    BY <1>2, <1>6 DEF BlocksTyped, Within
  <1> QED
    BY <1>2, <1>3, <1>5, <1>6, <1>7 DEF LedgerInv

\* The first ledger has a genesis block of this kind.
LEMMA NewLedgerTyped ==
    \A b \in Blocks(NewLedger.dag) : NewLedger.dag.nodes[b].block \in WholeBlocks
  <1>1. Blocks(NewLedger.dag) = {GenesisId} /\ NewLedger.dag.nodes[GenesisId].block = GenesisOver(GenesisTxs)
    BY GenesisSound DEF NewLedger
  <1>2. GenesisOver(GenesisTxs) \in WholeBlocks
    BY LedgerAssumption DEF GenesisOver, WholeBlocks
  <1> QED
    BY <1>1, <1>2

\* So it is in every reachable ledger.
LEMMA BlocksTypedInvariant == Spec => []BlocksTyped
  <1>1. LedgerInv /\ BlocksTyped /\ [Next]_vars => BlocksTyped'
    <2> SUFFICES ASSUME LedgerInv, BlocksTyped, [Next]_vars PROVE BlocksTyped'
      OBVIOUS
    <2>1. CASE Next
      BY <2>1, LedgerGrows DEF Next
    <2>2. CASE UNCHANGED vars
      BY <2>2 DEF vars, BlocksTyped
    <2> QED BY <2>1, <2>2
  <1>2. Init => BlocksTyped
    BY NewLedgerTyped DEF Init, BlocksTyped
  <1> QED
    BY <1>1, <1>2, LedgerInvariance, PTL DEF Spec

\* In every block's view, what is unspent is what was minted less the fees, and at most
\* a subsidy for each accepted block (ledger.rs: apply_block, apply_coinbase).
THEOREM SupplyIsConserved == Spec => []SupplyConserved
  <1>1. LedgerInv /\ BlocksTyped => SupplyConserved
    <2> SUFFICES ASSUME LedgerInv, BlocksTyped, NEW b \in Blocks(ledger.dag)
                 PROVE  /\ TotalValue(ApplyDag(ViewOf(b)).utxo) + ApplyDag(ViewOf(b)).fees
                             = ApplyDag(ViewOf(b)).minted
                        /\ TotalValue(ApplyDag(ViewOf(b)).utxo) <= Subsidy * Len(ApplyDag(ViewOf(b)).accepted)
      BY DEF SupplyConserved
    <2> DEFINE D == ledger.dag
               V == View(D, b)
               s == Linearize(V)
               run == ApplyDag(V)
    <2>1. DagOK(D) /\ ViewOf(b) = V
      BY DEF LedgerInv, Sound, LedgerOK, ViewOf, View
    <2>2. DagOK(V) /\ Within(V, D)
      BY <2>1, ViewOrder
    <2>3. s \in Seq(Blocks(V)) /\ Blocks(V) \subseteq Nat
      BY <2>2, LinearizeParts, ListsSeq DEF DagOK
    <2>4. \A x \in Blocks(V) : TxsAt(V, x) \in Seq(Transactions)
      BY <2>2 DEF Within, TxsAt, BlocksTyped, WholeBlocks
    <2> HIDE DEF V
    <2>5. Len(s) \in Nat /\ DOMAIN s = 1..Len(s) /\ \A i \in 1..Len(s) : s[i] \in Nat /\ s[i] \in Blocks(V)
      BY <2>3
    <2>6. RunOK(run)
      BY <2>4, <2>5, DagBalanced
    <2> HIDE DEF run
    <2>7. TotalValue(run.utxo) \in Nat
      BY <2>6, TotalOf DEF RunOK
    <2>8. Subsidy * Len(run.accepted) \in Nat
      <3>1. Subsidy \in Nat /\ Len(run.accepted) \in Nat
        BY <2>6, UtxoAssumption DEF RunOK
      <3>2. \A x, y \in Nat : x * y \in Nat
        OBVIOUS
      <3> QED BY <3>1, <3>2
    <2>9. TotalValue(run.utxo) + run.fees = run.minted /\ TotalValue(run.utxo) <= Subsidy * Len(run.accepted)
      BY <2>6, <2>7, <2>8 DEF RunOK
    <2> QED BY <2>1, <2>9 DEF run
  <1> QED
    BY <1>1, LedgerInvariance, BlocksTypedInvariant, PTL

----------------------------------------------------------------------------
(***************************************************************************)
(* Double spends.                                                          *)
(***************************************************************************)

\* The outpoints some transactions issue, and those they spend.
Issued(M) == UNION {OutPoints(t) : t \in M}
Consumed(M) == UNION {Spent(t) : t \in M}

\* An id is that of one transaction: it is BLAKE3 over its whole encoding (tx.rs: id).
Hashed(M) == \A t, u \in M : t.id = u.id => t = u

\* The set after the transactions M: it holds outputs of theirs, and none that they spent.
Accounted(utxo, M) ==
    /\ DOMAIN utxo \subseteq Issued(M)
    /\ Consumed(M) \subseteq Issued(M)
    /\ DOMAIN utxo \cap Consumed(M) = {}

\* One transaction more.
LEMMA IssuedMore ==
    ASSUME NEW M, NEW t
    PROVE  Issued(M \cup {t}) = Issued(M) \cup OutPoints(t) /\ Consumed(M \cup {t}) = Consumed(M) \cup Spent(t)
  BY DEF Issued, Consumed

\* What a transaction creates is its own.
LEMMA IssuedByOne ==
    ASSUME NEW M, NEW t, Hashed(M \cup {t}), t \notin M
    PROVE  OutPoints(t) \cap Issued(M) = {}
  <1> SUFFICES ASSUME NEW op \in OutPoints(t), NEW u \in M, op \in OutPoints(u) PROVE FALSE
    BY DEF Issued
  <1>1. PICK i \in DOMAIN t.outputs : op = <<t.id, i>>
    BY DEF OutPoints
  <1>2. PICK j \in DOMAIN u.outputs : op = <<u.id, j>>
    BY DEF OutPoints
  <1>3. t.id = u.id
    BY <1>1, <1>2
  <1> QED BY <1>3 DEF Hashed

\* New outputs that nobody spent before.
LEMMA OutputsAccounted ==
    ASSUME NEW utxo, NEW M, NEW t, NEW value, NEW gone, gone \subseteq Issued(M), Spent(t) \subseteq gone,
           Consumed(M) \subseteq gone, DOMAIN utxo \subseteq Issued(M), DOMAIN utxo \cap gone = {},
           OutPoints(t) \cap gone = {}, gone = Consumed(M \cup {t}), AddOutputs(utxo, t, value).ok
    PROVE  Accounted(AddOutputs(utxo, t, value).utxo, M \cup {t})
  <1> DEFINE new == AddOutputs(utxo, t, value).utxo
  <1>1. DOMAIN new = DOMAIN utxo \cup OutPoints(t)
    BY DEF AddOutputs, Applied, Rejected
  <1> HIDE DEF new
  <1>2. Accounted(new, M \cup {t})
    BY <1>1, IssuedMore DEF Accounted
  <1> QED BY <1>2 DEF new

\* A spend spends what nobody spent before, and so it was not applied before.
LEMMA SpendAccounted ==
    ASSUME NEW utxo, NEW M, NEW t \in Transactions, Accounted(utxo, M), Hashed(M \cup {t}),
           ApplyRegular(utxo, t).ok
    PROVE  /\ Accounted(ApplyRegular(utxo, t).utxo, M \cup {t})
           /\ Spent(t) \cap Consumed(M) = {} /\ ~IsCoinbase(t)
  <1> DEFINE rest == [op \in DOMAIN utxo \ Spent(t) |-> utxo[op]]
             fee == SumIn(utxo, t) - SumOut(t)
             gone == Consumed(M \cup {t})
  <1>1. /\ Spent(t) \subseteq DOMAIN utxo /\ t.inputs # <<>>
        /\ ApplyRegular(utxo, t) = AddOutputs(rest, t, fee)
    BY DEF ApplyRegular, Rejected, ValidSpend
  <1>2. DOMAIN rest = DOMAIN utxo \ Spent(t)
    OBVIOUS
  <1> HIDE DEF rest, fee
  <1>3. Spent(t) # {}
    <2>1. t.inputs \in Seq([outpoint : TxIds \X Nat, signer : Owners])
      BY DEF Transactions
    <2>2. 1 \in DOMAIN t.inputs
      BY <1>1, <2>1
    <2> QED BY <2>2 DEF Spent
  <1>4. Spent(t) \cap Consumed(M) = {}
    BY <1>1 DEF Accounted
  <1>5. t \notin M
    BY <1>3, <1>4 DEF Consumed
  <1>6. OutPoints(t) \cap Issued(M) = {}
    BY <1>5, IssuedByOne
  <1>7. gone = Consumed(M) \cup Spent(t)
    BY IssuedMore
  <1>8. gone \subseteq Issued(M)
    BY <1>1, <1>7 DEF Accounted
  <1> HIDE DEF gone
  <1>9. Accounted(AddOutputs(rest, t, fee).utxo, M \cup {t})
    <2>1. DOMAIN rest \subseteq Issued(M) /\ DOMAIN rest \cap gone = {}
      BY <1>2, <1>7 DEF Accounted
    <2>2. OutPoints(t) \cap gone = {}
      BY <1>6, <1>8
    <2>3. AddOutputs(rest, t, fee).ok
      BY <1>1
    <2>4. Spent(t) \subseteq gone /\ Consumed(M) \subseteq gone
      BY <1>7
    <2> QED BY <1>8, <2>1, <2>2, <2>3, <2>4, OutputsAccounted DEF gone
  <1> QED BY <1>1, <1>4, <1>9 DEF IsCoinbase

\* The spends of a block so far: none of them spends what was spent before the block.
SpentAnew(M, N, acc) ==
    acc.ok => /\ Accounted(acc.utxo, M \cup N)
              /\ Consumed(N) \cap Consumed(M) = {}
              /\ \A t \in N : ~IsCoinbase(t)

\* One spend more.
LEMMA SpendStepAnew ==
    ASSUME NEW utxo, NEW M, NEW N, NEW acc, NEW t \in Transactions, acc.ok \in BOOLEAN,
           SpentAnew(M, N, acc), Hashed(M \cup (N \cup {t}))
    PROVE  SpentAnew(M, N \cup {t}, SpendStep(utxo, acc, t)) /\ SpendStep(utxo, acc, t).ok \in BOOLEAN
  <1> DEFINE r == ApplyRegular(acc.utxo, t)
             v == acc.value + r.value
  <1>1. CASE acc.ok /\ r.ok /\ v <= MaxValue
    <2>1. SpendStep(utxo, acc, t) = Applied(r.utxo, v)
      BY <1>1 DEF SpendStep, AddFee
    <2>2. M \cup (N \cup {t}) = (M \cup N) \cup {t}
      OBVIOUS
    <2>3. Accounted(acc.utxo, M \cup N) /\ Hashed((M \cup N) \cup {t})
      BY <1>1, <2>2 DEF SpentAnew
    <2>4. Accounted(r.utxo, (M \cup N) \cup {t}) /\ Spent(t) \cap Consumed(M \cup N) = {} /\ ~IsCoinbase(t)
      BY <1>1, <2>3, SpendAccounted
    <2>5. Consumed(M) \subseteq Consumed(M \cup N) /\ Consumed(N \cup {t}) = Consumed(N) \cup Spent(t)
      BY IssuedMore DEF Consumed
    <2>6. Consumed(N \cup {t}) \cap Consumed(M) = {} /\ \A u \in N \cup {t} : ~IsCoinbase(u)
      BY <1>1, <2>4, <2>5 DEF SpentAnew
    <2> HIDE DEF r, v
    <2>7. Applied(r.utxo, v).utxo = r.utxo /\ Applied(r.utxo, v).ok = TRUE
      BY DEF Applied
    <2>8. Accounted(r.utxo, M \cup (N \cup {t}))
      BY <2>2, <2>4
    <2> QED BY <2>1, <2>6, <2>7, <2>8 DEF SpentAnew
  <1>2. CASE ~(acc.ok /\ r.ok /\ v <= MaxValue)
    <2>1. SpendStep(utxo, acc, t) = Rejected(utxo)
      BY <1>2 DEF SpendStep, AddFee
    <2>2. Rejected(utxo).ok = FALSE
      BY DEF Rejected
    <2> QED BY <2>1, <2>2 DEF SpentAnew
  <1> QED BY <1>1, <1>2

\* All spends of a block.
LEMMA SpendsAccounted ==
    ASSUME NEW utxo, NEW M, NEW txs \in Seq(Transactions), Accounted(utxo, M), Hashed(M \cup Range(txs))
    PROVE  SpentAnew(M, Range(txs), ApplySpends(utxo, txs))
  <1> DEFINE first == Applied(utxo, 0)
             n == Len(txs)
  <1>1. n \in Nat /\ DOMAIN txs = 1..n /\ \A i \in 1..n : txs[i] \in Transactions
    OBVIOUS
  <1>2. ApplySpends(utxo, txs) = Spending!Fold(utxo, first, txs)
    BY DEF ApplySpends, SpendStep, AddFee, Spending!Fold, FoldLeft, MapThenFoldSet, Max, Spending!Largest
  <1>3. first.ok = TRUE /\ first.utxo = utxo
    BY DEF Applied
  <1> HIDE DEF first, n
  <1>4. PICK h : Spending!Steps(utxo, first, txs, n, h) /\ Spending!Fold(utxo, first, txs) = h[n]
    BY <1>1, Spending!FoldSteps
  <1>5. h[0] = first /\ \A i \in 1..n : h[i] = SpendStep(utxo, h[i - 1], txs[i])
    BY <1>4 DEF Spending!Steps
  <1> DEFINE P(i) == SpentAnew(M, FirstOf(txs, i), h[i]) /\ h[i].ok \in BOOLEAN
             S == {i \in Nat : P(i)}
  <1>6. FirstOf(txs, 0) = {} /\ FirstOf(txs, n) = Range(txs)
    BY <1>1 DEF FirstOf, Range
  <1>7. 0 \in S
    <2>1. Consumed({}) = {} /\ M \cup {} = M
      BY DEF Consumed
    <2>2. SpentAnew(M, {}, first)
      BY <1>3, <2>1 DEF SpentAnew
    <2> QED BY <1>3, <1>5, <1>6, <2>2
  <1>8. ASSUME NEW i \in 0..(n - 1), i \in S PROVE i + 1 \in S
    <2>1. i + 1 \in 1..n /\ (i + 1) - 1 = i /\ i + 1 \in Nat /\ i \in Nat
      BY <1>1
    <2>2. h[i + 1] = SpendStep(utxo, h[i], txs[i + 1]) /\ txs[i + 1] \in Transactions
      BY <1>1, <1>5, <2>1
    <2>3. FirstOf(txs, i + 1) = FirstOf(txs, i) \cup {txs[i + 1]}
      <3>1. 1..(i + 1) = (1..i) \cup {i + 1}
        BY <2>1
      <3> QED BY <3>1 DEF FirstOf
    <2>4. FirstOf(txs, i + 1) \subseteq Range(txs)
      <3>1. 1..(i + 1) \subseteq DOMAIN txs
        BY <1>1, <2>1
      <3> QED BY <3>1 DEF FirstOf, Range
    <2>5. Hashed(M \cup (FirstOf(txs, i) \cup {txs[i + 1]}))
      BY <2>3, <2>4 DEF Hashed
    <2>6. SpentAnew(M, FirstOf(txs, i), h[i]) /\ h[i].ok \in BOOLEAN
      BY <1>8
    <2>7. ASSUME NEW acc, acc = h[i], NEW t, t = txs[i + 1], NEW N, N = FirstOf(txs, i)
          PROVE  SpentAnew(M, N \cup {t}, h[i + 1]) /\ h[i + 1].ok \in BOOLEAN
      <3>1. SpentAnew(M, N, acc) /\ acc.ok \in BOOLEAN /\ t \in Transactions /\ Hashed(M \cup (N \cup {t}))
        BY <2>2, <2>5, <2>6, <2>7
      <3>2. h[i + 1] = SpendStep(utxo, acc, t)
        BY <2>2, <2>7
      <3> QED BY ONLY <3>1, <3>2, SpendStepAnew
    <2> QED BY <2>1, <2>3, <2>7
  <1>9. 0..n \subseteq S
    <2> HIDE DEF S
    <2> QED BY <1>1, <1>7, <1>8, NatSetTo
  <1>10. P(n)
    BY <1>1, <1>9
  <1> QED
    BY <1>2, <1>4, <1>6, <1>10

\* A coinbase spends nothing.
LEMMA CoinbaseSpends ==
    ASSUME NEW c, IsCoinbase(c)
    PROVE  Spent(c) = {}
  <1>1. DOMAIN c.inputs = {}
    BY DEF IsCoinbase
  <1> QED BY <1>1 DEF Spent

\* The coinbase of a block: new, or one whose outputs nobody spent.
LEMMA CoinbaseAccounted ==
    ASSUME NEW utxo, NEW M, NEW c, NEW allowed, IsCoinbase(c), Accounted(utxo, M), Hashed(M \cup {c}),
           c \in M => OutPoints(c) \cap Consumed(M) = {}, ApplyCoinbase(utxo, c, allowed).ok
    PROVE  Accounted(ApplyCoinbase(utxo, c, allowed).utxo, M \cup {c})
  <1> DEFINE gone == Consumed(M \cup {c})
             value == SumOut(c)
  <1>1. ApplyCoinbase(utxo, c, allowed) = AddOutputs(utxo, c, value)
    BY DEF ApplyCoinbase, Rejected
  <1>2. Spent(c) = {} /\ gone = Consumed(M) \cup Spent(c)
    BY CoinbaseSpends, IssuedMore
  <1>3. gone \subseteq Issued(M) /\ DOMAIN utxo \subseteq Issued(M) /\ DOMAIN utxo \cap gone = {}
    BY <1>2 DEF Accounted
  <1>4. OutPoints(c) \cap gone = {}
    <2>1. CASE c \in M
      BY <1>2, <2>1
    <2>2. CASE c \notin M
      BY <1>3, <2>2, IssuedByOne
    <2> QED BY <2>1, <2>2
  <1> HIDE DEF gone, value
  <1>5. Spent(c) \subseteq gone /\ Consumed(M) \subseteq gone
    BY <1>2
  <1>6. AddOutputs(utxo, c, value).ok
    BY <1>1
  <1>7. Accounted(AddOutputs(utxo, c, value).utxo, M \cup {c})
    BY <1>3, <1>4, <1>5, <1>6, OutputsAccounted DEF gone
  <1> QED BY <1>1, <1>7

\* No coinbase of M that is among N too made an output that anybody spends.
Kept(M, N) == \A c \in M \cap N : IsCoinbase(c) => OutPoints(c) \cap Consumed(M \cup N) = {}

\* A block that applies spends what nobody spent before.
LEMMA BlockAccounted ==
    ASSUME NEW utxo, NEW M, NEW txs \in Seq(Transactions), Accounted(utxo, M), Hashed(M \cup Range(txs)),
           Kept(M, Range(txs)), ApplyBlock(utxo, txs).ok
    PROVE  /\ Accounted(ApplyBlock(utxo, txs).utxo, M \cup Range(txs))
           /\ Consumed(Range(txs)) \cap Consumed(M) = {}
  <1> DEFINE k == IF txs # <<>> /\ IsCoinbase(Head(txs)) THEN 1 ELSE 0
             cbs == SubSeq(txs, 1, k)
             rest == SubSeq(txs, k + 1, Len(txs))
             N == Range(rest)
             spends == ApplySpends(utxo, rest)
  <1>1. ApplyBlock(utxo, txs) = CloseBlock(utxo, cbs, spends)
    BY DEF ApplyBlock
  <1>2. rest \in Seq(Transactions)
    <2>1. k \in 0..1 /\ k + 1 \in 1..2 /\ Len(txs) \in Nat
      OBVIOUS
    <2> HIDE DEF k
    <2>2. \A i \in (k + 1)..Len(txs) : txs[i] \in Transactions
      BY <2>1
    <2> QED BY <2>1, <2>2, SubSeqProperties
  <1>3. \/ cbs = <<>> /\ N = Range(txs)
        \/ cbs # <<>> /\ IsCoinbase(cbs[1]) /\ Range(txs) = N \cup {cbs[1]}
    <2> DEFINE n == Len(txs)
    <2>1. n \in Nat /\ DOMAIN txs = 1..n
      OBVIOUS
    <2>2. CASE k = 0
      <3>1. cbs = <<>> /\ rest = txs
        BY <2>2
      <3> QED BY <3>1
    <2>3. CASE k = 1
      <3>1. txs # <<>> /\ IsCoinbase(Head(txs)) /\ n >= 1
        BY <2>1, <2>3
      <3>2. cbs # <<>> /\ cbs[1] = txs[1] /\ Head(txs) = txs[1]
        BY <2>3, <3>1
      <3>3. rest = SubSeq(txs, 2, n)
        BY <2>3
      <3>4. DOMAIN rest = 1..(n - 1) /\ \A i \in 1..(n - 1) : rest[i] = txs[i + 1]
        BY <2>1, <3>1, <3>3
      <3> HIDE DEF rest, cbs, n, k
      <3>5. Range(txs) \subseteq N \cup {txs[1]}
        <4>1. ASSUME NEW i \in 1..n PROVE txs[i] \in N \cup {txs[1]}
          <5>1. CASE i = 1
            BY <5>1
          <5>2. CASE i # 1
            <6>1. i - 1 \in 1..(n - 1) /\ (i - 1) + 1 = i
              BY <2>1, <5>2
            <6>2. rest[i - 1] = txs[i] /\ i - 1 \in DOMAIN rest
              BY <3>4, <6>1
            <6> QED BY <6>2 DEF Range
          <5> QED BY <5>1, <5>2
        <4> QED BY <2>1, <4>1 DEF Range
      <3>6. N \cup {txs[1]} \subseteq Range(txs)
        <4>1. \A i \in 1..(n - 1) : i + 1 \in DOMAIN txs
          BY <2>1
        <4>2. 1 \in DOMAIN txs
          BY <2>1, <3>1
        <4> QED BY <3>4, <4>1, <4>2 DEF Range
      <3> QED BY <3>1, <3>2, <3>5, <3>6
    <2> QED BY <2>2, <2>3
  <1> HIDE DEF k
  <1>4. N \subseteq Range(txs) /\ Hashed(M \cup N)
    BY <1>3 DEF Hashed
  <1>5. SpentAnew(M, N, spends)
    BY <1>2, <1>4, SpendsAccounted
  <1> HIDE DEF cbs, rest, N, spends
  <1> DEFINE minted == IF cbs = <<>> THEN Applied(spends.utxo, 0)
                       ELSE ApplyCoinbase(spends.utxo, cbs[1], Subsidy + spends.value)
  <1>6. spends.ok /\ minted.ok /\ ApplyBlock(utxo, txs).utxo = minted.utxo
    BY <1>1 DEF CloseBlock
  <1>7. /\ Accounted(spends.utxo, M \cup N) /\ Consumed(N) \cap Consumed(M) = {}
        /\ \A t \in N : ~IsCoinbase(t)
    BY <1>5, <1>6 DEF SpentAnew
  <1>8. CASE cbs = <<>> /\ N = Range(txs)
    <2>1. minted = Applied(spends.utxo, 0)
      BY <1>8
    <2>2. Applied(spends.utxo, 0).utxo = spends.utxo
      BY DEF Applied
    <2> QED BY <1>6, <1>7, <1>8, <2>1, <2>2
  <1>9. CASE cbs # <<>> /\ IsCoinbase(cbs[1]) /\ Range(txs) = N \cup {cbs[1]}
    <2> DEFINE c == cbs[1]
               allowed == Subsidy + spends.value
    <2>1. minted = ApplyCoinbase(spends.utxo, c, allowed)
      BY <1>9
    <2> HIDE DEF c, allowed, minted
    <2>2. IsCoinbase(c) /\ Range(txs) = N \cup {c} /\ M \cup Range(txs) = (M \cup N) \cup {c}
      BY <1>9 DEF c
    <2>3. Spent(c) = {} /\ Consumed(Range(txs)) = Consumed(N) \cup Spent(c)
      BY <2>2, CoinbaseSpends, IssuedMore, ZenonT(30)
    <2>4. ASSUME c \in M \cup N PROVE OutPoints(c) \cap Consumed(M \cup N) = {}
      <3>1. c \in M \cap Range(txs)
        BY <1>7, <2>2, <2>4
      <3>2. Consumed(M \cup N) \subseteq Consumed(M \cup Range(txs))
        BY <1>4 DEF Consumed
      <3> QED BY <2>2, <3>1, <3>2 DEF Kept
    <2>5. Hashed((M \cup N) \cup {c}) /\ ApplyCoinbase(spends.utxo, c, allowed).ok
      BY <1>6, <2>1, <2>2
    <2>6. Accounted(ApplyCoinbase(spends.utxo, c, allowed).utxo, (M \cup N) \cup {c})
      BY <1>7, <2>2, <2>4, <2>5, CoinbaseAccounted
    <2>7. Consumed(Range(txs)) \cap Consumed(M) = {}
      BY <1>7, <2>3
    <2> QED BY <1>6, <2>1, <2>2, <2>6, <2>7
  <1> QED BY <1>3, <1>8, <1>9

\* The transactions in the blocks B of a dag.
TxsIn(D, B) == UNION {Range(TxsAt(D, b)) : b \in B}

\* The outputs of a coinbase that is in two blocks are spent by no transaction of the dag.
MintedOnce(D) ==
    \A b, c \in Blocks(D) : b # c =>
        \A t \in Range(TxsAt(D, b)) \cap Range(TxsAt(D, c)) :
            IsCoinbase(t) => OutPoints(t) \cap Consumed(TxsIn(D, Blocks(D))) = {}

\* apply_dag has accepted some of the blocks T, each once and none with a double spend.
SpentBy(D, b) == Consumed(Range(TxsAt(D, b)))

RunAccounted(D, T, run) ==
    /\ run.accepted \in Seq(T)
    /\ Accounted(run.utxo, TxsIn(D, Range(run.accepted)))
    /\ \A i, j \in DOMAIN run.accepted :
          i # j => SpentBy(D, run.accepted[i]) \cap SpentBy(D, run.accepted[j]) = {}

\* A block more keeps it so.
LEMMA RunStepAccounted ==
    ASSUME NEW D, NEW T, NEW b, T \subseteq Blocks(D), b \in Blocks(D) \ T,
           TxsAt(D, b) \in Seq(Transactions), Hashed(TxsIn(D, Blocks(D))), MintedOnce(D),
           NEW run, RunAccounted(D, T, run)
    PROVE  RunAccounted(D, T \cup {b}, RunStep(D, run, b))
  <1> DEFINE list == run.accepted
             A == Range(list)
             M == TxsIn(D, A)
             N == Range(TxsAt(D, b))
             r == ApplyBlock(run.utxo, TxsAt(D, b))
             more == Append(list, b)
             n == Len(list)
  <1>1. list \in Seq(T) /\ list \in Seq(T \cup {b}) /\ n \in Nat /\ DOMAIN list = 1..n /\ A \subseteq T
    <2>1. list \in Seq(T)
      BY DEF RunAccounted
    <2> HIDE DEF list
    <2>2. n \in Nat /\ DOMAIN list = 1..n /\ \A i \in 1..n : list[i] \in T
      BY <2>1
    <2>3. A \subseteq T
      BY <2>2 DEF Range
    <2>4. list \in Seq(T \cup {b})
      BY <2>1, <2>2
    <2> QED BY <2>1, <2>2, <2>3, <2>4
  <1>2. M \cup N \subseteq TxsIn(D, Blocks(D)) /\ Hashed(M \cup N)
    <2>1. M \cup N \subseteq TxsIn(D, Blocks(D))
      BY <1>1 DEF TxsIn
    <2> QED BY <2>1 DEF Hashed
  <1>3. Kept(M, N)
    <2> SUFFICES ASSUME NEW t \in M \cap N, IsCoinbase(t) PROVE OutPoints(t) \cap Consumed(M \cup N) = {}
      BY DEF Kept
    <2>1. PICK a \in A : t \in Range(TxsAt(D, a))
      BY DEF TxsIn
    <2>2. a \in Blocks(D) /\ a # b
      BY <1>1, <2>1
    <2>3. OutPoints(t) \cap Consumed(TxsIn(D, Blocks(D))) = {}
      BY <2>1, <2>2 DEF MintedOnce
    <2>4. Consumed(M \cup N) \subseteq Consumed(TxsIn(D, Blocks(D)))
      BY <1>2 DEF Consumed
    <2> QED BY <2>3, <2>4
  <1>4. Accounted(run.utxo, M)
    BY DEF RunAccounted
  <1>5. r.ok => Accounted(r.utxo, M \cup N) /\ Consumed(N) \cap Consumed(M) = {}
    <2> HIDE DEF M
    <2> QED BY <1>2, <1>3, <1>4, BlockAccounted
  <1>6. r.ok \in BOOLEAN
    BY RefusedUnchanged
  <1> HIDE DEF r
  <1>7. CASE ~r.ok
    <2>1. RunStep(D, run, b) = run
      BY <1>7 DEF RunStep, Recorded, r
    <2>2. RunAccounted(D, T \cup {b}, run)
      BY <1>1 DEF RunAccounted
    <2> QED BY <2>1, <2>2
  <1>8. CASE r.ok
    <2> DEFINE new == [utxo |-> r.utxo, accepted |-> more, fees |-> run.fees + r.fees,
                       minted |-> run.minted + r.minted]
    <2>1. RunStep(D, run, b) = new
      BY <1>8 DEF RunStep, Recorded, r
    <2>2. new.utxo = r.utxo /\ new.accepted = more
      OBVIOUS
    <2> HIDE DEF new
    <2>3. \A i \in 1..n : SpentBy(D, list[i]) \subseteq Consumed(M)
      <3>1. \A i \in 1..n : list[i] \in A
        BY <1>1 DEF Range
      <3>2. \A a \in A : Range(TxsAt(D, a)) \subseteq M
        BY DEF TxsIn
      <3> HIDE DEF A, M
      <3>3. \A a \in A : SpentBy(D, a) \subseteq Consumed(M)
        BY <3>2 DEF SpentBy, Consumed
      <3> QED BY <3>1, <3>3
    <2>4. \A i, j \in 1..n : i # j => SpentBy(D, list[i]) \cap SpentBy(D, list[j]) = {}
      <3>1. DOMAIN list = 1..n
        BY <1>1
      <3> QED BY <3>1 DEF RunAccounted
    <2> HIDE DEF n
    <2>5. /\ more \in Seq(T \cup {b}) /\ DOMAIN more = 1..(n + 1) /\ more[n + 1] = b
          /\ \A i \in 1..n : more[i] = list[i]
      <3> HIDE DEF list
      <3> QED BY <1>1 DEF n
    <2> HIDE DEF list, more
    <2>6. Range(more) = A \cup {b}
      <3>1. 1..(n + 1) = (1..n) \cup {n + 1}
        BY <1>1
      <3> QED BY <1>1, <2>5, <3>1 DEF Range
    <2>7. TxsIn(D, Range(more)) = M \cup N
      BY <2>6 DEF TxsIn
    <2>8. SpentBy(D, b) = Consumed(N)
      BY DEF SpentBy
    <2> HIDE DEF A, M, N
    <2>9. ASSUME NEW i \in 1..(n + 1), NEW j \in 1..(n + 1), i # j
          PROVE  SpentBy(D, more[i]) \cap SpentBy(D, more[j]) = {}
      <3>1. \/ i \in 1..n /\ j \in 1..n
            \/ i \in 1..n /\ j = n + 1
            \/ i = n + 1 /\ j \in 1..n
        BY <1>1, <2>9
      <3>2. CASE i \in 1..n /\ j \in 1..n
        BY <2>4, <2>5, <2>9, <3>2
      <3>3. CASE i \in 1..n /\ j = n + 1
        BY <1>5, <1>8, <2>3, <2>5, <2>8, <3>3
      <3>4. CASE i = n + 1 /\ j \in 1..n
        BY <1>5, <1>8, <2>3, <2>5, <2>8, <3>4
      <3> QED BY <3>1, <3>2, <3>3, <3>4
    <2>10. RunAccounted(D, T \cup {b}, new)
      <3>1. new.accepted \in Seq(T \cup {b})
        BY <2>2, <2>5
      <3>2. Accounted(new.utxo, TxsIn(D, Range(new.accepted)))
        BY <1>5, <1>8, <2>2, <2>7
      <3>3. DOMAIN new.accepted = 1..(n + 1)
        BY <2>2, <2>5
      <3>4. \A i, j \in DOMAIN new.accepted :
                i # j => SpentBy(D, new.accepted[i]) \cap SpentBy(D, new.accepted[j]) = {}
        BY <2>2, <2>9, <3>3
      <3> QED BY <3>1, <3>2, <3>4 DEF RunAccounted
    <2> QED BY <2>1, <2>10
  <1> QED BY <1>6, <1>7, <1>8

\* So it is for a whole dag.
LEMMA DagAccounted ==
    ASSUME NEW D, DagOK(D), \A b \in Blocks(D) : TxsAt(D, b) \in Seq(Transactions),
           Hashed(TxsIn(D, Blocks(D))), MintedOnce(D)
    PROVE  RunAccounted(D, Blocks(D), ApplyDag(D))
  <1> DEFINE s == Linearize(D)
             B == Blocks(D)
             n == Cardinality(B)
  <1>1. /\ s \in Seq(B) /\ Len(s) = n /\ n \in Nat \ {0} /\ FirstOf(s, n) = B
        /\ \A i \in 2..n : s[i] \in B \ FirstOf(s, i - 1)
    BY LinearizeGrows
  <1>2. ApplyDag(D) = Running!Fold(D, NoRun, s)
    BY ApplyDagFold
  <1> HIDE DEF s, n
  <1>3. n \in Nat /\ DOMAIN s = 1..n /\ \A i \in 1..n : s[i] \in B
    <2> HIDE DEF B
    <2> QED BY <1>1
  <1>4. PICK h : Running!Steps(D, NoRun, s, n, h) /\ Running!Fold(D, NoRun, s) = h[n]
    BY <1>3, Running!FoldSteps
  <1>5. h[0] = NoRun /\ \A j \in 1..n : h[j] = RunStep(D, h[j - 1], s[j])
    BY <1>4 DEF Running!Steps
  <1>6. FirstOf(s, 0) = {}
    BY DEF FirstOf
  <1> DEFINE S == {i \in Nat : RunAccounted(D, FirstOf(s, i), h[i])}
  <1>7. 0 \in S
    <2>1. NoRun.utxo = <<>> /\ NoRun.accepted = <<>> /\ DOMAIN <<>> = {}
      BY DEF NoRun
    <2>2. <<>> \in Seq({}) /\ Range(<<>>) = {}
      BY DEF Range
    <2>3. TxsIn(D, {}) = {} /\ Consumed({}) = {}
      BY DEF TxsIn, Consumed
    <2>4. Accounted(<<>>, {})
      BY <2>1, <2>3 DEF Accounted
    <2>5. RunAccounted(D, {}, NoRun)
      BY <2>1, <2>2, <2>3, <2>4 DEF RunAccounted
    <2> QED BY <1>5, <1>6, <2>5
  <1>8. ASSUME NEW i \in 0..(n - 1), i \in S PROVE i + 1 \in S
    <2>1. i + 1 \in 1..n /\ (i + 1) - 1 = i /\ i + 1 \in Nat /\ i \in Nat
      BY <1>3
    <2>2. h[i + 1] = RunStep(D, h[i], s[i + 1]) /\ s[i + 1] \in B
      BY <1>3, <1>5, <2>1
    <2>3. FirstOf(s, i + 1) = FirstOf(s, i) \cup {s[i + 1]}
      <3>1. 1..(i + 1) = (1..i) \cup {i + 1}
        BY <2>1
      <3> QED BY <3>1 DEF FirstOf
    <2>4. FirstOf(s, i) \subseteq B
      <3>1. 1..i \subseteq 1..n
        BY <1>3, <2>1
      <3> QED BY <1>3, <3>1 DEF FirstOf
    <2>5. s[i + 1] \notin FirstOf(s, i)
      <3>1. CASE i = 0
        BY <1>6, <3>1
      <3>2. CASE i # 0
        <4>1. i + 1 \in 2..n
          BY <1>3, <2>1, <3>2
        <4>2. s[i + 1] \in B \ FirstOf(s, (i + 1) - 1)
          BY <1>1, <4>1
        <4> QED BY <2>1, <4>2
      <3> QED BY <3>1, <3>2
    <2>6. RunAccounted(D, FirstOf(s, i), h[i])
      BY <1>8
    <2>7. ASSUME NEW T, T = FirstOf(s, i), NEW b, b = s[i + 1], NEW run, run = h[i]
          PROVE  RunAccounted(D, T \cup {b}, RunStep(D, run, b))
      <3>1. RunAccounted(D, T, run) /\ T \subseteq B /\ b \in B \ T /\ TxsAt(D, b) \in Seq(Transactions)
        BY <2>2, <2>4, <2>5, <2>6, <2>7
      <3> QED BY <3>1, RunStepAccounted
    <2>8. RunAccounted(D, FirstOf(s, i + 1), h[i + 1])
      BY <2>2, <2>3, <2>7
    <2> QED BY <2>1, <2>8
  <1>9. 0..n \subseteq S
    <2> HIDE DEF S
    <2> QED BY <1>3, <1>7, <1>8, NatSetTo
  <1>10. RunAccounted(D, FirstOf(s, n), h[n])
    BY <1>3, <1>9
  <1> QED
    BY <1>1, <1>2, <1>4, <1>10

\* The transactions that were ever in a block of the ledger.
Offered == TxsIn(ledger.dag, Blocks(ledger.dag))

\* Where ids name transactions, and no coinbase is mined twice and spent, an output is
\* spent by one accepted block at most, for parallel spends too (ledger.rs: apply_dag,
\* apply_regular).
THEOREM DoubleSpendsTakeNoEffect ==
    Spec /\ [](Hashed(Offered) /\ MintedOnce(ledger.dag)) => []NoDoubleSpend
  <1>1. LedgerInv /\ BlocksTyped /\ Hashed(Offered) /\ MintedOnce(ledger.dag) => NoDoubleSpend
    <2> SUFFICES ASSUME LedgerInv, BlocksTyped, Hashed(Offered), MintedOnce(ledger.dag)
                 PROVE  NoDoubleSpend
      OBVIOUS
    <2> DEFINE D == ledger.dag
               acc == ApplyDag(D).accepted
               spentBy(b) == UNION {Spent(TxsOf(b)[i]) : i \in DOMAIN TxsOf(b)}
    <2>1. DagOK(D)
      BY DEF LedgerInv, Sound, LedgerOK
    <2>2. \A b \in Blocks(D) : TxsAt(D, b) \in Seq(Transactions)
      BY DEF BlocksTyped, WholeBlocks, TxsAt
    <2>3. RunAccounted(D, Blocks(D), ApplyDag(D))
      BY <2>1, <2>2, DagAccounted DEF Offered
    <2>4. \A b : spentBy(b) = SpentBy(D, b)
      BY DEF SpentBy, Consumed, Range, TxsOf, TxsAt
    <2>5. \A i, j \in DOMAIN acc : i # j => SpentBy(D, acc[i]) \cap SpentBy(D, acc[j]) = {}
      BY <2>3 DEF RunAccounted
    <2> HIDE DEF D, acc
    <2>6. \A i, j \in DOMAIN acc : i # j => spentBy(acc[i]) \cap spentBy(acc[j]) = {}
      BY <2>4, <2>5
    <2> QED BY <2>6 DEF NoDoubleSpend, D, acc
  <1> QED
    BY <1>1, LedgerInvariance, BlocksTypedInvariant, PTL

----------------------------------------------------------------------------
(***************************************************************************)
(* Replays.                                                                *)
(***************************************************************************)

\* The blocks of a ledger, inserted anew in linearized order, give its dag and every
\* view state: none is refused (ledger.rs: read_snapshot).
ReplayIdentical == Replay(WriteSnapshot(ledger.dag)) = ledger

\* It is so in every reachable ledger.
THEOREM SnapshotReplays == Spec => []ReplayIdentical
  <1>1. LedgerInv => ReplayIdentical
    BY SnapshotLog, ReplayLog DEF LedgerInv, Sound, LedgerOK, ReplayIdentical
  <1> QED
    BY <1>1, LedgerInvariance, PTL

----------------------------------------------------------------------------
(***************************************************************************)
(* Snapshots as byte strings.                                              *)
(***************************************************************************)

\* The fields of a snapshot.
Fields == Nat \cup TxIds \cup Owners \cup {"KVLG", "KVDG"}

\* A stored block is a record that can be written.
LEMMA RecordTyped ==
    ASSUME NEW id \in Nat, NEW block \in WholeBlocks, IsFiniteSet(block.parents), NEW r,
           r = [id |-> id, block |-> block]
    PROVE  RecordOK(Fields, r)
  <1> DEFINE txs == block.txs
  <1>1. Nat \subseteq Fields /\ TxIds \subseteq Fields /\ Owners \subseteq Fields
    BY DEF Fields
  <1>2. /\ block = [parents |-> block.parents, work |-> block.work,
                    timestamp |-> block.timestamp, txs |-> txs]
        /\ block.parents \subseteq Nat /\ block.work \in Nat /\ block.timestamp \in Nat
        /\ txs \in Seq(Transactions)
    BY DEF WholeBlocks
  <1>3. r.id = id /\ r.block = block
    OBVIOUS
  <1> HIDE DEF txs
  <1>4. ASSUME NEW tx \in Transactions PROVE TxOK(Fields, tx)
    <2> DEFINE In == [outpoint : TxIds \X Nat, signer : Owners]
               Out == [value : 0..MaxValue, owner : Owners]
               FIn == [outpoint : Fields \X Fields, signer : Fields]
               FOut == [value : Fields, owner : Fields]
    <2>1. /\ tx = [id |-> tx.id, inputs |-> tx.inputs, outputs |-> tx.outputs]
          /\ tx.id \in TxIds /\ tx.inputs \in Seq(In) /\ tx.outputs \in Seq(Out)
      BY DEF Transactions
    <2>2. In \subseteq FIn /\ Out \subseteq FOut
      <3>1. TxIds \X Nat \subseteq Fields \X Fields /\ 0..MaxValue \subseteq Fields
        BY <1>1
      <3> QED BY <1>1, <3>1
    <2> HIDE DEF In, Out, FIn, FOut
    <2>3. tx.inputs \in Seq(FIn) /\ tx.outputs \in Seq(FOut)
      BY <2>1, <2>2
    <2> QED BY <1>1, <2>1, <2>3 DEF TxOK, FIn, FOut
  <1>5. TxsOK(Fields, txs)
    <2>1. Len(txs) \in Nat /\ txs = [i \in 1..Len(txs) |-> txs[i]]
          /\ \A i \in 1..Len(txs) : txs[i] \in Transactions
      BY <1>2
    <2> QED BY <1>4, <2>1 DEF TxsOK
  <1> QED
    BY <1>1, <1>2, <1>3, <1>5 DEF RecordOK, txs

\* A snapshot is a list of records whose fields can be written.
LEMMA SnapshotList ==
    ASSUME LedgerInv, BlocksTyped
    PROVE  RecordList(Fields, Cardinality(Blocks(ledger.dag)), WriteSnapshot(ledger.dag))
           /\ WriteSnapshot(ledger.dag) # <<>>
  <1> DEFINE D == ledger.dag
             n == Cardinality(Blocks(D))
             log == WriteSnapshot(D)
  <1>1. DagOK(D) /\ LedgerOK(ledger) /\ Admitted(D)
    BY DEF LedgerInv, Sound, LedgerOK
  <1>2. LogOf(D, log, n)
    BY <1>1, SnapshotLog
  <1>3. log = [i \in 1..n |-> log[i]] /\ n \in Nat \ {0}
        /\ \A i \in 1..n : log[i].id \in Blocks(D) /\ log[i].block = D.nodes[log[i].id].block
                           /\ log[i] = [id |-> log[i].id, block |-> log[i].block]
    <2> DEFINE s == Linearize(D)
               w == [i \in DOMAIN s |-> [id |-> s[i], block |-> D.nodes[s[i]].block]]
    <2>1. log = w /\ DOMAIN log = 1..n /\ n \in Nat \ {0}
          /\ \A i \in 1..n : log[i].id \in Blocks(D) /\ log[i].block = D.nodes[log[i].id].block
      <3>1. log = w
        BY DEF WriteSnapshot
      <3> HIDE DEF log, w
      <3> QED BY <1>2, <3>1 DEF LogOf
    <2>2. DOMAIN w = DOMAIN s /\ \A i \in DOMAIN s : w[i] = [id |-> w[i].id, block |-> w[i].block]
      OBVIOUS
    <2>3. w = [i \in DOMAIN w |-> w[i]]
      OBVIOUS
    <2> HIDE DEF w, log, s, n
    <2> QED BY <2>1, <2>2, <2>3
  <1>4. \A i \in 1..n : RecordOK(Fields, log[i])
    <2> SUFFICES ASSUME NEW i \in 1..n PROVE RecordOK(Fields, log[i])
      OBVIOUS
    <2> DEFINE id == log[i].id
               block == log[i].block
    <2>1. id \in Blocks(D) /\ block = D.nodes[id].block /\ log[i] = [id |-> id, block |-> block]
      BY <1>3
    <2>2. id \in Nat /\ block \in WholeBlocks
      BY <1>1, <2>1 DEF BlocksTyped, DagOK
    <2>3. IsFiniteSet(block.parents)
      <3>1. Parents(D, id) \in SUBSET Blocks(D) /\ IsFiniteSet(Blocks(D))
        BY <1>1, <2>1, ParentSelected DEF DagOK, NodeOK
      <3> QED BY <2>1, <3>1, FS_Subset DEF Parents
    <2> HIDE DEF id, block, log
    <2> QED BY <2>1, <2>2, <2>3, RecordTyped
  <1> HIDE DEF log, n
  <1>5. RecordList(Fields, n, log)
    BY <1>3, <1>4 DEF RecordList, Fields
  <1>6. log # <<>>
    BY <1>3
  <1> QED
    BY <1>5, <1>6 DEF log, n

\* The header and the records of a snapshot are strings over the same fields.
SnapshotFields == Fields \cup {Subsidy, K}

LEMMA SnapshotString ==
    ASSUME LedgerInv, BlocksTyped
    PROVE  /\ SnapshotHeader \in Seq(SnapshotFields)
           /\ EncodeRecords(WriteSnapshot(ledger.dag)) \in Seq(SnapshotFields)
  <1> DEFINE log == WriteSnapshot(ledger.dag)
             n == Cardinality(Blocks(ledger.dag))
             enc == EncodeRecords(log)
  <1>1. enc \in Seq(Fields)
    <2>1. RecordList(Fields, n, log)
      BY SnapshotList
    <2> HIDE DEF log, n
    <2> QED BY <2>1, RecordsRead
  <1> HIDE DEF enc
  <1>2. enc \in Seq(SnapshotFields)
    BY <1>1 DEF SnapshotFields
  <1>3. {"KVLG", "KVDG", 1, 3, Subsidy, K} \subseteq SnapshotFields
    BY DEF SnapshotFields, Fields
  <1>4. SnapshotHeader \in Seq(SnapshotFields)
    BY <1>3 DEF SnapshotHeader
  <1> QED
    BY <1>2, <1>4 DEF enc

\* Writing a snapshot and reading it back loses nothing: the restored ledger is identical
\* to the original (ledger.rs: write_snapshot, read_snapshot; snapshot.rs; tx.rs).
THEOREM SnapshotsRestore == Spec => []RestoreIdentical
  <1>1. LedgerInv /\ BlocksTyped => RestoreIdentical
    <2> SUFFICES ASSUME LedgerInv, BlocksTyped PROVE RestoreIdentical
      OBVIOUS
    <2> DEFINE D == ledger.dag
               n == Cardinality(Blocks(D))
               log == WriteSnapshot(D)
               enc == EncodeRecords(log)
               h == SnapshotHeader
               F == SnapshotFields
    <2>1. Sound(ledger) /\ LogOf(D, log, n)
      <3>1. DagOK(D) /\ Sound(ledger)
        BY DEF LedgerInv, Sound, LedgerOK
      <3> QED BY <3>1, SnapshotLog
    <2>2. RecordList(Fields, n, log) /\ log # <<>> /\ enc \in Seq(F) /\ h \in Seq(F)
      BY SnapshotList, SnapshotString
    <2>3. Replay(log) = ledger
      BY <2>1, ReplayLog
    <2> HIDE DEF log, n
    <2>4. DecodeRecords(enc) = Got(log, <<>>)
      BY <2>2, RecordsRead
    <2> HIDE DEF enc, h, F
    <2>5. IsPrefix(h, h \o enc) /\ SubSeq(h \o enc, 1 + Len(h), Len(h \o enc)) = enc
      BY <2>2, HeaderSplit
    <2> DEFINE bytes == h \o enc
               read == DecodeRecords(SubSeq(bytes, 1 + Len(h), Len(bytes)))
    <2>6. ReadLedgerSnapshot(bytes) = IF IsPrefix(h, bytes) /\ read.ok /\ read.value # <<>>
                                      THEN Replay(read.value) ELSE FailedLedger
      BY DEF ReadLedgerSnapshot, h
    <2>7. read = Got(log, <<>>)
      BY <2>4, <2>5
    <2>8. WriteLedgerSnapshot(ledger) = bytes
      BY DEF WriteLedgerSnapshot, h, enc, log
    <2> HIDE DEF bytes, read
    <2>9. read.ok /\ read.value = log
      BY <2>7 DEF Got
    <2>10. ReadLedgerSnapshot(bytes) = ledger
      BY <2>2, <2>3, <2>5, <2>6, <2>9 DEF bytes
    <2> QED BY <2>8, <2>10 DEF RestoreIdentical
  <1> QED
    BY <1>1, LedgerInvariance, BlocksTypedInvariant, PTL

\* No part of a snapshot passes for a snapshot: a file that a kill cut anywhere before its
\* end is an error to read_snapshot, and never a ledger with fewer blocks.
TornRefused ==
    LET bytes == WriteLedgerSnapshot(ledger)
    IN  \A k \in 0..(Len(bytes) - 1) : ReadLedgerSnapshot(SubSeq(bytes, 1, k)) = FailedLedger

\* It is so of every ledger that insertions reach (ledger.rs: read_snapshot; snapshot.rs:
\* the counts that decode_records reads before it reads what they count).
THEOREM TornSnapshotsRefused == Spec => []TornRefused
  <1>1. LedgerInv /\ BlocksTyped => TornRefused
    <2> SUFFICES ASSUME LedgerInv, BlocksTyped PROVE TornRefused
      OBVIOUS
    <2> DEFINE n == Cardinality(Blocks(ledger.dag))
               log == WriteSnapshot(ledger.dag)
               enc == EncodeRecords(log)
               h == SnapshotHeader
               F == SnapshotFields
               bytes == WriteLedgerSnapshot(ledger)
    <2>1. RecordList(Fields, n, log) /\ enc \in Seq(F) /\ h \in Seq(F) /\ bytes = h \o enc
      BY SnapshotList, SnapshotString DEF WriteLedgerSnapshot
    <2> SUFFICES ASSUME NEW k \in 0..(Len(bytes) - 1)
                 PROVE  ReadLedgerSnapshot(SubSeq(bytes, 1, k)) = FailedLedger
      BY DEF TornRefused
    <2> DEFINE p == SubSeq(bytes, 1, k)
               read == DecodeRecords(SubSeq(p, 1 + Len(h), Len(p)))
    <2>2. CutOff(bytes, p)
      BY DEF CutOff
    <2>3. ReadLedgerSnapshot(p) = IF IsPrefix(h, p) /\ read.ok /\ read.value # <<>>
                                  THEN Replay(read.value) ELSE FailedLedger
      BY DEF ReadLedgerSnapshot
    <2> HIDE DEF p, bytes, h, F, log, n
    <2>4. CutOff(h, p) \/ CutLater(F, h, enc, p)
      <3> HIDE DEF enc
      <3>1. bytes = Cat(h, enc)
        BY <2>1 DEF Cat
      <3> QED BY <2>1, <2>2, <3>1, CutSplit
    <2>5. CASE CutOff(h, p)
      <3>1. p \in Seq(F) /\ Len(p) < Len(h) /\ Len(p) \in Nat /\ Len(h) \in Nat
        BY <2>1, <2>5, CutIs
      <3>2. ~IsPrefix(h, p)
        BY <3>1 DEF IsPrefix
      <3> HIDE DEF read
      <3> QED BY <2>3, <3>2 DEF p
    <2>6. CASE CutLater(F, h, enc, p)
      <3>1. PICK q \in Seq(F) : CutOff(enc, q) /\ p = h \o q
        BY <2>6 DEF CutLater
      <3>2. SubSeq(p, 1 + Len(h), Len(p)) = q
        BY <2>1, <3>1, HeaderSplit
      <3>3. ~DecodeRecords(q).ok
        BY <2>1, <3>1, CutRecordsUnread
      <3>4. ~read.ok
        BY <3>2, <3>3
      <3> HIDE DEF read
      <3> QED BY <2>3, <3>4 DEF p
    <2> QED BY <2>4, <2>5, <2>6 DEF p
  <1> QED
    BY <1>1, LedgerInvariance, BlocksTypedInvariant, PTL

----------------------------------------------------------------------------
(***************************************************************************)
(* The log: what is in it.                                                 *)
(***************************************************************************)
LenMark == [kind |-> "len"]
Body(id, block) == [kind |-> "body", id |-> id, block |-> block]

\* What single writes leave in the file, whole or cut.
Records == [kind : {"body"}, id : Nat, block : WholeBlocks]
Pieces == {Header, LenMark} \cup Records
Torn == [kind : {"cut"}, of : {"header", "len", "body"}]
Chunks == Pieces \cup Torn

\* They are told apart by their kinds.
LEMMA PieceKinds ==
    /\ \A x \in Pieces : /\ x.kind \in {"header", "len", "body"}
                         /\ x.kind = "body" => x.id \in Nat /\ x.block \in WholeBlocks
                         /\ Cut(x) \in Torn /\ Cut(x).of = x.kind
    /\ \A x \in Torn : x.kind = "cut"
    /\ Header.kind = "header" /\ LenMark.kind = "len"
  BY DEF Pieces, Records, Torn, Header, LenMark, Cut

\* open's step: a record is one more body.
BodyRead(d, read, c) == IF c.kind = "body" THEN Append(read, c) ELSE read
Gathering == INSTANCE DataTheorems WITH FoldStep <- BodyRead

LEMMA BodiesFold ==
    ASSUME NEW c
    PROVE  Bodies(c) = Gathering!Fold(0, <<>>, c)
  BY DEF Bodies, BodyRead, Gathering!Fold, FoldLeft, MapThenFoldSet, Max, Gathering!Largest

\* One more write is a record or nothing to a reader.
LEMMA BodiesAppend ==
    ASSUME NEW T, NEW c \in Seq(T), NEW x
    PROVE  Bodies(Append(c, x)) = IF x.kind = "body" THEN Append(Bodies(c), x) ELSE Bodies(c)
  <1> DEFINE U == T \cup {x}
             r == <<x>>
  <1>1. c \in Seq(U) /\ r \in Seq(U) /\ Append(c, x) = c \o r
    OBVIOUS
  <1>2. Gathering!Fold(0, <<>>, c \o r) = Gathering!Fold(0, Gathering!Fold(0, <<>>, c), r)
    <2> HIDE DEF U, r
    <2> QED BY <1>1, Gathering!FoldConcat
  <1>3. Gathering!Fold(0, Bodies(c), r) = BodyRead(0, Bodies(c), x)
    BY Gathering!FoldOne
  <1> HIDE DEF r
  <1> QED
    BY <1>1, <1>2, <1>3, BodiesFold DEF BodyRead

\* An empty file has no records.
LEMMA BodiesEmpty == Bodies(<<>>) = <<>>
  BY BodiesFold, Gathering!FoldEmpty

\* All records are read, and nothing else, and the third write is the first record.
LEMMA BodiesOf ==
    ASSUME NEW T, NEW c \in Seq(T)
    PROVE  /\ Bodies(c) \in Seq({x \in Range(c) : x.kind = "body"})
           /\ \A x \in Range(c) : x.kind = "body" => x \in Range(Bodies(c))
           /\ Len(c) >= 3 /\ c[1].kind # "body" /\ c[2].kind # "body" /\ c[3].kind = "body"
                => Bodies(c) # <<>> /\ Bodies(c)[1] = c[3]
  <1> DEFINE n == Len(c)
             B == {x \in Range(c) : x.kind = "body"}
             third == c[1].kind # "body" /\ c[2].kind # "body" /\ c[3].kind = "body"
  <1>1. n \in Nat /\ DOMAIN c = 1..n /\ \A i \in 1..n : c[i] \in Range(c)
    BY DEF Range
  <1>2. PICK h : Gathering!Steps(0, <<>>, c, n, h) /\ Gathering!Fold(0, <<>>, c) = h[n]
    BY <1>1, Gathering!FoldSteps
  <1> DEFINE first(i) == third /\ i >= 3 => h[i] # <<>> /\ h[i][1] = c[3]
             none(i) == third /\ i <= 2 => h[i] = <<>>
             all(i) == \A j \in 1..i : c[j].kind = "body" => c[j] \in Range(h[i])
             S == {i \in Nat : h[i] \in Seq(B) /\ all(i) /\ none(i) /\ first(i)}
  <1>3. 0 \in S
    <2>1. h[0] = <<>> /\ 1..0 = {}
      BY <1>2 DEF Gathering!Steps
    <2> HIDE DEF B
    <2>2. h[0] \in Seq(B)
      BY <2>1, EmptySeq
    <2>3. all(0)
      BY <2>1
    <2>4. none(0) /\ first(0)
      BY <2>1
    <2> QED BY <2>2, <2>3, <2>4
  <1>4. ASSUME NEW i \in 0..(n - 1), i \in S PROVE i + 1 \in S
    <2> DEFINE x == c[i + 1]
               old == h[i]
               new == h[i + 1]
    <2>1. i + 1 \in 1..n /\ (i + 1) - 1 = i /\ i + 1 \in Nat /\ i \in Nat
      BY <1>1
    <2>2. new = IF x.kind = "body" THEN Append(old, x) ELSE old
      BY <1>2, <2>1 DEF Gathering!Steps, BodyRead
    <2>3. old \in Seq(B) /\ all(i) /\ none(i) /\ first(i)
      BY <1>4
    <2>4. x.kind = "body" => x \in B
      BY <1>1, <2>1
    <2>5. i + 1 <= 2 => i <= 2 /\ (i + 1 = 1 \/ i + 1 = 2)
      BY <2>1
    <2>6. i + 1 >= 3 => (i + 1 = 3 /\ i <= 2) \/ (i >= 3)
      BY <2>1
    <2>7. \A j \in 1..(i + 1) : j \in 1..i \/ j = i + 1
      BY <2>1
    <2> HIDE DEF B, old, new
    <2>8. CASE x.kind = "body"
      <3>1. new = Append(old, x) /\ x \in B
        BY <2>2, <2>4, <2>8
      <3>2. /\ new \in Seq(B) /\ new # <<>> /\ Range(new) = Range(old) \cup {x}
            /\ old # <<>> => new[1] = old[1]
            /\ old = <<>> => new[1] = x
        <4>1. new \in Seq(B) /\ Len(old) \in Nat /\ Len(new) = Len(old) + 1 /\ DOMAIN new = 1..(Len(old) + 1)
              /\ DOMAIN old = 1..Len(old)
              /\ new[Len(old) + 1] = x /\ \A j \in 1..Len(old) : new[j] = old[j]
          BY <2>3, <3>1
        <4>2. Range(new) = Range(old) \cup {x}
          <5>1. \A j \in 1..(Len(old) + 1) : j \in 1..Len(old) \/ j = Len(old) + 1
            BY <4>1
          <5>2. Len(old) + 1 \in 1..(Len(old) + 1) /\ \A j \in 1..Len(old) : j \in 1..(Len(old) + 1)
            BY <4>1
          <5> QED BY <4>1, <5>1, <5>2 DEF Range
        <4>3. old # <<>> => 1 \in 1..Len(old)
          BY <2>3
        <4>4. old = <<>> => Len(old) = 0
          OBVIOUS
        <4>5. new # <<>>
          BY <3>1, <2>3
        <4> QED BY <4>1, <4>2, <4>3, <4>4, <4>5
      <3>3. all(i + 1)
        BY <2>3, <2>7, <3>2 DEF new, old
      <3>4. none(i + 1)
        BY <2>5, <2>8
      <3>5. first(i + 1)
        <4> SUFFICES ASSUME third, i + 1 >= 3 PROVE new # <<>> /\ new[1] = c[3]
          BY DEF new
        <4>1. CASE i + 1 = 3 /\ i <= 2
          BY <2>3, <3>2, <4>1 DEF old
        <4>2. CASE i >= 3
          BY <2>3, <3>2, <4>2 DEF old
        <4> QED BY <2>6, <4>1, <4>2
      <3> QED BY <2>1, <3>2, <3>3, <3>4, <3>5 DEF new
    <2>9. CASE x.kind # "body"
      <3>1. new = old
        BY <2>2, <2>9
      <3>2. all(i + 1)
        BY <2>3, <2>7, <2>9, <3>1 DEF new, old
      <3>3. none(i + 1)
        BY <2>3, <2>5, <3>1 DEF new, old
      <3>4. first(i + 1)
        <4> SUFFICES ASSUME third, i + 1 >= 3 PROVE new # <<>> /\ new[1] = c[3]
          BY DEF new
        <4>1. i + 1 # 3
          BY <2>9
        <4> QED BY <2>3, <2>6, <3>1, <4>1 DEF old
      <3> QED BY <2>1, <2>3, <3>1, <3>2, <3>3, <3>4 DEF new, old
    <2> QED BY <2>8, <2>9
  <1>5. 0..n \subseteq S
    <2> HIDE DEF S, n
    <2> QED BY <1>1, <1>3, <1>4, NatSetTo
  <1>6. h[n] \in Seq(B) /\ all(n) /\ first(n)
    <2>1. n \in S
      <3> HIDE DEF S, n
      <3>1. n \in 0..n
        BY <1>1
      <3> QED BY <1>5, <3>1
    <2> HIDE DEF B, n
    <2> QED BY <2>1
  <1>7. Bodies(c) = h[n]
    BY <1>2, BodiesFold
  <1>8. \A x \in Range(c) : \E j \in 1..n : x = c[j]
    BY <1>1 DEF Range
  <1> HIDE DEF B, n
  <1> QED
    BY <1>6, <1>7, <1>8 DEF B, n

\* The ids of what is in a file are still there when it has grown.
LEMMA IdsGrow ==
    ASSUME NEW T, NEW c \in Seq(T), NEW x
    PROVE  IdsIn(c) \subseteq IdsIn(Append(c, x))
  <1> DEFINE q == Append(c, x)
             U == T \cup {x}
  <1>1. q \in Seq(U) /\ Len(c) \in Nat /\ DOMAIN c = 1..Len(c) /\ DOMAIN q = 1..(Len(c) + 1)
        /\ \A i \in 1..Len(c) : q[i] = c[i]
    OBVIOUS
  <1>2. Range(c) \subseteq Range(q)
    <2>1. \A i \in 1..Len(c) : i \in 1..(Len(c) + 1)
      BY <1>1
    <2> HIDE DEF q
    <2> QED BY <1>1, <2>1 DEF Range
  <1>3. Range(Bodies(c)) \subseteq {y \in Range(c) : y.kind = "body"}
    <2>1. Bodies(c) \in Seq({y \in Range(c) : y.kind = "body"})
      BY BodiesOf
    <2> QED BY <2>1 DEF Range
  <1> HIDE DEF q, U
  <1>4. \A y \in Range(q) : y.kind = "body" => y \in Range(Bodies(q))
    BY <1>1, BodiesOf
  <1> QED
    BY <1>2, <1>3, <1>4 DEF IdsIn, q

\* A file of whole records, after the header.
Shaped(c) ==
    /\ Len(c) % 2 = 1 /\ c[1] = Header
    /\ \A i \in 2..Len(c) : c[i].kind = IF i % 2 = 0 THEN "len" ELSE "body"

\* No length prefix in it is cut.
Clean(c) == Cut(LenMark) \notin Range(c)

\* open reads such files to the end, and of the files without a cut prefix only those.
LEMMA ShapedReadable ==
    ASSUME NEW c \in Seq(Chunks)
    PROVE  /\ Shaped(c) /\ Len(c) >= 3 => Readable(c)
           /\ Readable(c) /\ Clean(c) => Shaped(c) /\ Len(c) >= 3
  <1> DEFINE n == Len(c)
             kindAt(i) == IF i % 2 = 0 THEN "len" ELSE "body"
  <1>1. n \in Nat /\ DOMAIN c = 1..n
    OBVIOUS
  <1>2. ASSUME Shaped(c), n >= 3 PROVE Readable(c)
    <2>1. n \in 2..n /\ n % 2 # 0
      BY <1>1, <1>2 DEF Shaped
    <2>2. c[n].kind = "body"
      BY <1>2, <2>1 DEF Shaped
    <2> QED BY <1>2, <2>2 DEF Readable, Shaped
  <1>3. ASSUME Readable(c), Clean(c) PROVE Shaped(c) /\ n >= 3
    <2>1. n >= 3 /\ c[1] = Header /\ c[n].kind # "len"
      BY <1>3 DEF Readable
    <2>2. ASSUME NEW i \in 2..n PROVE c[i].kind = kindAt(i)
      <3>1. i \in 1..n
        BY <1>1
      <3>2. c[i] # Cut(LenMark)
        BY <1>1, <1>3, <3>1 DEF Clean, Range
      <3> QED BY <1>3, <3>2 DEF Readable, LenMark
    <2>3. n % 2 = 1
      <3>1. n \in 2..n
        BY <1>1, <2>1
      <3>2. c[n].kind = kindAt(n)
        BY <2>2, <3>1
      <3>3. n % 2 # 0
        BY <2>1, <3>2
      <3> QED BY <1>1, <3>3
    <2> QED BY <2>1, <2>2, <2>3 DEF Shaped
  <1> QED
    BY <1>2, <1>3

\* A record behind such a file makes another one.
LEMMA RecordBehind ==
    ASSUME NEW c \in Seq(Chunks), Shaped(c), NEW id \in Nat, NEW block \in WholeBlocks
    PROVE  /\ Record(id, block) = <<LenMark, Body(id, block)>>
           /\ Record(id, block) \in Seq(Pieces)
           /\ Shaped(c \o Record(id, block)) /\ Len(c \o Record(id, block)) = Len(c) + 2
           /\ Bodies(c \o Record(id, block)) = Append(Bodies(c), Body(id, block))
           /\ Range(c \o Record(id, block)) = Range(c) \cup {LenMark, Body(id, block)}
  <1> DEFINE body == Body(id, block)
             n == Len(c)
             q == c \o <<LenMark, body>>
             e == Append(c, LenMark)
  <1>1. Record(id, block) = <<LenMark, body>>
    BY DEF Record, LenMark, Body
  <1>2. LenMark \in Pieces /\ body \in Pieces
    BY DEF Pieces, Records, Body
  <1>3. LenMark.kind = "len" /\ body.kind = "body"
    BY DEF LenMark, Body
  <1> HIDE DEF body
  <1>4. <<LenMark, body>> \in Seq(Pieces)
    BY <1>2
  <1>5. e \in Seq(Chunks) /\ q = Append(e, body) /\ LenMark \in Chunks /\ body \in Chunks
    <2>1. LenMark \in Chunks /\ body \in Chunks
      BY <1>2 DEF Chunks
    <2> QED BY <2>1
  <1>6. /\ q \in Seq(Chunks) /\ n \in Nat /\ Len(q) = n + 2 /\ DOMAIN c = 1..n /\ DOMAIN q = 1..(n + 2)
        /\ q[n + 1] = LenMark /\ q[n + 2] = body /\ \A i \in 1..n : q[i] = c[i]
    BY <1>5
  <1>7. Bodies(q) = Append(Bodies(c), body)
    <2>1. Bodies(e) = Bodies(c)
      BY <1>3, BodiesAppend
    <2>2. Bodies(Append(e, body)) = Append(Bodies(e), body)
      BY <1>3, <1>5, BodiesAppend
    <2>3. q = Append(e, body)
      BY <1>5
    <2> HIDE DEF q, e
    <2> QED BY <2>1, <2>2, <2>3
  <1> HIDE DEF q, e
  <1>8. \A i \in 1..(n + 2) : i \in 1..n \/ i = n + 1 \/ i = n + 2
    BY <1>6
  <1>9. Shaped(q)
    <2>1. (n + 2) % 2 = 1 /\ (n + 1) % 2 = 0 /\ n >= 1
      BY <1>6 DEF Shaped
    <2>2. q[1] = Header
      BY <1>6, <2>1 DEF Shaped
    <2>3. ASSUME NEW i \in 2..(n + 2) PROVE q[i].kind = IF i % 2 = 0 THEN "len" ELSE "body"
      <3>1. i \in 2..n \/ i = n + 1 \/ i = n + 2
        BY <1>6
      <3>2. CASE i \in 2..n
        BY <1>6, <3>2 DEF Shaped
      <3>3. CASE i = n + 1
        BY <1>3, <1>6, <2>1, <3>3
      <3>4. CASE i = n + 2
        BY <1>3, <1>6, <2>1, <3>4
      <3> QED BY <3>1, <3>2, <3>3, <3>4
    <2> QED BY <1>6, <2>1, <2>2, <2>3 DEF Shaped
  <1>10. Range(q) = Range(c) \cup {LenMark, body}
    <2>1. n + 1 \in 1..(n + 2) /\ n + 2 \in 1..(n + 2) /\ \A i \in 1..n : i \in 1..(n + 2)
      BY <1>6
    <2> QED BY <1>6, <1>8, <2>1 DEF Range
  <1> QED
    BY <1>1, <1>4, <1>6, <1>7, <1>9, <1>10 DEF q, body

\* A record is two writes.
LEMMA RecordPieces ==
    ASSUME NEW id \in Nat, NEW block \in WholeBlocks
    PROVE  Record(id, block) \in Seq(Pieces)
  <1>1. LenMark \in Pieces /\ Body(id, block) \in Pieces
    BY DEF Pieces, Records, Body
  <1> QED
    BY <1>1 DEF Record, LenMark, Body

\* What create writes, for a dag and the records of its snapshot.
Created(log) ==
    <<Header>> \o FlattenSeq([i \in DOMAIN log |-> Record(log[i].id, log[i].block)])

LEMMA CreatedLog ==
    ASSUME NEW n \in Nat \ {0}, NEW log, DOMAIN log = 1..n,
           \A i \in 1..n : log[i].id \in Nat /\ log[i].block \in WholeBlocks
    PROVE  /\ Created(log) \in Seq(Pieces) /\ Shaped(Created(log)) /\ Len(Created(log)) >= 3
           /\ Bodies(Created(log)) = [i \in 1..n |-> Body(log[i].id, log[i].block)]
  <1> DEFINE f == [i \in DOMAIN log |-> Record(log[i].id, log[i].block)]
             H == <<Header>>
             body(i) == Body(log[i].id, log[i].block)
             upto(k) == [i \in 1..k |-> body(i)]
  <1>1. H \in Seq(Pieces) /\ H \in Seq(Chunks) /\ Len(H) = 1 /\ H[1] = Header /\ DOMAIN H = 1..1
    BY DEF Pieces, Chunks
  <1>2. Shaped(H)
    <2> HIDE DEF H
    <2> QED BY <1>1 DEF Shaped
  <1>3. Bodies(H) = <<>>
    <2>1. H = Append(<<>>, Header) /\ <<>> \in Seq(Chunks)
      OBVIOUS
    <2> HIDE DEF H
    <2>2. Header.kind # "body"
      BY PieceKinds
    <2>3. Bodies(Append(<<>>, Header)) = Bodies(<<>>)
      BY <2>1, <2>2, BodiesAppend
    <2> QED BY <2>1, <2>3, BodiesEmpty
  <1> HIDE DEF H
  <1>4. f \in [1..n -> Seq(Pieces)] /\ \A i \in 1..n : f[i] = Record(log[i].id, log[i].block)
    <2>1. \A i \in 1..n : Record(log[i].id, log[i].block) \in Seq(Pieces)
      BY RecordPieces
    <2> QED BY <2>1
  <1> HIDE DEF f
  <1>5. PICK q \in [0..n -> Seq(Pieces)] :
            /\ q[0] = <<>> /\ \A i \in 1..n : q[i] = q[i - 1] \o f[i]
            /\ FlattenSeq(f) = q[n]
    <2> DEFINE F == Pieces
    <2>1. n \in Nat /\ f \in [1..n -> Seq(F)]
      BY <1>4
    <2> HIDE DEF F
    <2>2. \E q \in [0..n -> Seq(F)] :
            /\ q[0] = <<>> /\ \A i \in 1..n : q[i] = q[i - 1] \o f[i]
            /\ FlattenSeq(f) = q[n]
      BY <2>1, FlattenSteps, ZenonT(60)
    <2> QED BY <2>2 DEF F
  <1> DEFINE S == {i \in Nat : /\ Shaped(H \o q[i]) /\ Len(H \o q[i]) = 1 + 2 * i
                               /\ Bodies(H \o q[i]) = upto(i)}
  <1>6. 0 \in S
    <2>1. H \o q[0] = H
      BY <1>1, <1>5
    <2>2. upto(0) = <<>>
      OBVIOUS
    <2> HIDE DEF upto
    <2>3. Len(H \o q[0]) = 1 + 2 * 0
      BY <1>1, <2>1
    <2>4. Shaped(H \o q[0]) /\ Bodies(H \o q[0]) = upto(0)
      BY <1>2, <1>3, <2>1, <2>2
    <2> QED BY <2>3, <2>4
  <1>7. ASSUME NEW i \in 0..(n - 1), i \in S PROVE i + 1 \in S
    <2> DEFINE r == f[i + 1]
               c == H \o q[i]
               id == log[i + 1].id
               block == log[i + 1].block
    <2>1. i + 1 \in 1..n /\ (i + 1) - 1 = i /\ i \in 0..n /\ i + 1 \in 0..n
      OBVIOUS
    <2>2. r = Record(id, block) /\ id \in Nat /\ block \in WholeBlocks
      BY <1>4, <2>1
    <2>3. q[i + 1] = q[i] \o r /\ q[i] \in Seq(Pieces) /\ r \in Seq(Pieces)
      <3>1. q[i + 1] = q[(i + 1) - 1] \o f[i + 1] /\ f[i + 1] \in Seq(Pieces)
        BY <1>4, <1>5, <2>1
      <3>2. q[i] \in Seq(Pieces)
        BY <1>5, <2>1
      <3> QED BY <2>1, <3>1, <3>2
    <2>4. H \o q[i + 1] = c \o r
      <3> DEFINE t == q[i]
      <3>1. t \in Seq(Pieces) /\ r \in Seq(Pieces) /\ H \in Seq(Pieces)
        BY <1>1, <2>3
      <3> HIDE DEF t, r
      <3>2. Cat(Cat(H, t), r) = Cat(H, Cat(t, r))
        BY <3>1, CatAssociative
      <3> QED BY <2>3, <3>2 DEF Cat, t
    <2>5. c \in Seq(Chunks)
      <3>1. c \in Seq(Pieces) /\ Pieces \subseteq Chunks
        BY <1>1, <2>3 DEF Chunks
      <3> QED BY <3>1
    <2>6. Shaped(c) /\ Len(c) = 1 + 2 * i /\ Bodies(c) = upto(i)
      BY <1>7
    <2>7. Append(upto(i), body(i + 1)) = upto(i + 1)
      BY <2>1
    <2> HIDE DEF c, r, id, block, f
    <2>8. /\ Shaped(c \o r) /\ Len(c \o r) = Len(c) + 2
          /\ Bodies(c \o r) = Append(Bodies(c), Body(id, block))
      BY <2>2, <2>5, <2>6, RecordBehind
    <2>9. Len(c) + 2 = 1 + 2 * (i + 1)
      BY <2>6
    <2>10. Body(id, block) = body(i + 1)
      BY DEF id, block
    <2> HIDE DEF upto, body
    <2>11. Shaped(H \o q[i + 1]) /\ Bodies(H \o q[i + 1]) = upto(i + 1)
      BY <2>4, <2>6, <2>7, <2>8, <2>10
    <2>12. Len(H \o q[i + 1]) = 1 + 2 * (i + 1)
      BY <2>4, <2>8, <2>9
    <2>13. i + 1 \in Nat
      OBVIOUS
    <2> QED BY <2>11, <2>12, <2>13
  <1>8. 0..n \subseteq S
    <2> HIDE DEF S
    <2> QED BY <1>6, <1>7, NatSetTo
  <1>9. n \in 0..n /\ 1 + 2 * n >= 3
    OBVIOUS
  <1>10. Created(log) = H \o q[n]
    BY <1>5 DEF Created, H, f
  <1>11. H \o q[n] \in Seq(Pieces)
    BY <1>1, <1>5, <1>9
  <1>12. n \in S
    BY <1>8, <1>9
  <1>13. Shaped(H \o q[n]) /\ Len(H \o q[n]) = 1 + 2 * n /\ Bodies(H \o q[n]) = upto(n)
    BY <1>12
  <1> QED
    BY <1>9, <1>10, <1>11, <1>13

\* The first of one sequence goes behind another.
LEMMA MoveHead ==
    ASSUME NEW T, NEW s \in Seq(T), NEW r \in Seq(T), r # <<>>
    PROVE  Append(s, Head(r)) \o Tail(r) = s \o r
  <1> DEFINE a == Append(s, Head(r)) \o Tail(r)
             b == s \o r
  <1>1. /\ Head(r) \in T /\ Tail(r) \in Seq(T) /\ Len(r) \in Nat \ {0} /\ Len(s) \in Nat
        /\ Len(Tail(r)) = Len(r) - 1 /\ Head(r) = r[1] /\ \A i \in 1..(Len(r) - 1) : Tail(r)[i] = r[i + 1]
    OBVIOUS
  <1>2. Append(s, Head(r)) \in Seq(T) /\ Len(Append(s, Head(r))) = Len(s) + 1
        /\ Append(s, Head(r))[Len(s) + 1] = r[1] /\ \A i \in 1..Len(s) : Append(s, Head(r))[i] = s[i]
    BY <1>1
  <1>3. a \in Seq(T) /\ b \in Seq(T) /\ Len(a) = Len(s) + Len(r) /\ Len(b) = Len(s) + Len(r)
    BY <1>1, <1>2
  <1>4. ASSUME NEW i \in 1..(Len(s) + Len(r)) PROVE a[i] = b[i]
    <2>1. CASE i <= Len(s)
      BY <1>1, <1>2, <2>1
    <2>2. CASE i = Len(s) + 1
      BY <1>1, <1>2, <2>2
    <2>3. CASE i > Len(s) + 1
      <3>1. a[i] = Tail(r)[i - (Len(s) + 1)] /\ b[i] = r[i - Len(s)]
        BY <1>1, <1>2, <2>3
      <3>2. i - (Len(s) + 1) \in 1..(Len(r) - 1) /\ (i - (Len(s) + 1)) + 1 = i - Len(s)
        BY <1>1, <2>3
      <3> QED BY <1>1, <3>1, <3>2
    <2> QED BY <1>1, <2>1, <2>2, <2>3
  <1> HIDE DEF a, b
  <1>5. a = b
    BY <1>3, <1>4, SeqEqual
  <1> QED
    BY <1>5 DEF a, b

----------------------------------------------------------------------------
(***************************************************************************)
(* The log: that it has every block of the ledger.                         *)
(***************************************************************************)

\* What is still to append for the blocks in u.
Pending(D, u) == [i \in 1..Len(u) |-> Body(u[i], D.nodes[u[i]].block)]

\* The records of c, and what is still to append, are a log of D.
Logged(D, c, u) == LogOf(D, Bodies(c) \o Pending(D, u), Len(Bodies(c)) + Len(u))

\* The records of a log count by their ids and blocks.
LEMMA LogSame ==
    ASSUME NEW D, NEW n, NEW log, LogOf(D, log, n), NEW same, same \in Seq({same[i] : i \in 1..n}),
           DOMAIN same = 1..n, \A i \in 1..n : same[i].id = log[i].id /\ same[i].block = log[i].block
    PROVE  LogOf(D, same, n)
  <1>1. \A i \in 2..n : i \in 1..n /\ \A j \in 1..(i - 1) : j \in 1..n
    BY DEF LogOf
  <1>2. n \in Nat \ {0} /\ 1 \in 1..n
    BY DEF LogOf
  <1>3. \A i \in 1..n : same[i].id \in Blocks(D) /\ same[i].block = D.nodes[same[i].id].block
    BY DEF LogOf
  <1>4. same[1].id = GenesisId
    BY <1>2 DEF LogOf
  <1>5. \A b \in Blocks(D) : \E i \in 1..n : same[i].id = b
    BY SMTT(30) DEF LogOf
  <1>6. ASSUME NEW i \in 2..n
        PROVE  /\ \A j \in 1..(i - 1) : same[j].id # same[i].id
               /\ \A p \in Parents(D, same[i].id) : \E j \in 1..(i - 1) : same[j].id = p
    <2>1. same[i].id = log[i].id /\ \A j \in 1..(i - 1) : same[j].id = log[j].id
      BY <1>1
    <2>2. /\ \A j \in 1..(i - 1) : log[j].id # log[i].id
          /\ \A p \in Parents(D, log[i].id) : \E j \in 1..(i - 1) : log[j].id = p
      BY DEF LogOf
    <2> QED BY <2>1, <2>2
  <1> QED
    BY <1>2, <1>3, <1>4, <1>5, <1>6 DEF LogOf

\* A sequence is one over its own elements.
LEMMA OwnElements ==
    ASSUME NEW T, NEW s \in Seq(T)
    PROVE  s \in Seq({s[i] : i \in 1..Len(s)}) /\ DOMAIN s = 1..Len(s) /\ Len(s) \in Nat
  OBVIOUS

\* The records of a file are ids with blocks.
LEMMA BodiesTyped ==
    ASSUME NEW c \in Seq(Chunks)
    PROVE  Bodies(c) \in Seq(Records)
  <1> DEFINE B == {x \in Range(c) : x.kind = "body"}
  <1>1. Range(c) \subseteq Chunks
    BY DEF Range
  <1>2. B \subseteq Records
    <2> SUFFICES ASSUME NEW x \in B PROVE x \in Records
      OBVIOUS
    <2>1. x \in Chunks /\ x.kind = "body"
      BY <1>1
    <2>2. x \notin Torn /\ x # Header /\ x # LenMark
      BY <2>1, PieceKinds
    <2> QED BY <2>1, <2>2 DEF Pieces, Chunks
  <1>3. Bodies(c) \in Seq(B)
    BY BodiesOf
  <1> HIDE DEF B
  <1> QED
    BY <1>2, <1>3

\* The blocks of D can be written.
Writable(D) == Blocks(D) \subseteq Nat /\ \A b \in Blocks(D) : D.nodes[b].block \in WholeBlocks

\* What is still to append are records.
LEMMA PendingRecords ==
    ASSUME NEW D, NEW u \in Seq(Blocks(D)), Writable(D)
    PROVE  /\ Pending(D, u) \in Seq(Records) /\ Len(Pending(D, u)) = Len(u) /\ Len(u) \in Nat
           /\ \A i \in 1..Len(u) : Pending(D, u)[i] = Body(u[i], D.nodes[u[i]].block)
  <1> DEFINE n == Len(u)
             e(i) == Body(u[i], D.nodes[u[i]].block)
  <1>1. n \in Nat /\ \A i \in 1..n : u[i] \in Blocks(D)
    OBVIOUS
  <1>2. \A b \in Blocks(D) : Body(b, D.nodes[b].block) \in Records
    BY DEF Body, Records, Writable
  <1>3. \A i \in 1..n : e(i) \in Records
    BY <1>1, <1>2
  <1>4. Pending(D, u) = [i \in 1..n |-> e(i)]
    BY DEF Pending
  <1> HIDE DEF e, n
  <1> QED
    BY <1>1, <1>3, <1>4 DEF n, e

\* The first of them is of the first block, the others are of the others.
LEMMA PendingTyped ==
    ASSUME NEW D, NEW u \in Seq(Blocks(D)), Writable(D), u # <<>>
    PROVE  /\ Head(u) \in Blocks(D) /\ Tail(u) \in Seq(Blocks(D)) /\ Pending(D, u) # <<>>
           /\ Head(Pending(D, u)) = Body(Head(u), D.nodes[Head(u)].block)
           /\ Tail(Pending(D, u)) = Pending(D, Tail(u)) /\ Len(Tail(u)) = Len(u) - 1
  <1> DEFINE p == Pending(D, u)
             n == Len(u)
             t == Tail(u)
             e == Pending(D, t)
  <1>1. /\ Head(u) = u[1] /\ Head(u) \in Blocks(D) /\ t \in Seq(Blocks(D)) /\ Len(t) = n - 1
        /\ n \in Nat /\ n >= 1 /\ \A i \in 1..(n - 1) : t[i] = u[i + 1]
    OBVIOUS
  <1>2. p \in Seq(Records) /\ Len(p) = n /\ \A i \in 1..n : p[i] = Body(u[i], D.nodes[u[i]].block)
    BY PendingRecords
  <1> HIDE DEF t
  <1>3. e \in Seq(Records) /\ Len(e) = n - 1 /\ \A i \in 1..(n - 1) : e[i] = Body(t[i], D.nodes[t[i]].block)
    <2>1. e \in Seq(Records) /\ Len(e) = Len(t) /\ \A i \in 1..Len(t) : e[i] = Body(t[i], D.nodes[t[i]].block)
      BY <1>1, PendingRecords
    <2> QED BY <1>1, <2>1
  <1> HIDE DEF p, e, n
  <1>4. p # <<>> /\ Head(p) = p[1] /\ Tail(p) \in Seq(Records) /\ Len(Tail(p)) = n - 1
        /\ \A i \in 1..(n - 1) : Tail(p)[i] = p[i + 1]
    BY <1>1, <1>2
  <1>5. \A i \in 1..(n - 1) : Tail(p)[i] = e[i]
    <2> SUFFICES ASSUME NEW i \in 1..(n - 1) PROVE Tail(p)[i] = e[i]
      OBVIOUS
    <2>1. i + 1 \in 1..n
      BY <1>1
    <2> QED BY <1>1, <1>2, <1>3, <1>4, <2>1
  <1>6. Tail(p) = e
    BY <1>1, <1>3, <1>4, <1>5, SeqEqual
  <1>7. 1 \in 1..n
    BY <1>1
  <1> QED
    BY <1>1, <1>2, <1>4, <1>6, <1>7 DEF e, t, p, n

\* create writes all there is.
LEMMA CreateLogged ==
    ASSUME NEW D, DagOK(D), \A b \in Blocks(D) : D.nodes[b].block \in WholeBlocks, NEW c,
           c = Created(WriteSnapshot(D))
    PROVE  c \in Seq(Pieces) /\ Shaped(c) /\ Len(c) >= 3 /\ Logged(D, c, <<>>)
  <1> DEFINE log == WriteSnapshot(D)
             n == Cardinality(Blocks(D))
             q == [i \in 1..n |-> Body(log[i].id, log[i].block)]
  <1> HIDE DEF log, n
  <1>1. LogOf(D, log, n)
    BY SnapshotLog DEF log, n
  <1>2. n \in Nat \ {0} /\ DOMAIN log = 1..n
        /\ \A i \in 1..n : log[i].id \in Nat /\ log[i].block \in WholeBlocks
    <2>1. Blocks(D) \subseteq Nat
      BY DEF DagOK
    <2> QED BY <1>1, <2>1 DEF LogOf
  <1>3. c = Created(log)
    BY DEF log
  <1>4. c \in Seq(Pieces) /\ Shaped(c) /\ Len(c) >= 3 /\ Bodies(c) = q
    BY <1>2, <1>3, CreatedLog
  <1>5. q \in Seq({q[i] : i \in 1..n}) /\ DOMAIN q = 1..n /\ Len(q) = n
        /\ \A i \in 1..n : q[i].id = log[i].id /\ q[i].block = log[i].block
    <2>1. \A i \in 1..n : q[i].id = log[i].id /\ q[i].block = log[i].block
      BY DEF Body
    <2> DEFINE Q == {q[i] : i \in 1..n}
    <2>2. \A i \in 1..n : q[i] \in Q
      OBVIOUS
    <2>3. q = [i \in 1..n |-> q[i]]
      OBVIOUS
    <2> HIDE DEF Q, q
    <2>4. q \in Seq(Q) /\ DOMAIN q = 1..n /\ Len(q) = n
      BY <1>2, <2>2, <2>3
    <2> QED BY <2>1, <2>4 DEF Q
  <1> HIDE DEF q
  <1>6. LogOf(D, q, n)
    BY <1>1, <1>5, LogSame
  <1>7. q \o Pending(D, <<>>) = q /\ Len(q) + Len(<<>>) = n
    <2>1. Pending(D, <<>>) = <<>>
      BY DEF Pending
    <2> QED BY <1>2, <1>5, <2>1
  <1> QED
    BY <1>4, <1>6, <1>7 DEF Logged

\* A block that is inserted waits to be appended.
LEMMA InsertLogged ==
    ASSUME NEW D, NEW c \in Seq(Chunks), NEW u \in Seq(Blocks(D)), Logged(D, c, u),
           Writable(D), NEW E, Within(D, E), NEW id \in Nat, id \notin Blocks(D), Blocks(E) = Blocks(D) \cup {id},
           E.nodes[id].block \in WholeBlocks, E.nodes[id].block.parents \subseteq Blocks(D)
    PROVE  Logged(E, c, Append(u, id))
  <1> DEFINE B == Bodies(c)
             p == Pending(D, u)
             q == Pending(E, Append(u, id))
             r == Body(id, E.nodes[id].block)
             n == Len(u)
  <1>1. B \in Seq(Records) /\ p \in Seq(Records) /\ Len(p) = n /\ n \in Nat /\ r \in Records
    <2>1. r \in Records
      BY DEF Body, Records
    <2> QED BY <2>1, BodiesTyped, PendingRecords
  <1>2. q = Append(p, r)
    <2>1. Len(Append(u, id)) = n + 1 /\ Append(u, id)[n + 1] = id
          /\ \A i \in 1..n : Append(u, id)[i] = u[i] /\ u[i] \in Blocks(D)
      OBVIOUS
    <2>2. \A b \in Blocks(D) : E.nodes[b].block = D.nodes[b].block
      BY DEF Within
    <2>3. \A i \in 1..(n + 1) : i \in 1..n \/ i = n + 1
      BY <1>1
    <2>4. q \in Seq(Records) /\ Len(q) = n + 1
          /\ \A i \in 1..(n + 1) : q[i] = Body(Append(u, id)[i], E.nodes[Append(u, id)[i]].block)
      <3> DEFINE v == Append(u, id)
      <3>1. v \in Seq(Blocks(E))
        OBVIOUS
      <3>2. Writable(E)
        BY <2>2 DEF Writable
      <3> HIDE DEF v
      <3>3. Pending(E, v) \in Seq(Records) /\ Len(Pending(E, v)) = Len(v)
            /\ \A i \in 1..Len(v) : Pending(E, v)[i] = Body(v[i], E.nodes[v[i]].block)
        BY <3>1, <3>2, PendingRecords
      <3> QED BY <2>1, <3>3 DEF v
    <2>5. \A i \in 1..n : p[i] = Body(u[i], D.nodes[u[i]].block)
      BY PendingRecords
    <2> HIDE DEF p, q
    <2>6. ASSUME NEW i \in 1..(n + 1) PROVE q[i] = IF i = n + 1 THEN r ELSE p[i]
      <3>1. CASE i = n + 1
        BY <2>1, <2>4, <3>1
      <3>2. CASE i \in 1..n
        <4>1. i # n + 1 /\ Append(u, id)[i] = u[i] /\ u[i] \in Blocks(D)
          BY <1>1, <2>1, <3>2
        <4> QED BY <2>2, <2>4, <2>5, <3>2, <4>1
      <3> QED BY <2>3, <3>1, <3>2
    <2> HIDE DEF r, n
    <2>7. /\ Append(p, r) \in Seq(Records) /\ Len(Append(p, r)) = n + 1
          /\ \A i \in 1..(n + 1) : Append(p, r)[i] = IF i = n + 1 THEN r ELSE p[i]
      BY <1>1
    <2>8. \A i \in 1..(n + 1) : q[i] = Append(p, r)[i]
      BY <2>6, <2>7
    <2> QED BY <2>4, <2>7, <2>8, SeqEqual
  <1>3. r.id = id /\ r.block = E.nodes[id].block
    BY DEF Body
  <1> HIDE DEF p, q, r, B
  <1>4. B \o Append(p, r) = Append(B \o p, r) /\ Len(B) \in Nat
    <2> DEFINE one == <<r>>
    <2>1. one \in Seq(Records) /\ Append(p, r) = p \o one
      BY <1>1
    <2>2. B \o p \in Seq(Records) /\ Append(B \o p, r) = (B \o p) \o one
      <3> DEFINE bp == B \o p
      <3>1. bp \in Seq(Records)
        BY <1>1
      <3> HIDE DEF bp
      <3>2. Append(bp, r) = bp \o one
        BY <1>1, <3>1
      <3> QED BY <3>1, <3>2 DEF bp
    <2> HIDE DEF one
    <2>3. Cat(Cat(B, p), one) = Cat(B, Cat(p, one))
      BY <1>1, <2>1, CatAssociative
    <2>4. Len(B) \in Nat
      BY <1>1
    <2> QED BY <2>1, <2>2, <2>3, <2>4 DEF Cat
  <1>5. LogOf(D, B \o p, Len(B) + n)
    BY DEF Logged, B, p
  <1>6. LogOf(E, Append(B \o p, r), (Len(B) + n) + 1)
    BY <1>3, <1>5, LogGrows
  <1>7. (Len(B) + n) + 1 = Len(B) + Len(Append(u, id))
    BY <1>1, <1>4
  <1> QED
    BY <1>2, <1>4, <1>6, <1>7 DEF Logged, B, q

\* A record that is appended waits no more.
LEMMA PersistLogged ==
    ASSUME NEW D, NEW c \in Seq(Chunks), NEW u \in Seq(Blocks(D)), Logged(D, c, u),
           Writable(D), u # <<>>, Shaped(c), NEW r, r = Record(Head(u), D.nodes[Head(u)].block)
    PROVE  Shaped(c \o r) /\ Logged(D, c \o r, Tail(u))
  <1> DEFINE B == Bodies(c)
             p == Pending(D, u)
             id == Head(u)
             block == D.nodes[id].block
             n == Len(u)
  <1>1. B \in Seq(Records) /\ p \in Seq(Records) /\ n \in Nat /\ Len(Tail(u)) = n - 1 /\ id \in Blocks(D)
        /\ p # <<>> /\ Head(p) = Body(id, block) /\ Tail(p) = Pending(D, Tail(u))
    BY BodiesTyped, PendingRecords, PendingTyped
  <1>2. id \in Nat /\ block \in WholeBlocks
    BY <1>1 DEF Writable
  <1> HIDE DEF B, p, id, block, n
  <1>3. r = Record(id, block)
    BY DEF id, block
  <1>4. Shaped(c \o r) /\ Bodies(c \o r) = Append(B, Head(p))
    <2>1. /\ Shaped(c \o Record(id, block))
          /\ Bodies(c \o Record(id, block)) = Append(Bodies(c), Body(id, block))
      BY <1>2, RecordBehind
    <2> QED BY <1>1, <1>3, <2>1 DEF B
  <1>5. Append(B, Head(p)) \o Tail(p) = B \o p
    BY <1>1, MoveHead
  <1>6. Len(Append(B, Head(p))) = Len(B) + 1 /\ Len(B) \in Nat
    BY <1>1
  <1>7. (Len(B) + 1) + (n - 1) = Len(B) + n
    BY <1>1, <1>6
  <1>8. LogOf(D, B \o p, Len(B) + n)
    BY DEF Logged, B, p, n
  <1> QED
    BY <1>1, <1>4, <1>5, <1>6, <1>7, <1>8 DEF Logged

----------------------------------------------------------------------------
(***************************************************************************)
(* The log: what opening it gives.                                         *)
(***************************************************************************)

\* A file that reaches behind a first record has that of a genesis block there, or a
\* part of it.
FirstRecord(c) ==
    Len(c) >= 3 => /\ c[1] = Header /\ c[2] = LenMark
                   /\ \/ c[3] = Cut([kind |-> "body"])
                      \/ /\ c[3].kind = "body" /\ c[3].id = GenesisId
                         /\ c[3].block = GenesisOver(c[3].block.txs)

\* When a file opens, what its records give is a ledger that grew by insertions, and they
\* are a log of it.
LEMMA OpenLogged ==
    ASSUME NEW c \in Seq(Chunks), FirstRecord(c), OpenLog(c).dag # Failed
    PROVE  Sound(OpenLog(c)) /\ Logged(OpenLog(c).dag, c, <<>>)
  <1> DEFINE log == Bodies(c)
             n == Len(log)
             L == OpenLog(c)
  <1>1. Readable(c) /\ L = Replay(log)
    BY DEF OpenLog, FailedLedger
  <1>2. Len(c) >= 3 /\ c[1] = Header /\ c[2] = LenMark /\ c[3].kind \in {"cut", "body"}
        /\ (c[3].kind = "body" => c[3].id = GenesisId /\ c[3].block = GenesisOver(c[3].block.txs))
        /\ (c[3].kind = "cut" => c[3] = Cut([kind |-> "body"]))
    <2>1. Len(c) >= 3
      BY <1>1 DEF Readable
    <2> QED BY <2>1 DEF FirstRecord, Cut
  <1>3. c[3].kind = "body"
    <2>1. 3 \in 2..Len(c) /\ 3 % 2 # 0
      BY <1>2
    <2>2. c[3].kind = "body" \/ c[3] = Cut([kind |-> "len"])
      BY <1>1, <2>1 DEF Readable
    <2>3. Cut([kind |-> "body"]).of = "body" /\ Cut([kind |-> "len"]).of = "len"
      BY DEF Cut
    <2> QED BY <1>2, <2>2, <2>3
  <1>4. log # <<>> /\ log[1] = c[3]
    <2>1. c[1].kind # "body" /\ c[2].kind # "body"
      BY <1>2, PieceKinds
    <2> QED BY <1>2, <1>3, <2>1, BodiesOf
  <1>5. log \in Seq(Records)
    BY BodiesTyped
  <1> HIDE DEF log, L
  <1>6. n \in Nat \ {0} /\ DOMAIN log = 1..n /\ \A i \in 1..n : log[i].id \in Nat /\ log[i].block.work \in Int
    <2>1. \A x \in Records : x.id \in Nat /\ x.block.work \in Int
      BY DEF WholeBlocks, Records
    <2> QED BY <1>4, <1>5, <2>1
  <1> HIDE DEF n
  <1>7. log \in Seq({log[i] : i \in 1..n})
    BY <1>5, OwnElements DEF n
  <1>8. Sound(L) /\ LogOf(L.dag, log, n)
    <2>1. log[1].id = GenesisId /\ log[1].block = GenesisOver(log[1].block.txs)
      BY <1>2, <1>3, <1>4
    <2>2. Replay(log).dag # Failed
      BY <1>1 DEF L
    <2>3. Readout(log, n)
      BY <1>6, <1>7, <2>1 DEF Readout
    <2> QED BY <1>1, <2>2, <2>3, ReplayGrows
  <1>9. log \o Pending(L.dag, <<>>) = log /\ Len(log) + Len(<<>>) = n
    <2>1. Pending(L.dag, <<>>) = <<>>
      BY DEF Pending
    <2>2. log \o <<>> = log
      BY <1>5
    <2>3. Len(<<>>) = 0 /\ n \in Nat
      BY <1>6
    <2>4. Len(log) + Len(<<>>) = n
      BY <2>3 DEF n
    <2>5. log \o Pending(L.dag, <<>>) = log \o <<>>
      BY <2>1
    <2> QED BY <2>2, <2>4, <2>5
  <1> QED
    BY <1>8, <1>9 DEF Logged, log, L

\* A log of the whole ledger gives it back.
LEMMA LoggedRestores ==
    ASSUME NEW L, Sound(L), NEW c \in Seq(Chunks), Shaped(c), Len(c) >= 3,
           Logged(L.dag, c, <<>>)
    PROVE  OpenLog(c) = L
  <1>1. Readable(c)
    BY ShapedReadable
  <1>2. Bodies(c) \o Pending(L.dag, <<>>) = Bodies(c)
    <2>1. Pending(L.dag, <<>>) = <<>>
      BY DEF Pending
    <2>2. Bodies(c) \in Seq(Records)
      BY BodiesTyped
    <2> QED BY <2>1, <2>2
  <1>3. Replay(Bodies(c)) = L
    BY <1>2, ReplayLog DEF Logged
  <1> QED
    BY <1>1, <1>3 DEF OpenLog

----------------------------------------------------------------------------
(***************************************************************************)
(* The log: what the process keeps.                                        *)
(***************************************************************************)

\* The records that were written, are being written or wait, are a log of the ledger,
\* as long as no length prefix is cut.
KeepsLog ==
    Clean(file) => Shaped(file \o writing) /\ Logged(ledger.dag, file \o writing, unlogged)

\* The inductive invariant of the store.
StoreInv ==
    /\ LedgerInv /\ BlocksTyped
    /\ file \in Seq(Chunks) /\ writing \in Seq(Pieces)
    /\ unlogged \in Seq(Blocks(ledger.dag))
    /\ acked \subseteq IdsIn(file)
    /\ FirstRecord(file \o writing)
    /\ open => up /\ Len(file \o writing) >= 3 /\ KeepsLog
    /\ ~open => writing = <<>> /\ unlogged = <<>>

\* What is read behind the end of a file is what is put there.
LEMMA PutBehind ==
    ASSUME NEW c \in Seq(Chunks), NEW w \in Seq(Pieces)
    PROVE  /\ c \o w \in Seq(Chunks) /\ Len(c \o w) = Len(c) + Len(w)
           /\ Len(c) \in Nat /\ Len(w) \in Nat
           /\ \A i \in 1..Len(c) : (c \o w)[i] = c[i]
           /\ w # <<>> => Len(w) >= 1 /\ Head(w) \in Pieces /\ Tail(w) \in Seq(Pieces)
                          /\ (c \o w)[Len(c) + 1] = Head(w)
                          /\ Append(c, Head(w)) \in Seq(Chunks)
                          /\ Append(c, Head(w)) \o Tail(w) = c \o w
           /\ c \o <<>> = c
  <1>1. w \in Seq(Chunks) /\ \A x \in Pieces : x \in Chunks
    BY DEF Chunks
  <1>2. w # <<>> => Append(c, Head(w)) \o Tail(w) = c \o w
    BY <1>1, MoveHead
  <1>3. w # <<>> => Head(w) \in Pieces /\ Tail(w) \in Seq(Pieces) /\ Len(w) >= 1 /\ Head(w) = w[1]
    OBVIOUS
  <1>4. c \in Seq(Chunks)
    OBVIOUS
  <1>5. c \o w \in Seq(Chunks) /\ Len(c \o w) = Len(c) + Len(w) /\ Len(c) \in Nat /\ Len(w) \in Nat
        /\ \A i \in 1..(Len(c) + Len(w)) : (c \o w)[i] = IF i <= Len(c) THEN c[i] ELSE w[i - Len(c)]
    BY <1>1, <1>4, ConcatProperties
  <1>6. \A i \in 1..Len(c) : (c \o w)[i] = c[i]
    <2>1. \A i \in 1..Len(c) : i \in 1..(Len(c) + Len(w)) /\ i <= Len(c)
      BY <1>5
    <2> QED BY <1>5, <2>1
  <1>7. w # <<>> => (c \o w)[Len(c) + 1] = w[1]
    <2>1. w # <<>> => Len(c) + 1 \in 1..(Len(c) + Len(w)) /\ ~(Len(c) + 1 <= Len(c))
                      /\ (Len(c) + 1) - Len(c) = 1
      BY <1>3, <1>5
    <2> QED BY <1>5, <2>1
  <1>8. w # <<>> => Append(c, Head(w)) \in Seq(Chunks)
    BY <1>1, <1>3, <1>4
  <1>9. c \o <<>> = c
    BY <1>4
  <1> QED
    BY <1>2, <1>3, <1>5, <1>6, <1>7, <1>8, <1>9

\* A write leaves the file and what is to be written together what they were.
LEMMA WriteMoves ==
    ASSUME NEW c \in Seq(Chunks), NEW w \in Seq(Pieces), w # <<>>
    PROVE  /\ Tail(w) \in Seq(Pieces) /\ Append(c, Head(w)) \in Seq(Chunks)
           /\ Append(c, Head(w)) \o Tail(w) = c \o w
  BY PutBehind

\* A file with more to come has its first record, and so when what comes is cut.
LEMMA FirstRecordCut ==
    ASSUME NEW c \in Seq(Chunks), NEW w \in Seq(Pieces), FirstRecord(c \o w)
    PROVE  /\ FirstRecord(c)
           /\ w # <<>> => FirstRecord(Append(c, Cut(Head(w))))
           /\ Len(c) >= 3 => \A v \in Seq(Pieces) : FirstRecord(c \o v)
  <1> DEFINE n == Len(c)
             q == c \o w
  <1>1. n \in Nat /\ Len(q) = n + Len(w) /\ Len(w) \in Nat /\ \A i \in 1..n : q[i] = c[i]
    BY PutBehind
  <1> HIDE DEF q
  <1>2. n >= 3 => /\ c[1] = Header /\ c[2] = LenMark
                  /\ \/ c[3] = Cut([kind |-> "body"])
                     \/ /\ c[3].kind = "body" /\ c[3].id = GenesisId
                        /\ c[3].block = GenesisOver(c[3].block.txs)
    <2>1. n >= 3 => Len(q) >= 3 /\ 1 \in 1..n /\ 2 \in 1..n /\ 3 \in 1..n
      BY <1>1
    <2>2. n >= 3 => q[1] = c[1] /\ q[2] = c[2] /\ q[3] = c[3]
      BY <1>1, <2>1
    <2> QED BY <2>1, <2>2 DEF FirstRecord, q
  <1>3. FirstRecord(c)
    BY <1>2 DEF FirstRecord
  <1>4. ASSUME n >= 3, NEW v \in Seq(Pieces) PROVE FirstRecord(c \o v)
    <2> DEFINE r == c \o v
    <2>1. \A i \in 1..n : r[i] = c[i]
      BY PutBehind
    <2> HIDE DEF r
    <2>2. r[1] = c[1] /\ r[2] = c[2] /\ r[3] = c[3]
      BY <1>1, <1>4, <2>1
    <2>3. FirstRecord(r)
      BY <1>2, <1>4, <2>2 DEF FirstRecord
    <2> QED BY <2>3 DEF r
  <1>5. ASSUME w # <<>> PROVE FirstRecord(Append(c, Cut(Head(w))))
    <2> DEFINE x == Cut(Head(w))
               r == Append(c, x)
    <2>1. Len(r) = n + 1 /\ r[n + 1] = x /\ \A i \in 1..n : r[i] = c[i]
      OBVIOUS
    <2> HIDE DEF r
    <2>2. CASE n >= 3
      <3>1. r[1] = c[1] /\ r[2] = c[2] /\ r[3] = c[3]
        BY <1>1, <2>1, <2>2
      <3> QED BY <1>2, <2>2, <3>1 DEF FirstRecord, r, x
    <2>3. CASE n = 2
      <3>1. Head(w) \in Pieces /\ q[3] = Head(w) /\ Len(q) >= 3 /\ q[1] = c[1] /\ q[2] = c[2]
        <4>1. Head(w) \in Pieces /\ q[n + 1] = Head(w) /\ Len(w) >= 1
          BY <1>5, PutBehind DEF q
        <4> QED BY <1>1, <2>3, <4>1
      <3>2. r[1] = c[1] /\ r[2] = c[2] /\ r[3] = x
        BY <2>1, <2>3
      <3>3. q[1] = Header /\ q[2] = LenMark /\ (q[3] = Cut([kind |-> "body"]) \/ q[3].kind = "body")
        BY <3>1 DEF FirstRecord, q
      <3>4. q[3].kind = "body"
        <4>1. Cut([kind |-> "body"]).kind = "cut"
          BY DEF Cut
        <4> QED BY <3>1, <3>3, <4>1, PieceKinds
      <3>5. x = Cut([kind |-> "body"])
        BY <3>1, <3>4 DEF Cut
      <3> QED BY <3>1, <3>2, <3>3, <3>5 DEF FirstRecord, r, x
    <2>4. CASE n < 2
      <3>1. ~(Len(r) >= 3)
        BY <1>1, <2>1, <2>4
      <3> QED BY <3>1 DEF FirstRecord, r, x
    <2>5. n >= 3 \/ n = 2 \/ n < 2
      <3> HIDE DEF n
      <3> QED BY <1>1
    <2> QED BY <2>2, <2>3, <2>4, <2>5
  <1> QED
    BY <1>3, <1>4, <1>5

\* A log of a ledger has its genesis block first.
LEMMA LoggedFirst ==
    ASSUME NEW L, Sound(L), NEW c \in Seq(Pieces), Shaped(c), Len(c) >= 3, Logged(L.dag, c, <<>>)
    PROVE  FirstRecord(c)
  <1> DEFINE log == Bodies(c)
             D == L.dag
  <1>1. c \in Seq(Chunks)
    BY DEF Chunks
  <1>2. c[1] = Header /\ c[2].kind = "len" /\ c[3].kind = "body"
    <2>1. 2 \in 2..Len(c) /\ 3 \in 2..Len(c) /\ 2 % 2 = 0 /\ 3 % 2 = 1
      OBVIOUS
    <2> QED BY <2>1 DEF Shaped
  <1>3. c[2] = LenMark
    <2>1. c[2] \in Pieces
      OBVIOUS
    <2> QED BY <1>2, <2>1, PieceKinds DEF Pieces, Records
  <1>4. c[1].kind # "body"
    BY <1>2, PieceKinds
  <1> HIDE DEF log
  <1>5. log[1] = c[3]
    BY <1>1, <1>2, <1>4, BodiesOf DEF log
  <1>6. log \o Pending(D, <<>>) = log
    <2>1. Pending(D, <<>>) = <<>>
      BY DEF Pending
    <2>2. log \in Seq(Records)
      BY <1>1, BodiesTyped DEF log
    <2> QED BY <2>1, <2>2
  <1>7. LogOf(D, log, Len(log) + Len(<<>>))
    BY <1>6 DEF Logged, log
  <1>8. log[1].id = GenesisId /\ log[1].block = D.nodes[GenesisId].block
    <2>1. 1 \in 1..(Len(log) + Len(<<>>))
      BY <1>7 DEF LogOf
    <2> QED BY <1>7, <2>1 DEF LogOf
  <1>9. c[3].block = GenesisOver(c[3].block.txs)
    BY <1>5, <1>8 DEF Sound, Admitted, TxsAt
  <1> QED
    BY <1>2, <1>3, <1>5, <1>8, <1>9 DEF FirstRecord

\* A file without a cut prefix had none before its last write.
LEMMA CleanBefore ==
    ASSUME NEW T, NEW c \in Seq(T), NEW x, Clean(Append(c, x))
    PROVE  Clean(c)
  <1> DEFINE q == Append(c, x)
  <1>1. DOMAIN c = 1..Len(c) /\ DOMAIN q = 1..(Len(c) + 1) /\ Len(c) \in Nat
        /\ \A i \in 1..Len(c) : q[i] = c[i]
    OBVIOUS
  <1> HIDE DEF q
  <1>2. \A i \in 1..Len(c) : i \in 1..(Len(c) + 1)
    BY <1>1
  <1>3. Range(c) \subseteq Range(q)
    BY <1>1, <1>2 DEF Range
  <1> QED
    BY <1>3 DEF Clean, q

----------------------------------------------------------------------------
(***************************************************************************)
(* The log: every step keeps it.                                           *)
(***************************************************************************)

\* The first state.
LEMMA StoreInvInit == StoreInit => StoreInv
  <1> SUFFICES ASSUME StoreInit PROVE StoreInv
    OBVIOUS
  <1>1. LedgerInv /\ BlocksTyped
    BY LedgerInit, NewLedgerTyped DEF StoreInit, Init, BlocksTyped
  <1>2. file = <<>> /\ writing = <<>> /\ ~open /\ unlogged = <<>> /\ acked = {}
    BY DEF StoreInit
  <1>3. FirstRecord(file \o writing)
    <2>1. file \o writing = <<>> /\ ~(Len(<<>>) >= 3)
      BY <1>2
    <2> QED BY <2>1 DEF FirstRecord
  <1> QED
    BY <1>1, <1>2, <1>3 DEF StoreInv

\* create starts over with all there is.
LEMMA CreateKeeps == StoreInv /\ Create => StoreInv'
  <1> SUFFICES ASSUME StoreInv, Create PROVE StoreInv'
    OBVIOUS
  <1> DEFINE D == ledger.dag
             c == Created(WriteSnapshot(D))
  <1>1. up /\ file' = <<>> /\ writing' = c /\ open' = TRUE /\ unlogged' = <<>> /\ acked' = {}
        /\ up' = up /\ ledger' = ledger
    BY DEF Create, Idle, Created
  <1>2. LedgerInv /\ BlocksTyped /\ Sound(ledger) /\ DagOK(D)
    BY DEF StoreInv, LedgerInv, Sound, LedgerOK
  <1>3. LedgerInv' /\ BlocksTyped'
    BY <1>1, <1>2 DEF LedgerInv, BlocksTyped
  <1> HIDE DEF c
  <1>4. c \in Seq(Pieces) /\ Shaped(c) /\ Len(c) >= 3 /\ Logged(D, c, <<>>)
    BY <1>2, CreateLogged DEF BlocksTyped, c
  <1>5. FirstRecord(c)
    BY <1>2, <1>4, LoggedFirst
  <1>6. <<>> \o c = c
    BY <1>4
  <1>7. KeepsLog'
    BY <1>1, <1>4, <1>6 DEF KeepsLog
  <1> QED
    BY <1>1, <1>3, <1>4, <1>5, <1>6, <1>7 DEF StoreInv

\* A block that is inserted is put in the queue of those to append.
LEMMA InsertStoreKeeps ==
    ASSUME StoreInv, NEW id \in Ids, NEW w \in Works, NEW ps \in ParentSets, NEW txs \in Payloads,
           InsertBlockOver(id, [parents |-> ps, work |-> w, timestamp |-> 0, txs |-> txs])
    PROVE  StoreInv'
  <1> DEFINE block == [parents |-> ps, work |-> w, timestamp |-> 0, txs |-> txs]
             D == ledger.dag
             E == ledger'.dag
  <1>1. /\ LedgerInv /\ BlocksTyped /\ DagOK(D) /\ file \in Seq(Chunks) /\ writing = <<>>
        /\ unlogged \in Seq(Blocks(D)) /\ FirstRecord(file \o writing) /\ acked \subseteq IdsIn(file)
    BY DEF StoreInv, InsertBlockOver, Idle, LedgerInv, Sound, LedgerOK
  <1>2. /\ file' = file /\ writing' = writing /\ up' = up /\ open' = open /\ acked' = acked
        /\ Insert(id, block) /\ unlogged' = IF open THEN Append(unlogged, id) ELSE unlogged
    BY DEF InsertBlockOver
  <1>3. block = [parents |-> ps, work |-> w, timestamp |-> 0, txs |-> txs]
    OBVIOUS
  <1> HIDE DEF block
  <1>4. /\ LedgerInv' /\ BlocksTyped'
        /\ id \in Nat /\ id \notin Blocks(D) /\ block \in WholeBlocks /\ block.parents \subseteq Blocks(D)
        /\ Blocks(E) = Blocks(D) \cup {id} /\ Within(D, E) /\ E.nodes[id].block = block
    BY <1>1, <1>2, <1>3, LedgerGrows
  <1>5. unlogged' \in Seq(Blocks(E))
    <2> DEFINE S == Blocks(E)
    <2>1. Blocks(D) \subseteq S /\ id \in S
      BY <1>4
    <2> HIDE DEF S, D, E
    <2>2. unlogged \in Seq(S)
      BY <1>1, <2>1
    <2>3. Append(unlogged, id) \in Seq(S)
      BY <2>1, <2>2
    <2>4. unlogged' \in Seq(S)
      BY <1>2, <2>2, <2>3
    <2> QED BY <2>4 DEF S
  <1>6. file \o writing = file
    BY <1>1
  <1>7. ASSUME open, Clean(file) PROVE Shaped(file) /\ Logged(E, file, Append(unlogged, id))
    <2>1. Shaped(file) /\ Logged(D, file, unlogged)
      BY <1>6, <1>7 DEF StoreInv, KeepsLog
    <2>2. Writable(D)
      BY <1>1 DEF BlocksTyped, DagOK, Writable
    <2> HIDE DEF D, E
    <2>3. Logged(E, file, Append(unlogged, id))
      BY <1>1, <1>4, <2>1, <2>2, InsertLogged
    <2> QED BY <2>1, <2>3
  <1>8. open' => KeepsLog'
    BY <1>2, <1>6, <1>7 DEF KeepsLog
  <1>9. open' => up' /\ Len(file' \o writing') >= 3
    BY <1>2 DEF StoreInv
  <1>10. ~open' => writing' = <<>> /\ unlogged' = <<>>
    BY <1>1, <1>2 DEF StoreInv
  <1> QED
    BY <1>1, <1>2, <1>4, <1>5, <1>8, <1>9, <1>10 DEF StoreInv

\* persist_block takes the first of the queue.
LEMMA PersistKeeps == StoreInv /\ Persist => StoreInv'
  <1> SUFFICES ASSUME StoreInv, Persist PROVE StoreInv'
    OBVIOUS
  <1> DEFINE D == ledger.dag
             id == Head(unlogged)
             r == Record(id, D.nodes[id].block)
  <1>1. /\ LedgerInv /\ BlocksTyped /\ DagOK(D) /\ file \in Seq(Chunks) /\ writing = <<>> /\ open /\ up
        /\ unlogged \in Seq(Blocks(D)) /\ unlogged # <<>> /\ acked \subseteq IdsIn(file)
        /\ FirstRecord(file \o writing) /\ Len(file \o writing) >= 3 /\ KeepsLog
    BY DEF StoreInv, Persist, Idle, LedgerInv, Sound, LedgerOK
  <1>2. file' = file /\ writing' = r /\ up' = up /\ open' = open /\ acked' = acked
        /\ ledger' = ledger /\ unlogged' = Tail(unlogged)
    BY DEF Persist
  <1>3. LedgerInv' /\ BlocksTyped'
    BY <1>1, <1>2 DEF LedgerInv, BlocksTyped
  <1>4. Writable(D)
    BY <1>1 DEF BlocksTyped, DagOK, Writable
  <1>5. id \in Nat /\ D.nodes[id].block \in WholeBlocks /\ Tail(unlogged) \in Seq(Blocks(D))
    <2>1. id \in Blocks(D) /\ Tail(unlogged) \in Seq(Blocks(D))
      BY <1>1
    <2> QED BY <1>4, <2>1 DEF Writable
  <1>6. file \o writing = file
    BY <1>1
  <1>7. r \in Seq(Pieces)
    BY <1>5, RecordPieces
  <1> HIDE DEF r
  <1>8. Len(file) >= 3 /\ FirstRecord(file \o r) /\ Len(file \o r) >= 3
    <2>1. FirstRecord(file \o r)
      <3>1. writing \in Seq(Pieces) /\ Len(file) >= 3
        BY <1>1, <1>6
      <3> QED BY <1>1, <1>7, <3>1, FirstRecordCut
    <2>2. Len(file \o r) = Len(file) + Len(r) /\ Len(r) \in Nat /\ Len(file) \in Nat
      BY <1>1, <1>7, PutBehind
    <2> QED BY <1>1, <1>6, <2>1, <2>2
  <1>9. ASSUME Clean(file) PROVE Shaped(file \o r) /\ Logged(D, file \o r, Tail(unlogged))
    <2>1. Shaped(file) /\ Logged(D, file, unlogged)
      BY <1>1, <1>6, <1>9 DEF KeepsLog
    <2> HIDE DEF D
    <2> QED BY <1>1, <1>4, <2>1, PersistLogged DEF r, id
  <1>10. KeepsLog'
    BY <1>2, <1>9 DEF KeepsLog
  <1> QED
    BY <1>1, <1>2, <1>3, <1>5, <1>7, <1>8, <1>10 DEF StoreInv

\* A write moves the first of what is to be written to the file.
LEMMA WriteKeeps == StoreInv /\ Write => StoreInv'
  <1> SUFFICES ASSUME StoreInv, Write PROVE StoreInv'
    OBVIOUS
  <1> DEFINE x == Head(writing)
  <1>1. /\ LedgerInv /\ BlocksTyped /\ file \in Seq(Chunks) /\ writing \in Seq(Pieces) /\ writing # <<>>
        /\ open /\ acked \subseteq IdsIn(file)
    BY DEF StoreInv, Write
  <1>2. /\ file' = Append(file, x) /\ writing' = Tail(writing) /\ up' = up /\ open' = open
        /\ ledger' = ledger /\ unlogged' = unlogged
        /\ acked' \subseteq acked \cup IdsIn(file')
    BY DEF Write
  <1>3. LedgerInv' /\ BlocksTyped'
    BY <1>1, <1>2 DEF LedgerInv, BlocksTyped
  <1>4. file' \in Seq(Chunks) /\ writing' \in Seq(Pieces) /\ file' \o writing' = file \o writing
    <2>1. /\ Tail(writing) \in Seq(Pieces) /\ Append(file, x) \in Seq(Chunks)
          /\ Append(file, x) \o Tail(writing) = file \o writing
      BY <1>1, WriteMoves
    <2> QED BY <1>2, <2>1
  <1>5. acked' \subseteq IdsIn(file')
    BY <1>1, <1>2, IdsGrow
  <1>6. Clean(file') => Clean(file)
    BY <1>1, <1>2, CleanBefore
  <1>7. KeepsLog'
    <2>1. KeepsLog
      BY <1>1 DEF StoreInv
    <2>2. ASSUME Clean(file')
          PROVE  Shaped(file' \o writing') /\ Logged(ledger'.dag, file' \o writing', unlogged')
      <3>1. Shaped(file \o writing) /\ Logged(ledger.dag, file \o writing, unlogged)
        BY <1>6, <2>1, <2>2 DEF KeepsLog
      <3> QED BY <1>2, <1>4, <3>1
    <2> QED BY <2>2 DEF KeepsLog
  <1>8. FirstRecord(file' \o writing') /\ Len(file' \o writing') >= 3
    BY <1>1, <1>4 DEF StoreInv
  <1>9. up' /\ unlogged' \in Seq(Blocks(ledger'.dag))
    BY <1>1, <1>2 DEF StoreInv
  <1>10. open' <=> open
    BY <1>2
  <1>11. open'
    BY <1>1, <1>10
  <1> HIDE DEF x
  <1> QED
    BY <1>3, <1>4, <1>5, <1>7, <1>8, <1>9, <1>11 DEF StoreInv

\* A kill leaves the file, or cuts the write that runs.
LEMMA CrashKeeps == StoreInv /\ Crash => StoreInv'
  <1> SUFFICES ASSUME StoreInv, Crash PROVE StoreInv'
    OBVIOUS
  <1> DEFINE x == Head(writing)
  <1>1. /\ file \in Seq(Chunks) /\ writing \in Seq(Pieces) /\ acked \subseteq IdsIn(file)
        /\ FirstRecord(file \o writing)
    BY DEF StoreInv
  <1>2. /\ open' = FALSE /\ writing' = <<>> /\ unlogged' = <<>> /\ ledger' = NewLedger
        /\ acked' = acked
        /\ file' = file \/ (writing # <<>> /\ file' = Append(file, Cut(x)))
    BY DEF Crash
  <1>3. LedgerInv' /\ BlocksTyped'
    BY <1>2, GenesisSound, NewLedgerTyped DEF LedgerInv, BlocksTyped, NewLedger
  <1>4. file' \in Seq(Chunks) /\ acked' \subseteq IdsIn(file') /\ FirstRecord(file')
    <2>1. CASE file' = file
      BY <1>1, <1>2, <2>1, FirstRecordCut
    <2>2. CASE writing # <<>> /\ file' = Append(file, Cut(x))
      <3>1. x \in Pieces
        BY <1>1, <2>2, PutBehind
      <3>2. Cut(x) \in Chunks
        BY <3>1, PieceKinds DEF Chunks
      <3>3. file' \in Seq(Chunks)
        BY <1>1, <2>2, <3>2
      <3>4. IdsIn(file) \subseteq IdsIn(file')
        BY <1>1, <2>2, IdsGrow
      <3>5. FirstRecord(file')
        BY <1>1, <2>2, FirstRecordCut
      <3> QED BY <1>1, <1>2, <3>3, <3>4, <3>5
    <2> QED BY <1>2, <2>1, <2>2
  <1>5. file' \o writing' = file'
    BY <1>2, <1>4
  <1>6. writing' \in Seq(Pieces) /\ unlogged' \in Seq(Blocks(ledger'.dag))
    BY <1>2
  <1> QED
    BY <1>2, <1>3, <1>4, <1>5, <1>6 DEF StoreInv

\* load_log gives a ledger that the file is a log of.
LEMMA OpenKeeps ==
    ASSUME StoreInv, Open
    PROVE  StoreInv' /\ acked \subseteq Blocks(ledger'.dag)
  <1> DEFINE E == ledger'.dag
             log == Bodies(file)
  <1>1. ~up /\ ~open /\ writing = <<>> /\ unlogged = <<>> /\ file \in Seq(Chunks) /\ acked \subseteq IdsIn(file)
        /\ FirstRecord(file \o writing)
    BY DEF StoreInv, Open
  <1>2. /\ ledger' = OpenLog(file) /\ OpenLog(file).dag # Failed /\ up' = TRUE /\ open' = TRUE
        /\ file' = file /\ writing' = writing /\ unlogged' = unlogged /\ acked' = acked
    BY DEF Open
  <1>3. file \o writing = file
    BY <1>1
  <1>4. Sound(ledger') /\ Logged(E, file, <<>>)
    BY <1>1, <1>2, <1>3, OpenLogged
  <1>5. Readable(file)
    BY <1>2 DEF OpenLog, FailedLedger
  <1>6. Len(file) >= 3 /\ (Clean(file) => Shaped(file))
    BY <1>1, <1>5, ShapedReadable DEF Readable
  <1>7. log \in Seq(Records)
    BY <1>1, BodiesTyped
  <1> HIDE DEF log, E
  <1>8. LogOf(E, log, Len(log))
    <2>1. Pending(E, <<>>) = <<>>
      BY DEF Pending
    <2>2. log \o <<>> = log /\ Len(log) + Len(<<>>) = Len(log)
      BY <1>7
    <2> QED BY <1>4, <2>1, <2>2 DEF Logged, log
  <1>9. \A b \in Blocks(E) : E.nodes[b].block \in WholeBlocks
    <2> SUFFICES ASSUME NEW b \in Blocks(E) PROVE E.nodes[b].block \in WholeBlocks
      OBVIOUS
    <2>1. PICK i \in 1..Len(log) : log[i].id = b
      BY <1>8 DEF LogOf
    <2>2. log[i].block = E.nodes[b].block
      BY <1>8, <2>1 DEF LogOf
    <2>3. log[i] \in Records
      BY <1>7, <2>1
    <2> QED BY <2>2, <2>3 DEF Records
  <1>10. IdsIn(file) \subseteq Blocks(E)
    <2>1. \A i \in 1..Len(log) : log[i].id \in Blocks(E)
      BY <1>8 DEF LogOf
    <2>2. DOMAIN log = 1..Len(log)
      BY <1>7
    <2> QED BY <2>1, <2>2 DEF IdsIn, Range, log
  <1>11. LedgerInv' /\ BlocksTyped'
    BY <1>4, <1>9 DEF LedgerInv, BlocksTyped, E
  <1>12. KeepsLog'
    BY <1>1, <1>2, <1>3, <1>4, <1>6 DEF KeepsLog, E
  <1>13. unlogged' \in Seq(Blocks(ledger'.dag)) /\ writing' \in Seq(Pieces)
    BY <1>1, <1>2
  <1> QED
    BY <1>1, <1>2, <1>3, <1>6, <1>10, <1>11, <1>12, <1>13 DEF StoreInv, E

\* A process that starts anew has no log.
LEMMA AnewKeeps == StoreInv /\ StartAnew => StoreInv'
  BY DEF StoreInv, StartAnew, LedgerInv, BlocksTyped, KeepsLog

\* A stutter.
LEMMA StutterKeeps == StoreInv /\ UNCHANGED svars => StoreInv'
  BY DEF StoreInv, svars, vars, LedgerInv, BlocksTyped, KeepsLog

\* Every step keeps the invariant.
LEMMA StoreInvStep == StoreInv /\ [StoreNext]_svars => StoreInv'
  BY CreateKeeps, InsertStoreKeeps, PersistKeeps, WriteKeeps, CrashKeeps, OpenKeeps, AnewKeeps,
     StutterKeeps DEF StoreNext

\* Every reachable state has it.
LEMMA StoreInvariance == StoreSpec => []StoreInv
  BY StoreInvInit, StoreInvStep, PTL DEF StoreSpec

----------------------------------------------------------------------------
\* Whatever the process inserts, appends and is killed in the middle of, when it has
\* appended all it inserted and no kill cut a length prefix, opening its log gives its
\* ledger, dag and view states (store.rs: create, append, open).
THEOREM LogsRestore == StoreSpec => []LogRestores
  <1>1. StoreInv => LogRestores
    <2> SUFFICES ASSUME StoreInv, Clean(file), up, writing = <<>>, open, unlogged = <<>>
                 PROVE  OpenLog(file) = ledger
      BY DEF LogRestores, LogIsLedger, Idle, Clean, LenMark
    <2>1. file \in Seq(Chunks) /\ Sound(ledger) /\ Len(file \o writing) >= 3 /\ KeepsLog
      BY DEF StoreInv, LedgerInv
    <2>2. file \o writing = file
      BY <2>1
    <2>3. Shaped(file) /\ Logged(ledger.dag, file, <<>>)
      BY <2>1, <2>2 DEF KeepsLog
    <2> QED BY <2>1, <2>2, <2>3, LoggedRestores
  <1> QED
    BY <1>1, StoreInvariance, PTL

\* What create or append reported as written is in the ledger that load_log gives,
\* however the process was killed, if the log opens at all (store.rs: append, open).
THEOREM AckedBlocksSurvive == StoreSpec => AckedSurvive
  <1>1. /\ Write => writing # <<>> /\ (up' <=> up)
        /\ StartAnew => (open' <=> open)
        /\ Create => up /\ (up' <=> up)
        /\ Persist => up
        /\ Crash => up
        /\ UNCHANGED svars => (up' <=> up)
    BY DEF Write, StartAnew, Create, Persist, Crash, Idle, svars
  <1>2. ASSUME NEW id, NEW block, InsertBlockOver(id, block) PROVE up
    BY <1>2 DEF InsertBlockOver, Idle
  <1>3. StoreInv /\ ~up => ~open /\ writing = <<>>
    BY DEF StoreInv
  <1>4. StoreInv /\ [StoreNext]_svars /\ ~up /\ up' /\ open' => Open
    <2> SUFFICES ASSUME StoreInv, [StoreNext]_svars, ~up, up', open' PROVE Open
      OBVIOUS
    <2>1. ~open /\ writing = <<>>
      BY <1>3
    <2>2. ~Create /\ ~Persist /\ ~Crash /\ ~UNCHANGED svars
      BY <1>1
    <2>3. ~Write /\ ~StartAnew
      BY <1>1, <2>1
    <2>4. CASE Open
      BY <2>4
    <2>5. CASE \E id \in Ids, w \in Works, ps \in ParentSets, txs \in Payloads :
                  InsertBlockOver(id, [parents |-> ps, work |-> w, timestamp |-> 0, txs |-> txs])
      BY <1>2, <2>5
    <2> QED BY <2>2, <2>3, <2>4, <2>5 DEF StoreNext
  <1>5. StoreInv /\ [StoreNext]_svars => [~up /\ up' /\ open' => acked \subseteq Blocks(ledger'.dag)]_svars
    BY <1>4, OpenKeeps
  <1> QED
    BY <1>5, StoreInvariance, PTL DEF StoreSpec, AckedSurvive
=============================================================================

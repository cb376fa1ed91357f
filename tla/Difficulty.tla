----------------------------- MODULE Difficulty ----------------------------
(***************************************************************************)
(* The two rules a DAG may enforce on the blocks it takes, besides their   *)
(* structure: retargeted work (difficulty.rs, Dag::check_difficulty) and   *)
(* proof of work (pow.rs).  Both are operators on a dag of module Dag.     *)
(*                                                                         *)
(* Integers keep their widths: a u64 is a digit to the base Base, a u128   *)
(* has two and a block id, read as a number, four of them.                 *)
(***************************************************************************)
EXTENDS Dag

CONSTANT Base           \* how many u64s there are, 2^64 in the code

ASSUME BaseAssumption == Base \in Nat \ {0, 1}

MaxTime == Base - 1                         \* u64::MAX
MaxWork == Base * Base - 1                  \* u128::MAX
HashSpace == Base * Base * Base * Base      \* 2^256

Saturated(max, n) == Min({max, n})
Positive(n) == Max({n, 1})

----------------------------------------------------------------------------
(***************************************************************************)
(* Retargeting.  A policy is a record [target_interval, window,            *)
(* max_factor, min_work]; a sample is a record [timestamp, work].          *)
(***************************************************************************)
NoDifficulty == [window |-> 0]      \* no policy is set

\* The samples of the last window + 1 blocks, of which window intervals are measured.
Recent(retarget, samples) ==
    SubSeq(samples, Max({1, Len(samples) - retarget.window}), Len(samples))

Expected(retarget, samples) ==
    Positive(Saturated(MaxTime, (Len(samples) - 1) * retarget.target_interval))

Actual(samples) ==
    Positive(Max({0, Last(samples).timestamp - Head(samples).timestamp}))

AverageWork(samples) ==
    FoldLeft(LAMBDA sum, s : Saturated(MaxWork, sum + s.work), 0, samples) \div Len(samples)

Clamp(n, lower, upper) == Max({lower, Min({n, upper})})

\* A slip: the timespans are swapped, and fast blocks make the next one easier.
RetargetedInverted(retarget, samples) ==
    LET avg == AverageWork(samples)
        factor == Positive(retarget.max_factor)
        atLeast(n) == Max({n, retarget.min_work})
    IN  atLeast(Clamp(Saturated(MaxWork, avg * Actual(samples)) \div Expected(retarget, samples),
                      atLeast(avg \div factor), atLeast(Saturated(MaxWork, avg * factor))))

\* The average work scaled by expected over actual timespan, within the factor and
\* never below the floor.
Retargeted(retarget, samples) ==
    LET avg == AverageWork(samples)
        factor == Positive(retarget.max_factor)
        atLeast(n) == Max({n, retarget.min_work})
    IN  atLeast(Clamp(Saturated(MaxWork, avg * Expected(retarget, samples)) \div Actual(samples),
                      atLeast(avg \div factor), atLeast(Saturated(MaxWork, avg * factor))))

NextWork(retarget, samples) ==
    LET recent == Recent(retarget, samples)
    IN  IF Len(recent) < 2 THEN retarget.min_work ELSE Retargeted(retarget, recent)

\* The blocks of the selected-parent chain that ends at tip, window + 1 of them at
\* most, the oldest first.
ChainSamples(D, tip, window) ==
    LET sample(b) == [timestamp |-> D.nodes[b].block.timestamp, work |-> Work(D, b)]
        chain[b \in Blocks(D)] ==
            LET sp == D.nodes[b].selected_parent
            IN  IF sp = NoBlock THEN <<sample(b)>> ELSE Append(chain[sp], sample(b))
        all == chain[tip]
    IN  SubSeq(all, Max({1, Len(all) - window}), Len(all))

\* A slip: the target is taken from the selected tip, whatever the parents are.
NextWorkTargetAtTip(D, difficulty, parents) ==
    IF difficulty = NoDifficulty THEN {}
    ELSE {NextWork(difficulty, ChainSamples(D, SelectedTip(D), difficulty.window))}

\* The work a block on these parents must have, if a policy is set: the set of it.
NextWorkTarget(D, difficulty, parents) ==
    IF difficulty = NoDifficulty THEN {}
    ELSE {NextWork(difficulty, ChainSamples(D, Heaviest(D, parents), difficulty.window))}

\* A slip: the samples are those of the selected tip at the time of the insertion.
CheckDifficultyAtTip(D, difficulty, block) ==
    /\ \A p \in block.parents : D.nodes[p].block.timestamp <= block.timestamp
    /\ block.work = NextWork(difficulty,
                             ChainSamples(D, SelectedTip(D), difficulty.window))

\* The block is not older than a parent, and has the work its selected chain implies.
CheckDifficulty(D, difficulty, block) ==
    /\ \A p \in block.parents : D.nodes[p].block.timestamp <= block.timestamp
    /\ block.work = NextWork(difficulty,
                        ChainSamples(D, Heaviest(D, block.parents), difficulty.window))

----------------------------------------------------------------------------
(***************************************************************************)
(* Proof of work: the product of the id and the work, limb by limb.        *)
(***************************************************************************)
Limb(n, i) == (n \div Base ^ i) % Base

\* A slip: the carry out of a row is lost.
AddRowUncarried(prod, id, work, i) ==
    LET multiply(acc, j) ==
            LET m == Limb(id, i) * Limb(work, j) + acc.prod[i + j] + acc.carry
            IN  [prod |-> [acc.prod EXCEPT ![i + j] = m % Base], carry |-> m \div Base]
    IN  FoldLeft(multiply, [prod |-> prod, carry |-> 0], <<0, 1>>).prod

\* One limb of the id times both limbs of the work, added to the product, and the
\* carry propagated into the limbs above.
AddRow(prod, id, work, i) ==
    LET multiply(acc, j) ==
            LET m == Limb(id, i) * Limb(work, j) + acc.prod[i + j] + acc.carry
            IN  [prod |-> [acc.prod EXCEPT ![i + j] = m % Base], carry |-> m \div Base]
        propagate(acc, idx) ==
            LET sum == acc.prod[idx] + acc.carry
            IN  [prod |-> [acc.prod EXCEPT ![idx] = sum % Base], carry |-> sum \div Base]
        row == FoldLeft(multiply, [prod |-> prod, carry |-> 0], <<0, 1>>)
    IN  FoldLeft(propagate, row, [n \in 1..(4 - i) |-> i + n + 1]).prod

\* The product of the four limbs of the id and the two of the work fits in four.
MeetsTarget(id, work) ==
    LET prod == FoldLeft(LAMBDA acc, i : AddRow(acc, id, Positive(work), i),
                         [n \in 0..5 |-> 0], <<0, 1, 2, 3>>)
    IN  prod[4] = 0 /\ prod[5] = 0
============================================================================

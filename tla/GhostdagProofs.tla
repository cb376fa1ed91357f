--------------------------- MODULE GhostdagProofs ---------------------------
(***************************************************************************)
(* Proofs about modules Ghostdag and Finality, for every k, depth, set of  *)
(* ids, bound on the parents and arrival order.                            *)
(*                                                                         *)
(* The theorems about Ghostdag and TipStateKept hold whatever works the    *)
(* blocks carry.  Those about the finality check and the panic assume that *)
(* all blocks carry the work of genesis; run finality_panic shows that     *)
(* they fail without it.                                                   *)
(***************************************************************************)
EXTENDS Finality, FiniteSetTheorems, TLAPS

(***************************************************************************)
(* The fields of a node, and what a step changes of them.                  *)
(***************************************************************************)

\* Every field of a node has its type (struct Node, struct GhostdagData).
LEMMA NodeFields ==
    ASSUME TypeOK, NEW b \in AllIds
    PROVE  /\ node[b].parents \in SUBSET AllIds
           /\ node[b].work \in Nat
           /\ node[b].past \in SUBSET AllIds
           /\ node[b].past_size \in Nat
           /\ node[b].selected_parent \in AllIds \cup {NoBlock}
           /\ node[b].mergeset_blues \in SUBSET AllIds
           /\ node[b].mergeset_reds \in SUBSET AllIds
           /\ node[b].blue_score \in Nat
           /\ node[b].blue_work \in Nat
           /\ node[b].blue_set \in SUBSET AllIds
           /\ node[b].sizes \in [AllIds -> Nat]
  <1>1. node[b] \in NodeType
    BY DEF TypeOK
  <1> QED
    BY <1>1 DEF NodeType

\* Ids are integers, so that any two of them can be compared (BlockId: Ord).
LEMMA IdsAreInts == AllIds \subseteq Int /\ NoBlock \notin AllIds /\ GenesisId \in AllIds
  BY GhostdagAssumption DEF AllIds, GenesisId, NoBlock

\* An empty entry of the node table is well typed.
LEMMA NoNodeType == \A w \in Nat : NoNode(w) \in NodeType
  BY DEF NoNode, NodeType

\* The state Dag::new builds is well typed.
LEMMA InitType == Init => TypeOK
  <1> SUFFICES ASSUME Init PROVE TypeOK
    OBVIOUS
  <1>1. node \in [AllIds -> NodeType]
    BY NoNodeType, GhostdagAssumption DEF Init
  <1> QED
    BY <1>1, IdsAreInts DEF Init, TypeOK

\* What Begin stores for the new block, field by field (compute_ghostdag before
\* its loop), and that it leaves every other node alone.
LEMMA BeginNode ==
    ASSUME TypeOK, NEW id \in Ids, NEW ps \in SUBSET blocks, NEW w \in Works,
           NEW sp \in ps, Begin(id, ps, w, sp)
    PROVE  /\ cur' = id
           /\ id \in AllIds /\ sp \in AllIds /\ ps \subseteq AllIds
           /\ \A b \in AllIds \ {id} : node'[b] = node[b]
           /\ node'[id].parents = ps
           /\ node'[id].work = w
           /\ node'[id].past = PastOver(ps)
           /\ node'[id].past_size = node[sp].past_size + 1
           /\ node'[id].selected_parent = sp
           /\ node'[id].mergeset_blues = {}
           /\ node'[id].mergeset_reds = {}
           /\ node'[id].blue_score = node[sp].blue_score + 1
           /\ node'[id].blue_work = node[sp].blue_work + node[sp].work
           /\ node'[id].blue_set = node[sp].blue_set \cup {sp}
           /\ \A x \in AllIds : node'[id].sizes[x] = IF x = sp THEN 0 ELSE node[sp].sizes[x]
           /\ node' \in [AllIds -> NodeType]
  <1>1. id \in AllIds /\ sp \in AllIds /\ ps \subseteq AllIds
    BY DEF TypeOK, AllIds
  <1>2. DOMAIN node = AllIds /\ node \in [AllIds -> NodeType]
    BY DEF TypeOK
  <1> DEFINE new == [parents |-> ps, work |-> w, past |-> PastOver(ps),
                     past_size |-> node[sp].past_size + 1,
                     selected_parent |-> sp, mergeset_blues |-> {}, mergeset_reds |-> {},
                     blue_score |-> node[sp].blue_score + 1,
                     blue_work |-> node[sp].blue_work + node[sp].work,
                     blue_set |-> node[sp].blue_set \cup {sp},
                     sizes |-> [node[sp].sizes EXCEPT ![sp] = 0]]
  <1>3. node' = [node EXCEPT ![id] = new] /\ cur' = id
    BY DEF Begin
  <1>4. node'[id] = new /\ \A b \in AllIds \ {id} : node'[b] = node[b]
    BY <1>1, <1>2, <1>3
  <1>5. PastOver(ps) \in SUBSET AllIds
    BY <1>1, NodeFields DEF PastOver
  <1>6. new \in NodeType
    <2>1. node[sp].past_size + 1 \in Nat /\ node[sp].blue_score + 1 \in Nat
          /\ node[sp].blue_work + node[sp].work \in Nat
      BY <1>1, NodeFields
    <2>2. [node[sp].sizes EXCEPT ![sp] = 0] \in [AllIds -> Nat]
      BY <1>1, NodeFields
    <2>3. node[sp].blue_set \cup {sp} \in SUBSET AllIds
      BY <1>1, NodeFields
    <2>4. w \in Nat
      BY GhostdagAssumption
    <2> QED
      BY <2>1, <2>2, <2>3, <2>4, <1>1, <1>5 DEF NodeType
  <1>7. node' \in [AllIds -> NodeType]
    BY <1>2, <1>3, <1>6
  <1>8. \A x \in AllIds : new.sizes[x] = IF x = sp THEN 0 ELSE node[sp].sizes[x]
    BY <1>1, NodeFields
  <1> QED
    BY <1>1, <1>3, <1>4, <1>7, <1>8

\* The past and the blue set of every view are finite: they are part of the
\* finite set of blocks.
LEMMA BlueSetFinite ==
    ASSUME IInv, NEW b \in Known
    PROVE  /\ IsFiniteSet(node[b].past) /\ IsFiniteSet(node[b].blue_set)
           /\ \A S \in SUBSET node[b].blue_set : IsFiniteSet(S) /\ Cardinality(S) \in Nat
  <1>1. IsFiniteSet(blocks)
    BY DEF IInv, CurInv
  <1>2. node[b].past \in SUBSET blocks /\ node[b].blue_set \in SUBSET blocks
    BY DEF IInv, NodeOK, PastOK, BlueOK
  <1>3. \A S \in SUBSET blocks : IsFiniteSet(S) /\ Cardinality(S) \in Nat
    BY <1>1, FS_Subset, FS_CardinalityType
  <1> QED
    BY <1>2, <1>3

\* While a block is being inserted it is known, fresh and not genesis.
LEMMA CurKnown ==
    ASSUME IInv, cur # NoBlock
    PROVE  /\ cur \in AllIds /\ cur \in Known \ {GenesisId} /\ cur \notin blocks
           /\ Known = blocks \cup {cur} /\ blocks \subseteq AllIds /\ Uncoloured(cur) = rest
  BY GhostdagAssumption DEF IInv, TypeOK, CurInv, Known, AllIds, Uncoloured, GenesisId

\* What an iteration of the loop that colours its candidate blue changes: only
\* the data of the block being inserted, and how each field of it.
LEMMA ColourBlueNode ==
    ASSUME IInv, NEW c \in rest, ColourBlue(c)
    PROVE  /\ c \in AllIds
           /\ \A b \in AllIds \ {cur} : node'[b] = node[b]
           /\ node'[cur].parents = node[cur].parents
           /\ node'[cur].work = node[cur].work
           /\ node'[cur].past = node[cur].past
           /\ node'[cur].past_size = node[cur].past_size + 1
           /\ node'[cur].selected_parent = node[cur].selected_parent
           /\ node'[cur].mergeset_blues = node[cur].mergeset_blues \cup {c}
           /\ node'[cur].mergeset_reds = node[cur].mergeset_reds
           /\ node'[cur].blue_score = node[cur].blue_score + 1
           /\ node'[cur].blue_work = node[cur].blue_work + node[c].work
           /\ node'[cur].blue_set = node[cur].blue_set \cup {c}
           /\ \A x \in AllIds : node'[cur].sizes[x] =
                IF x = c THEN Cardinality(BluesInAnticone(c))
                ELSE IF x \in BluesInAnticone(c) THEN node[cur].sizes[x] + 1
                ELSE node[cur].sizes[x]
           /\ node' \in [AllIds -> NodeType]
  <1>1. c \in AllIds /\ cur \in AllIds /\ cur \in Known
    BY CurKnown DEF ColourBlue, IInv, TypeOK
  <1>2. node \in [AllIds -> NodeType] /\ node[cur] \in NodeType
    BY <1>1 DEF IInv, TypeOK
  <1> DEFINE sizes == [x \in AllIds |->
                         IF x = c THEN Cardinality(BluesInAnticone(c))
                         ELSE IF x \in BluesInAnticone(c) THEN node[cur].sizes[x] + 1
                         ELSE node[cur].sizes[x]]
             new == [node[cur] EXCEPT
                       !.past_size = node[cur].past_size + 1,
                       !.mergeset_blues = node[cur].mergeset_blues \cup {c},
                       !.blue_score = node[cur].blue_score + 1,
                       !.blue_work = node[cur].blue_work + node[c].work,
                       !.blue_set = node[cur].blue_set \cup {c},
                       !.sizes = sizes]
  <1>3. node' = [node EXCEPT ![cur] = new]
    BY DEF ColourBlue
  <1>4. node'[cur] = new /\ \A b \in AllIds \ {cur} : node'[b] = node[b]
    BY <1>1, <1>2, <1>3
  <1>5. sizes \in [AllIds -> Nat]
    <2>1. Cardinality(BluesInAnticone(c)) \in Nat
      BY <1>1, BlueSetFinite DEF BluesInAnticone
    <2>2. \A x \in AllIds : node[cur].sizes[x] \in Nat
      BY <1>1, NodeFields DEF IInv
    <2> QED
      BY <2>1, <2>2
  <1>6. /\ node[cur].past_size + 1 \in Nat
        /\ node[cur].blue_score + 1 \in Nat
        /\ node[cur].blue_work + node[c].work \in Nat
        /\ node[cur].mergeset_blues \cup {c} \in SUBSET AllIds
        /\ node[cur].blue_set \cup {c} \in SUBSET AllIds
    BY <1>1, NodeFields DEF IInv
  <1>7. new \in NodeType
    <2> HIDE DEF sizes
    <2> QED
      BY <1>2, <1>5, <1>6 DEF NodeType
  <1>8. node' \in [AllIds -> NodeType]
    BY <1>2, <1>3, <1>7
  <1>9. \A x \in AllIds : new.sizes[x] = sizes[x]
    BY <1>2 DEF NodeType
  <1>10. /\ new.parents = node[cur].parents /\ new.past = node[cur].past
         /\ new.work = node[cur].work
         /\ new.past_size = node[cur].past_size + 1
         /\ new.selected_parent = node[cur].selected_parent
         /\ new.mergeset_blues = node[cur].mergeset_blues \cup {c}
         /\ new.mergeset_reds = node[cur].mergeset_reds
         /\ new.blue_score = node[cur].blue_score + 1
         /\ new.blue_work = node[cur].blue_work + node[c].work
         /\ new.blue_set = node[cur].blue_set \cup {c}
    <2> HIDE DEF sizes
    <2> QED
      BY <1>2 DEF NodeType
  <1> QED
    BY <1>1, <1>4, <1>8, <1>9, <1>10

\* What an iteration that colours its candidate red changes.
LEMMA ColourRedNode ==
    ASSUME IInv, NEW c \in rest, ColourRed(c)
    PROVE  /\ c \in AllIds
           /\ \A b \in AllIds \ {cur} : node'[b] = node[b]
           /\ node'[cur].parents = node[cur].parents
           /\ node'[cur].work = node[cur].work
           /\ node'[cur].past = node[cur].past
           /\ node'[cur].past_size = node[cur].past_size + 1
           /\ node'[cur].selected_parent = node[cur].selected_parent
           /\ node'[cur].mergeset_blues = node[cur].mergeset_blues
           /\ node'[cur].mergeset_reds = node[cur].mergeset_reds \cup {c}
           /\ node'[cur].blue_score = node[cur].blue_score
           /\ node'[cur].blue_work = node[cur].blue_work
           /\ node'[cur].blue_set = node[cur].blue_set
           /\ node'[cur].sizes = node[cur].sizes
           /\ node' \in [AllIds -> NodeType]
  <1>1. c \in AllIds /\ cur \in AllIds
    BY CurKnown DEF ColourRed, IInv, TypeOK
  <1>2. node \in [AllIds -> NodeType] /\ node[cur] \in NodeType
    BY <1>1 DEF IInv, TypeOK
  <1> DEFINE new == [node[cur] EXCEPT
                       !.past_size = node[cur].past_size + 1,
                       !.mergeset_reds = node[cur].mergeset_reds \cup {c}]
  <1>3. node' = [node EXCEPT ![cur] = new]
    BY DEF ColourRed
  <1>4. node'[cur] = new /\ \A b \in AllIds \ {cur} : node'[b] = node[b]
    BY <1>1, <1>2, <1>3
  <1>5. /\ node[cur].past_size + 1 \in Nat
        /\ node[cur].mergeset_reds \cup {c} \in SUBSET AllIds
    BY <1>1, NodeFields DEF IInv
  <1>6. new \in NodeType
    BY <1>2, <1>5 DEF NodeType
  <1>7. node' \in [AllIds -> NodeType]
    BY <1>2, <1>3, <1>6
  <1>8. /\ new.parents = node[cur].parents /\ new.past = node[cur].past
        /\ new.work = node[cur].work
        /\ new.past_size = node[cur].past_size + 1
        /\ new.selected_parent = node[cur].selected_parent
        /\ new.mergeset_blues = node[cur].mergeset_blues
        /\ new.mergeset_reds = node[cur].mergeset_reds \cup {c}
        /\ new.blue_score = node[cur].blue_score
        /\ new.blue_work = node[cur].blue_work
        /\ new.blue_set = node[cur].blue_set
        /\ new.sizes = node[cur].sizes
    BY <1>2 DEF NodeType
  <1> QED
    BY <1>1, <1>4, <1>7, <1>8

(***************************************************************************)
(* The order of the chain keys.                                            *)
(***************************************************************************)

\* chain_key is compared lexicographically, which is transitive, total on
\* distinct ids, and irreflexive.
LEMMA ChainKeyOrder ==
    ASSUME TypeOK, NEW a \in AllIds, NEW b \in AllIds
    PROVE  /\ ~ChainKeyLess(a, a)
           /\ a # b => ChainKeyLess(a, b) \/ ChainKeyLess(b, a)
           /\ ~(ChainKeyLess(a, b) /\ ChainKeyLess(b, a))
           /\ \A c \in AllIds : ChainKeyLess(a, b) /\ ChainKeyLess(b, c) => ChainKeyLess(a, c)
  BY NodeFields, IdsAreInts DEF ChainKeyLess

\* A known block is heavier than everything in its past.
LEMMA KnownKeyGrows ==
    ASSUME IInv, NEW b \in Known, NEW a \in node[b].past
    PROVE  ChainKeyLess(a, b)
  <1> DEFINE sp == node[b].selected_parent
  <1>1. b \in AllIds /\ a \in AllIds /\ b # GenesisId
    BY CurKnown DEF IInv, TypeOK, NodeOK, PastOK, Known
  <1>2. sp \in AllIds
    BY <1>1 DEF IInv, TypeOK, NodeOK, PastOK
  <1>3. ChainKeyLess(sp, b)
    BY <1>1, <1>2, NodeFields DEF IInv, NodeOK, KeyOK, ChainKeyLess
  <1>4. a = sp \/ ChainKeyLess(a, sp)
    BY <1>1 DEF IInv, NodeOK, KeyOK
  <1> QED
    BY <1>1, <1>2, <1>3, <1>4, ChainKeyOrder DEF IInv

(***************************************************************************)
(* A step that leaves a block, the stored blocks and what is uncoloured of *)
(* the block alone leaves NodeOK alone.                                    *)
(***************************************************************************)
LEMMA NodeFrame ==
    ASSUME NEW b, NodeOK(b), blocks \subseteq blocks',
           \A a \in blocks \cup {b} : node'[a] = node[a],
           Uncoloured(b)' = Uncoloured(b)
    PROVE  NodeOK(b)'
  <1>1. /\ node'[b] = node[b] /\ node[b].past \subseteq blocks
        /\ b # GenesisId => node[b].selected_parent \in blocks
    BY DEF NodeOK, PastOK
  <1>2. \A x, y \in blocks : /\ InAnticone(x, y)' <=> InAnticone(x, y)
                             /\ ChainKeyLess(x, y)' <=> ChainKeyLess(x, y)
    BY DEF InAnticone, ChainKeyLess
  <1>3. PastOK(b)'
    BY <1>1 DEF NodeOK, PastOK
  <1>4. KeyOK(b)'
    BY <1>1, <1>2 DEF NodeOK, KeyOK
  <1>5. BlueOK(b)'
    <2>1. node[b].blue_set \subseteq blocks
      BY <1>1 DEF NodeOK, BlueOK
    <2>2. \A x \in node[b].blue_set :
            {y \in node[b].blue_set : InAnticone(x, y)'}
              = {y \in node[b].blue_set : InAnticone(x, y)}
      BY <2>1, <1>2
    <2> QED
      BY <2>2, <1>1 DEF NodeOK, BlueOK
  <1>6. CountOK(b)'
    BY <1>1 DEF NodeOK, CountOK
  <1>7. MergeOK(b)'
    BY <1>1 DEF NodeOK, MergeOK
  <1> QED
    BY <1>3, <1>4, <1>5, <1>6, <1>7 DEF NodeOK

(***************************************************************************)
(* Each step preserves the inductive invariant.                            *)
(***************************************************************************)

\* The checks and the seed of compute_ghostdag establish the invariant for the
\* block being inserted.
LEMMA BeginStep ==
    ASSUME IInv, NEW id \in Ids, NEW ps \in SUBSET blocks, NEW w \in Works,
           NEW sp \in ps, Begin(id, ps, w, sp)
    PROVE  IInv'
  <1>1. TypeOK /\ CurInv /\ (\A b \in Known : NodeOK(b)) /\ HeaviestIsTip
    BY DEF IInv
  <1>2. /\ cur = NoBlock /\ cur' = id /\ id \notin blocks /\ IsHeaviest(sp, ps)
        /\ blocks' = blocks /\ tips' = tips
        /\ rest' = PastOver(ps) \ (node[sp].past \cup {sp})
    BY DEF Begin
  <1>3. /\ id \in AllIds /\ sp \in AllIds /\ ps \subseteq AllIds
        /\ \A b \in AllIds \ {id} : node'[b] = node[b]
        /\ node'[id].parents = ps /\ node'[id].past = PastOver(ps)
        /\ node'[id].past_size = node[sp].past_size + 1
        /\ node'[id].selected_parent = sp
        /\ node'[id].mergeset_blues = {} /\ node'[id].mergeset_reds = {}
        /\ node'[id].blue_score = node[sp].blue_score + 1
        /\ node'[id].blue_work = node[sp].blue_work + node[sp].work
        /\ node'[id].blue_set = node[sp].blue_set \cup {sp}
        /\ \A x \in AllIds : node'[id].sizes[x] = IF x = sp THEN 0 ELSE node[sp].sizes[x]
        /\ node' \in [AllIds -> NodeType]
    BY <1>1, BeginNode
  <1>4. /\ blocks \subseteq AllIds /\ id # NoBlock /\ id # GenesisId
        /\ NoBlock \notin blocks
        /\ Known = blocks /\ Known' = blocks \cup {id}
        /\ \A b \in blocks : node'[b] = node[b] /\ Uncoloured(b) = {} /\ Uncoloured(b)' = {}
        /\ Uncoloured(id)' = rest'
    BY <1>1, <1>2, <1>3, IdsAreInts, GhostdagAssumption
    DEF TypeOK, Known, Uncoloured, GenesisId
  <1>5. \A a, b \in blocks : /\ InAnticone(a, b)' <=> InAnticone(a, b)
                             /\ ChainKeyLess(a, b)' <=> ChainKeyLess(a, b)
    BY <1>4 DEF InAnticone, ChainKeyLess
  <1>6. sp \in blocks /\ PastOver(ps) \subseteq blocks /\ node[sp].past \cup {sp} \subseteq PastOver(ps)
    BY <1>1, <1>4 DEF NodeOK, PastOK, PastOver
  <1>7. TypeOK'
    BY <1>1, <1>2, <1>3, <1>6 DEF TypeOK
  <1>8. CurInv'
    BY <1>1, <1>2, <1>4 DEF CurInv
  <1>9. \A b \in blocks : NodeOK(b)'
    BY <1>1, <1>2, <1>4, NodeFrame
  <1>10. PastOK(id)'
    <2>1. \A a \in PastOver(ps) : node[a].past \subseteq PastOver(ps)
      BY <1>1, <1>4 DEF NodeOK, PastOK, PastOver
    <2>2. ps \subseteq PastOver(ps)
      BY DEF PastOver
    <2> QED
      BY <2>1, <2>2, <1>2, <1>3, <1>4, <1>6 DEF PastOK
  <1>11. KeyOK(id)'
    <2>1. node'[id].blue_score >= node'[sp].blue_score + 1
      BY <1>1, <1>3, <1>4, <1>6, NodeFields
    <2>2. node'[id].blue_work >= node'[sp].blue_work
      BY <1>1, <1>3, <1>4, <1>6, NodeFields
    <2>3. ASSUME NEW a \in PastOver(ps) \ {sp} PROVE ChainKeyLess(a, sp)
      <3>1. CASE a \in ps
        BY <3>1, <2>3, <1>2 DEF IsHeaviest
      <3>2. CASE \E p \in ps : a \in node[p].past
        <4>1. PICK p \in ps : a \in node[p].past
          BY <3>2
        <4>2. ChainKeyLess(a, p)
          BY <4>1, <1>4, KnownKeyGrows
        <4>3. p = sp \/ ChainKeyLess(p, sp)
          BY <1>2 DEF IsHeaviest
        <4> QED
          BY <2>3, <4>2, <4>3, <1>1, <1>3, <1>4, <1>6, ChainKeyOrder
      <3> QED
        BY <2>3, <3>1, <3>2 DEF PastOver
    <2>4. \A a \in PastOver(ps) \ {sp} : ChainKeyLess(a, sp)'
      BY <2>3, <1>5, <1>6
    <2> QED
      BY <2>1, <2>2, <2>4, <1>3 DEF KeyOK
  <1>12. BlueOK(id)'
    <2> DEFINE bs == node[sp].blue_set
    <2>1. bs \subseteq node[sp].past
      BY <1>1, <1>4, <1>6 DEF NodeOK, BlueOK
    <2>2. bs \cup {sp} \subseteq PastOver(ps) \ rest'
      BY <2>1, <1>2, <1>6
    <2>3. sp \notin bs
      BY <2>1, <1>1, <1>3, <1>4, <1>6, KnownKeyGrows, ChainKeyOrder
    <2>4. \A x \in bs : ~InAnticone(x, sp) /\ ~InAnticone(sp, x)
      BY <2>1 DEF InAnticone
    <2>5. ASSUME NEW x \in bs
          PROVE  /\ node'[id].sizes[x]
                      = Cardinality({y \in bs \cup {sp} : InAnticone(x, y)'})
                 /\ node'[id].sizes[x] <= K
      <3>1. {y \in bs \cup {sp} : InAnticone(x, y)'} = {y \in bs : InAnticone(x, y)}
        BY <2>1, <2>2, <2>4, <1>5, <1>6
      <3>2. /\ node[sp].sizes[x] = Cardinality({y \in bs : InAnticone(x, y)})
            /\ node[sp].sizes[x] <= K
        BY <1>1, <1>4, <1>6 DEF NodeOK, BlueOK
      <3>3. node'[id].sizes[x] = node[sp].sizes[x]
        BY <2>1, <2>2, <2>3, <2>5, <1>1, <1>3, <1>4, <1>6, NodeFields
      <3> QED
        BY <3>1, <3>2, <3>3
    <2>6. /\ node'[id].sizes[sp] = Cardinality({y \in bs \cup {sp} : InAnticone(sp, y)'})
          /\ node'[id].sizes[sp] <= K
      <3>1. {y \in bs \cup {sp} : InAnticone(sp, y)'} = {}
        BY <2>1, <2>2, <2>4, <1>5, <1>6 DEF InAnticone
      <3>2. node'[id].sizes[sp] = 0
        BY <1>1, <1>3, NodeFields
      <3> QED
        BY <3>1, <3>2, FS_EmptySet, GhostdagAssumption
    <2>7. \A x \in bs \cup {sp} :
            /\ node'[id].sizes[x] = Cardinality({y \in bs \cup {sp} : InAnticone(x, y)'})
            /\ node'[id].sizes[x] <= K
      BY <2>5, <2>6
    <2>8. node'[id].blue_set = bs \cup {sp}
      BY <1>3
    <2> HIDE DEF bs
    <2> QED
      BY <2>2, <2>7, <2>8, <1>3, <1>4, SMTT(30) DEF BlueOK
  <1>13. CountOK(id)'
    <2>1. IsFiniteSet(blocks)
      BY <1>1 DEF CurInv
    <2>2. /\ IsFiniteSet(PastOver(ps)) /\ IsFiniteSet(node[sp].past)
          /\ IsFiniteSet(node[sp].blue_set)
      BY <2>1, <1>4, <1>6, FS_Subset, BlueSetFinite
    <2>3. sp \notin node[sp].past /\ sp \notin node[sp].blue_set
      BY <1>1, <1>3, <1>4, <1>6, KnownKeyGrows, ChainKeyOrder DEF NodeOK, BlueOK
    <2>4. /\ node[sp].past_size = Cardinality(node[sp].past)
          /\ node[sp].blue_score = Cardinality(node[sp].blue_set)
      <3>1. Cardinality(Uncoloured(sp)) = 0
        BY <1>4, <1>6, FS_EmptySet
      <3> QED
        BY <3>1, <1>1, <1>3, <1>4, <1>6, NodeFields DEF NodeOK, CountOK
    <2>5. /\ Cardinality(node[sp].past \cup {sp}) = Cardinality(node[sp].past) + 1
          /\ Cardinality(node[sp].blue_set \cup {sp}) = Cardinality(node[sp].blue_set) + 1
      BY <2>2, <2>3, FS_AddElement
    <2>6. PastOver(ps) \cap (node[sp].past \cup {sp}) = node[sp].past \cup {sp}
      BY <1>6
    <2>7. Cardinality(rest') = Cardinality(PastOver(ps)) - Cardinality(node[sp].past \cup {sp})
      BY <2>2, <2>6, <1>2, FS_Difference
    <2>8. Cardinality(PastOver(ps)) \in Nat /\ Cardinality(node[sp].past) \in Nat
      BY <2>2, FS_CardinalityType
    <2>9. node'[id].past_size + Cardinality(rest') = Cardinality(PastOver(ps))
      BY <2>4, <2>5, <2>7, <2>8, <1>3
    <2> QED
      BY <2>4, <2>5, <2>9, <1>3, <1>4 DEF CountOK
  <1>14. MergeOK(id)'
    BY <1>2, <1>3, <1>4, <1>6 DEF MergeOK
  <1>15. HeaviestIsTip'
    BY <1>1, <1>2, <1>4, <1>5 DEF HeaviestIsTip, IsHeaviest, TypeOK
  <1> QED
    BY <1>4, <1>7, <1>8, <1>9, <1>10, <1>11, <1>12, <1>13, <1>14, <1>15 DEF IInv, NodeOK

\* What the two outcomes of a loop iteration share: the stored blocks keep their
\* invariant, and the candidate is a block of the past not yet in the blue set.
LEMMA ColourFrame ==
    ASSUME IInv, NEW c \in rest, cur # NoBlock,
           \A b \in AllIds \ {cur} : node'[b] = node[b],
           rest' = rest \ {c}, UNCHANGED <<blocks, tips, cur>>
    PROVE  /\ CurInv'
           /\ HeaviestIsTip'
           /\ \A b \in blocks : NodeOK(b)'
           /\ \A a, b \in blocks : InAnticone(a, b)' <=> InAnticone(a, b)
           /\ \A a, b \in blocks : ChainKeyLess(a, b)' <=> ChainKeyLess(a, b)
           /\ c \in blocks /\ c \in node[cur].past /\ c \notin node[cur].blue_set
           /\ Known' = blocks \cup {cur}
           /\ Uncoloured(cur)' = rest \ {c}
           /\ Cardinality(rest) \in Nat /\ Cardinality(rest \ {c}) = Cardinality(rest) - 1
  <1>1. /\ cur \in AllIds /\ cur \in Known \ {GenesisId} /\ cur \notin blocks
        /\ Known = blocks \cup {cur} /\ blocks \subseteq AllIds /\ Uncoloured(cur) = rest
    BY CurKnown
  <1>2. \A b \in blocks : node'[b] = node[b] /\ Uncoloured(b) = {} /\ Uncoloured(b)' = {}
    BY <1>1 DEF Uncoloured
  <1>3. \A b \in blocks : NodeOK(b)'
    BY <1>1, <1>2, NodeFrame DEF IInv
  <1>4. \A a, b \in blocks : /\ InAnticone(a, b)' <=> InAnticone(a, b)
                             /\ ChainKeyLess(a, b)' <=> ChainKeyLess(a, b)
    BY <1>2 DEF InAnticone, ChainKeyLess
  <1>5. c \in blocks /\ c \in node[cur].past /\ c \notin node[cur].blue_set
    BY <1>1 DEF IInv, TypeOK, NodeOK, MergeOK, BlueOK
  <1>6. IsFiniteSet(rest)
    BY FS_Subset DEF IInv, CurInv, TypeOK
  <1>7. Cardinality(rest) \in Nat /\ Cardinality(rest \ {c}) = Cardinality(rest) - 1
    BY <1>6, FS_RemoveElement, FS_CardinalityType
  <1>8. CurInv'
    BY DEF IInv, CurInv
  <1>9. HeaviestIsTip'
    BY <1>4 DEF IInv, TypeOK, HeaviestIsTip, IsHeaviest
  <1>10. Known' = blocks \cup {cur} /\ Uncoloured(cur)' = rest \ {c}
    BY <1>1 DEF Known, Uncoloured
  <1> QED
    BY <1>3, <1>4, <1>5, <1>7, <1>8, <1>9, <1>10

\* Colouring a candidate blue keeps every size exact and within k.
LEMMA ColourBlueStep ==
    ASSUME IInv, NEW c \in rest, ColourBlue(c)
    PROVE  IInv'
  <1> DEFINE bs == node[cur].blue_set
             inc == BluesInAnticone(c)
  <1>1. /\ cur # NoBlock /\ CanBeBlue(c) /\ rest' = rest \ {c}
        /\ UNCHANGED <<blocks, tips, cur>>
    BY DEF ColourBlue
  <1>2. /\ cur \in AllIds /\ cur \in Known \ {GenesisId} /\ cur \notin blocks
        /\ Known = blocks \cup {cur} /\ blocks \subseteq AllIds /\ Uncoloured(cur) = rest
    BY <1>1, CurKnown
  <1>3. /\ c \in AllIds
        /\ \A b \in AllIds \ {cur} : node'[b] = node[b]
        /\ node'[cur].parents = node[cur].parents
        /\ node'[cur].past = node[cur].past
        /\ node'[cur].past_size = node[cur].past_size + 1
        /\ node'[cur].selected_parent = node[cur].selected_parent
        /\ node'[cur].mergeset_blues = node[cur].mergeset_blues \cup {c}
        /\ node'[cur].mergeset_reds = node[cur].mergeset_reds
        /\ node'[cur].blue_score = node[cur].blue_score + 1
        /\ node'[cur].blue_work = node[cur].blue_work + node[c].work
        /\ node'[cur].blue_set = bs \cup {c}
        /\ \A x \in AllIds : node'[cur].sizes[x] =
             IF x = c THEN Cardinality(inc)
             ELSE IF x \in inc THEN node[cur].sizes[x] + 1
             ELSE node[cur].sizes[x]
        /\ node' \in [AllIds -> NodeType]
    BY ColourBlueNode
  <1>4. /\ CurInv' /\ HeaviestIsTip' /\ (\A b \in blocks : NodeOK(b)')
        /\ \A a, b \in blocks : InAnticone(a, b)' <=> InAnticone(a, b)
        /\ \A a, b \in blocks : ChainKeyLess(a, b)' <=> ChainKeyLess(a, b)
        /\ c \in blocks /\ c \in node[cur].past /\ c \notin bs
        /\ Known' = blocks \cup {cur} /\ Uncoloured(cur)' = rest \ {c}
        /\ Cardinality(rest) \in Nat /\ Cardinality(rest \ {c}) = Cardinality(rest) - 1
    BY <1>1, <1>3, ColourFrame
  <1>5. PastOK(cur) /\ KeyOK(cur) /\ BlueOK(cur) /\ CountOK(cur) /\ MergeOK(cur)
    BY <1>2 DEF IInv, NodeOK
  <1>6. TypeOK'
    BY <1>1, <1>3 DEF IInv, TypeOK
  <1>7. \A b \in blocks : node'[b] = node[b]
    BY <1>2, <1>3
  <1>8. PastOK(cur)'
    BY <1>1, <1>2, <1>3, <1>5, <1>7 DEF PastOK
  <1>9. KeyOK(cur)'
    <2>0. PICK sp : sp = node[cur].selected_parent
      OBVIOUS
    <2>1. node[cur].past \subseteq blocks /\ sp \in blocks
      BY <2>0, <1>2, <1>5 DEF PastOK
    <2>2. /\ node[cur].blue_score \in Nat /\ node[cur].blue_work \in Nat /\ node[c].work \in Nat
          /\ node[sp].blue_score \in Nat /\ node[sp].blue_work \in Nat
      BY <2>1, <1>2, <1>4, NodeFields DEF IInv
    <2>3. /\ node'[cur].blue_score >= node'[sp].blue_score + 1
          /\ node'[cur].blue_work >= node'[sp].blue_work
      BY <2>0, <2>1, <2>2, <1>2, <1>3, <1>5, <1>7 DEF KeyOK
    <2>4. \A a \in node[cur].past \ {sp} : ChainKeyLess(a, sp)'
      BY <2>0, <2>1, <1>2, <1>4, <1>5 DEF KeyOK
    <2> QED
      BY <2>0, <2>3, <2>4, <1>1, <1>3 DEF KeyOK
  <1>10. BlueOK(cur)'
    <2>1. bs \subseteq blocks /\ bs \subseteq node[cur].past \ rest
      BY <1>2, <1>5 DEF PastOK, BlueOK
    <2>2. IsFiniteSet(bs) /\ \A S \in SUBSET bs : IsFiniteSet(S) /\ Cardinality(S) \in Nat
      BY <1>2, BlueSetFinite
    <2>3. \A x \in bs : /\ node[cur].sizes[x] = Cardinality({y \in bs : InAnticone(x, y)})
                        /\ node[cur].sizes[x] <= K
      BY <1>5 DEF BlueOK
    <2>4. inc = {b \in bs : InAnticone(b, c)}
      BY DEF BluesInAnticone
    <2>5. ASSUME NEW x \in inc
          PROVE  /\ node'[cur].sizes[x]
                      = Cardinality({y \in bs \cup {c} : InAnticone(x, y)'})
                 /\ node'[cur].sizes[x] <= K
      <3>1. {y \in bs \cup {c} : InAnticone(x, y)'} = {y \in bs : InAnticone(x, y)} \cup {c}
        BY <2>1, <2>4, <1>4
      <3>2. c \notin {y \in bs : InAnticone(x, y)} /\ IsFiniteSet({y \in bs : InAnticone(x, y)})
        BY <2>2, <1>4
      <3>3. Cardinality({y \in bs \cup {c} : InAnticone(x, y)'})
              = Cardinality({y \in bs : InAnticone(x, y)}) + 1
        BY <3>1, <3>2, FS_AddElement
      <3>4. node'[cur].sizes[x] = node[cur].sizes[x] + 1
        BY <2>1, <2>4, <2>5, <1>2, <1>3, <1>4
      <3>5. node[cur].sizes[x] + 1 <= K
        BY <2>5, <1>1 DEF CanBeBlue
      <3> QED
        BY <3>3, <3>4, <3>5, <2>3, <2>4
    <2>6. ASSUME NEW x \in bs \ inc
          PROVE  /\ node'[cur].sizes[x]
                      = Cardinality({y \in bs \cup {c} : InAnticone(x, y)'})
                 /\ node'[cur].sizes[x] <= K
      <3>1. {y \in bs \cup {c} : InAnticone(x, y)'} = {y \in bs : InAnticone(x, y)}
        BY <2>1, <2>4, <2>6, <1>4
      <3>2. node'[cur].sizes[x] = node[cur].sizes[x]
        BY <2>1, <2>6, <1>2, <1>3, <1>4
      <3> QED
        BY <3>1, <3>2, <2>3, <2>6
    <2>7. /\ node'[cur].sizes[c] = Cardinality({y \in bs \cup {c} : InAnticone(c, y)'})
          /\ node'[cur].sizes[c] <= K
      <3>1. {y \in bs \cup {c} : InAnticone(c, y)'} = inc
        <4>1. \A y \in bs : InAnticone(c, y)' <=> InAnticone(y, c)
          BY <2>1, <1>4 DEF InAnticone
        <4>2. ~InAnticone(c, c)'
          BY DEF InAnticone
        <4> QED
          BY <4>1, <4>2, <2>4
      <3>2. node'[cur].sizes[c] = Cardinality(inc)
        BY <1>3
      <3> QED
        BY <3>1, <3>2, <1>1 DEF CanBeBlue
    <2>8. \A x \in bs \cup {c} :
            /\ node'[cur].sizes[x] = Cardinality({y \in bs \cup {c} : InAnticone(x, y)'})
            /\ node'[cur].sizes[x] <= K
      BY <2>5, <2>6, <2>7
    <2>9. node'[cur].blue_set = bs \cup {c}
      BY <1>3
    <2>10. bs \cup {c} \subseteq node'[cur].past \ (rest \ {c})
      BY <2>1, <1>3, <1>4
    <2> HIDE DEF bs
    <2> QED
      BY <2>8, <2>9, <2>10, <1>1, <1>4 DEF BlueOK
  <1>11. CountOK(cur)'
    <2>1. Cardinality(bs \cup {c}) = Cardinality(bs) + 1
      BY <1>2, <1>4, BlueSetFinite, FS_AddElement
    <2>2. node[cur].past_size \in Nat
      BY <1>2, NodeFields DEF IInv
    <2> QED
      BY <2>1, <2>2, <1>1, <1>2, <1>3, <1>4, <1>5 DEF CountOK
  <1>12. MergeOK(cur)'
    <2>1. node[cur].selected_parent \in blocks
      BY <1>2, <1>5 DEF PastOK
    <2> QED
      BY <2>1, <1>1, <1>2, <1>3, <1>4, <1>5, <1>7 DEF MergeOK
  <1> QED
    BY <1>1, <1>4, <1>6, <1>8, <1>9, <1>10, <1>11, <1>12 DEF IInv, NodeOK

\* Colouring a candidate red only counts it and records it.
LEMMA ColourRedStep ==
    ASSUME IInv, NEW c \in rest, ColourRed(c)
    PROVE  IInv'
  <1>1. /\ cur # NoBlock /\ rest' = rest \ {c} /\ UNCHANGED <<blocks, tips, cur>>
    BY DEF ColourRed
  <1>2. /\ cur \in AllIds /\ cur \in Known \ {GenesisId} /\ cur \notin blocks
        /\ Known = blocks \cup {cur} /\ blocks \subseteq AllIds /\ Uncoloured(cur) = rest
    BY <1>1, CurKnown
  <1>3. /\ c \in AllIds
        /\ \A b \in AllIds \ {cur} : node'[b] = node[b]
        /\ node'[cur].parents = node[cur].parents
        /\ node'[cur].past = node[cur].past
        /\ node'[cur].past_size = node[cur].past_size + 1
        /\ node'[cur].selected_parent = node[cur].selected_parent
        /\ node'[cur].mergeset_blues = node[cur].mergeset_blues
        /\ node'[cur].mergeset_reds = node[cur].mergeset_reds \cup {c}
        /\ node'[cur].blue_score = node[cur].blue_score
        /\ node'[cur].blue_work = node[cur].blue_work
        /\ node'[cur].blue_set = node[cur].blue_set
        /\ node'[cur].sizes = node[cur].sizes
        /\ node' \in [AllIds -> NodeType]
    BY ColourRedNode
  <1>4. /\ CurInv' /\ HeaviestIsTip' /\ (\A b \in blocks : NodeOK(b)')
        /\ \A a, b \in blocks : InAnticone(a, b)' <=> InAnticone(a, b)
        /\ \A a, b \in blocks : ChainKeyLess(a, b)' <=> ChainKeyLess(a, b)
        /\ c \in blocks /\ c \in node[cur].past /\ c \notin node[cur].blue_set
        /\ Known' = blocks \cup {cur} /\ Uncoloured(cur)' = rest \ {c}
        /\ Cardinality(rest) \in Nat /\ Cardinality(rest \ {c}) = Cardinality(rest) - 1
    BY <1>1, <1>3, ColourFrame
  <1>5. PastOK(cur) /\ KeyOK(cur) /\ BlueOK(cur) /\ CountOK(cur) /\ MergeOK(cur)
    BY <1>2 DEF IInv, NodeOK
  <1>6. TypeOK'
    BY <1>1, <1>3 DEF IInv, TypeOK
  <1>7. \A b \in blocks : node'[b] = node[b]
    BY <1>2, <1>3
  <1>8. PastOK(cur)'
    BY <1>1, <1>2, <1>3, <1>5, <1>7 DEF PastOK
  <1>9. KeyOK(cur)'
    <2>1. PICK sp : sp = node[cur].selected_parent
      OBVIOUS
    <2>2. node[cur].past \subseteq blocks /\ sp \in blocks
      BY <2>1, <1>2, <1>5 DEF PastOK
    <2>3. \A a \in node[cur].past \ {sp} : ChainKeyLess(a, sp)'
      BY <2>1, <2>2, <1>2, <1>4, <1>5 DEF KeyOK
    <2> QED
      BY <2>1, <2>2, <2>3, <1>1, <1>2, <1>3, <1>5, <1>7 DEF KeyOK
  <1>10. BlueOK(cur)'
    <2>1. PICK bs : bs = node[cur].blue_set
      OBVIOUS
    <2>2. bs \subseteq blocks /\ bs \subseteq node[cur].past \ rest
      BY <2>1, <1>2, <1>5 DEF PastOK, BlueOK
    <2>3. \A x \in bs : {y \in bs : InAnticone(x, y)'} = {y \in bs : InAnticone(x, y)}
      BY <2>2, <1>4
    <2>4. \A x \in bs : /\ node'[cur].sizes[x] = Cardinality({y \in bs : InAnticone(x, y)'})
                        /\ node'[cur].sizes[x] <= K
      BY <2>1, <2>3, <1>3, <1>5 DEF BlueOK
    <2>5. bs \subseteq node'[cur].past \ (rest \ {c}) /\ node'[cur].blue_set = bs
      BY <2>1, <2>2, <1>3
    <2> QED
      BY <2>4, <2>5, <1>1, <1>4 DEF BlueOK
  <1>11. CountOK(cur)'
    <2>1. node[cur].past_size \in Nat
      BY <1>2, NodeFields DEF IInv
    <2> QED
      BY <2>1, <1>1, <1>2, <1>3, <1>4, <1>5 DEF CountOK
  <1>12. MergeOK(cur)'
    <2>1. node[cur].selected_parent \in blocks
      BY <1>2, <1>5 DEF PastOK
    <2> QED
      BY <2>1, <1>1, <1>2, <1>3, <1>4, <1>5, <1>7 DEF MergeOK
  <1> QED
    BY <1>1, <1>4, <1>6, <1>8, <1>9, <1>10, <1>11, <1>12 DEF IInv, NodeOK

\* Wiring the block in makes it a stored block about which all of this holds, and
\* either it or the old heaviest tip is the heaviest block.
LEMMA CommitStep ==
    ASSUME IInv, Commit
    PROVE  IInv'
  <1>1. /\ cur # NoBlock /\ rest = {} /\ cur' = NoBlock
        /\ blocks' = blocks \cup {cur} /\ tips' = (tips \ node[cur].parents) \cup {cur}
        /\ node' = node /\ rest' = rest
    BY DEF Commit
  <1>2. /\ cur \in AllIds /\ cur \in Known \ {GenesisId} /\ cur \notin blocks
        /\ Known = blocks \cup {cur} /\ blocks \subseteq AllIds /\ Uncoloured(cur) = rest
        /\ NoBlock \notin AllIds
    BY <1>1, CurKnown, IdsAreInts
  <1>3. TypeOK'
    BY <1>1, <1>2 DEF IInv, TypeOK
  <1>4. CurInv'
    BY <1>1, <1>2, FS_AddElement DEF IInv, CurInv
  <1>5. \A b \in Known' : NodeOK(b)'
    <2>1. Known' = blocks \cup {cur}
      BY <1>1 DEF Known
    <2>2. \A b \in blocks \cup {cur} : Uncoloured(b) = {} /\ Uncoloured(b)' = {}
      BY <1>1, <1>2 DEF Uncoloured
    <2> QED
      BY <2>1, <2>2, <1>1, <1>2, NodeFrame DEF IInv
  <1>6. HeaviestIsTip'
    <2>1. PICK t \in tips : IsHeaviest(t, blocks)
      BY DEF IInv, HeaviestIsTip
    <2>2. t \in blocks /\ t \in AllIds /\ t # cur
      BY <2>1, <1>2 DEF IInv, TypeOK
    <2>3. \A a, b \in AllIds : ChainKeyLess(a, b)' <=> ChainKeyLess(a, b)
      BY <1>1 DEF ChainKeyLess
    <2>4. CASE ChainKeyLess(t, cur)
      <3>1. \A b \in blocks : ChainKeyLess(b, cur)
        BY <2>1, <2>2, <2>4, <1>2, ChainKeyOrder DEF IInv, IsHeaviest
      <3>2. IsHeaviest(cur, blocks \cup {cur})
        BY <3>1 DEF IsHeaviest
      <3>3. PICK m : m = cur
        OBVIOUS
      <3>4. m \in blocks' /\ m \in tips' /\ \A b \in blocks' \ {m} : ChainKeyLess(b, m)'
        BY <3>2, <3>3, <2>3, <1>1, <1>2 DEF IsHeaviest
      <3> QED
        BY <3>4 DEF HeaviestIsTip, IsHeaviest
    <2>5. CASE ~ChainKeyLess(t, cur)
      <3>1. ChainKeyLess(cur, t)
        BY <2>2, <2>5, <1>2, ChainKeyOrder DEF IInv
      <3>2. t \notin node[cur].parents
        BY <2>5, <1>2, KnownKeyGrows DEF IInv, NodeOK, PastOK
      <3>3. t \in tips'
        BY <2>1, <3>2, <1>1
      <3>4. \A b \in blocks' \ {t} : ChainKeyLess(b, t)'
        BY <2>1, <2>2, <2>3, <3>1, <1>1, <1>2 DEF IsHeaviest
      <3> QED
        BY <2>2, <3>3, <3>4, <1>1 DEF HeaviestIsTip, IsHeaviest
    <2> QED
      BY <2>4, <2>5
  <1> QED
    BY <1>3, <1>4, <1>5, <1>6 DEF IInv

\* A refused block leaves the stored blocks as they were.
LEMMA RefuseStep ==
    ASSUME IInv, Refuse
    PROVE  IInv'
  <1>1. /\ cur # NoBlock /\ rest = {} /\ cur' = NoBlock
        /\ blocks' = blocks /\ tips' = tips /\ rest' = rest
        /\ node' = [node EXCEPT ![cur] = NoNode(0)]
    BY DEF Refuse
  <1>2. /\ cur \in AllIds /\ cur \notin blocks
        /\ Known = blocks \cup {cur} /\ blocks \subseteq AllIds
        /\ NoBlock \notin AllIds
    BY <1>1, CurKnown, IdsAreInts
  <1>3. \A b \in blocks : node'[b] = node[b] /\ Uncoloured(b) = {} /\ Uncoloured(b)' = {}
    BY <1>1, <1>2 DEF IInv, TypeOK, Uncoloured
  <1>4. TypeOK'
    BY <1>1, <1>2, NoNodeType DEF IInv, TypeOK
  <1>5. CurInv'
    BY <1>1, <1>2 DEF IInv, CurInv
  <1>6. \A b \in Known' : NodeOK(b)'
    <2>1. Known' = blocks
      BY <1>1 DEF Known
    <2> QED
      BY <2>1, <1>1, <1>2, <1>3, NodeFrame DEF IInv
  <1>7. HeaviestIsTip'
    <2>1. \A a, b \in blocks : ChainKeyLess(a, b)' <=> ChainKeyLess(a, b)
      BY <1>3 DEF ChainKeyLess
    <2> QED
      BY <2>1, <1>1 DEF IInv, TypeOK, HeaviestIsTip, IsHeaviest
  <1> QED
    BY <1>4, <1>5, <1>6, <1>7 DEF IInv

\* The invariant holds of the DAG that holds genesis alone (Dag::new).
LEMMA InitStep == Init => IInv
  <1> SUFFICES ASSUME Init PROVE IInv
    OBVIOUS
  <1>1. TypeOK
    BY InitType
  <1>2. CurInv
    BY FS_Singleton, IdsAreInts DEF Init, CurInv
  <1>3. node[GenesisId] = NoNode(GenesisWork) /\ Uncoloured(GenesisId) = {}
    BY IdsAreInts DEF Init, Uncoloured
  <1>4. NodeOK(GenesisId)
    <2>1. PastOK(GenesisId)
      BY <1>3 DEF PastOK, NoNode
    <2>2. KeyOK(GenesisId) /\ MergeOK(GenesisId)
      BY DEF KeyOK, MergeOK
    <2>3. BlueOK(GenesisId)
      BY <1>3 DEF BlueOK, NoNode
    <2>4. CountOK(GenesisId)
      BY <1>3, FS_EmptySet DEF CountOK, NoNode
    <2> QED
      BY <2>1, <2>2, <2>3, <2>4 DEF NodeOK
  <1>5. HeaviestIsTip
    BY DEF Init, HeaviestIsTip, IsHeaviest
  <1> QED
    BY <1>1, <1>2, <1>4, <1>5 DEF Init, IInv, Known

\* No step of an insertion leaves the invariant.
LEMMA NextStep == IInv /\ [Next]_vars => IInv'
  <1> SUFFICES ASSUME IInv, [Next]_vars PROVE IInv'
    OBVIOUS
  <1>1. CASE BeginSome
    BY <1>1, BeginStep DEF BeginSome
  <1>2. ASSUME NEW c \in rest, ColourBlue(c) PROVE IInv'
    BY <1>2, ColourBlueStep
  <1>3. ASSUME NEW c \in rest, ColourRed(c) PROVE IInv'
    BY <1>3, ColourRedStep
  <1>4. CASE Commit
    BY <1>4, CommitStep
  <1>5. CASE Refuse
    BY <1>5, RefuseStep
  <1>6. CASE UNCHANGED vars
    <2>1. UNCHANGED <<blocks, tips, node, cur, rest>>
      BY <1>6 DEF vars
    <2>2. TypeOK' /\ CurInv'
      BY <2>1 DEF IInv, TypeOK, CurInv
    <2>3. Known' = Known /\ \A b \in Known : Uncoloured(b)' = Uncoloured(b)
      BY <2>1 DEF Known, Uncoloured
    <2>4. \A b \in Known' : NodeOK(b)'
      BY <2>1, <2>3, NodeFrame DEF IInv
    <2>5. HeaviestIsTip'
      BY <2>1 DEF IInv, HeaviestIsTip, IsHeaviest, ChainKeyLess
    <2> QED
      BY <2>2, <2>4, <2>5 DEF IInv
  <1> QED
    BY <1>1, <1>2, <1>3, <1>4, <1>5, <1>6 DEF Next

(***************************************************************************)
(* The theorems.                                                           *)
(***************************************************************************)

\* The inductive invariant holds in every reachable state.
THEOREM Invariance == Spec => []IInv
  BY InitStep, NextStep, PTL DEF Spec

\* Type correctness of every state an insertion goes through.
THEOREM TypeCorrect == Spec => []TypeOK
  <1>1. IInv => TypeOK
    BY DEF IInv
  <1> QED
    BY <1>1, Invariance, PTL

\* For every k, every DAG and every arrival order: a block is strictly heavier
\* than each of its ancestors.
THEOREM ChainKeyGrowing == Spec => []ChainKeyGrows
  <1>1. IInv => ChainKeyGrows
    BY KnownKeyGrows DEF ChainKeyGrows, Known
  <1> QED
    BY <1>1, Invariance, PTL

\* For every k, every DAG and every arrival order: the blue anticone sizes stored
\* with each block are exact, and at most k.
THEOREM KClusterHolds == Spec => []KCluster
  <1>1. IInv => KCluster
    BY DEF IInv, Known, NodeOK, BlueOK, KCluster
  <1> QED
    BY <1>1, Invariance, PTL

\* The O(1) bookkeeping of past_size and blue_score counts the past and the blue
\* set of every stored block.
THEOREM CountsAreExact == Spec => []CountsExact
  <1>1. ASSUME IInv, NEW b \in blocks
        PROVE  /\ node[b].past_size = Cardinality(node[b].past)
               /\ node[b].blue_score = Cardinality(node[b].blue_set)
    <2>1. b \in Known /\ b \in AllIds /\ Uncoloured(b) = {}
      BY <1>1 DEF IInv, CurInv, TypeOK, Known, Uncoloured
    <2>2. Cardinality(Uncoloured(b)) = 0
      BY <2>1, FS_EmptySet
    <2> QED
      BY <1>1, <2>1, <2>2, NodeFields DEF IInv, NodeOK, CountOK
  <1>2. IInv => CountsExact
    BY <1>1 DEF CountsExact
  <1> QED
    BY <1>2, Invariance, PTL

\* The mergeset of every stored block is the part of its past in the anticone of
\* its selected parent, each block of it coloured once.
THEOREM MergesetsAreAnticones == Spec => []MergesetIsAnticone
  <1>1. ASSUME IInv, NEW b \in blocks \ {GenesisId}
        PROVE  LET n == node[b]
               IN  /\ n.mergeset_blues \cup n.mergeset_reds
                        = {a \in n.past : InAnticone(a, n.selected_parent)}
                   /\ n.mergeset_blues \cap n.mergeset_reds = {}
    <2> DEFINE n == node[b]
               sp == n.selected_parent
    <2>1. /\ b \in Known /\ b \in AllIds /\ Uncoloured(b) = {} /\ NodeOK(b)
      BY <1>1 DEF IInv, CurInv, TypeOK, Known, Uncoloured
    <2>2. sp \in n.past /\ n.past \subseteq blocks /\ sp \in blocks /\ sp \in Known
      BY <1>1, <2>1 DEF NodeOK, PastOK, Known
    <2>3. n.mergeset_blues \cup n.mergeset_reds = n.past \ (node[sp].past \cup {sp})
      BY <1>1, <2>1 DEF NodeOK, MergeOK
    <2>4. ASSUME NEW a \in n.past PROVE sp \notin node[a].past
      <3>1. SUFFICES ASSUME sp \in node[a].past PROVE FALSE
        OBVIOUS
      <3>2. a \in Known /\ a \in AllIds /\ sp \in AllIds
        BY <2>2, <2>4, <1>1 DEF IInv, TypeOK, Known
      <3>3. ChainKeyLess(sp, a)
        BY <1>1, <3>1, <3>2, KnownKeyGrows
      <3>4. a = sp \/ ChainKeyLess(a, sp)
        BY <1>1, <2>1, <2>4 DEF NodeOK, KeyOK
      <3> QED
        BY <1>1, <3>2, <3>3, <3>4, ChainKeyOrder DEF IInv
    <2>5. {a \in n.past : InAnticone(a, sp)} = n.past \ (node[sp].past \cup {sp})
      BY <2>4 DEF InAnticone
    <2>6. n.mergeset_blues \cap n.mergeset_reds = {}
      BY <1>1, <2>1 DEF NodeOK, MergeOK
    <2> QED
      BY <2>3, <2>5, <2>6
  <1>2. IInv => MergesetIsAnticone
    BY <1>1 DEF MergesetIsAnticone
  <1> QED
    BY <1>2, Invariance, PTL

\* Picking the heaviest tip picks the heaviest block of the whole DAG.
THEOREM HeaviestIsAlwaysTip == Spec => []HeaviestIsTip
  <1>1. IInv => HeaviestIsTip
    BY DEF IInv
  <1> QED
    BY <1>1, Invariance, PTL


-----------------------------------------------------------------------------
(* Finality and pruning. *)

(***************************************************************************)
(* The selected tip.                                                       *)
(***************************************************************************)

\* The heaviest block of a set of ids is unique.
LEMMA HeaviestUnique ==
    ASSUME TypeOK, NEW S \in SUBSET AllIds, NEW a, NEW b,
           IsHeaviest(a, S), IsHeaviest(b, S)
    PROVE  a = b
  BY ChainKeyOrder DEF IsHeaviest

\* selected_tip, which compares the tips only, picks the heaviest stored block.
LEMMA SelectedTipHeaviest ==
    IInv => SelectedTip \in tips /\ SelectedTip \in blocks /\ IsHeaviest(SelectedTip, blocks)
  <1> SUFFICES ASSUME IInv
               PROVE  SelectedTip \in tips /\ SelectedTip \in blocks
                        /\ IsHeaviest(SelectedTip, blocks)
    OBVIOUS
  <1>1. TypeOK /\ tips \subseteq blocks /\ blocks \subseteq AllIds
    BY DEF IInv, TypeOK
  <1>2. PICK t \in tips : IsHeaviest(t, blocks)
    BY DEF IInv, HeaviestIsTip
  <1>3. IsHeaviest(t, tips)
    BY <1>1, <1>2 DEF IsHeaviest
  <1>4. SelectedTip \in tips /\ IsHeaviest(SelectedTip, tips)
    BY <1>3 DEF SelectedTip
  <1>5. SelectedTip = t
    BY <1>1, <1>3, <1>4, HeaviestUnique
  <1> QED
    BY <1>1, <1>2, <1>5

\* A step that stores no block leaves the selected tip and the finality score
\* alone.
LEMMA SameBlocks ==
    ASSUME IInv, IInv', UNCHANGED <<blocks, tips>>,
           \A b \in blocks : node'[b] = node[b]
    PROVE  SelectedTip' = SelectedTip /\ FinalityScore' = FinalityScore
  <1>1. SelectedTip \in blocks /\ IsHeaviest(SelectedTip, blocks) /\ TypeOK
        /\ blocks \subseteq AllIds
    BY SelectedTipHeaviest DEF IInv, TypeOK
  <1>2. (SelectedTip \in blocks /\ IsHeaviest(SelectedTip, blocks))'
    BY SelectedTipHeaviest, PTL
  <1>3. PICK t \in blocks : t = SelectedTip'
    BY <1>2
  <1>4. IsHeaviest(t, blocks)
    BY <1>2, <1>3 DEF IsHeaviest, ChainKeyLess
  <1>5. SelectedTip' = SelectedTip
    BY <1>1, <1>3, <1>4, HeaviestUnique
  <1>6. node'[SelectedTip'] = node[SelectedTip]
    BY <1>1, <1>5
  <1> QED
    BY <1>5, <1>6 DEF FinalityScore

\* Storing a block moves the selected tip, if at all, to that block.
LEMMA CommitTip ==
    ASSUME IInv, Commit
    PROVE  /\ SelectedTip' \in {cur, SelectedTip}
           /\ SelectedTip = SelectedTip' \/ ChainKeyLess(SelectedTip, cur)
  <1>1. SelectedTip \in blocks /\ IsHeaviest(SelectedTip, blocks) /\ TypeOK
        /\ blocks \subseteq AllIds
    BY SelectedTipHeaviest DEF IInv, TypeOK
  <1>2. IInv'
    BY CommitStep
  <1>3. (SelectedTip \in blocks /\ IsHeaviest(SelectedTip, blocks))'
    BY <1>2, SelectedTipHeaviest, PTL
  <1>4. cur # NoBlock /\ blocks' = blocks \cup {cur} /\ node' = node
    BY DEF Commit
  <1>5. PICK t \in blocks \cup {cur} : t = SelectedTip'
    BY <1>3, <1>4
  <1>6. \A b \in (blocks \cup {cur}) \ {t} : ChainKeyLess(b, t)
    BY <1>3, <1>4, <1>5 DEF IsHeaviest, ChainKeyLess
  <1>7. CASE t = cur
    BY <1>1, <1>5, <1>6, <1>7
  <1>8. CASE t \in blocks
    <2>1. IsHeaviest(t, blocks)
      BY <1>6, <1>8 DEF IsHeaviest
    <2> QED
      BY <1>1, <1>5, <2>1, HeaviestUnique
  <1> QED
    BY <1>5, <1>7, <1>8

(***************************************************************************)
(* The steps of the ledger are steps of the DAG.                           *)
(***************************************************************************)

\* Only the commit of a block changes the stored blocks, their nodes or the
\* stored states; the colouring works on the block that is not stored yet.
LEMMA LedgerSteps ==
    ASSUME IInv, [FNext]_fvars
    PROVE  /\ [Next]_vars
           /\ IInv'
           /\ \/ LedgerCommit
              \/ /\ UNCHANGED <<blocks, tips, states>>
                 /\ \A b \in blocks : node'[b] = node[b]
  <1> DEFINE Quiet == /\ UNCHANGED <<blocks, tips, states>>
                      /\ \A b \in blocks : node'[b] = node[b]
  <1>1. blocks \subseteq AllIds /\ cur \notin blocks /\ node \in [AllIds -> NodeType] /\ TypeOK
    BY DEF IInv, TypeOK, CurInv
  <1>2. ASSUME NEW id \in Ids, NEW ps \in SUBSET blocks, Cardinality(ps) <= MaxParents,
               NEW sp \in ps, NEW w \in Works, LedgerBegin(id, ps, w, sp)
        PROVE  Next /\ Quiet
    <2>1. Begin(id, ps, w, sp) /\ states' = states
      BY <1>2 DEF LedgerBegin
    <2>2. \A b \in AllIds \ {id} : node'[b] = node[b]
      BY <1>1, <2>1, BeginNode
    <2>3. id \notin blocks /\ UNCHANGED <<blocks, tips>>
      BY <2>1 DEF Begin
    <2>4. BeginSome
      BY <1>2, <2>1 DEF BeginSome
    <2> QED
      BY <1>1, <2>1, <2>2, <2>3, <2>4 DEF Next
  <1>3. ASSUME NEW id, NEW ps, NEW sp, LedgerPanic(id, ps, sp)
        PROVE  UNCHANGED vars /\ Quiet
    BY <1>3 DEF LedgerPanic, vars
  <1>4. ASSUME LedgerColour PROVE Next /\ Quiet
    <2>1. PICK c \in rest : ColourBlue(c) \/ ColourRed(c)
      BY <1>4 DEF LedgerColour
    <2>2. \A b \in AllIds \ {cur} : node'[b] = node[b]
      BY <2>1, ColourBlueNode, ColourRedNode
    <2>3. UNCHANGED <<blocks, tips, states>>
      BY <1>4, <2>1 DEF LedgerColour, ColourBlue, ColourRed
    <2> QED
      BY <1>1, <2>1, <2>2, <2>3 DEF Next
  <1>5. ASSUME LedgerCommit PROVE Next
    BY <1>5 DEF LedgerCommit, Next
  <1>6. ASSUME LedgerRefuse PROVE Next /\ Quiet
    <2>1. Refuse /\ states' = states
      BY <1>6 DEF LedgerRefuse
    <2>2. node' = [node EXCEPT ![cur] = NoNode(0)] /\ UNCHANGED <<blocks, tips>>
      BY <2>1 DEF Refuse
    <2>3. \A b \in blocks : node'[b] = node[b]
      BY <1>1, <2>2
    <2> QED
      BY <2>1, <2>2, <2>3 DEF Next
  <1>7. ASSUME UNCHANGED fvars PROVE UNCHANGED vars /\ Quiet
    BY <1>7 DEF fvars, vars
  <1>8. [Next]_vars /\ (LedgerCommit \/ Quiet)
    BY <1>2, <1>3, <1>4, <1>5, <1>6, <1>7 DEF FNext, fvars
  <1> QED
    BY <1>8, NextStep

(***************************************************************************)
(* The selected tip keeps its state.                                       *)
(***************************************************************************)

\* The block just stored, or the selected tip it did not displace, is at or above
\* the finality score, so prune keeps its state.
LEMMA TipStep == TipInv /\ [FNext]_fvars => TipInv'
  <1> SUFFICES ASSUME TipInv, [FNext]_fvars PROVE TipInv'
    OBVIOUS
  <1>1. IInv /\ FTypeOK /\ TipHasState /\ TypeOK
    BY DEF TipInv, FTypeOK
  <1>2. IInv' /\ TypeOK'
    BY <1>1, LedgerSteps DEF IInv
  <1>3. panicked' \in BOOLEAN
    BY <1>1 DEF FTypeOK, FNext, fvars, LedgerBegin, LedgerPanic, LedgerColour,
                LedgerCommit, LedgerRefuse
  <1>4. CASE LedgerCommit
    <2>1. /\ Commit /\ blocks' = blocks \cup {cur} /\ node' = node
          /\ states' = {b \in states \cup {cur} : node[b].blue_score >= FinalityScore'}
      BY <1>4 DEF LedgerCommit, Commit
    <2>2. PICK t \in {cur, SelectedTip} : t = SelectedTip'
      BY <1>1, <2>1, CommitTip
    <2>3. t \in states \cup {cur}
      BY <1>1, <2>2 DEF TipHasState
    <2>4. t \in AllIds /\ node[t].blue_score \in Nat
      BY <1>1, <2>1, <2>3, NodeFields DEF FTypeOK, TypeOK, AllIds, Commit
    <2>5. FinalityScore' = IF node[t].blue_score > Depth THEN node[t].blue_score - Depth ELSE 0
      BY <2>1, <2>2 DEF FinalityScore
    <2>6. node[t].blue_score >= FinalityScore'
      BY <2>4, <2>5, DepthAssumption
    <2>7. TipHasState'
      BY <2>1, <2>2, <2>3, <2>6 DEF TipHasState
    <2>8. states' \in SUBSET blocks'
      BY <1>1, <2>1 DEF FTypeOK
    <2> QED
      BY <1>2, <1>3, <2>7, <2>8 DEF TipInv, FTypeOK
  <1>5. CASE /\ UNCHANGED <<blocks, tips, states>>
             /\ \A b \in blocks : node'[b] = node[b]
    <2>1. SelectedTip' = SelectedTip
      BY <1>1, <1>2, <1>5, SameBlocks
    <2> QED
      BY <1>1, <1>2, <1>3, <1>5, <2>1 DEF TipInv, FTypeOK, TipHasState
  <1> QED
    BY <1>1, <1>4, <1>5, LedgerSteps

\* Ledger::with_finality starts with the state of genesis.
LEMMA TipInit == FInit => TipInv
  <1> SUFFICES ASSUME FInit PROVE TipInv
    OBVIOUS
  <1>1. IInv /\ TypeOK
    BY InitStep DEF FInit, IInv
  <1>2. blocks = {GenesisId} /\ states = {GenesisId} /\ panicked = FALSE
    BY DEF FInit, Init
  <1>3. SelectedTip \in blocks
    BY <1>1, SelectedTipHeaviest
  <1> QED
    BY <1>1, <1>2, <1>3 DEF TipInv, FTypeOK, TipHasState

\* The invariant behind TipStateKept, whatever works the blocks carry.
LEMMA TipInvariance == FSpec => []TipInv
  BY TipInit, TipStep, PTL DEF FSpec

\* Type correctness: a stored state is the state of a stored block, during an
\* insertion too.
THEOREM FinalityTypeCorrect == FSpec => []FTypeOK
  <1>1. TipInv => FTypeOK
    BY DEF TipInv
  <1> QED
    BY <1>1, TipInvariance, PTL

\* For every k, depth and works: prune never drops the state of the selected tip,
\* from which ledger_state starts, so its expect cannot fail.
THEOREM TipStateKept == FSpec => []TipHasState
  <1>1. TipInv => TipHasState
    BY DEF TipInv
  <1> QED
    BY <1>1, TipInvariance, PTL

(***************************************************************************)
(* Blocks of one work.                                                     *)
(***************************************************************************)

\* Multiplication by a natural number.
LEMMA TimesSucc == \A w, s \in Nat : w * (s + 1) = w * s + w
  OBVIOUS

\* It is monotone.
LEMMA TimesMonotone == \A w, r, s \in Nat : r <= s => w * r <= w * s
  OBVIOUS

\* With one work for all blocks, a heavier block has no lower blue score.
LEMMA HeavierScoresNoLess ==
    ASSUME TypeOK, NEW a \in AllIds, NEW b \in AllIds, SameWork(a), SameWork(b),
           ChainKeyLess(a, b)
    PROVE  node[a].blue_score <= node[b].blue_score
  <1>1. /\ node[a].blue_score \in Nat /\ node[b].blue_score \in Nat
        /\ node[a].blue_work \in Nat /\ node[b].blue_work \in Nat
    BY NodeFields
  <1>2. SUFFICES ASSUME node[b].blue_score <= node[a].blue_score - 1 PROVE FALSE
    BY <1>1
  <1>3. node[b].blue_work <= node[a].blue_work
    BY <1>1, <1>2, TimesMonotone, GhostdagAssumption DEF SameWork
  <1> QED
    BY <1>1, <1>2, <1>3 DEF ChainKeyLess

\* Every step of an insertion keeps blue_work a multiple of blue_score, when all
\* blocks carry the work of genesis.
LEMMA SameWorkStep ==
    ASSUME Works = {GenesisWork}, IInv, \A b \in Known : SameWork(b), [Next]_vars
    PROVE  \A b \in Known' : SameWork(b)'
  <1>1. /\ TypeOK /\ blocks \subseteq AllIds /\ cur \notin blocks /\ rest \subseteq blocks
        /\ cur \in Ids \cup {NoBlock} /\ node \in [AllIds -> NodeType]
    BY DEF IInv, TypeOK, CurInv
  <1>2. \A b \in blocks : SameWork(b)
    BY DEF Known
  <1>3. ASSUME NEW id \in Ids, NEW ps \in SUBSET blocks, NEW w \in Works, NEW sp \in ps,
               Begin(id, ps, w, sp)
        PROVE  \A b \in Known' : SameWork(b)'
    <2>1. /\ cur' = id /\ id \in AllIds /\ sp \in AllIds
          /\ \A b \in AllIds \ {id} : node'[b] = node[b]
          /\ node'[id].work = w
          /\ node'[id].blue_score = node[sp].blue_score + 1
          /\ node'[id].blue_work = node[sp].blue_work + node[sp].work
      BY <1>1, <1>3, BeginNode
    <2>2. id \notin blocks /\ blocks' = blocks /\ id # NoBlock
      BY <1>3, IdsAreInts DEF Begin, AllIds
    <2>3. Known' = blocks \cup {id}
      BY <2>1, <2>2 DEF Known
    <2>4. node[sp].blue_score \in Nat /\ SameWork(sp)
      BY <1>1, <1>2, <2>1, NodeFields
    <2>5. GenesisWork * (node[sp].blue_score + 1) = GenesisWork * node[sp].blue_score + GenesisWork
      BY <2>4, TimesSucc, GhostdagAssumption
    <2>6. SameWork(id)'
      BY <2>1, <2>4, <2>5 DEF SameWork
    <2>7. \A b \in blocks : SameWork(b)'
      BY <1>1, <1>2, <2>1, <2>2 DEF SameWork
    <2> QED
      BY <2>3, <2>6, <2>7
  <1>4. ASSUME NEW c \in rest, ColourBlue(c)
        PROVE  \A b \in Known' : SameWork(b)'
    <2>1. /\ c \in AllIds
          /\ \A b \in AllIds \ {cur} : node'[b] = node[b]
          /\ node'[cur].work = node[cur].work
          /\ node'[cur].blue_score = node[cur].blue_score + 1
          /\ node'[cur].blue_work = node[cur].blue_work + node[c].work
      BY <1>4, ColourBlueNode
    <2>2. cur # NoBlock /\ UNCHANGED <<blocks, cur>>
      BY <1>4 DEF ColourBlue
    <2>3. Known' = blocks \cup {cur} /\ Known = blocks \cup {cur} /\ cur \in AllIds
      BY <1>1, <2>2 DEF Known, AllIds
    <2>4. node[cur].blue_score \in Nat /\ SameWork(cur) /\ SameWork(c)
      BY <1>1, <1>2, <2>3, NodeFields
    <2>5. GenesisWork * (node[cur].blue_score + 1) = GenesisWork * node[cur].blue_score + GenesisWork
      BY <2>4, TimesSucc, GhostdagAssumption
    <2>6. node'[cur].work = GenesisWork
          /\ node'[cur].blue_work = GenesisWork * node'[cur].blue_score
      BY <2>1, <2>4, <2>5 DEF SameWork
    <2>7. \A b \in blocks : SameWork(b)'
      BY <1>1, <1>2, <2>1 DEF SameWork
    <2> QED
      BY <2>2, <2>3, <2>6, <2>7 DEF SameWork
  <1>5. ASSUME NEW c \in rest, ColourRed(c)
        PROVE  \A b \in Known' : SameWork(b)'
    <2>1. /\ \A b \in AllIds \ {cur} : node'[b] = node[b]
          /\ node'[cur].work = node[cur].work
          /\ node'[cur].blue_score = node[cur].blue_score
          /\ node'[cur].blue_work = node[cur].blue_work
      BY <1>5, ColourRedNode
    <2>2. Known' = Known /\ Known \subseteq AllIds
      BY <1>1, <1>5, IdsAreInts DEF ColourRed, Known, AllIds
    <2> QED
      BY <2>1, <2>2 DEF SameWork
  <1>6. CASE Commit
    BY <1>6 DEF Commit, Known, SameWork
  <1>7. CASE Refuse
    <2>1. Known' = blocks /\ node' = [node EXCEPT ![cur] = NoNode(0)]
      BY <1>7 DEF Refuse, Known
    <2>2. \A b \in blocks : node'[b] = node[b]
      BY <1>1, <2>1
    <2> QED
      BY <1>2, <2>1, <2>2 DEF SameWork
  <1>8. CASE UNCHANGED vars
    BY <1>8 DEF vars, Known, SameWork
  <1> QED
    BY <1>3, <1>4, <1>5, <1>6, <1>7, <1>8 DEF Next, BeginSome

(***************************************************************************)
(* With blocks of one work, finality only rises and nothing that may still *)
(* be built on is pruned.                                                  *)
(***************************************************************************)

\* No step lowers the finality score: a tip that takes over is heavier, and so
\* scores no less.
LEMMA ScoreRises ==
    ASSUME Works = {GenesisWork}, UniformInv, [FNext]_fvars
    PROVE  /\ FinalityScore \in Nat /\ FinalityScore' \in Nat
           /\ FinalityScore' >= FinalityScore
  <1>1. IInv /\ TypeOK /\ SelectedTip \in blocks /\ blocks \subseteq AllIds
        /\ \A b \in Known : SameWork(b)
    BY SelectedTipHeaviest DEF UniformInv, TipInv, IInv, TypeOK
  <1>2. node[SelectedTip].blue_score \in Nat
    BY <1>1, NodeFields
  <1>3. FinalityScore \in Nat
    BY <1>2, DepthAssumption DEF FinalityScore
  <1>4. CASE LedgerCommit
    <2>1. Commit /\ node' = node /\ cur # NoBlock
      BY <1>4 DEF LedgerCommit, Commit
    <2>2. PICK t \in {cur, SelectedTip} :
            t = SelectedTip' /\ (t = SelectedTip \/ ChainKeyLess(SelectedTip, cur))
      BY <1>1, <2>1, CommitTip
    <2>3. cur \in AllIds /\ cur \in Known /\ SelectedTip \in Known /\ SelectedTip \in AllIds
      BY <1>1, <2>1, CurKnown DEF Known
    <2>4. node[t].blue_score \in Nat
      BY <1>1, <2>2, <2>3, NodeFields
    <2>5. node[SelectedTip].blue_score <= node[t].blue_score
      <3>1. CASE t = SelectedTip
        BY <1>2, <3>1
      <3>2. CASE t = cur /\ ChainKeyLess(SelectedTip, cur)
        BY <1>1, <2>3, <3>2, HeavierScoresNoLess
      <3> QED
        BY <2>2, <3>1, <3>2
    <2>6. FinalityScore' = IF node[t].blue_score > Depth THEN node[t].blue_score - Depth ELSE 0
      BY <2>1, <2>2 DEF FinalityScore
    <2> QED
      BY <1>2, <1>3, <2>4, <2>5, <2>6, DepthAssumption DEF FinalityScore
  <1>5. CASE /\ UNCHANGED <<blocks, tips, states>>
             /\ \A b \in blocks : node'[b] = node[b]
    <2>1. FinalityScore' = FinalityScore
      BY <1>1, <1>5, LedgerSteps, SameBlocks
    <2> QED
      BY <1>3, <2>1
  <1> QED
    BY <1>1, <1>4, <1>5, LedgerSteps

\* Every step preserves the invariant: the lookup that follows a passed finality
\* check finds a state, and prune drops only what stays final.
LEMMA UniformStep ==
    ASSUME Works = {GenesisWork}
    PROVE  UniformInv /\ [FNext]_fvars => UniformInv'
  <1> SUFFICES ASSUME UniformInv, [FNext]_fvars PROVE UniformInv'
    OBVIOUS
  <1>1. TipInv /\ NonFinalHasState /\ ~panicked /\ IInv /\ TypeOK /\ blocks \subseteq AllIds
        /\ \A b \in Known : SameWork(b)
    BY DEF UniformInv, TipInv, NoPanic, IInv, TypeOK
  <1>2. TipInv'
    BY <1>1, TipStep
  <1>3. [Next]_vars
    BY <1>1, LedgerSteps
  <1>4. \A b \in Known' : SameWork(b)'
    BY <1>1, <1>3, SameWorkStep
  <1>5. ~panicked'
    <2>1. ASSUME NEW id, NEW ps, NEW sp, LedgerPanic(id, ps, sp) PROVE FALSE
      BY <1>1, <2>1 DEF LedgerPanic, IsHeaviest, NonFinalHasState
    <2> QED
      BY <1>1, <2>1 DEF FNext, fvars, LedgerBegin, LedgerColour, LedgerCommit, LedgerRefuse
  <1>6. /\ FinalityScore \in Nat /\ FinalityScore' \in Nat
        /\ FinalityScore' >= FinalityScore
    BY ScoreRises
  <1>7. \A b \in blocks : node[b].blue_score \in Nat
    BY <1>1, NodeFields
  <1>8. NonFinalHasState'
    <2>1. CASE LedgerCommit
      <3>1. /\ blocks' = blocks \cup {cur} /\ node' = node
            /\ states' = {b \in states \cup {cur} : node[b].blue_score >= FinalityScore'}
        BY <2>1 DEF LedgerCommit, Commit
      <3>2. ASSUME NEW b \in blocks \cup {cur}, node[b].blue_score >= FinalityScore'
            PROVE  b \in states \cup {cur}
        BY <1>1, <1>6, <1>7, <3>2 DEF NonFinalHasState
      <3> QED
        BY <3>1, <3>2 DEF NonFinalHasState
    <2>2. CASE /\ UNCHANGED <<blocks, tips, states>>
               /\ \A b \in blocks : node'[b] = node[b]
      BY <1>1, <1>6, <1>7, <2>2 DEF NonFinalHasState
    <2> QED
      BY <1>1, <2>1, <2>2, LedgerSteps
  <1> QED
    BY <1>2, <1>4, <1>5, <1>8 DEF UniformInv, NoPanic

\* The invariant holds of a new ledger.
LEMMA UniformInit == FInit => UniformInv
  <1> SUFFICES ASSUME FInit PROVE UniformInv
    OBVIOUS
  <1>1. TipInv
    BY TipInit
  <1>2. /\ blocks = {GenesisId} /\ states = {GenesisId} /\ panicked = FALSE
        /\ cur = NoBlock /\ node[GenesisId] = NoNode(GenesisWork)
    BY IdsAreInts DEF FInit, Init
  <1>3. SameWork(GenesisId)
    BY <1>2, GhostdagAssumption DEF SameWork, NoNode
  <1>4. NonFinalHasState
    BY <1>2 DEF NonFinalHasState
  <1> QED
    BY <1>1, <1>2, <1>3, <1>4 DEF UniformInv, NoPanic, Known

\* The invariant of a ledger whose blocks all carry the work of genesis.
LEMMA UniformInvariance ==
    ASSUME Works = {GenesisWork}
    PROVE  FSpec => []UniformInv
  BY UniformInit, UniformStep, PTL DEF FSpec

\* When all blocks carry one work, every block the finality check lets a new block
\* build on has a stored state, for every k and depth.
THEOREM NonFinalStatesKept ==
    ASSUME Works = {GenesisWork}
    PROVE  FSpec => []NonFinalHasState
  <1>1. UniformInv => NonFinalHasState
    BY DEF UniformInv
  <1> QED
    BY <1>1, UniformInvariance, PTL

\* When all blocks carry one work, Ledger::insert never panics on the lookup of its
\* selected parent's state, for every k and depth.
THEOREM InsertNeverPanics ==
    ASSUME Works = {GenesisWork}
    PROVE  FSpec => []NoPanic
  <1>1. UniformInv => NoPanic
    BY DEF UniformInv
  <1> QED
    BY <1>1, UniformInvariance, PTL

\* When all blocks carry one work, finality only rises, as the comment of prune
\* says, across every re-organisation.
THEOREM FinalityRises ==
    ASSUME Works = {GenesisWork}
    PROVE  FSpec => FinalityOnlyRises
  <1>1. UniformInv /\ [FNext]_fvars => [FinalityScore' >= FinalityScore]_fvars
    BY ScoreRises
  <1> QED
    BY <1>1, UniformInvariance, PTL DEF FSpec, FinalityOnlyRises
=============================================================================
